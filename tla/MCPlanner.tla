----------------------------- MODULE MCPlanner ------------------------------
(* A family of small organisations for Planner: cyclic roles, cookbooks and  *)
(* groups, an environment with a pin, two nodes of one policy group.         *)
EXTENDS Planner, TLC

CONSTANTS p1, p2, r1, r2, a1, i1    \* policies, revisions, an artifact, an item

C(op, a, b, c) == [op |-> op, v |-> <<a, b, c>>, patch |-> TRUE]
Pessimistic == [op |-> "~>", v |-> <<1, 0, 0>>, patch |-> FALSE]
NoPins == [n \in {} |-> AnyVersion]
Role(n) == [role |-> TRUE, name |-> n, pin |-> NoVersion]
Recipe(n) == [Role(n) EXCEPT !.role = FALSE]
RecipeAt(n, v) == [Recipe(n) EXCEPT !.pin = v]
MCNames == {"_default", "prod", "app", "base", "lib", "web", "db", "gone"}
Policyless(env, list) == [env |-> env, list |-> list, policy |-> None, policyGroup |-> None]

Organisation(list1, env, pins, needs, more) ==
    [cookbooks |-> ("app" :> (<<1, 0, 0>> :> {<<"base", C(">=", 1, 0, 0)>>} @@
                              <<2, 0, 0>> :> needs)) @@
                   ("base" :> (<<1, 0, 0>> :> {} @@
                               <<1, 2, 0>> :> {<<"lib", C("<", 2, 0, 0)>>} @@
                               <<2, 0, 0>> :> {})) @@
                   ("lib" :> (<<1, 0, 0>> :> {<<"base", AnyVersion>>})),
     envs      |-> ("_default" :> NoPins) @@ ("prod" :> pins),
     roles     |-> ("web" :> [list |-> <<Recipe("app"), Role("db")>>,
                              envLists |-> "prod" :> <<Role("db")>>]) @@
                   ("db" :> [list |-> more, envLists |-> NoPins]),
     nodes     |-> ("n1" :> Policyless(env, list1)) @@
                   ("n2" :> [Policyless("prod", <<>>) EXCEPT !.policy = p1, !.policyGroup = "pg"]) @@
                   ("n3" :> [Policyless("_default", <<>>) EXCEPT !.policy = p2, !.policyGroup = "pg"]),
     policies  |-> (<<p1, r1>> :> {<<"app", a1>>}) @@ (<<p2, r2>> :> {<<"app", a1>>}),
     policyGroups |-> "pg" :> (p1 :> r1 @@ p2 :> r2),
     groups    |-> ("g1" :> [groups |-> {"g2"}, clients |-> {"c1"}]) @@
                   ("g2" :> [groups |-> {"g1"}, clients |-> {}]),
     clients   |-> {"c1"}, containers |-> {"nodes"}, bags |-> "bag" :> {i1}]

MCSources ==
    {Organisation(list1, env, pins, needs, more) :
        list1 \in {<<Role("web")>>, <<Recipe("lib"), Recipe("app")>>,
                  <<RecipeAt("app", <<1, 0, 0>>)>>, <<Role("gone"), Recipe("gone")>>},
        env \in {"_default", "prod"},
        pins \in {NoPins, "base" :> C("=", 1, 0, 0), "base" :> C(">", 3, 0, 0)},
        needs \in {{<<"base", Pessimistic>>}, {<<"base", C("<=", 1, 2, 0)>>, <<"lib", C("=", 1, 0, 0)>>}},
        more \in {<<Recipe("base"), Role("web")>>, <<Recipe("gone")>>}}

Ask(its) == [items |-> its, deps |-> TRUE, acl |-> FALSE, env |-> "_default", inUse |-> FALSE]
MCRequests ==
    {[Ask(<<>>) EXCEPT !.inUse = TRUE, !.acl = TRUE],
     Ask(<<Item("node", "n1", None), Item("cookbook", "app", None)>>),
     Ask(<<Item("role", "web", None), Item("node", "n1", None)>>),
     [Ask(<<Item("role", "web", None)>>) EXCEPT !.env = "prod"],
     Ask(<<Item("group", "g1", None), Item("item", "bag", i1)>>),
     Ask(<<Item("node", "n2", None), Item("policygroup", "pg", None)>>),
     [Ask(<<Item("cookbook", "gone", None)>>) EXCEPT !.deps = FALSE],
     [Ask(<<Item("node", "n1", None), Item("databag", "bag", None)>>) EXCEPT !.deps = FALSE, !.acl = TRUE]}
=============================================================================
