------------------------------ MODULE Planner -------------------------------
(***************************************************************************)
(* The planning of a transfer (internal/transfer/plan.go and inuse.go):    *)
(* the planner takes items from a queue, reads what each depends on from   *)
(* the source organisation, and queues that, until nothing new comes.      *)
(* Items whose order in the queue the code leaves to a Go map stand in one *)
(* set of the queue.  The source does not change during the planning, but  *)
(* any request to it may fail.                                             *)
(***************************************************************************)
EXTENDS Deps

CONSTANTS
    None,       \* no version, revision or body
    Sources,    \* the organisations there may be a plan for
    Requests    \* what may be asked for

Kinds == {"container", "group", "client", "environment", "cookbook", "artifact",
          "role", "databag", "item", "node", "policy", "policygroup"}
ACLKinds == Kinds \ {"item"}

VARIABLES
    src,        \* the source organisation
    req,        \* the request with its options
    queue,      \* what is still to be added: a sequence of sets of items
    items, acls, warnings,  \* the plan
    pc          \* "planning", "done" or "failed"

vars == <<src, req, queue, items, acls, warnings, pc>>

Item(kind, name, sub) ==
    [kind |-> kind, name |-> name, sub |-> sub, resolved |-> FALSE, body |-> None]
Resolved(kind, name, sub) == [Item(kind, name, sub) EXCEPT !.resolved = TRUE]

\* Bug: two versions of a cookbook count as one item.
KeyByName(it) == <<it.kind, it.name>>

Key(it) == <<it.kind, it.name, it.sub>>

\* An organisation has finitely many roles and cookbooks; a request names
\* items that are not resolved, of cookbooks those with or without a version.
ASSUME PlannerAssumption ==
    /\ None \notin Version
    /\ \A org \in Sources :
          /\ DOMAIN org.cookbooks \subseteq Names /\ IsFiniteSet(DOMAIN org.cookbooks)
          /\ \A n \in DOMAIN org.cookbooks :
                /\ DOMAIN org.cookbooks[n] \subseteq Version
                /\ IsFiniteSet(DOMAIN org.cookbooks[n])
                /\ \A v \in DOMAIN org.cookbooks[n] :
                      /\ org.cookbooks[n][v] \subseteq Names \X Constraint
                      /\ IsFiniteSet(org.cookbooks[n][v])
          /\ DOMAIN org.roles \subseteq Names /\ IsFiniteSet(DOMAIN org.roles)
          /\ \A r \in DOMAIN org.roles :
                /\ org.roles[r].list \in Seq(Entry)
                /\ \A e \in DOMAIN org.roles[r].envLists : org.roles[r].envLists[e] \in Seq(Entry)
          /\ \A n \in DOMAIN org.nodes : org.nodes[n].list \in Seq(Entry)
    /\ \A r \in Requests :
          /\ r.deps \in BOOLEAN /\ r.inUse \in BOOLEAN
          /\ r.items \in Seq(ToSet(r.items))
          /\ \A it \in ToSet(r.items) :
                /\ it = Item(it.kind, it.name, it.sub) /\ it.kind \in Kinds
                /\ it.kind = "cookbook" => it.sub \in Version \union {None}

\* Bug: the planner forgets what it has seen.
SeenNever(it) == FALSE

Seen(it) == \E seen \in items : Key(seen) = Key(it)

Versions(name) == IF name \in DOMAIN src.cookbooks THEN DOMAIN src.cookbooks[name] ELSE {}

\* The depsolver of an organisation in an environment, for cookbooks with
\* constraints.
SolveOn(org, env, asked) ==
    IF asked = <<>> THEN {{}}
    ELSE IF env \notin DOMAIN org.envs THEN {Unsolved}
    ELSE Depsolve(org.cookbooks, org.envs[env], asked)

\* The planner asks it for recipes that have lost their pins.
Bare(recipes) == [i \in DOMAIN recipes |-> <<recipes[i], AnyVersion>>]

\* Any error counts as a refusal: a timeout, an answer of 403 or 500.
Solutions(env, recipes) ==
    SolveOn(src, env, Bare(recipes)) \union (IF recipes = <<>> THEN {} ELSE {Unsolved})

-----------------------------------------------------------------------------
(* What an item brings into the queue, next, and into the warnings, warn.  *)

Stage(S) == IF S = {} THEN <<>> ELSE <<S>>

Brings(S, warn) == [next |-> Stage(S), warn |-> warn]

\* The results of runList: roles and cookbooks, already expanded, and without
\* the depsolver the newest versions there are.
RunList(list, env, because) ==
    LET ex == Expand(src.roles, list, env)
        roles == {Resolved("role", r, None) : r \in ex.roles}
        named == ToSet(ex.recipes)
        latest == {Resolved("cookbook", n, Latest(Versions(n))) :
                      n \in {m \in named : Latest(Versions(m)) # NoVersion}}
        absent == {<<"absent", n>> : n \in {m \in named : Latest(Versions(m)) = NoVersion}}
        missing == {<<"missing role", r>> : r \in ex.missing}
    IN  {IF solved = Unsolved
         THEN [add |-> roles \union latest,
               warn |-> missing \union absent \union {<<"unsolved", because>>}]
         ELSE [add |-> roles \union {Resolved("cookbook", p[1], p[2]) : p \in solved},
               warn |-> missing] :
            solved \in Solutions(env, ex.recipes)}

\* The newest versions that satisfy constraints on cookbooks.
Newest(constraints) ==
    LET best(c) == Best(Versions(c[1]), c[2])
    IN  Brings({Item("cookbook", c[1], best(c)) : c \in {d \in constraints : best(d) # NoVersion}},
               {<<"no version", c[1]>> : c \in {d \in constraints : best(d) = NoVersion}})

\* A node with a policy brings its revision and its group, the body of
\* which is cut down to the one assignment.
PolicyAssignment(n) ==
    LET assigned == src.policyGroups[n.policyGroup]
    IN  IF n.policyGroup \notin DOMAIN src.policyGroups
           \/ n.policy \notin DOMAIN assigned
        THEN Brings({}, {<<"not assigned", n.policy>>})
        ELSE [next |-> Stage({Item("policy", n.policy, assigned[n.policy])})
                         \o Stage({[Item("policygroup", n.policyGroup, None) EXCEPT
                                      !.body = {<<n.policy, assigned[n.policy]>>}]}),
              warn |-> {}]

Environment(n) == IF n.env = Default THEN {} ELSE {Item("environment", n.env, None)}

\* Bug: the environment of a node stays behind.
NodeBringsBare(n, because) ==
    IF n.policy # None THEN {PolicyAssignment(n)}
    ELSE {Brings(r.add, r.warn) : r \in RunList(n.list, n.env, because)}

NodeBrings(n, because) ==
    {[next |-> Stage(Environment(n)) \o b.next, warn |-> b.warn] :
        b \in IF n.policy # None THEN {PolicyAssignment(n)}
              ELSE {Brings(r.add, r.warn) : r \in RunList(n.list, n.env, because)}}

\* All lists of a role, each of them in the environment of the request.
RoleBrings(role, because) ==
    LET lists == {role.list} \union {role.envLists[e] : e \in DOMAIN role.envLists}
        results(l) == RunList(l, req.env, because)
    IN  {Brings(UNION {choice[l].add : l \in lists}, UNION {choice[l].warn : l \in lists}) :
            choice \in {f \in [lists -> UNION {results(l) : l \in lists}] :
                           \A l \in lists : f[l] \in results(l)}}

GroupBrings(group) ==
    [next |-> Stage({Item("group", g, None) : g \in group.groups})
                \o Stage({Item("client", c, None) : c \in group.clients}),
     warn |-> {}]

Assignments(it) ==
    IF it.body # None THEN it.body
    ELSE {<<p, src.policyGroups[it.name][p]>> : p \in DOMAIN src.policyGroups[it.name]}

\* Does the planner read the body of the item, and is there none?
Gone(it) ==
    CASE it.kind = "databag"     -> it.name \notin DOMAIN src.bags
      [] it.kind = "node"        -> req.deps /\ it.name \notin DOMAIN src.nodes
      [] it.kind = "role"        -> req.deps /\ ~it.resolved /\ it.name \notin DOMAIN src.roles
      [] it.kind = "environment" -> req.deps /\ it.name \notin DOMAIN src.envs
      [] it.kind = "cookbook"    -> it.sub = NoVersion
                                    \/ (req.deps /\ ~it.resolved /\ it.sub \notin Versions(it.name))
      [] it.kind = "artifact"    -> it.sub = None
      [] it.kind = "policy"      -> req.deps /\ <<it.name, it.sub>> \notin DOMAIN src.policies
      [] it.kind = "policygroup" -> req.deps /\ it.body = None /\ it.name \notin DOMAIN src.policyGroups
      [] it.kind = "group"       -> req.deps /\ ~it.resolved /\ it.name \notin DOMAIN src.groups
      [] OTHER -> FALSE

ItemBrings(it) ==
    CASE it.kind = "databag" -> {Brings({Item("item", it.name, i) : i \in src.bags[it.name]}, {})}
      [] it.kind = "item"    -> {Brings({Item("databag", it.name, None)}, {})}
      [] it.kind = "node" /\ req.deps -> NodeBrings(src.nodes[it.name], Key(it))
      [] it.kind = "role" /\ req.deps /\ ~it.resolved -> RoleBrings(src.roles[it.name], Key(it))
      [] it.kind = "environment" /\ req.deps ->
            {Newest({<<n, src.envs[it.name][n]>> : n \in DOMAIN src.envs[it.name]})}
      [] it.kind = "cookbook" /\ req.deps /\ ~it.resolved ->
            {Newest(src.cookbooks[it.name][it.sub])}
      [] it.kind = "policy" /\ req.deps ->
            {Brings({Item("artifact", a[1], a[2]) : a \in src.policies[<<it.name, it.sub>>]}, {})}
      [] it.kind = "policygroup" /\ req.deps ->
            {Brings({Item("policy", a[1], a[2]) : a \in Assignments(it)}, {})}
      [] it.kind = "group" /\ req.deps /\ ~it.resolved -> {GroupBrings(src.groups[it.name])}
      [] OTHER -> {Brings({}, {})}

-----------------------------------------------------------------------------
\* InUsePlan starts from everything whose use cannot be told, and the nodes.
InUseRoots(org) ==
    Stage({Resolved("container", c, None) : c \in org.containers})
      \o Stage({Resolved("group", g, None) : g \in DOMAIN org.groups})
      \o Stage({Resolved("client", c, None) : c \in org.clients})
      \o Stage({Resolved("databag", b, None) : b \in DOMAIN org.bags})
      \o Stage({Item("node", n, None) : n \in DOMAIN org.nodes})

Roots(org, r) == IF r.inUse THEN InUseRoots(org) ELSE [i \in DOMAIN r.items |-> {r.items[i]}]

Init ==
    /\ src \in Sources /\ req \in Requests
    /\ queue = Roots(src, req)
    /\ items = {} /\ acls = {} /\ warnings = {} /\ pc = "planning"

\* A cookbook that is asked for without a version is its newest one.
Versioned(it) ==
    IF it.kind = "cookbook" /\ it.sub = None
    THEN [it EXCEPT !.sub = Latest(Versions(it.name))] ELSE it

Dequeue(it) ==
    IF Head(queue) = {it} THEN Tail(queue) ELSE [queue EXCEPT ![1] = @ \ {it}]

Add ==
    /\ pc = "planning" /\ queue # <<>>
    /\ \E queued \in Head(queue) :
          LET it == Versioned(queued)
          IN  IF Seen(it)
              THEN queue' = Dequeue(queued) /\ UNCHANGED <<items, warnings, pc>>
              ELSE IF Gone(it)
              THEN pc' = "failed" /\ UNCHANGED <<queue, items, warnings>>
              ELSE /\ items' = items \union {it}
                   /\ \E b \in ItemBrings(it) : /\ queue' = Dequeue(queued) \o b.next
                                                /\ warnings' = warnings \union b.warn
                   /\ UNCHANGED pc
    /\ UNCHANGED <<src, req, acls>>

\* Any other request to the source fails: there is no plan.
SourceFails ==
    /\ pc = "planning" /\ pc' = "failed"
    /\ UNCHANGED <<src, req, queue, items, acls, warnings>>

\* ACLs are per name; a plan of what is in use starts with the organisation's.
PlannedACLs ==
    IF ~req.acl THEN {}
    ELSE {<<it.kind, it.name>> : it \in {i \in items : i.kind \in ACLKinds}}
         \union (IF req.inUse THEN {<<"organization">>} ELSE {})

Finish ==
    /\ pc = "planning" /\ queue = <<>>
    /\ pc' = "done" /\ acls' = PlannedACLs
    /\ UNCHANGED <<src, req, queue, items, warnings>>

Next == Add \/ Finish \/ SourceFails

\* The loop over the queue goes on by itself.
Spec == Init /\ [][Next]_vars /\ WF_vars(Add) /\ WF_vars(Finish)

-----------------------------------------------------------------------------
(* Properties.                                                             *)

Keys == {Key(it) : it \in items}

\* The plan is made of items, the queue has no empty stage, and no object is
\* in the plan twice, whatever versions, bodies and flags it was queued with
\* (plan.go:88).
TypeOK ==
    /\ \A it \in items \union UNION ToSet(queue) :
          /\ it.kind \in Kinds /\ it.resolved \in BOOLEAN
          /\ it.body # None => it.kind = "policygroup"
    /\ {} \notin ToSet(queue)
    /\ \A it \in items : it.kind = "cookbook" => it.sub \in Version
    /\ \A a, b \in items : Key(a) = Key(b) => a = b
    /\ pc \in {"planning", "done", "failed"}

\* What a run list needs, as sets of keys one of which has to be there: the
\* roles it leads to, and the cookbooks of its recipes if the source has any.
ListNeeds(list, env) ==
    LET ex == Expand(src.roles, list, env)
    IN  {{<<"role", r, None>>} : r \in ex.roles}
        \union {{<<"cookbook", c, v>> : v \in Versions(c)} :
                   c \in {d \in ToSet(ex.recipes) : Versions(d) # {}}}

\* What an item needs.  A role that a run list led to is part of what that
\* list needs.
NeedsOf(it) ==
    CASE it.kind = "node" ->
            LET n == src.nodes[it.name]
            IN  {{Key(e)} : e \in Environment(n)}
                \union (IF n.policy # None THEN {} ELSE ListNeeds(n.list, n.env))
      [] it.kind = "role" /\ ~it.resolved ->
            LET role == src.roles[it.name]
            IN  UNION {ListNeeds(l, req.env) :
                         l \in {role.list} \union {role.envLists[e] : e \in DOMAIN role.envLists}}
      [] it.kind = "environment" ->
            LET pins == src.envs[it.name]
                best(n) == Best(Versions(n), pins[n])
            IN  {{<<"cookbook", n, best(n)>>} : n \in {m \in DOMAIN pins : best(m) # NoVersion}}
      [] it.kind = "cookbook" /\ ~it.resolved ->
            {{<<"cookbook", d[1], v>> : v \in {w \in Versions(d[1]) : Match(d[2], w)}} :
                d \in {c \in src.cookbooks[it.name][it.sub] : Best(Versions(c[1]), c[2]) # NoVersion}}
      [] it.kind = "cookbook" /\ it.resolved ->
            {{<<"cookbook", d[1], v>> : v \in Versions(d[1])} : d \in src.cookbooks[it.name][it.sub]}
      [] it.kind = "item"        -> {{<<"databag", it.name, None>>}}
      [] it.kind = "databag"     -> {{<<"item", it.name, i>>} : i \in src.bags[it.name]}
      [] it.kind = "policygroup" -> {{<<"policy", a[1], a[2]>>} : a \in Assignments(it)}
      [] it.kind = "policy"      -> {{<<"artifact", a[1], a[2]>>} : a \in src.policies[<<it.name, it.sub>>]}
      [] it.kind = "group" /\ ~it.resolved ->
            {{<<"group", g, None>>} : g \in src.groups[it.name].groups}
            \union {{<<"client", c, None>>} : c \in src.groups[it.name].clients}
      [] it.kind = "group" /\ it.resolved ->
            {{<<"group", g, None>>} : g \in src.groups[it.name].groups \intersect DOMAIN src.groups}
            \union {{<<"client", c, None>>} : c \in src.groups[it.name].clients \intersect src.clients}
      [] OTHER -> {}

\* The plan warns that some run list got the newest versions and nothing
\* that these depend on.
FellBack == \E w \in warnings : w[1] = "unsolved"

\* A finished plan has what was asked for, to be followed as it was asked
\* for, and with dependencies lacks nothing that an item in it needs and the
\* source has, in whatever order and by whatever way the item came into the
\* queue; the cookbooks of run lists have their dependencies unless the plan
\* warns.  The roles inside a role are followed in the environment of the
\* request alone (plan.go:180), where docs/copy-and-dependencies.md:12 says
\* "every env_run_lists (recursive)": their other lists are no need here.
Closed ==
    pc = "done" =>
        /\ \A i \in DOMAIN Roots(src, req) : \A it \in Roots(src, req)[i] : Versioned(it) \in items
        /\ req.deps =>
              \A it \in items :
                 \/ it.kind = "cookbook" /\ it.resolved /\ FellBack
                 \/ \A any \in NeedsOf(it) : any \intersect Keys # {}

\* The organisation as the plan would put it on an empty server.
Planned ==
    LET roles == {r \in DOMAIN src.roles : <<"role", r, None>> \in Keys}
        envs == {e \in DOMAIN src.envs : e = Default \/ <<"environment", e, None>> \in Keys}
        books == {n \in DOMAIN src.cookbooks : \E v \in Versions(n) : <<"cookbook", n, v>> \in Keys}
    IN  [roles |-> [r \in roles |-> src.roles[r]],
         envs |-> [e \in envs |-> src.envs[e]],
         cookbooks |-> [n \in books |->
            [v \in {w \in Versions(n) : <<"cookbook", n, w>> \in Keys} |-> src.cookbooks[n][v]]]]

\* What a client on a node asks the depsolver for: the recipes it finds, with
\* the versions they are pinned to.
ClientAsks(n) ==
    LET ex == Expand(src.roles, n.list, n.env)
        entries == ToSet(n.list)
            \union UNION {ToSet(ListOf(src.roles[r], n.env)) : r \in ex.roles \intersect DOMAIN src.roles}
        pins(c) == {e.pin : e \in {d \in entries : ~d.role /\ d.name = c}} \ {NoVersion}
        pin(c) == IF pins(c) = {} THEN NoVersion ELSE CHOOSE p \in pins(c) : TRUE
    IN  [i \in DOMAIN ex.recipes |-> <<ex.recipes[i], Pinned(pin(ex.recipes[i]))>>]

\* What is planned for a node is enough for it, and nothing else that is
\* planned is in its way: on a server with only that, its run list expands
\* to the same recipes, and unless the plan warns that the depsolver could
\* not be asked, its client gets the same cookbook versions, as on the
\* source, if the source has one answer and not several that depend on the
\* order of a map (plan.go:319-364, deps.go:70-145, routes.go:1680-1762).
\* Not so when the run list pins a version: the planner cuts pins off
\* (deps.go:34) and plans the newest one, where docs/copy-and-dependencies.md:21
\* promises "the exact cookbook versions it would give a client".
SameVersions ==
    pc = "done" /\ req.deps =>
        \A it \in items : it.kind = "node" /\ src.nodes[it.name].policy = None =>
            LET n == src.nodes[it.name]
                recipes(org) == Expand(org.roles, n.list, n.env).recipes
                asked == ClientAsks(n)
                answers == SolveOn(src, n.env, asked)
            IN  /\ recipes(Planned) = recipes(src)
                /\ /\ <<"unsolved", Key(it)>> \notin warnings
                   /\ \A a, b \in answers : a = b
                   /\ asked = Bare(recipes(src))
                   => SolveOn(Planned, n.env, asked) = answers

\* The planning comes to an end, also with roles, cookbooks and groups that
\* lead back to themselves (plan.go:57).
Terminates == <>(pc # "planning")

\* Every planned node with a policy finds that policy assigned in its group:
\* "each node's environment, roles, depsolved cookbook versions (or policy
\* revision, artifacts and policy group) are kept"
\* (docs/copy-and-dependencies.md:43).
AssignmentsKept ==
    pc = "done" /\ req.deps =>
        \A it \in items : it.kind = "node" /\ src.nodes[it.name].policy # None =>
            LET n == src.nodes[it.name]
            IN  n.policyGroup \in DOMAIN src.policyGroups
                   /\ n.policy \in DOMAIN src.policyGroups[n.policyGroup] =>
                \E g \in items :
                    /\ g.kind = "policygroup" /\ g.name = n.policyGroup
                    /\ <<n.policy, src.policyGroups[n.policyGroup][n.policy]>> \in Assignments(g)

=============================================================================
