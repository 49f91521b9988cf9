-------------------------------- MODULE Deps --------------------------------
(***************************************************************************)
(* Pure algorithms: cookbook versions and their constraints and the        *)
(* expansion of run lists (internal/deps), and the depsolver of            *)
(* internal/chefserver.  A version is its three numbers.  An entry of a    *)
(* run list names a role or the cookbook of a recipe, perhaps pinned to a  *)
(* version; which recipe of the cookbook plays no part here.  The          *)
(* depsolver walks dependencies in the random order of a Go map, so that   *)
(* its answer is one of a set.                                             *)
(***************************************************************************)
EXTENDS Integers, FiniteSets, SequencesExt

CONSTANTS
    Names,      \* names of cookbooks, roles and environments
    Default,    \* the environment _default
    NoVersion,  \* no version satisfies, no pin
    Unsolved    \* the depsolver refuses

Version == Nat \X Nat \X Nat

\* patch: is the third number given, which "~>" cares about.
Constraint == [op : {"=", ">", "<", ">=", "<=", "~>", "invalid"}, v : Version,
               patch : BOOLEAN]
AnyVersion == [op |-> ">=", v |-> <<0, 0, 0>>, patch |-> TRUE]

Entry == [role : BOOLEAN, name : Names, pin : Version \union {NoVersion}]

\* What the depsolver makes of a pin, and of none.
Pinned(pin) == IF pin = NoVersion THEN AnyVersion ELSE [op |-> "=", v |-> pin, patch |-> TRUE]

ASSUME DepsAssumption == Default \in Names /\ NoVersion \notin Version

Less(a, b) == \E i \in 1..3 : a[i] < b[i] /\ \A j \in 1..(i - 1) : a[j] = b[j]

Match(c, v) ==
    CASE c.op = "="  -> v = c.v
      [] c.op = ">"  -> Less(c.v, v)
      [] c.op = "<"  -> Less(v, c.v)
      [] c.op = ">=" -> ~Less(v, c.v)
      [] c.op = "<=" -> ~Less(c.v, v)
      [] c.op = "~>" -> ~Less(v, c.v) /\ v[1] = c.v[1] /\ (c.patch => v[2] = c.v[2])
      [] OTHER -> FALSE

Best(versions, c) ==
    LET ok == {v \in versions : Match(c, v)}
    IN  IF ok = {} THEN NoVersion ELSE CHOOSE v \in ok : \A w \in ok : ~Less(v, w)

Latest(versions) == Best(versions, AnyVersion)

-----------------------------------------------------------------------------
\* The run list of a role in an environment.
ListOf(role, env) ==
    IF env # Default /\ env \in DOMAIN role.envLists THEN role.envLists[env] ELSE role.list

\* What Expand has found, and the entries it still has to look at.
Expansion == [todo : Seq(Entry), recipes : Seq(Names),
              roles : SUBSET Names, missing : SUBSET Names]

\* One turn of the walk: a role puts its own list in its place, a recipe
\* loses its pin.
Expanded(roles, env, w) ==
    LET it == Head(w.todo)
        rest == [w EXCEPT !.todo = Tail(@)]
    IN  CASE ~it.role ->
               IF Contains(w.recipes, it.name) THEN rest
               ELSE [rest EXCEPT !.recipes = Append(@, it.name)]
          [] it.role /\ it.name \in w.roles -> rest
          [] OTHER ->
               IF it.name \notin DOMAIN roles
               THEN [rest EXCEPT !.roles = @ \union {it.name},
                                 !.missing = @ \union {it.name}]
               ELSE [rest EXCEPT !.roles = @ \union {it.name},
                                 !.todo = ListOf(roles[it.name], env) \o @]

Walk(roles, env) ==
    LET walk[w \in Expansion] == IF w.todo = <<>> THEN w ELSE walk[Expanded(roles, env, w)]
    IN  walk

\* The roles and the cookbooks that a run list leads to, roles may be cyclic.
Expand(roles, runList, env) ==
    Walk(roles, env)[[todo |-> runList, recipes |-> <<>>, roles |-> {}, missing |-> {}]]

-----------------------------------------------------------------------------
\* The versions of a cookbook that the pins of an environment leave.
Allowed(cookbooks, pins, n) ==
    {v \in DOMAIN cookbooks[n] :
        (n \in DOMAIN pins /\ pins[n].op # "invalid") => Match(pins[n], v)}

Solution == [todo : Seq(Names \X Constraint), chosen : SUBSET (Names \X Version)]

Chosen(w, n) == \E p \in w.chosen : p[1] = n

\* What one turn of the depsolver may lead to: it takes the newest version
\* and goes on with the dependencies of that version, never coming back to a
\* cookbook it has chosen.  No version, nowhere to go.
Solved(cookbooks, pins, w) ==
    LET n == Head(w.todo)[1]
        best == IF n \in DOMAIN cookbooks
                THEN Best(Allowed(cookbooks, pins, n), Head(w.todo)[2])
                ELSE NoVersion
    IN  IF Chosen(w, n) THEN {[w EXCEPT !.todo = Tail(@)]}
        ELSE IF best = NoVersion THEN {}
        ELSE {[todo   |-> order \o Tail(w.todo),
               chosen |-> w.chosen \union {<<n, best>>}] : order \in SetToSeqs(cookbooks[n][best])}

Solve(cookbooks, pins) ==
    LET walk[w \in Solution] ==
          IF w.todo = <<>> THEN {w.chosen}
          ELSE IF Solved(cookbooks, pins, w) = {} THEN {Unsolved}
          ELSE UNION {walk[x] : x \in Solved(cookbooks, pins, w)}
    IN  walk

\* What the depsolver may choose for a list of cookbooks, each with the
\* constraint that its pin is.
Depsolve(cookbooks, pins, asked) ==
    Solve(cookbooks, pins)[[todo |-> asked, chosen |-> {}]]
=============================================================================
