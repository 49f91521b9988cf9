--------------------------- MODULE Planner_proofs ---------------------------
(***************************************************************************)
(* Theorems about Deps and Planner.  Deps is recursive: that its functions *)
(* are what their definitions say is proved from the least fixpoint of     *)
(* what a walk leads to, and what holds along a walk by a minimal          *)
(* counterexample (WalkInduction, SolverInduction).  The invariant of the  *)
(* planning, PInv, keeps what is still due: whatever an item of the plan   *)
(* needs has its key in the plan or is in the queue.                       *)
(***************************************************************************)
EXTENDS Planner, FiniteSetTheorems, SequenceTheorems, TLAPS

-----------------------------------------------------------------------------
(* Recursion.                                                              *)

Unfolds(f, D, End, out, next) ==
    \A w \in D : f[w] = IF w \in End THEN out[w] ELSE UNION {f[x] : x \in next[w]}

\* There are functions that give the ends of all walks: what the walks from
\* a place lead to is what those from the next places lead to.
LEMMA Fixpoint ==
  ASSUME NEW D, NEW A, NEW End \in SUBSET D, NEW out \in [D -> SUBSET A],
         NEW next \in [D -> SUBSET D]
  PROVE  \E f \in [D -> SUBSET A] : Unfolds(f, D, End, out, next)
<1> DEFINE F == [D -> SUBSET A]
           Fits(h) == /\ \A w \in End : out[w] \subseteq h[w]
                      /\ \A w \in D \ End : \A x \in next[w] : h[x] \subseteq h[w]
           f == [w \in D |-> {a \in A : \A h \in F : Fits(h) => a \in h[w]}]
           g == [w \in D |-> IF w \in End THEN out[w] ELSE UNION {f[x] : x \in next[w]}]
<1>1. f \in F
  OBVIOUS
<1>2. \A w \in D : \A a \in A : a \in f[w] <=> \A h \in F : Fits(h) => a \in h[w]
  OBVIOUS
<1>3. g \in F
  <2>1. ASSUME NEW w \in D
        PROVE  (IF w \in End THEN out[w] ELSE UNION {f[x] : x \in next[w]}) \in SUBSET A
    BY <1>1
  <2> QED
    BY <2>1
<1>4. \A w \in End : g[w] = out[w]
  OBVIOUS
<1>5. \A w \in D \ End : g[w] = UNION {f[x] : x \in next[w]}
  OBVIOUS
<1> HIDE DEF f, g
<1>6. Fits(f)
  <2>1. ASSUME NEW w \in End, NEW a \in out[w]
        PROVE  a \in f[w]
    <3>1. w \in D /\ a \in A
      OBVIOUS
    <3> QED
      BY <1>2, <3>1
  <2>2. ASSUME NEW w \in D \ End, NEW x \in next[w], NEW a \in f[x]
        PROVE  a \in f[w]
    <3>1. x \in D /\ w \in D /\ a \in A
      BY <1>1
    <3>2. \A h \in F : Fits(h) => a \in h[w]
      BY <1>2, <3>1
    <3> QED
      BY <1>2, <3>1, <3>2
  <2> QED
    BY <2>1, <2>2
<1>7. \A w \in D : g[w] \subseteq f[w]
  <2>1. ASSUME NEW w \in D, NEW a \in g[w]
        PROVE  a \in f[w]
    <3>1. CASE w \in End
      BY <3>1, <1>4, <1>6
    <3>2. CASE w \notin End
      BY <3>2, <1>5, <1>6
    <3> QED
      BY <3>1, <3>2
  <2> QED
    BY <2>1
<1>8. Fits(g)
  <2>1. ASSUME NEW w \in D \ End, NEW x \in next[w]
        PROVE  g[x] \subseteq g[w]
    <3>1. g[x] \subseteq f[x]
      BY <1>7
    <3>2. f[x] \subseteq g[w]
      BY <1>5
    <3> QED
      BY <3>1, <3>2
  <2> QED
    BY <2>1, <1>4
<1>9. \A w \in D : f[w] \subseteq g[w]
  <2>1. ASSUME NEW w \in D, NEW a \in f[w]
        PROVE  a \in g[w]
    <3>1. a \in A
      BY <1>1
    <3> QED
      BY <3>1, <1>2, <1>3, <1>8
  <2> QED
    BY <2>1
<1>10. \A w \in D : f[w] = g[w]
  BY <1>7, <1>9
<1>11. Unfolds(f, D, End, out, next)
  BY <1>4, <1>5, <1>10 DEF Unfolds
<1> QED
  BY <1>1, <1>11

\* Of places with a finite set and a number each there is one with none below.
LEMMA LowestPlace ==
  ASSUME NEW X, NEW B, B # {},
         NEW left \in [B -> FiniteSubsetsOf(X)], NEW len \in [B -> Nat]
  PROVE  \E w \in B : \A x \in B :
            /\ ~(left[x] \subseteq left[w] /\ left[x] # left[w])
            /\ left[x] = left[w] => len[w] <= len[x]
<1> DEFINE T == {left[w] : w \in B}
<1>1. T \subseteq FiniteSubsetsOf(X) /\ T # {}
  OBVIOUS
<1>2. PICK m \in T : \A y \in T : <<y, m>> \notin StrictSubsetOrdering(X)
  BY <1>1, FS_StrictSubsetOrderingWellFounded, WFMin, Zenon
<1> DEFINE N == {len[w] : w \in {v \in B : left[v] = m}}
<1>3. N \subseteq Nat /\ N # {}
  BY <1>2
<1>4. PICK n \in N : \A y \in N : <<y, n>> \notin OpToRel(<, Nat)
  BY <1>3, NatLessThanWellFounded, WFMin, Zenon
<1>5. PICK w \in B : left[w] = m /\ len[w] = n
  BY <1>4
<1>6. ASSUME NEW x \in B
      PROVE  ~(left[x] \subseteq left[w] /\ left[x] # left[w])
  <2>1. <<left[x], m>> \notin StrictSubsetOrdering(X)
    BY <1>2
  <2>2. left[x] \in SUBSET X /\ m \in SUBSET X
    BY <1>1, <1>2 DEF FiniteSubsetsOf
  <2> QED
    BY <1>5, <2>1, <2>2 DEF StrictSubsetOrdering
<1>7. ASSUME NEW x \in B, left[x] = left[w]
      PROVE  len[w] <= len[x]
  <2>1. len[x] \in N /\ len[x] \in Nat /\ n \in Nat
    BY <1>3, <1>4, <1>5, <1>7
  <2>2. <<len[x], n>> \notin OpToRel(<, Nat)
    BY <1>4, <2>1
  <2>3. ~(len[x] < n)
    BY <2>1, <2>2 DEF OpToRel
  <2> QED
    BY <1>5, <2>1, <2>3
<1> QED
  BY <1>5, <1>6, <1>7

-----------------------------------------------------------------------------
(* Versions.                                                               *)

LEMMA LessIs ==
  ASSUME NEW a \in Version, NEW b \in Version
  PROVE  Less(a, b) <=> \/ a[1] < b[1]
                        \/ a[1] = b[1] /\ a[2] < b[2]
                        \/ a[1] = b[1] /\ a[2] = b[2] /\ a[3] < b[3]
<1>1. Less(a, b) => \/ a[1] < b[1]
                    \/ a[1] = b[1] /\ a[2] < b[2]
                    \/ a[1] = b[1] /\ a[2] = b[2] /\ a[3] < b[3]
  <2> SUFFICES ASSUME NEW i \in 1..3, a[i] < b[i], \A j \in 1..(i - 1) : a[j] = b[j]
               PROVE  \/ a[1] < b[1]
                      \/ a[1] = b[1] /\ a[2] < b[2]
                      \/ a[1] = b[1] /\ a[2] = b[2] /\ a[3] < b[3]
    BY DEF Less
  <2>1. i = 1 \/ i = 2 \/ i = 3
    OBVIOUS
  <2> QED
    BY <2>1
<1>2. a[1] < b[1] => Less(a, b)
  BY 1 \in 1..3, 1..(1 - 1) = {} DEF Less
<1>3. a[1] = b[1] /\ a[2] < b[2] => Less(a, b)
  BY 2 \in 1..3, 1..(2 - 1) = {1} DEF Less
<1>4. a[1] = b[1] /\ a[2] = b[2] /\ a[3] < b[3] => Less(a, b)
  BY 3 \in 1..3, 1..(3 - 1) = {1, 2} DEF Less
<1> QED
  BY <1>1, <1>2, <1>3, <1>4

LEMMA LessOrders ==
  ASSUME NEW a \in Version, NEW b \in Version, NEW c \in Version
  PROVE  /\ ~Less(a, a)
         /\ Less(a, b) => ~Less(b, a)
         /\ Less(a, b) /\ Less(b, c) => Less(a, c)
<1>1. /\ a[1] \in Nat /\ a[2] \in Nat /\ a[3] \in Nat
      /\ b[1] \in Nat /\ b[2] \in Nat /\ b[3] \in Nat
      /\ c[1] \in Nat /\ c[2] \in Nat /\ c[3] \in Nat
  BY DEF Version
<1> QED
  BY <1>1, LessIs

\* Finitely many versions have a newest.
LEMMA NewestExists ==
  ASSUME NEW S \in SUBSET Version, IsFiniteSet(S), S # {}
  PROVE  \E v \in S : \A w \in S : ~Less(v, w)
<1> DEFINE HasNewest(U) == \E v \in U : \A w \in U : ~Less(v, w)
           T == {U \in SUBSET S : U # {} /\ ~HasNewest(U)}
<1>1. SUFFICES ASSUME T # {}
               PROVE  FALSE
  OBVIOUS
<1>2. T \subseteq FiniteSubsetsOf(S)
  BY FS_Subset DEF FiniteSubsetsOf
<1>3. PICK U \in T : \A V \in T : <<V, U>> \notin StrictSubsetOrdering(S)
  BY <1>1, <1>2, FS_StrictSubsetOrderingWellFounded, WFMin, Zenon
<1>4. U \in SUBSET S /\ U # {} /\ ~HasNewest(U)
  OBVIOUS
<1> HIDE DEF T
<1>5. PICK x \in U : TRUE
  BY <1>4
<1>6. CASE U = {x}
  <2>1. ~Less(x, x)
    BY <1>4, <1>5, LessOrders
  <2> QED
    BY <1>4, <1>6, <2>1
<1>7. CASE U # {x}
  <2>1. U \ {x} # {} /\ U \ {x} \in SUBSET S
    BY <1>4, <1>7
  <2>2. <<U \ {x}, U>> \in StrictSubsetOrdering(S)
    BY <1>4, <1>5 DEF StrictSubsetOrdering
  <2>3. HasNewest(U \ {x})
    BY <1>3, <2>1, <2>2 DEF T
  <2>4. PICK m \in U \ {x} : \A w \in U \ {x} : ~Less(m, w)
    BY <2>3
  <2>5. m \in Version /\ x \in Version
    BY <1>4, <2>4
  <2>6. CASE Less(m, x)
    <3>1. \A w \in U : ~Less(x, w)
      <4> SUFFICES ASSUME NEW w \in U, Less(x, w)
                   PROVE  FALSE
        OBVIOUS
      <4>1. w \in Version
        BY <1>4
      <4>2. w # x
        BY <2>5, LessOrders
      <4>3. Less(m, w)
        BY <2>5, <2>6, <4>1, LessOrders
      <4> QED
        BY <2>4, <4>2, <4>3
    <3> QED
      BY <1>4, <1>5, <3>1
  <2>7. CASE ~Less(m, x)
    BY <1>4, <2>4, <2>7
  <2> QED
    BY <2>6, <2>7
<1> QED
  BY <1>6, <1>7

LEMMA BestIs ==
  ASSUME NEW S \in SUBSET Version, IsFiniteSet(S), NEW c
  PROVE  /\ Best(S, c) # NoVersion =>
              Best(S, c) \in S /\ Match(c, Best(S, c)) /\ Best(S, c) \in Version
         /\ Best(S, c) = NoVersion <=> \A v \in S : ~Match(c, v)
<1> DEFINE ok == {v \in S : Match(c, v)}
<1>1. ok \in SUBSET Version /\ IsFiniteSet(ok)
  BY FS_Subset
<1>2. CASE ok = {}
  BY <1>2 DEF Best
<1>3. CASE ok # {}
  <2>1. \E v \in ok : \A w \in ok : ~Less(v, w)
    BY <1>1, <1>3, NewestExists
  <2>2. Best(S, c) = CHOOSE v \in ok : \A w \in ok : ~Less(v, w)
    BY <1>3 DEF Best
  <2>3. Best(S, c) \in ok
    BY <2>1, <2>2
  <2>4. Best(S, c) # NoVersion
    BY <1>1, <2>3, DepsAssumption
  <2> QED
    BY <1>3, <2>3, <2>4
<1> QED
  BY <1>2, <1>3

LEMMA LatestIs ==
  ASSUME NEW S \in SUBSET Version, IsFiniteSet(S)
  PROVE  /\ Latest(S) \in Version \union {NoVersion}
         /\ S # {} => Latest(S) \in S /\ Latest(S) # NoVersion
<1>1. ASSUME NEW v \in S
      PROVE  Match(AnyVersion, v)
  <2>1. <<0, 0, 0>> \in Version /\ v \in Version
    BY DEF Version
  <2>2. ~Less(v, <<0, 0, 0>>)
    BY <2>1, LessIs DEF Version
  <2> QED
    BY <2>2 DEF Match, AnyVersion
<1> QED
  BY <1>1, BestIs DEF Latest

-----------------------------------------------------------------------------
(* The expansion of run lists.                                             *)

RolesOK(roles, env) ==
    /\ DOMAIN roles \subseteq Names /\ IsFiniteSet(DOMAIN roles)
    /\ \A r \in DOMAIN roles : ListOf(roles[r], env) \in Seq(Entry)

At(t, rec, rol, mis) == [todo |-> t, recipes |-> rec, roles |-> rol, missing |-> mis]

\* The five turns that the walk may take.
Turn(roles, env, w, it, x) ==
    \/ /\ ~it.role /\ it.name \in ToSet(w.recipes)
       /\ x = At(Tail(w.todo), w.recipes, w.roles, w.missing)
    \/ /\ ~it.role
       /\ x = At(Tail(w.todo), Append(w.recipes, it.name), w.roles, w.missing)
    \/ /\ it.role /\ it.name \in w.roles
       /\ x = At(Tail(w.todo), w.recipes, w.roles, w.missing)
    \/ /\ it.role /\ it.name \notin w.roles /\ it.name \notin DOMAIN roles
       /\ x = At(Tail(w.todo), w.recipes, w.roles \union {it.name},
                 w.missing \union {it.name})
    \/ /\ it.role /\ it.name \notin w.roles /\ it.name \in DOMAIN roles
       /\ x = At(ListOf(roles[it.name], env) \o Tail(w.todo), w.recipes,
                 w.roles \union {it.name}, w.missing)

LEMMA Turns ==
  ASSUME NEW roles, NEW env, RolesOK(roles, env), NEW w \in Expansion, w.todo # <<>>
  PROVE  /\ Head(w.todo) \in Entry /\ Tail(w.todo) \in Seq(Entry)
         /\ Turn(roles, env, w, Head(w.todo), Expanded(roles, env, w))
<1> DEFINE it == Head(w.todo)
           x == Expanded(roles, env, w)
<1>1. w.todo \in Seq(Entry) /\ w.recipes \in Seq(Names)
  BY DEF Expansion
<1>2. it \in Entry /\ Tail(w.todo) \in Seq(Entry)
  BY <1>1, HeadTailProperties
<1>3. PICK r : r = [w EXCEPT !.todo = Tail(@)]
  OBVIOUS
<1>4. r = At(Tail(w.todo), w.recipes, w.roles, w.missing)
  <2>1. r = [w EXCEPT !.todo = Tail(w.todo)]
    BY <1>3, Zenon
  <2> QED
    BY <2>1 DEF At, Expansion
<1>5. it.role \in BOOLEAN
  BY <1>2 DEF Entry
<1>6. Contains(w.recipes, it.name) => it.name \in ToSet(w.recipes)
  BY <1>1 DEF Contains, ToSet
<1>7. x = CASE ~it.role ->
                 IF Contains(w.recipes, it.name) THEN r
                 ELSE [r EXCEPT !.recipes = Append(@, it.name)]
            [] it.role /\ it.name \in w.roles -> r
            [] OTHER ->
                 IF it.name \notin DOMAIN roles
                 THEN [r EXCEPT !.roles = @ \union {it.name},
                                !.missing = @ \union {it.name}]
                 ELSE [r EXCEPT !.roles = @ \union {it.name},
                                !.todo = ListOf(roles[it.name], env) \o @]
  BY <1>3, Zenon DEF Expanded
<1> SUFFICES Turn(roles, env, w, it, x)
  BY <1>2
<1> HIDE DEF it, x
<1>8. CASE ~it.role
  <2>1. x = IF Contains(w.recipes, it.name) THEN r
            ELSE [r EXCEPT !.recipes = Append(@, it.name)]
    BY <1>7, <1>8
  <2>2. x = IF Contains(w.recipes, it.name) THEN r
            ELSE [r EXCEPT !.recipes = Append(r.recipes, it.name)]
    BY <2>1, Zenon
  <2> QED
    BY <1>2, <1>4, <1>6, <1>8, <2>2 DEF At, Turn
<1>9. CASE it.role /\ it.name \in w.roles
  <2>1. x = r
    BY <1>7, <1>9
  <2> QED
    BY <1>2, <1>4, <1>9, <2>1 DEF Turn
<1>10. CASE it.role /\ it.name \notin w.roles
  <2>1. x = IF it.name \notin DOMAIN roles
            THEN [r EXCEPT !.roles = @ \union {it.name},
                           !.missing = @ \union {it.name}]
            ELSE [r EXCEPT !.roles = @ \union {it.name},
                           !.todo = ListOf(roles[it.name], env) \o @]
    BY <1>7, <1>10
  <2>2. CASE it.name \notin DOMAIN roles
    <3>1. x = [[r EXCEPT !.roles = r.roles \union {it.name}]
                  EXCEPT !.missing = r.missing \union {it.name}]
      BY <2>1, <2>2, <1>4 DEF At, Turn
    <3> QED
      BY <1>2, <1>4, <1>10, <2>2, <3>1 DEF At, Turn
  <2>3. CASE it.name \in DOMAIN roles
    <3>1. x = [[r EXCEPT !.roles = r.roles \union {it.name}]
                  EXCEPT !.todo = ListOf(roles[it.name], env) \o r.todo]
      BY <2>1, <2>3, <1>4 DEF At, Turn
    <3> QED
      BY <1>2, <1>4, <1>10, <2>3, <3>1 DEF At, Turn
  <2> QED
    BY <2>2, <2>3
<1> QED
  BY <1>5, <1>8, <1>9, <1>10

LEMMA TurnStays ==
  ASSUME NEW roles, NEW env, RolesOK(roles, env), NEW w \in Expansion, w.todo # <<>>
  PROVE  Expanded(roles, env, w) \in Expansion
<1>1. PICK it : it = Head(w.todo)
  OBVIOUS
<1>2. PICK x : x = Expanded(roles, env, w)
  OBVIOUS
<1>3. it \in Entry /\ Tail(w.todo) \in Seq(Entry)
  BY <1>1, <1>2, Turns
<1>4. it.name \in Names
  BY <1>3 DEF Entry
<1>5. w.recipes \in Seq(Names) /\ w.roles \in SUBSET Names /\ w.missing \in SUBSET Names
  BY DEF Expansion
<1>6. Append(w.recipes, it.name) \in Seq(Names)
  BY <1>4, <1>5, AppendProperties
<1>7. it.name \in DOMAIN roles => ListOf(roles[it.name], env) \o Tail(w.todo) \in Seq(Entry)
  BY <1>3, ConcatProperties DEF RolesOK
<1>8. \E t \in Seq(Entry), rec \in Seq(Names), rol \in SUBSET Names, mis \in SUBSET Names :
         x = At(t, rec, rol, mis)
  <2>1. w.roles \union {it.name} \in SUBSET Names /\ w.missing \union {it.name} \in SUBSET Names
    BY <1>4, <1>5
  <2>2. \/ x = At(Tail(w.todo), w.recipes, w.roles, w.missing)
        \/ x = At(Tail(w.todo), Append(w.recipes, it.name), w.roles, w.missing)
        \/ x = At(Tail(w.todo), w.recipes, w.roles \union {it.name}, w.missing \union {it.name})
        \/ /\ it.name \in DOMAIN roles
           /\ x = At(ListOf(roles[it.name], env) \o Tail(w.todo), w.recipes,
                     w.roles \union {it.name}, w.missing)
    BY <1>1, <1>2, Turns DEF Turn
  <2> QED
    BY <1>3, <1>5, <1>6, <1>7, <2>1, <2>2
<1>9. x \in Expansion
  BY <1>8 DEF At, Expansion
<1> QED
  BY <1>2, <1>9

\* The recursive definition of the walk defines a function.
LEMMA WalkIs ==
  ASSUME NEW roles, NEW env, RolesOK(roles, env)
  PROVE  \A w \in Expansion : Walk(roles, env)[w] = IF w.todo = <<>> THEN w
                                     ELSE Walk(roles, env)[Expanded(roles, env, w)]
<1> DEFINE Body(h, w) == IF w.todo = <<>> THEN w ELSE h[Expanded(roles, env, w)]
           Defines(h) == h = [w \in Expansion |-> Body(h, w)]
           End == {w \in Expansion : w.todo = <<>>}
           out == [w \in Expansion |-> {w}]
           next == [w \in Expansion |-> IF w.todo = <<>> THEN {} ELSE {Expanded(roles, env, w)}]
<1>1. End \in SUBSET Expansion /\ out \in [Expansion -> SUBSET Expansion]
  OBVIOUS
<1>2. next \in [Expansion -> SUBSET Expansion]
  <2>1. ASSUME NEW w \in Expansion
        PROVE  (IF w.todo = <<>> THEN {} ELSE {Expanded(roles, env, w)}) \in SUBSET Expansion
    BY TurnStays
  <2> QED
    BY <2>1
<1>3. PICK f \in [Expansion -> SUBSET Expansion] : Unfolds(f, Expansion, End, out, next)
  <2> HIDE DEF End, out, next
  <2> QED
    BY <1>1, <1>2, Fixpoint
<1> DEFINE h == [w \in Expansion |-> CHOOSE x : x \in f[w]]
<1>4. ASSUME NEW w \in Expansion
      PROVE  h[w] = Body(h, w)
  <2>1. CASE w.todo = <<>>
    <3>1. f[w] = {w}
      BY <1>3, <2>1 DEF Unfolds
    <3> QED
      BY <2>1, <3>1
  <2>2. CASE w.todo # <<>>
    <3>1. Expanded(roles, env, w) \in Expansion
      BY <2>2, TurnStays
    <3>2. next[w] = {Expanded(roles, env, w)}
      BY <2>2
    <3>3. f[w] = UNION {f[x] : x \in next[w]}
      BY <1>3, <2>2 DEF Unfolds
    <3>4. f[w] = f[Expanded(roles, env, w)]
      BY <3>2, <3>3
    <3> QED
      BY <2>2, <3>1, <3>4
  <2> QED
    BY <2>1, <2>2
<1>5. Defines(h)
  <2>1. \A w \in Expansion : h[w] = Body(h, w)
    BY <1>4
  <2>2. h = [w \in Expansion |-> h[w]]
    OBVIOUS
  <2> HIDE DEF h, Body
  <2>3. [w \in Expansion |-> h[w]] = [w \in Expansion |-> Body(h, w)]
    BY <2>1
  <2> QED
    BY <2>2, <2>3
<1>6. \E g : Defines(g)
  BY <1>5
<1>7. Walk(roles, env) = CHOOSE g : Defines(g)
  BY Zenon DEF Walk
<1>8. Defines(Walk(roles, env))
  <2> HIDE DEF Defines
  <2> QED
    BY <1>6, <1>7
<1>9. \A w \in Expansion : Walk(roles, env)[w] = Body(Walk(roles, env), w)
  <2> HIDE DEF Body
  <2> QED
    BY <1>8
<1> QED
  BY <1>9

Present(e, x) == IF e.role THEN e.name \in x.roles ELSE e.name \in ToSet(x.recipes)

HasAll(list, x) == \A i \in 1..Len(list) : Present(list[i], x)

\* What is found from w on: all that is still to do, and whatever the roles
\* that are new lead to.
Finds(roles, env, w, x) ==
    /\ x \in Expansion
    /\ ToSet(w.recipes) \subseteq ToSet(x.recipes)
    /\ w.roles \subseteq x.roles /\ w.missing \subseteq x.missing
    /\ HasAll(w.todo, x)
    /\ \A r \in x.roles \ w.roles :
          IF r \in DOMAIN roles THEN HasAll(ListOf(roles[r], env), x) ELSE r \in x.missing

\* The same, field by field.
Passes(w, it, y) ==
    /\ y.roles = w.roles /\ y.recipes = w.recipes /\ y.missing = w.missing
    /\ y.todo = Tail(w.todo)
    /\ it.role => it.name \in w.roles
    /\ ~it.role => it.name \in ToSet(w.recipes)

AddsRecipe(w, it, y) ==
    /\ ~it.role
    /\ y.roles = w.roles /\ y.recipes = Append(w.recipes, it.name)
    /\ y.missing = w.missing /\ y.todo = Tail(w.todo)

MissesRole(roles, w, it, y) ==
    /\ it.role /\ it.name \notin DOMAIN roles /\ it.name \notin w.roles
    /\ y.roles = w.roles \union {it.name} /\ y.recipes = w.recipes
    /\ y.missing = w.missing \union {it.name} /\ y.todo = Tail(w.todo)

FollowsRole(roles, env, w, it, y) ==
    /\ it.role /\ it.name \in DOMAIN roles /\ it.name \notin w.roles
    /\ y.roles = w.roles \union {it.name} /\ y.recipes = w.recipes
    /\ y.missing = w.missing /\ y.todo = ListOf(roles[it.name], env) \o Tail(w.todo)

LEMMA TurnFields ==
  ASSUME NEW roles, NEW env, NEW w, NEW it, NEW y, it.role \in BOOLEAN,
         Turn(roles, env, w, it, y)
  PROVE  \/ Passes(w, it, y)
         \/ AddsRecipe(w, it, y)
         \/ MissesRole(roles, w, it, y)
         \/ FollowsRole(roles, env, w, it, y)
<1>1. ASSUME NEW t, NEW rec, NEW rol, NEW mis, y = At(t, rec, rol, mis)
      PROVE  y.todo = t /\ y.recipes = rec /\ y.roles = rol /\ y.missing = mis
  BY <1>1 DEF At
<1>2. CASE ~it.role /\ it.name \in ToSet(w.recipes)
           /\ y = At(Tail(w.todo), w.recipes, w.roles, w.missing)
  BY <1>1, <1>2 DEF Passes
<1>3. CASE ~it.role /\ y = At(Tail(w.todo), Append(w.recipes, it.name), w.roles, w.missing)
  BY <1>1, <1>3 DEF AddsRecipe
<1>4. CASE it.role /\ it.name \in w.roles
           /\ y = At(Tail(w.todo), w.recipes, w.roles, w.missing)
  BY <1>1, <1>4 DEF Passes
<1>5. CASE it.role /\ it.name \notin w.roles /\ it.name \notin DOMAIN roles
           /\ y = At(Tail(w.todo), w.recipes, w.roles \union {it.name}, w.missing \union {it.name})
  BY <1>1, <1>5 DEF MissesRole
<1>6. CASE it.role /\ it.name \notin w.roles /\ it.name \in DOMAIN roles
           /\ y = At(ListOf(roles[it.name], env) \o Tail(w.todo), w.recipes,
                     w.roles \union {it.name}, w.missing)
  BY <1>1, <1>6 DEF FollowsRole
<1> QED
  BY <1>2, <1>3, <1>4, <1>5, <1>6 DEF Turn

LEMMA AppendedSet ==
  ASSUME NEW S, NEW s \in Seq(S), NEW e \in S
  PROVE  ToSet(Append(s, e)) = ToSet(s) \union {e}
<1> DEFINE a == Append(s, e)
<1>1. /\ Len(s) \in Nat /\ DOMAIN s = 1..Len(s)
      /\ a \in Seq(S) /\ Len(a) = Len(s) + 1
      /\ a[Len(s) + 1] = e /\ \A i \in 1..Len(s) : a[i] = s[i]
  BY LenProperties, AppendProperties
<1>2. DOMAIN a = 1..(Len(s) + 1)
  BY <1>1, LenProperties
<1> HIDE DEF a
<1>3. \A x : (\E i \in DOMAIN a : a[i] = x) <=> (x = e \/ \E i \in DOMAIN s : s[i] = x)
  <2> TAKE x
  <2>1. ASSUME NEW i \in DOMAIN a, a[i] = x
        PROVE  x = e \/ \E j \in DOMAIN s : s[j] = x
    <3>1. i = Len(s) + 1 \/ i \in DOMAIN s
      BY <1>1, <1>2
    <3> QED
      BY <1>1, <2>1, <3>1
  <2>2. ASSUME NEW i \in DOMAIN s, s[i] = x
        PROVE  \E j \in DOMAIN a : a[j] = x
    <3>1. i \in DOMAIN a /\ a[i] = x
      BY <1>1, <1>2, <2>2
    <3> QED
      BY <3>1
  <2>3. Len(s) + 1 \in DOMAIN a
    BY <1>1, <1>2
  <2> QED
    BY <1>1, <2>1, <2>2, <2>3
<1>4. ToSet(a) = ToSet(s) \union {e}
  BY <1>3 DEF ToSet
<1> QED
  BY <1>4 DEF a

\* A turn loses nothing: what is found after it was to be found before it.
LEMMA TurnFinds ==
  ASSUME NEW roles, NEW env, RolesOK(roles, env), NEW w \in Expansion, w.todo # <<>>,
         NEW x, Finds(roles, env, Expanded(roles, env, w), x)
  PROVE  Finds(roles, env, w, x)
<1> DEFINE it == Head(w.todo)
           t == Tail(w.todo)
           y == Expanded(roles, env, w)
<1>1. it \in Entry /\ t \in Seq(Entry) /\ Turn(roles, env, w, it, y)
  BY Turns
<1>2. Finds(roles, env, y, x)
  OBVIOUS
<1>3. /\ w.todo \in Seq(Entry) /\ Len(w.todo) = Len(t) + 1 /\ it = w.todo[1]
      /\ Len(t) \in Nat /\ \A i \in 1..Len(t) : t[i] = w.todo[i + 1]
  <2>1. w.todo \in Seq(Entry)
    BY DEF Expansion
  <2> QED
    BY <2>1, HeadTailProperties, LenProperties
<1> HIDE DEF it, t, y
<1>4. Present(it, x) /\ HasAll(t, x) => HasAll(w.todo, x)
  <2> SUFFICES ASSUME Present(it, x), HasAll(t, x), NEW i \in 1..Len(w.todo)
               PROVE  Present(w.todo[i], x)
    BY DEF HasAll
  <2>1. CASE i = 1
    BY <1>3, <2>1
  <2>2. CASE i # 1
    <3>1. i - 1 \in 1..Len(t) /\ (i - 1) + 1 = i
      BY <1>3, <2>2
    <3>2. t[i - 1] = w.todo[i]
      BY <1>3, <3>1
    <3> QED
      BY <3>1, <3>2 DEF HasAll
  <2> QED
    BY <2>1, <2>2
<1>5. CASE Passes(w, it, y)
  <2>1. Present(it, x)
    BY <1>2, <1>5 DEF Present, Finds, Passes, t
  <2> QED
    BY <1>2, <1>4, <1>5, <2>1 DEF Finds, Passes, t
<1>6. CASE AddsRecipe(w, it, y)
  <2>1. w.recipes \in Seq(Names) /\ it.name \in Names
    BY <1>1 DEF Expansion, Entry
  <2>2. ToSet(Append(w.recipes, it.name)) = ToSet(w.recipes) \union {it.name}
    BY <2>1, AppendedSet
  <2>3. Present(it, x)
    BY <1>2, <1>6, <2>2 DEF Present, Finds, AddsRecipe, t
  <2> QED
    BY <1>2, <1>4, <1>6, <2>2, <2>3 DEF Finds, AddsRecipe, t
<1>7. CASE MissesRole(roles, w, it, y)
  <2>1. Present(it, x)
    BY <1>2, <1>7 DEF Present, Finds, MissesRole, t
  <2>2. \A r \in x.roles \ w.roles :
           IF r \in DOMAIN roles THEN HasAll(ListOf(roles[r], env), x) ELSE r \in x.missing
    BY <1>2, <1>7 DEF Finds, MissesRole, t
  <2> QED
    BY <1>2, <1>4, <1>7, <2>1, <2>2 DEF Finds, MissesRole, t
<1>8. CASE FollowsRole(roles, env, w, it, y)
  <2> DEFINE l == ListOf(roles[it.name], env)
  <2>1. l \in Seq(Entry)
    BY <1>8 DEF RolesOK, FollowsRole, t
  <2> HIDE DEF l
  <2>2. HasAll(l \o t, x)
    BY <1>2, <1>8 DEF Finds, l, FollowsRole, t
  <2>3. /\ Len(l) \in Nat /\ Len(l \o t) = Len(l) + Len(t)
        /\ \A i \in 1..(Len(l) + Len(t)) : (l \o t)[i] = IF i <= Len(l) THEN l[i] ELSE t[i - Len(l)]
    BY <1>1, <2>1, ConcatProperties, LenProperties
  <2>4. HasAll(l, x)
    <3> SUFFICES ASSUME NEW i \in 1..Len(l)
                 PROVE  Present(l[i], x)
      BY DEF HasAll
    <3>1. i \in 1..(Len(l) + Len(t))
      BY <1>3, <2>3
    <3>2. (l \o t)[i] = l[i]
      BY <2>3, <3>1
    <3> QED
      BY <2>2, <2>3, <3>1, <3>2 DEF HasAll
  <2>5. HasAll(t, x)
    <3> SUFFICES ASSUME NEW i \in 1..Len(t)
                 PROVE  Present(t[i], x)
      BY DEF HasAll
    <3>1. i + Len(l) \in 1..(Len(l) + Len(t)) /\ ~(i + Len(l) <= Len(l)) /\ (i + Len(l)) - Len(l) = i
      BY <1>3, <2>3
    <3>2. (l \o t)[i + Len(l)] = t[i]
      BY <2>3, <3>1
    <3> QED
      BY <2>2, <2>3, <3>1, <3>2 DEF HasAll
  <2>6. Present(it, x)
    BY <1>2, <1>8 DEF Present, Finds, FollowsRole, t
  <2>7. \A r \in x.roles \ w.roles :
           IF r \in DOMAIN roles THEN HasAll(ListOf(roles[r], env), x) ELSE r \in x.missing
    BY <1>2, <1>8, <2>4 DEF Finds, l, FollowsRole, t
  <2> QED
    BY <1>2, <1>4, <1>8, <2>5, <2>6, <2>7 DEF Finds, FollowsRole, t
<1>9. it.role \in BOOLEAN
  BY <1>1 DEF Entry
<1> QED
  BY <1>1, <1>5, <1>6, <1>7, <1>8, <1>9, TurnFields DEF t

\* Induction along the walk, as a minimal counterexample: every turn has a
\* role less to follow or an entry less to look at.
WalksOn(roles, env, B) == \A w \in B : w.todo # <<>> /\ Expanded(roles, env, w) \in B

LEMMA WalkInduction ==
  ASSUME NEW roles, NEW env, RolesOK(roles, env), NEW B \in SUBSET Expansion,
         WalksOn(roles, env, B)
  PROVE  B = {}
<1> DEFINE left == [w \in B |-> DOMAIN roles \ w.roles]
           len == [w \in B |-> Len(w.todo)]
<1>1. SUFFICES ASSUME B # {}
               PROVE  FALSE
  OBVIOUS
<1>2. left \in [B -> FiniteSubsetsOf(Names)]
  <2>1. ASSUME NEW w \in B
        PROVE  DOMAIN roles \ w.roles \in FiniteSubsetsOf(Names)
    BY FS_Difference DEF RolesOK, FiniteSubsetsOf
  <2> QED
    BY <2>1
<1>3. len \in [B -> Nat]
  <2>1. ASSUME NEW w \in B
        PROVE  Len(w.todo) \in Nat
    BY LenProperties DEF Expansion
  <2> QED
    BY <2>1
<1>4. \A w \in B : left[w] = DOMAIN roles \ w.roles /\ len[w] = Len(w.todo)
  OBVIOUS
<1> HIDE DEF left, len
<1>5. PICK w \in B : \A x \in B :
            /\ ~(left[x] \subseteq left[w] /\ left[x] # left[w])
            /\ left[x] = left[w] => len[w] <= len[x]
  BY <1>1, <1>2, <1>3, LowestPlace
<1> DEFINE x == Expanded(roles, env, w)
           it == Head(w.todo)
<1>6. w \in Expansion /\ w.todo # <<>>
  BY DEF WalksOn
<1>7. x \in B
  BY DEF WalksOn
<1>8. Tail(w.todo) \in Seq(Entry) /\ Turn(roles, env, w, it, x) /\ it.role \in BOOLEAN
  BY <1>6, Turns DEF Entry
<1>9. Len(Tail(w.todo)) = Len(w.todo) - 1 /\ Len(w.todo) \in Nat
  BY <1>6, HeadTailProperties, LenProperties DEF Expansion
<1> HIDE DEF x, it
<1>10. ASSUME x.todo = Tail(w.todo), DOMAIN roles \ x.roles = DOMAIN roles \ w.roles
       PROVE  FALSE
  <2>1. left[x] = left[w]
    BY <1>4, <1>7, <1>10
  <2>2. len[x] = Len(w.todo) - 1 /\ len[w] = Len(w.todo)
    BY <1>4, <1>7, <1>9, <1>10
  <2>3. len[w] <= len[x]
    BY <1>5, <1>7, <2>1
  <2> QED
    BY <1>9, <2>2, <2>3
<1>11. CASE Passes(w, it, x)
  BY <1>10, <1>11 DEF Passes
<1>12. CASE AddsRecipe(w, it, x)
  BY <1>10, <1>12 DEF AddsRecipe
<1>13. CASE MissesRole(roles, w, it, x)
  <2>1. DOMAIN roles \ x.roles = DOMAIN roles \ w.roles
    BY <1>13 DEF MissesRole
  <2> QED
    BY <1>10, <1>13, <2>1 DEF MissesRole
<1>14. CASE FollowsRole(roles, env, w, it, x)
  BY <1>4, <1>5, <1>7, <1>14 DEF FollowsRole
<1> QED
  BY <1>8, <1>11, <1>12, <1>13, <1>14, TurnFields

LEMMA WalkFinds ==
  ASSUME NEW roles, NEW env, RolesOK(roles, env)
  PROVE  \A w \in Expansion : Finds(roles, env, w, Walk(roles, env)[w])
<1> DEFINE W == Walk(roles, env)
           B == {w \in Expansion : ~Finds(roles, env, w, W[w])}
<1>1. ASSUME NEW w \in B
      PROVE  w.todo # <<>> /\ Expanded(roles, env, w) \in B
  <2>1. CASE w.todo = <<>>
    <3>1. W[w] = w
      BY <2>1, WalkIs
    <3>2. HasAll(w.todo, w)
      BY <2>1 DEF HasAll
    <3> QED
      BY <3>1, <3>2 DEF Finds
  <2>2. CASE w.todo # <<>>
    <3>1. Expanded(roles, env, w) \in Expansion /\ W[w] = W[Expanded(roles, env, w)]
      BY <2>2, WalkIs, TurnStays
    <3>2. ~Finds(roles, env, Expanded(roles, env, w), W[Expanded(roles, env, w)])
      BY <2>2, <3>1, TurnFinds
    <3> QED
      BY <2>2, <3>1, <3>2
  <2> QED
    BY <2>1, <2>2
<1>2. B = {}
  <2>1. B \in SUBSET Expansion
    OBVIOUS
  <2> HIDE DEF B
  <2> QED
    BY <1>1, <2>1, WalkInduction DEF WalksOn
<1> QED
  BY <1>2

\* The expansion of a run list, in an organisation with finitely many roles,
\* has every recipe and role of the list, and whatever every role it has
\* leads to in that environment; a role it cannot follow is reported as
\* missing (deps.go:70-115).  That holds however the roles name each other.
THEOREM ExpansionIsClosed ==
  ASSUME NEW roles, NEW env, RolesOK(roles, env), NEW list \in Seq(Entry), NEW x,
         x = Expand(roles, list, env)
  PROVE  /\ x \in Expansion
         /\ HasAll(list, x)
         /\ \A r \in x.roles : IF r \in DOMAIN roles THEN HasAll(ListOf(roles[r], env), x)
                                                     ELSE r \in x.missing
<1> DEFINE w == [todo |-> list, recipes |-> <<>>, roles |-> {}, missing |-> {}]
<1>1. w \in Expansion /\ w.todo = list /\ w.roles = {}
  BY DEF Expansion
<1>2. x = Walk(roles, env)[w]
  BY DEF Expand
<1> HIDE DEF w
<1>3. Finds(roles, env, w, x)
  BY <1>1, <1>2, WalkFinds
<1> QED
  BY <1>1, <1>3 DEF Finds

-----------------------------------------------------------------------------
(* The depsolver.                                                          *)

CookbooksOK(cookbooks) ==
    /\ DOMAIN cookbooks \subseteq Names /\ IsFiniteSet(DOMAIN cookbooks)
    /\ \A n \in DOMAIN cookbooks :
          /\ DOMAIN cookbooks[n] \subseteq Version /\ IsFiniteSet(DOMAIN cookbooks[n])
          /\ \A v \in DOMAIN cookbooks[n] :
                cookbooks[n][v] \subseteq Names \X Constraint /\ IsFiniteSet(cookbooks[n][v])

\* The orders of a finite set: there are some, and each has all of it.
LEMMA OrdersOf ==
  ASSUME NEW S, IsFiniteSet(S)
  PROVE  /\ SetToSeqs(S) # {}
         /\ \A order \in SetToSeqs(S) :
               order \in Seq(S) /\ \A x \in S : \E i \in 1..Len(order) : order[i] = x
<1> DEFINE n == Cardinality(S)
           D == 1..n
<1>1. n \in Nat /\ ExistsBijection(D, S) /\ IsFiniteSet(D) /\ Cardinality(D) = n
  BY FS_CardinalityType, FS_Interval
<1>2. SetToSeqs(S) = {f \in [D -> S] : \A i, j \in D : i # j => f[i] # f[j]}
  BY DEF SetToSeqs
<1>3. SetToSeqs(S) = Injection(D, S)
  BY <1>2 DEF Injection, IsInjective
<1>4. SetToSeqs(S) # {}
  BY <1>1, <1>3 DEF ExistsBijection, Bijection
<1>5. ASSUME NEW order \in SetToSeqs(S)
      PROVE  order \in Seq(S) /\ \A x \in S : \E i \in 1..Len(order) : order[i] = x
  <2>1. order \in Injection(D, S)
    BY <1>3
  <2>2. order \in Surjection(D, S)
    BY <1>1, <2>1, FS_Injection
  <2>3. order \in [D -> S] /\ \A x \in S : \E i \in D : order[i] = x
    BY <2>1, <2>2 DEF Injection, Surjection
  <2> HIDE DEF n
  <2>4. order \in Seq(S) /\ Len(order) = n
    BY <1>1, <2>3
  <2> QED
    BY <2>3, <2>4
<1> QED
  BY <1>4, <1>5

LEMMA AllowedIs ==
  ASSUME NEW cookbooks, NEW pins, CookbooksOK(cookbooks), NEW n \in DOMAIN cookbooks
  PROVE  /\ Allowed(cookbooks, pins, n) \subseteq DOMAIN cookbooks[n]
         /\ Allowed(cookbooks, pins, n) \in SUBSET Version
         /\ IsFiniteSet(Allowed(cookbooks, pins, n))
  BY FS_Subset DEF Allowed, CookbooksOK

On(t, c) == [todo |-> t, chosen |-> c]

\* A turn of the depsolver: the cookbook is chosen already, or one of its
\* versions is, and what that depends on comes next.
Skips(w, n, x) == Chosen(w, n) /\ x = On(Tail(w.todo), w.chosen)

Chooses(cookbooks, pins, w, n, x) ==
    /\ ~Chosen(w, n) /\ n \in DOMAIN cookbooks
    /\ \E v \in Allowed(cookbooks, pins, n) : \E order \in SetToSeqs(cookbooks[n][v]) :
          x = On(order \o Tail(w.todo), w.chosen \union {<<n, v>>})

LEMMA SolverTurns ==
  ASSUME NEW cookbooks, NEW pins, CookbooksOK(cookbooks),
         NEW w \in Solution, w.todo # <<>>, NEW x \in Solved(cookbooks, pins, w)
  PROVE  /\ Head(w.todo)[1] \in Names /\ Tail(w.todo) \in Seq(Names \X Constraint)
         /\ \/ Skips(w, Head(w.todo)[1], x)
            \/ Chooses(cookbooks, pins, w, Head(w.todo)[1], x)
<1> DEFINE n == Head(w.todo)[1]
           best == IF n \in DOMAIN cookbooks
                   THEN Best(Allowed(cookbooks, pins, n), Head(w.todo)[2])
                   ELSE NoVersion
<1>1. w.todo \in Seq(Names \X Constraint)
  BY DEF Solution
<1>2. n \in Names /\ Tail(w.todo) \in Seq(Names \X Constraint)
  BY <1>1, HeadTailProperties
<1>3. Solved(cookbooks, pins, w) =
        IF Chosen(w, n) THEN {[w EXCEPT !.todo = Tail(@)]}
        ELSE IF best = NoVersion THEN {}
        ELSE {[todo   |-> order \o Tail(w.todo),
               chosen |-> w.chosen \union {<<n, best>>}] : order \in SetToSeqs(cookbooks[n][best])}
  BY Zenon DEF Solved
<1>4. CASE Chosen(w, n)
  <2>1. x = [w EXCEPT !.todo = Tail(@)]
    BY <1>3, <1>4
  <2>2. x = [w EXCEPT !.todo = Tail(w.todo)]
    BY <2>1, Zenon
  <2>3. x = On(Tail(w.todo), w.chosen)
    BY <2>2 DEF On, Solution
  <2> QED
    BY <1>2, <1>4, <2>3 DEF Skips
<1>5. CASE ~Chosen(w, n)
  <2>1. best # NoVersion
    BY <1>3, <1>5
  <2>2. n \in DOMAIN cookbooks /\ best = Best(Allowed(cookbooks, pins, n), Head(w.todo)[2])
    BY <2>1
  <2>3. best \in Allowed(cookbooks, pins, n)
    <3> HIDE DEF best, n
    <3> QED
      BY <2>1, <2>2, AllowedIs, BestIs
  <2> HIDE DEF best, n
  <2>4. \E order \in SetToSeqs(cookbooks[n][best]) :
           x = On(order \o Tail(w.todo), w.chosen \union {<<n, best>>})
    BY <1>3, <1>5, <2>1 DEF On
  <2>5. Chooses(cookbooks, pins, w, n, x)
    BY <1>5, <2>2, <2>3, <2>4 DEF Chooses
  <2> QED
    BY <1>2, <2>5 DEF n
<1> QED
  BY <1>4, <1>5

LEMMA SolverStays ==
  ASSUME NEW cookbooks, NEW pins, CookbooksOK(cookbooks),
         NEW w \in Solution, w.todo # <<>>
  PROVE  Solved(cookbooks, pins, w) \subseteq Solution
<1> SUFFICES ASSUME NEW x \in Solved(cookbooks, pins, w)
             PROVE  x \in Solution
  OBVIOUS
<1> DEFINE n == Head(w.todo)[1]
<1>1. n \in Names /\ Tail(w.todo) \in Seq(Names \X Constraint) /\ w.chosen \in SUBSET (Names \X Version)
  BY SolverTurns DEF Solution
<1>2. Skips(w, n, x) \/ Chooses(cookbooks, pins, w, n, x)
  BY SolverTurns
<1> HIDE DEF n
<1>3. CASE Skips(w, n, x)
  BY <1>1, <1>3 DEF Skips, On, Solution
<1>4. CASE Chooses(cookbooks, pins, w, n, x)
  <2>0. PICK v \in Allowed(cookbooks, pins, n) : \E order \in SetToSeqs(cookbooks[n][v]) :
           x = On(order \o Tail(w.todo), w.chosen \union {<<n, v>>})
    BY <1>4 DEF Chooses
  <2>1. PICK order \in SetToSeqs(cookbooks[n][v]) :
           x = On(order \o Tail(w.todo), w.chosen \union {<<n, v>>})
    BY <2>0
  <2>2. n \in DOMAIN cookbooks
    BY <1>4 DEF Chooses
  <2>3. v \in DOMAIN cookbooks[n] /\ v \in Version
    BY <2>2, AllowedIs
  <2>4. cookbooks[n][v] \subseteq Names \X Constraint /\ IsFiniteSet(cookbooks[n][v])
    BY <2>2, <2>3 DEF CookbooksOK
  <2>5. order \in Seq(Names \X Constraint)
    BY <2>4, OrdersOf, SeqMonotonic
  <2>6. order \o Tail(w.todo) \in Seq(Names \X Constraint)
    BY <1>1, <2>5, ConcatProperties
  <2>7. w.chosen \union {<<n, v>>} \in SUBSET (Names \X Version)
    BY <1>1, <2>3
  <2> QED
    BY <2>1, <2>6, <2>7 DEF On, Solution
<1> QED
  BY <1>2, <1>3, <1>4

\* The recursive definition of the depsolver defines a function.
LEMMA SolveIs ==
  ASSUME NEW cookbooks, NEW pins, CookbooksOK(cookbooks)
  PROVE  \A w \in Solution : Solve(cookbooks, pins)[w] =
            IF w.todo = <<>> THEN {w.chosen}
            ELSE IF Solved(cookbooks, pins, w) = {} THEN {Unsolved}
            ELSE UNION {Solve(cookbooks, pins)[x] : x \in Solved(cookbooks, pins, w)}
<1> DEFINE Body(h, w) == IF w.todo = <<>> THEN {w.chosen}
                         ELSE IF Solved(cookbooks, pins, w) = {} THEN {Unsolved}
                         ELSE UNION {h[x] : x \in Solved(cookbooks, pins, w)}
           Defines(h) == h = [w \in Solution |-> Body(h, w)]
           A == (SUBSET (Names \X Version)) \union {Unsolved}
           End == {w \in Solution : w.todo = <<>> \/ Solved(cookbooks, pins, w) = {}}
           out == [w \in Solution |-> IF w.todo = <<>> THEN {w.chosen} ELSE {Unsolved}]
           next == [w \in Solution |-> IF w.todo = <<>> THEN {} ELSE Solved(cookbooks, pins, w)]
<1>1. End \in SUBSET Solution /\ out \in [Solution -> SUBSET A]
  <2>1. ASSUME NEW w \in Solution
        PROVE  (IF w.todo = <<>> THEN {w.chosen} ELSE {Unsolved}) \in SUBSET A
    <3>1. w.chosen \in SUBSET (Names \X Version)
      BY DEF Solution
    <3>2. w.chosen \in A /\ Unsolved \in A
      BY <3>1
    <3> HIDE DEF A
    <3> QED
      BY <3>2
  <2> HIDE DEF A
  <2> QED
    BY <2>1
<1>2. next \in [Solution -> SUBSET Solution]
  <2>1. ASSUME NEW w \in Solution
        PROVE  (IF w.todo = <<>> THEN {} ELSE Solved(cookbooks, pins, w)) \in SUBSET Solution
    BY SolverStays
  <2> QED
    BY <2>1
<1>3. PICK f \in [Solution -> SUBSET A] : Unfolds(f, Solution, End, out, next)
  <2> HIDE DEF End, out, next, A
  <2> QED
    BY <1>1, <1>2, Fixpoint
<1>4. ASSUME NEW w \in Solution
      PROVE  f[w] = Body(f, w)
  <2>1. CASE w.todo = <<>>
    BY <1>3, <2>1 DEF Unfolds
  <2>2. CASE w.todo # <<>> /\ Solved(cookbooks, pins, w) = {}
    BY <1>3, <2>2 DEF Unfolds
  <2>3. CASE w.todo # <<>> /\ Solved(cookbooks, pins, w) # {}
    <3>1. w \notin End /\ next[w] = Solved(cookbooks, pins, w)
      BY <2>3
    <3>2. f[w] = UNION {f[x] : x \in next[w]}
      BY <1>3, <3>1 DEF Unfolds
    <3>3. f[w] = UNION {f[x] : x \in Solved(cookbooks, pins, w)}
      BY <3>1, <3>2
    <3> QED
      BY <2>3, <3>3
  <2> QED
    BY <2>1, <2>2, <2>3
<1>5. Defines(f)
  <2>1. \A w \in Solution : f[w] = Body(f, w)
    BY <1>4
  <2>2. f = [w \in Solution |-> f[w]]
    OBVIOUS
  <2> HIDE DEF Body
  <2>3. [w \in Solution |-> f[w]] = [w \in Solution |-> Body(f, w)]
    BY <2>1
  <2> QED
    BY <2>2, <2>3
<1>6. \E g : Defines(g)
  BY <1>5
<1>7. Solve(cookbooks, pins) = CHOOSE g : Defines(g)
  BY Zenon DEF Solve
<1>8. Defines(Solve(cookbooks, pins))
  <2> HIDE DEF Defines
  <2> QED
    BY <1>6, <1>7
<1>9. \A w \in Solution : Solve(cookbooks, pins)[w] = Body(Solve(cookbooks, pins), w)
  <2> HIDE DEF Body
  <2> QED
    BY <1>8
<1> QED
  BY <1>9

IsChosen(a, n) == \E p \in a : p[1] = n

\* What an answer, a, has that is found from w on.
Answers(cookbooks, pins, w, a) ==
    /\ w.chosen \subseteq a /\ a \subseteq Names \X Version
    /\ \A i \in 1..Len(w.todo) : IsChosen(a, w.todo[i][1])
    /\ \A p \in a \ w.chosen :
          /\ ~Chosen(w, p[1])
          /\ p[1] \in DOMAIN cookbooks /\ p[2] \in Allowed(cookbooks, pins, p[1])
          /\ \A d \in cookbooks[p[1]][p[2]] : IsChosen(a, d[1])
    /\ \A p, q \in a \ w.chosen : p[1] = q[1] => p = q

\* An answer that is found after a turn is one that was to be found before it.
LEMMA TurnAnswers ==
  ASSUME NEW cookbooks, NEW pins, CookbooksOK(cookbooks),
         NEW w \in Solution, w.todo # <<>>, NEW x \in Solved(cookbooks, pins, w),
         NEW a, Answers(cookbooks, pins, x, a)
  PROVE  Answers(cookbooks, pins, w, a)
<1> DEFINE n == Head(w.todo)[1]
           t == Tail(w.todo)
<1>1. n \in Names /\ t \in Seq(Names \X Constraint) /\ w.chosen \in SUBSET (Names \X Version)
  BY SolverTurns DEF Solution
<1>2. Skips(w, n, x) \/ Chooses(cookbooks, pins, w, n, x)
  BY SolverTurns
<1>3. /\ Len(w.todo) \in Nat /\ Len(t) \in Nat /\ Len(w.todo) = Len(t) + 1 /\ n = w.todo[1][1]
      /\ \A i \in 1..Len(t) : t[i] = w.todo[i + 1]
  <2>1. w.todo \in Seq(Names \X Constraint)
    BY DEF Solution
  <2> QED
    BY <2>1, HeadTailProperties, LenProperties
<1>4. Skips(w, n, x) => x.todo = t /\ x.chosen = w.chosen
  BY DEF Skips, On
<1> HIDE DEF n, t
<1>5. IsChosen(a, n) /\ (\A i \in 1..Len(t) : IsChosen(a, t[i][1]))
        => \A i \in 1..Len(w.todo) : IsChosen(a, w.todo[i][1])
  <2> SUFFICES ASSUME IsChosen(a, n), \A i \in 1..Len(t) : IsChosen(a, t[i][1]),
                      NEW i \in 1..Len(w.todo)
               PROVE  IsChosen(a, w.todo[i][1])
    OBVIOUS
  <2>1. CASE i = 1
    BY <1>3, <2>1
  <2>2. CASE i # 1
    <3>1. i - 1 \in 1..Len(t) /\ (i - 1) + 1 = i
      BY <1>3, <2>2
    <3> QED
      BY <1>3, <3>1
  <2> QED
    BY <2>1, <2>2
<1>6. CASE Skips(w, n, x)
  <2>1. IsChosen(a, n)
    BY <1>4, <1>6 DEF Skips, Chosen, IsChosen, Answers
  <2>2. \A i \in 1..Len(t) : IsChosen(a, t[i][1])
    BY <1>4, <1>6 DEF Answers
  <2>3. \A m : Chosen(w, m) <=> Chosen(x, m)
    BY <1>4, <1>6 DEF Chosen
  <2> QED
    BY <1>4, <1>5, <1>6, <2>1, <2>2, <2>3 DEF Answers
<1>7. CASE Chooses(cookbooks, pins, w, n, x)
  <2>1. PICK v \in Allowed(cookbooks, pins, n) : \E order \in SetToSeqs(cookbooks[n][v]) :
           x = On(order \o Tail(w.todo), w.chosen \union {<<n, v>>})
    BY <1>7 DEF Chooses
  <2>2. PICK order \in SetToSeqs(cookbooks[n][v]) :
           x = On(order \o Tail(w.todo), w.chosen \union {<<n, v>>})
    BY <2>1
  <2>3. x.todo = order \o t /\ x.chosen = w.chosen \union {<<n, v>>}
    BY <2>2 DEF On, t
  <2>4. n \in DOMAIN cookbooks /\ ~Chosen(w, n)
    BY <1>7 DEF Chooses
  <2>5. v \in DOMAIN cookbooks[n] /\ v \in Version
    BY <2>4, AllowedIs
  <2>6. cookbooks[n][v] \subseteq Names \X Constraint /\ IsFiniteSet(cookbooks[n][v])
    BY <2>4, <2>5 DEF CookbooksOK
  <2>7. order \in Seq(Names \X Constraint)
        /\ \A d \in cookbooks[n][v] : \E i \in 1..Len(order) : order[i] = d
    BY <2>6, OrdersOf, SeqMonotonic
  <2>8. /\ Len(order) \in Nat /\ Len(order \o t) = Len(order) + Len(t)
        /\ \A i \in 1..(Len(order) + Len(t)) :
              (order \o t)[i] = IF i <= Len(order) THEN order[i] ELSE t[i - Len(order)]
    BY <1>1, <2>7, ConcatProperties, LenProperties
  <2>9. \A i \in 1..(Len(order) + Len(t)) : IsChosen(a, (order \o t)[i][1])
    BY <2>3, <2>8 DEF Answers
  <2>10. ASSUME NEW d \in cookbooks[n][v]
         PROVE  IsChosen(a, d[1])
    <3>1. PICK i \in 1..Len(order) : order[i] = d
      BY <2>7
    <3>2. i \in 1..(Len(order) + Len(t)) /\ (order \o t)[i] = d
      BY <1>3, <2>8, <3>1
    <3> QED
      BY <2>9, <3>2
  <2>11. ASSUME NEW i \in 1..Len(t)
         PROVE  IsChosen(a, t[i][1])
    <3>1. i + Len(order) \in 1..(Len(order) + Len(t)) /\ ~(i + Len(order) <= Len(order))
          /\ (i + Len(order)) - Len(order) = i
      BY <1>3, <2>8
    <3>2. (order \o t)[i + Len(order)] = t[i]
      BY <2>8, <3>1
    <3> QED
      BY <2>9, <3>1, <3>2
  <2>12. <<n, v>> \in a /\ IsChosen(a, n)
    BY <2>3 DEF Answers, IsChosen
  <2>13. \A i \in 1..Len(w.todo) : IsChosen(a, w.todo[i][1])
    BY <1>5, <2>11, <2>12
  <2>14. \A m : Chosen(x, m) <=> Chosen(w, m) \/ m = n
    <3> TAKE m
    <3>1. ASSUME NEW p \in x.chosen, p[1] = m
          PROVE  Chosen(w, m) \/ m = n
      BY <2>3, <3>1 DEF Chosen
    <3>2. Chosen(w, m) => Chosen(x, m)
      BY <2>3 DEF Chosen
    <3>3. <<n, v>> \in x.chosen /\ <<n, v>>[1] = n
      BY <2>3
    <3>4. m = n => Chosen(x, m)
      BY <3>3 DEF Chosen
    <3> QED
      BY <3>1, <3>2, <3>4 DEF Chosen
  <2>15. ASSUME NEW p \in a \ w.chosen
         PROVE  /\ ~Chosen(w, p[1])
                /\ p[1] \in DOMAIN cookbooks /\ p[2] \in Allowed(cookbooks, pins, p[1])
                /\ \A d \in cookbooks[p[1]][p[2]] : IsChosen(a, d[1])
    <3>1. CASE p = <<n, v>>
      BY <2>4, <2>10, <3>1
    <3>2. CASE p # <<n, v>>
      <4>1. p \in a \ x.chosen
        BY <2>3, <3>2
      <4> QED
        BY <2>14, <4>1 DEF Answers
    <3> QED
      BY <3>1, <3>2
  <2>16. ASSUME NEW p \in a \ w.chosen, NEW q \in a \ w.chosen, p[1] = q[1]
         PROVE  p = q
    <3>1. CASE p = <<n, v>> /\ q = <<n, v>>
      BY <3>1
    <3>2. CASE p # <<n, v>> /\ q # <<n, v>>
      <4>1. p \in a \ x.chosen /\ q \in a \ x.chosen
        BY <2>3, <3>2
      <4> QED
        BY <2>16, <4>1 DEF Answers
    <3>3. CASE p = <<n, v>> /\ q # <<n, v>>
      <4>1. q \in a \ x.chosen
        BY <2>3, <3>3
      <4>2. ~Chosen(x, q[1])
        BY <4>1 DEF Answers
      <4> QED
        BY <2>14, <2>16, <3>3, <4>2
    <3>4. CASE p # <<n, v>> /\ q = <<n, v>>
      <4>1. p \in a \ x.chosen
        BY <2>3, <3>4
      <4>2. ~Chosen(x, p[1])
        BY <4>1 DEF Answers
      <4> QED
        BY <2>14, <2>16, <3>4, <4>2
    <3> QED
      BY <3>1, <3>2, <3>3, <3>4
  <2>17. w.chosen \subseteq a /\ a \subseteq Names \X Version
    BY <2>3 DEF Answers
  <2> QED
    BY <2>13, <2>15, <2>16, <2>17 DEF Answers
<1> QED
  BY <1>2, <1>6, <1>7

\* Induction along the depsolver's walk: every turn has a cookbook less to
\* choose or an entry less to look at.
SolvesOn(cookbooks, pins, B) ==
    \A w \in B : w.todo # <<>> /\ \E x \in Solved(cookbooks, pins, w) : x \in B

LEMMA SolverInduction ==
  ASSUME NEW cookbooks, NEW pins, CookbooksOK(cookbooks), NEW B \in SUBSET Solution,
         SolvesOn(cookbooks, pins, B)
  PROVE  B = {}
<1> DEFINE Open(w) == {n \in DOMAIN cookbooks : ~Chosen(w, n)}
           left == [w \in B |-> Open(w)]
           len == [w \in B |-> Len(w.todo)]
<1>1. SUFFICES ASSUME B # {}
               PROVE  FALSE
  OBVIOUS
<1>2. left \in [B -> FiniteSubsetsOf(Names)]
  <2>1. ASSUME NEW w \in B
        PROVE  Open(w) \in FiniteSubsetsOf(Names)
    BY FS_Subset DEF CookbooksOK, FiniteSubsetsOf
  <2> QED
    BY <2>1
<1>3. len \in [B -> Nat]
  <2>1. ASSUME NEW w \in B
        PROVE  Len(w.todo) \in Nat
    BY LenProperties DEF Solution
  <2> QED
    BY <2>1
<1>4. \A w \in B : left[w] = Open(w) /\ len[w] = Len(w.todo)
  OBVIOUS
<1> HIDE DEF left, len
<1>5. PICK w \in B : \A x \in B :
            /\ ~(left[x] \subseteq left[w] /\ left[x] # left[w])
            /\ left[x] = left[w] => len[w] <= len[x]
  BY <1>1, <1>2, <1>3, LowestPlace
<1>6. w \in Solution /\ w.todo # <<>>
  BY DEF SolvesOn
<1>7. PICK x \in Solved(cookbooks, pins, w) : x \in B
  BY DEF SolvesOn
<1> DEFINE n == Head(w.todo)[1]
<1>8. Skips(w, n, x) \/ Chooses(cookbooks, pins, w, n, x)
  BY <1>6, <1>7, SolverTurns
<1>9. Len(Tail(w.todo)) = Len(w.todo) - 1 /\ Len(w.todo) \in Nat
  BY <1>6, HeadTailProperties, LenProperties DEF Solution
<1> HIDE DEF n
<1>10. CASE Skips(w, n, x)
  <2>1. x.todo = Tail(w.todo) /\ x.chosen = w.chosen
    BY <1>10 DEF Skips, On
  <2>2. Open(x) = Open(w)
    BY <2>1 DEF Chosen
  <2>3. left[x] = left[w] /\ len[x] = Len(Tail(w.todo)) /\ len[w] = Len(w.todo)
    BY <1>4, <1>5, <1>7, <2>1, <2>2
  <2>4. len[w] <= len[x]
    BY <1>5, <1>7, <2>3
  <2> QED
    BY <1>9, <2>3, <2>4
<1>11. CASE Chooses(cookbooks, pins, w, n, x)
  <2>1. PICK v : \E t : x = On(t, w.chosen \union {<<n, v>>})
    BY <1>11 DEF Chooses
  <2>2. <<n, v>> \in x.chosen /\ w.chosen \subseteq x.chosen
    BY <2>1 DEF On
  <2>3. n \in Open(w)
    BY <1>11 DEF Chooses
  <2>4. Chosen(x, n)
    BY <2>2 DEF Chosen
  <2>5. Open(x) \subseteq Open(w)
    BY <2>2 DEF Chosen
  <2>6. left[x] \subseteq left[w] /\ left[x] # left[w]
    BY <1>4, <1>5, <1>7, <2>3, <2>4, <2>5
  <2> QED
    BY <1>5, <1>7, <2>6
<1> QED
  BY <1>8, <1>10, <1>11

LEMMA SolveAnswers ==
  ASSUME NEW cookbooks, NEW pins, CookbooksOK(cookbooks)
  PROVE  \A w \in Solution : \A a \in Solve(cookbooks, pins)[w] :
            a = Unsolved \/ Answers(cookbooks, pins, w, a)
<1> DEFINE S == Solve(cookbooks, pins)
           Good(w) == \A a \in S[w] : a = Unsolved \/ Answers(cookbooks, pins, w, a)
           B == {w \in Solution : ~Good(w)}
<1>1. ASSUME NEW w \in B
      PROVE  w.todo # <<>> /\ \E x \in Solved(cookbooks, pins, w) : x \in B
  <2>1. PICK a \in S[w] : a # Unsolved /\ ~Answers(cookbooks, pins, w, a)
    OBVIOUS
  <2>2. S[w] = IF w.todo = <<>> THEN {w.chosen}
               ELSE IF Solved(cookbooks, pins, w) = {} THEN {Unsolved}
               ELSE UNION {S[x] : x \in Solved(cookbooks, pins, w)}
    <3>1. w \in Solution
      OBVIOUS
    <3> QED
      BY <3>1, SolveIs, Zenon
  <2>3. CASE w.todo = <<>>
    <3>1. S[w] = {w.chosen}
      BY <2>2, <2>3
    <3>2. Len(w.todo) = 0
      BY <2>3
    <3> QED
      BY <2>1, <3>1, <3>2 DEF Answers, Solution
  <2>4. CASE w.todo # <<>>
    <3>1. Solved(cookbooks, pins, w) # {}
      BY <2>1, <2>2, <2>4
    <3>2. S[w] = UNION {S[x] : x \in Solved(cookbooks, pins, w)}
      BY <2>2, <2>4, <3>1
    <3>3. PICK x \in Solved(cookbooks, pins, w) : a \in S[x]
      BY <2>1, <3>2
    <3>4. x \in Solution /\ ~Answers(cookbooks, pins, x, a)
      BY <2>1, <2>4, <3>3, SolverStays, TurnAnswers
    <3>5. x \in B
      BY <2>1, <3>3, <3>4
    <3> QED
      BY <2>4, <3>5
  <2> QED
    BY <2>3, <2>4
<1>2. B = {}
  <2>1. B \in SUBSET Solution
    OBVIOUS
  <2> HIDE DEF B
  <2> QED
    BY <1>1, <2>1, SolverInduction DEF SolvesOn
<1> QED
  BY <1>2

\* Whatever order of a map an answer of the depsolver comes from, it has one
\* version of each cookbook that was asked for and of each that one of its
\* versions depends on, all of them versions that are on the server and that
\* the environment allows, and of no cookbook two (routes.go:1680-1762).
THEOREM AnswersAreComplete ==
  ASSUME NEW cookbooks, NEW pins, CookbooksOK(cookbooks),
         NEW asked \in Seq(Names \X Constraint), NEW a \in Depsolve(cookbooks, pins, asked),
         a # Unsolved
  PROVE  /\ \A i \in 1..Len(asked) : IsChosen(a, asked[i][1])
         /\ \A p \in a : /\ p[1] \in DOMAIN cookbooks /\ p[2] \in Allowed(cookbooks, pins, p[1])
                         /\ \A d \in cookbooks[p[1]][p[2]] : IsChosen(a, d[1])
         /\ \A p, q \in a : p[1] = q[1] => p = q
         /\ a \subseteq Names \X Version
<1> DEFINE w == [todo |-> asked, chosen |-> {}]
<1>1. w \in Solution /\ w.todo = asked /\ w.chosen = {}
  BY DEF Solution
<1>2. a \in Solve(cookbooks, pins)[w]
  BY DEF Depsolve
<1> HIDE DEF w
<1>3. Answers(cookbooks, pins, w, a)
  BY <1>1, <1>2, SolveAnswers
<1> QED
  BY <1>1, <1>3 DEF Answers

-----------------------------------------------------------------------------
(* Items and the queue.                                                    *)

Stock(it) ==
    /\ it = [kind |-> it.kind, name |-> it.name, sub |-> it.sub,
             resolved |-> it.resolved, body |-> it.body]
    /\ it.kind \in Kinds /\ it.resolved \in BOOLEAN
    /\ it.body # None => it.kind = "policygroup"
    /\ it.kind = "cookbook" => it.sub \in Version \union {None, NoVersion}

Queued(it, q) == \E i \in 1..Len(q) : it \in q[i]

GoodQueue(q) ==
    /\ q \in Seq(ToSet(q))
    /\ \A i \in 1..Len(q) : q[i] # {} /\ \A it \in q[i] : Stock(it)

LEMMA ItemIs ==
  ASSUME NEW kind \in Kinds, NEW name, NEW sub,
         kind = "cookbook" => sub \in Version \union {None, NoVersion}
  PROVE  /\ Stock(Item(kind, name, sub)) /\ Stock(Resolved(kind, name, sub))
         /\ Key(Item(kind, name, sub)) = <<kind, name, sub>>
         /\ Key(Resolved(kind, name, sub)) = <<kind, name, sub>>
         /\ Item(kind, name, sub).kind = kind /\ Resolved(kind, name, sub).kind = kind
         /\ Item(kind, name, sub).sub = sub /\ Resolved(kind, name, sub).sub = sub
<1>1. Item(kind, name, sub) =
         [kind |-> kind, name |-> name, sub |-> sub, resolved |-> FALSE, body |-> None]
  BY DEF Item
<1>2. Resolved(kind, name, sub) =
         [kind |-> kind, name |-> name, sub |-> sub, resolved |-> TRUE, body |-> None]
  <2> DEFINE i == Item(kind, name, sub)
  <2>1. i \in [kind : {kind}, name : {name}, sub : {sub}, resolved : BOOLEAN, body : {None}]
    BY <1>1
  <2>2. Resolved(kind, name, sub) = [i EXCEPT !.resolved = TRUE]
    BY DEF Resolved
  <2> HIDE DEF i
  <2> QED
    BY <2>1, <2>2
<1> QED
  BY <1>1, <1>2 DEF Stock, Key

LEMMA FieldsAre ==
  ASSUME NEW kind, NEW name, NEW sub
  PROVE  /\ Item(kind, name, sub).name = name /\ Resolved(kind, name, sub).name = name
         /\ Item(kind, name, sub).kind = kind /\ Resolved(kind, name, sub).kind = kind
         /\ Item(kind, name, sub).body = None /\ Resolved(kind, name, sub).body = None
         /\ ~Item(kind, name, sub).resolved /\ Resolved(kind, name, sub).resolved
<1>1. Item(kind, name, sub) \in [kind : {kind}, name : {name}, sub : {sub},
                                 resolved : {FALSE}, body : {None}]
  BY DEF Item
<1>2. Resolved(kind, name, sub) = [Item(kind, name, sub) EXCEPT !.resolved = TRUE]
  BY DEF Resolved
<1> QED
  BY <1>1, <1>2

LEMMA PlainItem ==
  ASSUME NEW it, NEW kind, NEW name, NEW sub, it = Item(kind, name, sub)
  PROVE  it.kind = kind /\ it.name = name /\ it.body = None /\ ~it.resolved
  BY FieldsAre

LEMMA ResolvedItem ==
  ASSUME NEW it, NEW kind, NEW name, NEW sub, it = Resolved(kind, name, sub)
  PROVE  it.kind = kind /\ it.name = name /\ it.body = None /\ it.resolved
  BY FieldsAre

LEMMA VersionedIs ==
  ASSUME NEW it, Stock(it), \A n \in DOMAIN src.cookbooks :
            DOMAIN src.cookbooks[n] \subseteq Version /\ IsFiniteSet(DOMAIN src.cookbooks[n])
  PROVE  /\ Stock(Versioned(it)) /\ Versioned(it).kind = it.kind
         /\ Versioned(it).name = it.name
         /\ Versioned(it).resolved = it.resolved /\ Versioned(it).body = it.body
         /\ Versioned(it).kind = "cookbook" => Versioned(it).sub \in Version \union {NoVersion}
         /\ (it.kind # "cookbook" \/ it.sub # None) => Versioned(it) = it
<1>1. Versions(it.name) \in SUBSET Version /\ IsFiniteSet(Versions(it.name))
  BY FS_EmptySet DEF Versions
<1>2. CASE it.kind = "cookbook" /\ it.sub = None
  <2> DEFINE l == Latest(Versions(it.name))
  <2>1. l \in Version \union {NoVersion}
    BY <1>1, LatestIs
  <2> HIDE DEF l
  <2>2. Versioned(it) = [it EXCEPT !.sub = l]
    BY <1>2 DEF Versioned, l
  <2>3. Versioned(it) = [kind |-> it.kind, name |-> it.name, sub |-> l,
                         resolved |-> it.resolved, body |-> it.body]
    BY <2>2 DEF Stock
  <2> QED
    BY <1>2, <2>1, <2>3 DEF Stock
<1>3. CASE ~(it.kind = "cookbook" /\ it.sub = None)
  <2>1. Versioned(it) = it
    BY <1>3 DEF Versioned
  <2> QED
    BY <1>3, <2>1 DEF Stock
<1> QED
  BY <1>2, <1>3

LEMMA StagedSet ==
  ASSUME NEW X, NEW q \in Seq(X)
  PROVE  q \in Seq(ToSet(q)) /\ \A i \in 1..Len(q) : q[i] \in ToSet(q)
<1>1. q \in [1..Len(q) -> X] /\ Len(q) \in Nat /\ DOMAIN q = 1..Len(q)
  BY LenProperties
<1>2. \A i \in 1..Len(q) : q[i] \in ToSet(q)
  BY <1>1 DEF ToSet
<1>3. q \in [1..Len(q) -> ToSet(q)]
  BY <1>1, <1>2
<1> QED
  BY <1>1, <1>2, <1>3

LEMMA StageIs ==
  ASSUME NEW S, \A it \in S : Stock(it)
  PROVE  GoodQueue(Stage(S)) /\ \A it : Queued(it, Stage(S)) <=> it \in S
<1>1. CASE S = {}
  <2>1. Stage(S) = <<>>
    BY <1>1 DEF Stage
  <2>2. <<>> \in Seq({}) /\ Len(<<>>) = 0
    OBVIOUS
  <2>3. <<>> \in Seq(ToSet(<<>>))
    BY <2>2, StagedSet
  <2>4. 1..0 = {}
    OBVIOUS
  <2> QED
    BY <1>1, <2>1, <2>2, <2>3, <2>4 DEF GoodQueue, Queued
<1>2. CASE S # {}
  <2>1. Stage(S) = <<S>>
    BY <1>2 DEF Stage
  <2>2. <<S>> \in Seq({S}) /\ Len(<<S>>) = 1 /\ <<S>>[1] = S /\ 1..1 = {1}
    OBVIOUS
  <2>3. <<S>> \in Seq(ToSet(<<S>>))
    BY <2>2, StagedSet
  <2> QED
    BY <1>2, <2>1, <2>2, <2>3 DEF GoodQueue, Queued
<1> QED
  BY <1>1, <1>2

LEMMA JoinedIs ==
  ASSUME NEW q, NEW r, GoodQueue(q), GoodQueue(r)
  PROVE  GoodQueue(q \o r) /\ \A it : Queued(it, q \o r) <=> Queued(it, q) \/ Queued(it, r)
<1> DEFINE X == ToSet(q) \union ToSet(r)
<1>1. q \in Seq(X) /\ r \in Seq(X)
  BY SeqMonotonic DEF GoodQueue
<1> HIDE DEF X
<1>2. /\ q \o r \in Seq(X) /\ Len(q \o r) = Len(q) + Len(r)
      /\ Len(q) \in Nat /\ Len(r) \in Nat
      /\ \A i \in 1..(Len(q) + Len(r)) : (q \o r)[i] = IF i <= Len(q) THEN q[i] ELSE r[i - Len(q)]
  BY <1>1, ConcatProperties, LenProperties
<1> DEFINE j == q \o r
<1> HIDE DEF j
<1>3. \A i \in 1..Len(q) : i \in 1..Len(j) /\ j[i] = q[i]
  BY <1>2 DEF j
<1>4. \A i \in 1..Len(r) : i + Len(q) \in 1..Len(j) /\ j[i + Len(q)] = r[i]
  <2> TAKE i \in 1..Len(r)
  <2>1. i + Len(q) \in 1..(Len(q) + Len(r)) /\ ~(i + Len(q) <= Len(q)) /\ (i + Len(q)) - Len(q) = i
    BY <1>2
  <2> QED
    BY <1>2, <2>1 DEF j
<1>5. \A i \in 1..Len(j) : \/ i \in 1..Len(q) /\ j[i] = q[i]
                           \/ i - Len(q) \in 1..Len(r) /\ j[i] = r[i - Len(q)]
  <2> TAKE i \in 1..Len(j)
  <2>1. i \in 1..(Len(q) + Len(r))
    BY <1>2 DEF j
  <2>2. CASE i <= Len(q)
    <3>1. i \in 1..Len(q)
      BY <1>2, <2>1, <2>2
    <3> QED
      BY <1>3, <3>1
  <2>3. CASE ~(i <= Len(q))
    <3>1. i - Len(q) \in 1..Len(r)
      BY <1>2, <2>1, <2>3
    <3>2. j[i] = r[i - Len(q)]
      BY <1>2, <2>1, <2>3 DEF j
    <3> QED
      BY <3>1, <3>2
  <2> QED
    BY <2>2, <2>3
<1>6. j \in Seq(ToSet(j))
  BY <1>2, StagedSet DEF j
<1>7. GoodQueue(j)
  BY <1>5, <1>6 DEF GoodQueue
<1>8. \A it : Queued(it, j) <=> Queued(it, q) \/ Queued(it, r)
  BY <1>3, <1>4, <1>5 DEF Queued
<1> QED
  BY <1>7, <1>8 DEF j

LEMMA DequeuedIs ==
  ASSUME GoodQueue(queue), queue # <<>>, NEW it \in Head(queue)
  PROVE  /\ GoodQueue(Dequeue(it))
         /\ \A x : Queued(x, queue) => x = it \/ Queued(x, Dequeue(it))
         /\ \A x : Queued(x, Dequeue(it)) => Queued(x, queue)
<1>1. /\ queue \in Seq(ToSet(queue)) /\ Len(queue) \in Nat /\ 1 \in 1..Len(queue)
      /\ Head(queue) = queue[1]
  BY LenProperties, EmptySeq DEF GoodQueue
<1>2. CASE Head(queue) = {it}
  <2>1. Dequeue(it) = Tail(queue)
    BY <1>2 DEF Dequeue
  <2>2. /\ Tail(queue) \in Seq(ToSet(queue)) /\ Len(Tail(queue)) = Len(queue) - 1
        /\ \A i \in 1..Len(Tail(queue)) : Tail(queue)[i] = queue[i + 1]
    BY <1>1, HeadTailProperties
  <2> DEFINE t == Tail(queue)
  <2> HIDE DEF t
  <2>3. \A i \in 1..Len(t) : i + 1 \in 1..Len(queue) /\ t[i] = queue[i + 1]
    BY <1>1, <2>2 DEF t
  <2>4. \A i \in 1..Len(queue) : i = 1 \/ (i - 1 \in 1..Len(t) /\ t[i - 1] = queue[i])
    <3> TAKE i \in 1..Len(queue)
    <3>1. i # 1 => i - 1 \in 1..Len(t) /\ (i - 1) + 1 = i
      BY <1>1, <2>2 DEF t
    <3> QED
      BY <2>3, <3>1
  <2>5. t \in Seq(ToSet(t))
    BY <2>2, StagedSet DEF t
  <2>6. GoodQueue(t)
    BY <2>3, <2>5 DEF GoodQueue
  <2>7. \A x : Queued(x, queue) => x = it \/ Queued(x, t)
    BY <1>1, <1>2, <2>4 DEF Queued
  <2>8. \A x : Queued(x, t) => Queued(x, queue)
    BY <2>3 DEF Queued
  <2> QED
    BY <2>1, <2>6, <2>7, <2>8 DEF t
<1>3. CASE Head(queue) # {it}
  <2> DEFINE d == [queue EXCEPT ![1] = queue[1] \ {it}]
             X == ToSet(queue) \union {queue[1] \ {it}}
  <2>1. Dequeue(it) = d
    BY <1>3, Zenon DEF Dequeue
  <2>2. queue \in Seq(X)
    BY <1>1, SeqMonotonic
  <2>3. queue[1] \ {it} \in X
    OBVIOUS
  <2> HIDE DEF X
  <2>4. /\ d \in Seq(X) /\ Len(d) = Len(queue)
        /\ \A i \in 1..Len(queue) : d[i] = IF i = 1 THEN queue[1] \ {it} ELSE queue[i]
    BY <1>1, <2>2, <2>3, ExceptSeq
  <2> HIDE DEF d
  <2>5. d \in Seq(ToSet(d))
    BY <2>4, StagedSet
  <2>6. queue[1] \ {it} # {}
    BY <1>1, <1>3
  <2>7. GoodQueue(d)
    BY <2>4, <2>5, <2>6 DEF GoodQueue
  <2>8. \A x : Queued(x, queue) => x = it \/ Queued(x, d)
    BY <2>4 DEF Queued
  <2>9. \A x : Queued(x, d) => Queued(x, queue)
    BY <2>4 DEF Queued
  <2> QED
    BY <2>1, <2>7, <2>8, <2>9
<1> QED
  BY <1>2, <1>3

\* Among the first m stages of a queue.
Early(x, q, m) == \E j \in 1..m : x \in q[j]

LEMMA JoinedEarly ==
  ASSUME NEW q, NEW r, GoodQueue(q), GoodQueue(r), NEW m \in 0..Len(q)
  PROVE  m \in 0..Len(q \o r) /\ \A x : Early(x, q \o r, m) <=> Early(x, q, m)
<1> DEFINE X == ToSet(q) \union ToSet(r)
<1>1. q \in Seq(X) /\ r \in Seq(X)
  BY SeqMonotonic DEF GoodQueue
<1> HIDE DEF X
<1>2. /\ Len(q \o r) = Len(q) + Len(r) /\ Len(q) \in Nat /\ Len(r) \in Nat
      /\ \A i \in 1..(Len(q) + Len(r)) : (q \o r)[i] = IF i <= Len(q) THEN q[i] ELSE r[i - Len(q)]
  BY <1>1, ConcatProperties, LenProperties
<1> DEFINE j == q \o r
<1> HIDE DEF j
<1>3. \A i \in 1..m : j[i] = q[i]
  BY <1>2 DEF j
<1>4. m \in 0..Len(j)
  BY <1>2 DEF j
<1> QED
  BY <1>3, <1>4 DEF Early, j

\* What is early in the queue stays so, but for the item that is taken.
LEMMA DequeuedEarly ==
  ASSUME GoodQueue(queue), queue # <<>>, NEW it \in Head(queue), NEW m \in 1..Len(queue)
  PROVE  \E k \in 0..Len(Dequeue(it)) :
            \A x : /\ Early(x, queue, m) => x = it \/ Early(x, Dequeue(it), k)
                   /\ Early(x, Dequeue(it), k) => Early(x, queue, m)
<1>1. /\ queue \in Seq(ToSet(queue)) /\ Len(queue) \in Nat /\ 1 \in 1..Len(queue)
      /\ Head(queue) = queue[1]
  BY LenProperties, EmptySeq DEF GoodQueue
<1>2. CASE Head(queue) = {it}
  <2>1. Dequeue(it) = Tail(queue)
    BY <1>2 DEF Dequeue
  <2>2. /\ Len(Tail(queue)) = Len(queue) - 1
        /\ \A i \in 1..Len(Tail(queue)) : Tail(queue)[i] = queue[i + 1]
    BY <1>1, HeadTailProperties
  <2> DEFINE t == Tail(queue)
  <2> HIDE DEF t
  <2>3. m - 1 \in 0..Len(t)
    BY <1>1, <2>2 DEF t
  <2>4. \A i \in 1..(m - 1) : i + 1 \in 1..m /\ t[i] = queue[i + 1]
    BY <1>1, <2>2 DEF t
  <2>5. \A i \in 1..m : i = 1 \/ (i - 1 \in 1..(m - 1) /\ t[i - 1] = queue[i])
    <3> TAKE i \in 1..m
    <3>1. i # 1 => i - 1 \in 1..(m - 1) /\ (i - 1) + 1 = i
      BY <1>1
    <3> QED
      BY <2>4, <3>1
  <2>6. \A x : Early(x, queue, m) => x = it \/ Early(x, t, m - 1)
    BY <1>1, <1>2, <2>5 DEF Early
  <2>7. \A x : Early(x, t, m - 1) => Early(x, queue, m)
    BY <2>4 DEF Early
  <2> QED
    BY <2>1, <2>3, <2>6, <2>7 DEF t
<1>3. CASE Head(queue) # {it}
  <2> DEFINE d == [queue EXCEPT ![1] = queue[1] \ {it}]
             X == ToSet(queue) \union {queue[1] \ {it}}
  <2>1. Dequeue(it) = d
    BY <1>3, Zenon DEF Dequeue
  <2>2. queue \in Seq(X)
    BY <1>1, SeqMonotonic
  <2>3. queue[1] \ {it} \in X
    OBVIOUS
  <2> HIDE DEF X
  <2>4. /\ Len(d) = Len(queue)
        /\ \A i \in 1..Len(queue) : d[i] = IF i = 1 THEN queue[1] \ {it} ELSE queue[i]
    BY <1>1, <2>2, <2>3, ExceptSeq
  <2> HIDE DEF d
  <2>5. m \in 0..Len(d) /\ \A i \in 1..m : i \in 1..Len(queue)
    BY <1>1, <2>4
  <2>6. \A x : Early(x, queue, m) => x = it \/ Early(x, d, m)
    BY <2>4, <2>5 DEF Early
  <2>7. \A x : Early(x, d, m) => Early(x, queue, m)
    BY <2>4, <2>5 DEF Early
  <2> QED
    BY <2>1, <2>5, <2>6, <2>7
<1> QED
  BY <1>2, <1>3

-----------------------------------------------------------------------------
(* What an item brings.                                                    *)

\* The next items are there, in a queue; what an item needs is among them.
Met(any, q) == \E k \in any : \E it : Queued(it, q) /\ Key(Versioned(it)) = k

LEMMA SourceIs ==
  ASSUME src \in Sources
  PROVE  /\ CookbooksOK(src.cookbooks)
         /\ \A env : RolesOK(src.roles, env)
         /\ \A n : Versions(n) \in SUBSET Version /\ IsFiniteSet(Versions(n))
         /\ \A it : Stock(it) =>
               /\ Stock(Versioned(it)) /\ Versioned(it).kind = it.kind
               /\ Versioned(it).name = it.name
               /\ Versioned(it).resolved = it.resolved /\ Versioned(it).body = it.body
<1>1. CookbooksOK(src.cookbooks)
  BY PlannerAssumption DEF CookbooksOK
<1>2. ASSUME NEW env
      PROVE  RolesOK(src.roles, env)
  <2>1. \A r \in DOMAIN src.roles : ListOf(src.roles[r], env) \in Seq(Entry)
    BY PlannerAssumption DEF ListOf
  <2> QED
    BY <2>1, PlannerAssumption DEF RolesOK
<1>3. ASSUME NEW n
      PROVE  Versions(n) \in SUBSET Version /\ IsFiniteSet(Versions(n))
  BY <1>1, FS_EmptySet DEF Versions, CookbooksOK
<1>4. ASSUME NEW it, Stock(it)
      PROVE  /\ Stock(Versioned(it)) /\ Versioned(it).kind = it.kind
             /\ Versioned(it).name = it.name
             /\ Versioned(it).resolved = it.resolved /\ Versioned(it).body = it.body
  BY <1>1, <1>4, VersionedIs DEF CookbooksOK
<1> QED
  BY <1>1, <1>2, <1>3, <1>4

\* A cookbook that is queued with a version keeps it, other kinds are what
\* they are.
LEMMA KeyOfQueued ==
  ASSUME src \in Sources, NEW kind \in Kinds, NEW name, NEW sub,
         kind = "cookbook" => sub \in Version
  PROVE  /\ Stock(Item(kind, name, sub)) /\ Stock(Resolved(kind, name, sub))
         /\ Key(Versioned(Item(kind, name, sub))) = <<kind, name, sub>>
         /\ Key(Versioned(Resolved(kind, name, sub))) = <<kind, name, sub>>
         /\ Versioned(Item(kind, name, sub)) = Item(kind, name, sub)
         /\ Versioned(Resolved(kind, name, sub)) = Resolved(kind, name, sub)
<1>1. kind = "cookbook" => sub # None
  BY PlannerAssumption
<1>2. /\ Stock(Item(kind, name, sub)) /\ Stock(Resolved(kind, name, sub))
      /\ Item(kind, name, sub).kind = kind /\ Resolved(kind, name, sub).kind = kind
      /\ Item(kind, name, sub).sub = sub /\ Resolved(kind, name, sub).sub = sub
  BY ItemIs
<1>3. Versioned(Item(kind, name, sub)) = Item(kind, name, sub)
  BY <1>1, <1>2 DEF Versioned
<1>4. Versioned(Resolved(kind, name, sub)) = Resolved(kind, name, sub)
  BY <1>1, <1>2 DEF Versioned
<1> QED
  BY <1>2, <1>3, <1>4, ItemIs

\* Recipes that have lost their pins.
LEMMA BareIs ==
  ASSUME NEW recipes \in Seq(Names)
  PROVE  /\ Bare(recipes) \in Seq(Names \X Constraint) /\ Len(Bare(recipes)) = Len(recipes)
         /\ \A i \in 1..Len(recipes) : Bare(recipes)[i][1] = recipes[i]
         /\ Bare(recipes) = <<>> <=> recipes = <<>>
<1> DEFINE asked == [i \in DOMAIN recipes |-> <<recipes[i], AnyVersion>>]
<1>1. Bare(recipes) = asked
  BY DEF Bare
<1>2. AnyVersion \in Constraint
  BY DEF AnyVersion, Constraint, Version
<1>3. /\ asked \in Seq(Names \X Constraint) /\ Len(asked) = Len(recipes)
      /\ \A i \in 1..Len(recipes) : asked[i][1] = recipes[i]
  BY <1>2
<1> HIDE DEF asked
<1>4. asked = <<>> <=> recipes = <<>>
  BY <1>3, EmptySeq, LenProperties
<1> QED
  BY <1>1, <1>3, <1>4

\* Items that bring nothing, though they need something: what led to them
\* has brought it.
Led(it) == it.resolved /\ it.kind \in {"cookbook", "group"}

Warned(w) == \E y \in w : y[1] = "unsolved"

KeysOf(its) == {Key(it) : it \in its}

\* One of the keys is in the plan, or will be when the queue has been served.
Due(any, its, q) == any \intersect KeysOf(its) # {} \/ Met(any, q)

\* So is all that an item needs, unless there is a warning.
Covered(it, its, q, w) ==
    \/ it.kind = "cookbook" /\ it.resolved /\ Warned(w)
    \/ \A any \in NeedsOf(it) : Due(any, its, q)

\* All versions of one of the depsolver's answers, and versions of what they
\* depend on.
LEMMA SolvedIs ==
  ASSUME src \in Sources, NEW recipes \in Seq(Names), NEW env,
         NEW solved \in SolveOn(src, env, Bare(recipes)), solved # Unsolved
  PROVE  /\ solved \subseteq Names \X Version
         /\ \A c \in ToSet(recipes) : \E p \in solved : p[1] = c
         /\ \A p \in solved : /\ p[2] \in Versions(p[1])
                              /\ \A d \in src.cookbooks[p[1]][p[2]] : \E q \in solved : q[1] = d[1]
<1> DEFINE asked == Bare(recipes)
<1>1. /\ asked \in Seq(Names \X Constraint) /\ Len(asked) = Len(recipes)
      /\ \A i \in 1..Len(recipes) : asked[i][1] = recipes[i]
      /\ asked = <<>> <=> recipes = <<>>
  BY BareIs
<1> HIDE DEF asked
<1>2. CASE asked = <<>>
  <2>1. solved = {} /\ ToSet(recipes) = {}
    BY <1>1, <1>2 DEF SolveOn, ToSet, asked
  <2> QED
    BY <2>1
<1>3. CASE asked # <<>>
  <2>1. env \in DOMAIN src.envs /\ solved \in Depsolve(src.cookbooks, src.envs[env], asked)
    BY <1>3 DEF SolveOn, asked
  <2>2. CookbooksOK(src.cookbooks)
    BY SourceIs
  <2>3. PICK books : books = src.cookbooks
    OBVIOUS
  <2>4. PICK pins : pins = src.envs[env]
    OBVIOUS
  <2>5. CookbooksOK(books) /\ solved \in Depsolve(books, pins, asked)
    BY <2>1, <2>2, <2>3, <2>4
  <2>6. /\ \A i \in 1..Len(asked) : IsChosen(solved, asked[i][1])
        /\ \A p \in solved : /\ p[1] \in DOMAIN books /\ p[2] \in Allowed(books, pins, p[1])
                             /\ \A d \in books[p[1]][p[2]] : IsChosen(solved, d[1])
        /\ solved \subseteq Names \X Version
    BY <1>1, <2>5, AnswersAreComplete, Zenon
  <2>7. ASSUME NEW c \in ToSet(recipes)
        PROVE  \E p \in solved : p[1] = c
    <3>1. PICK i \in 1..Len(recipes) : recipes[i] = c
      BY DEF ToSet
    <3> QED
      BY <1>1, <2>6, <3>1 DEF IsChosen
  <2>8. ASSUME NEW p \in solved
        PROVE  p[2] \in Versions(p[1])
    BY <2>2, <2>3, <2>6, AllowedIs DEF Versions
  <2>9. ASSUME NEW p \in solved, NEW d \in src.cookbooks[p[1]][p[2]]
        PROVE  \E q \in solved : q[1] = d[1]
    BY <2>3, <2>6 DEF IsChosen
  <2> QED
    BY <2>6, <2>7, <2>8, <2>9
<1> QED
  BY <1>2, <1>3

\* A run list brings the roles it leads to, and a version of every cookbook
\* of its recipes of which the source has one: the depsolver's with versions
\* of what they depend on, or, with a warning, the newest.
LEMMA RunListBrings ==
  ASSUME src \in Sources, NEW list \in Seq(Entry), NEW env, NEW because,
         NEW r \in RunList(list, env, because),
         NEW ex, ex = Expand(src.roles, list, env)
  PROVE  /\ \A it \in r.add : /\ Stock(it) /\ it.kind \in {"role", "cookbook"}
                              /\ it.kind = "cookbook" => Versioned(it) = it
         /\ \A n \in ex.roles : Resolved("role", n, None) \in r.add
         /\ \A c \in ToSet(ex.recipes) : Versions(c) # {} =>
               \E v \in Versions(c) : Resolved("cookbook", c, v) \in r.add
         /\ \/ <<"unsolved", because>> \in r.warn
            \/ /\ \E solved \in SolveOn(src, env, Bare(ex.recipes)) : solved # Unsolved /\
                     \A p \in solved : p[2] \in Version /\ Resolved("cookbook", p[1], p[2]) \in r.add
               /\ \A it \in r.add : it.kind = "cookbook" =>
                     \A d \in src.cookbooks[it.name][it.sub] :
                        \E v \in Versions(d[1]) : Resolved("cookbook", d[1], v) \in r.add
<1> DEFINE roles == {Resolved("role", n, None) : n \in ex.roles}
           named == ToSet(ex.recipes)
           latest == {Resolved("cookbook", n, Latest(Versions(n))) :
                         n \in {m \in named : Latest(Versions(m)) # NoVersion}}
           absent == {<<"absent", n>> : n \in {m \in named : Latest(Versions(m)) = NoVersion}}
           missing == {<<"missing role", n>> : n \in ex.missing}
           Plain(solved) == {Resolved("cookbook", p[1], p[2]) : p \in solved}
<1>1. PICK solved \in Solutions(env, ex.recipes) :
         r = IF solved = Unsolved
             THEN [add |-> roles \union latest,
                   warn |-> missing \union absent \union {<<"unsolved", because>>}]
             ELSE [add |-> roles \union Plain(solved), warn |-> missing]
  BY Zenon DEF RunList
<1>2. /\ r.add = roles \union (IF solved = Unsolved THEN latest ELSE Plain(solved))
      /\ solved = Unsolved => <<"unsolved", because>> \in r.warn
  <2> HIDE DEF roles, latest, absent, missing, Plain
  <2> QED
    BY <1>1
<1>3. ex \in Expansion
  BY SourceIs, ExpansionIsClosed
<1>4. ex.recipes \in Seq(Names)
  BY <1>3 DEF Expansion
<1>5. \A n : Stock(Resolved("role", n, None)) /\ Resolved("role", n, None).kind = "role"
  BY ItemIs DEF Kinds
<1>6. ASSUME NEW n, NEW v \in Version
      PROVE  LET it == Resolved("cookbook", n, v)
             IN  Stock(it) /\ it.kind = "cookbook" /\ it.name = n /\ it.sub = v /\ Versioned(it) = it
  BY ItemIs, FieldsAre, KeyOfQueued DEF Kinds
<1>7. CASE solved = Unsolved
  <2>1. ASSUME NEW n, Latest(Versions(n)) # NoVersion
        PROVE  LET it == Resolved("cookbook", n, Latest(Versions(n)))
               IN  Stock(it) /\ it.kind = "cookbook" /\ Versioned(it) = it
    <3>1. Latest(Versions(n)) \in Version \union {NoVersion}
      BY SourceIs, LatestIs
    <3> QED
      BY <1>6, <2>1, <3>1
  <2>2. ASSUME NEW c \in named, Versions(c) # {}
        PROVE  \E v \in Versions(c) : Resolved("cookbook", c, v) \in r.add
    <3>1. Latest(Versions(c)) \in Versions(c) /\ Latest(Versions(c)) # NoVersion
      BY <2>2, SourceIs, LatestIs
    <3>2. Resolved("cookbook", c, Latest(Versions(c))) \in latest
      BY <3>1
    <3> QED
      BY <1>2, <1>7, <3>1, <3>2
  <2> QED
    BY <1>2, <1>5, <1>7, <2>1, <2>2
<1>8. CASE solved # Unsolved
  <2>1. solved \in SolveOn(src, env, Bare(ex.recipes))
    BY <1>8 DEF Solutions
  <2>2. /\ solved \subseteq Names \X Version
        /\ \A c \in named : \E p \in solved : p[1] = c
        /\ \A p \in solved : /\ p[2] \in Versions(p[1])
                             /\ \A d \in src.cookbooks[p[1]][p[2]] : \E q \in solved : q[1] = d[1]
    BY <1>4, <1>8, <2>1, SolvedIs
  <2>3. \A p \in solved : p[2] \in Version
    BY <2>2
  <2>4. r.add = roles \union Plain(solved)
    BY <1>2, <1>8
  <2>5. \A p \in solved : Resolved("cookbook", p[1], p[2]) \in r.add
    BY <2>4
  <2>6. ASSUME NEW c, \E p \in solved : p[1] = c
        PROVE  \E v \in Versions(c) : Resolved("cookbook", c, v) \in r.add
    BY <2>2, <2>5, <2>6
  <2>7. ASSUME NEW it \in r.add, it.kind = "cookbook"
        PROVE  \E p \in solved : it = Resolved("cookbook", p[1], p[2])
    BY <1>5, <2>4, <2>7
  <2>8. ASSUME NEW it \in r.add, it.kind = "cookbook",
               NEW d \in src.cookbooks[it.name][it.sub]
        PROVE  \E v \in Versions(d[1]) : Resolved("cookbook", d[1], v) \in r.add
    <3>1. PICK p \in solved : it = Resolved("cookbook", p[1], p[2])
      BY <2>7, <2>8
    <3>2. it.name = p[1] /\ it.sub = p[2]
      BY <1>6, <2>3, <3>1
    <3>3. \E q \in solved : q[1] = d[1]
      BY <2>2, <2>8, <3>2
    <3> QED
      BY <2>6, <3>3
  <2>9. \A it \in r.add : /\ Stock(it) /\ it.kind \in {"role", "cookbook"}
                          /\ it.kind = "cookbook" => Versioned(it) = it
    BY <1>5, <1>6, <2>3, <2>4
  <2>10. \A n \in ex.roles : Resolved("role", n, None) \in r.add
    BY <2>4
  <2>11. \A c \in named : \E v \in Versions(c) : Resolved("cookbook", c, v) \in r.add
    BY <2>2, <2>6
  <2>12. \E s \in SolveOn(src, env, Bare(ex.recipes)) : s # Unsolved /\
            \A p \in s : p[2] \in Version /\ Resolved("cookbook", p[1], p[2]) \in r.add
    BY <1>8, <2>1, <2>3, <2>5
  <2> QED
    BY <2>8, <2>9, <2>10, <2>11, <2>12
<1> QED
  BY <1>7, <1>8

\* The depsolver's answers for a node.
SolvedOf(it) ==
    LET n == src.nodes[it.name]
    IN  SolveOn(src, n.env, Bare(Expand(src.roles, n.list, n.env).recipes))

\* What is brought is well-formed, and has what the item needs and what every
\* item needs that brings nothing more; and for a node without policy all
\* versions of one answer of the depsolver, unless there is a warning.
Provides(it, b) ==
    /\ GoodQueue(b.next)
    /\ req.deps =>
          /\ ~Led(it) => \A any \in NeedsOf(it) : Met(any, b.next)
          /\ \A x : Queued(x, b.next) /\ Led(x) => Covered(Versioned(x), {}, b.next, b.warn)
    /\ req.deps /\ it.kind = "node" /\ src.nodes[it.name].policy = None =>
          \/ <<"unsolved", Key(it)>> \in b.warn
          \/ \E solved \in SolvedOf(it) : solved # Unsolved /\
                \A p \in solved : Met({<<"cookbook", p[1], p[2]>>}, b.next)

LEMMA MetIs ==
  ASSUME NEW q, NEW it, Queued(it, q), NEW any, Key(Versioned(it)) \in any
  PROVE  Met(any, q)
  BY DEF Met

\* All that a run list brings, in a queue.
LEMMA ListProvides ==
  ASSUME src \in Sources, NEW list \in Seq(Entry), NEW env, NEW because,
         NEW r \in RunList(list, env, because), NEW q, \A x \in r.add : Queued(x, q)
  PROVE  /\ \A any \in ListNeeds(list, env) : Met(any, q)
         /\ \A w : r.warn \subseteq w =>
               \A x \in r.add : Led(x) => Covered(Versioned(x), {}, q, w)
         /\ \/ <<"unsolved", because>> \in r.warn
            \/ \E solved \in SolveOn(src, env, Bare(Expand(src.roles, list, env).recipes)) :
                  solved # Unsolved /\ \A p \in solved : Met({<<"cookbook", p[1], p[2]>>}, q)
<1> DEFINE ex == Expand(src.roles, list, env)
<1>1. ListNeeds(list, env) =
         {{<<"role", n, None>>} : n \in ex.roles}
         \union {{<<"cookbook", c, v>> : v \in Versions(c)} :
                    c \in {d \in ToSet(ex.recipes) : Versions(d) # {}}}
  BY Zenon DEF ListNeeds
<1> HIDE DEF ex
<1>2. /\ \A it \in r.add : /\ Stock(it) /\ it.kind \in {"role", "cookbook"}
                           /\ it.kind = "cookbook" => Versioned(it) = it
      /\ \A n \in ex.roles : Resolved("role", n, None) \in r.add
      /\ \A c \in ToSet(ex.recipes) : Versions(c) # {} =>
            \E v \in Versions(c) : Resolved("cookbook", c, v) \in r.add
      /\ \/ <<"unsolved", because>> \in r.warn
         \/ /\ \E solved \in SolveOn(src, env, Bare(ex.recipes)) : solved # Unsolved /\
                  \A p \in solved : p[2] \in Version /\ Resolved("cookbook", p[1], p[2]) \in r.add
            /\ \A it \in r.add : it.kind = "cookbook" =>
                  \A d \in src.cookbooks[it.name][it.sub] :
                     \E v \in Versions(d[1]) : Resolved("cookbook", d[1], v) \in r.add
  BY RunListBrings DEF ex
<1>3. ASSUME NEW c, NEW v \in Version, Resolved("cookbook", c, v) \in r.add,
             NEW any, <<"cookbook", c, v>> \in any
      PROVE  Met(any, q)
  <2>1. Key(Versioned(Resolved("cookbook", c, v))) = <<"cookbook", c, v>>
    BY KeyOfQueued DEF Kinds
  <2>2. Queued(Resolved("cookbook", c, v), q)
    BY <1>3
  <2> QED
    BY <1>3, <2>1, <2>2, MetIs
<1>4. \A c : Versions(c) \subseteq Version
  BY SourceIs
<1>5. ASSUME NEW any \in ListNeeds(list, env)
      PROVE  Met(any, q)
  <2>1. CASE \E n \in ex.roles : any = {<<"role", n, None>>}
    <3>1. PICK n \in ex.roles : any = {<<"role", n, None>>}
      BY <2>1
    <3>2. Key(Versioned(Resolved("role", n, None))) = <<"role", n, None>>
      BY KeyOfQueued DEF Kinds
    <3>3. Queued(Resolved("role", n, None), q)
      BY <1>2, <3>1
    <3> QED
      BY <3>1, <3>2, <3>3, MetIs
  <2>2. CASE \E c \in ToSet(ex.recipes) : Versions(c) # {}
                /\ any = {<<"cookbook", c, v>> : v \in Versions(c)}
    <3>1. PICK c \in ToSet(ex.recipes) : Versions(c) # {}
                /\ any = {<<"cookbook", c, v>> : v \in Versions(c)}
      BY <2>2
    <3>2. PICK v \in Versions(c) : Resolved("cookbook", c, v) \in r.add
      BY <1>2, <3>1
    <3> QED
      BY <1>3, <1>4, <3>1, <3>2
  <2> QED
    BY <1>1, <2>1, <2>2
<1>6. ASSUME NEW w, r.warn \subseteq w, NEW x \in r.add, Led(x)
      PROVE  Covered(Versioned(x), {}, q, w)
  <2>1. x.kind = "cookbook" /\ x.resolved /\ Versioned(x) = x
    BY <1>2, <1>6 DEF Led
  <2>2. CASE <<"unsolved", because>> \in r.warn
    <3>1. <<"unsolved", because>>[1] = "unsolved"
      OBVIOUS
    <3>2. Warned(w)
      BY <1>6, <2>2, <3>1 DEF Warned
    <3> QED
      BY <2>1, <3>2 DEF Covered
  <2>3. CASE <<"unsolved", because>> \notin r.warn
    <3>1. NeedsOf(x) = {{<<"cookbook", d[1], v>> : v \in Versions(d[1])} :
                           d \in src.cookbooks[x.name][x.sub]}
      BY <2>1 DEF NeedsOf
    <3>2. ASSUME NEW any \in NeedsOf(x)
          PROVE  Met(any, q)
      <4>1. PICK d \in src.cookbooks[x.name][x.sub] :
               any = {<<"cookbook", d[1], v>> : v \in Versions(d[1])}
        BY <3>1
      <4>2. PICK v \in Versions(d[1]) : Resolved("cookbook", d[1], v) \in r.add
        BY <1>2, <2>1, <2>3, <4>1
      <4> QED
        BY <1>3, <1>4, <4>1, <4>2
    <3> QED
      BY <2>1, <3>2 DEF Covered, Due
  <2> QED
    BY <2>2, <2>3
<1>7. ASSUME <<"unsolved", because>> \notin r.warn
      PROVE  \E solved \in SolveOn(src, env, Bare(ex.recipes)) :
                solved # Unsolved /\ \A p \in solved : Met({<<"cookbook", p[1], p[2]>>}, q)
  <2>1. PICK solved \in SolveOn(src, env, Bare(ex.recipes)) : solved # Unsolved /\
           \A p \in solved : p[2] \in Version /\ Resolved("cookbook", p[1], p[2]) \in r.add
    BY <1>2, <1>7
  <2>2. \A p \in solved : Met({<<"cookbook", p[1], p[2]>>}, q)
    BY <1>3, <2>1
  <2> QED
    BY <2>1, <2>2
<1> QED
  BY <1>5, <1>6, <1>7 DEF ex

LEMMA BringsIs ==
  ASSUME NEW S, NEW warn, \A it \in S : Stock(it)
  PROVE  /\ GoodQueue(Brings(S, warn).next)
         /\ \A it : Queued(it, Brings(S, warn).next) <=> it \in S
<1>1. Brings(S, warn).next = Stage(S)
  BY DEF Brings
<1> QED
  BY <1>1, StageIs

\* One stage of items with given keys meets the needs of exactly these.
LEMMA NewestProvides ==
  ASSUME src \in Sources, NEW constraints, NEW b, b = Newest(constraints)
  PROVE  /\ GoodQueue(b.next) /\ \A x : Queued(x, b.next) => ~x.resolved
         /\ \A c \in constraints : Best(Versions(c[1]), c[2]) # NoVersion =>
               Met({<<"cookbook", c[1], Best(Versions(c[1]), c[2])>>}, b.next)
         /\ \A c \in constraints : Best(Versions(c[1]), c[2]) # NoVersion =>
               Met({<<"cookbook", c[1], v>> : v \in {w \in Versions(c[1]) : Match(c[2], w)}}, b.next)
<1> DEFINE Found == {c \in constraints : Best(Versions(c[1]), c[2]) # NoVersion}
           S == {Item("cookbook", c[1], Best(Versions(c[1]), c[2])) : c \in Found}
           warn == {<<"no version", c[1]>> :
                       c \in {d \in constraints : Best(Versions(d[1]), d[2]) = NoVersion}}
<1>1. b = Brings(S, warn)
  BY Zenon DEF Newest
<1>2. ASSUME NEW c \in Found
      PROVE  LET best == Best(Versions(c[1]), c[2])
             IN  /\ best \in Versions(c[1]) /\ Match(c[2], best)
                 /\ Stock(Item("cookbook", c[1], best)) /\ ~Item("cookbook", c[1], best).resolved
                 /\ Key(Versioned(Item("cookbook", c[1], best))) = <<"cookbook", c[1], best>>
  <2> DEFINE best == Best(Versions(c[1]), c[2])
  <2>1. best \in Versions(c[1]) /\ Match(c[2], best) /\ best \in Version
    BY SourceIs, BestIs
  <2> HIDE DEF best
  <2>2. /\ Stock(Item("cookbook", c[1], best)) /\ ~Item("cookbook", c[1], best).resolved
        /\ Key(Versioned(Item("cookbook", c[1], best))) = <<"cookbook", c[1], best>>
    BY <2>1, KeyOfQueued, FieldsAre DEF Kinds
  <2> QED
    BY <2>1, <2>2 DEF best
<1>3. \A it \in S : Stock(it) /\ ~it.resolved
  BY <1>2
<1>4. GoodQueue(b.next) /\ \A it : Queued(it, b.next) <=> it \in S
  <2> HIDE DEF S, warn
  <2> QED
    BY <1>1, <1>3, BringsIs
<1>5. ASSUME NEW c \in Found
      PROVE  /\ Met({<<"cookbook", c[1], Best(Versions(c[1]), c[2])>>}, b.next)
             /\ Met({<<"cookbook", c[1], v>> : v \in {w \in Versions(c[1]) : Match(c[2], w)}}, b.next)
  <2> DEFINE best == Best(Versions(c[1]), c[2])
             it == Item("cookbook", c[1], best)
             any == {<<"cookbook", c[1], v>> : v \in {w \in Versions(c[1]) : Match(c[2], w)}}
  <2>1. it \in S
    OBVIOUS
  <2>2. Key(Versioned(it)) \in any
    BY <1>2
  <2>3. Queued(it, b.next)
    BY <1>4, <2>1
  <2>4. Key(Versioned(it)) = <<"cookbook", c[1], best>>
    BY <1>2
  <2> HIDE DEF it, any, best
  <2>5. Met(any, b.next) /\ Met({<<"cookbook", c[1], best>>}, b.next)
    BY <2>2, <2>3, <2>4, MetIs
  <2> QED
    BY <2>5 DEF any, best
<1>6. \A x : Queued(x, b.next) => ~x.resolved
  <2> HIDE DEF S
  <2> QED
    BY <1>3, <1>4
<1>7. \A c \in constraints : Best(Versions(c[1]), c[2]) # NoVersion => c \in Found
  OBVIOUS
<1> HIDE DEF Found
<1> QED
  BY <1>4, <1>5, <1>6, <1>7

LEMMA EnvironmentIs ==
  ASSUME src \in Sources, NEW n
  PROVE  \A it \in Environment(n) : Stock(it) /\ ~it.resolved /\ Key(Versioned(it)) = Key(it)
<1>1. /\ Stock(Item("environment", n.env, None)) /\ ~Item("environment", n.env, None).resolved
      /\ Key(Versioned(Item("environment", n.env, None))) = <<"environment", n.env, None>>
      /\ Key(Item("environment", n.env, None)) = <<"environment", n.env, None>>
  BY KeyOfQueued, FieldsAre, ItemIs DEF Kinds
<1> QED
  BY <1>1 DEF Environment

LEMMA AssignmentProvides ==
  ASSUME src \in Sources, NEW n
  PROVE  /\ GoodQueue(PolicyAssignment(n).next)
         /\ \A x : Queued(x, PolicyAssignment(n).next) => ~x.resolved
<1> DEFINE assigned == src.policyGroups[n.policyGroup]
           i1 == Item("policy", n.policy, assigned[n.policy])
           i2 == [Item("policygroup", n.policyGroup, None) EXCEPT !.body = {<<n.policy, assigned[n.policy]>>}]
<1>1. Stock(i1) /\ ~i1.resolved
  BY ItemIs, FieldsAre DEF Kinds
<1>2. Stock(i2) /\ ~i2.resolved
  <2> DEFINE i == Item("policygroup", n.policyGroup, None)
             body == {<<n.policy, assigned[n.policy]>>}
  <2>1. i \in [kind : {"policygroup"}, name : {n.policyGroup}, sub : {None}, resolved : {FALSE}, body : {None}]
    BY DEF Item
  <2> HIDE DEF i, body
  <2>2. [i EXCEPT !.body = body] = [kind |-> i.kind, name |-> i.name, sub |-> i.sub,
                                    resolved |-> i.resolved, body |-> body]
    BY <2>1
  <2>3. i.kind = "policygroup" /\ i.resolved = FALSE
    BY <2>1
  <2>4. Stock([i EXCEPT !.body = body]) /\ ~[i EXCEPT !.body = body].resolved
    BY <2>2, <2>3 DEF Stock, Kinds
  <2> QED
    BY <2>4 DEF i, body
<1> HIDE DEF i1, i2
<1>3. /\ GoodQueue(Stage({i1}) \o Stage({i2}))
      /\ \A x : Queued(x, Stage({i1}) \o Stage({i2})) => x \in {i1, i2}
  BY <1>1, <1>2, StageIs, JoinedIs
<1>5. /\ GoodQueue(Brings({}, {<<"not assigned", n.policy>>}).next)
      /\ \A x : ~Queued(x, Brings({}, {<<"not assigned", n.policy>>}).next)
  <2> DEFINE warn == {<<"not assigned", n.policy>>}
  <2> HIDE DEF warn
  <2>1. GoodQueue(Brings({}, warn).next) /\ \A x : ~Queued(x, Brings({}, warn).next)
    BY BringsIs
  <2> QED
    BY <2>1 DEF warn
<1>6. PolicyAssignment(n) = Brings({}, {<<"not assigned", n.policy>>})
      \/ PolicyAssignment(n) = [next |-> Stage({i1}) \o Stage({i2}), warn |-> {}]
  BY DEF PolicyAssignment, i1, i2
<1>7. CASE PolicyAssignment(n) = Brings({}, {<<"not assigned", n.policy>>})
  BY <1>5, <1>7
<1>8. CASE PolicyAssignment(n) = [next |-> Stage({i1}) \o Stage({i2}), warn |-> {}]
  <2>1. PolicyAssignment(n).next = Stage({i1}) \o Stage({i2})
    BY <1>8
  <2> QED
    BY <1>1, <1>2, <1>3, <2>1
<1> QED
  BY <1>6, <1>7, <1>8

LEMMA NodeProvides ==
  ASSUME src \in Sources, req.deps, NEW it, it.kind = "node", it.name \in DOMAIN src.nodes,
         NEW b \in NodeBrings(src.nodes[it.name], Key(it))
  PROVE  Provides(it, b)
<1> DEFINE n == src.nodes[it.name]
           E == Stage(Environment(n))
<1>1. n.list \in Seq(Entry)
  BY PlannerAssumption
<1>2. NeedsOf(it) = {{Key(e)} : e \in Environment(n)}
                       \union (IF n.policy # None THEN {} ELSE ListNeeds(n.list, n.env))
  BY Zenon DEF NeedsOf
<1>3. /\ GoodQueue(E) /\ \A e \in Environment(n) : Queued(e, E) /\ Key(Versioned(e)) = Key(e)
      /\ \A x : Queued(x, E) => ~x.resolved
  <2> HIDE DEF n
  <2> QED
    BY EnvironmentIs, StageIs
<1>4. PICK c \in IF n.policy # None THEN {PolicyAssignment(n)}
                 ELSE {Brings(r.add, r.warn) : r \in RunList(n.list, n.env, Key(it))} :
         b = [next |-> E \o c.next, warn |-> c.warn]
  BY DEF NodeBrings
<1>5. b.next = E \o c.next /\ b.warn = c.warn
  BY <1>4
<1>6. CASE n.policy # None
  <2>1. GoodQueue(c.next) /\ \A x : Queued(x, c.next) => ~x.resolved
    BY <1>4, <1>6, AssignmentProvides
  <2>2. /\ GoodQueue(b.next)
        /\ \A x : Queued(x, b.next) <=> Queued(x, E) \/ Queued(x, c.next)
    BY <1>3, <1>5, <2>1, JoinedIs
  <2>3. ASSUME NEW any \in NeedsOf(it)
        PROVE  Met(any, b.next)
    <3>1. PICK e \in Environment(n) : any = {Key(e)}
      BY <1>2, <1>6
    <3> QED
      BY <1>3, <2>2, <3>1, MetIs
  <2>4. \A x : Queued(x, b.next) => ~Led(x)
    BY <1>3, <2>1, <2>2 DEF Led
  <2> QED
    BY <1>6, <2>2, <2>3, <2>4 DEF Provides
<1>7. CASE n.policy = None
  <2>1. PICK r \in RunList(n.list, n.env, Key(it)) : c = Brings(r.add, r.warn)
    BY <1>4, <1>7
  <2>2. \A x \in r.add : Stock(x)
    BY <1>1, RunListBrings
  <2>3. GoodQueue(c.next) /\ \A x : Queued(x, c.next) <=> x \in r.add
    BY <2>1, <2>2, BringsIs
  <2>4. /\ GoodQueue(b.next)
        /\ \A x : Queued(x, b.next) <=> Queued(x, E) \/ x \in r.add
    BY <1>3, <1>5, <2>3, JoinedIs
  <2>5. b.warn = r.warn
    BY <1>5, <2>1 DEF Brings
  <2>6. /\ \A any \in ListNeeds(n.list, n.env) : Met(any, b.next)
        /\ \A x \in r.add : Led(x) => Covered(Versioned(x), {}, b.next, b.warn)
        /\ \/ <<"unsolved", Key(it)>> \in b.warn
           \/ \E solved \in SolveOn(src, n.env, Bare(Expand(src.roles, n.list, n.env).recipes)) :
                 solved # Unsolved /\ \A p \in solved : Met({<<"cookbook", p[1], p[2]>>}, b.next)
    <3>1. PICK q : q = b.next
      OBVIOUS
    <3>2. PICK k : k = Key(it)
      OBVIOUS
    <3>3. r \in RunList(n.list, n.env, k) /\ \A x \in r.add : Queued(x, q)
      BY <2>1, <2>4, <3>1, <3>2
    <3> HIDE DEF n
    <3>4. /\ \A any \in ListNeeds(n.list, n.env) : Met(any, q)
          /\ \A w : r.warn \subseteq w =>
                \A x \in r.add : Led(x) => Covered(Versioned(x), {}, q, w)
          /\ \/ <<"unsolved", k>> \in r.warn
             \/ \E solved \in SolveOn(src, n.env, Bare(Expand(src.roles, n.list, n.env).recipes)) :
                   solved # Unsolved /\ \A p \in solved : Met({<<"cookbook", p[1], p[2]>>}, q)
      BY <1>1, <3>3, ListProvides
    <3> QED
      BY <2>5, <3>1, <3>2, <3>4
  <2>7. ASSUME NEW any \in NeedsOf(it)
        PROVE  Met(any, b.next)
    <3>1. CASE \E e \in Environment(n) : any = {Key(e)}
      BY <1>3, <2>4, <3>1, MetIs
    <3>2. CASE any \in ListNeeds(n.list, n.env)
      BY <2>6, <3>2
    <3> QED
      BY <1>2, <1>7, <3>1, <3>2
  <2>8. \A x : Queued(x, b.next) /\ Led(x) => Covered(Versioned(x), {}, b.next, b.warn)
    BY <1>3, <2>4, <2>6 DEF Led
  <2>9. \/ <<"unsolved", Key(it)>> \in b.warn
        \/ \E solved \in SolvedOf(it) :
              solved # Unsolved /\ \A p \in solved : Met({<<"cookbook", p[1], p[2]>>}, b.next)
    BY <2>6 DEF SolvedOf
  <2> QED
    BY <2>4, <2>7, <2>8, <2>9 DEF Provides
<1> QED
  BY <1>6, <1>7

\* A stage of items that are still to be followed provides what one of its
\* items meets.
LEMMA StageProvides ==
  ASSUME NEW it, it.kind # "node", NEW S, NEW warn, \A x \in S : Stock(x) /\ ~x.resolved,
         NEW needs, NeedsOf(it) = needs \/ Led(it),
         \A any \in needs : \E x \in S : Key(Versioned(x)) \in any
  PROVE  Provides(it, Brings(S, warn))
<1>1. GoodQueue(Brings(S, warn).next) /\ \A x : Queued(x, Brings(S, warn).next) <=> x \in S
  BY BringsIs
<1>2. ASSUME NEW any \in needs
      PROVE  Met(any, Brings(S, warn).next)
  BY <1>1, MetIs
<1>3. \A x : Queued(x, Brings(S, warn).next) => ~Led(x)
  BY <1>1 DEF Led
<1> QED
  BY <1>1, <1>2, <1>3 DEF Provides

\* An item that needs nothing, or whose needs what led to it has brought.
LEMMA NothingProvides ==
  ASSUME NEW it, (it.kind # "node" /\ (NeedsOf(it) = {} \/ Led(it))) \/ ~req.deps
  PROVE  Provides(it, Brings({}, {}))
<1>1. GoodQueue(Brings({}, {}).next) /\ \A x : ~Queued(x, Brings({}, {}).next)
  BY BringsIs
<1> QED
  BY <1>1 DEF Provides

LEMMA BagProvides ==
  ASSUME src \in Sources, NEW it, it.kind = "databag"
  PROVE  Provides(it, Brings({Item("item", it.name, i) : i \in src.bags[it.name]}, {}))
<1> DEFINE S == {Item("item", it.name, i) : i \in src.bags[it.name]}
           needs == {{<<"item", it.name, i>>} : i \in src.bags[it.name]}
<1>1. NeedsOf(it) = needs
  BY DEF NeedsOf
<1>2. \A i : /\ Stock(Item("item", it.name, i)) /\ ~Item("item", it.name, i).resolved
             /\ Key(Versioned(Item("item", it.name, i))) = <<"item", it.name, i>>
  BY KeyOfQueued, FieldsAre DEF Kinds
<1>3. \A x \in S : Stock(x) /\ ~x.resolved
  BY <1>2
<1>4. \A any \in needs : \E x \in S : Key(Versioned(x)) \in any
  BY <1>2
<1> HIDE DEF S, needs
<1>5. Provides(it, Brings(S, {}))
  BY <1>1, <1>3, <1>4, StageProvides
<1> QED
  BY <1>5 DEF S

LEMMA ItemOfBagProvides ==
  ASSUME src \in Sources, NEW it, it.kind = "item"
  PROVE  Provides(it, Brings({Item("databag", it.name, None)}, {}))
<1> DEFINE S == {Item("databag", it.name, None)}
           needs == {{<<"databag", it.name, None>>}}
<1>1. NeedsOf(it) = needs
  BY DEF NeedsOf
<1>2. /\ Stock(Item("databag", it.name, None)) /\ ~Item("databag", it.name, None).resolved
      /\ Key(Versioned(Item("databag", it.name, None))) = <<"databag", it.name, None>>
  BY KeyOfQueued, FieldsAre DEF Kinds
<1>3. \A x \in S : Stock(x) /\ ~x.resolved
  BY <1>2
<1>4. \A any \in needs : \E x \in S : Key(Versioned(x)) \in any
  BY <1>2
<1> HIDE DEF S, needs
<1>5. Provides(it, Brings(S, {}))
  BY <1>1, <1>3, <1>4, StageProvides
<1> QED
  BY <1>5 DEF S

LEMMA PolicyProvides ==
  ASSUME src \in Sources, NEW it, it.kind = "policy"
  PROVE  Provides(it, Brings({Item("artifact", a[1], a[2]) :
                                 a \in src.policies[<<it.name, it.sub>>]}, {}))
<1> DEFINE A == src.policies[<<it.name, it.sub>>]
           S == {Item("artifact", a[1], a[2]) : a \in A}
           needs == {{<<"artifact", a[1], a[2]>>} : a \in A}
<1>1. NeedsOf(it) = needs
  BY DEF NeedsOf
<1>2. \A n, i : /\ Stock(Item("artifact", n, i)) /\ ~Item("artifact", n, i).resolved
                /\ Key(Versioned(Item("artifact", n, i))) = <<"artifact", n, i>>
  BY KeyOfQueued, FieldsAre DEF Kinds
<1> HIDE DEF A
<1>3. \A x \in S : Stock(x) /\ ~x.resolved
  BY <1>2
<1>4. \A any \in needs : \E x \in S : Key(Versioned(x)) \in any
  BY <1>2
<1> HIDE DEF S, needs
<1>5. Provides(it, Brings(S, {}))
  BY <1>1, <1>3, <1>4, StageProvides
<1> QED
  BY <1>5 DEF S, A

LEMMA PolicyGroupProvides ==
  ASSUME src \in Sources, NEW it, it.kind = "policygroup"
  PROVE  Provides(it, Brings({Item("policy", a[1], a[2]) : a \in Assignments(it)}, {}))
<1> DEFINE S == {Item("policy", a[1], a[2]) : a \in Assignments(it)}
           needs == {{<<"policy", a[1], a[2]>>} : a \in Assignments(it)}
<1>1. NeedsOf(it) = needs
  BY DEF NeedsOf
<1>2. \A n, i : /\ Stock(Item("policy", n, i)) /\ ~Item("policy", n, i).resolved
                /\ Key(Versioned(Item("policy", n, i))) = <<"policy", n, i>>
  BY KeyOfQueued, FieldsAre DEF Kinds
<1>3. \A x \in S : Stock(x) /\ ~x.resolved
  BY <1>2
<1>4. \A any \in needs : \E x \in S : Key(Versioned(x)) \in any
  BY <1>2
<1> HIDE DEF S, needs
<1>5. Provides(it, Brings(S, {}))
  BY <1>1, <1>3, <1>4, StageProvides
<1> QED
  BY <1>5 DEF S

LEMMA GroupProvides ==
  ASSUME src \in Sources, NEW it, it.kind = "group", ~it.resolved
  PROVE  Provides(it, GroupBrings(src.groups[it.name]))
<1> DEFINE group == src.groups[it.name]
           G == {Item("group", g, None) : g \in group.groups}
           C == {Item("client", c, None) : c \in group.clients}
           b == GroupBrings(group)
<1>1. NeedsOf(it) = {{<<"group", g, None>>} : g \in group.groups}
                       \union {{<<"client", c, None>>} : c \in group.clients}
  BY DEF NeedsOf
<1>2. /\ \A n : /\ Stock(Item("group", n, None)) /\ ~Item("group", n, None).resolved
                /\ Key(Versioned(Item("group", n, None))) = <<"group", n, None>>
      /\ \A n : /\ Stock(Item("client", n, None)) /\ ~Item("client", n, None).resolved
                /\ Key(Versioned(Item("client", n, None))) = <<"client", n, None>>
  BY KeyOfQueued, FieldsAre DEF Kinds
<1>3. b.next = Stage(G) \o Stage(C)
  BY DEF GroupBrings
<1>4. /\ \A x \in G : Stock(x) /\ ~x.resolved
      /\ \A x \in C : Stock(x) /\ ~x.resolved
  BY <1>2
<1>5. /\ \A g \in group.groups : Item("group", g, None) \in G
      /\ \A c \in group.clients : Item("client", c, None) \in C
  OBVIOUS
<1> HIDE DEF group, G, C, b
<1>6. GoodQueue(b.next) /\ \A x : Queued(x, b.next) <=> x \in G \/ x \in C
  BY <1>3, <1>4, StageIs, JoinedIs
<1>7. ASSUME NEW any \in NeedsOf(it)
      PROVE  Met(any, b.next)
  <2>1. CASE \E g \in group.groups : any = {<<"group", g, None>>}
    BY <1>2, <1>5, <1>6, <2>1, MetIs
  <2>2. CASE \E c \in group.clients : any = {<<"client", c, None>>}
    BY <1>2, <1>5, <1>6, <2>2, MetIs
  <2> QED
    BY <1>1, <2>1, <2>2
<1>8. \A x : Queued(x, b.next) => ~Led(x)
  BY <1>4, <1>6 DEF Led
<1>9. Provides(it, b)
  BY <1>6, <1>7, <1>8 DEF Provides
<1> QED
  BY <1>9 DEF b, group

LEMMA EnvironmentProvides ==
  ASSUME src \in Sources, NEW it, it.kind = "environment"
  PROVE  Provides(it, Newest({<<n, src.envs[it.name][n]>> : n \in DOMAIN src.envs[it.name]}))
<1> DEFINE pins == src.envs[it.name]
           Pins == {<<n, pins[n]>> : n \in DOMAIN pins}
           b == Newest(Pins)
           best(n) == Best(Versions(n), pins[n])
<1>1. NeedsOf(it) = {{<<"cookbook", n, best(n)>>} : n \in {m \in DOMAIN pins : best(m) # NoVersion}}
  BY Zenon DEF NeedsOf
<1>2. /\ GoodQueue(b.next) /\ \A x : Queued(x, b.next) => ~x.resolved
      /\ \A c \in Pins : Best(Versions(c[1]), c[2]) # NoVersion =>
            Met({<<"cookbook", c[1], Best(Versions(c[1]), c[2])>>}, b.next)
  BY NewestProvides
<1>3. ASSUME NEW any \in NeedsOf(it)
      PROVE  Met(any, b.next)
  <2>1. PICK n \in DOMAIN pins : best(n) # NoVersion /\ any = {<<"cookbook", n, best(n)>>}
    BY <1>1
  <2>2. <<n, pins[n]>> \in Pins
    OBVIOUS
  <2> HIDE DEF b, Pins
  <2> QED
    BY <1>2, <2>1, <2>2
<1> HIDE DEF b
<1>4. \A x : Queued(x, b.next) => ~Led(x)
  BY <1>2 DEF Led
<1>5. Provides(it, b)
  BY <1>2, <1>3, <1>4 DEF Provides
<1> QED
  BY <1>5 DEF b

LEMMA CookbookProvides ==
  ASSUME src \in Sources, NEW it, it.kind = "cookbook", ~it.resolved
  PROVE  Provides(it, Newest(src.cookbooks[it.name][it.sub]))
<1> DEFINE D == src.cookbooks[it.name][it.sub]
           b == Newest(D)
           Reached(d) == {<<"cookbook", d[1], v>> : v \in {w \in Versions(d[1]) : Match(d[2], w)}}
<1>1. NeedsOf(it) = {{<<"cookbook", d[1], v>> : v \in {w \in Versions(d[1]) : Match(d[2], w)}} :
                        d \in {c \in D : Best(Versions(c[1]), c[2]) # NoVersion}}
  BY DEF NeedsOf
<1>2. /\ GoodQueue(b.next) /\ \A x : Queued(x, b.next) => ~x.resolved
      /\ \A c \in D : Best(Versions(c[1]), c[2]) # NoVersion => Met(Reached(c), b.next)
  BY NewestProvides
<1>3. \A any \in NeedsOf(it) :
         \E d \in D : Best(Versions(d[1]), d[2]) # NoVersion /\ any = Reached(d)
  BY <1>1
<1> HIDE DEF D, Reached, b
<1>4. \A x : Queued(x, b.next) => ~Led(x)
  BY <1>2 DEF Led
<1>5. Provides(it, b)
  BY <1>2, <1>3, <1>4 DEF Provides
<1> QED
  BY <1>5 DEF b, D

LEMMA RoleProvides ==
  ASSUME src \in Sources, NEW it, it.kind = "role", ~it.resolved, it.name \in DOMAIN src.roles,
         NEW because, NEW b \in RoleBrings(src.roles[it.name], because)
  PROVE  Provides(it, b)
<1> DEFINE role == src.roles[it.name]
           lists == {role.list} \union {role.envLists[e] : e \in DOMAIN role.envLists}
<1>1. NeedsOf(it) = UNION {ListNeeds(l, req.env) : l \in lists}
  BY Zenon DEF NeedsOf
<1>2. \A l \in lists : l \in Seq(Entry)
  BY PlannerAssumption
<1>3. PICK choice \in {f \in [lists -> UNION {RunList(l, req.env, because) : l \in lists}] :
                           \A l \in lists : f[l] \in RunList(l, req.env, because)} :
         b = Brings(UNION {choice[l].add : l \in lists}, UNION {choice[l].warn : l \in lists})
  BY DEF RoleBrings
<1>4. \A l \in lists : choice[l] \in RunList(l, req.env, because)
  OBVIOUS
<1> HIDE DEF lists
<1> DEFINE S == UNION {choice[l].add : l \in lists}
           warn == UNION {choice[l].warn : l \in lists}
<1>5. ASSUME NEW l \in lists, NEW x \in choice[l].add
      PROVE  Stock(x)
  <2>1. PICK r : r = choice[l]
    OBVIOUS
  <2>2. r \in RunList(l, req.env, because) /\ l \in Seq(Entry)
    BY <1>2, <1>4, <2>1
  <2>3. \A y \in r.add : Stock(y)
    BY <2>2, RunListBrings
  <2> QED
    BY <2>1, <2>3
<1>6. \A x \in S : Stock(x)
  BY <1>5
<1>7. b = Brings(S, warn)
  BY <1>3
<1>8. GoodQueue(b.next) /\ \A x : Queued(x, b.next) <=> x \in S
  <2> HIDE DEF S, warn
  <2> QED
    BY <1>6, <1>7, BringsIs
<1>9. b.warn = warn
  BY <1>7 DEF Brings
<1>10. PICK q : q = b.next
  OBVIOUS
<1>11. ASSUME NEW l \in lists
       PROVE  /\ \A any \in ListNeeds(l, req.env) : Met(any, q)
              /\ \A x \in choice[l].add : Led(x) => Covered(Versioned(x), {}, q, warn)
  <2>1. PICK r : r = choice[l]
    OBVIOUS
  <2>2. PICK env : env = req.env
    OBVIOUS
  <2>3. r \in RunList(l, env, because) /\ l \in Seq(Entry)
    BY <1>2, <1>4, <2>1, <2>2
  <2>4. \A x \in r.add : x \in S
    BY <2>1
  <2>5. r.warn \subseteq warn
    BY <2>1
  <2> HIDE DEF S, warn
  <2>6. \A x \in r.add : Queued(x, q)
    BY <1>8, <1>10, <2>4
  <2>7. /\ \A any \in ListNeeds(l, env) : Met(any, q)
        /\ \A w : r.warn \subseteq w =>
              \A x \in r.add : Led(x) => Covered(Versioned(x), {}, q, w)
    BY <2>3, <2>6, ListProvides
  <2> QED
    BY <2>1, <2>2, <2>5, <2>7
<1>12. \A any \in NeedsOf(it) : Met(any, q)
  BY <1>1, <1>11
<1>13. \A x \in S : \E l \in lists : x \in choice[l].add
  OBVIOUS
<1> HIDE DEF S, warn
<1>14. \A x : Queued(x, q) /\ Led(x) => Covered(Versioned(x), {}, q, warn)
  BY <1>8, <1>10, <1>11, <1>13
<1> QED
  BY <1>8, <1>9, <1>10, <1>12, <1>14 DEF Provides

\* Whatever the kind of an item, how it was resolved and which of the
\* depsolver's answers came: what it brings provides for it.
LEMMA ItemProvides ==
  ASSUME src \in Sources, req \in Requests, NEW it, Stock(it), ~Gone(it), NEW b \in ItemBrings(it)
  PROVE  Provides(it, b)
<1>1. it.resolved \in BOOLEAN /\ req.deps \in BOOLEAN
  BY PlannerAssumption DEF Stock
<1>2. CASE it.kind = "databag"
  <2>1. b = Brings({Item("item", it.name, i) : i \in src.bags[it.name]}, {})
    BY <1>2 DEF ItemBrings
  <2> QED
    BY <1>2, <2>1, BagProvides
<1>3. CASE it.kind = "item"
  <2>1. b = Brings({Item("databag", it.name, None)}, {})
    BY <1>3 DEF ItemBrings
  <2> QED
    BY <1>3, <2>1, ItemOfBagProvides
<1>4. CASE it.kind = "node" /\ req.deps
  <2>1. b \in NodeBrings(src.nodes[it.name], Key(it))
    BY <1>4 DEF ItemBrings
  <2>2. it.name \in DOMAIN src.nodes
    BY <1>4 DEF Gone
  <2> QED
    BY <1>4, <2>1, <2>2, NodeProvides
<1>5. CASE it.kind = "role" /\ req.deps /\ ~it.resolved
  <2>1. b \in RoleBrings(src.roles[it.name], Key(it))
    BY <1>5 DEF ItemBrings
  <2>2. it.name \in DOMAIN src.roles
    BY <1>5 DEF Gone
  <2> QED
    BY <1>5, <2>1, <2>2, RoleProvides
<1>6. CASE it.kind = "environment" /\ req.deps
  <2>1. b = Newest({<<n, src.envs[it.name][n]>> : n \in DOMAIN src.envs[it.name]})
    BY <1>6 DEF ItemBrings
  <2> QED
    BY <1>6, <2>1, EnvironmentProvides
<1>7. CASE it.kind = "cookbook" /\ req.deps /\ ~it.resolved
  <2>1. b = Newest(src.cookbooks[it.name][it.sub])
    BY <1>7 DEF ItemBrings
  <2> QED
    BY <1>7, <2>1, CookbookProvides
<1>8. CASE it.kind = "policy" /\ req.deps
  <2>1. b = Brings({Item("artifact", a[1], a[2]) : a \in src.policies[<<it.name, it.sub>>]}, {})
    BY <1>8 DEF ItemBrings
  <2> QED
    BY <1>8, <2>1, PolicyProvides
<1>9. CASE it.kind = "policygroup" /\ req.deps
  <2>1. b = Brings({Item("policy", a[1], a[2]) : a \in Assignments(it)}, {})
    BY <1>9 DEF ItemBrings
  <2> QED
    BY <1>9, <2>1, PolicyGroupProvides
<1>10. CASE it.kind = "group" /\ req.deps /\ ~it.resolved
  <2>1. b = GroupBrings(src.groups[it.name])
    BY <1>10 DEF ItemBrings
  <2> QED
    BY <1>10, <2>1, GroupProvides
<1>11. CASE /\ it.kind \notin {"databag", "item"}
            /\ \/ ~req.deps
               \/ it.kind \in {"container", "client", "artifact"}
               \/ it.kind \in {"role", "cookbook", "group"} /\ it.resolved
  <2>1. b = Brings({}, {})
    BY <1>11 DEF ItemBrings
  <2>2. (it.kind # "node" /\ (NeedsOf(it) = {} \/ Led(it))) \/ ~req.deps
    <3>1. CASE ~req.deps
      BY <3>1
    <3>2. CASE it.kind \in {"container", "client", "artifact"}
      BY <3>2 DEF NeedsOf
    <3>3. CASE it.kind = "role" /\ it.resolved
      BY <3>3 DEF NeedsOf
    <3>4. CASE it.kind \in {"cookbook", "group"} /\ it.resolved
      BY <3>4 DEF Led
    <3> QED
      BY <1>11, <3>1, <3>2, <3>3, <3>4
  <2> QED
    BY <2>1, <2>2, NothingProvides
<1>12. it.kind \in Kinds
  BY DEF Stock
<1> QED
  BY <1>1, <1>2, <1>3, <1>4, <1>5, <1>6, <1>7, <1>8, <1>9, <1>10, <1>11, <1>12 DEF Kinds

\* The planning starts with a queue of items.  Of a plan of what is in use it
\* has all groups and clients.
LEMMA RootsAreGood ==
  ASSUME NEW org \in Sources, NEW r \in Requests
  PROVE  /\ GoodQueue(Roots(org, r))
         /\ ~r.inUse => \A x : Queued(x, Roots(org, r)) =>
               x = Item(x.kind, x.name, x.sub) /\ x.kind \in Kinds
                  /\ (x.kind = "cookbook" => x.sub \in Version \union {None})
         /\ r.inUse => \A x : Queued(x, Roots(org, r)) =>
               \/ x = Item("node", x.name, None)
               \/ /\ x = Resolved(x.kind, x.name, None)
                  /\ x.kind \in {"container", "group", "client", "databag"}
         /\ r.inUse => /\ \A g \in DOMAIN org.groups :
                             Queued(Resolved("group", g, None), Roots(org, r))
                       /\ \A c \in org.clients :
                             Queued(Resolved("client", c, None), Roots(org, r))
<1>1. CASE r.inUse
  <2> DEFINE A == {Resolved("container", c, None) : c \in org.containers}
             B == {Resolved("group", g, None) : g \in DOMAIN org.groups}
             C == {Resolved("client", c, None) : c \in org.clients}
             D == {Resolved("databag", b, None) : b \in DOMAIN org.bags}
             E == {Item("node", n, None) : n \in DOMAIN org.nodes}
             Plain(x) == \/ x = Item("node", x.name, None)
                         \/ /\ x = Resolved(x.kind, x.name, None)
                            /\ x.kind \in {"container", "group", "client", "databag"}
  <2>1. \A n : /\ Stock(Resolved("container", n, None)) /\ Stock(Resolved("group", n, None))
               /\ Stock(Resolved("client", n, None)) /\ Stock(Resolved("databag", n, None))
               /\ Stock(Item("node", n, None))
    BY ItemIs DEF Kinds
  <2>13. ASSUME NEW kind \in {"container", "group", "client", "databag"}, NEW n
         PROVE  Plain(Resolved(kind, n, None))
    <3>1. PICK x : x = Resolved(kind, n, None)
      OBVIOUS
    <3>2. x.kind = kind /\ x.name = n
      BY <3>1, ResolvedItem
    <3> QED
      BY <3>1, <3>2
  <2>14. ASSUME NEW n
         PROVE  Plain(Item("node", n, None))
    <3>1. PICK x : x = Item("node", n, None)
      OBVIOUS
    <3>2. x.name = n
      BY <3>1, PlainItem
    <3> QED
      BY <3>1, <3>2
  <2> HIDE DEF Plain
  <2>2. /\ \A it \in A : Stock(it) /\ Plain(it)
        /\ \A it \in B : Stock(it) /\ Plain(it)
        /\ \A it \in C : Stock(it) /\ Plain(it)
        /\ \A it \in D : Stock(it) /\ Plain(it)
        /\ \A it \in E : Stock(it) /\ Plain(it)
    BY <2>1, <2>13, <2>14
  <2>3. Roots(org, r) = Stage(A) \o Stage(B) \o Stage(C) \o Stage(D) \o Stage(E)
    BY <1>1 DEF Roots, InUseRoots
  <2>4. /\ \A g \in DOMAIN org.groups : Resolved("group", g, None) \in B
        /\ \A c \in org.clients : Resolved("client", c, None) \in C
    OBVIOUS
  <2> HIDE DEF A, B, C, D, E
  <2> DEFINE q2 == Stage(A) \o Stage(B)
             q3 == q2 \o Stage(C)
             q4 == q3 \o Stage(D)
             q5 == q4 \o Stage(E)
  <2>5. /\ GoodQueue(Stage(A)) /\ \A x : Queued(x, Stage(A)) <=> x \in A
        /\ GoodQueue(Stage(B)) /\ \A x : Queued(x, Stage(B)) <=> x \in B
        /\ GoodQueue(Stage(C)) /\ \A x : Queued(x, Stage(C)) <=> x \in C
        /\ GoodQueue(Stage(D)) /\ \A x : Queued(x, Stage(D)) <=> x \in D
        /\ GoodQueue(Stage(E)) /\ \A x : Queued(x, Stage(E)) <=> x \in E
    BY <2>2, StageIs
  <2>6. GoodQueue(q2) /\ \A x : Queued(x, q2) <=> x \in A \/ x \in B
    BY <2>5, JoinedIs
  <2> HIDE DEF q2
  <2>7. GoodQueue(q3) /\ \A x : Queued(x, q3) <=> x \in A \/ x \in B \/ x \in C
    BY <2>5, <2>6, JoinedIs
  <2> HIDE DEF q3
  <2>8. GoodQueue(q4) /\ \A x : Queued(x, q4) <=> x \in A \/ x \in B \/ x \in C \/ x \in D
    BY <2>5, <2>7, JoinedIs
  <2> HIDE DEF q4
  <2>9. GoodQueue(q5) /\ \A x : Queued(x, q5) <=> x \in A \/ x \in B \/ x \in C \/ x \in D \/ x \in E
    BY <2>5, <2>8, JoinedIs
  <2>10. q5 = Roots(org, r)
    BY <2>3 DEF q2, q3, q4
  <2> HIDE DEF q5
  <2>11. \A x : Queued(x, q5) => Plain(x)
    BY <2>2, <2>9
  <2>12. /\ \A g \in DOMAIN org.groups : Queued(Resolved("group", g, None), q5)
         /\ \A c \in org.clients : Queued(Resolved("client", c, None), q5)
    BY <2>4, <2>9
  <2> QED
    BY <1>1, <2>9, <2>10, <2>11, <2>12 DEF Plain
<1>2. CASE ~r.inUse
  <2>1. PICK q : q = Roots(org, r)
    OBVIOUS
  <2>2. q = [i \in DOMAIN r.items |-> {r.items[i]}]
    BY <1>2, <2>1 DEF Roots
  <2>3. /\ r.items \in Seq(ToSet(r.items))
        /\ \A it \in ToSet(r.items) :
              /\ it = Item(it.kind, it.name, it.sub) /\ it.kind \in Kinds
              /\ it.kind = "cookbook" => it.sub \in Version \union {None}
    BY PlannerAssumption
  <2>4. \A it \in ToSet(r.items) : Stock(it)
    BY <2>3, ItemIs
  <2>5. /\ q \in Seq(SUBSET ToSet(r.items)) /\ Len(q) = Len(r.items)
        /\ \A i \in 1..Len(q) : q[i] = {r.items[i]} /\ r.items[i] \in ToSet(r.items)
    BY <2>2, <2>3
  <2>6. q \in Seq(ToSet(q))
    BY <2>5, StagedSet
  <2>7. GoodQueue(q)
    BY <2>4, <2>5, <2>6 DEF GoodQueue
  <2>8. \A x : Queued(x, q) => x \in ToSet(r.items)
    BY <2>5 DEF Queued
  <2> QED
    BY <1>2, <2>1, <2>3, <2>7, <2>8
<1> QED
  BY <1>1, <1>2

IsRoot(x) == Queued(x, Roots(src, req))

\* A root is known by its key.
LEMMA RootsDiffer ==
  ASSUME src \in Sources, req \in Requests, NEW x, NEW y, IsRoot(x), IsRoot(y),
         Key(Versioned(x)) = Key(Versioned(y))
  PROVE  Versioned(x) = Versioned(y)
<1> DEFINE u == Versioned(x)
           v == Versioned(y)
<1>1. GoodQueue(Roots(src, req))
  BY RootsAreGood
<1>2. Stock(x) /\ Stock(y)
  BY <1>1 DEF IsRoot, Queued, GoodQueue
<1>3. /\ Stock(u) /\ u.kind = x.kind /\ u.resolved = x.resolved /\ u.body = x.body
      /\ Stock(v) /\ v.kind = y.kind /\ v.resolved = y.resolved /\ v.body = y.body
  BY <1>2, SourceIs
<1> HIDE DEF u, v
<1>4. u.kind = v.kind /\ u.name = v.name /\ u.sub = v.sub
  BY DEF Key, u, v
<1>5. req.inUse \in BOOLEAN
  BY PlannerAssumption
<1>6. x.body = None /\ y.body = None /\ x.resolved = y.resolved
  <2>1. CASE ~req.inUse
    <3>1. x = Item(x.kind, x.name, x.sub) /\ y = Item(y.kind, y.name, y.sub)
      BY <2>1, RootsAreGood DEF IsRoot
    <3>2. \A z : z = Item(z.kind, z.name, z.sub) => z.body = None /\ ~z.resolved
      BY PlainItem
    <3> QED
      BY <1>2, <3>1, <3>2 DEF Stock
  <2>2. CASE req.inUse
    <3> DEFINE InUseRoot(z) == \/ z = Item("node", z.name, None)
                               \/ /\ z = Resolved(z.kind, z.name, None)
                                  /\ z.kind \in {"container", "group", "client", "databag"}
    <3>1. InUseRoot(x) /\ InUseRoot(y)
      BY <2>2, RootsAreGood DEF IsRoot
    <3>2. \A z : z = Item("node", z.name, None) => z.body = None /\ ~z.resolved /\ z.kind = "node"
      BY PlainItem
    <3>3. \A z : z = Resolved(z.kind, z.name, None) => z.body = None /\ z.resolved
      BY ResolvedItem
    <3>4. \A z : InUseRoot(z) => z.body = None /\ (z.resolved <=> z.kind # "node")
      BY <3>2, <3>3
    <3> HIDE DEF InUseRoot
    <3>5. x.body = None /\ y.body = None /\ (x.resolved <=> y.resolved)
      BY <1>3, <1>4, <3>1, <3>4
    <3> QED
      BY <1>2, <3>5 DEF Stock
  <2> QED
    BY <1>5, <2>1, <2>2
<1>7. u = v
  BY <1>3, <1>4, <1>6 DEF Stock
<1> QED
  BY <1>7 DEF u, v

-----------------------------------------------------------------------------
(* The invariant.                                                          *)

\* All that an item of the plan needs.
Owed(its, q, w) == \A it \in its : Covered(it, its, q, w)

\* And what an item of the queue needs that will bring nothing.
Promised(its, q, w) == \A x : Queued(x, q) /\ Led(x) => Covered(Versioned(x), its, q, w)

\* Of a node without policy: every version of one of the depsolver's answers.
Answered(it, its, q, w) ==
    \/ <<"unsolved", Key(it)>> \in w
    \/ \E solved \in SolvedOf(it) :
          solved # Unsolved /\ \A p \in solved : Due({<<"cookbook", p[1], p[2]>>}, its, q)
Settled(its, q, w) ==
    \A it \in its : it.kind = "node" /\ src.nodes[it.name].policy = None => Answered(it, its, q, w)

\* What was asked for comes first: the queue begins with it, and nothing else
\* is planned as long as some of it is left.
Ahead(its, q, m) ==
    /\ \A x : IsRoot(x) => Versioned(x) \in its \/ Early(x, q, m)
    /\ \A x : Early(x, q, m) => IsRoot(x)
    /\ m # 0 => \A y \in its : \E x : IsRoot(x) /\ y = Versioned(x)
RootsFirst(its, q) == \E m \in 0..Len(q) : Ahead(its, q, m)

\* The part of the invariant that is about the items and the queue.
Whole(its, q, w) ==
    /\ GoodQueue(q)
    /\ \A it \in its : Stock(it) /\ (it.kind = "cookbook" => it.sub \in Version)
    /\ \A a, b \in its : Key(a) = Key(b) => a = b
    /\ RootsFirst(its, q)
    /\ req.deps => \A it \in its : it.kind = "node" => it.name \in DOMAIN src.nodes
    /\ req.deps => Owed(its, q, w) /\ Promised(its, q, w) /\ Settled(its, q, w)

PInv ==
    /\ src \in Sources /\ req \in Requests
    /\ pc \in {"planning", "done", "failed"}
    /\ pc = "done" => queue = <<>>
    /\ Whole(items, queue, warnings)

\* The groups of a plan of what is in use are not followed: their groups and
\* clients are asked for as well.
LEMMA RootsPromise ==
  ASSUME src \in Sources, req \in Requests, NEW w, NEW x, IsRoot(x), Led(x)
  PROVE  Covered(Versioned(x), {}, Roots(src, req), w)
<1> DEFINE q == Roots(src, req)
<1>1. req.inUse
  <2> SUFFICES ASSUME ~req.inUse PROVE FALSE
    BY PlannerAssumption
  <2>1. x = Item(x.kind, x.name, x.sub)
    BY RootsAreGood DEF IsRoot
  <2>2. \A kind, name, sub : Item(kind, name, sub).resolved = FALSE
    BY DEF Item
  <2> QED
    BY <2>1, <2>2 DEF Led
<1>2. x.kind = "group" /\ x.resolved
  <2>1. \/ x = Item("node", x.name, None)
        \/ /\ x = Resolved(x.kind, x.name, None)
           /\ x.kind \in {"container", "group", "client", "databag"}
    BY <1>1, RootsAreGood DEF IsRoot
  <2>2. Item("node", x.name, None).resolved = FALSE
    BY DEF Item
  <2> QED
    BY <2>1, <2>2 DEF Led
<1>3. Versioned(x) = x
  BY <1>2 DEF Versioned
<1>4. /\ \A g \in DOMAIN src.groups : Queued(Resolved("group", g, None), q)
      /\ \A c \in src.clients : Queued(Resolved("client", c, None), q)
  BY <1>1, RootsAreGood
<1>5. /\ \A g : Key(Versioned(Resolved("group", g, None))) = <<"group", g, None>>
      /\ \A c : Key(Versioned(Resolved("client", c, None))) = <<"client", c, None>>
  BY KeyOfQueued DEF Kinds
<1>6. NeedsOf(x) =
         {{<<"group", g, None>>} : g \in src.groups[x.name].groups \intersect DOMAIN src.groups}
         \union {{<<"client", c, None>>} : c \in src.groups[x.name].clients \intersect src.clients}
  BY <1>2 DEF NeedsOf
<1> HIDE DEF q
<1>7. ASSUME NEW any \in NeedsOf(x)
      PROVE  Met(any, q)
  <2>1. CASE \E g \in DOMAIN src.groups : any = {<<"group", g, None>>}
    BY <1>4, <1>5, <2>1, MetIs
  <2>2. CASE \E c \in src.clients : any = {<<"client", c, None>>}
    BY <1>4, <1>5, <2>2, MetIs
  <2> QED
    BY <1>6, <2>1, <2>2
<1> QED
  BY <1>3, <1>7 DEF Covered, Due, q

\* The source and the request do not change, and so neither does what an item
\* needs.
LEMMA SourceStays ==
  ASSUME src' = src, req' = req
  PROVE  /\ \A it : NeedsOf(it)' = NeedsOf(it)
         /\ \A it : SolvedOf(it)' = SolvedOf(it)
         /\ \A it : Versioned(it)' = Versioned(it)
         /\ \A it : IsRoot(it)' = IsRoot(it)
<1>1. ASSUME NEW it PROVE NeedsOf(it)' = NeedsOf(it)
  BY DEF NeedsOf, ListNeeds, Assignments, Versions, Environment
<1>2. ASSUME NEW it PROVE SolvedOf(it)' = SolvedOf(it)
  BY DEF SolvedOf, SolveOn
<1>3. ASSUME NEW it PROVE Versioned(it)' = Versioned(it)
  BY DEF Versioned, Versions
<1>4. ASSUME NEW it PROVE IsRoot(it)' = IsRoot(it)
  BY DEF IsRoot, Queued, Roots, InUseRoots
<1> QED
  BY <1>1, <1>2, <1>3, <1>4

LEMMA WholeStays ==
  ASSUME src' = src, req' = req, NEW its, NEW q, NEW w, Whole(its, q, w),
         items' = its, queue' = q, warnings' = w
  PROVE  Whole(items, queue, warnings)'
<1>1. ASSUME NEW any, Due(any, its, q)
      PROVE  Due(any, items, queue)'
  <2>1. CASE any \intersect KeysOf(its) # {}
    BY <2>1 DEF Due, KeysOf, Key
  <2>2. CASE Met(any, q)
    <3>1. Met(any, queue)'
      BY <2>2, SourceStays DEF Met, Queued, Key
    <3> QED
      BY <3>1 DEF Due
  <2> QED
    BY <1>1, <2>1, <2>2 DEF Due
<1>2. ASSUME NEW it, Covered(it, its, q, w)
      PROVE  Covered(it, items, queue, warnings)'
  BY <1>1, <1>2, SourceStays DEF Covered, Warned
<1>3. Owed(its, q, w) => Owed(items, queue, warnings)'
  BY <1>2 DEF Owed
<1>4. Promised(its, q, w) => Promised(items, queue, warnings)'
  <2> SUFFICES ASSUME Promised(its, q, w), NEW x, Queued(x, q), Led(x)
               PROVE  Covered(Versioned(x), items, queue, warnings)'
    BY DEF Promised, Queued, Led
  <2>1. PICK y : y = Versioned(x)
    OBVIOUS
  <2>2. Covered(y, its, q, w)
    BY <2>1 DEF Promised
  <2>3. Covered(y, items, queue, warnings)'
    BY <1>2, <2>2
  <2>4. Versioned(x)' = y
    BY <2>1, SourceStays
  <2> QED
    BY <2>3, <2>4 DEF Covered
<1>5. Settled(its, q, w) => Settled(items, queue, warnings)'
  <2> SUFFICES ASSUME Settled(its, q, w), NEW it \in its,
                      it.kind = "node", src.nodes[it.name].policy = None
               PROVE  Answered(it, items, queue, warnings)'
    BY DEF Settled
  <2>1. CASE <<"unsolved", Key(it)>> \in w
    BY <2>1 DEF Answered, Key
  <2>2. CASE <<"unsolved", Key(it)>> \notin w
    <3>1. PICK solved \in SolvedOf(it) : solved # Unsolved
             /\ \A p \in solved : Due({<<"cookbook", p[1], p[2]>>}, its, q)
      BY <2>2 DEF Settled, Answered
    <3> QED
      BY <1>1, <3>1, SourceStays DEF Answered
  <2> QED
    BY <2>1, <2>2
<1>6. RootsFirst(items, queue)'
  <2>1. PICK m \in 0..Len(q) : Ahead(its, q, m)
    BY DEF Whole, RootsFirst
  <2>2. Ahead(items, queue, m)'
    BY <2>1, SourceStays DEF Ahead, Early
  <2> QED
    BY <2>2 DEF RootsFirst
<1> QED
  BY <1>3, <1>4, <1>5, <1>6 DEF Whole, GoodQueue, Stock, Key

\* What was due stays due: an item only leaves the queue for the plan, or
\* because the plan has its key.
LEMMA Carried ==
  ASSUME NEW its, NEW q, NEW w, items \subseteq its, warnings \subseteq w,
         \A x : Queued(x, queue) => Queued(x, q) \/ Key(Versioned(x)) \in KeysOf(its)
  PROVE  /\ \A it : Covered(it, items, queue, warnings) => Covered(it, its, q, w)
         /\ \A it : Answered(it, items, queue, warnings) => Answered(it, its, q, w)
<1>1. ASSUME NEW any, Due(any, items, queue)
      PROVE  Due(any, its, q)
  <2>1. CASE any \intersect KeysOf(items) # {}
    BY <2>1 DEF Due, KeysOf
  <2>2. CASE Met(any, queue)
    <3>1. PICK x : Queued(x, queue) /\ Key(Versioned(x)) \in any
      BY <2>2 DEF Met
    <3>2. CASE Queued(x, q)
      BY <3>1, <3>2, MetIs DEF Due
    <3>3. CASE Key(Versioned(x)) \in KeysOf(its)
      BY <3>1, <3>3 DEF Due
    <3> QED
      BY <3>1, <3>2, <3>3
  <2> QED
    BY <1>1, <2>1, <2>2 DEF Due
<1>2. Warned(warnings) => Warned(w)
  BY DEF Warned
<1> QED
  BY <1>1, <1>2 DEF Covered, Answered

\* What was asked for stays ahead, whether the plan has the item that is
\* taken or is given it.
LEMMA RootsStayFirst ==
  ASSUME src \in Sources, req \in Requests, GoodQueue(queue), queue # <<>>,
         RootsFirst(items, queue), NEW queued \in Head(queue),
         NEW it, it = Versioned(queued), NEW next, GoodQueue(next), NEW its,
         \/ Seen(it) /\ its = items
         \/ its = items \union {it}
  PROVE  RootsFirst(its, Dequeue(queued) \o next)
<1> DEFINE d == Dequeue(queued)
           q == d \o next
<1>1. PICK m \in 0..Len(queue) : Ahead(items, queue, m)
  BY DEF RootsFirst
<1>2. GoodQueue(d)
  BY DequeuedIs
<1>3. Len(queue) \in Nat /\ Len(d) \in Nat
  BY <1>2, LenProperties DEF GoodQueue
<1>4. Head(queue) = queue[1]
  BY LenProperties, EmptySeq DEF GoodQueue
<1>5. CASE m = 0
  <2>1. \A x : ~Early(x, q, 0)
    BY DEF Early
  <2>2. \A x : ~Early(x, queue, m)
    BY <1>5 DEF Early
  <2>3. items \subseteq its
    OBVIOUS
  <2>4. Ahead(its, q, 0)
    BY <1>1, <2>1, <2>2, <2>3 DEF Ahead
  <2>5. 0 \in 0..Len(q)
    BY <1>2, <1>3, JoinedEarly
  <2> QED
    BY <2>4, <2>5 DEF RootsFirst
<1>6. CASE m # 0
  <2>1. m \in 1..Len(queue)
    BY <1>3, <1>6
  <2>2. PICK k \in 0..Len(d) :
           \A x : /\ Early(x, queue, m) => x = queued \/ Early(x, d, k)
                  /\ Early(x, d, k) => Early(x, queue, m)
    BY <2>1, DequeuedEarly
  <2>3. k \in 0..Len(q) /\ \A x : Early(x, q, k) <=> Early(x, d, k)
    BY <1>2, JoinedEarly
  <2>4. 1 \in 1..m
    BY <2>1
  <2>5. Early(queued, queue, m)
    BY <1>4, <2>4 DEF Early
  <2>6. IsRoot(queued)
    BY <1>1, <2>5 DEF Ahead
  <2>7. \A y \in items : \E x : IsRoot(x) /\ y = Versioned(x)
    BY <1>1, <1>6 DEF Ahead
  <2>8. it \in its
    <3>1. CASE Seen(it) /\ its = items
      <4>1. PICK y \in items : Key(y) = Key(it)
        BY <3>1 DEF Seen
      <4>2. PICK x : IsRoot(x) /\ y = Versioned(x)
        BY <2>7, <4>1
      <4>3. Versioned(x) = Versioned(queued)
        BY <2>6, <4>1, <4>2, RootsDiffer
      <4> QED
        BY <3>1, <4>1, <4>2, <4>3
    <3> QED
      BY <3>1
  <2> HIDE DEF d, q
  <2>9. ASSUME NEW x, IsRoot(x)
        PROVE  Versioned(x) \in its \/ Early(x, q, k)
    BY <1>1, <2>2, <2>3, <2>8, <2>9 DEF Ahead
  <2>10. \A x : Early(x, q, k) => IsRoot(x)
    BY <1>1, <2>2, <2>3 DEF Ahead
  <2>11. \A y \in its : \E x : IsRoot(x) /\ y = Versioned(x)
    BY <2>6, <2>7
  <2>12. Ahead(its, q, k)
    BY <2>9, <2>10, <2>11 DEF Ahead
  <2> QED
    BY <2>3, <2>12 DEF RootsFirst, d, q
<1> QED
  BY <1>5, <1>6

\* The step that takes an item from the queue.
LEMMA AddKeeps ==
  ASSUME PInv, Add
  PROVE  PInv'
<1>1. PICK queued \in Head(queue) :
         LET it == Versioned(queued)
         IN  IF Seen(it)
             THEN queue' = Dequeue(queued) /\ UNCHANGED <<items, warnings, pc>>
             ELSE IF Gone(it)
             THEN pc' = "failed" /\ UNCHANGED <<queue, items, warnings>>
             ELSE /\ items' = items \union {it}
                  /\ \E b \in ItemBrings(it) : /\ queue' = Dequeue(queued) \o b.next
                                               /\ warnings' = warnings \union b.warn
                  /\ UNCHANGED pc
  BY DEF Add
<1>2. PICK it : it = Versioned(queued)
  OBVIOUS
<1>3. src' = src /\ req' = req /\ pc = "planning" /\ queue # <<>>
  BY DEF Add
<1>4. PICK d : d = Dequeue(queued)
  OBVIOUS
<1>5. Whole(items, queue, warnings) /\ src \in Sources /\ req \in Requests
  BY DEF PInv
<1>6. /\ GoodQueue(d)
      /\ \A x : Queued(x, queue) => x = queued \/ Queued(x, d)
      /\ \A x : Queued(x, d) => Queued(x, queue)
  BY <1>3, <1>4, <1>5, DequeuedIs DEF Whole
<1>7. Stock(queued) /\ Queued(queued, queue)
  <2>1. Head(queue) = queue[1] /\ 1 \in 1..Len(queue)
    BY <1>3, <1>5, LenProperties, EmptySeq DEF Whole, GoodQueue
  <2> QED
    BY <1>5, <2>1 DEF Whole, GoodQueue, Queued
<1>8. /\ Stock(it) /\ (it.kind = "cookbook" => it.sub \in Version \union {NoVersion})
      /\ Led(it) => Led(queued)
  BY <1>2, <1>5, <1>7, SourceIs, VersionedIs DEF CookbooksOK, Led
<1>9. CASE Seen(it)
  <2>1. queue' = d /\ items' = items /\ pc' = pc /\ warnings' = warnings
    BY <1>1, <1>2, <1>4, <1>9
  <2>2. Key(it) \in KeysOf(items)
    BY <1>9 DEF Seen, KeysOf
  <2>3. \A x : Queued(x, queue) => Queued(x, d) \/ Key(Versioned(x)) \in KeysOf(items)
    BY <1>2, <1>6, <2>2
  <2>4. /\ \A x : Covered(x, items, queue, warnings) => Covered(x, items, d, warnings)
        /\ \A x : Answered(x, items, queue, warnings) => Answered(x, items, d, warnings)
    BY <2>3, Carried
  <2>5. req.deps => Owed(items, d, warnings) /\ Settled(items, d, warnings)
    BY <1>5, <2>4 DEF Whole, Owed, Settled
  <2>6. req.deps => Promised(items, d, warnings)
    BY <1>5, <1>6, <2>4 DEF Whole, Promised
  <2>7. RootsFirst(items, d)
    <3>1. GoodQueue(Stage({})) /\ Stage({}) = <<>>
      BY StageIs DEF Stage
    <3>2. d \o <<>> = d
      BY <1>6, ConcatEmptySeq DEF GoodQueue
    <3>3. RootsFirst(items, d \o <<>>)
      BY <1>2, <1>3, <1>4, <1>5, <1>9, <3>1, RootsStayFirst DEF Whole
    <3> QED
      BY <3>2, <3>3
  <2>8. Whole(items, d, warnings)
    BY <1>5, <1>6, <2>5, <2>6, <2>7 DEF Whole
  <2> QED
    BY <1>3, <1>5, <2>1, <2>8, WholeStays DEF PInv
<1>10. CASE ~Seen(it) /\ Gone(it)
  <2>1. queue' = queue /\ items' = items /\ pc' = "failed" /\ warnings' = warnings
    BY <1>1, <1>2, <1>10
  <2> QED
    BY <1>3, <1>5, <2>1, WholeStays DEF PInv
<1>11. CASE ~Seen(it) /\ ~Gone(it)
  <2>1. items' = items \union {it} /\ pc' = pc
    BY <1>1, <1>2, <1>11
  <2>2. PICK b \in ItemBrings(it) : queue' = d \o b.next /\ warnings' = warnings \union b.warn
    BY <1>1, <1>2, <1>4, <1>11
  <2>3. Provides(it, b)
    BY <1>5, <1>8, <1>11, <2>2, ItemProvides
  <2>4. PICK q : q = d \o b.next
    OBVIOUS
  <2>5. /\ GoodQueue(q)
        /\ \A x : Queued(x, q) <=> Queued(x, d) \/ Queued(x, b.next)
    BY <1>6, <2>3, <2>4, JoinedIs DEF Provides
  <2>6. PICK its : its = items \union {it}
    OBVIOUS
  <2>7. PICK w : w = warnings \union b.warn
    OBVIOUS
  <2>8. Key(it) \in KeysOf(its) /\ items \subseteq its
    BY <2>6 DEF KeysOf
  <2>9. \A x : Queued(x, queue) => Queued(x, q) \/ Key(Versioned(x)) \in KeysOf(its)
    BY <1>2, <1>6, <2>5, <2>8
  <2>10. \A any : Met(any, b.next) => Due(any, its, q)
    BY <2>5 DEF Met, Due
  <2>11. /\ \A x : Covered(x, items, queue, warnings) => Covered(x, its, q, w)
         /\ \A x : Answered(x, items, queue, warnings) => Answered(x, its, q, w)
    BY <2>7, <2>8, <2>9, Carried
  <2>12. \A x : Covered(x, {}, b.next, b.warn) => Covered(x, its, q, w)
    <3>1. KeysOf({}) = {}
      BY DEF KeysOf
    <3>2. \A any : Due(any, {}, b.next) => Due(any, its, q)
      BY <2>10, <3>1 DEF Due
    <3>3. Warned(b.warn) => Warned(w)
      BY <2>7 DEF Warned
    <3> QED
      BY <3>2, <3>3 DEF Covered
  <2>13. req.deps => Covered(it, its, q, w)
    <3>1. CASE Led(it)
      BY <1>2, <1>5, <1>7, <1>8, <2>11, <3>1 DEF Whole, Promised
    <3>2. CASE ~Led(it)
      BY <2>3, <2>10, <3>2 DEF Provides, Covered
    <3> QED
      BY <3>1, <3>2
  <2>14. req.deps => Owed(its, q, w)
    BY <1>5, <2>6, <2>11, <2>13 DEF Whole, Owed
  <2>15. req.deps => Promised(its, q, w)
    <3> SUFFICES ASSUME req.deps, NEW x, Queued(x, q), Led(x)
                 PROVE  Covered(Versioned(x), its, q, w)
      BY DEF Promised
    <3>1. CASE Queued(x, d)
      BY <1>5, <1>6, <2>11, <3>1 DEF Whole, Promised
    <3>2. CASE Queued(x, b.next)
      BY <2>3, <2>12, <3>2 DEF Provides
    <3> QED
      BY <2>5, <3>1, <3>2
  <2>16. req.deps => Settled(its, q, w)
    <3>1. ASSUME req.deps, it.kind = "node", src.nodes[it.name].policy = None
          PROVE  Answered(it, its, q, w)
      BY <2>3, <2>7, <2>10, <3>1 DEF Provides, Answered
    <3> QED
      BY <1>5, <2>6, <2>11, <3>1 DEF Whole, Settled
  <2>17. it.kind = "cookbook" => it.sub \in Version
    BY <1>8, <1>11 DEF Gone
  <2>18. req.deps /\ it.kind = "node" => it.name \in DOMAIN src.nodes
    BY <1>11 DEF Gone
  <2>19. \A x \in items : Key(x) # Key(it)
    BY <1>11 DEF Seen
  <2>20. RootsFirst(its, q)
    <3>1. GoodQueue(b.next)
      BY <2>3 DEF Provides
    <3> QED
      BY <1>2, <1>3, <1>4, <1>5, <2>4, <2>6, <3>1, RootsStayFirst DEF Whole
  <2>21. Whole(its, q, w)
    BY <1>5, <1>8, <2>5, <2>6, <2>14, <2>15, <2>16, <2>17, <2>18, <2>19, <2>20 DEF Whole
  <2> QED
    BY <1>3, <1>5, <2>1, <2>2, <2>4, <2>6, <2>7, <2>21, WholeStays DEF PInv
<1> QED
  BY <1>9, <1>10, <1>11

LEMMA Invariance == Spec => []PInv
<1>1. ASSUME Init
      PROVE  PInv
  <2>1. src \in Sources /\ req \in Requests /\ items = {} /\ pc = "planning" /\ warnings = {}
        /\ queue = Roots(src, req) /\ GoodQueue(queue)
    BY <1>1, RootsAreGood DEF Init
  <2>2. Promised({}, queue, {})
    BY <2>1, RootsPromise DEF Promised, IsRoot
  <2>3. RootsFirst({}, queue)
    <3>1. Len(queue) \in Nat
      BY <2>1, LenProperties DEF GoodQueue
    <3>2. \A x : Early(x, queue, Len(queue)) <=> IsRoot(x)
      BY <2>1 DEF Early, IsRoot, Queued
    <3>3. Ahead({}, queue, Len(queue))
      BY <3>2 DEF Ahead
    <3>4. Len(queue) \in 0..Len(queue)
      BY <3>1
    <3> QED
      BY <3>3, <3>4 DEF RootsFirst
  <2> QED
    BY <2>1, <2>2, <2>3 DEF PInv, Whole, Owed, Settled
<1>2. ASSUME PInv, [Next]_vars
      PROVE  PInv'
  <2>1. CASE Add
    BY <1>2, <2>1, AddKeeps
  <2>2. CASE Finish
    BY <1>2, <2>2, WholeStays DEF Finish, PInv
  <2>3. CASE SourceFails
    BY <1>2, <2>3, WholeStays DEF SourceFails, PInv
  <2>4. CASE UNCHANGED vars
    BY <1>2, <2>4, WholeStays DEF vars, PInv
  <2> QED
    BY <1>2, <2>1, <2>2, <2>3, <2>4 DEF Next
<1> QED
  BY <1>1, <1>2, PTL DEF Spec

\* Every item of a plan is of the shape of its kind and no object is in the
\* plan twice, and the queue has no empty stage, in every state of every
\* planning (plan.go:76-118).
THEOREM TypeCorrect == Spec => []TypeOK
<1>1. ASSUME PInv
      PROVE  TypeOK
  <2>1. ASSUME NEW S \in ToSet(queue)
        PROVE  S # {} /\ \A it \in S : Stock(it)
    <3>1. PICK i \in 1..Len(queue) : queue[i] = S
      BY <1>1 DEF PInv, Whole, GoodQueue, ToSet
    <3> QED
      BY <1>1, <3>1 DEF PInv, Whole, GoodQueue
  <2>2. \A it \in items \union UNION ToSet(queue) : Stock(it)
    BY <1>1, <2>1 DEF PInv, Whole
  <2> QED
    BY <1>1, <2>1, <2>2 DEF PInv, Whole, TypeOK, Stock
<1> QED
  BY <1>1, Invariance, PTL

\* A finished plan has all that was asked for, to be followed as it was asked
\* for, and with dependencies it lacks nothing that an item in it needs and
\* the source has: what the run lists of its nodes lead to in the nodes'
\* environments and all run lists of the roles that are followed in the
\* request's, versions of their cookbooks and of the cookbooks these depend
\* on, the newest ones that its environments allow, policies, artifacts,
\* groups, clients and data bags with their items.  Only a cookbook that a
\* run list led to may lack its dependencies, and only if the plan warns
\* (plan.go:76-260, 319-364).
THEOREM PlansAreClosed == Spec => []Closed
<1>1. ASSUME PInv, pc = "done"
      PROVE  Closed
  <2>1. queue = <<>> /\ Whole(items, queue, warnings)
    BY <1>1 DEF PInv
  <2>2. \A any : ~Met(any, queue)
    BY <2>1 DEF Met, Queued
  <2>3. \A any : Due(any, items, queue) => any \intersect Keys # {}
    BY <2>2 DEF Due, KeysOf, Keys
  <2>4. Warned(warnings) => FellBack
    BY DEF Warned, FellBack
  <2>5. req.deps => \A it \in items : Covered(it, items, queue, warnings)
    BY <2>1 DEF Whole, Owed
  <2>6. req.deps => \A it \in items :
                       \/ it.kind = "cookbook" /\ it.resolved /\ FellBack
                       \/ \A any \in NeedsOf(it) : any \intersect Keys # {}
    BY <2>3, <2>4, <2>5 DEF Covered
  <2>7. \A it : IsRoot(it) => Versioned(it) \in items
    <3>1. PICK m \in 0..Len(queue) : Ahead(items, queue, m)
      BY <2>1 DEF Whole, RootsFirst
    <3>2. m = 0
      BY <2>1, <3>1
    <3>3. \A x : ~Early(x, queue, m)
      BY <3>2 DEF Early
    <3> QED
      BY <3>1, <3>3 DEF Ahead
  <2>8. \A i \in DOMAIN Roots(src, req) : \A it \in Roots(src, req)[i] : IsRoot(it)
    <3>1. GoodQueue(Roots(src, req))
      BY <1>1, RootsAreGood DEF PInv
    <3>2. DOMAIN Roots(src, req) = 1..Len(Roots(src, req))
      BY <3>1, LenProperties DEF GoodQueue
    <3> QED
      BY <3>2 DEF IsRoot, Queued
  <2> QED
    BY <2>6, <2>7, <2>8 DEF Closed
<1>2. PInv => Closed
  BY <1>1 DEF Closed
<1> QED
  BY <1>2, Invariance, PTL

-----------------------------------------------------------------------------
(* What is planned for a node is enough for it.                            *)

\* Some of the roles, as they are.
RolesKept(some, all) ==
    /\ DOMAIN some \subseteq DOMAIN all
    /\ \A r \in DOMAIN some : some[r] = all[r]

LEMMA TurnKept ==
  ASSUME NEW some, NEW all, NEW env, RolesKept(some, all), NEW w \in Expansion, w.todo # <<>>,
         LET it == Head(w.todo)
         IN  it.role /\ it.name \notin w.roles /\ it.name \in DOMAIN all => it.name \in DOMAIN some
  PROVE  Expanded(some, env, w) = Expanded(all, env, w)
<1> DEFINE it == Head(w.todo)
<1>1. PICK r : r = [w EXCEPT !.todo = Tail(@)]
  OBVIOUS
<1>2. PICK recipe : recipe = [r EXCEPT !.recipes = Append(@, it.name)]
  OBVIOUS
<1>3. PICK lost : lost = [r EXCEPT !.roles = @ \union {it.name}, !.missing = @ \union {it.name}]
  OBVIOUS
<1> DEFINE Follow(l) == [r EXCEPT !.roles = @ \union {it.name}, !.todo = l \o @]
           Result(roles) ==
             CASE ~it.role -> IF Contains(w.recipes, it.name) THEN r ELSE recipe
               [] it.role /\ it.name \in w.roles -> r
               [] OTHER -> IF it.name \notin DOMAIN roles THEN lost
                           ELSE Follow(ListOf(roles[it.name], env))
<1>5. Expanded(some, env, w) = Result(some) /\ Expanded(all, env, w) = Result(all)
  BY <1>1, <1>2, <1>3, Zenon DEF Expanded
<1>6. it.role \in BOOLEAN
  <2>1. w.todo \in Seq(Entry)
    BY DEF Expansion
  <2>2. it \in Entry
    BY <2>1, HeadTailProperties
  <2> QED
    BY <2>2 DEF Entry
<1>7. it.role /\ it.name \notin w.roles =>
         /\ it.name \in DOMAIN all <=> it.name \in DOMAIN some
         /\ it.name \in DOMAIN some => some[it.name] = all[it.name]
  BY DEF RolesKept
<1> HIDE DEF it, Follow
<1>8. Result(some) = Result(all)
  BY <1>6, <1>7
<1> QED
  BY <1>5, <1>8

\* A walk that finds no role outside some of them is the same with these only.
LEMMA WalkKept ==
  ASSUME NEW some, NEW all, NEW env, RolesKept(some, all),
         RolesOK(some, env), RolesOK(all, env)
  PROVE  \A w \in Expansion :
            (\A r \in Walk(all, env)[w].roles \ w.roles : r \in DOMAIN all => r \in DOMAIN some)
               => Walk(some, env)[w] = Walk(all, env)[w]
<1> DEFINE W == Walk(all, env)
           Inside(w) == \A r \in W[w].roles \ w.roles : r \in DOMAIN all => r \in DOMAIN some
           B == {w \in Expansion : Inside(w) /\ Walk(some, env)[w] # W[w]}
<1>1. ASSUME NEW w \in B
      PROVE  w.todo # <<>> /\ Expanded(all, env, w) \in B
  <2>1. w \in Expansion /\ Inside(w) /\ Walk(some, env)[w] # W[w]
    OBVIOUS
  <2>2. w.todo # <<>>
    BY <2>1, WalkIs
  <2> DEFINE it == Head(w.todo)
             x == Expanded(all, env, w)
  <2>3. x \in Expansion /\ W[w] = W[x]
    BY <2>1, <2>2, WalkIs, TurnStays
  <2>4. Turn(all, env, w, it, x) /\ it.role \in BOOLEAN
    BY <2>1, <2>2, Turns DEF Entry
  <2>5. x.roles \subseteq W[x].roles
    BY <2>3, WalkFinds DEF Finds
  <2>6. /\ w.roles \subseteq x.roles
        /\ it.role /\ it.name \notin w.roles => it.name \in x.roles
    <3> HIDE DEF it, x
    <3>1. \/ Passes(w, it, x)
          \/ AddsRecipe(w, it, x)
          \/ MissesRole(all, w, it, x)
          \/ FollowsRole(all, env, w, it, x)
      BY <2>4, TurnFields
    <3> QED
      BY <3>1 DEF Passes, AddsRecipe, MissesRole, FollowsRole
  <2>7. it.role /\ it.name \notin w.roles /\ it.name \in DOMAIN all => it.name \in DOMAIN some
    <3> HIDE DEF it, x
    <3> QED
      BY <2>1, <2>3, <2>5, <2>6
  <2>8. Expanded(some, env, w) = x
    BY <2>1, <2>2, <2>7, TurnKept
  <2>9. Walk(some, env)[w] = Walk(some, env)[x]
    BY <2>1, <2>2, <2>8, WalkIs
  <2>10. Inside(x)
    <3> HIDE DEF x
    <3> QED
      BY <2>1, <2>3, <2>6
  <2>11. Walk(some, env)[x] # W[x]
    BY <2>1, <2>3, <2>9
  <2> HIDE DEF x, W, Inside
  <2>12. x \in B
    BY <2>3, <2>10, <2>11
  <2> QED
    BY <2>2, <2>12 DEF x
<1>2. B = {}
  <2>1. B \in SUBSET Expansion
    OBVIOUS
  <2> HIDE DEF B
  <2> QED
    BY <1>1, <2>1, WalkInduction DEF WalksOn
<1> QED
  BY <1>2

\* A run list expands to the same with only those of the roles that it finds
\* with all of them (deps.go:70-115).
THEOREM ExpansionIsKept ==
  ASSUME NEW some, NEW all, NEW env, NEW list \in Seq(Entry), RolesKept(some, all),
         RolesOK(all, env),
         \A r \in Expand(all, list, env).roles : r \in DOMAIN all => r \in DOMAIN some
  PROVE  Expand(some, list, env) = Expand(all, list, env)
<1> DEFINE w == [todo |-> list, recipes |-> <<>>, roles |-> {}, missing |-> {}]
<1>1. w \in Expansion /\ w.roles = {}
  BY DEF Expansion
<1>2. RolesOK(some, env)
  BY FS_Subset DEF RolesOK, RolesKept
<1>3. Expand(some, list, env) = Walk(some, env)[w] /\ Expand(all, list, env) = Walk(all, env)[w]
  BY DEF Expand
<1> HIDE DEF w
<1> QED
  BY <1>1, <1>2, <1>3, WalkKept

\* The newest version that satisfies a constraint stays it with fewer others.
LEMMA BestKept ==
  ASSUME NEW S \in SUBSET Version, IsFiniteSet(S), NEW T \in SUBSET S, NEW c,
         Best(S, c) # NoVersion, Best(S, c) \in T
  PROVE  Best(T, c) = Best(S, c)
<1> DEFINE ok(U) == {v \in U : Match(c, v)}
           Newest1(U, v) == v \in ok(U) /\ \A w \in ok(U) : ~Less(v, w)
<1>1. ASSUME NEW U \in SUBSET S, ok(U) # {}
      PROVE  Newest1(U, Best(U, c))
  <2>1. ok(U) \in SUBSET Version /\ IsFiniteSet(ok(U))
    BY FS_Subset
  <2>2. \E v \in ok(U) : \A w \in ok(U) : ~Less(v, w)
    BY <1>1, <2>1, NewestExists
  <2>3. Best(U, c) = CHOOSE v \in ok(U) : \A w \in ok(U) : ~Less(v, w)
    BY <1>1 DEF Best
  <2> QED
    BY <2>2, <2>3
<1>2. PICK b : b = Best(S, c)
  OBVIOUS
<1>3. b \in T /\ Match(c, b)
  BY <1>2, BestIs
<1>4. Newest1(S, b)
  BY <1>1, <1>2, <1>3
<1>5. PICK d : d = Best(T, c)
  OBVIOUS
<1>6. Newest1(T, d)
  BY <1>1, <1>3, <1>5
<1>7. ~Less(b, d) /\ ~Less(d, b) /\ b \in Version /\ d \in Version
  BY <1>3, <1>4, <1>6
<1>8. /\ b[1] \in Nat /\ b[2] \in Nat /\ b[3] \in Nat
      /\ d[1] \in Nat /\ d[2] \in Nat /\ d[3] \in Nat
  BY <1>7 DEF Version
<1>9. b[1] = d[1] /\ b[2] = d[2] /\ b[3] = d[3]
  BY <1>7, <1>8, LessIs
<1> QED
  BY <1>2, <1>5, <1>7, <1>9 DEF Version

\* The depsolver always has an answer, be it that it refuses.
LEMMA SolveAlways ==
  ASSUME NEW cookbooks, NEW pins, CookbooksOK(cookbooks)
  PROVE  \A w \in Solution : Solve(cookbooks, pins)[w] # {}
<1> DEFINE S == Solve(cookbooks, pins)
           B == {w \in Solution : S[w] = {}}
<1>1. ASSUME NEW w \in B
      PROVE  w.todo # <<>> /\ \E x \in Solved(cookbooks, pins, w) : x \in B
  <2>1. w \in Solution /\ S[w] = {}
    OBVIOUS
  <2>2. S[w] = IF w.todo = <<>> THEN {w.chosen}
               ELSE IF Solved(cookbooks, pins, w) = {} THEN {Unsolved}
               ELSE UNION {S[x] : x \in Solved(cookbooks, pins, w)}
    <3> HIDE DEF B
    <3> QED
      BY <2>1, SolveIs, Zenon
  <2> HIDE DEF S
  <2>3. w.todo # <<>> /\ Solved(cookbooks, pins, w) # {}
    BY <2>1, <2>2
  <2>4. PICK x \in Solved(cookbooks, pins, w) : TRUE
    BY <2>3
  <2>5. x \in Solution
    BY <2>1, <2>3, SolverStays
  <2>6. S[x] = {}
    BY <2>1, <2>2, <2>3
  <2> QED
    BY <2>3, <2>5, <2>6
<1>2. B = {}
  <2>1. B \in SUBSET Solution
    OBVIOUS
  <2> HIDE DEF B
  <2> QED
    BY <1>1, <2>1, SolverInduction DEF SolvesOn
<1> QED
  BY <1>2

\* Some of the versions of some of the cookbooks, as they are.
CookbooksKept(some, all) ==
    /\ DOMAIN some \subseteq DOMAIN all
    /\ \A n \in DOMAIN some : /\ DOMAIN some[n] \subseteq DOMAIN all[n]
                              /\ \A v \in DOMAIN some[n] : some[n][v] = all[n][v]

Covers(cookbooks, a) == \A p \in a : p[1] \in DOMAIN cookbooks /\ p[2] \in DOMAIN cookbooks[p[1]]

LEMMA KeptCookbooksAre ==
  ASSUME NEW some, NEW all, CookbooksKept(some, all), CookbooksOK(all)
  PROVE  CookbooksOK(some)
<1>1. DOMAIN some \subseteq Names /\ IsFiniteSet(DOMAIN some)
  BY FS_Subset DEF CookbooksKept, CookbooksOK
<1>2. ASSUME NEW n \in DOMAIN some
      PROVE  /\ DOMAIN some[n] \subseteq Version /\ IsFiniteSet(DOMAIN some[n])
             /\ \A v \in DOMAIN some[n] :
                   some[n][v] \subseteq Names \X Constraint /\ IsFiniteSet(some[n][v])
  BY FS_Subset DEF CookbooksKept, CookbooksOK
<1> QED
  BY <1>1, <1>2 DEF CookbooksOK

\* A turn that chooses a version that is kept is the same with what is kept.
LEMMA SolvedKept ==
  ASSUME NEW some, NEW all, NEW pins, CookbooksKept(some, all), CookbooksOK(all),
         NEW w \in Solution, w.todo # <<>>, NEW a, Solved(all, pins, w) # {},
         \A x \in Solved(all, pins, w) : x.chosen \subseteq a,
         Covers(some, a)
  PROVE  Solved(some, pins, w) = Solved(all, pins, w)
<1> DEFINE n == Head(w.todo)[1]
           c == Head(w.todo)[2]
           best(books) == IF n \in DOMAIN books THEN Best(Allowed(books, pins, n), c) ELSE NoVersion
           Result(books) ==
             IF Chosen(w, n) THEN {[w EXCEPT !.todo = Tail(@)]}
             ELSE IF best(books) = NoVersion THEN {}
             ELSE {[todo   |-> order \o Tail(w.todo),
                    chosen |-> w.chosen \union {<<n, best(books)>>}] :
                       order \in SetToSeqs(books[n][best(books)])}
<1>1. \A books : Solved(books, pins, w) = Result(books)
  BY Zenon DEF Solved
<1>2. CASE Chosen(w, n)
  BY <1>1, <1>2
<1>3. CASE ~Chosen(w, n)
  <2>1. PICK b : b = best(all)
    OBVIOUS
  <2>2. b # NoVersion
    BY <1>1, <1>3, <2>1
  <2>3. n \in DOMAIN all /\ b = Best(Allowed(all, pins, n), c)
    BY <2>1, <2>2
  <2>4. PICK x \in Solved(all, pins, w) : TRUE
    OBVIOUS
  <2>5. <<n, b>> \in x.chosen
    <3>1. Solved(all, pins, w) = Result(all)
      BY <1>1
    <3>2. Result(all) = {[todo   |-> order \o Tail(w.todo), chosen |-> w.chosen \union {<<n, b>>}] :
                            order \in SetToSeqs(all[n][b])}
      <4> HIDE DEF best, n
      <4> QED
        BY <1>3, <2>1, <2>2
    <3> HIDE DEF n, Result
    <3>3. PICK order \in SetToSeqs(all[n][b]) :
             x = [todo |-> order \o Tail(w.todo), chosen |-> w.chosen \union {<<n, b>>}]
      BY <2>4, <3>1, <3>2
    <3> QED
      BY <3>3
  <2>6. n \in DOMAIN some /\ b \in DOMAIN some[n]
    <3>1. <<n, b>> \in a
      BY <2>5
    <3>2. <<n, b>>[1] \in DOMAIN some /\ <<n, b>>[2] \in DOMAIN some[<<n, b>>[1]]
      BY <3>1 DEF Covers
    <3> HIDE DEF n
    <3> QED
      BY <3>2
  <2> HIDE DEF n, c
  <2>7. /\ Allowed(all, pins, n) \in SUBSET Version /\ IsFiniteSet(Allowed(all, pins, n))
        /\ b \in Allowed(all, pins, n)
    BY <2>2, <2>3, AllowedIs, BestIs
  <2>8. Allowed(some, pins, n) \in SUBSET Allowed(all, pins, n) /\ b \in Allowed(some, pins, n)
    BY <2>6, <2>7 DEF Allowed, CookbooksKept
  <2>9. Best(Allowed(some, pins, n), c) = b
    BY <2>2, <2>3, <2>7, <2>8, BestKept
  <2>10. best(some) = b /\ best(all) = b /\ some[n][b] = all[n][b]
    BY <2>1, <2>6, <2>9 DEF CookbooksKept
  <2> HIDE DEF best
  <2>11. Result(some) = Result(all)
    BY <2>10
  <2> QED
    BY <1>1, <2>11 DEF n
<1> QED
  BY <1>2, <1>3

\* A walk with one answer only has the same with what is kept, if that has all
\* versions of the answer.
LEMMA SolveKept ==
  ASSUME NEW some, NEW all, NEW pins, CookbooksKept(some, all), CookbooksOK(all),
         NEW a, a # Unsolved, Covers(some, a)
  PROVE  \A w \in Solution : Solve(all, pins)[w] = {a} => Solve(some, pins)[w] = {a}
<1> DEFINE S == Solve(all, pins)
           R == Solve(some, pins)
           B == {w \in Solution : S[w] = {a} /\ R[w] # {a}}
<1>1. CookbooksOK(some)
  BY KeptCookbooksAre
<1>2. ASSUME NEW w \in B
      PROVE  w.todo # <<>> /\ \E x \in Solved(all, pins, w) : x \in B
  <2>1. w \in Solution /\ S[w] = {a} /\ R[w] # {a}
    OBVIOUS
  <2> HIDE DEF B
  <2>2. S[w] = IF w.todo = <<>> THEN {w.chosen}
               ELSE IF Solved(all, pins, w) = {} THEN {Unsolved}
               ELSE UNION {S[x] : x \in Solved(all, pins, w)}
    BY <2>1, SolveIs, Zenon
  <2>3. R[w] = IF w.todo = <<>> THEN {w.chosen}
               ELSE IF Solved(some, pins, w) = {} THEN {Unsolved}
               ELSE UNION {R[x] : x \in Solved(some, pins, w)}
    BY <1>1, <2>1, SolveIs, Zenon
  <2>4. \A x \in Solution : S[x] # {} /\ \A b \in S[x] : b = Unsolved \/ Answers(all, pins, x, b)
    BY SolveAlways, SolveAnswers
  <2> HIDE DEF S, R
  <2>5. w.todo # <<>>
    BY <2>1, <2>2, <2>3
  <2>6. Solved(all, pins, w) # {}
    BY <2>1, <2>2, <2>5
  <2>7. \A x \in Solved(all, pins, w) : x \in Solution
    BY <2>1, <2>5, SolverStays
  <2>8. ASSUME NEW x \in Solved(all, pins, w)
        PROVE  S[x] = {a} /\ x.chosen \subseteq a
    <3>1. S[x] \subseteq {a}
      BY <2>1, <2>2, <2>5, <2>6
    <3>2. S[x] = {a}
      BY <2>4, <2>7, <3>1
    <3> QED
      BY <2>4, <2>7, <3>2 DEF Answers
  <2>9. Solved(some, pins, w) = Solved(all, pins, w)
    <3>1. \A x \in Solved(all, pins, w) : x.chosen \subseteq a
      BY <2>8
    <3> HIDE <2>8
    <3> QED
      BY <2>1, <2>5, <2>6, <3>1, SolvedKept
  <2>10. PICK x \in Solved(all, pins, w) : R[x] # {a}
    <3>1. SUFFICES ASSUME \A x \in Solved(all, pins, w) : R[x] = {a}
                   PROVE  FALSE
      OBVIOUS
    <3>2. R[w] = UNION {R[x] : x \in Solved(all, pins, w)}
      BY <2>3, <2>5, <2>6, <2>9
    <3>3. R[w] = {a}
      BY <2>6, <3>1, <3>2
    <3> QED
      BY <2>1, <3>3
  <2>11. x \in B
    BY <2>7, <2>8, <2>10 DEF B
  <2> QED
    BY <2>5, <2>11
<1>3. B = {}
  <2>1. B \in SUBSET Solution
    OBVIOUS
  <2> HIDE DEF B
  <2> QED
    BY <1>2, <2>1, SolverInduction DEF SolvesOn
<1> QED
  BY <1>3

OnlyAnswer(books, pins, asked, a) == Depsolve(books, pins, asked) = {a}

\* The depsolver gives one and the same answer whatever more versions and
\* cookbooks are on the server: with any of them that the answer is part of
\* (routes.go:1680-1762).
THEOREM AnswerIsKept ==
  ASSUME NEW some, NEW all, NEW pins, NEW asked \in Seq(Names \X Constraint),
         CookbooksKept(some, all), CookbooksOK(all),
         NEW a, a # Unsolved, OnlyAnswer(all, pins, asked, a),
         Covers(some, a)
  PROVE  OnlyAnswer(some, pins, asked, a)
<1> DEFINE w == [todo |-> asked, chosen |-> {}]
<1>1. w \in Solution
  BY DEF Solution
<1>2. Depsolve(all, pins, asked) = Solve(all, pins)[w]
      /\ Depsolve(some, pins, asked) = Solve(some, pins)[w]
  BY DEF Depsolve
<1>3. \A v \in Solution : Solve(all, pins)[v] = {a} => Solve(some, pins)[v] = {a}
  BY SolveKept
<1> HIDE DEF w
<1> QED
  BY <1>1, <1>2, <1>3 DEF OnlyAnswer

\* The planned organisation has what is planned, as it is on the source.
LEMMA PlannedIs ==
  /\ DOMAIN Planned.roles = {r \in DOMAIN src.roles : <<"role", r, None>> \in Keys}
  /\ RolesKept(Planned.roles, src.roles)
  /\ \A e \in DOMAIN src.envs : e = Default \/ <<"environment", e, None>> \in Keys =>
        e \in DOMAIN Planned.envs /\ Planned.envs[e] = src.envs[e]
  /\ CookbooksKept(Planned.cookbooks, src.cookbooks)
  /\ \A n \in DOMAIN src.cookbooks : \A v \in DOMAIN src.cookbooks[n] :
        <<"cookbook", n, v>> \in Keys =>
           n \in DOMAIN Planned.cookbooks /\ v \in DOMAIN Planned.cookbooks[n]
<1> DEFINE roles == {r \in DOMAIN src.roles : <<"role", r, None>> \in Keys}
           envs == {e \in DOMAIN src.envs : e = Default \/ <<"environment", e, None>> \in Keys}
           books == {n \in DOMAIN src.cookbooks : \E v \in Versions(n) : <<"cookbook", n, v>> \in Keys}
           versions(n) == {w \in Versions(n) : <<"cookbook", n, w>> \in Keys}
           R == [r \in roles |-> src.roles[r]]
           E == [e \in envs |-> src.envs[e]]
           C == [n \in books |-> [v \in versions(n) |-> src.cookbooks[n][v]]]
<1>1. Planned = [roles |-> R, envs |-> E, cookbooks |-> C]
  BY Zenon DEF Planned
<1>2. Planned.roles = R /\ Planned.envs = E /\ Planned.cookbooks = C
  <2> HIDE DEF R, E, C
  <2> QED
    BY <1>1
<1>3. DOMAIN R = roles /\ RolesKept(R, src.roles)
  BY DEF RolesKept
<1>4. \A e \in envs : e \in DOMAIN E /\ E[e] = src.envs[e]
  OBVIOUS
<1>5. \A n \in books : /\ n \in DOMAIN C /\ n \in DOMAIN src.cookbooks
                       /\ DOMAIN C[n] = versions(n)
                       /\ \A v \in versions(n) : C[n][v] = src.cookbooks[n][v]
  OBVIOUS
<1>6. DOMAIN C = books
  OBVIOUS
<1>7. \A n \in books : versions(n) \subseteq DOMAIN src.cookbooks[n]
  BY DEF Versions
<1>8. ASSUME NEW n \in DOMAIN src.cookbooks, NEW v \in DOMAIN src.cookbooks[n],
             <<"cookbook", n, v>> \in Keys
      PROVE  n \in books /\ v \in versions(n)
  BY <1>8 DEF Versions
<1> HIDE DEF C, books, versions
<1>9. CookbooksKept(C, src.cookbooks)
  BY <1>5, <1>6, <1>7 DEF CookbooksKept
<1> QED
  BY <1>2, <1>3, <1>4, <1>5, <1>6, <1>8, <1>9

LEMMA NodeSuffices ==
  ASSUME PInv, pc = "done", req.deps, NEW it \in items, it.kind = "node",
         NEW n, n = src.nodes[it.name], n.policy = None,
         NEW ex, ex = Expand(src.roles, n.list, n.env),
         NEW asked, asked = Bare(ex.recipes),
         NEW answers, answers = SolveOn(src, n.env, asked)
  PROVE  /\ Expand(Planned.roles, n.list, n.env).recipes = ex.recipes
         /\ <<"unsolved", Key(it)>> \notin warnings /\ (\A a, b \in answers : a = b) =>
               SolveOn(Planned, n.env, asked) = answers
<1>1. /\ src \in Sources /\ queue = <<>> /\ it.name \in DOMAIN src.nodes
      /\ Owed(items, queue, warnings) /\ Settled(items, queue, warnings)
  BY DEF PInv, Whole
<1>2. n.list \in Seq(Entry) /\ RolesOK(src.roles, n.env) /\ CookbooksOK(src.cookbooks)
  BY <1>1, SourceIs, PlannerAssumption
<1>3. ex \in Expansion /\ ex.recipes \in Seq(Names)
  BY <1>2, ExpansionIsClosed DEF Expansion
<1>4. \A any : Due(any, items, queue) => any \intersect Keys # {}
  BY <1>1 DEF Due, Met, Queued, KeysOf, Keys
<1>5. NeedsOf(it) = {{Key(e)} : e \in Environment(n)}
                       \union ({{<<"role", r, None>>} : r \in ex.roles}
                               \union {{<<"cookbook", c, v>> : v \in Versions(c)} :
                                          c \in {d \in ToSet(ex.recipes) : Versions(d) # {}}})
  BY Zenon DEF NeedsOf, ListNeeds
<1>6. \A any \in NeedsOf(it) : any \intersect Keys # {}
  BY <1>1, <1>4 DEF Owed, Covered
<1>7. ASSUME NEW r \in ex.roles
      PROVE  <<"role", r, None>> \in Keys
  <2>1. {<<"role", r, None>>} \in NeedsOf(it)
    BY <1>5
  <2> QED
    BY <1>6, <2>1
<1>8. ASSUME NEW e \in Environment(n)
      PROVE  Key(e) \in Keys
  <2>1. {Key(e)} \in NeedsOf(it)
    BY <1>5
  <2> QED
    BY <1>6, <2>1
<1>9. Expand(Planned.roles, n.list, n.env) = ex
  <2>1. \A r \in ex.roles : r \in DOMAIN src.roles => r \in DOMAIN Planned.roles
    BY <1>7, PlannedIs
  <2>2. RolesKept(Planned.roles, src.roles)
    BY PlannedIs
  <2> QED
    BY <1>2, <2>1, <2>2, ExpansionIsKept
<1>10. ASSUME \A a, b \in answers : a = b, <<"unsolved", Key(it)>> \notin warnings
       PROVE  SolveOn(Planned, n.env, asked) = answers
  <2>1. PICK a \in SolvedOf(it) :
           a # Unsolved /\ \A p \in a : Due({<<"cookbook", p[1], p[2]>>}, items, queue)
    BY <1>1, <1>10 DEF Settled, Answered
  <2>2. SolvedOf(it) = answers
    BY DEF SolvedOf
  <2>3. answers = {a} /\ a # Unsolved
    BY <1>10, <2>1, <2>2
  <2>4. ASSUME NEW p \in a
        PROVE  <<"cookbook", p[1], p[2]>> \in Keys
    <3>1. Due({<<"cookbook", p[1], p[2]>>}, items, queue)
      BY <2>1, <2>3
    <3> QED
      BY <1>4, <3>1
  <2>5. CASE asked = <<>>
    BY <2>5 DEF SolveOn
  <2>6. CASE asked # <<>>
    <3>1. n.env \in DOMAIN src.envs
      BY <2>3, <2>6 DEF SolveOn
    <3>2. answers = Depsolve(src.cookbooks, src.envs[n.env], asked)
      BY <2>6, <3>1 DEF SolveOn
    <3>3. n.env = Default \/ <<"environment", n.env, None>> \in Keys
      <4>1. n.env # Default => Item("environment", n.env, None) \in Environment(n)
        BY DEF Environment
      <4>2. Key(Item("environment", n.env, None)) = <<"environment", n.env, None>>
        BY ItemIs DEF Kinds
      <4> QED
        BY <1>8, <4>1, <4>2
    <3>4. n.env \in DOMAIN Planned.envs /\ Planned.envs[n.env] = src.envs[n.env]
      BY <3>1, <3>3, PlannedIs
    <3>5. SolveOn(Planned, n.env, asked) = Depsolve(Planned.cookbooks, src.envs[n.env], asked)
      BY <2>6, <3>4 DEF SolveOn
    <3>6. asked \in Seq(Names \X Constraint)
      BY <1>3, BareIs
    <3>7. \A p \in a : p[1] \in DOMAIN src.cookbooks /\ p[2] \in DOMAIN src.cookbooks[p[1]]
      <4>1. a \in Depsolve(src.cookbooks, src.envs[n.env], asked)
        BY <2>3, <3>2
      <4>2. \A p \in a : /\ p[1] \in DOMAIN src.cookbooks
                         /\ p[2] \in Allowed(src.cookbooks, src.envs[n.env], p[1])
        <5>1. CookbooksOK(src.cookbooks) /\ a # Unsolved
          BY <1>2, <2>3
        <5>2. PICK books : books = src.cookbooks
          OBVIOUS
        <5>3. PICK pins : pins = src.envs[n.env]
          OBVIOUS
        <5>4. CookbooksOK(books) /\ a \in Depsolve(books, pins, asked)
          BY <4>1, <5>1, <5>2, <5>3
        <5>5. \A p \in a : /\ p[1] \in DOMAIN books /\ p[2] \in Allowed(books, pins, p[1])
                           /\ \A d \in books[p[1]][p[2]] : IsChosen(a, d[1])
          BY <3>6, <5>1, <5>4, AnswersAreComplete, Zenon
        <5> QED
          BY <5>2, <5>3, <5>5
      <4> QED
        BY <1>2, <4>2, AllowedIs
    <3>8. Covers(Planned.cookbooks, a)
      BY <2>4, <3>7, PlannedIs DEF Covers
    <3>9. Depsolve(Planned.cookbooks, src.envs[n.env], asked) = {a}
      <4>1. PICK all : all = src.cookbooks
        OBVIOUS
      <4>2. PICK some : some = Planned.cookbooks
        OBVIOUS
      <4>3. PICK pins : pins = src.envs[n.env]
        OBVIOUS
      <4>4. CookbooksKept(some, all) /\ CookbooksOK(all) /\ Covers(some, a)
        BY <1>2, <3>8, <4>1, <4>2, PlannedIs, Zenon
      <4>5. a # Unsolved /\ OnlyAnswer(all, pins, asked, a)
        BY <2>3, <3>2, <4>1, <4>3, Zenon DEF OnlyAnswer
      <4>6. OnlyAnswer(some, pins, asked, a)
        BY <3>6, <4>4, <4>5, AnswerIsKept, Zenon
      <4> QED
        BY <4>2, <4>3, <4>6, Zenon DEF OnlyAnswer
    <3> QED
      BY <2>3, <3>5, <3>9
  <2> QED
    BY <2>5, <2>6
<1> QED
  BY <1>9, <1>10

\* What a finished plan has for a node without policy is enough for it, and
\* nothing else that is planned is in its way: with only that, its run list
\* expands to the same recipes, and unless the plan warns that the depsolver
\* could not be asked, the node's client gets the same versions, as on the
\* source, if the source has one answer and not several that depend on the
\* order of a map, and if no pin of the run lists asks for another
\* (plan.go:319-364, deps.go:70-145, routes.go:1680-1762).
THEOREM PlansSuffice == Spec => []SameVersions
<1>1. ASSUME PInv, pc = "done", req.deps, NEW it \in items,
             it.kind = "node", src.nodes[it.name].policy = None
      PROVE  LET n == src.nodes[it.name]
                 recipes(org) == Expand(org.roles, n.list, n.env).recipes
                 asked == ClientAsks(n)
                 answers == SolveOn(src, n.env, asked)
             IN  /\ recipes(Planned) = recipes(src)
                 /\ /\ <<"unsolved", Key(it)>> \notin warnings
                    /\ \A a, b \in answers : a = b
                    /\ asked = Bare(recipes(src))
                    => SolveOn(Planned, n.env, asked) = answers
  BY <1>1, NodeSuffices
<1>2. PInv => SameVersions
  BY <1>1 DEF SameVersions
<1> QED
  BY <1>2, Invariance, PTL

=============================================================================
