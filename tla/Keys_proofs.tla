----------------------------- MODULE Keys_proofs -----------------------------
(***************************************************************************)
(* That a start finds the keys and ACLs that were being served, and that a *)
(* crash leaves everybody the keys from before or after the change it      *)
(* interrupts, for any number of users, clients, keys and key names.       *)
(***************************************************************************)
EXTENDS Keys, SequenceTheorems, TLAPS

Contents == KeySets \union Keys \union {NoKey, Absent, Dir, DefaultACL, OtherACL, Intact}
Ops == [at : SUBSET Paths, holds : Contents]

\* A content that a path's own kind of file can have.
Fits(p, c) ==
    /\ c \in Contents
    /\ \A a \in Actors : p = Body(a) => c \in Keys \union {NoKey, Absent}
    /\ \A a \in Actors : p = Sidecar(a) => c \in KeySets \union {Absent}
    /\ \A u \in Users : p = ACLPath(u) => c \in {DefaultACL, OtherACL, Absent}

MemoryOK ==
    /\ keys \in [Actors -> KeySets \union {None}]
    /\ acl \in [Users -> {DefaultACL, OtherACL, None}]
    /\ org \in BOOLEAN
    /\ doing \in {"serving", "newOrg", "starting"}
    /\ before \in [Actors -> KeySets \union {None}]

DiskOK ==
    /\ disk \in [Paths -> Contents \union {Torn}]
    /\ \A p \in Paths : disk[p] = Torn \/ Fits(p, disk[p])

Pending == {todo[i] : i \in DOMAIN todo}

\* Two operations on one file, if there ever are, leave the same behind.
TodoOK ==
    /\ todo \in Seq(Ops)
    /\ \A op \in Pending : \A p \in op.at : Fits(p, op.holds)
    /\ \A op, ip \in Pending : \A p \in op.at \intersect ip.at : op.holds = ip.holds

StoreOK == up \in BOOLEAN /\ stale \subseteq Paths /\ (~up => todo = <<>> /\ stale = {})

-----------------------------------------------------------------------------
(* What the files will hold when the handler is done.                      *)

Touching(p) == {op \in Pending : p \in op.at}
Coming(p) == IF p \in Touched(todo) THEN {op.holds : op \in Touching(p)} ELSE {disk[p]}

\* No error was answered about p, or the handler is about to make up for it.
Sure(p) == p \notin stale \/ p \in Touched(todo)

KeysOf(b, s) == IF b = Absent THEN None ELSE IF s \in {Absent, Torn} THEN Just(b) ELSE s
ListOf(l) == IF l \in {Absent, Torn} THEN None ELSE l

BodyTells(a) ==
    Sure(Body(a)) => \A b \in Coming(Body(a)) : b # Torn /\ (b = Absent <=> keys[a] = None)

FilesTell(a) ==
    Sure(Body(a)) /\ Sure(Sidecar(a)) =>
       \A b \in Coming(Body(a)), s \in Coming(Sidecar(a)) : KeysOf(b, s) = keys[a]

ACLTells(u) ==
    Sure(ACLPath(u)) /\ keys[u] # None =>
       \A l \in Coming(ACLPath(u)) :
          acl[u] = ListOf(l) \/ (acl[u] = DefaultACL /\ ListOf(l) = None)

\* The sidecar of somebody who is there is written last, by a handler that
\* has written the body; and a handler that writes the body goes on to it.
Order(a) ==
    keys[a] # None =>
      /\ \A i \in DOMAIN todo :
            Sidecar(a) \in todo[i].at => i = Len(todo) /\ todo[i].at = {Sidecar(a)}
      /\ Body(a) \in Touched(todo) \/ Sidecar(a) \in Touched(todo) =>
            Sure(Body(a)) /\ Coming(Body(a)) = {keys[a][Default]}
      /\ Body(a) \in Touched(todo) /\ doing # "starting" => Sidecar(a) \in Touched(todo)
      /\ Body(a) \in stale \ Touched(todo) => Sidecar(a) \in stale

\* What a crash would leave now, and what it would leave with the body of
\* the change in place but not yet its sidecar.
Halfway(a) ==
    keys[a] # None /\ before[a] # None /\ Sidecar(a) \notin stale =>
      /\ disk[Body(a)] \notin {Torn, Absent}
      /\ IF disk[Sidecar(a)] = Torn
           THEN disk[Body(a)] \in {before[a][Default], keys[a][Default]}
           ELSE KeysOf(disk[Body(a)], disk[Sidecar(a)]) \in {before[a], keys[a]}
      /\ Body(a) \in Touched(todo) /\ disk[Sidecar(a)] = Absent =>
            Just(keys[a][Default]) \in {before[a], keys[a]}

ActorOK(a) == BodyTells(a) /\ FilesTell(a) /\ Order(a) /\ Halfway(a)
Told == up => (\A a \in Actors : ActorOK(a)) /\ (\A u \in Users : ACLTells(u))

IInv == MemoryOK /\ DiskOK /\ TodoOK /\ StoreOK /\ Told

-----------------------------------------------------------------------------
LEMMA PathsDiffer ==
  /\ \A a, b : Body(a) = Body(b) => a = b
  /\ \A a, b : Sidecar(a) = Sidecar(b) => a = b
  /\ \A u, v : ACLPath(u) = ACLPath(v) => u = v
  /\ \A a, b, u : /\ Body(a) # Sidecar(b) /\ Body(a) # ACLPath(u) /\ Sidecar(a) # ACLPath(u)
                  /\ {OrgDir, PivotalPem, ValidatorPem, Crt, CrtKey}
                        \intersect {Body(a), Sidecar(a), ACLPath(u)} = {}
  BY DEF Body, Sidecar, ACLPath, OrgDir, PivotalPem, ValidatorPem, Crt, CrtKey

LEMMA PathsKnown ==
  /\ \A a \in Actors : Body(a) \in Paths /\ Sidecar(a) \in Paths
  /\ \A u \in Users : ACLPath(u) \in Paths
  /\ {OrgDir, PivotalPem, ValidatorPem, Crt, CrtKey} \subseteq Paths
  /\ OrgFiles \subseteq Paths
  BY DEF Paths, OrgFiles, Actors

LEMMA MarksKnown ==
  /\ Absent # Torn
  /\ {Absent, Torn, Dir, None} \intersect
        (Keys \union {NoKey, DefaultACL, OtherACL, Intact} \union KeySets) = {}
  /\ DefaultACL # OtherACL
  BY KeysAssumption, MarksDiffer

LEMMA JustIs ==
  /\ \A k \in Keys \union {NoKey} : Just(k) \in KeySets /\ Just(k)[Default] = k
  /\ \A ks \in KeySets : ks[Default] \in Keys \union {NoKey}
  BY KeysAssumption DEF KeySets, Just, NoKeys

LEMMA NothingLeft == todo = <<>> => Touched(todo) = {} /\ DOMAIN todo = {} /\ Pending = {}
  BY DEF Touched, Pending

LEMMA TouchedIs == \A p : p \in Touched(todo) <=> \E op \in Pending : p \in op.at
  BY DEF Touched, Pending

LEMMA OpsKnown == TodoOK => Pending \subseteq Ops /\ Touched(todo) \subseteq Paths
<1> SUFFICES ASSUME TodoOK PROVE Pending \subseteq Ops /\ Touched(todo) \subseteq Paths
  OBVIOUS
<1>1. Pending \subseteq Ops
  <2> HIDE DEF Ops
  <2> QED
    BY ElementOfSeq, LenProperties DEF TodoOK, Pending
<1> QED
  BY <1>1, TouchedIs DEF Ops

\* A file that is to be written will hold what any one operation on it says.
LEMMA ComingIs ==
  ASSUME TodoOK
  PROVE  /\ \A p : p \notin Touched(todo) => Coming(p) = {disk[p]}
         /\ \A op \in Pending : \A p \in op.at : Coming(p) = {op.holds}
<1>1. \A p : p \notin Touched(todo) => Coming(p) = {disk[p]}
  BY DEF Coming
<1>2. ASSUME NEW op \in Pending, NEW p \in op.at PROVE Coming(p) = {op.holds}
  <2>1. p \in Touched(todo) /\ op \in Touching(p)
    BY TouchedIs DEF Touching
  <2>2. \A ip \in Touching(p) : ip.holds = op.holds
    BY DEF TodoOK, Touching
  <2> QED
    BY <2>1, <2>2 DEF Coming
<1> QED
  BY <1>1, <1>2

\* The first operation and the ones after it.
LEMMA HeadAndRest ==
  ASSUME TodoOK, todo # <<>>
  PROVE  /\ Head(todo) \in Pending /\ Head(todo) \in Ops /\ Head(todo) = todo[1]
         /\ Head(todo).at \subseteq Paths
         /\ Len(todo) \in Nat \ {0} /\ 1 \in DOMAIN todo
         /\ Tail(todo) \in Seq(Ops) /\ Len(Tail(todo)) = Len(todo) - 1
         /\ \A i \in DOMAIN Tail(todo) : i + 1 \in DOMAIN todo /\ Tail(todo)[i] = todo[i + 1]
         /\ Pending = {Head(todo)} \union {Tail(todo)[i] : i \in DOMAIN Tail(todo)}
<1>1. todo \in Seq(Ops)
  BY DEF TodoOK
<1>2. /\ Head(todo) \in Ops /\ Tail(todo) \in Seq(Ops) /\ Len(Tail(todo)) = Len(todo) - 1
      /\ \A i \in 1..Len(Tail(todo)) : Tail(todo)[i] = todo[i + 1]
      /\ Len(todo) \in Nat \ {0} /\ DOMAIN todo = 1..Len(todo)
      /\ DOMAIN Tail(todo) = 1..Len(Tail(todo)) /\ Head(todo) = todo[1]
  <2> HIDE DEF Ops
  <2> QED
    BY <1>1, HeadTailProperties, EmptySeq, LenProperties
<1>3. \A i \in DOMAIN todo : i = 1 \/ (i - 1 \in DOMAIN Tail(todo) /\ Tail(todo)[i - 1] = todo[i])
  BY <1>2
<1>4. \A i \in DOMAIN Tail(todo) : i + 1 \in DOMAIN todo /\ Tail(todo)[i] = todo[i + 1]
  BY <1>2
<1>5. Pending = {Head(todo)} \union {Tail(todo)[i] : i \in DOMAIN Tail(todo)}
  BY <1>2, <1>3, <1>4 DEF Pending
<1>6. Head(todo).at \subseteq Paths
  BY <1>2 DEF Ops
<1> QED
  BY <1>2, <1>4, <1>5, <1>6

\* What is left when the first operation is gone.
LEMMA RestOK ==
  ASSUME TodoOK, todo # <<>>, todo' = Tail(todo)
  PROVE  /\ TodoOK'
         /\ Pending' \subseteq Pending /\ Pending \subseteq Pending' \union {Head(todo)}
         /\ Touched(todo') \subseteq Touched(todo)
         /\ Touched(todo) = Head(todo).at \union Touched(todo')
<1>1. Pending' = {Tail(todo)[i] : i \in DOMAIN Tail(todo)}
  BY DEF Pending
<1>2. Pending = {Head(todo)} \union Pending'
  BY <1>1, HeadAndRest
<1>3. Touched(todo)' = Touched(todo') /\ \A p : p \in Touched(todo') <=> \E op \in Pending' : p \in op.at
  BY DEF Touched, Pending
<1>4. todo' \in Seq(Ops')
  <2>1. Ops' = Ops
    BY DEF Ops
  <2> QED
    BY <2>1, HeadAndRest
<1>5. TodoOK'
  <2>1. \A p, c : Fits(p, c)' = Fits(p, c)
    BY DEF Fits
  <2>2. \A op \in Pending' : \A p \in op.at : Fits(p, op.holds)
    BY <1>2 DEF TodoOK
  <2>3. \A op, ip \in Pending' : \A p \in op.at \intersect ip.at : op.holds = ip.holds
    BY <1>2 DEF TodoOK
  <2> QED
    BY <1>4, <2>1, <2>2, <2>3 DEF TodoOK
<1> QED
  BY <1>2, <1>3, <1>5, TouchedIs

LEMMA RestComing ==
  ASSUME TodoOK, todo # <<>>, todo' = Tail(todo), NEW p,
         p \in Touched(todo') \/ (p \notin Head(todo).at /\ disk'[p] = disk[p])
  PROVE  Coming(p)' = Coming(p)
<1>1. TodoOK' /\ Pending' \subseteq Pending /\ Touched(todo) = Head(todo).at \union Touched(todo')
  BY RestOK
<1>2. CASE p \in Touched(todo')
  <2>1. PICK op \in Pending' : p \in op.at
    BY <1>2 DEF Touched, Pending
  <2>2. Coming(p) = {op.holds}
    BY <1>1, <2>1, ComingIs
  <2>3. \A ip \in Pending' : p \in ip.at => ip.holds = op.holds
    BY <1>1, <2>1 DEF TodoOK
  <2>4. Coming(p)' = {ip.holds : ip \in {ip \in Pending' : p \in ip.at}}
    BY <1>2 DEF Coming, Touching
  <2> QED
    BY <2>1, <2>2, <2>3, <2>4
<1>3. CASE p \notin Touched(todo')
  BY <1>1, <1>3 DEF Coming
<1> QED
  BY <1>2, <1>3

\* A content that does not fit a path is never put there.
LEMMA Applied ==
  ASSUME DiskOK, NEW at \in SUBSET Paths, NEW c, \A p \in at : c = Torn \/ Fits(p, c),
         disk' = Apply([at |-> at, holds |-> c], disk)
  PROVE  /\ DiskOK'
         /\ \A p \in Paths : disk'[p] = IF p \in at THEN c ELSE disk[p]
<1>1. \A p \in Paths : disk'[p] = IF p \in at THEN c ELSE disk[p]
  BY DEF Apply, DiskOK
<1>2. \A p \in at : c \in Contents \union {Torn}
  BY DEF Fits
<1>3. disk' \in [Paths -> Contents \union {Torn}]
  <2> HIDE DEF Contents
  <2> QED
    BY <1>2 DEF Apply, DiskOK
<1>4. \A p \in Paths : disk'[p] = Torn \/ Fits(p, disk'[p])
  BY <1>1 DEF DiskOK
<1>5. \A p, d : Fits(p, d)' = Fits(p, d)
  BY DEF Fits
<1>6. Contents' = Contents
  BY DEF Contents
<1> QED
  BY <1>1, <1>3, <1>4, <1>5, <1>6 DEF DiskOK

\* An operation brings about what was coming, no more and no less.
LEMMA StepOK ==
  ASSUME DiskOK, TodoOK, todo # <<>>, disk' = Apply(Head(todo), disk), todo' = Tail(todo)
  PROVE  /\ DiskOK'
         /\ \A p \in Paths : disk'[p] = IF p \in Head(todo).at THEN Head(todo).holds ELSE disk[p]
         /\ \A p \in Paths : Coming(p)' = Coming(p)
<1> DEFINE at == Head(todo).at
           c == Head(todo).holds
<1>1. at \in SUBSET Paths /\ Head(todo) = [at |-> at, holds |-> c] /\ Head(todo) \in Pending
  BY HeadAndRest DEF Ops
<1>2. \A p \in at : Fits(p, c)
  BY <1>1 DEF TodoOK
<1>3. DiskOK' /\ \A p \in Paths : disk'[p] = IF p \in at THEN c ELSE disk[p]
  <2> HIDE DEF at, c
  <2>1. disk' = Apply([at |-> at, holds |-> c], disk)
    BY <1>1
  <2> QED
    BY <1>1, <1>2, <2>1, Applied
<1>4. TodoOK' /\ Pending' \subseteq Pending /\ Touched(todo) = at \union Touched(todo')
  BY RestOK
<1>5. ASSUME NEW p \in Paths PROVE Coming(p)' = Coming(p)
  <2>1. CASE p \notin Touched(todo') /\ p \in at
    BY <1>1, <1>3, <2>1, ComingIs DEF Coming
  <2>2. CASE p \in Touched(todo') \/ p \notin at
    BY <1>3, <2>2, RestComing
  <2> QED
    BY <2>1, <2>2
<1> QED
  BY <1>3, <1>5

\* A file that is cut short is Torn or gone, and no other is touched.
LEMMA Cut ==
  ASSUME DiskOK, TodoOK, todo # <<>>,
         \E done \in SUBSET Head(todo).at : disk' = Apply(CutShort(Head(todo), done), disk)
  PROVE  /\ DiskOK'
         /\ \A p \in Paths : disk'[p] = disk[p] \/
               (p \in Head(todo).at /\ disk'[p] = IF Head(todo).holds \in {Absent, Dir}
                                                   THEN Head(todo).holds ELSE Torn)
<1>1. PICK done \in SUBSET Head(todo).at : disk' = Apply(CutShort(Head(todo), done), disk)
  OBVIOUS
<1> DEFINE c == IF Head(todo).holds \in {Absent, Dir} THEN Head(todo).holds ELSE Torn
<1>2. disk' = Apply([at |-> done, holds |-> c], disk)
  BY <1>1 DEF CutShort
<1>3. done \in SUBSET Paths
  BY HeadAndRest
<1>4. \A p \in done : c = Torn \/ Fits(p, c)
  BY HeadAndRest DEF TodoOK
<1>5. DiskOK' /\ \A p \in Paths : disk'[p] = IF p \in done THEN c ELSE disk[p]
  <2> HIDE DEF c
  <2> QED
    BY <1>2, <1>3, <1>4, Applied
<1> QED
  BY <1>5

-----------------------------------------------------------------------------
(* The store and the process.                                              *)

LEMMA InitInv == Init => IInv
<1> SUFFICES ASSUME Init PROVE IInv
  OBVIOUS
<1>1. DiskOK
  <2>1. \A p \in Paths : Fits(p, Absent)
    BY DEF Fits, Contents
  <2> QED
    BY <2>1 DEF Init, DiskOK, Contents
<1>2. TodoOK /\ Told
  BY NothingLeft DEF Init, TodoOK, Told
<1>3. MemoryOK /\ StoreOK
  BY DEF Init, MemoryOK, StoreOK
<1> QED
  BY <1>1, <1>2, <1>3 DEF IInv

\* The handler of an actor's change goes on to the rest.
LEMMA OrderRest ==
  ASSUME TodoOK, todo # <<>>, todo' = Tail(todo), UNCHANGED <<keys, doing>>,
         NEW a \in Actors, Order(a),
         Coming(Body(a))' = Coming(Body(a)), Sure(Body(a)) => Sure(Body(a))',
         Body(a) \in stale' \ Touched(todo') => Body(a) \in stale \ Touched(todo),
         Sidecar(a) \in stale \ Head(todo).at => Sidecar(a) \in stale'
  PROVE  Order(a)' /\ (keys[a] # None /\ Sidecar(a) \in Head(todo).at => todo' = <<>>)
<1> DEFINE h == Head(todo)
<1>1. /\ Touched(todo) = h.at \union Touched(todo') /\ h \in Pending /\ h = todo[1]
      /\ 1 \in DOMAIN todo /\ TodoOK'
  BY RestOK, HeadAndRest
<1>2. ASSUME keys[a] # None, Sidecar(a) \in h.at PROVE todo' = <<>> /\ h.at = {Sidecar(a)}
  <2>1. Len(todo) = 1 /\ h.at = {Sidecar(a)}
    BY <1>1, <1>2 DEF Order
  <2>2. todo' \in Seq(Ops) /\ Len(todo') = 0
    BY <2>1, HeadAndRest
  <2> HIDE DEF Ops
  <2> QED
    BY <2>1, <2>2, EmptySeq
<1>3. SUFFICES ASSUME keys[a] # None PROVE Order(a)'
  BY <1>2 DEF Order
<1>4. ASSUME NEW i \in DOMAIN todo', Sidecar(a) \in todo'[i].at
      PROVE  i = Len(todo') /\ todo'[i].at = {Sidecar(a)}
  <2>1. i + 1 \in DOMAIN todo /\ todo'[i] = todo[i + 1] /\ Len(todo') = Len(todo) - 1
    BY <1>4, HeadAndRest
  <2>2. i \in Nat /\ Len(todo) \in Nat
    BY <1>1, LenProperties DEF TodoOK
  <2> QED
    BY <1>3, <1>4, <2>1, <2>2 DEF Order
<1>5. Body(a) \in Touched(todo') \/ Sidecar(a) \in Touched(todo') =>
         Sure(Body(a))' /\ Coming(Body(a))' = {keys[a][Default]}
  BY <1>1, <1>3 DEF Order
<1>6. Body(a) \in Touched(todo') /\ doing # "starting" => Sidecar(a) \in Touched(todo')
  BY <1>1, <1>2, <1>3 DEF Order, Touched
<1>7. Body(a) \in stale' \ Touched(todo') => Sidecar(a) \in stale'
  BY <1>1, <1>3 DEF Order, Sure
<1> QED
  BY <1>4, <1>5, <1>6, <1>7 DEF Order

\* An operation of a handler that goes on, or is done with its last.
LEMMA PersistInv == IInv /\ Persist => IInv'
<1> SUFFICES ASSUME IInv, Persist PROVE IInv'
  OBVIOUS
<1> DEFINE h == Head(todo)
<1>1. /\ up /\ up' /\ todo # <<>> /\ UNCHANGED <<keys, acl, org, doing>>
      /\ disk' = Apply(h, disk) /\ todo' = Tail(todo) /\ stale' = stale \ h.at
      /\ before' = IF todo' = <<>> THEN keys ELSE before
      /\ MemoryOK /\ TodoOK /\ DiskOK /\ StoreOK
      /\ (\A a \in Actors : ActorOK(a)) /\ (\A u \in Users : ACLTells(u))
  BY DEF IInv, Told, Persist, StoreStep, memory
<1>2. TodoOK' /\ DiskOK'
  BY <1>1, RestOK, StepOK
<1>3. MemoryOK' /\ StoreOK'
  BY <1>1 DEF MemoryOK, StoreOK
<1>4. \A p \in Paths : Coming(p)' = Coming(p) /\ (Sure(p)' => Sure(p))
  BY <1>1, RestOK, StepOK DEF Sure
<1>5. ASSUME NEW u \in Users PROVE ACLTells(u)'
  BY <1>1, <1>4, PathsKnown DEF ACLTells
<1>6. /\ Touched(todo) = h.at \union Touched(todo') /\ h \in Pending /\ h = todo[1]
      /\ 1 \in DOMAIN todo
      /\ \A p \in Paths : disk'[p] = IF p \in h.at THEN h.holds ELSE disk[p]
  BY <1>1, RestOK, HeadAndRest, StepOK
<1>7. ASSUME NEW a \in Actors PROVE ActorOK(a)'
  <2>1. Body(a) \in Paths /\ Sidecar(a) \in Paths /\ ActorOK(a)
    BY <1>1, PathsKnown
  <2>2. BodyTells(a)' /\ FilesTell(a)'
    BY <1>1, <1>4, <2>1 DEF ActorOK, BodyTells, FilesTell
  <2>3. Order(a)' /\ (keys[a] # None /\ Sidecar(a) \in h.at => todo' = <<>>)
    <3>1. Coming(Body(a))' = Coming(Body(a)) /\ (Sure(Body(a)) => Sure(Body(a))')
      BY <1>1, <1>4, <1>6, <2>1 DEF Sure
    <3>2. Body(a) \in stale' \ Touched(todo') => Body(a) \in stale \ Touched(todo)
      BY <1>1, <1>6
    <3> QED
      BY <1>1, <2>1, <3>1, <3>2, OrderRest DEF ActorOK
  <2>4. Halfway(a)'
    <3> SUFFICES ASSUME keys[a] # None, before'[a] # None, Sidecar(a) \notin stale'
                 PROVE  Halfway(a)'
      BY <1>1 DEF Halfway
    <3>1. CASE todo' = <<>>
      <4>1. Touched(todo') = {} /\ before' = keys
        BY <1>1, <3>1 DEF Touched
      <4>2. Body(a) \notin stale' /\ Sure(Body(a))' /\ Sure(Sidecar(a))'
        BY <2>3, <4>1, <1>1 DEF Order, Sure
      <4>3. Coming(Body(a))' = {disk'[Body(a)]} /\ Coming(Sidecar(a))' = {disk'[Sidecar(a)]}
        BY <4>1 DEF Coming
      <4>4. /\ disk'[Body(a)] \notin {Torn, Absent}
            /\ KeysOf(disk'[Body(a)], disk'[Sidecar(a)]) = keys[a]
        BY <1>1, <2>2, <4>2, <4>3 DEF BodyTells, FilesTell
      <4>5. disk'[Body(a)] \in Keys \union {NoKey}
        BY <1>2, <2>1, <4>4 DEF DiskOK, Fits
      <4>6. disk'[Sidecar(a)] = Torn => disk'[Body(a)] = keys[a][Default]
        BY <4>4, <4>5, JustIs DEF KeysOf
      <4> QED
        BY <1>1, <4>1, <4>4, <4>6 DEF Halfway
    <3>2. CASE todo' # <<>>
      <4>1. before' = before /\ Sidecar(a) \notin h.at /\ Sidecar(a) \notin stale
        BY <1>1, <2>3, <3>2
      <4>2. disk'[Sidecar(a)] = disk[Sidecar(a)]
        BY <1>6, <2>1, <4>1
      <4>3. CASE Body(a) \notin h.at
        <5>1. disk'[Body(a)] = disk[Body(a)]
          BY <1>6, <2>1, <4>3
        <5> QED
          BY <1>1, <1>6, <2>1, <4>1, <4>2, <5>1 DEF ActorOK, Halfway
      <4>4. CASE Body(a) \in h.at
        <5>1. /\ disk[Body(a)] # Absent
              /\ IF disk[Sidecar(a)] = Torn
                   THEN disk[Body(a)] \in {before[a][Default], keys[a][Default]}
                   ELSE KeysOf(disk[Body(a)], disk[Sidecar(a)]) \in {before[a], keys[a]}
              /\ disk[Sidecar(a)] = Absent => Just(keys[a][Default]) \in {before[a], keys[a]}
          BY <1>1, <1>6, <2>1, <4>1, <4>4 DEF ActorOK, Halfway
        <5>2. disk'[Body(a)] = h.holds /\ Coming(Body(a)) = {h.holds} /\ Sure(Body(a))
          BY <1>1, <1>6, <2>1, <4>4, ComingIs DEF Sure
        <5>3. disk'[Body(a)] \notin {Torn, Absent}
          BY <2>1, <5>2 DEF ActorOK, BodyTells
        <5>4. disk'[Body(a)] = keys[a][Default]
          BY <1>1, <1>6, <2>1, <4>4, <5>2 DEF ActorOK, Order
        <5> QED
          BY <1>1, <1>6, <4>1, <4>2, <5>1, <5>3, <5>4 DEF Halfway, KeysOf
      <4> QED
        BY <4>3, <4>4
    <3> QED
      BY <3>1, <3>2
  <2> QED
    BY <2>2, <2>3, <2>4 DEF ActorOK
<1> QED
  BY <1>1, <1>2, <1>3, <1>5, <1>7 DEF IInv, Told

LEMMA FaultInv == IInv /\ Fault => IInv'
<1> SUFFICES ASSUME IInv, Fault PROVE IInv'
  OBVIOUS
<1>1. /\ up /\ up' /\ todo # <<>> /\ todo' = <<>> /\ stale' = stale \union Touched(todo)
      /\ UNCHANGED <<keys, acl, org, before>> /\ doing # "starting" /\ doing' = "serving"
      /\ \E done \in SUBSET Head(todo).at : disk' = Apply(CutShort(Head(todo), done), disk)
      /\ MemoryOK /\ TodoOK /\ DiskOK /\ StoreOK
      /\ (\A a \in Actors : ActorOK(a)) /\ (\A u \in Users : ACLTells(u))
  BY DEF IInv, Told, Fault, StoreFaultOn, memory
<1>2. DiskOK' /\ \A p \in Paths \ Touched(todo) : disk'[p] = disk[p]
  BY <1>1, Cut, RestOK, HeadAndRest, TouchedIs
<1>3. /\ Touched(todo') = {} /\ DOMAIN todo' = {} /\ Pending' = {}
      /\ Touched(todo) \subseteq Paths
  BY <1>1, OpsKnown DEF Touched, Pending
<1>4. MemoryOK' /\ TodoOK' /\ StoreOK'
  BY <1>1, <1>3 DEF MemoryOK, TodoOK, StoreOK
<1>5. ASSUME NEW p \in Paths, p \notin stale'
      PROVE  Sure(p) /\ Coming(p) = Coming(p)' /\ disk'[p] = disk[p]
  BY <1>1, <1>2, <1>3, <1>5 DEF Sure, Coming
<1>6. \A p \in Paths : Sure(p)' => p \notin stale'
  BY <1>3 DEF Sure
<1>7. ASSUME NEW u \in Users PROVE ACLTells(u)'
  BY <1>1, <1>5, <1>6, PathsKnown DEF ACLTells
<1>8. ASSUME NEW a \in Actors PROVE ActorOK(a)'
  <2>1. Body(a) \in Paths /\ Sidecar(a) \in Paths /\ ActorOK(a)
    BY <1>1, PathsKnown
  <2>2. BodyTells(a)' /\ FilesTell(a)'
    BY <1>1, <1>5, <1>6, <2>1 DEF ActorOK, BodyTells, FilesTell
  <2>3. Order(a)'
    BY <1>1, <1>3, <2>1 DEF ActorOK, Order
  <2>4. Halfway(a)'
    <3> SUFFICES ASSUME keys[a] # None, before[a] # None, Sidecar(a) \notin stale' PROVE Halfway(a)'
      BY <1>1 DEF Halfway
    <3>1. Sidecar(a) \notin stale /\ Sidecar(a) \notin Touched(todo) /\ Body(a) \notin stale'
      BY <1>1, <1>3, <2>3 DEF Order
    <3>2. disk'[Body(a)] = disk[Body(a)] /\ disk'[Sidecar(a)] = disk[Sidecar(a)]
      BY <1>5, <2>1, <3>1
    <3> QED
      BY <1>1, <1>3, <2>1, <3>1, <3>2 DEF ActorOK, Halfway
  <2> QED
    BY <2>2, <2>3, <2>4 DEF ActorOK
<1> QED
  BY <1>1, <1>2, <1>4, <1>7, <1>8 DEF IInv, Told

LEMMA ACLStaysInv ==
  ASSUME IInv, NEW u \in Users, ACLStays(u)
  PROVE  IInv'
<1> DEFINE h == Head(todo)
<1>1. /\ up /\ up' /\ todo # <<>> /\ UNCHANGED <<keys, acl, org, doing, before, disk>>
      /\ todo' = Tail(todo) /\ stale' = stale \union {ACLPath(u)} /\ h.at = {ACLPath(u)}
      /\ MemoryOK /\ TodoOK /\ DiskOK /\ StoreOK
      /\ (\A a \in Actors : ActorOK(a)) /\ (\A w \in Users : ACLTells(w))
  BY DEF IInv, Told, ACLStays, memory, RemoveFile, RemoveAll
<1>2. /\ TodoOK' /\ Touched(todo) = h.at \union Touched(todo')
      /\ \A p : p # ACLPath(u) \/ p \in Touched(todo') => Coming(p)' = Coming(p)
  BY <1>1, RestOK, RestComing
<1>3. MemoryOK' /\ StoreOK'
  BY <1>1, PathsKnown DEF MemoryOK, StoreOK
<1>4. DiskOK'
  BY <1>1 DEF DiskOK, Fits, Contents
<1>5. ASSUME NEW w \in Users PROVE ACLTells(w)'
  <2> SUFFICES ASSUME Sure(ACLPath(w))' PROVE ACLTells(w)'
    BY DEF ACLTells
  <2>1. Sure(ACLPath(w)) /\ Coming(ACLPath(w))' = Coming(ACLPath(w))
    BY <1>1, <1>2 DEF Sure
  <2> QED
    BY <1>1, <2>1 DEF ACLTells
<1>6. ASSUME NEW a \in Actors PROVE ActorOK(a)'
  <2>1. Body(a) # ACLPath(u) /\ Sidecar(a) # ACLPath(u) /\ ActorOK(a)
    BY <1>1, PathsDiffer
  <2>2. \A p \in {Body(a), Sidecar(a)} : /\ Coming(p)' = Coming(p) /\ Sure(p)' = Sure(p)
                                         /\ p \in stale' <=> p \in stale
                                         /\ p \in Touched(todo') <=> p \in Touched(todo)
    BY <1>1, <1>2, <2>1 DEF Sure
  <2>3. BodyTells(a)' /\ FilesTell(a)'
    BY <1>1, <2>1, <2>2 DEF ActorOK, BodyTells, FilesTell
  <2>4. Order(a)'
    BY <1>1, <2>1, <2>2, OrderRest DEF ActorOK
  <2>5. Halfway(a)'
    BY <1>1, <2>1, <2>2 DEF ActorOK, Halfway
  <2> QED
    BY <2>3, <2>4, <2>5 DEF ActorOK
<1> QED
  BY <1>1, <1>2, <1>3, <1>4, <1>5, <1>6 DEF IInv, Told

\* The process dies, at a file operation or between two.
LEMMA Dying ==
  ASSUME IInv, Crash
  PROVE  /\ up /\ todo' = <<>> /\ ~up' /\ up' \in BOOLEAN /\ stale' = {}
         /\ DiskOK'
         /\ \A p \in Paths :
               \/ disk'[p] = disk[p]
               \/ /\ todo # <<>> /\ p \in Head(todo).at
                  /\ disk'[p] = IF Head(todo).holds \in {Absent, Dir}
                                  THEN Head(todo).holds ELSE Torn
<1>1. /\ up /\ todo' = <<>> /\ ~up' /\ up' \in BOOLEAN /\ stale' = {} /\ TodoOK /\ DiskOK
      /\ \/ disk' = disk
         \/ /\ todo # <<>>
            /\ \E done \in SUBSET Head(todo).at : disk' = Apply(CutShort(Head(todo), done), disk)
  BY DEF IInv, Crash, ProcessDies
<1>2. CASE disk' = disk
  BY <1>1, <1>2 DEF DiskOK, Fits, Contents
<1>3. CASE disk' # disk
  BY <1>1, <1>3, Cut
<1> QED
  BY <1>1, <1>2, <1>3

LEMMA CrashInv == IInv /\ Crash => IInv'
<1> SUFFICES ASSUME IInv, Crash PROVE IInv'
  OBVIOUS
<1>1. MemoryOK'
  BY DEF Crash, MemoryOK
<1>2. TodoOK' /\ StoreOK' /\ Told'
  <2>1. todo' = <<>> /\ Pending' = {}
    BY Dying DEF Pending
  <2> QED
    BY <2>1, Dying DEF TodoOK, StoreOK, Told
<1> QED
  BY <1>1, <1>2, Dying DEF IInv

LEMMA CrashKeeps ==
  ASSUME IInv, Crash, NEW a \in Actors, InStep(a), before[a] # None, keys[a] # None,
         disk'[Body(a)] # Torn
  PROVE  IF disk'[Sidecar(a)] = Torn
           THEN KeysIn(disk', a)[Default] \in {before[a][Default], keys[a][Default]}
           ELSE KeysIn(disk', a) \in {before[a], keys[a]}
<1> DEFINE h == Head(todo)
           b == disk[Body(a)]
           s == disk[Sidecar(a)]
<1>1. /\ Body(a) \in Paths /\ Sidecar(a) \in Paths /\ ActorOK(a) /\ TodoOK /\ DiskOK
      /\ Body(a) \notin stale /\ Sidecar(a) \notin stale /\ Sure(Body(a)) /\ Sure(Sidecar(a))
  BY Dying, PathsKnown DEF IInv, Told, InStep, Sure
<1>2. KeysIn(disk', a) = KeysOf(disk'[Body(a)], disk'[Sidecar(a)])
  BY DEF KeysIn, KeysOf, Just
<1>3. /\ b \notin {Torn, Absent}
      /\ IF s = Torn THEN b \in {before[a][Default], keys[a][Default]}
                     ELSE KeysOf(b, s) \in {before[a], keys[a]}
  BY <1>1 DEF ActorOK, Halfway
<1>4. b \in Keys \union {NoKey} /\ Just(b)[Default] = b
  BY <1>1, <1>3, JustIs DEF DiskOK, Fits
\* A body that is not Torn is the one that was there.
<1>5. disk'[Body(a)] = b
  <2> SUFFICES ASSUME disk'[Body(a)] # b PROVE FALSE
    OBVIOUS
  <2>1. todo # <<>> /\ Body(a) \in h.at /\ disk'[Body(a)] = h.holds /\ h.holds \in {Absent, Dir}
    BY <1>1, Dying
  <2>2. h \in Pending /\ Coming(Body(a)) = {h.holds} /\ Fits(Body(a), h.holds)
    BY <1>1, <2>1, HeadAndRest, ComingIs DEF TodoOK
  <2>3. h.holds # Absent
    BY <1>1, <2>2 DEF ActorOK, BodyTells
  <2>4. h.holds \in Keys \union {NoKey, Absent}
    BY <2>2 DEF Fits
  <2> QED
    BY <2>1, <2>3, <2>4, MarksKnown
<1>6. CASE disk'[Sidecar(a)] = s
  BY <1>2, <1>3, <1>4, <1>5, <1>6 DEF KeysOf
<1>7. CASE disk'[Sidecar(a)] # s
  <2>1. /\ todo # <<>> /\ Sidecar(a) \in h.at
        /\ disk'[Sidecar(a)] = IF h.holds \in {Absent, Dir} THEN h.holds ELSE Torn
    BY <1>1, <1>7, Dying
  <2>2. h \in Pending /\ Coming(Sidecar(a)) = {h.holds} /\ Fits(Sidecar(a), h.holds)
        /\ h = todo[1] /\ 1 \in DOMAIN todo /\ Sidecar(a) \in Touched(todo)
    BY <1>1, <2>1, HeadAndRest, ComingIs, TouchedIs DEF TodoOK
  <2>3. Touched(todo) = {Sidecar(a)}
    <3>1. Len(todo) = 1 /\ h.at = {Sidecar(a)}
      BY <1>1, <2>1, <2>2 DEF ActorOK, Order
    <3>2. todo \in Seq(Ops)
      BY <1>1 DEF TodoOK
    <3>3. DOMAIN todo = {1}
      BY <3>1, <3>2, LenProperties
    <3> QED
      BY <2>2, <3>1, <3>3 DEF Touched
  <2>4. Coming(Body(a)) = {b}
    BY <2>3, PathsDiffer DEF Coming
  <2>5. KeysOf(b, h.holds) = keys[a]
    BY <1>1, <2>2, <2>4 DEF ActorOK, FilesTell
  <2>6. b = keys[a][Default]
    BY <1>1, <2>2, <2>4 DEF ActorOK, Order
  <2>7. h.holds # Dir
    BY <2>2, MarksKnown, MarksDiffer DEF Fits
  <2> QED
    BY <1>2, <1>3, <1>4, <1>5, <2>1, <2>5, <2>6, <2>7 DEF KeysOf
<1> QED
  BY <1>6, <1>7

-----------------------------------------------------------------------------
(* Handlers, which begin when nothing is left to be written.               *)

LEMMA AtRest ==
  ASSUME IInv, Idle
  PROVE  /\ up /\ todo = <<>> /\ Touched(todo) = {} /\ Pending = {} /\ MemoryOK /\ DiskOK
         /\ stale \subseteq Paths
         /\ \A p : Coming(p) = {disk[p]} /\ (Sure(p) <=> p \notin stale)
         /\ \A a \in Actors : ActorOK(a)
         /\ \A u \in Users : ACLTells(u)
  BY NothingLeft DEF Idle, IInv, Told, StoreOK, Coming, Sure

\* What a start would find now of somebody about whom no error was answered.
LEMMA Found ==
  ASSUME IInv, Idle, NEW a \in Actors, keys[a] # None, Sidecar(a) \notin stale
  PROVE  /\ Body(a) \notin stale
         /\ disk[Body(a)] \in Keys \union {NoKey}
         /\ KeysOf(disk[Body(a)], disk[Sidecar(a)]) = keys[a]
         /\ disk[Sidecar(a)] \in {Absent, Torn} => keys[a] = Just(disk[Body(a)])
<1>1. Body(a) \notin stale
  BY AtRest DEF ActorOK, Order
<1>2. /\ disk[Body(a)] \notin {Torn, Absent}
      /\ KeysOf(disk[Body(a)], disk[Sidecar(a)]) = keys[a]
  BY <1>1, AtRest DEF ActorOK, BodyTells, FilesTell
<1>3. disk[Body(a)] \in Keys \union {NoKey}
  BY <1>2, AtRest, PathsKnown DEF DiskOK, Fits
<1> QED
  BY <1>1, <1>2, <1>3 DEF KeysOf

\* Somebody whose files the handler does not write.
LEMMA Bystander ==
  ASSUME IInv, Idle, NEW a \in Actors, keys'[a] = keys[a], disk' = disk,
         Body(a) \notin Touched(todo'), Sidecar(a) \notin Touched(todo'),
         Body(a) \in stale' <=> Body(a) \in stale, Sidecar(a) \in stale' <=> Sidecar(a) \in stale,
         before'[a] = before[a] \/ before'[a] = keys[a]
  PROVE  ActorOK(a)'
<1>1. \A p \in {Body(a), Sidecar(a)} : Coming(p)' = Coming(p) /\ (Sure(p)' <=> Sure(p))
  BY AtRest DEF Coming, Sure
<1>2. BodyTells(a)' /\ FilesTell(a)'
  BY <1>1, AtRest DEF ActorOK, BodyTells, FilesTell
<1>3. Order(a)'
  <2>1. \A i \in DOMAIN todo' : Sidecar(a) \notin todo'[i].at
    BY DEF Touched
  <2> QED
    BY <2>1, AtRest DEF ActorOK, Order
<1>4. Halfway(a)'
  <2> SUFFICES ASSUME keys[a] # None, Sidecar(a) \notin stale PROVE Halfway(a)'
    BY DEF Halfway
  <2>1. /\ disk[Body(a)] \notin {Torn, Absent}
        /\ KeysOf(disk[Body(a)], disk[Sidecar(a)]) = keys[a]
        /\ disk[Sidecar(a)] = Torn => disk[Body(a)] = keys[a][Default]
    BY Found, JustIs, MarksKnown
  <2> QED
    BY <2>1 DEF Halfway
<1> QED
  BY <1>2, <1>3, <1>4 DEF ActorOK

LEMMA ACLBystander ==
  ASSUME IInv, Idle, NEW u \in Users, acl'[u] = acl[u], disk' = disk,
         keys'[u] # None => keys[u] # None,
         ACLPath(u) \notin Touched(todo'), ACLPath(u) \in stale => ACLPath(u) \in stale'
  PROVE  ACLTells(u)'
<1>1. Coming(ACLPath(u))' = Coming(ACLPath(u)) /\ (Sure(ACLPath(u))' => Sure(ACLPath(u)))
  BY AtRest DEF Coming, Sure
<1> QED
  BY <1>1, AtRest DEF ACLTells

\* Somebody whose body is going to be removed.
LEMMA Gone ==
  ASSUME TodoOK', NEW a \in Actors, keys'[a] = None,
         NEW op \in Pending', Body(a) \in op.at, op.holds = Absent
  PROVE  ActorOK(a)'
<1>1. Body(a) \in Touched(todo')
  BY DEF Touched, Pending
<1>2. \A ip \in Pending' : Body(a) \in ip.at => ip.holds = Absent
  BY DEF TodoOK
<1>3. Coming(Body(a))' = {ip.holds : ip \in {ip \in Pending' : Body(a) \in ip.at}}
  BY <1>1 DEF Coming, Touching
<1>4. \A b \in Coming(Body(a))' : b = Absent
  BY <1>2, <1>3
<1>5. BodyTells(a)' /\ FilesTell(a)'
  BY <1>4, MarksKnown DEF BodyTells, FilesTell, KeysOf
<1> QED
  BY <1>5 DEF ActorOK, Order, Halfway

\* The operations of persistUser and persistClient: body, ACL if there is
\* one, and the sidecar, which is written or removed.
SidecarFor(a, ks) == IF Plain(a, ks) THEN Absent ELSE ks

LEMMA Pairs ==
  ASSUME NEW S, NEW x \in S, NEW y \in S
  PROVE  <<x>> \o <<y>> = <<x, y>>
<1>1. <<x>> \in Seq(S) /\ <<y>> \in Seq(S) /\ Len(<<x>>) = 1 /\ Len(<<y>>) = 1
  OBVIOUS
<1>2. /\ <<x>> \o <<y>> \in Seq(S) /\ Len(<<x>> \o <<y>>) = 2
      /\ (<<x>> \o <<y>>)[1] = x /\ (<<x>> \o <<y>>)[2] = y
  BY <1>1, ConcatProperties
<1>3. <<x, y>> \in Seq(S) /\ Len(<<x, y>>) = 2 /\ <<x, y>>[1] = x /\ <<x, y>>[2] = y
  OBVIOUS
<1> DEFINE s == <<x>> \o <<y>>
           t == <<x, y>>
<1>4. s \in Seq(S) /\ t \in Seq(S) /\ Len(s) = 2 /\ Len(t) = 2 /\ \A i \in 1..2 : s[i] = t[i]
  BY <1>2, <1>3
<1> HIDE DEF s, t
<1>5. s = t
  BY <1>4, SeqEqual
<1> QED
  BY <1>5 DEF s, t

LEMMA Triples ==
  ASSUME NEW S, NEW x \in S, NEW y \in S, NEW z \in S
  PROVE  <<x, y>> \o <<z>> = <<x, y, z>>
<1>1. <<x, y>> \in Seq(S) /\ <<z>> \in Seq(S) /\ Len(<<x, y>>) = 2 /\ Len(<<z>>) = 1
  OBVIOUS
<1>2. /\ <<x, y>> \o <<z>> \in Seq(S) /\ Len(<<x, y>> \o <<z>>) = 3
      /\ (<<x, y>> \o <<z>>)[1] = x /\ (<<x, y>> \o <<z>>)[2] = y /\ (<<x, y>> \o <<z>>)[3] = z
  BY <1>1, ConcatProperties
<1>3. /\ <<x, y, z>> \in Seq(S) /\ Len(<<x, y, z>>) = 3
      /\ <<x, y, z>>[1] = x /\ <<x, y, z>>[2] = y /\ <<x, y, z>>[3] = z
  OBVIOUS
<1> DEFINE s == <<x, y>> \o <<z>>
           t == <<x, y, z>>
<1>4. s \in Seq(S) /\ t \in Seq(S) /\ Len(s) = 3 /\ Len(t) = 3 /\ \A i \in 1..3 : s[i] = t[i]
  BY <1>2, <1>3
<1> HIDE DEF s, t
<1>5. s = t
  BY <1>4, SeqEqual
<1> QED
  BY <1>5 DEF s, t

LEMMA PersistSeq ==
  ASSUME NEW a, NEW ks, NEW list
  PROVE  PersistUser(a, ks, list) =
            IF list = None
              THEN <<Write(Body(a), ks[Default]), Write(Sidecar(a), SidecarFor(a, ks))>>
              ELSE <<Write(Body(a), ks[Default]), Write(ACLPath(a), list),
                     Write(Sidecar(a), SidecarFor(a, ks))>>
<1>1. PutKeys(a, ks) = <<Write(Sidecar(a), SidecarFor(a, ks))>>
  BY DEF PutKeys, SidecarFor, RemoveFile, RemoveAll, Write
<1> DEFINE W == Write(Body(a), ks[Default])
           L == Write(ACLPath(a), list)
           S == Write(Sidecar(a), SidecarFor(a, ks))
<1>2. CASE list = None
  <2>1. PersistUser(a, ks, list) = (<<W>> \o <<>>) \o <<S>>
    BY <1>1, <1>2 DEF PersistUser, PutUser
  <2>2. <<W>> \o <<>> = <<W>>
    BY <<W>> \in Seq({W}), ConcatEmptySeq
  <2> HIDE DEF W, S
  <2>3. <<W>> \o <<S>> = <<W, S>>
    BY W \in {W, S}, S \in {W, S}, Pairs
  <2> QED
    BY <1>2, <2>1, <2>2, <2>3 DEF W, S
<1>3. CASE list # None
  <2>1. PersistUser(a, ks, list) = (<<W>> \o <<L>>) \o <<S>>
    BY <1>1, <1>3 DEF PersistUser, PutUser
  <2> HIDE DEF W, L, S
  <2>2. <<W>> \o <<L>> = <<W, L>>
    BY W \in {W, L}, L \in {W, L}, Pairs
  <2>3. <<W, L>> \o <<S>> = <<W, L, S>>
    BY W \in {W, L, S}, L \in {W, L, S}, S \in {W, L, S}, Triples
  <2> QED
    BY <1>3, <2>1, <2>2, <2>3 DEF W, L, S
<1> QED
  BY <1>2, <1>3

LEMMA ClientSeq ==
  ASSUME NEW c, NEW ks
  PROVE  PersistClient(c, ks) = PersistUser(c, ks, None)
<1>1. PutKeys(c, ks) = <<Write(Sidecar(c), SidecarFor(c, ks))>>
  BY DEF PutKeys, SidecarFor, RemoveFile, RemoveAll, Write
<1> QED
  BY <1>1, PersistSeq DEF PersistClient

\* Without another key the body tells all.
LEMMA PlainIs ==
  ASSUME NEW a, NEW ks \in KeySets, Plain(a, ks)
  PROVE  ks = Just(ks[Default])
<1>1. \A n \in Names : n # Default => ks[n] = NoKey
  BY DEF Plain, Set
<1>2. Just(ks[Default]) = [n \in Names |-> IF n = Default THEN ks[Default] ELSE NoKey]
  BY DEF Just, NoKeys
<1>3. ks = [n \in Names |-> ks[n]]
  BY DEF KeySets
<1>4. \A n \in Names : ks[n] = IF n = Default THEN ks[Default] ELSE NoKey
  BY <1>1
<1> QED
  BY <1>2, <1>3, <1>4

\* The operations are in order, and their contents fit.
LEMMA SaveOps ==
  ASSUME NEW a \in Actors, NEW ks \in KeySets, NEW list \in {None, DefaultACL, OtherACL},
         list # None => a \in Users, todo' = PersistUser(a, ks, list)
  PROVE  /\ TodoOK'
         /\ Touched(todo') = {Body(a), Sidecar(a)} \union (IF list = None THEN {} ELSE {ACLPath(a)})
         /\ Coming(Body(a))' = {ks[Default]}
         /\ Coming(Sidecar(a))' = {SidecarFor(a, ks)}
         /\ list # None => Coming(ACLPath(a))' = {list}
         /\ \A i \in DOMAIN todo' : Sidecar(a) \in todo'[i].at =>
               i = Len(todo') /\ todo'[i].at = {Sidecar(a)}
<1> DEFINE b == Write(Body(a), ks[Default])
           l == Write(ACLPath(a), list)
           s == Write(Sidecar(a), SidecarFor(a, ks))
<1>1. IF list = None THEN todo' = <<b, s>> ELSE todo' = <<b, l, s>>
  BY PersistSeq
<1>2. /\ b.at = {Body(a)} /\ b.holds = ks[Default]
      /\ l.at = {ACLPath(a)} /\ l.holds = list
      /\ s.at = {Sidecar(a)} /\ s.holds = SidecarFor(a, ks)
  BY DEF Write
<1>3. Body(a) \in Paths /\ Sidecar(a) \in Paths /\ (list # None => ACLPath(a) \in Paths)
  BY PathsKnown
<1>4. /\ Fits(Body(a), ks[Default]) /\ Fits(Sidecar(a), SidecarFor(a, ks))
      /\ list # None => Fits(ACLPath(a), list)
  BY PathsDiffer, JustIs DEF Fits, Contents, SidecarFor
<1>5. b \in Ops /\ s \in Ops /\ (list # None => l \in Ops)
  BY <1>3, <1>4 DEF Ops, Fits, Write
<1>6. \A p, c : Fits(p, c)' = Fits(p, c)
  BY DEF Fits
<1>7. Ops' = Ops
  BY DEF Ops
<1> HIDE DEF b, l, s
<1>8. CASE list = None
  <2>1. todo' = <<b, s>>
    BY <1>1, <1>8
  <2>2. Pending' = {b, s} /\ DOMAIN todo' = {1, 2} /\ Len(todo') = 2 /\ todo'[1] = b /\ todo'[2] = s
    BY <2>1 DEF Pending
  <2>3. todo' \in Seq(Ops)
    <3> HIDE DEF Ops
    <3> QED
      BY <1>5, <2>1
  <2>4. TodoOK'
    BY <1>2, <1>4, <1>6, <1>7, <2>2, <2>3, PathsDiffer DEF TodoOK
  <2>5. Touched(todo') = {Body(a), Sidecar(a)}
    BY <1>2, <2>2 DEF Touched
  <2>6. /\ Coming(Body(a))' = {b.holds} /\ Coming(Sidecar(a))' = {s.holds}
    BY <1>2, <2>2, <2>5, PathsDiffer DEF Coming, Touching
  <2> QED
    BY <1>2, <1>8, <2>2, <2>4, <2>5, <2>6, PathsDiffer
<1>9. CASE list # None
  <2>1. todo' = <<b, l, s>>
    BY <1>1, <1>9
  <2>2. /\ Pending' = {b, l, s} /\ DOMAIN todo' = {1, 2, 3} /\ Len(todo') = 3
        /\ todo'[1] = b /\ todo'[2] = l /\ todo'[3] = s
    BY <2>1 DEF Pending
  <2>3. todo' \in Seq(Ops)
    <3> HIDE DEF Ops
    <3> QED
      BY <1>5, <1>9, <2>1
  <2>4. TodoOK'
    BY <1>2, <1>4, <1>6, <1>7, <1>9, <2>2, <2>3, PathsDiffer DEF TodoOK
  <2>5. Touched(todo') = {Body(a), Sidecar(a), ACLPath(a)}
    BY <1>2, <2>2 DEF Touched
  <2>6. /\ Coming(Body(a))' = {b.holds} /\ Coming(Sidecar(a))' = {s.holds}
        /\ Coming(ACLPath(a))' = {l.holds}
    BY <1>2, <2>2, <2>5, PathsDiffer DEF Coming, Touching
  <2> QED
    BY <1>2, <1>9, <2>2, <2>4, <2>5, <2>6, PathsDiffer
<1> QED
  BY <1>8, <1>9

\* One key is changed, added or taken away, or all are made anew.
Changes(a, ks) ==
  keys[a] \in {None, ks} \/ ks = Just(ks[Default])
     \/ \E n \in Names, k \in Keys \union {NoKey} : ks = [keys[a] EXCEPT ![n] = k]

LEMMA SaveInv ==
  ASSUME IInv, Idle, NEW a \in Actors, NEW ks \in KeySets,
         NEW list \in {None, DefaultACL, OtherACL}, list # None => a \in Users,
         todo' = PersistUser(a, ks, list), Changes(a, ks),
         keys' = [keys EXCEPT ![a] = ks], before' = keys, disk' = disk, up' = up,
         stale \subseteq stale', stale' \subseteq stale \union {ACLPath(a)},
         stale' \subseteq Paths, MemoryOK',
         \A u \in Users \ {a} : acl'[u] = acl[u],
         list # None => acl'[a] = list,
         list = None /\ a \in Users /\ ACLPath(a) \notin stale' =>
            \/ acl'[a] = ListOf(disk[ACLPath(a)])
            \/ acl'[a] = DefaultACL /\ ListOf(disk[ACLPath(a)]) = None
  PROVE  IInv'
<1>1. /\ TodoOK'
      /\ Touched(todo') = {Body(a), Sidecar(a)} \union (IF list = None THEN {} ELSE {ACLPath(a)})
      /\ Coming(Body(a))' = {ks[Default]} /\ Coming(Sidecar(a))' = {SidecarFor(a, ks)}
      /\ list # None => Coming(ACLPath(a))' = {list}
      /\ \A i \in DOMAIN todo' : Sidecar(a) \in todo'[i].at =>
            i = Len(todo') /\ todo'[i].at = {Sidecar(a)}
  BY SaveOps
<1>2. keys \in [Actors -> KeySets \union {None}] /\ up
  BY AtRest DEF MemoryOK
<1>3. keys'[a] = ks /\ \A x \in Actors \ {a} : keys'[x] = keys[x]
  BY <1>2
<1>4. ks # None /\ ks \notin {Absent, Torn} /\ ks[Default] \notin {Absent, Torn}
  BY JustIs, MarksKnown
<1>5. KeysOf(ks[Default], SidecarFor(a, ks)) = ks
  BY <1>4, PlainIs DEF KeysOf, SidecarFor
<1>6. BodyTells(a)' /\ FilesTell(a)'
  BY <1>1, <1>3, <1>4, <1>5 DEF BodyTells, FilesTell
<1>7. Order(a)'
  BY <1>1, <1>3 DEF Order, Sure
<1>8. Halfway(a)'
  <2> SUFFICES ASSUME keys[a] # None, Sidecar(a) \notin stale PROVE Halfway(a)'
    BY DEF Halfway
  <2> DEFINE b == disk[Body(a)]
             s == disk[Sidecar(a)]
  <2>1. /\ b \in Keys \union {NoKey} /\ KeysOf(b, s) = keys[a]
        /\ s \in {Absent, Torn} => keys[a] = Just(b)
    BY Found
  <2>2. b \notin {Torn, Absent} /\ Just(b)[Default] = b
    BY <2>1, MarksKnown, JustIs
  <2>3. s = Absent => Just(ks[Default]) \in {keys[a], ks}
    <3> SUFFICES ASSUME s = Absent, ks # Just(ks[Default])
                 PROVE  Just(ks[Default]) = keys[a]
      OBVIOUS
    <3>1. keys[a] = Just(b) /\ ks # keys[a]
      BY <2>1, <2>2, JustIs
    <3> HIDE DEF b, s
    <3>2. PICK n \in Names, k \in Keys \union {NoKey} : ks = [Just(b) EXCEPT ![n] = k]
      BY <1>4, <3>1, JustIs, MarksKnown, <2>1 DEF Changes
    <3>3. \A x : [Just(b) EXCEPT ![Default] = x] = Just(x)
      BY DEF Just, NoKeys
    <3>4. Just(b) \in KeySets
      BY <2>1, JustIs
    <3>5. n # Default
      <4> SUFFICES ASSUME n = Default PROVE FALSE
        OBVIOUS
      <4>1. ks = Just(k)
        BY <3>2, <3>3
      <4> QED
        BY <4>1, JustIs
    <3>6. ks[Default] = b
      BY <2>2, <3>2, <3>4, <3>5, KeysAssumption DEF KeySets
    <3> QED
      BY <3>1, <3>6
  <2> QED
    BY <1>3, <2>1, <2>2, <2>3 DEF Halfway
<1>9. ASSUME NEW x \in Actors PROVE ActorOK(x)'
  <2>1. CASE x = a
    BY <1>6, <1>7, <1>8, <2>1 DEF ActorOK
  <2>2. CASE x # a
    <3>1. Body(x) \notin Touched(todo') /\ Sidecar(x) \notin Touched(todo')
      BY <1>1, <2>2, PathsDiffer
    <3>2. (Body(x) \in stale' <=> Body(x) \in stale) /\ (Sidecar(x) \in stale' <=> Sidecar(x) \in stale)
      BY PathsDiffer
    <3> QED
      BY <1>3, <2>2, <3>1, <3>2, Bystander
  <2> QED
    BY <2>1, <2>2
<1>10. ASSUME NEW u \in Users PROVE ACLTells(u)'
  <2>1. CASE u # a
    <3>1. u \in Actors /\ keys'[u] = keys[u]
      BY <1>3, <2>1 DEF Actors
    <3>2. ACLPath(u) \notin Touched(todo')
      BY <1>1, <2>1, PathsDiffer
    <3> QED
      BY <2>1, <3>1, <3>2, ACLBystander
  <2>2. CASE u = a /\ list # None
    <3>1. ListOf(list) = list
      BY <2>2, MarksKnown DEF ListOf
    <3> QED
      BY <1>1, <2>2, <3>1 DEF ACLTells
  <2>3. CASE u = a /\ list = None
    <3>1. ACLPath(a) \notin Touched(todo')
      BY <1>1, <2>3, PathsDiffer
    <3>2. Coming(ACLPath(a))' = {disk[ACLPath(a)]} /\ (Sure(ACLPath(a))' => ACLPath(a) \notin stale')
      BY <3>1 DEF Coming, Sure
    <3> QED
      BY <2>3, <3>2 DEF ACLTells
  <2> QED
    BY <2>1, <2>2, <2>3
<1>11. DiskOK' /\ StoreOK'
  BY <1>2, AtRest DEF DiskOK, Fits, Contents, StoreOK, IInv
<1> QED
  BY <1>1, <1>9, <1>10, <1>11 DEF IInv, Told

LEMMA OneOp ==
  ASSUME NEW op \in Ops, \A p \in op.at : Fits(p, op.holds), todo' = <<op>>
  PROVE  TodoOK' /\ Pending' = {op} /\ Touched(todo') = op.at
<1>1. DOMAIN todo' = {1} /\ todo'[1] = op /\ todo' \in Seq({op})
  OBVIOUS
<1>2. Pending' = {op} /\ Touched(todo') = op.at
  BY <1>1 DEF Pending, Touched
<1>3. todo' \in Seq(Ops)
  <2> HIDE DEF Ops
  <2> QED
    OBVIOUS
<1>4. Ops' = Ops /\ \A p, c : Fits(p, c)' = Fits(p, c)
  BY DEF Ops, Fits
<1> QED
  BY <1>2, <1>3, <1>4 DEF TodoOK

LEMMA TwoOps ==
  ASSUME NEW op \in Ops, \A p \in op.at : Fits(p, op.holds),
         NEW ip \in Ops, \A p \in ip.at : Fits(p, ip.holds),
         op.at \intersect ip.at = {}, todo' = <<op, ip>>
  PROVE  TodoOK' /\ Pending' = {op, ip} /\ Touched(todo') = op.at \union ip.at
<1>1. DOMAIN todo' = {1, 2} /\ todo'[1] = op /\ todo'[2] = ip
  OBVIOUS
<1>2. Pending' = {op, ip} /\ Touched(todo') = op.at \union ip.at
  BY <1>1 DEF Pending, Touched
<1>3. todo' \in Seq(Ops)
  <2> HIDE DEF Ops
  <2> QED
    OBVIOUS
<1>4. Ops' = Ops /\ \A p, c : Fits(p, c)' = Fits(p, c)
  BY DEF Ops, Fits
<1> QED
  BY <1>2, <1>3, <1>4 DEF TodoOK

LEMMA KeysTyped ==
  ASSUME IInv, Idle, NEW a \in Actors, NEW ks \in KeySets \union {None},
         keys' = [keys EXCEPT ![a] = ks], before' = keys,
         acl' \in [Users -> {DefaultACL, OtherACL, None}], org' \in BOOLEAN,
         doing' \in {"serving", "newOrg"}
  PROVE  MemoryOK'
<1>1. keys \in [Actors -> KeySets \union {None}]
  BY AtRest DEF MemoryOK
<1>2. keys' \in [Actors -> KeySets \union {None}]
  <2> HIDE DEF KeySets
  <2> QED
    BY <1>1
<1> QED
  BY <1>1, <1>2 DEF MemoryOK, KeySets, Keys

\* A change of keys that leaves the ACL as it is.
LEMMA KeysChange ==
  ASSUME IInv, Idle, NEW a \in Actors, NEW ks \in KeySets, Changes(a, ks),
         a \in Users => keys[a] # None,
         todo' = PersistUser(a, ks, IF a \in Users THEN acl[a] ELSE None),
         keys' = [keys EXCEPT ![a] = ks], before' = keys,
         UNCHANGED <<disk, up, stale, acl, org>>, doing' \in {"serving", "newOrg"}
  PROVE  IInv'
<1> DEFINE list == IF a \in Users THEN acl[a] ELSE None
<1>1. list \in {None, DefaultACL, OtherACL} /\ (list # None => a \in Users)
  BY AtRest DEF MemoryOK
<1>2. MemoryOK'
  BY KeysTyped, AtRest DEF MemoryOK
<1>3. list = None /\ a \in Users /\ ACLPath(a) \notin stale =>
         \/ acl[a] = ListOf(disk[ACLPath(a)])
         \/ acl[a] = DefaultACL /\ ListOf(disk[ACLPath(a)]) = None
  BY AtRest DEF ACLTells
<1>4. list # None => acl'[a] = list
  OBVIOUS
<1>5. todo' = PersistUser(a, ks, list) /\ stale' \subseteq Paths
  BY AtRest
<1> HIDE DEF list
<1> QED
  BY <1>1, <1>2, <1>3, <1>4, <1>5, SaveInv

LEMMA ChangesOne ==
  ASSUME IInv, Idle, NEW a \in Actors, keys[a] # None,
         NEW n \in Names, NEW k \in Keys \union {NoKey}
  PROVE  /\ [keys[a] EXCEPT ![n] = k] \in KeySets /\ Changes(a, [keys[a] EXCEPT ![n] = k])
         /\ keys[a] \in KeySets /\ Changes(a, keys[a])
<1>1. keys[a] \in KeySets
  BY AtRest DEF MemoryOK
<1> QED
  BY <1>1 DEF KeySets, Changes

\* What the handlers that change one actor's keys have in common.
SetsKeys(a, ks) ==
  /\ keys' = [keys EXCEPT ![a] = ks] /\ before' = keys
  /\ todo' = PersistUser(a, ks, IF a \in Users THEN acl[a] ELSE None)
  /\ UNCHANGED <<disk, up, stale, acl, org, doing>>

LEMMA KeyRequests ==
  ASSUME IInv, NEW a \in Actors, NEW n \in Names, NEW k \in CallerKeys \union {NoKey},
         \/ a \in Users /\ UserPut(a, k)
         \/ a \in Clients /\ ClientPut(a, k)
         \/ k # NoKey /\ KeyPost(a, n, k)
         \/ KeyPut(a, n, k)
         \/ KeyDelete(a, n)
  PROVE  IInv'
<1>1. Idle /\ keys[a] # None /\ doing = "serving"
  BY DEF UserPut, ClientPut, KeyPost, KeyPut, KeyDelete, Serving, ByAnyone
<1>2. \A c \in Clients : c \notin Users
  BY KeysAssumption
<1>3. Default \in Names /\ k \in Keys \union {NoKey} /\ NoKey \in Keys \union {NoKey}
      /\ \A m \in Names : keys[a][m] \in Keys \union {NoKey}
  <2>1. keys[a] \in KeySets
    BY <1>1, ChangesOne, KeysAssumption
  <2> QED
    BY <2>1, KeysAssumption DEF Keys, KeySets
<1>4. \E ks \in KeySets : Changes(a, ks) /\ SetsKeys(a, ks)
  <2>1. CASE a \in Users /\ UserPut(a, k)
    <3> DEFINE ks == IF k = NoKey THEN keys[a] ELSE [keys[a] EXCEPT ![Default] = k]
    <3>1. ks \in KeySets /\ Changes(a, ks)
      BY <1>1, <1>3, ChangesOne
    <3> HIDE DEF ks
    <3>2. SetKeysOf(a, ks, PersistUser(a, ks, acl[a])) /\ UNCHANGED <<acl, org, doing>>
      BY <2>1 DEF UserPut, ks
    <3> QED
      BY <2>1, <3>1, <3>2 DEF SetsKeys, SetKeysOf, StoreCall
  <2>2. CASE a \in Clients /\ ClientPut(a, k)
    <3> DEFINE ks == IF k = NoKey THEN keys[a] ELSE [keys[a] EXCEPT ![Default] = k]
    <3>1. ks \in KeySets /\ Changes(a, ks)
      BY <1>1, <1>3, ChangesOne
    <3> HIDE DEF ks
    <3>2. SetKeysOf(a, ks, PersistUser(a, ks, None)) /\ UNCHANGED <<acl, org, doing>>
      BY <2>2, ClientSeq DEF ClientPut, ks
    <3> QED
      BY <1>2, <2>2, <3>1, <3>2 DEF SetsKeys, SetKeysOf, StoreCall
  <2>3. ASSUME NEW x \in Keys \union {NoKey}, Save(a, [keys[a] EXCEPT ![n] = x]),
               UNCHANGED <<acl, org, doing>>
        PROVE  \E ks \in KeySets : Changes(a, ks) /\ SetsKeys(a, ks)
    <3> DEFINE ks == [keys[a] EXCEPT ![n] = x]
    <3>1. ks \in KeySets /\ Changes(a, ks)
      BY <1>1, <2>3, ChangesOne
    <3> HIDE DEF ks
    <3>2. SetKeysOf(a, ks, PersistUser(a, ks, IF a \in Users THEN acl[a] ELSE None))
      BY <2>3, ClientSeq DEF Save, ks
    <3> QED
      BY <2>3, <3>1, <3>2 DEF SetsKeys, SetKeysOf, StoreCall
  <2> QED
    BY <1>3, <2>1, <2>2, <2>3 DEF KeyPost, KeyPut, KeyDelete
<1> QED
  BY <1>1, <1>4, KeysChange DEF SetsKeys

\* A user is made; an ACL's file left by a predecessor is not looked at.
LEMMA UserPostInv ==
  ASSUME IInv, NEW u \in Users, NEW k \in CallerKeys \union {NoKey}, UserPost(u, k)
  PROVE  IInv'
<1>1. /\ Idle /\ doing = "serving" /\ keys[u] = None /\ u \in Actors /\ k \in Keys \union {NoKey}
      /\ keys' = [keys EXCEPT ![u] = Just(k)] /\ acl' = [acl EXCEPT ![u] = None]
      /\ before' = keys /\ todo' = PersistUser(u, Just(k), None)
      /\ stale' = stale \union Leftover({ACLPath(u)}) /\ UNCHANGED <<org, doing, disk, up>>
  BY DEF UserPost, BySuperuser, Serving, Actors, Keys
<1>2. Just(k) \in KeySets /\ Changes(u, Just(k))
  BY <1>1, JustIs DEF Changes
<1>3. acl \in [Users -> {DefaultACL, OtherACL, None}] /\ org \in BOOLEAN
  BY <1>1, AtRest DEF MemoryOK
<1>4. acl'[u] = None /\ (\A w \in Users \ {u} : acl'[w] = acl[w])
      /\ acl' \in [Users -> {DefaultACL, OtherACL, None}]
  BY <1>1, <1>3
<1>5. MemoryOK'
  BY <1>1, <1>2, <1>3, <1>4, KeysTyped
<1>6. stale \subseteq stale' /\ stale' \subseteq stale \union {ACLPath(u)} /\ stale' \subseteq Paths
  BY <1>1, AtRest, PathsKnown DEF Leftover
<1>7. ACLPath(u) \notin stale' => acl'[u] = ListOf(disk[ACLPath(u)])
  BY <1>1, <1>4 DEF Leftover, ListOf
<1> QED
  BY <1>1, <1>2, <1>4, <1>5, <1>6, <1>7, SaveInv

LEMMA UserPutACLInv ==
  ASSUME IInv, NEW u \in Users, UserPutACL(u, OtherACL)
  PROVE  IInv'
<1>1. /\ Idle /\ doing = "serving" /\ keys[u] # None /\ u \in Actors
      /\ keys' = [keys EXCEPT ![u] = keys[u]] /\ acl' = [acl EXCEPT ![u] = OtherACL]
      /\ before' = keys /\ todo' = PersistUser(u, keys[u], OtherACL)
      /\ UNCHANGED <<org, doing, disk, up, stale>>
  BY DEF UserPutACL, ByAnyone, Serving, Actors, SetKeysOf, StoreCall
<1>2. keys[u] \in KeySets /\ Changes(u, keys[u])
  BY <1>1, AtRest DEF MemoryOK, Changes
<1>3. acl \in [Users -> {DefaultACL, OtherACL, None}] /\ org \in BOOLEAN /\ stale \subseteq Paths
  BY <1>1, AtRest DEF MemoryOK
<1>4. acl'[u] = OtherACL /\ (\A w \in Users \ {u} : acl'[w] = acl[w])
      /\ acl' \in [Users -> {DefaultACL, OtherACL, None}]
  BY <1>1, <1>3
<1>5. MemoryOK'
  BY <1>1, <1>2, <1>3, <1>4, KeysTyped
<1>6. OtherACL # None
  BY MarksKnown
<1> QED
  BY <1>1, <1>2, <1>3, <1>4, <1>5, <1>6, SaveInv

\* Reading an ACL makes one, in memory only.
LEMMA UserGetACLInv ==
  ASSUME IInv, NEW u \in Users, UserGetACL(u)
  PROVE  IInv'
<1>1. /\ Idle /\ acl[u] = None /\ acl' = [acl EXCEPT ![u] = DefaultACL] /\ keys[u] # None
      /\ UNCHANGED <<keys, org, doing, before, disk, todo, up, stale>>
  BY DEF UserGetACL, ByAnyone, Serving, NoStoreCall, storeVars
<1>2. Touched(todo') = {} /\ MemoryOK /\ TodoOK /\ DiskOK /\ StoreOK
  BY <1>1, AtRest DEF IInv
<1>3. MemoryOK' /\ TodoOK' /\ DiskOK' /\ StoreOK'
  BY <1>1, <1>2 DEF MemoryOK, TodoOK, DiskOK, StoreOK, Fits, Ops, Contents, Pending
<1>4. ASSUME NEW a \in Actors PROVE ActorOK(a)'
  BY <1>1, <1>2, Bystander
<1>5. ASSUME NEW w \in Users PROVE ACLTells(w)'
  <2>1. CASE w # u
    BY <1>1, <1>2, <2>1, ACLBystander DEF MemoryOK
  <2>2. CASE w = u
    <3>1. Coming(ACLPath(u))' = {disk[ACLPath(u)]} /\ (Sure(ACLPath(u))' <=> ACLPath(u) \notin stale)
      BY <1>1, <1>2 DEF Coming, Sure
    <3>2. acl'[u] = DefaultACL
      BY <1>1, <1>2 DEF MemoryOK
    <3>3. ACLPath(u) \notin stale => ListOf(disk[ACLPath(u)]) = None
      BY <1>1, AtRest, MarksKnown DEF ACLTells
    <3> QED
      BY <2>2, <3>1, <3>2, <3>3 DEF ACLTells
  <2> QED
    BY <2>1, <2>2
<1> QED
  BY <1>3, <1>4, <1>5 DEF IInv, Told

\* A client comes with one key, a caller's own or an organisation's first.
LEMMA NewClientInv ==
  ASSUME IInv, NEW c \in Clients, NEW k \in CallerKeys \union {NoKey},
         ClientPost(c, k) \/ (c = Validator /\ CreateValidator(k))
  PROVE  IInv'
<1>1. /\ Idle /\ c \in Actors /\ c \notin Users /\ k \in Keys \union {NoKey}
      /\ keys' = [keys EXCEPT ![c] = Just(k)] /\ before' = keys
      /\ todo' = PersistUser(c, Just(k), None) /\ UNCHANGED <<disk, up, stale, acl, org>>
      /\ doing' = "serving"
  BY KeysAssumption, ClientSeq
     DEF ClientPost, CreateValidator, ByAnyone, Serving, Actors, Keys, SetKeysOf, StoreCall
<1>2. Just(k) \in KeySets /\ Changes(c, Just(k))
  BY <1>1, JustIs DEF Changes
<1> QED
  BY <1>1, <1>2, KeysChange

\* Somebody goes.  The sidecar stays, and without a body nobody reads it.
LEMMA DeleteInv ==
  ASSUME IInv, NEW a \in Actors,
         \/ a \in Users /\ UserDelete(a)
         \/ a \in Clients /\ ClientDelete(a)
  PROVE  IInv'
<1> DEFINE b == RemoveFile(Body(a))
           l == RemoveFile(ACLPath(a))
<1>1. /\ Idle /\ doing = "serving" /\ keys' = [keys EXCEPT ![a] = None] /\ before' = keys
      /\ UNCHANGED <<disk, up, stale, org, doing>>
      /\ \/ a \in Users /\ todo' = <<l, b>> /\ acl' = [acl EXCEPT ![a] = None]
         \/ a \in Clients /\ todo' = <<b>> /\ acl' = acl
  BY DEF UserDelete, ClientDelete, BySuperuser, ByAnyone, Serving, SetKeysOf, StoreCall, DeleteUser
<1>2. acl \in [Users -> {DefaultACL, OtherACL, None}] /\ org \in BOOLEAN
      /\ keys \in [Actors -> KeySets \union {None}]
  BY <1>1, AtRest DEF MemoryOK
<1>3. acl' \in [Users -> {DefaultACL, OtherACL, None}] /\ \A w \in Users \ {a} : acl'[w] = acl[w]
  BY <1>1, <1>2
<1>4. keys'[a] = None /\ \A x \in Actors \ {a} : keys'[x] = keys[x]
  BY <1>1, <1>2
<1>5. MemoryOK'
  BY <1>1, <1>2, <1>3, KeysTyped
<1>6. b.at = {Body(a)} /\ b.holds = Absent /\ l.at = {ACLPath(a)} /\ l.holds = Absent
  BY DEF RemoveFile, RemoveAll
<1>7. \A p : Fits(p, Absent)
  BY DEF Fits, Contents
<1>8. b \in Ops /\ (a \in Users => l \in Ops)
  BY <1>7, PathsKnown DEF Ops, RemoveFile, RemoveAll, Fits
<1> HIDE DEF b, l
<1>9. TodoOK' /\ b \in Pending' /\ Touched(todo') \subseteq {Body(a), ACLPath(a)}
  <2>1. CASE a \in Users /\ todo' = <<l, b>>
    BY <1>6, <1>7, <1>8, <2>1, TwoOps, PathsDiffer
  <2>2. CASE todo' = <<b>>
    BY <1>6, <1>7, <1>8, <2>2, OneOp
  <2> QED
    BY <1>1, <2>1, <2>2
<1>10. ASSUME NEW x \in Actors PROVE ActorOK(x)'
  <2>1. CASE x = a
    BY <1>4, <1>6, <1>9, <2>1, Gone
  <2>2. CASE x # a
    <3>1. Body(x) \notin Touched(todo') /\ Sidecar(x) \notin Touched(todo')
      BY <1>9, <2>2, PathsDiffer
    <3> QED
      BY <1>1, <1>4, <2>2, <3>1, Bystander
  <2> QED
    BY <2>1, <2>2
<1>11. ASSUME NEW u \in Users PROVE ACLTells(u)'
  <2>1. CASE u = a
    BY <1>4, <2>1 DEF ACLTells
  <2>2. CASE u # a
    <3>1. ACLPath(u) \notin Touched(todo') /\ keys'[u] = keys[u] /\ acl'[u] = acl[u]
      BY <1>3, <1>4, <1>9, <2>2, PathsDiffer DEF Actors
    <3> QED
      BY <1>1, <3>1, ACLBystander
  <2> QED
    BY <2>1, <2>2
<1>12. DiskOK' /\ StoreOK'
  BY <1>1, AtRest DEF DiskOK, Fits, Contents, StoreOK, IInv
<1> QED
  BY <1>5, <1>9, <1>10, <1>11, <1>12 DEF IInv, Told

LEMMA OrgPostInv == IInv /\ OrgPost => IInv'
<1> SUFFICES ASSUME IInv, OrgPost PROVE IInv'
  OBVIOUS
<1> DEFINE op == Write(OrgDir, Dir)
<1>1. /\ Idle /\ org' = TRUE /\ doing' = "newOrg" /\ before' = keys
      /\ todo' = <<op>> /\ UNCHANGED <<keys, acl, disk, up, stale>>
  BY DEF OrgPost, BySuperuser, Serving, StoreCall
<1>2. op \in Ops /\ op.at = {OrgDir} /\ Fits(OrgDir, op.holds)
  BY PathsKnown, PathsDiffer DEF Write, Ops, Contents, Fits
<1> HIDE DEF op
<1>3. TodoOK' /\ Touched(todo') = {OrgDir}
  BY <1>1, <1>2, OneOp
<1>4. MemoryOK'
  BY <1>1, AtRest DEF MemoryOK
<1>5. ASSUME NEW a \in Actors PROVE ActorOK(a)'
  BY <1>1, <1>3, Bystander, PathsDiffer
<1>6. ASSUME NEW u \in Users PROVE ACLTells(u)'
  BY <1>1, <1>3, ACLBystander, PathsDiffer
<1>7. DiskOK' /\ StoreOK'
  BY <1>1, AtRest DEF DiskOK, Fits, Contents, StoreOK, IInv
<1> QED
  BY <1>3, <1>4, <1>5, <1>6, <1>7 DEF IInv, Told

\* All the clients go with their organisation; users stay.
LEMMA OrgDeleteInv == IInv /\ OrgDelete => IInv'
<1> SUFFICES ASSUME IInv, OrgDelete PROVE IInv'
  OBVIOUS
<1> DEFINE op == RemoveAll(OrgFiles)
           ip == RemoveFile(OrgDir)
<1>1. /\ Idle /\ doing = "serving" /\ org' = FALSE /\ before' = keys
      /\ keys' = [a \in Actors |-> IF a \in Clients THEN None ELSE keys[a]]
      /\ todo' = <<op, ip>> /\ UNCHANGED <<acl, doing, disk, up, stale>>
  BY DEF OrgDelete, BySuperuser, Serving, StoreCall
<1>2. /\ op.at = OrgFiles /\ op.holds = Absent /\ ip.at = {OrgDir} /\ ip.holds = Absent
      /\ op \in Ops /\ ip \in Ops
  BY PathsKnown DEF RemoveAll, RemoveFile, Ops, Contents
<1>3. \A p : Fits(p, Absent)
  BY DEF Fits, Contents
<1> HIDE DEF op, ip
<1>4. OrgFiles \intersect {OrgDir} = {}
  <2>1. \A c : OrgDir # Body(c) /\ OrgDir # Sidecar(c)
    BY PathsDiffer
  <2> QED
    BY <2>1 DEF OrgFiles
<1>5. TodoOK' /\ op \in Pending' /\ Touched(todo') = OrgFiles \union {OrgDir}
  BY <1>1, <1>2, <1>3, <1>4, TwoOps
<1>6. keys \in [Actors -> KeySets \union {None}] /\ MemoryOK
  BY <1>1, AtRest DEF MemoryOK
<1>7. keys' \in [Actors -> KeySets \union {None}]
  <2> HIDE DEF KeySets
  <2> QED
    BY <1>1, <1>6
<1>8. MemoryOK'
  BY <1>1, <1>6, <1>7 DEF MemoryOK, KeySets, Keys
<1>9. ASSUME NEW a \in Actors PROVE ActorOK(a)'
  <2>1. CASE a \in Clients
    <3>1. keys'[a] = None /\ Body(a) \in op.at
      BY <1>1, <1>2, <2>1 DEF OrgFiles
    <3> QED
      BY <1>2, <1>5, <3>1, Gone
  <2>2. CASE a \notin Clients
    <3>1. keys'[a] = keys[a] /\ Body(a) \notin OrgFiles /\ Sidecar(a) \notin OrgFiles
      BY <1>1, <2>2, PathsDiffer DEF OrgFiles
    <3>2. Body(a) \notin Touched(todo') /\ Sidecar(a) \notin Touched(todo')
      BY <1>5, <3>1, PathsDiffer
    <3> QED
      BY <1>1, <3>1, <3>2, Bystander
  <2> QED
    BY <2>1, <2>2
<1>10. ASSUME NEW u \in Users PROVE ACLTells(u)'
  <2>1. ACLPath(u) \notin Touched(todo')
    BY <1>5, PathsDiffer DEF OrgFiles
  <2>2. keys'[u] # None => keys[u] # None
    BY <1>1 DEF Actors
  <2> QED
    BY <1>1, <2>1, <2>2, ACLBystander
<1>11. DiskOK' /\ StoreOK'
  BY <1>1, AtRest DEF DiskOK, Fits, Contents, StoreOK, IInv
<1> QED
  BY <1>5, <1>8, <1>9, <1>10, <1>11 DEF IInv, Told

LEMMA ListenInv == IInv /\ Listen => IInv'
<1> SUFFICES ASSUME IInv, Listen PROVE IInv'
  OBVIOUS
<1>1. Idle /\ doing' = "serving" /\ UNCHANGED <<keys, acl, org, before, disk, todo, up, stale>>
  BY DEF Listen, memory, storeVars
<1>2. Touched(todo') = {} /\ MemoryOK /\ TodoOK /\ DiskOK /\ StoreOK
  BY <1>1, AtRest DEF IInv
<1>3. MemoryOK' /\ TodoOK' /\ DiskOK' /\ StoreOK'
  BY <1>1, <1>2 DEF MemoryOK, TodoOK, DiskOK, StoreOK, Fits, Ops, Contents, Pending
<1>4. ASSUME NEW a \in Actors PROVE ActorOK(a)'
  BY <1>1, <1>2, Bystander
<1>5. ASSUME NEW u \in Users PROVE ACLTells(u)'
  BY <1>1, <1>2, ACLBystander
<1> QED
  BY <1>3, <1>4, <1>5 DEF IInv, Told

-----------------------------------------------------------------------------
(* The start, whose operations come from up to three parts.                *)

Parts(A) == {A[i] : i \in DOMAIN A}

LEMMA Joined ==
  ASSUME NEW A \in Seq(Ops), NEW B \in Seq(Ops)
  PROVE  A \o B \in Seq(Ops) /\ Parts(A \o B) = Parts(A) \union Parts(B)
<1> HIDE DEF Ops
<1>1. /\ A \o B \in Seq(Ops) /\ Len(A \o B) = Len(A) + Len(B)
      /\ \A i \in 1 .. Len(A) + Len(B) : (A \o B)[i] =
            IF i <= Len(A) THEN A[i] ELSE B[i - Len(A)]
  BY ConcatProperties
<1>2. /\ DOMAIN A = 1..Len(A) /\ DOMAIN B = 1..Len(B) /\ DOMAIN (A \o B) = 1..Len(A \o B)
      /\ Len(A) \in Nat /\ Len(B) \in Nat
  BY <1>1, LenProperties
<1> DEFINE C == A \o B
<1>3. \A i \in DOMAIN A : i \in DOMAIN C /\ C[i] = A[i]
  BY <1>1, <1>2
<1>4. \A i \in DOMAIN B : i + Len(A) \in DOMAIN C /\ C[i + Len(A)] = B[i]
  BY <1>1, <1>2
<1>5. \A i \in DOMAIN C : \/ i \in DOMAIN A /\ C[i] = A[i]
                          \/ i - Len(A) \in DOMAIN B /\ C[i] = B[i - Len(A)]
  BY <1>1, <1>2
<1> HIDE DEF C
<1>6. Parts(C) = Parts(A) \union Parts(B)
  BY <1>3, <1>4, <1>5 DEF Parts
<1> QED
  BY <1>1, <1>6 DEF C

\* What a start writes, if it writes it: bodies of the pivotal user and of
\* the validator, and files that nobody's keys or ACLs are read from.
LEMMA StartOps ==
  ASSUME NEW k \in StartKeys, NEW l \in StartKeys, NEW generate \in BOOLEAN, NEW create \in BOOLEAN,
         todo' = (IF generate THEN GeneratePivotal(k) ELSE <<>>)
                    \o (IF create THEN CreateOrg(l) ELSE <<>>)
                    \o (IF WithTLS THEN MakeCert ELSE <<>>)
  PROVE  /\ TodoOK'
         /\ generate => Coming(Body(Pivotal))' = {k} /\ Body(Pivotal) \in Touched(todo')
         /\ create => Coming(Body(Validator))' = {l} /\ Body(Validator) \in Touched(todo')
         /\ \A p \in Touched(todo') :
               \/ generate /\ p = Body(Pivotal)
               \/ create /\ p = Body(Validator)
               \/ p \in {OrgDir, PivotalPem, ValidatorPem, Crt, CrtKey}
<1> DEFINE b == Write(Body(Pivotal), k)
           bp == Write(PivotalPem, k)
           o == Write(OrgDir, Dir)
           v == Write(Body(Validator), l)
           vp == Write(ValidatorPem, l)
           t == Write(Crt, Intact)
           tk == Write(CrtKey, Intact)
           all == {b, bp, o, v, vp, t, tk}
           G == IF generate THEN <<b, bp>> ELSE <<>>
           C == IF create THEN <<o, v, vp>> ELSE <<>>
           T == IF WithTLS THEN MakeCert ELSE <<>>
<1>1. k \in Keys /\ l \in Keys /\ Pivotal \in Actors /\ Validator \in Actors /\ Pivotal # Validator
  BY KeysAssumption DEF Keys, Actors
<1>2. Body(Pivotal) # Body(Validator)
  BY <1>1, PathsDiffer
<1>3. /\ b.at = {Body(Pivotal)} /\ b.holds = k /\ bp.at = {PivotalPem} /\ bp.holds = k
      /\ o.at = {OrgDir} /\ o.holds = Dir
      /\ v.at = {Body(Validator)} /\ v.holds = l /\ vp.at = {ValidatorPem} /\ vp.holds = l
      /\ t.at = {Crt} /\ t.holds = Intact /\ tk.at = {CrtKey} /\ tk.holds = Intact
  BY DEF Write
<1>4. \A c \in Contents, p \in {OrgDir, PivotalPem, ValidatorPem, Crt, CrtKey} : Fits(p, c)
  BY PathsDiffer DEF Fits
<1>5. \A a \in Actors, c \in Keys : Fits(Body(a), c)
  BY PathsDiffer DEF Fits, Contents
<1>6. {k, l, Dir, Intact} \subseteq Contents
  BY <1>1 DEF Contents
<1>7. \A op \in all : \A p \in op.at : Fits(p, op.holds)
  BY <1>1, <1>3, <1>4, <1>5, <1>6
<1>8. all \subseteq Ops
  BY <1>1, <1>6, PathsKnown DEF Ops, Write
<1>9. \A op, ip \in all : \A p \in op.at \intersect ip.at : op.holds = ip.holds
  <2> DEFINE H(p) == IF p \in {Body(Pivotal), PivotalPem} THEN k
                     ELSE IF p \in {Body(Validator), ValidatorPem} THEN l
                     ELSE IF p = OrgDir THEN Dir ELSE Intact
  <2>1. /\ PivotalPem \notin {ValidatorPem, OrgDir, Crt, CrtKey}
        /\ ValidatorPem \notin {OrgDir, Crt, CrtKey} /\ OrgDir \notin {Crt, CrtKey}
    BY DEF OrgDir, PivotalPem, ValidatorPem, Crt, CrtKey
  <2>2. \A a : /\ Body(a) # PivotalPem /\ Body(a) # ValidatorPem /\ Body(a) # OrgDir
               /\ Body(a) # Crt /\ Body(a) # CrtKey
    BY PathsDiffer
  <2>3. \A op \in all : \A p \in op.at : op.holds = H(p)
    BY <1>2, <1>3, <2>1, <2>2
  <2> HIDE DEF H
  <2> QED
    BY <2>3
<1>10. GeneratePivotal(k) = <<b, bp>>
  <2>1. Just(k)[Default] = k
    BY <1>1, JustIs
  <2> HIDE DEF bp
  <2>2. PutUser(Pivotal, Just(k), None) = <<b>> \o <<>>
    BY <2>1 DEF PutUser
  <2> HIDE DEF b
  <2>3. <<b>> \o <<>> = <<b>>
    BY <<b>> \in Seq({b}), ConcatEmptySeq
  <2>4. <<b>> \o <<bp>> = <<b, bp>>
    BY b \in {b, bp}, bp \in {b, bp}, Pairs
  <2> QED
    BY <2>2, <2>3, <2>4 DEF GeneratePivotal, bp
<1> HIDE DEF b, bp, o, v, vp, t, tk, Ops
<1>11. G \in Seq(Ops) /\ Parts(G) = IF generate THEN {b, bp} ELSE {}
  BY <1>8 DEF Parts
<1>12. C \in Seq(Ops) /\ Parts(C) = IF create THEN {o, v, vp} ELSE {}
  BY <1>8 DEF Parts
<1>13. T \in Seq(Ops) /\ Parts(T) \subseteq {t, tk}
  <2>1. MakeCert = IF disk[Crt] = Absent THEN <<t, tk>> ELSE <<>>
    BY DEF MakeCert, t, tk
  <2> QED
    BY <1>8, <2>1 DEF Parts
<1>14. todo' = (G \o C) \o T
  BY <1>10 DEF CreateOrg, o, v, vp
<1> HIDE DEF G, C, T
<1>15. todo' \in Seq(Ops) /\ Parts(todo') = (Parts(G) \union Parts(C)) \union Parts(T)
  <2>1. G \o C \in Seq(Ops) /\ Parts(G \o C) = Parts(G) \union Parts(C)
    BY <1>11, <1>12, Joined
  <2> DEFINE GC == G \o C
  <2>2. GC \in Seq(Ops) /\ todo' = GC \o T
    BY <1>14, <2>1
  <2> HIDE DEF GC
  <2>3. todo' \in Seq(Ops) /\ Parts(todo') = Parts(GC) \union Parts(T)
    BY <1>13, <2>2, Joined
  <2> QED
    BY <2>1, <2>3 DEF GC
<1>16. Pending' = Parts(todo')
  BY DEF Pending, Parts
<1>17. /\ Pending' \subseteq all
       /\ b \in Pending' <=> generate
       /\ v \in Pending' <=> create
  <2>1. b # v /\ b \notin {bp, o, vp, t, tk} /\ v \notin {bp, o, vp, t, tk}
    BY <1>2, <1>3, PathsDiffer
  <2> QED
    BY <1>11, <1>12, <1>13, <1>15, <1>16, <2>1
<1> HIDE DEF all
<1>18. TodoOK'
  <2>1. Ops' = Ops /\ \A p, c : Fits(p, c)' = Fits(p, c)
    BY DEF Ops, Fits
  <2> QED
    BY <1>7, <1>9, <1>15, <1>17, <2>1 DEF TodoOK
<1>19. \A p : p \in Touched(todo') <=> \E op \in Pending' : p \in op.at
  BY DEF Touched, Pending
<1>20. generate => Coming(Body(Pivotal))' = {k} /\ Body(Pivotal) \in Touched(todo')
  <2> SUFFICES ASSUME generate PROVE Coming(Body(Pivotal))' = {k} /\ Body(Pivotal) \in Touched(todo')
    OBVIOUS
  <2>1. b \in Pending' /\ Body(Pivotal) \in Touched(todo')
    BY <1>3, <1>17, <1>19
  <2>2. \A op \in Pending' : Body(Pivotal) \in op.at => op.holds = k
    BY <1>3, <1>18, <2>1 DEF TodoOK
  <2>3. Coming(Body(Pivotal))' = {op.holds : op \in {op \in Pending' : Body(Pivotal) \in op.at}}
    BY <2>1 DEF Coming, Touching
  <2> QED
    BY <1>3, <2>1, <2>2, <2>3
<1>21. create => Coming(Body(Validator))' = {l} /\ Body(Validator) \in Touched(todo')
  <2> SUFFICES ASSUME create PROVE Coming(Body(Validator))' = {l} /\ Body(Validator) \in Touched(todo')
    OBVIOUS
  <2>1. v \in Pending' /\ Body(Validator) \in Touched(todo')
    BY <1>3, <1>17, <1>19
  <2>2. \A op \in Pending' : Body(Validator) \in op.at => op.holds = l
    BY <1>3, <1>18, <2>1 DEF TodoOK
  <2>3. Coming(Body(Validator))' = {op.holds : op \in {op \in Pending' : Body(Validator) \in op.at}}
    BY <2>1 DEF Coming, Touching
  <2> QED
    BY <1>3, <2>1, <2>2, <2>3
<1>22. ASSUME NEW p \in Touched(todo')
       PROVE  \/ generate /\ p = Body(Pivotal)
              \/ create /\ p = Body(Validator)
              \/ p \in {OrgDir, PivotalPem, ValidatorPem, Crt, CrtKey}
  BY <1>3, <1>17, <1>19 DEF all
<1> QED
  BY <1>18, <1>20, <1>21, <1>22

LEMMA StartInv ==
  ASSUME IInv, NEW k \in StartKeys, NEW l \in StartKeys, Start(k, l)
  PROVE  IInv'
<1> DEFINE loaded == [a \in Actors |-> KeysIn(disk, a)]
           generate == loaded[Pivotal] = None
           create == WithOrg /\ ~OrgIn(disk)
<1>1. /\ \A a \in Actors : disk[Body(a)] # Torn
      /\ up' = TRUE /\ doing' = "starting" /\ org' = (create \/ OrgIn(disk))
      /\ keys' = [a \in Actors |->
            IF a = Pivotal /\ generate THEN Just(k)
            ELSE IF a = Validator /\ create THEN Just(l) ELSE loaded[a]]
      /\ before' = loaded
      /\ acl' = [u \in Users |-> ACLIn(disk, u)]
      /\ stale' = IF generate THEN Leftover({Sidecar(Pivotal), ACLPath(Pivotal)}) ELSE {}
      /\ todo' = (IF generate THEN GeneratePivotal(k) ELSE <<>>)
                    \o (IF create THEN CreateOrg(l) ELSE <<>>)
                    \o (IF WithTLS THEN MakeCert ELSE <<>>)
      /\ disk' = disk /\ DiskOK
  BY DEF Start, Loadable, IInv
<1>2. /\ k \in Keys /\ l \in Keys /\ Just(k) \in KeySets /\ Just(l) \in KeySets
      /\ Just(k)[Default] = k /\ Just(l)[Default] = l
      /\ {k, l} \intersect {Absent, Torn} = {} /\ None \notin {Just(k), Just(l)}
      /\ Pivotal \in Actors /\ Pivotal \in Users /\ Validator \in Actors /\ Pivotal # Validator
      /\ Validator \in Clients /\ \A u \in Users : u # Validator /\ u \in Actors
  BY KeysAssumption, JustIs, MarksKnown DEF Keys, Actors
<1>3. \A a \in Actors : /\ loaded[a] = KeysOf(disk[Body(a)], disk[Sidecar(a)])
                        /\ disk[Body(a)] \in Keys \union {NoKey, Absent}
                        /\ disk[Sidecar(a)] \in KeySets \union {Absent, Torn}
  <2>1. \A a \in Actors : disk[Body(a)] \in Keys \union {NoKey, Absent}
                          /\ disk[Sidecar(a)] \in KeySets \union {Absent, Torn}
    BY <1>1, PathsKnown DEF DiskOK, Fits
  <2> QED
    BY <2>1 DEF KeysIn, KeysOf, Just
\* What is read of somebody is nothing at all without a body, else keys.
<1>4. ASSUME NEW a \in Actors
      PROVE  /\ loaded[a] \in KeySets \union {None} /\ (loaded[a] = None <=> disk[Body(a)] = Absent)
             /\ disk[Sidecar(a)] = Torn /\ disk[Body(a)] # Absent => loaded[a][Default] = disk[Body(a)]
  BY <1>3, JustIs, MarksKnown DEF KeysOf
<1>5. \A a \in Actors : keys'[a] = IF a = Pivotal /\ generate THEN Just(k)
                                   ELSE IF a = Validator /\ create THEN Just(l) ELSE loaded[a]
  BY <1>1
<1>6. before' = loaded /\ loaded \in [Actors -> KeySets \union {None}]
  <2> HIDE DEF KeySets
  <2> QED
    BY <1>1, <1>4
<1> HIDE DEF loaded
<1>7. WithOrg \in BOOLEAN /\ OrgIn(disk) \in BOOLEAN
  BY KeysAssumption DEF OrgIn
<1>8. generate \in BOOLEAN /\ create \in BOOLEAN
  BY <1>7
<1>9. create => disk[Body(Validator)] = Absent /\ disk[Sidecar(Validator)] = Absent
  BY <1>2 DEF OrgIn, OrgFiles
<1> HIDE DEF generate, create
<1>10. /\ TodoOK'
       /\ generate => Coming(Body(Pivotal))' = {k} /\ Body(Pivotal) \in Touched(todo')
       /\ create => Coming(Body(Validator))' = {l} /\ Body(Validator) \in Touched(todo')
       /\ \A p \in Touched(todo') :
             \/ generate /\ p = Body(Pivotal)
             \/ create /\ p = Body(Validator)
             \/ p \in {OrgDir, PivotalPem, ValidatorPem, Crt, CrtKey}
  BY <1>1, <1>8, StartOps
<1>11. \A a \in Actors : ACLPath(a) \notin Touched(todo') /\ Sidecar(a) \notin Touched(todo')
  BY <1>10, PathsDiffer
<1>12. MemoryOK'
  <2>1. keys' \in [Actors -> KeySets \union {None}]
    <3> HIDE DEF KeySets
    <3> QED
      BY <1>1, <1>2, <1>4
  <2>2. \A u \in Users : ACLIn(disk, u) \in {DefaultACL, OtherACL, None}
    BY <1>1, PathsKnown DEF ACLIn, DiskOK, Fits
  <2>3. org' \in BOOLEAN
    BY <1>1, <1>7, <1>8
  <2> QED
    BY <1>1, <1>6, <2>1, <2>2, <2>3 DEF MemoryOK, KeySets, Keys
<1>13. StoreOK' /\ DiskOK'
  <2>1. stale' \subseteq Paths
    BY <1>1, <1>2, PathsKnown DEF Leftover
  <2> QED
    BY <1>1, <2>1 DEF StoreOK, DiskOK, Fits, Contents
<1>14. ASSUME NEW a \in Actors PROVE ActorOK(a)'
  <2>1. Body(a) \notin stale' /\ (Sidecar(a) \in stale' => generate /\ a = Pivotal)
    BY <1>1, PathsDiffer DEF Leftover
  <2>2. Coming(Sidecar(a))' = {disk[Sidecar(a)]} /\ (Sure(Sidecar(a))' <=> Sidecar(a) \notin stale')
    BY <1>1, <1>11 DEF Coming, Sure
  <2>3. \A i \in DOMAIN todo' : Sidecar(a) \notin todo'[i].at
    BY <1>11 DEF Touched
  <2>4. ASSUME NEW x \in Keys, keys'[a] = Just(x), before'[a] = None, Coming(Body(a))' = {x},
               Sidecar(a) \notin stale' => disk[Sidecar(a)] = Absent,
               Just(x)[Default] = x, x \notin {Absent, Torn}, Just(x) # None
        PROVE  ActorOK(a)'
    <3>1. BodyTells(a)' /\ FilesTell(a)'
      BY <2>2, <2>4 DEF BodyTells, FilesTell, KeysOf
    <3>2. Order(a)' /\ Halfway(a)'
      BY <1>1, <1>11, <2>1, <2>3, <2>4 DEF Order, Halfway, Sure
    <3> QED
      BY <3>1, <3>2 DEF ActorOK
  <2>5. CASE a = Pivotal /\ generate
    <3>1. Sidecar(a) \notin stale' => disk[Sidecar(a)] = Absent
      BY <1>1, <2>5 DEF Leftover
    <3>2. before'[a] = None
      BY <1>6, <2>5 DEF generate
    <3> QED
      BY <1>2, <1>5, <1>10, <2>4, <2>5, <3>1, <3>2
  <2>6. CASE a = Validator /\ create
    <3>1. before'[a] = None
      BY <1>4, <1>6, <1>9, <2>6
    <3> QED
      BY <1>2, <1>5, <1>9, <1>10, <2>4, <2>6, <3>1
  <2>7. CASE ~(a = Pivotal /\ generate) /\ ~(a = Validator /\ create)
    <3>1. keys'[a] = loaded[a] /\ before'[a] = loaded[a] /\ Sidecar(a) \notin stale'
      BY <1>5, <1>6, <2>1, <2>7
    <3>2. Body(a) \notin Touched(todo')
      BY <1>10, <2>7, PathsDiffer
    <3>3. Coming(Body(a))' = {disk[Body(a)]}
      BY <1>1, <3>2 DEF Coming
    <3>4. BodyTells(a)' /\ FilesTell(a)'
      BY <1>1, <1>3, <1>4, <2>2, <3>1, <3>3 DEF BodyTells, FilesTell
    <3>5. Order(a)'
      BY <1>11, <2>1, <2>3, <3>2 DEF Order
    <3>6. Halfway(a)'
      BY <1>1, <1>3, <1>4, <3>1, <3>2 DEF Halfway
    <3> QED
      BY <3>4, <3>5, <3>6 DEF ActorOK
  <2> QED
    BY <2>5, <2>6, <2>7
<1>15. ASSUME NEW u \in Users PROVE ACLTells(u)'
  <2>1. u \in Actors /\ u # Validator
    BY <1>2
  <2>2. Coming(ACLPath(u))' = {disk[ACLPath(u)]} /\ (Sure(ACLPath(u))' <=> ACLPath(u) \notin stale')
    BY <1>1, <1>11, <2>1 DEF Coming, Sure
  <2>3. acl'[u] = ACLIn(disk, u)
    BY <1>1
  <2>4. CASE u = Pivotal /\ generate
    <3>1. disk[Body(u)] = Absent
      BY <1>4, <2>1, <2>4 DEF generate
    <3>2. ACLPath(u) \notin stale' => disk[ACLPath(u)] = Absent
      BY <1>1, <2>4 DEF Leftover
    <3> QED
      BY <2>2, <2>3, <3>1, <3>2 DEF ACLTells, ACLIn, ListOf
  <2>5. CASE ~(u = Pivotal /\ generate)
    <3>1. keys'[u] # None => disk[Body(u)] # Absent
      BY <1>4, <1>5, <2>1, <2>5
    <3> QED
      BY <2>2, <2>3, <3>1 DEF ACLTells, ACLIn, ListOf
  <2> QED
    BY <2>4, <2>5
<1> QED
  BY <1>1, <1>10, <1>12, <1>13, <1>14, <1>15 DEF IInv, Told

LEMMA NextInv == IInv /\ [Next]_vars => IInv'
<1> SUFFICES ASSUME IInv, [Next]_vars PROVE IInv'
  OBVIOUS
<1>1. CASE \E u \in Users, k \in CallerKeys \union {NoKey} : UserPost(u, k)
  BY <1>1, UserPostInv
<1>2. CASE \/ \E u \in Users, k \in CallerKeys \union {NoKey} : UserPut(u, k)
           \/ \E c \in Clients, k \in CallerKeys \union {NoKey} : ClientPut(c, k)
  BY <1>2, KeyRequests, KeysAssumption DEF Actors
<1>3. CASE (\E u \in Users : UserDelete(u)) \/ (\E c \in Clients : ClientDelete(c))
  BY <1>3, DeleteInv DEF Actors
<1>4. CASE \E u \in Guarded : UserGetACL(u) \/ UserPutACL(u, OtherACL)
  BY <1>4, UserGetACLInv, UserPutACLInv, KeysAssumption
<1>5. CASE \/ \E c \in Clients, k \in CallerKeys \union {NoKey} : ClientPost(c, k)
           \/ \E k \in CallerKeys : CreateValidator(k)
  BY <1>5, NewClientInv, KeysAssumption
<1>6. CASE \/ \E a \in Managed, n \in Names, k \in CallerKeys : KeyPost(a, n, k)
           \/ \E a \in Managed, n \in Names, k \in CallerKeys \union {NoKey} : KeyPut(a, n, k)
           \/ \E a \in Managed, n \in Names : KeyDelete(a, n)
  <2>1. Managed \subseteq Actors /\ \A k \in CallerKeys : k # NoKey
    BY KeysAssumption DEF Keys
  <2> QED
    BY <1>6, <2>1, KeyRequests
<1>7. CASE OrgPost \/ OrgDelete
  BY <1>7, OrgPostInv, OrgDeleteInv
<1>8. CASE \E k, l \in StartKeys : Start(k, l)
  BY <1>8, StartInv
<1>9. CASE Listen
  BY <1>9, ListenInv
<1>10. CASE Persist
  BY <1>10, PersistInv
<1>11. CASE Fault
  BY <1>11, FaultInv
<1>12. CASE Crash
  BY <1>12, CrashInv
<1>13. CASE \E u \in Users : ACLStays(u)
  BY <1>13, ACLStaysInv
<1>14. CASE UNCHANGED vars
  <2>1. UNCHANGED <<keys, acl, org, doing, before, disk, todo, up, stale>>
    BY <1>14 DEF vars, memory, storeVars
  <2>2. /\ Touched(todo)' = Touched(todo) /\ Pending' = Pending
        /\ \A p : Coming(p)' = Coming(p) /\ Sure(p)' = Sure(p)
    BY <2>1 DEF Touched, Pending, Coming, Touching, Sure
  <2>3. MemoryOK' /\ DiskOK' /\ TodoOK' /\ StoreOK'
    BY <2>1, <2>2 DEF IInv, MemoryOK, DiskOK, TodoOK, StoreOK, Ops, Contents, Fits
  <2>4. \A a : ActorOK(a)' = ActorOK(a)
    BY <2>1, <2>2 DEF ActorOK, BodyTells, FilesTell, Order, Halfway
  <2>5. \A u : ACLTells(u)' = ACLTells(u)
    BY <2>1, <2>2 DEF ACLTells
  <2> QED
    BY <2>1, <2>3, <2>4, <2>5 DEF IInv, Told
<1> QED
  BY <1>1, <1>2, <1>3, <1>4, <1>5, <1>6, <1>7, <1>8, <1>9, <1>10, <1>11, <1>12, <1>13, <1>14
     DEF Next, Request

-----------------------------------------------------------------------------
(* Theorems.                                                               *)

\* In every reachable state the files, when the handler is done, tell the
\* keys that are in memory, and halfway the keys from before or after.
THEOREM Invariance == Spec => []IInv
<1> QED
  BY InitInv, NextInv, PTL DEF Spec

\* Memory, store and files always have their types.
THEOREM TypeCorrect == Spec => []TypeOK
<1>1. IInv => TypeOK
  <2> SUFFICES ASSUME IInv PROVE TypeOK
    OBVIOUS
  <2>1. todo \in Seq([at : SUBSET Paths,
                     holds : KeySets \union Keys
                        \union {NoKey, Absent, Dir, DefaultACL, OtherACL, Intact}])
    BY DEF IInv, TodoOK, Ops, Contents
  <2>2. disk \in [Paths -> KeySets \union Keys
                    \union {NoKey, Absent, Torn, Dir, DefaultACL, OtherACL, Intact}]
    <3>1. Contents \union {Torn} = KeySets \union Keys
             \union {NoKey, Absent, Torn, Dir, DefaultACL, OtherACL, Intact}
      BY DEF Contents
    <3> QED
      BY <3>1 DEF IInv, DiskOK
  <2> QED
    BY <2>1, <2>2 DEF IInv, MemoryOK, StoreOK, TypeOK
<1> QED
  BY <1>1, Invariance, PTL

\* Whatever the order of requests, faults and restarts, a start finds the
\* keys and the ACLs that were being served.
THEOREM KeysDurable == Spec => []KeysAreOnDisk
<1>1. IInv => KeysAreOnDisk
  <2> SUFFICES ASSUME IInv, Idle PROVE KeysAreOnDisk!2
    BY DEF KeysAreOnDisk
  <2>1. ASSUME NEW a \in Actors, InStep(a) PROVE keys[a] = KeysIn(disk, a)
    <3>1. KeysOf(disk[Body(a)], disk[Sidecar(a)]) = keys[a]
      BY <2>1, AtRest DEF InStep, ActorOK, FilesTell
    <3> QED
      BY <3>1 DEF KeysOf, KeysIn, Just
  <2>2. ASSUME NEW u \in Users, keys[u] # None, {Body(u), ACLPath(u)} \intersect stale = {}
        PROVE  acl[u] = ACLIn(disk, u) \/ (acl[u] = DefaultACL /\ ACLIn(disk, u) = None)
    <3>1. disk[Body(u)] # Absent
      BY <2>2, AtRest DEF ActorOK, BodyTells, Actors
    <3>2. \/ acl[u] = ListOf(disk[ACLPath(u)])
          \/ acl[u] = DefaultACL /\ ListOf(disk[ACLPath(u)]) = None
      BY <2>2, AtRest DEF ACLTells
    <3> QED
      BY <3>1, <3>2 DEF ACLIn, ListOf
  <2> QED
    BY <2>1, <2>2
<1> QED
  BY <1>1, Invariance, PTL

\* A crash anywhere in a change, even in the middle of a file, leaves the keys
\* from before or after it.
THEOREM CrashSafe == Spec => CrashKeepsKeys
<1> DEFINE Kept ==
      \A a \in Actors :
         LET found == KeysIn(disk', a)
             whole == {before[a], keys[a]}
         IN  InStep(a) /\ None \notin whole /\ disk'[Body(a)] # Torn =>
               IF disk'[Sidecar(a)] = Torn
                 THEN found[Default] \in {ks[Default] : ks \in whole}
                 ELSE found \in whole
<1>1. IInv /\ Crash => Kept
  <2> SUFFICES ASSUME IInv, Crash, NEW a \in Actors, InStep(a),
                      None \notin {before[a], keys[a]}, disk'[Body(a)] # Torn
               PROVE  IF disk'[Sidecar(a)] = Torn
                        THEN KeysIn(disk', a)[Default] \in {ks[Default] : ks \in {before[a], keys[a]}}
                        ELSE KeysIn(disk', a) \in {before[a], keys[a]}
    OBVIOUS
  <2> QED
    BY CrashKeeps
<1>2. IInv /\ [Next]_vars => [Crash => Kept]_vars
  BY <1>1
<1> QED
  BY <1>2, Invariance, PTL DEF Spec, CrashKeepsKeys
=============================================================================
