------------------------- MODULE OrgObjects_proofs --------------------------
(***************************************************************************)
(* That memory and directory agree in OrgObjects, for any objects, bags,   *)
(* bodies and permissions.  The invariant looks at a path in two ways: if  *)
(* the handler has still to write it, what it will write is what memory    *)
(* says; if not, and no error was answered, what is there is.  For a start *)
(* to find no item without its bag the operations must also come in the    *)
(* right order: InTurn says that each fits the directory its predecessors  *)
(* leave.  A file in leftover counts as one in stale; for a start to find  *)
(* no other ACL without its object, Settled says the same of a directory   *)
(* that no process runs over.  At the end, that the organisation           *)
(* implements DurableMap.                                                  *)
(***************************************************************************)
EXTENDS OrgObjects, SequenceTheorems, TLAPS

\* A path's content says what memory says of its object or ACL; where there
\* is no object there is no file of its ACL.
Agrees(p, content) ==
    IF p[1] = "object" THEN (IF content # Absent THEN content ELSE NewOrg(p[2])) = objects[p[2]]
    ELSE /\ Effective(IF content # Absent THEN content ELSE None) = Effective(acls[p[2]])
         /\ objects[p[2]] = None => content = Absent

KeptACL == (WithACL \intersect Kept) \ Containers
Followed == {ObjectPath(x) : x \in Kept} \union {ACLPath(x) : x \in KeptACL}

Right(p) == \A k \in DOMAIN todo : p \in todo[k].at => Agrees(p, todo[k].holds)
Covered(p) == p \in stale \union leftover \/ \E k \in DOMAIN todo : p \in todo[k].at

PathOnDisk(p) == Right(p) /\ (Covered(p) \/ Agrees(p, disk[p]))

OnDisk == up => \A p \in Followed : PathOnDisk(p)

Settled ==
    ~up => \A x \in KeptACL :
              LoadedObject(x) = None /\ ACLPath(x) \notin leftover => disk[ACLPath(x)] = Absent

\* Every path holds something of its own kind, an item is not without its
\* bag, and nothing is there under a name that SafeName rejects.
DiskOK(d) ==
    /\ d \in [Paths -> Stored \union ACLs \union {Absent, Torn}]
    /\ \A x \in Objects : d[ObjectPath(x)] \in Stored \union {Absent, Torn}
    /\ \A x \in WithACL : d[ACLPath(x)] \in ACLs \union {Absent, Torn}
    /\ \A b \in Bags : d[ObjectPath(b)] \in {Absent, Dir}
    /\ \A i \in Items : d[ObjectPath(i)] # Absent => d[ObjectPath(BagOf[i])] # Absent
    /\ \A x \in Unsafe : /\ d[ObjectPath(x)] = Absent
                         /\ x \in WithACL => d[ACLPath(x)] = Absent

Operations == [at : SUBSET Paths, holds : Stored \union ACLs \union {Absent}]

\* An operation that keeps DiskOK, also when it is cut short.
Fits(op, d) ==
    /\ op \in Operations
    /\ \A x \in Objects : ObjectPath(x) \in op.at =>
         /\ op.holds \in Stored \union {Absent}
         /\ x \in Bags => op.holds \in {Absent, Dir}
         /\ x \in Unsafe => op.holds = Absent
    /\ \A x \in WithACL : ACLPath(x) \in op.at =>
         /\ op.holds \in ACLs \union {Absent}
         /\ x \in Unsafe => op.holds = Absent
    /\ \A i \in Items :
         /\ ObjectPath(i) \in op.at /\ op.holds # Absent => d[ObjectPath(BagOf[i])] # Absent
         /\ ObjectPath(BagOf[i]) \in op.at /\ op.holds = Absent => d[ObjectPath(i)] = Absent

InTurn ==
    /\ todo \in Seq(Operations) /\ Len(todo) <= 3
    /\ Len(todo) >= 1 => Fits(todo[1], disk)
    /\ Len(todo) >= 2 => Fits(todo[2], Apply(todo[1], disk))
    /\ Len(todo) >= 3 => Fits(todo[3], Apply(todo[2], Apply(todo[1], disk)))

MemoryOK ==
    /\ objects \in [Objects -> Stored \union {None}]
    /\ acls \in [WithACL -> ACLs \union {None}]
    /\ \A b \in Bags : objects[b] \in {None, Dir}
    /\ \A i \in Items : objects[i] # None => objects[BagOf[i]] # None

StoreOK == /\ up \in BOOLEAN /\ stale \subseteq Paths /\ leftover \subseteq ACLPaths
           /\ ~up => todo = <<>> /\ stale = {}

IInv == MemoryOK /\ DiskOK(disk) /\ InTurn /\ StoreOK /\ OnDisk /\ Settled

-----------------------------------------------------------------------------
(* Paths and operations.                                                   *)

LEMMA PathsDiffer ==
  /\ \A x, y : ObjectPath(x) = ObjectPath(y) => x = y
  /\ \A x, y : ACLPath(x) = ACLPath(y) => x = y
  /\ \A x, y : ObjectPath(x) # ACLPath(y)
  BY DEF ObjectPath, ACLPath

LEMMA PathsKnown ==
  /\ \A x \in Objects : ObjectPath(x) \in Paths
  /\ \A x \in WithACL : ACLPath(x) \in Paths
  BY DEF Paths, ACLPaths

LEMMA FollowedKnown == Followed \subseteq Paths
  BY PathsKnown, ObjectsAssumption DEF Followed, Kept, KeptACL

\* The kinds of objects do not overlap, and only newOrg's own come back.
LEMMA KindsDiffer ==
  /\ Bags \subseteq Objects /\ Items \subseteq Objects
  /\ \A i \in Items : BagOf[i] \in Bags /\ i \notin Bags
  /\ Bags \subseteq WithACL
  /\ \A x \in Bags \union Items : NewOrg(x) = None
  /\ \A x \in Kept : x # DefaultEnv => NewOrg(x) = None
  /\ Kept \subseteq Objects
  BY ObjectsAssumption DEF Objects, WithACL, NewOrg, Kept

LEMMA MarksKnown ==
  /\ Absent # Torn /\ Dir # Torn /\ Dir # Absent /\ None # Dir /\ None # Absent
  /\ None # Torn /\ OwnBody # None /\ Dir \in Stored /\ OwnBody \in Stored
  /\ Absent \notin Stored \union ACLs /\ Torn \notin Stored \union ACLs
  /\ None \notin Stored \union ACLs
  /\ DefaultACL \in ACLs
  BY ObjectsAssumption, MarksDiffer DEF Stored, ACLs, DefaultACL

\* An operation that fits leaves a directory in order, and so does any part
\* of it.
LEMMA FittingKeeps ==
  ASSUME NEW d, NEW op, NEW done, DiskOK(d), Fits(op, d), done \in SUBSET op.at
  PROVE  DiskOK(Apply(op, d)) /\ DiskOK(Apply(CutShort(op, done), d))
<1>1. ASSUME NEW cut, cut.at \in SUBSET op.at,
             \/ cut.holds = op.holds
             \/ cut.holds = Torn /\ op.holds \notin {Absent, Dir}
      PROVE  DiskOK(Apply(cut, d))
  <2> DEFINE e == Apply(cut, d)
  <2>1. /\ DOMAIN d = Paths
        /\ e = [p \in Paths |-> IF p \in cut.at THEN cut.holds ELSE d[p]]
    BY DEF DiskOK, Apply
  <2>2. e \in [Paths -> Stored \union ACLs \union {Absent, Torn}]
    BY <1>1, <2>1 DEF DiskOK, Fits, Operations
  <2>3. /\ \A x \in Objects : e[ObjectPath(x)] \in Stored \union {Absent, Torn}
        /\ \A x \in WithACL : e[ACLPath(x)] \in ACLs \union {Absent, Torn}
    BY <1>1, <2>1, PathsKnown DEF DiskOK, Fits
  <2>4. \A b \in Bags : e[ObjectPath(b)] \in {Absent, Dir}
    BY <1>1, <2>1, PathsKnown, KindsDiffer DEF DiskOK, Fits
  <2>5. ASSUME NEW i \in Items, e[ObjectPath(i)] # Absent
        PROVE  e[ObjectPath(BagOf[i])] # Absent
    BY <1>1, <2>1, <2>5, PathsKnown, KindsDiffer, MarksKnown DEF DiskOK, Fits
  <2>6. ASSUME NEW x \in Unsafe
        PROVE  /\ e[ObjectPath(x)] = Absent
               /\ x \in WithACL => e[ACLPath(x)] = Absent
    BY <1>1, <2>1, PathsKnown, ObjectsAssumption DEF DiskOK, Fits
  <2> QED
    BY <2>2, <2>3, <2>4, <2>5, <2>6 DEF DiskOK
<1>2. DiskOK(Apply(op, d))
  BY <1>1
<1>3. /\ CutShort(op, done).at = done
      /\ CutShort(op, done).holds = (IF op.holds \in {Absent, Dir} THEN op.holds ELSE Torn)
  BY DEF CutShort
<1>4. DiskOK(Apply(CutShort(op, done), d))
  BY <1>1, <1>3
<1> QED
  BY <1>2, <1>4

-----------------------------------------------------------------------------
(* The steps of the store.                                                 *)

LEMMA InitInv == Init => IInv
<1> SUFFICES ASSUME Init PROVE IInv
  OBVIOUS
<1>1. MemoryOK
  BY KindsDiffer, MarksKnown DEF Init, MemoryOK, NewOrg
<1>2. DiskOK(disk)
  BY PathsKnown, KindsDiffer, ObjectsAssumption DEF Init, DiskOK
<1>3. InTurn /\ StoreOK /\ Settled
  BY DEF Init, InTurn, StoreOK, Settled
<1>4. OnDisk
  <2>1. ASSUME NEW p \in Followed PROVE Agrees(p, Absent)
    <3>1. CASE \E x \in Kept : p = ObjectPath(x)
      BY <3>1, KindsDiffer DEF Init, Agrees, ObjectPath
    <3>2. CASE \E x \in KeptACL : p = ACLPath(x)
      BY <3>2 DEF Init, Agrees, ACLPath, KeptACL
    <3> QED
      BY <3>1, <3>2 DEF Followed
  <2> QED
    BY <2>1, FollowedKnown DEF Init, OnDisk, PathOnDisk, Right, Covered
<1> QED
  BY <1>1, <1>2, <1>3, <1>4 DEF IInv

LEMMA HeadFits ==
  ASSUME InTurn, todo # <<>>
  PROVE  /\ todo \in Seq(Operations) /\ Len(todo) \in 1..3
         /\ Head(todo) = todo[1] /\ todo[1] \in Operations /\ Fits(todo[1], disk)
<1>1. todo \in Seq(Operations) /\ Len(todo) <= 3
  BY DEF InTurn
<1>2. Len(todo) \in Nat /\ Len(todo) # 0
  BY <1>1, EmptySeq
<1>3. Len(todo) \in 1..3 /\ 1 \in 1..Len(todo)
  <2> DEFINE n == Len(todo)
  <2>1. n \in Nat /\ n # 0 /\ n <= 3
    BY <1>1, <1>2
  <2> HIDE DEF n
  <2>2. n \in 1..3 /\ 1 \in 1..n
    BY <2>1
  <2> QED
    BY <2>2 DEF n
<1>4. todo[1] \in Operations
  BY <1>1, <1>3, ElementOfSeq
<1>5. Head(todo) = todo[1]
  BY <1>1
<1>6. Fits(todo[1], disk)
  BY <1>3 DEF InTurn
<1> QED
  BY <1>1, <1>3, <1>4, <1>5, <1>6

LEMMA PersistInv == IInv /\ Persist => IInv'
<1> SUFFICES ASSUME IInv, Persist PROVE IInv'
  OBVIOUS
<1> DEFINE op == todo[1]
<1>1. /\ up /\ up' /\ UNCHANGED memory
      /\ todo \in Seq(Operations) /\ Len(todo) \in 1..3
      /\ Head(todo) = op /\ op \in Operations /\ Fits(op, disk)
  <2>1. up /\ up' /\ UNCHANGED memory /\ todo # <<>>
    BY DEF IInv, Persist, StoreStep
  <2> QED
    BY <2>1, HeadFits DEF IInv
<1>2. /\ todo' \in Seq(Operations)
      /\ Len(todo') = Len(todo) - 1
      /\ \A k \in 1..Len(todo') : todo'[k] = todo[k + 1]
  BY <1>1 DEF Persist, StoreStep
<1>3. disk' = Apply(op, disk) /\ stale' = stale \ op.at /\ leftover' = leftover \ op.at
  BY <1>1 DEF Persist, StoreStep
<1>4. DiskOK(disk')
  BY <1>1, <1>3, FittingKeeps DEF IInv
<1>5. InTurn'
  BY <1>1, <1>2, <1>3 DEF IInv, InTurn
<1>6. MemoryOK' /\ StoreOK' /\ Settled'
  BY <1>1, <1>3 DEF IInv, MemoryOK, StoreOK, Settled, memory
<1>7. OnDisk'
  <2>1. /\ DOMAIN todo = 1..Len(todo) /\ DOMAIN todo' = 1..Len(todo')
        /\ \A p \in Paths : disk'[p] = IF p \in op.at THEN op.holds ELSE disk[p]
    BY <1>1, <1>2, <1>3 DEF IInv, DiskOK, Apply
  <2>2. \A k \in DOMAIN todo : k = 1 \/ (k - 1 \in DOMAIN todo' /\ todo'[k - 1] = todo[k])
    BY <1>1, <1>2, <2>1
  <2>3. \A k \in DOMAIN todo' : k + 1 \in DOMAIN todo /\ todo'[k] = todo[k + 1]
    BY <1>1, <1>2, <2>1
  <2>4. 1 \in DOMAIN todo
    BY <1>1, <2>1
  <2>5. ASSUME NEW p \in Followed PROVE PathOnDisk(p)'
    <3>1. \A c : Agrees(p, c)' <=> Agrees(p, c)
      BY <1>1 DEF Agrees, memory
    <3>2. PathOnDisk(p) /\ p \in Paths
      BY <1>1, FollowedKnown DEF IInv, OnDisk
    <3>3. CASE p \in op.at
      BY <1>3, <2>1, <2>3, <2>4, <3>1, <3>2, <3>3 DEF PathOnDisk, Right, Covered
    <3>4. CASE p \notin op.at
      BY <1>3, <2>1, <2>2, <2>3, <2>4, <3>1, <3>2, <3>4 DEF PathOnDisk, Right, Covered
    <3> QED
      BY <3>3, <3>4
  <2> QED
    BY <1>1, <2>5 DEF OnDisk, Followed
<1> QED
  BY <1>4, <1>5, <1>6, <1>7 DEF IInv

\* An operation that was cut short, at any of its paths, and the directory.
LEMMA CutKeeps ==
  ASSUME IInv, todo # <<>>, NEW done \in SUBSET Head(todo).at,
         disk' = Apply(CutShort(Head(todo), done), disk)
  PROVE  /\ DiskOK(disk')
         /\ \A p \in Paths \ done : disk'[p] = disk[p]
         /\ done \subseteq Touched(todo) /\ Touched(todo) \subseteq Paths
<1>1. /\ todo \in Seq(Operations) /\ Len(todo) \in 1..3
      /\ Head(todo) = todo[1] /\ Fits(todo[1], disk)
  BY HeadFits DEF IInv
<1>2. DiskOK(disk')
  BY <1>1, FittingKeeps DEF IInv
<1>3. \A p \in Paths \ done : disk'[p] = disk[p]
  BY DEF IInv, DiskOK, Apply, CutShort
<1>4. done \subseteq Touched(todo)
  BY <1>1 DEF Touched
<1>5. Touched(todo) \subseteq Paths
  <2>1. ASSUME NEW k \in DOMAIN todo PROVE todo[k].at \subseteq Paths
    <3>1. k \in 1..Len(todo)
      BY <1>1, LenProperties
    <3>2. todo[k] \in Operations
      BY <1>1, <3>1, ElementOfSeq
    <3> QED
      BY <3>2 DEF Operations
  <2> QED
    BY <2>1 DEF Touched
<1> QED
  BY <1>2, <1>3, <1>4, <1>5

LEMMA FaultInv == IInv /\ Fault => IInv'
<1> SUFFICES ASSUME IInv, Fault PROVE IInv'
  OBVIOUS
<1>1. /\ up /\ up' /\ todo # <<>> /\ UNCHANGED <<memory, leftover>>
      /\ todo' = <<>> /\ stale' = stale \union Touched(todo)
  BY DEF IInv, StoreOK, Fault, StoreFaultOn
<1>2. PICK done \in SUBSET Head(todo).at : disk' = Apply(CutShort(Head(todo), done), disk)
  BY DEF Fault, StoreFaultOn
<1>3. /\ DiskOK(disk')
      /\ \A p \in Paths \ done : disk'[p] = disk[p]
      /\ done \subseteq Touched(todo) /\ Touched(todo) \subseteq Paths
  BY <1>1, <1>2, CutKeeps
<1>4. MemoryOK' /\ StoreOK' /\ InTurn' /\ Settled'
  BY <1>1, <1>3 DEF IInv, MemoryOK, StoreOK, InTurn, Settled, memory
<1>5. OnDisk'
  <2>1. ASSUME NEW p \in Followed PROVE PathOnDisk(p)'
    <3>1. p \in Paths /\ PathOnDisk(p)
      BY <1>1, FollowedKnown DEF IInv, OnDisk
    <3>2. CASE p \in Touched(todo)
      BY <1>1, <3>2 DEF PathOnDisk, Right, Covered
    <3>3. CASE p \notin Touched(todo)
      BY <1>1, <1>3, <3>1, <3>3 DEF PathOnDisk, Right, Covered, Touched, Agrees, memory
    <3> QED
      BY <3>2, <3>3
  <2> QED
    BY <2>1 DEF OnDisk, Followed
<1> QED
  BY <1>3, <1>4, <1>5 DEF IInv

\* An error that nobody sees: the file stays, and is in leftover.
LEMMA ACLStaysInv == IInv /\ ACLStays => IInv'
<1> SUFFICES ASSUME IInv, ACLStays PROVE IInv'
  OBVIOUS
<1> DEFINE op == todo[1]
<1>1. /\ up /\ up' /\ UNCHANGED <<memory, disk, stale>>
      /\ todo \in Seq(Operations) /\ Len(todo) \in 1..3 /\ op \in Operations
      /\ Head(todo) = op
      /\ leftover' = leftover \union {p \in op.at : disk[p] # Absent}
  <2>1. up /\ up' /\ UNCHANGED <<memory, disk, stale>> /\ todo # <<>>
    BY DEF IInv, ACLStays, StoreFaultIgnored
  <2> QED
    BY <2>1, HeadFits DEF IInv, ACLStays
<1>2. PICK x \in WithACL : op.at = {ACLPath(x)} /\ op.holds = Absent
  BY <1>1 DEF ACLStays, StoreFaultIgnored, ErrorIgnored, ACLPaths, RemoveFile, RemoveAll
<1>3. /\ todo' \in Seq(Operations)
      /\ Len(todo') = Len(todo) - 1
      /\ \A k \in 1..Len(todo') : todo'[k] = todo[k + 1]
  BY <1>1 DEF ACLStays, StoreFaultIgnored
<1>4. MemoryOK' /\ DiskOK(disk') /\ Settled'
  BY <1>1 DEF IInv, MemoryOK, Settled, memory
<1>5. StoreOK'
  BY <1>1, <1>2 DEF IInv, StoreOK, ACLPaths
<1>6. InTurn'
  <2> DEFINE d == Apply(op, disk)
  <2>1. \A q \in Operations : Fits(q, d) => Fits(q, disk)
    <3>1. \A y \in Objects : d[ObjectPath(y)] = disk[ObjectPath(y)]
      BY <1>2, PathsDiffer, PathsKnown DEF IInv, DiskOK, Apply
    <3> HIDE DEF d
    <3> QED
      BY <3>1, KindsDiffer DEF Fits
  <2>3. Len(todo) >= 2 => todo[2] \in Operations /\ Fits(todo[2], disk)
    BY <1>1, <2>1 DEF IInv, InTurn
  <2>4. ASSUME Len(todo) >= 3 PROVE Fits(todo[3], Apply(todo[2], disk))
    <3>1. todo[2] \in Operations /\ todo[3] \in Operations
      BY <1>1, <2>4
    <3>2. Fits(todo[3], Apply(todo[2], d))
      BY <2>4 DEF IInv, InTurn
    <3>3. \A y \in Objects : Apply(todo[2], d)[ObjectPath(y)] = Apply(todo[2], disk)[ObjectPath(y)]
      BY <1>2, PathsDiffer, PathsKnown DEF IInv, DiskOK, Apply
    <3> HIDE DEF d
    <3> QED
      BY <3>1, <3>2, <3>3, KindsDiffer DEF Fits
  <2> HIDE DEF d, op
  <2> QED
    BY <1>1, <1>3, <2>3, <2>4 DEF InTurn
<1>7. OnDisk'
  <2>1. DOMAIN todo = 1..Len(todo) /\ DOMAIN todo' = 1..Len(todo')
    BY <1>1, <1>3
  <2>2. \A k \in DOMAIN todo : k = 1 \/ (k - 1 \in DOMAIN todo' /\ todo'[k - 1] = todo[k])
    BY <1>1, <1>3, <2>1
  <2>3. \A k \in DOMAIN todo' : k + 1 \in DOMAIN todo /\ todo'[k] = todo[k + 1]
    BY <1>1, <1>3, <2>1
  <2>4. 1 \in DOMAIN todo
    BY <1>1, <2>1
  <2>5. ASSUME NEW p \in Followed PROVE PathOnDisk(p)'
    <3>1. \A c : Agrees(p, c)' <=> Agrees(p, c)
      BY <1>1 DEF Agrees, memory
    <3>2. PathOnDisk(p) /\ p \in Paths
      BY <1>1, FollowedKnown DEF IInv, OnDisk
    <3>3. Right(p)'
      BY <2>3, <3>1, <3>2 DEF PathOnDisk, Right
    <3>4. CASE p \in op.at
      <4>1. Agrees(p, Absent)
        BY <1>2, <2>4, <3>2, <3>4 DEF PathOnDisk, Right
      <4>2. p \in leftover' \/ disk[p] = Absent
        BY <1>1, <3>4
      <4> QED
        BY <1>1, <3>1, <3>3, <4>1, <4>2 DEF PathOnDisk, Covered
    <3>5. CASE p \notin op.at
      <4>1. Covered(p) => Covered(p)'
        BY <1>1, <2>2, <2>4, <3>5 DEF Covered
      <4> QED
        BY <1>1, <3>1, <3>2, <3>3, <4>1 DEF PathOnDisk
    <3> QED
      BY <3>4, <3>5
  <2> QED
    BY <1>1, <2>5 DEF OnDisk, Followed
<1> QED
  BY <1>4, <1>5, <1>6, <1>7 DEF IInv

LEMMA CrashInv == IInv /\ Crash => IInv'
<1> SUFFICES ASSUME IInv, Crash PROVE IInv'
  OBVIOUS
<1>1. MemoryOK'
  BY KindsDiffer DEF Crash, MemoryOK
<1>2. /\ up /\ todo' = <<>> /\ up' = FALSE /\ stale' = {}
      /\ leftover \subseteq leftover' /\ leftover' \subseteq leftover \union ACLPaths
  BY DEF Crash, ProcessDies, ACLPaths
<1>3. StoreOK' /\ InTurn' /\ OnDisk'
  <2>1. InTurn'
    BY <1>2 DEF InTurn
  <2> QED
    BY <1>2, <2>1 DEF IInv, StoreOK, OnDisk
<1>4. DiskOK(disk') /\ \A p \in Paths \ Touched(todo) : disk'[p] = disk[p]
  BY CutKeeps DEF IInv, Crash, ProcessDies
<1>5. Settled'
  <2> SUFFICES ASSUME NEW x \in KeptACL, LoadedObject(x)' = None, ACLPath(x) \notin leftover'
               PROVE  disk'[ACLPath(x)] = Absent
    BY DEF Settled
  <2>1. /\ x \in WithACL /\ x \in Kept /\ x \in Objects /\ x \notin Hidden
        /\ {ObjectPath(x), ACLPath(x)} \subseteq Followed
        /\ {ObjectPath(x), ACLPath(x)} \subseteq Paths
    BY KindsDiffer, PathsKnown DEF KeptACL, Kept, Followed
  <2>2. ~Unsettled(x)
    BY <2>1 DEF Crash
  <2>3. \A p \in {ObjectPath(x), ACLPath(x)} : disk'[p] = disk[p] /\ ~\E k \in DOMAIN todo : p \in todo[k].at
    BY <1>4, <2>1, <2>2 DEF Unsettled, Touched
  <2>4. ObjectPath(x) \notin leftover
    BY PathsDiffer DEF IInv, StoreOK, ACLPaths
  <2>5. ~Covered(ObjectPath(x)) /\ ~Covered(ACLPath(x))
    BY <1>2, <2>2, <2>3, <2>4 DEF Covered, Unsettled
  <2>6. Agrees(ObjectPath(x), disk[ObjectPath(x)]) /\ Agrees(ACLPath(x), disk[ACLPath(x)])
    BY <1>2, <2>1, <2>5 DEF IInv, OnDisk, PathOnDisk
  <2>7. LoadedObject(x)' = objects[x]
    BY <2>1, <2>3, <2>6 DEF Agrees, ObjectPath, LoadedObject, Listed
  <2> QED
    BY <2>3, <2>6, <2>7 DEF Agrees, ACLPath
<1> QED
  BY <1>1, <1>3, <1>4, <1>5 DEF IInv

LEMMA StartInv == IInv /\ Start => IInv'
<1> SUFFICES ASSUME IInv, Start PROVE IInv'
  OBVIOUS
<1>1. /\ ~up /\ up' /\ todo = <<>> /\ stale = {}
      /\ UNCHANGED <<disk, todo, stale, leftover>>
      /\ \A x \in Objects \ Hidden : disk[ObjectPath(x)] # Torn
      /\ \A x \in WithACL \ Hidden : disk[ACLPath(x)] # Torn
      /\ objects' = [x \in Objects |-> LoadedObject(x)]
      /\ acls' = [x \in WithACL |-> LoadedACL(x)]
  BY DEF IInv, StoreOK, Start, ProcessStarts, Loadable
<1>2. /\ \A x \in Objects \ Hidden : disk[ObjectPath(x)] \in Stored \union {Absent}
      /\ \A x \in WithACL \ Hidden : disk[ACLPath(x)] \in ACLs \union {Absent}
  BY <1>1, PathsKnown DEF IInv, DiskOK
<1>3. DiskOK(disk') /\ StoreOK' /\ InTurn' /\ Settled'
  BY <1>1 DEF IInv, StoreOK, InTurn, Settled
<1>4. MemoryOK'
  <2>1. objects' \in [Objects -> Stored \union {None}]
    BY <1>1, <1>2, MarksKnown DEF LoadedObject, Listed, NewOrg
  <2>2. acls' \in [WithACL -> ACLs \union {None}]
    BY <1>1, <1>2 DEF LoadedACL, Listed
  <2>3. \A b \in Bags : objects'[b] \in {None, Dir}
    BY <1>1, KindsDiffer DEF IInv, DiskOK, LoadedObject, Listed
  <2>4. ASSUME NEW i \in Items, objects'[i] # None PROVE objects'[BagOf[i]] # None
    <3>1. disk[ObjectPath(i)] # Absent /\ i \notin Hidden
      BY <1>1, <2>4, KindsDiffer DEF LoadedObject, Listed
    <3>2. disk[ObjectPath(BagOf[i])] # Absent /\ BagOf[i] \notin Hidden
      BY <3>1, ObjectsAssumption DEF IInv, DiskOK
    <3>3. objects'[BagOf[i]] = disk[ObjectPath(BagOf[i])]
      BY <1>1, <3>2, KindsDiffer DEF LoadedObject, Listed
    <3>4. disk[ObjectPath(BagOf[i])] = Dir
      BY <3>2, KindsDiffer DEF IInv, DiskOK
    <3> QED
      BY <3>3, <3>4, MarksKnown
  <2> QED
    BY <2>1, <2>2, <2>3, <2>4 DEF MemoryOK
<1>5. OnDisk'
  <2>1. ASSUME NEW p \in Followed PROVE p \in leftover' \/ Agrees(p, disk[p])'
    <3>1. CASE \E x \in Kept : p = ObjectPath(x)
      <4>1. PICK x \in Kept : p = ObjectPath(x)
        BY <3>1
      <4>2. x \in Objects /\ x \notin Hidden
        BY DEF Kept
      <4> QED
        BY <1>1, <4>1, <4>2 DEF Agrees, LoadedObject, Listed, ObjectPath
    <3>2. CASE \E x \in KeptACL : p = ACLPath(x)
      <4>1. PICK x \in KeptACL : p = ACLPath(x)
        BY <3>2
      <4>2. x \in WithACL /\ x \in Objects /\ x \notin Hidden
        BY KindsDiffer DEF KeptACL, Kept
      <4>3. objects'[x] = LoadedObject(x) /\ acls'[x] = LoadedACL(x)
        BY <1>1, <4>2
      <4>4. LoadedObject(x) = None => p \in leftover \/ disk[ACLPath(x)] = Absent
        BY <1>1, <4>1 DEF IInv, Settled
      <4> QED
        BY <1>1, <4>1, <4>2, <4>3, <4>4 DEF Agrees, LoadedACL, Listed, ACLPath
    <3> QED
      BY <3>1, <3>2 DEF Followed
  <2> QED
    BY <1>1, <2>1 DEF OnDisk, PathOnDisk, Right, Covered, Followed
<1> QED
  BY <1>3, <1>4, <1>5 DEF IInv

-----------------------------------------------------------------------------
(* The handlers, by the store call they make.                              *)

\* A handler begins with nothing left to write: what memory says of a path
\* is on disk, or the client was told otherwise.  Afterwards it is the same
\* for the paths about which memory is unchanged.
LEMMA HandlerInv ==
  ASSUME IInv, Idle, UNCHANGED <<disk, up, leftover>>, stale \subseteq stale', stale' \subseteq Paths,
         MemoryOK', InTurn',
         \A p \in Followed :
            /\ Right(p)'
            /\ \/ Covered(p)'
               \/ \A c : Agrees(p, c) => Agrees(p, c)'
               \/ Agrees(p, disk[p])'
  PROVE  IInv'
<1>1. ASSUME NEW p \in Followed PROVE PathOnDisk(p)'
  <2>1. p \in stale \union leftover \/ Agrees(p, disk[p])
    BY DEF IInv, OnDisk, PathOnDisk, Covered, Idle
  <2>2. p \in (stale \union leftover)' => Covered(p)'
    BY DEF Covered
  <2>3. disk'[p] = disk[p]
    OBVIOUS
  <2> QED
    BY <2>1, <2>2, <2>3 DEF PathOnDisk
<1>2. OnDisk'
  BY <1>1 DEF OnDisk, Followed
<1>3. StoreOK' /\ DiskOK(disk') /\ Settled'
  BY DEF IInv, StoreOK, Settled, Idle
<1> QED
  BY <1>2, <1>3 DEF IInv

\* What fits: a write where the bag is there, any write of an ACL, and a
\* removal that leaves no item behind.
LEMMA WriteFits ==
  ASSUME NEW d, NEW x \in Objects \ Unsafe, NEW body \in Stored,
         x \in Bags => body = Dir,
         x \in Items => d[ObjectPath(BagOf[x])] # Absent
  PROVE  Fits(Write(ObjectPath(x), body), d)
<1> DEFINE op == Write(ObjectPath(x), body)
<1>1. op.at = {ObjectPath(x)} /\ op.holds = body /\ op \in Operations
  BY PathsKnown DEF Write, Operations
<1> HIDE DEF op
<1>2. body # Absent
  BY MarksKnown
<1>3. Fits(op, d)
  BY <1>1, <1>2, PathsDiffer DEF Fits
<1> QED
  BY <1>3 DEF op

LEMMA WriteACLFits ==
  ASSUME NEW d, NEW x \in WithACL \ Unsafe, NEW acl \in ACLs
  PROVE  Fits(Write(ACLPath(x), acl), d)
<1> DEFINE op == Write(ACLPath(x), acl)
<1>1. op.at = {ACLPath(x)} /\ op.holds = acl /\ op \in Operations
  BY PathsKnown DEF Write, Operations
<1> HIDE DEF op
<1>2. Fits(op, d)
  BY <1>1, PathsDiffer DEF Fits
<1> QED
  BY <1>2 DEF op

LEMMA RemoveFits ==
  ASSUME NEW d, NEW S \in SUBSET Paths,
         \A i \in Items : ObjectPath(BagOf[i]) \in S => d[ObjectPath(i)] = Absent
  PROVE  Fits(RemoveAll(S), d)
<1>1. /\ RemoveAll(S).at = S /\ RemoveAll(S).holds = Absent
      /\ RemoveAll(S) \in Operations
  BY DEF RemoveAll, Operations
<1> QED
  BY <1>1 DEF Fits

\* Sequences of up to three operations in turn.
LEMMA NoneInTurn ==
  ASSUME todo' = <<>>
  PROVE  InTurn'
  BY DEF InTurn

LEMMA OneInTurn ==
  ASSUME NEW a, todo' = <<a>>, UNCHANGED disk, Fits(a, disk)
  PROVE  InTurn'
  BY DEF InTurn, Fits

LEMMA TwoInTurn ==
  ASSUME NEW a, NEW b, todo' = <<a, b>>, UNCHANGED disk,
         Fits(a, disk), Fits(b, Apply(a, disk))
  PROVE  InTurn'
<1>1. a \in Operations /\ b \in Operations
  BY DEF Fits
<1> QED
  BY <1>1 DEF InTurn

LEMMA ThreeInTurn ==
  ASSUME NEW a, NEW b, NEW c, todo' = <<a, b, c>>, UNCHANGED disk,
         Fits(a, disk), Fits(b, Apply(a, disk)), Fits(c, Apply(b, Apply(a, disk)))
  PROVE  InTurn'
<1>1. a \in Operations /\ b \in Operations /\ c \in Operations
  BY DEF Fits
<1>2. /\ todo' \in Seq(Operations) /\ Len(todo') = 3
      /\ todo'[1] = a /\ todo'[2] = b /\ todo'[3] = c
  BY <1>1
<1>3. Fits(a, disk') /\ Fits(b, Apply(a, disk')) /\ Fits(c, Apply(b, Apply(a, disk')))
  OBVIOUS
<1> QED
  BY <1>2, <1>3 DEF InTurn

\* The handlers that store an object.
LEMMA PutObjectInv ==
  ASSUME IInv, Idle, NEW x \in Objects, NEW body \in Stored, PutObject(x, body),
         objects' = [objects EXCEPT ![x] = body], UNCHANGED <<acls, leftover>>,
         x \in Bags => body = Dir,
         x \in Items => objects[BagOf[x]] # None
  PROVE  IInv'
<1>1. MemoryOK'
  BY KindsDiffer, MarksKnown DEF IInv, MemoryOK
<1>2. /\ objects'[x] = body /\ body # Absent /\ todo = <<>>
      /\ \A p \in Followed : p # ObjectPath(x) => \A c : Agrees(p, c) => Agrees(p, c)'
  <2>1. objects'[x] = body /\ body # Absent /\ todo = <<>>
    BY MarksKnown DEF IInv, MemoryOK, Idle
  <2>2. ASSUME NEW p \in Followed, p # ObjectPath(x), NEW c, Agrees(p, c)
        PROVE  Agrees(p, c)'
    <3>1. CASE \E y \in Kept : p = ObjectPath(y)
      <4>1. PICK y \in Kept : p = ObjectPath(y)
        BY <3>1
      <4>2. objects'[y] = objects[y]
        BY <2>2, <4>1, KindsDiffer DEF IInv, MemoryOK
      <4> QED
        BY <2>2, <4>1, <4>2 DEF Agrees, ObjectPath
    <3>2. CASE \E y \in KeptACL : p = ACLPath(y)
      <4>1. PICK y \in KeptACL : p = ACLPath(y)
        BY <3>2
      <4>2. objects'[y] = None => objects[y] = None
        BY KindsDiffer, MarksKnown DEF IInv, MemoryOK, KeptACL
      <4> QED
        BY <2>2, <4>1, <4>2 DEF Agrees, ACLPath
    <3> QED
      BY <3>1, <3>2 DEF Followed
  <2> QED
    BY <2>1, <2>2
<1>3. CASE x \in Unsafe \/ body \in Malformed
  <2>1. todo' = <<>> /\ stale' = stale \union {ObjectPath(x)} /\ UNCHANGED <<disk, up>>
    BY <1>3 DEF PutObject, StoreCall, StoreCallFails
  <2>2. ASSUME NEW p \in Followed
        PROVE  Right(p)' /\ (Covered(p)' \/ \A c : Agrees(p, c) => Agrees(p, c)')
    BY <1>2, <2>1 DEF Right, Covered
  <2>3. stale' \subseteq Paths
    BY <2>1, PathsKnown DEF IInv, StoreOK
  <2>4. InTurn'
    BY <2>1, NoneInTurn
  <2> QED
    BY <1>1, <2>1, <2>2, <2>3, <2>4, HandlerInv
<1>4. CASE x \notin Unsafe /\ body \notin Malformed /\ x \notin Items
  <2>1. todo' = << Write(ObjectPath(x), body) >> /\ UNCHANGED <<disk, up, stale>>
    BY <1>4 DEF PutObject, StoreCall
  <2>2. InTurn'
    BY <1>4, <2>1, WriteFits, OneInTurn
  <2>3. /\ DOMAIN todo' = {1} /\ todo'[1].at = {ObjectPath(x)} /\ todo'[1].holds = body
    BY <2>1 DEF Write
  <2>4. ASSUME NEW p \in Followed
        PROVE  Right(p)' /\ (Covered(p)' \/ \A c : Agrees(p, c) => Agrees(p, c)')
    BY <1>2, <2>3 DEF Right, Covered, Agrees, ObjectPath
  <2>5. stale' \subseteq Paths
    BY <2>1 DEF IInv, StoreOK
  <2> QED
    BY <1>1, <2>1, <2>2, <2>4, <2>5, HandlerInv
<1>5. CASE x \notin Unsafe /\ body \notin Malformed /\ x \in Items
  <2> DEFINE b == BagOf[x]
  <2>1. /\ todo' = << Write(ObjectPath(b), Dir), Write(ObjectPath(x), body) >>
        /\ UNCHANGED <<disk, up, stale>>
    BY <1>5 DEF PutObject, StoreCall
  <2>2. b \in Objects \ Unsafe /\ b \in Bags /\ b \notin Items /\ b # x
    BY <1>5, KindsDiffer, ObjectsAssumption
  <2>3. objects'[b] = Dir /\ objects[b] = Dir
    BY <1>5, <2>2 DEF IInv, MemoryOK
  <2>4. Fits(Write(ObjectPath(b), Dir), disk)
    BY <2>2, MarksKnown, WriteFits
  <2>5. Apply(Write(ObjectPath(b), Dir), disk)[ObjectPath(b)] # Absent
    BY <2>2, PathsKnown, MarksKnown DEF IInv, DiskOK, Apply, Write
  <2>6. Fits(Write(ObjectPath(x), body), Apply(Write(ObjectPath(b), Dir), disk))
    BY <1>5, <2>5, KindsDiffer, WriteFits
  <2>7. InTurn'
    BY <2>1, <2>4, <2>6, TwoInTurn
  <2>8. /\ DOMAIN todo' = {1, 2}
        /\ todo'[1].at = {ObjectPath(b)} /\ todo'[1].holds = Dir
        /\ todo'[2].at = {ObjectPath(x)} /\ todo'[2].holds = body
    BY <2>1 DEF Write
  <2>9. Agrees(ObjectPath(b), Dir)' /\ Agrees(ObjectPath(x), body)'
    BY <1>2, <2>3, MarksKnown DEF Agrees, ObjectPath
  <2>10. ASSUME NEW p \in Followed
         PROVE  Right(p)' /\ (Covered(p)' \/ \A c : Agrees(p, c) => Agrees(p, c)')
    BY <1>2, <2>8, <2>9 DEF Right, Covered
  <2>11. stale' \subseteq Paths
    BY <2>1 DEF IInv, StoreOK
  <2> QED
    BY <1>1, <2>1, <2>7, <2>10, <2>11, HandlerInv
<1> QED
  BY <1>3, <1>4, <1>5

\* The handlers that delete an object: a data bag takes its items with it.
LEMMA DeleteObjectInv ==
  ASSUME IInv, Idle, NEW x \in Objects \ {DefaultEnv}, DeleteObject(x),
         objects' = [y \in Objects |->
                       IF y = x \/ (x \in Bags /\ y \in ItemsOf(x)) THEN None ELSE objects[y]],
         acls' \in [WithACL -> ACLs \union {None}],
         \A y \in KeptACL : acls'[y] = IF y = x THEN None ELSE acls[y],
         UNCHANGED leftover
  PROVE  IInv'
<1> DEFINE inside == {ObjectPath(i) : i \in ItemsOf(x)}
           gone == {ObjectPath(x), ACLPath(x)} \union (IF x \in Bags THEN inside ELSE {})
<1>1. MemoryOK'
  BY KindsDiffer DEF IInv, MemoryOK, ItemsOf
<1>2. /\ \A p \in Followed \ gone : \A c : Agrees(p, c) <=> Agrees(p, c)'
      /\ \A p \in Followed \intersect gone : Agrees(p, Absent)'
  <2>1. ASSUME NEW p \in Followed
        PROVE  /\ p \notin gone => \A c : Agrees(p, c) <=> Agrees(p, c)'
               /\ p \in gone => Agrees(p, Absent)'
    <3>1. CASE \E y \in Kept : p = ObjectPath(y)
      <4>1. PICK y \in Kept : p = ObjectPath(y)
        BY <3>1
      <4>2. y \in Objects /\ (y # DefaultEnv => NewOrg(y) = None)
        BY KindsDiffer
      <4>3. p \notin gone => objects'[y] = objects[y]
        BY <4>1, <4>2
      <4>4. p \in gone => objects'[y] = None /\ y # DefaultEnv
        BY <4>1, <4>2, PathsDiffer, ObjectsAssumption DEF ItemsOf
      <4> QED
        BY <4>1, <4>2, <4>3, <4>4 DEF Agrees, ObjectPath
    <3>2. CASE \E y \in KeptACL : p = ACLPath(y)
      <4>1. PICK y \in KeptACL : p = ACLPath(y)
        BY <3>2
      <4>2. p \notin gone => acls'[y] = acls[y] /\ (objects'[y] = objects[y])
        BY <4>1, KindsDiffer DEF KeptACL, WithACL, ItemsOf, Kept
      <4>3. p \in gone => acls'[y] = None
        BY <4>1, PathsDiffer
      <4> QED
        BY <4>1, <4>2, <4>3 DEF Agrees, ACLPath
    <3> QED
      BY <3>1, <3>2 DEF Followed
  <2> QED
    BY <2>1
<1>3. inside \in SUBSET Paths /\ ObjectPath(x) \in Paths
  BY PathsKnown, KindsDiffer DEF ItemsOf
<1>4. stale' \subseteq Paths /\ UNCHANGED <<disk, up>> /\ stale \subseteq stale'
  BY <1>3 DEF IInv, StoreOK, DeleteObject, StoreCall, StoreCallFails
<1> SUFFICES /\ InTurn'
             /\ \A p \in Followed :
                  /\ Right(p)'
                  /\ \/ Covered(p)'
                     \/ \A c : Agrees(p, c) => Agrees(p, c)'
                     \/ Agrees(p, disk[p])'
  BY <1>1, <1>4, HandlerInv
<1>5. CASE x \in Unsafe
  <2>1. todo' = <<>> /\ stale' = stale \union {ObjectPath(x)}
    BY <1>5 DEF DeleteObject, StoreCall, StoreCallFails
  <2>2. InTurn'
    BY <2>1, NoneInTurn
  <2>3. ASSUME NEW p \in Followed, p \in gone
        PROVE  p = ObjectPath(x) \/ disk[p] = Absent
    <3>1. CASE p = ACLPath(x)
      <4>1. PICK y \in KeptACL : p = ACLPath(y)
        BY <2>3, <3>1, PathsDiffer DEF Followed
      <4>2. x \in WithACL
        BY <3>1, <4>1, PathsDiffer DEF KeptACL
      <4> QED
        BY <1>5, <3>1, <4>2 DEF IInv, DiskOK
    <3>2. CASE x \in Bags /\ p \in inside
      <4>1. PICK i \in Items : BagOf[i] = x /\ p = ObjectPath(i)
        BY <3>2 DEF ItemsOf
      <4>2. i \in Unsafe
        BY <1>5, <4>1, ObjectsAssumption
      <4> QED
        BY <4>1, <4>2 DEF IInv, DiskOK
    <3> QED
      BY <2>3, <3>1, <3>2
  <2>4. \A p \in Followed : Right(p)'
    BY <2>1 DEF Right
  <2>5. Covered(ObjectPath(x))'
    BY <2>1 DEF Covered
  <2> QED
    BY <1>2, <1>4, <2>2, <2>3, <2>4, <2>5
<1>6. CASE x \notin Unsafe /\ x \notin Bags
  <2>1. /\ \/ todo' = << RemoveFile(ObjectPath(x)) >> /\ x \in Items
           \/ /\ todo' = << RemoveFile(ObjectPath(x)), RemoveFile(ACLPath(x)) >>
              /\ x \in WithACL
        /\ UNCHANGED stale
    BY <1>6 DEF DeleteObject, StoreCall, WithACL
  <2>2. \A d : Fits(RemoveFile(ObjectPath(x)), d)
    <3>1. \A i \in Items : ObjectPath(BagOf[i]) # ObjectPath(x)
      BY <1>6, KindsDiffer, PathsDiffer
    <3> QED
      BY <3>1, <1>3, RemoveFits DEF RemoveFile
  <2>3. x \in WithACL => \A d : Fits(RemoveFile(ACLPath(x)), d)
    BY PathsKnown, PathsDiffer, RemoveFits DEF RemoveFile
  <2>4. InTurn'
    BY <1>4, <2>1, <2>2, <2>3, OneInTurn, TwoInTurn
  <2>5. /\ \A k \in DOMAIN todo' : todo'[k].at \subseteq gone /\ todo'[k].holds = Absent
        /\ \A p \in Followed \intersect gone : \E k \in DOMAIN todo' : p \in todo'[k].at
    <3>1. CASE todo' = << RemoveFile(ObjectPath(x)) >> /\ x \in Items
      <4>1. DOMAIN todo' = {1} /\ todo'[1] = [at |-> {ObjectPath(x)}, holds |-> Absent]
        BY <3>1 DEF RemoveFile, RemoveAll
      <4>2. ACLPath(x) \notin Followed
        BY <3>1, PathsDiffer, KindsDiffer DEF Followed, KeptACL, WithACL
      <4> QED
        BY <1>6, <4>1, <4>2
    <3>2. CASE todo' = << RemoveFile(ObjectPath(x)), RemoveFile(ACLPath(x)) >>
      <4>1. /\ DOMAIN todo' = {1, 2}
            /\ todo'[1] = [at |-> {ObjectPath(x)}, holds |-> Absent]
            /\ todo'[2] = [at |-> {ACLPath(x)}, holds |-> Absent]
        BY <3>2 DEF RemoveFile, RemoveAll
      <4> QED
        BY <1>6, <4>1
    <3> QED
      BY <2>1, <3>1, <3>2
  <2> HIDE DEF gone, inside
  <2>6. \A p \in Followed : Right(p)'
    <3>1. \A p \in Followed : (\E k \in DOMAIN todo' : p \in todo'[k].at) => Agrees(p, Absent)'
      BY <1>2, <2>5
    <3> QED
      BY <2>5, <3>1 DEF Right
  <2>7. \A p \in Followed \intersect gone : Covered(p)'
    BY <2>5 DEF Covered
  <2> QED
    BY <1>2, <2>4, <2>6, <2>7
<1>7. CASE x \notin Unsafe /\ x \in Bags
  <2> DEFINE a == RemoveAll(inside)
             b == RemoveFile(ObjectPath(x))
             c == RemoveFile(ACLPath(x))
  <2>1. todo' = << a, b, c >> /\ UNCHANGED stale
    BY <1>7, KindsDiffer DEF DeleteObject, StoreCall
  <2>2. Fits(a, disk)
    BY <1>3, KindsDiffer, PathsDiffer, RemoveFits DEF ItemsOf
  <2>3. Fits(b, Apply(a, disk))
    <3>1. ASSUME NEW i \in Items, ObjectPath(BagOf[i]) = ObjectPath(x)
          PROVE  Apply(a, disk)[ObjectPath(i)] = Absent
      BY <3>1, PathsDiffer, PathsKnown, KindsDiffer
      DEF IInv, DiskOK, Apply, RemoveAll, ItemsOf
    <3> QED
      BY <3>1, <1>3, RemoveFits DEF RemoveFile
  <2>4. \A d : Fits(c, d)
    BY <1>7, PathsKnown, PathsDiffer, KindsDiffer, RemoveFits DEF RemoveFile
  <2>5. InTurn'
    BY <1>4, <2>1, <2>2, <2>3, <2>4, ThreeInTurn
  <2>6. /\ DOMAIN todo' = {1, 2, 3}
        /\ todo'[1] = [at |-> inside, holds |-> Absent]
        /\ todo'[2] = [at |-> {ObjectPath(x)}, holds |-> Absent]
        /\ todo'[3] = [at |-> {ACLPath(x)}, holds |-> Absent]
    BY <2>1 DEF RemoveFile, RemoveAll
  <2>7. /\ \A k \in DOMAIN todo' : todo'[k].at \subseteq gone /\ todo'[k].holds = Absent
        /\ \A p \in gone : \E k \in DOMAIN todo' : p \in todo'[k].at
    BY <1>7, <2>6
  <2> HIDE DEF gone, inside, a, b, c
  <2>8. \A p \in Followed : Right(p)'
    <3>1. \A p \in Followed : (\E k \in DOMAIN todo' : p \in todo'[k].at) => Agrees(p, Absent)'
      BY <1>2, <2>7
    <3> QED
      BY <2>7, <3>1 DEF Right
  <2>9. \A p \in Followed \intersect gone : Covered(p)'
    BY <2>7 DEF Covered
  <2> QED
    BY <1>2, <2>5, <2>8, <2>9
<1> QED
  BY <1>5, <1>6, <1>7

\* Reading an ACL makes an entry that says what no entry says.
LEMMA GetACLInv ==
  ASSUME IInv, NEW x \in WithACL, GetACL(x), UNCHANGED leftover
  PROVE  IInv'
<1>1. /\ Idle /\ UNCHANGED <<disk, todo, up, stale, objects>>
      /\ acls' = [acls EXCEPT ![x] = Effective(@)]
  BY DEF GetACL, NoStoreCall, storeVars
<1>2. MemoryOK'
  BY <1>1, MarksKnown DEF IInv, MemoryOK, Effective
<1>3. InTurn' /\ stale' \subseteq Paths
  BY <1>1 DEF IInv, InTurn, StoreOK
<1>4. \A y \in WithACL : Effective(acls'[y]) = Effective(acls[y])
  BY <1>1, MarksKnown DEF IInv, MemoryOK, Effective
<1>5. ASSUME NEW p \in Followed PROVE Right(p)' /\ \A c : Agrees(p, c) => Agrees(p, c)'
  <2>1. Right(p)'
    BY <1>1 DEF Idle, Right
  <2>2. CASE \E y \in Kept : p = ObjectPath(y)
    BY <1>1, <2>1, <2>2 DEF Agrees, ObjectPath
  <2>3. CASE \E y \in KeptACL : p = ACLPath(y)
    BY <1>1, <1>4, <2>1, <2>3 DEF Agrees, ACLPath, KeptACL
  <2> QED
    BY <2>2, <2>3 DEF Followed
<1> QED
  BY <1>1, <1>2, <1>3, <1>5, HandlerInv

LEMMA PutPermInv ==
  ASSUME IInv, NEW x \in WithACL, NEW perm \in Perms, NEW grant \in Grants,
         PutPerm(x, perm, grant), UNCHANGED leftover
  PROVE  IInv'
<1>1. PICK acl \in ACLs : acl = [Effective(acls[x]) EXCEPT ![perm] = grant]
  BY MarksKnown DEF IInv, MemoryOK, Effective, ACLs
<1>2. /\ Idle /\ UNCHANGED <<disk, up, objects>> /\ stale \subseteq stale'
      /\ acls' = [acls EXCEPT ![x] = acl]
      /\ \/ /\ x \in Unsafe
            /\ todo' = <<>> /\ stale' = stale \union {ACLPath(x)}
         \/ /\ x \notin Unsafe
            /\ todo' = << Write(ACLPath(x), acl) >> /\ stale' = stale
  BY <1>1 DEF PutPerm, PutACL, StoreCall, StoreCallFails
<1>3. MemoryOK'
  BY <1>2 DEF IInv, MemoryOK
<1>4. stale' \subseteq Paths
  BY <1>2, PathsKnown DEF IInv, StoreOK
<1>5. InTurn'
  BY <1>2, NoneInTurn, OneInTurn, WriteACLFits
<1>6. ASSUME NEW p \in Followed, p # ACLPath(x)
      PROVE  \A c : Agrees(p, c) => Agrees(p, c)'
  <2>1. CASE \E y \in Kept : p = ObjectPath(y)
    BY <1>2, <2>1 DEF Agrees, ObjectPath
  <2>2. CASE \E y \in KeptACL : p = ACLPath(y)
    <3>1. PICK y \in KeptACL : p = ACLPath(y)
      BY <2>2
    <3>2. acls'[y] = acls[y]
      BY <1>2, <1>6, <3>1 DEF IInv, MemoryOK, KeptACL
    <3> QED
      BY <1>2, <3>1, <3>2 DEF Agrees, ACLPath
  <2> QED
    BY <2>1, <2>2 DEF Followed
<1>7. Agrees(ACLPath(x), acl)'
  <2>1. acls'[x] = acl /\ acl # Absent /\ objects'[x] # None
    BY <1>2, MarksKnown DEF IInv, MemoryOK, PutPerm
  <2> QED
    BY <2>1 DEF Agrees, ACLPath
<1>8. \A p \in Followed : Right(p)' /\ (p = ACLPath(x) => Covered(p)')
  <2>1. CASE todo' = <<>> /\ ACLPath(x) \in stale'
    BY <2>1 DEF Right, Covered
  <2>2. CASE todo' = << Write(ACLPath(x), acl) >>
    <3>1. DOMAIN todo' = {1} /\ todo'[1] = [at |-> {ACLPath(x)}, holds |-> acl]
      BY <2>2 DEF Write
    <3> QED
      BY <1>7, <3>1 DEF Right, Covered
  <2> QED
    BY <1>2, <2>1, <2>2
<1> QED
  BY <1>2, <1>3, <1>4, <1>5, <1>6, <1>8, HandlerInv

\* Every request, by the store call it makes.
LEMMA RequestInv == IInv /\ Request /\ UNCHANGED leftover => IInv'
<1> SUFFICES ASSUME IInv, Request, UNCHANGED leftover PROVE IInv'
  OBVIOUS
<1>1. ASSUME NEW x \in Crud, NEW body \in Bodies, CrudPost(x, body) \/ CrudPut(x, body)
      PROVE  IInv'
  BY <1>1, PutObjectInv, ObjectsAssumption DEF CrudPost, CrudPut, Objects, Stored
<1>2. ASSUME NEW x \in Crud, CrudDelete(x) PROVE IInv'
  <2>1. x \in Objects \ {DefaultEnv} /\ x \notin Bags
    BY <1>2, ObjectsAssumption DEF CrudDelete, Objects
  <2>2. /\ acls' \in [WithACL -> ACLs \union {None}]
        /\ \A y \in KeptACL : acls'[y] = IF y = x THEN None ELSE acls[y]
    BY <1>2 DEF CrudDelete, IInv, MemoryOK, KeptACL
  <2>3. objects' = [y \in Objects |->
                      IF y = x \/ (x \in Bags /\ y \in ItemsOf(x)) THEN None ELSE objects[y]]
    BY <1>2, <2>1 DEF CrudDelete, IInv, MemoryOK
  <2> QED
    BY <1>2, <2>1, <2>2, <2>3, DeleteObjectInv DEF CrudDelete
<1>3. ASSUME NEW c \in Containers, ContainerPost(c) PROVE IInv'
  BY <1>3, PutObjectInv, ObjectsAssumption, MarksKnown DEF ContainerPost, Objects
<1>4. ASSUME NEW c \in Containers, ContainerDelete(c) PROVE IInv'
  <2>1. c \in Objects \ {DefaultEnv} /\ c \notin Bags /\ c \notin KeptACL
    BY <1>4, ObjectsAssumption DEF Objects, KeptACL
  <2>2. objects' = [y \in Objects |->
                      IF y = c \/ (c \in Bags /\ y \in ItemsOf(c)) THEN None ELSE objects[y]]
    BY <1>4, <2>1 DEF ContainerDelete, IInv, MemoryOK
  <2>3. /\ acls' \in [WithACL -> ACLs \union {None}]
        /\ \A y \in KeptACL : acls'[y] = IF y = c THEN None ELSE acls[y]
    BY <1>4, <2>1 DEF ContainerDelete, IInv, MemoryOK
  <2> QED
    BY <1>4, <2>1, <2>2, <2>3, DeleteObjectInv DEF ContainerDelete
<1>5. ASSUME NEW b \in Bags, BagPost(b) PROVE IInv'
  BY <1>5, PutObjectInv, KindsDiffer, MarksKnown DEF BagPost
<1>6. ASSUME NEW b \in Bags, BagDelete(b) PROVE IInv'
  <2>1. b \in Objects \ {DefaultEnv}
    BY <1>6, ObjectsAssumption DEF Objects
  <2>2. /\ acls' \in [WithACL -> ACLs \union {None}]
        /\ \A y \in KeptACL : acls'[y] = IF y = b THEN None ELSE acls[y]
    BY <1>6 DEF BagDelete, IInv, MemoryOK, KeptACL
  <2>3. objects' = [y \in Objects |->
                      IF y = b \/ (b \in Bags /\ y \in ItemsOf(b)) THEN None ELSE objects[y]]
    BY <1>6 DEF BagDelete
  <2> QED
    BY <1>6, <2>1, <2>2, <2>3, DeleteObjectInv DEF BagDelete
<1>7. ASSUME NEW i \in Items, NEW body \in Bodies, ItemPost(i, body) PROVE IInv'
  BY <1>7, PutObjectInv, KindsDiffer DEF ItemPost, Stored
<1>8. ASSUME NEW i \in Items, NEW body \in Bodies \union Malformed, ItemPut(i, body)
      PROVE  IInv'
  <2>1. objects[BagOf[i]] # None
    BY <1>8 DEF ItemPut, IInv, MemoryOK
  <2> QED
    BY <1>8, <2>1, PutObjectInv, KindsDiffer DEF ItemPut, Stored
<1>9. ASSUME NEW i \in Items, ItemDelete(i) PROVE IInv'
  <2>1. i \in Objects \ {DefaultEnv} /\ i \notin Bags /\ i \notin KeptACL
    BY <1>9, KindsDiffer, ObjectsAssumption DEF KeptACL, WithACL
  <2>2. /\ acls' \in [WithACL -> ACLs \union {None}]
        /\ \A y \in KeptACL : acls'[y] = IF y = i THEN None ELSE acls[y]
    BY <1>9, <2>1 DEF ItemDelete, IInv, MemoryOK
  <2>3. objects' = [y \in Objects |->
                      IF y = i \/ (i \in Bags /\ y \in ItemsOf(i)) THEN None ELSE objects[y]]
    BY <1>9, <2>1 DEF ItemDelete, IInv, MemoryOK
  <2> QED
    BY <1>9, <2>1, <2>2, <2>3, DeleteObjectInv DEF ItemDelete
<1> QED
  BY <1>1, <1>2, <1>3, <1>4, <1>5, <1>6, <1>7, <1>8, <1>9, GetACLInv, PutPermInv,
     ObjectsAssumption
  DEF Request

LEMMA NextInv == IInv /\ [Next]_vars => IInv'
<1> SUFFICES ASSUME IInv, [Next]_vars PROVE IInv'
  OBVIOUS
<1>1. CASE Next
  BY <1>1, RequestInv, PersistInv, FaultInv, ACLStaysInv, CrashInv, StartInv DEF Next
<1>2. CASE UNCHANGED vars
  <2>1. MemoryOK' /\ DiskOK(disk') /\ InTurn' /\ StoreOK'
    BY <1>2 DEF vars, memory, storeVars, IInv, MemoryOK, InTurn, StoreOK
  <2>2. OnDisk'
    BY <1>2 DEF vars, memory, storeVars, IInv, OnDisk, PathOnDisk, Right, Covered, Agrees
  <2>3. Settled'
    BY <1>2 DEF vars, memory, storeVars, IInv, Settled, LoadedObject, Listed
  <2> QED
    BY <2>1, <2>2, <2>3 DEF IInv
<1> QED
  BY <1>1, <1>2

\* The inductive invariant holds in every reachable state.
THEOREM Invariant == Spec => []IInv
  BY InitInv, NextInv, PTL DEF Spec

-----------------------------------------------------------------------------
(* The properties.                                                         *)

\* Memory, directory and the operations under way are always of their types.
THEOREM TypeCorrect == Spec => []TypeOK
<1>1. IInv => TypeOK
  BY DEF IInv, TypeOK, MemoryOK, DiskOK, InTurn, StoreOK, Operations
<1> QED
  BY <1>1, Invariant, PTL

\* Whenever the server answers, a start from its directory would serve the
\* same objects as the server does, but for changes answered with an error.
THEOREM ObjectsDurable == Spec => []ObjectsAreOnDisk
<1>1. IInv => ObjectsAreOnDisk
  <2> SUFFICES ASSUME IInv, Idle, NEW x \in Kept, ObjectPath(x) \notin stale
               PROVE  LoadedObject(x) = objects[x]
    BY DEF ObjectsAreOnDisk
  <2>1. ObjectPath(x) \in Followed /\ x \notin Hidden
    BY DEF Followed, Kept
  <2>2. Agrees(ObjectPath(x), disk[ObjectPath(x)])
    <3>1. ObjectPath(x) \notin leftover
      BY PathsDiffer DEF IInv, StoreOK, ACLPaths
    <3> QED
      BY <2>1, <3>1 DEF IInv, OnDisk, PathOnDisk, Covered, Idle
  <2> QED
    BY <2>1, <2>2 DEF Agrees, ObjectPath, LoadedObject, Listed
<1> QED
  BY <1>1, Invariant, PTL

\* Whenever the server answers, a start would grant what the server grants,
\* and find no ACL of an object that is gone, but for changes answered with an
\* error and for the files whose removal was ignored or cut off by a crash.
THEOREM ACLsDurable == Spec => []ACLsAreOnDisk
<1>1. IInv => ACLsAreOnDisk
  <2> SUFFICES ASSUME IInv, Idle, NEW x \in KeptACL, ACLPath(x) \notin stale \union leftover
               PROVE  /\ Effective(LoadedACL(x)) = Effective(acls[x])
                      /\ objects[x] = None => LoadedACL(x) = None
    BY DEF ACLsAreOnDisk, KeptACL
  <2>1. ACLPath(x) \in Followed /\ x \notin Hidden
    BY DEF Followed, KeptACL, Kept
  <2>2. Agrees(ACLPath(x), disk[ACLPath(x)])
    BY <2>1 DEF IInv, OnDisk, PathOnDisk, Covered, Idle
  <2> QED
    BY <2>1, <2>2 DEF Agrees, ACLPath, LoadedACL, Listed
<1> QED
  BY <1>1, Invariant, PTL

\* Neither memory nor directory ever holds an item without its data bag,
\* whatever operation the process dies in.
THEOREM NoOrphans == Spec => []ItemsHaveBags
<1>1. IInv => ItemsHaveBags
  BY DEF IInv, MemoryOK, DiskOK, ItemsHaveBags
<1> QED
  BY <1>1, Invariant, PTL

-----------------------------------------------------------------------------
(* The organisation implements DurableMap.  The map says what becomes of   *)
(* each key; for that a handler may write a path only once, and it never   *)
(* removes the environment that newOrg would bring back.                   *)

Separate ==
    /\ \A j, k \in DOMAIN todo : todo[j].at \intersect todo[k].at # {} => j = k
    /\ \A j \in DOMAIN todo : ObjectPath(DefaultEnv) \in todo[j].at => todo[j].holds # Absent

MInv == IInv /\ Separate

LEMMA PutObjectSeparate ==
  ASSUME IInv, Idle, NEW x \in Objects, NEW body \in Stored, PutObject(x, body)
  PROVE  Separate'
<1>1. CASE x \in Unsafe \/ body \in Malformed
  BY <1>1 DEF PutObject, StoreCall, StoreCallFails, Separate
<1>2. CASE x \notin Unsafe /\ body \notin Malformed /\ x \notin Items
  <2>1. todo' = << Write(ObjectPath(x), body) >>
    BY <1>2 DEF PutObject, StoreCall
  <2>2. DOMAIN todo' = {1} /\ todo'[1].holds = body
    BY <2>1 DEF Write
  <2> QED
    BY <2>2, MarksKnown DEF Separate
<1>3. CASE x \notin Unsafe /\ body \notin Malformed /\ x \in Items
  <2>1. todo' = << Write(ObjectPath(BagOf[x]), Dir), Write(ObjectPath(x), body) >>
    BY <1>3 DEF PutObject, StoreCall
  <2>2. /\ DOMAIN todo' = {1, 2}
        /\ todo'[1].at = {ObjectPath(BagOf[x])} /\ todo'[1].holds = Dir
        /\ todo'[2].at = {ObjectPath(x)} /\ todo'[2].holds = body
    BY <2>1 DEF Write
  <2>3. BagOf[x] # x
    BY <1>3, KindsDiffer
  <2> QED
    BY <2>2, <2>3, MarksKnown, PathsDiffer DEF Separate
<1> QED
  BY <1>1, <1>2, <1>3

LEMMA DeleteObjectSeparate ==
  ASSUME Idle, NEW x \in Objects \ {DefaultEnv}, DeleteObject(x)
  PROVE  Separate'
<1>1. CASE x \in Unsafe
  BY <1>1 DEF DeleteObject, StoreCall, StoreCallFails, Separate
<1>2. CASE x \notin Unsafe /\ x \in Bags
  <2> DEFINE held == {ObjectPath(i) : i \in ItemsOf(x)}
  <2>1. todo' = << RemoveAll(held), RemoveFile(ObjectPath(x)), RemoveFile(ACLPath(x)) >>
    BY <1>2, KindsDiffer DEF DeleteObject, StoreCall
  <2> HIDE DEF held
  <2>2. /\ DOMAIN todo' = {1, 2, 3} /\ todo'[1].at = held
        /\ todo'[2].at = {ObjectPath(x)} /\ todo'[3].at = {ACLPath(x)}
    BY <2>1 DEF RemoveAll, RemoveFile
  <2>3. \A p \in held : \E i \in Items : p = ObjectPath(i)
    BY DEF held, ItemsOf
  <2>4. /\ ObjectPath(x) \notin held /\ ACLPath(x) \notin held
        /\ ObjectPath(DefaultEnv) \notin held
    BY <1>2, <2>3, PathsDiffer, ObjectsAssumption
  <2>5. /\ ObjectPath(x) # ACLPath(x) /\ ObjectPath(DefaultEnv) # ACLPath(x)
        /\ ObjectPath(DefaultEnv) # ObjectPath(x)
    BY PathsDiffer
  <2>6. ASSUME NEW j \in DOMAIN todo', NEW k \in DOMAIN todo', j # k
        PROVE  todo'[j].at \intersect todo'[k].at = {}
    BY <2>2, <2>4, <2>5, <2>6
  <2>7. ASSUME NEW j \in DOMAIN todo' PROVE ObjectPath(DefaultEnv) \notin todo'[j].at
    BY <2>2, <2>4, <2>5
  <2> QED
    BY <2>6, <2>7 DEF Separate
<1>3. CASE x \notin Unsafe /\ x \in Items
  <2>1. todo' = << RemoveFile(ObjectPath(x)) >>
    BY <1>3, KindsDiffer DEF DeleteObject, StoreCall
  <2>2. DOMAIN todo' = {1} /\ todo'[1].at = {ObjectPath(x)}
    BY <2>1 DEF RemoveAll, RemoveFile
  <2> QED
    BY <2>2, PathsDiffer DEF Separate
<1>4. CASE x \notin Unsafe /\ x \notin Bags /\ x \notin Items
  <2>1. todo' = << RemoveFile(ObjectPath(x)), RemoveFile(ACLPath(x)) >>
    BY <1>4 DEF DeleteObject, StoreCall
  <2>2. /\ DOMAIN todo' = {1, 2}
        /\ todo'[1].at = {ObjectPath(x)} /\ todo'[2].at = {ACLPath(x)}
    BY <2>1 DEF RemoveAll, RemoveFile
  <2> QED
    BY <2>2, PathsDiffer DEF Separate
<1> QED
  BY <1>1, <1>2, <1>3, <1>4

LEMMA PersistSeparate ==
  ASSUME IInv, Separate, todo # <<>>, todo' = Tail(todo)
  PROVE  Separate'
<1>1. todo \in Seq(Operations)
  BY DEF IInv, InTurn
<1>2. \A j \in DOMAIN todo' : j + 1 \in DOMAIN todo /\ todo'[j] = todo[j + 1] /\ j \in Nat
  BY <1>1, HeadTailProperties
<1> QED
  BY <1>2 DEF Separate

\* A request that is let in, by the store call it makes.
LEMMA RequestSeparate == IInv /\ Request => Separate'
<1> SUFFICES ASSUME IInv, Request PROVE Separate'
  OBVIOUS
<1>1. ASSUME NEW x \in Crud, NEW body \in Bodies, CrudPost(x, body) \/ CrudPut(x, body)
      PROVE  Separate'
  BY <1>1, PutObjectSeparate DEF CrudPost, CrudPut, Objects, Stored
<1>2. ASSUME NEW x \in Crud, CrudDelete(x) PROVE Separate'
  BY <1>2, DeleteObjectSeparate DEF CrudDelete, Objects
<1>3. ASSUME NEW c \in Containers, ContainerPost(c) PROVE Separate'
  BY <1>3, PutObjectSeparate, MarksKnown DEF ContainerPost, Objects
<1>4. ASSUME NEW c \in Containers, ContainerDelete(c) PROVE Separate'
  BY <1>4, DeleteObjectSeparate, ObjectsAssumption DEF ContainerDelete, Objects
<1>5. ASSUME NEW b \in Bags, BagPost(b) PROVE Separate'
  BY <1>5, PutObjectSeparate, KindsDiffer, MarksKnown DEF BagPost
<1>6. ASSUME NEW b \in Bags, BagDelete(b) PROVE Separate'
  BY <1>6, DeleteObjectSeparate, ObjectsAssumption DEF BagDelete, Objects
<1>7. ASSUME NEW i \in Items, NEW body \in Bodies, ItemPost(i, body) PROVE Separate'
  BY <1>7, PutObjectSeparate, KindsDiffer DEF ItemPost, Stored
<1>8. ASSUME NEW i \in Items, NEW body \in Bodies \union Malformed, ItemPut(i, body)
      PROVE  Separate'
  BY <1>8, PutObjectSeparate, KindsDiffer DEF ItemPut, Stored
<1>9. ASSUME NEW i \in Items, ItemDelete(i) PROVE Separate'
  BY <1>9, DeleteObjectSeparate, ObjectsAssumption DEF ItemDelete, Objects
<1>10. ASSUME NEW x \in WithACL, GetACL(x) PROVE Separate'
  BY <1>10 DEF GetACL, NoStoreCall, storeVars, Idle, Separate
<1>11. ASSUME NEW x \in WithACL, NEW perm \in Perms, NEW grant \in Grants, PutPerm(x, perm, grant)
       PROVE  Separate'
  <2>1. PICK acl : PutACL(x, acl)
    BY <1>11 DEF PutPerm
  <2>2. todo' = <<>> \/ todo' = << Write(ACLPath(x), acl) >>
    BY <2>1 DEF PutACL, StoreCall, StoreCallFails
  <2>3. \A j \in DOMAIN todo' : j = 1 /\ todo'[j].at = {ACLPath(x)}
    BY <2>2 DEF Write
  <2> QED
    BY <2>3, PathsDiffer DEF Separate
<1> QED
  BY <1>1, <1>2, <1>3, <1>4, <1>5, <1>6, <1>7, <1>8, <1>9, <1>10, <1>11, ObjectsAssumption
  DEF Request

LEMMA NextSeparate == MInv /\ [Next]_vars => Separate'
<1> SUFFICES ASSUME IInv, Separate, [Next]_vars PROVE Separate'
  BY DEF MInv
<1>1. CASE Persist \/ ACLStays
  BY <1>1, PersistSeparate DEF Persist, StoreStep, ACLStays, StoreFaultIgnored
<1>2. CASE Fault \/ Crash
  <2>1. todo' = <<>>
    BY <1>2 DEF Fault, StoreFaultOn, Crash, ProcessDies
  <2> QED
    BY <2>1 DEF Separate
<1>3. CASE Start \/ UNCHANGED vars
  BY <1>3 DEF Start, ProcessStarts, vars, storeVars, Separate
<1> QED
  BY <1>1, <1>2, <1>3, RequestSeparate DEF Next

THEOREM MapInvariant == Spec => []MInv
<1>1. Init => MInv
  BY InitInv DEF MInv, Init, Separate
<1>2. MInv /\ [Next]_vars => MInv'
  BY NextInv, NextSeparate DEF MInv
<1> QED
  BY <1>1, <1>2, PTL DEF Spec

\* What is still to be written of an object is what memory says of it: both
\* when it is a body and when it is the removal of the file.
LEMMA ComingAgrees ==
  ASSUME MInv, up, NEW x \in Kept, NEW j \in DOMAIN todo, ObjectPath(x) \in todo[j].at
  PROVE  /\ todo[j].holds = Absent => objects[x] = None /\ NewOrg(x) = None
         /\ todo[j].holds # Absent => objects[x] = todo[j].holds /\ objects[x] # None
<1>1. ObjectPath(x) \in Followed
  BY DEF Followed
<1>2. Agrees(ObjectPath(x), todo[j].holds)
  BY <1>1 DEF MInv, IInv, OnDisk, PathOnDisk, Right
<1>3. todo[j].holds = Absent => x # DefaultEnv
  BY DEF MInv, Separate
<1>4. todo[j] \in Operations
  BY DEF MInv, IInv, InTurn
<1>5. todo[j].holds # None
  BY <1>4, MarksKnown DEF Operations
<1> QED
  BY <1>2, <1>3, <1>5, KindsDiffer, MarksKnown DEF Agrees, ObjectPath

PendingAgrees == Pending = [x \in Changed |-> objects[x]]

LEMMA PendingIsMemory == MInv /\ up => PendingAgrees
<1> SUFFICES ASSUME MInv, up, NEW x \in Changed
             PROVE  (IF Coming(x) = Absent THEN None ELSE Coming(x)) = objects[x]
  BY DEF PendingAgrees, Pending
<1> DEFINE P(j) == j \in DOMAIN todo /\ ObjectPath(x) \in todo[j].at
           i == CHOOSE j \in DOMAIN todo : ObjectPath(x) \in todo[j].at
<1>1. x \in Kept /\ \E j \in DOMAIN todo : ObjectPath(x) \in todo[j].at
  BY DEF Changed, Touched
<1>2. i \in DOMAIN todo /\ ObjectPath(x) \in todo[i].at
  BY <1>1
<1>3. Coming(x) = todo[i].holds
  BY DEF Coming
<1> HIDE DEF i
<1> QED
  BY <1>1, <1>2, <1>3, ComingAgrees

LEMMA NothingPending ==
  ASSUME todo = <<>>
  PROVE  Changed = {} /\ Pending = Promise!NoChange
<1>1. Changed = {}
  BY DEF Changed, Touched
<1> QED
  BY <1>1 DEF Pending, Promise!NoChange

\* A request whose changes are all in the operations it leaves behind.
LEMMA AcceptedStep ==
  ASSUME MInv, MInv', Idle, UNCHANGED <<disk, up, stale>>,
         PendingAgrees',
         \A x \in Kept \ Changed' : objects'[x] = objects[x]
  PROVE  Promise!Accept
<1> USE DEF PendingAgrees
<1>1. up /\ Pending = Promise!NoChange
  BY NothingPending DEF Idle
<1>2. OnFile' = OnFile /\ Owed' = Owed
  BY DEF OnFile, Owed, LoadedObject, Listed
<1>3. DOMAIN Pending' = Changed' /\ Changed' \subseteq Kept
  BY DEF Changed
<1>4. Served' = [k \in Kept |-> IF k \in DOMAIN Pending' THEN Pending'[k] ELSE Served[k]]
  BY <1>3 DEF Served
<1> QED
  BY <1>1, <1>2, <1>3, <1>4 DEF Promise!Accept

\* A request that is answered with an error at once.
LEMMA RefusedStep ==
  ASSUME Idle, todo' = <<>>, UNCHANGED <<disk, up>>,
         NEW S \in SUBSET Kept, Owed' = Owed \union S,
         \A x \in Kept \ S : objects'[x] = objects[x]
  PROVE  Promise!Next
<1>1. up /\ Pending = Promise!NoChange
  BY NothingPending DEF Idle
<1>2. Pending' = Pending
  BY DEF Idle, Pending, Changed, Coming
<1>3. OnFile' = OnFile
  BY DEF OnFile, LoadedObject, Listed
<1>4. Served' = [k \in Kept |-> IF k \in S THEN Served'[k] ELSE Served[k]]
  BY DEF Served
<1>5. Promise!Refuse(S)
  BY <1>1, <1>2, <1>3, <1>4 DEF Promise!Refuse
<1> QED
  BY <1>5 DEF Promise!Next

LEMMA StutteringStep ==
  ASSUME UNCHANGED <<disk, up, objects>>, Owed' = Owed, Changed = {}, Changed' = {}
  PROVE  UNCHANGED Promise!mapVars
<1>1. Served' = Served /\ OnFile' = OnFile
  BY DEF Served, OnFile, LoadedObject, Listed
<1>2. Pending' = Pending
  BY DEF Pending
<1> QED
  BY <1>1, <1>2 DEF Promise!mapVars

LEMMA PutObjectMaps ==
  ASSUME MInv, MInv', PendingAgrees',
         Idle, NEW x \in Objects, NEW body \in Stored, PutObject(x, body),
         objects' = [objects EXCEPT ![x] = body]
  PROVE  Promise!Next
<1>1. objects \in [Objects -> Stored \union {None}] /\ Kept \subseteq Objects
  BY KindsDiffer DEF MInv, IInv, MemoryOK
<1>2. CASE x \in Unsafe \/ body \in Malformed
  <2>1. todo' = <<>> /\ stale' = stale \union {ObjectPath(x)} /\ UNCHANGED <<disk, up>>
    BY <1>2 DEF PutObject, StoreCall, StoreCallFails
  <2>2. Owed' = Owed \union ({x} \intersect Kept)
    BY <2>1, PathsDiffer DEF Owed
  <2> QED
    BY <1>1, <2>1, <2>2, RefusedStep
<1>3. CASE ~(x \in Unsafe \/ body \in Malformed)
  <2>1. /\ UNCHANGED <<disk, up, stale>>
        /\ \/ todo' = << Write(ObjectPath(x), body) >>
           \/ todo' = << Write(ObjectPath(BagOf[x]), Dir), Write(ObjectPath(x), body) >>
    BY <1>3 DEF PutObject, StoreCall
  <2>2. \E j \in DOMAIN todo' : ObjectPath(x) \in todo'[j].at
    <3>1. CASE todo' = << Write(ObjectPath(x), body) >>
      <4>1. 1 \in DOMAIN todo' /\ todo'[1] = Write(ObjectPath(x), body)
        BY <3>1
      <4> QED
        BY <4>1 DEF Write
    <3>2. CASE todo' = << Write(ObjectPath(BagOf[x]), Dir), Write(ObjectPath(x), body) >>
      <4>1. 2 \in DOMAIN todo' /\ todo'[2] = Write(ObjectPath(x), body)
        BY <3>2
      <4> QED
        BY <4>1 DEF Write
    <3> QED
      BY <2>1, <3>1, <3>2
  <2>3. x \in Kept => x \in Changed'
    BY <2>2 DEF Changed, Touched
  <2>4. Promise!Accept
    BY <1>1, <2>1, <2>3, AcceptedStep
  <2> QED
    BY <2>4 DEF Promise!Next
<1> QED
  BY <1>2, <1>3

\* Of a refused deletion of a bag the items are owed already.
LEMMA DeleteObjectMaps ==
  ASSUME MInv, MInv', PendingAgrees',
         Idle, NEW x \in Objects \ {DefaultEnv}, DeleteObject(x),
         objects' = [y \in Objects |->
                       IF y = x \/ (x \in Bags /\ y \in ItemsOf(x)) THEN None ELSE objects[y]]
  PROVE  Promise!Next
<1>1. objects \in [Objects -> Stored \union {None}] /\ Kept \subseteq Objects
  BY KindsDiffer DEF MInv, IInv, MemoryOK
<1>2. CASE x \in Unsafe
  <2>1. todo' = <<>> /\ stale' = stale \union {ObjectPath(x)} /\ UNCHANGED <<disk, up>>
    BY <1>2 DEF DeleteObject, StoreCall, StoreCallFails
  <2> DEFINE S == {y \in Kept : y = x \/ objects'[y] # objects[y]}
  <2>2. ASSUME NEW y \in Kept, y # x, objects'[y] # objects[y]
        PROVE  y \in Owed
    <3>1. x \in Bags /\ y \in Items /\ BagOf[y] = x /\ objects[y] # None
      BY <1>1, <2>2 DEF ItemsOf
    <3>2. y \in Unsafe /\ NewOrg(y) = None
      BY <1>2, <3>1, KindsDiffer, ObjectsAssumption
    <3>3. disk[ObjectPath(y)] = Absent
      BY <3>2 DEF MInv, IInv, DiskOK
    <3>4. ObjectPath(y) \in stale \/ Agrees(ObjectPath(y), disk[ObjectPath(y)])
      <4>1. ObjectPath(y) \notin leftover
        BY PathsDiffer DEF MInv, IInv, StoreOK, ACLPaths
      <4> QED
        BY <4>1 DEF MInv, IInv, OnDisk, PathOnDisk, Covered, Idle, Followed
    <3>5. ~Agrees(ObjectPath(y), Absent)
      BY <3>1, <3>2 DEF Agrees, ObjectPath
    <3> QED
      BY <3>3, <3>4, <3>5 DEF Owed
  <2>3. Owed' = Owed \union S
    <3>1. Owed' = Owed \union ({x} \intersect Kept)
      BY <2>1, PathsDiffer DEF Owed
    <3>2. {x} \intersect Kept \subseteq S /\ S \subseteq Owed \union ({x} \intersect Kept)
      BY <2>2
    <3> HIDE DEF S
    <3> QED
      BY <3>1, <3>2
  <2>4. S \in SUBSET Kept /\ \A y \in Kept \ S : objects'[y] = objects[y]
    OBVIOUS
  <2> HIDE DEF S
  <2> QED
    BY <2>1, <2>3, <2>4, RefusedStep
<1>3. CASE x \notin Unsafe
  <2> DEFINE held == {ObjectPath(i) : i \in ItemsOf(x)}
  <2>1. /\ UNCHANGED <<disk, up, stale>>
        /\ \/ x \in Bags /\ todo' = << RemoveAll(held), RemoveFile(ObjectPath(x)),
                                       RemoveFile(ACLPath(x)) >>
           \/ x \notin Bags /\ todo' = << RemoveFile(ObjectPath(x)) >>
           \/ x \notin Bags /\ todo' = << RemoveFile(ObjectPath(x)), RemoveFile(ACLPath(x)) >>
    BY <1>3, KindsDiffer DEF DeleteObject, StoreCall
  <2>2. ASSUME NEW y \in Kept, objects'[y] # objects[y] PROVE y \in Changed'
    <3>1. y = x \/ (x \in Bags /\ ObjectPath(y) \in held)
      BY <1>1, <2>2
    <3> HIDE DEF held
    <3>2. \E j \in DOMAIN todo' : ObjectPath(y) \in todo'[j].at
      <4>1. CASE x \in Bags
        <5>1. /\ 1 \in DOMAIN todo' /\ todo'[1].at = held
              /\ 2 \in DOMAIN todo' /\ todo'[2].at = {ObjectPath(x)}
          BY <2>1, <4>1 DEF RemoveAll, RemoveFile
        <5> QED
          BY <3>1, <5>1
      <4>2. CASE x \notin Bags
        <5>1. 1 \in DOMAIN todo' /\ todo'[1].at = {ObjectPath(x)}
          BY <2>1, <4>2 DEF RemoveAll, RemoveFile
        <5> QED
          BY <3>1, <4>2, <5>1
      <4> QED
        BY <4>1, <4>2
    <3> QED
      BY <3>2 DEF Changed, Touched
  <2>3. Promise!Accept
    BY <2>1, <2>2, AcceptedStep
  <2> QED
    BY <2>3 DEF Promise!Next
<1> QED
  BY <1>2, <1>3

LEMMA PutPermMaps ==
  ASSUME Idle, NEW x \in WithACL, NEW acl, PutACL(x, acl), UNCHANGED objects
  PROVE  UNCHANGED Promise!mapVars
<1>1. /\ UNCHANGED <<disk, up>>
      /\ todo' = <<>> \/ todo' = << Write(ACLPath(x), acl) >>
      /\ stale' = stale \/ stale' = stale \union {ACLPath(x)}
  BY DEF PutACL, StoreCall, StoreCallFails, Idle
<1>2. Owed' = Owed
  BY <1>1, PathsDiffer DEF Owed
<1>3. \A j \in DOMAIN todo' : todo'[j].at = {ACLPath(x)}
  BY <1>1 DEF Write
<1>4. Changed = {} /\ Changed' = {}
  BY <1>3, PathsDiffer DEF Changed, Touched, Idle
<1> QED
  BY <1>1, <1>2, <1>4, StutteringStep

\* One file operation commits the keys it is about.
LEMMA PersistMaps ==
  ASSUME MInv, MInv', Persist,
         PendingAgrees,
         PendingAgrees'
  PROVE  Promise!Next
<1> USE DEF PendingAgrees
<1> DEFINE op == todo[1]
           S == {x \in Kept : ObjectPath(x) \in op.at}
<1>1. /\ up /\ up' /\ UNCHANGED memory /\ todo # <<>>
      /\ todo \in Seq(Operations) /\ todo' = Tail(todo) /\ Head(todo) = op
      /\ disk' = Apply(op, disk) /\ stale' = stale \ op.at
  BY HeadFits DEF MInv, IInv, InTurn, Persist, StoreStep
<1>2. 1 \in DOMAIN todo /\ op \in Operations
  BY <1>1, ElementOfSeq
<1>3. /\ \A k \in DOMAIN todo : k = 1 \/ (k - 1 \in DOMAIN todo' /\ todo'[k - 1] = todo[k])
      /\ \A k \in DOMAIN todo' : k + 1 \in DOMAIN todo /\ k + 1 # 1 /\ todo'[k] = todo[k + 1]
  BY <1>1
<1> HIDE DEF op
<1>4. S \subseteq Changed
  BY <1>2 DEF Changed, Touched, op
<1>5. Changed' = Changed \ S
  <2>1. \A x \in Kept : x \in Changed' => x \in Changed
    BY <1>3 DEF Changed, Touched
  <2>2. \A x \in S : x \notin Changed'
    <3> SUFFICES ASSUME NEW x \in S, NEW k \in DOMAIN todo', ObjectPath(x) \in todo'[k].at
                 PROVE  FALSE
      BY DEF Changed, Touched
    <3>1. /\ k + 1 \in DOMAIN todo /\ k + 1 # 1
          /\ ObjectPath(x) \in todo[k + 1].at /\ ObjectPath(x) \in todo[1].at
      BY <1>3 DEF op
    <3> QED
      BY <1>2, <3>1 DEF MInv, Separate
  <2>3. \A x \in Changed : x \in S \/ x \in Changed'
    BY <1>3 DEF Changed, Touched, op
  <2>4. Changed \subseteq Kept /\ Changed' \subseteq Kept
    BY DEF Changed
  <2> QED
    BY <2>1, <2>2, <2>3, <2>4
<1>6. OnFile' = [k \in Kept |-> IF k \in S THEN Pending[k] ELSE OnFile[k]]
  <2> SUFFICES ASSUME NEW x \in Kept
               PROVE  LoadedObject(x)' = IF x \in S THEN objects[x] ELSE LoadedObject(x)
    BY <1>4 DEF OnFile
  <2>1. ObjectPath(x) \in DOMAIN disk /\ x \notin Hidden
    BY KindsDiffer, PathsKnown DEF MInv, IInv, DiskOK, Kept
  <2>2. disk'[ObjectPath(x)] = IF x \in S THEN op.holds ELSE disk[ObjectPath(x)]
    BY <1>1, <2>1 DEF Apply
  <2>3. x \in S => /\ op.holds = Absent => objects[x] = None /\ NewOrg(x) = None
                   /\ op.holds # Absent => objects[x] = op.holds
    BY <1>1, <1>2, ComingAgrees DEF op
  <2> QED
    BY <2>1, <2>2, <2>3 DEF LoadedObject, Listed
<1>7. Pending' = [k \in DOMAIN Pending \ S |-> Pending[k]]
  BY <1>1, <1>5 DEF memory
<1>8. Owed' = Owed \ S
  BY <1>1 DEF Owed
<1>9. Served' = Served
  BY <1>1 DEF Served, memory
<1>10. S \in SUBSET DOMAIN Pending
  BY <1>4
<1> HIDE DEF S
<1>11. Promise!Commit(S)
  BY <1>1, <1>6, <1>7, <1>8, <1>9 DEF Promise!Commit
<1> QED
  BY <1>10, <1>11 DEF Promise!Next

\* The file of an ACL that stays is none of the map's business.
LEMMA ACLStaysMaps ==
  ASSUME MInv, ACLStays,
         PendingAgrees,
         PendingAgrees'
  PROVE  UNCHANGED Promise!mapVars
<1> USE DEF PendingAgrees
<1>1. /\ up /\ up' /\ UNCHANGED <<memory, disk, stale>> /\ todo # <<>>
      /\ todo \in Seq(Operations) /\ todo' = Tail(todo) /\ Head(todo) = todo[1]
  BY HeadFits DEF MInv, IInv, InTurn, ACLStays, StoreFaultIgnored
<1>2. PICK x \in WithACL : todo[1].at = {ACLPath(x)}
  BY <1>1 DEF ACLStays, StoreFaultIgnored, ErrorIgnored, ACLPaths, RemoveFile, RemoveAll
<1>3. /\ \A k \in DOMAIN todo : k = 1 \/ (k - 1 \in DOMAIN todo' /\ todo'[k - 1] = todo[k])
      /\ \A k \in DOMAIN todo' : k + 1 \in DOMAIN todo /\ todo'[k] = todo[k + 1]
  BY <1>1
<1>4. Changed' = Changed
  BY <1>2, <1>3, PathsDiffer DEF Changed, Touched
<1>5. Pending' = Pending
  BY <1>1, <1>4 DEF memory
<1>6. Served' = Served /\ OnFile' = OnFile /\ Owed' = Owed
  BY <1>1 DEF Served, OnFile, Owed, LoadedObject, Listed, memory
<1> QED
  BY <1>1, <1>5, <1>6 DEF Promise!mapVars, IInv, MInv, StoreOK

\* What an operation that is cut short leaves of the objects.
LEMMA CutMaps ==
  ASSUME MInv, up, todo # <<>>, PendingAgrees,
         NEW done \in SUBSET Head(todo).at,
         disk' = Apply(CutShort(Head(todo), done), disk)
  PROVE  \E S \in SUBSET DOMAIN Pending : \E T \in SUBSET S : Promise!Interrupted(S, T)
<1> USE DEF PendingAgrees
<1> DEFINE op == todo[1]
           S == {x \in Kept : ObjectPath(x) \in done}
           T == IF op.holds \in {Absent, Dir} THEN {} ELSE S
<1>1. todo \in Seq(Operations) /\ Head(todo) = op /\ 1 \in DOMAIN todo
  BY HeadFits DEF MInv, IInv, InTurn
<1> HIDE DEF op
<1>2. done \subseteq op.at /\ disk' = Apply(CutShort(op, done), disk)
  BY <1>1
<1>3. S \subseteq Changed
  BY <1>1, <1>2 DEF Changed, Touched, op
<1>4. \A x \in S : /\ op.holds = Absent => objects[x] = None /\ NewOrg(x) = None
                   /\ op.holds # Absent => objects[x] = op.holds /\ objects[x] # None
  BY <1>1, <1>2, ComingAgrees DEF op
<1>5. OnFile' = [k \in Kept |-> IF k \in T THEN Torn
                                ELSE IF k \in S THEN Pending[k] ELSE OnFile[k]]
  <2> SUFFICES ASSUME NEW x \in Kept
               PROVE  LoadedObject(x)' = IF x \in T THEN Torn
                                         ELSE IF x \in S THEN objects[x] ELSE LoadedObject(x)
    BY <1>3 DEF OnFile
  <2>1. ObjectPath(x) \in DOMAIN disk /\ x \notin Hidden
    BY KindsDiffer, PathsKnown DEF MInv, IInv, DiskOK, Kept
  <2>2. disk'[ObjectPath(x)] =
           IF x \in S THEN (IF op.holds \in {Absent, Dir} THEN op.holds ELSE Torn)
           ELSE disk[ObjectPath(x)]
    BY <1>2, <2>1 DEF Apply, CutShort
  <2> QED
    BY <1>4, <2>1, <2>2, MarksKnown DEF LoadedObject, Listed
<1>6. \A k \in T : Pending[k] # None
  BY <1>3, <1>4
<1>7. S \in SUBSET DOMAIN Pending /\ T \in SUBSET S
  BY <1>3
<1> HIDE DEF S, T
<1>8. Promise!Interrupted(S, T)
  BY <1>5, <1>6 DEF Promise!Interrupted
<1> QED
  BY <1>7, <1>8

LEMMA FaultMaps ==
  ASSUME MInv, Fault, PendingAgrees
  PROVE  Promise!Next
<1> USE DEF PendingAgrees
<1>1. /\ up /\ up' /\ todo # <<>> /\ UNCHANGED memory
      /\ todo' = <<>> /\ stale' = stale \union Touched(todo)
  BY DEF Fault, StoreFaultOn
<1>2. PICK done \in SUBSET Head(todo).at : disk' = Apply(CutShort(Head(todo), done), disk)
  BY DEF Fault, StoreFaultOn
<1>3. PICK S \in SUBSET DOMAIN Pending : \E T \in SUBSET S : Promise!Interrupted(S, T)
  BY <1>1, <1>2, CutMaps
<1>4. PICK T \in SUBSET S : Promise!Interrupted(S, T)
  BY <1>3
<1>5. Pending' = Promise!NoChange
  <2>1. Changed' = {}
    BY <1>1 DEF Changed, Touched
  <2> QED
    BY <2>1 DEF Pending, Promise!NoChange
<1>6. Owed' = Owed \union DOMAIN Pending
  BY <1>1 DEF Owed, Changed
<1>7. Served' = Served
  BY <1>1 DEF Served, memory
<1>8. Promise!Fail(S, T)
  BY <1>1, <1>4, <1>5, <1>6, <1>7 DEF Promise!Fail
<1> QED
  BY <1>3, <1>4, <1>8 DEF Promise!Next

LEMMA CrashMaps ==
  ASSUME MInv, Crash, PendingAgrees
  PROVE  Promise!Next
<1>1. /\ up /\ up' = FALSE /\ todo' = <<>> /\ stale' = {}
      /\ objects' = [x \in Objects |-> None]
  BY DEF Crash, ProcessDies
<1>2. PICK S \in SUBSET DOMAIN Pending : \E T \in SUBSET S : Promise!Interrupted(S, T)
  <2>1. CASE disk' = disk
    <3>1. OnFile' = OnFile
      BY <2>1 DEF OnFile, LoadedObject, Listed
    <3>2. Promise!Interrupted({}, {})
      BY <3>1 DEF Promise!Interrupted, OnFile
    <3> QED
      BY <3>2
  <2>2. CASE disk' # disk
    <3>1. todo # <<>>
      BY <2>2 DEF Crash, ProcessDies
    <3>2. PICK done \in SUBSET Head(todo).at : disk' = Apply(CutShort(Head(todo), done), disk)
      BY <2>2 DEF Crash, ProcessDies
    <3> QED
      BY <1>1, <3>1, <3>2, CutMaps
  <2> QED
    BY <2>1, <2>2
<1>3. PICK T \in SUBSET S : Promise!Interrupted(S, T)
  BY <1>2
<1>4. Pending' = Promise!NoChange
  <2>1. Changed' = {}
    BY <1>1 DEF Changed, Touched
  <2> QED
    BY <2>1 DEF Pending, Promise!NoChange
<1>5. Owed' = {} /\ Served' = [k \in Kept |-> None]
  BY <1>1, KindsDiffer DEF Owed, Served
<1>6. Promise!Crash(S, T)
  BY <1>1, <1>3, <1>4, <1>5 DEF Promise!Crash
<1> QED
  BY <1>2, <1>3, <1>6 DEF Promise!Next

LEMMA StartMaps ==
  ASSUME MInv, Start
  PROVE  Promise!Next
<1>1. /\ ~up /\ up' = TRUE /\ todo = <<>> /\ todo' = todo /\ UNCHANGED <<disk, stale>>
      /\ \A x \in Objects \ Hidden : disk[ObjectPath(x)] # Torn
      /\ objects' = [x \in Objects |-> LoadedObject(x)]
  BY DEF MInv, IInv, StoreOK, Start, ProcessStarts, Loadable
<1>2. \A k \in Kept : OnFile[k] # Torn
  <2>1. ASSUME NEW k \in Kept PROVE LoadedObject(k) # Torn
    BY <1>1, KindsDiffer, MarksKnown DEF LoadedObject, Listed, NewOrg, Kept
  <2> QED
    BY <2>1 DEF OnFile
<1>3. OnFile' = OnFile /\ Owed' = Owed
  BY <1>1 DEF OnFile, Owed, LoadedObject, Listed
<1>4. Pending' = Pending
  <2>1. Changed = {} /\ Changed' = {}
    BY <1>1 DEF Changed, Touched
  <2> QED
    BY <2>1 DEF Pending
<1>5. Served' = OnFile
  BY <1>1, KindsDiffer DEF Served, OnFile
<1>6. Promise!Restart
  BY <1>1, <1>2, <1>3, <1>4, <1>5 DEF Promise!Restart
<1> QED
  BY <1>6 DEF Promise!Next

\* Every request is the acceptance or the refusal of a change of some keys,
\* or none of the map's business.
LEMMA RequestMaps ==
  ASSUME MInv, MInv', Request, PendingAgrees'
  PROVE  Promise!Next \/ UNCHANGED Promise!mapVars
<1>1. objects \in [Objects -> Stored \union {None}]
  BY DEF MInv, IInv, MemoryOK
<1>2. ASSUME NEW x \in Crud, NEW body \in Bodies, CrudPost(x, body) \/ CrudPut(x, body)
      PROVE  Promise!Next
  BY <1>2, PutObjectMaps DEF CrudPost, CrudPut, Objects, Stored
<1>3. ASSUME NEW x \in Crud, CrudDelete(x) PROVE Promise!Next
  <2>1. x \in Objects \ {DefaultEnv} /\ x \notin Bags
    BY <1>3, ObjectsAssumption DEF CrudDelete, Objects
  <2>2. objects' = [y \in Objects |->
                      IF y = x \/ (x \in Bags /\ y \in ItemsOf(x)) THEN None ELSE objects[y]]
    BY <1>1, <1>3, <2>1 DEF CrudDelete
  <2> QED
    BY <1>3, <2>1, <2>2, DeleteObjectMaps DEF CrudDelete
<1>4. ASSUME NEW c \in Containers, ContainerPost(c) PROVE Promise!Next
  BY <1>4, PutObjectMaps, MarksKnown DEF ContainerPost, Objects
<1>5. ASSUME NEW c \in Containers, ContainerDelete(c) PROVE Promise!Next
  <2>1. c \in Objects \ {DefaultEnv} /\ c \notin Bags
    BY ObjectsAssumption DEF Objects
  <2>2. objects' = [y \in Objects |->
                      IF y = c \/ (c \in Bags /\ y \in ItemsOf(c)) THEN None ELSE objects[y]]
    BY <1>1, <1>5, <2>1 DEF ContainerDelete
  <2> QED
    BY <1>5, <2>1, <2>2, DeleteObjectMaps DEF ContainerDelete
<1>6. ASSUME NEW b \in Bags, BagPost(b) PROVE Promise!Next
  BY <1>6, PutObjectMaps, KindsDiffer, MarksKnown DEF BagPost
<1>7. ASSUME NEW b \in Bags, BagDelete(b) PROVE Promise!Next
  <2>1. b \in Objects \ {DefaultEnv}
    BY ObjectsAssumption DEF Objects
  <2>2. objects' = [y \in Objects |->
                      IF y = b \/ (b \in Bags /\ y \in ItemsOf(b)) THEN None ELSE objects[y]]
    BY <1>7 DEF BagDelete
  <2> QED
    BY <1>7, <2>1, <2>2, DeleteObjectMaps DEF BagDelete
<1>8. ASSUME NEW i \in Items, NEW body \in Bodies, ItemPost(i, body) PROVE Promise!Next
  BY <1>8, PutObjectMaps, KindsDiffer DEF ItemPost, Stored
<1>9. ASSUME NEW i \in Items, NEW body \in Bodies \union Malformed, ItemPut(i, body)
      PROVE  Promise!Next
  BY <1>9, PutObjectMaps, KindsDiffer DEF ItemPut, Stored
<1>10. ASSUME NEW i \in Items, ItemDelete(i) PROVE Promise!Next
  <2>1. i \in Objects \ {DefaultEnv} /\ i \notin Bags
    BY KindsDiffer, ObjectsAssumption
  <2>2. objects' = [y \in Objects |->
                      IF y = i \/ (i \in Bags /\ y \in ItemsOf(i)) THEN None ELSE objects[y]]
    BY <1>1, <1>10, <2>1 DEF ItemDelete
  <2> QED
    BY <1>10, <2>1, <2>2, DeleteObjectMaps DEF ItemDelete
<1>11. ASSUME NEW x \in WithACL, GetACL(x) PROVE UNCHANGED Promise!mapVars
  <2>1. UNCHANGED <<disk, up, objects>> /\ todo = <<>> /\ todo' = <<>> /\ Owed' = Owed
    BY <1>11 DEF GetACL, Idle, NoStoreCall, storeVars, Owed
  <2>2. Changed = {} /\ Changed' = {}
    BY <2>1 DEF Changed, Touched
  <2> QED
    BY <2>1, <2>2, StutteringStep
<1>12. ASSUME NEW x \in WithACL, NEW perm \in Perms, NEW grant \in Grants, PutPerm(x, perm, grant)
       PROVE  UNCHANGED Promise!mapVars
  <2>1. Idle /\ UNCHANGED objects /\ \E acl : PutACL(x, acl)
    BY <1>12 DEF PutPerm
  <2> QED
    BY <2>1, PutPermMaps
<1> QED
  BY <1>2, <1>3, <1>4, <1>5, <1>6, <1>7, <1>8, <1>9, <1>10, <1>11, <1>12, ObjectsAssumption
  DEF Request

LEMMA NextMaps ==
  ASSUME MInv, MInv', [Next]_vars,
         up => PendingAgrees,
         up' => PendingAgrees'
  PROVE  Promise!Next \/ UNCHANGED Promise!mapVars
<1>1. CASE Request
  <2>1. up'
    <3>1. up /\ todo = <<>>
      BY <1>1 DEF Request, CrudPost, CrudPut, CrudDelete, ContainerPost, ContainerDelete, BagPost,
                  BagDelete, ItemPost, ItemPut, ItemDelete, GetACL, PutPerm, Idle
    <3>2. UNCHANGED up
      BY <1>1 DEF Request, CrudPost, CrudPut, CrudDelete, ContainerPost, ContainerDelete, BagPost,
                  BagDelete, ItemPost, ItemPut, ItemDelete, GetACL, PutPerm, PutObject,
                  DeleteObject, PutACL, StoreCall, StoreCallFails, NoStoreCall, storeVars
    <3> QED
      BY <3>1, <3>2
  <2> QED
    BY <1>1, <2>1, RequestMaps
<1>2. CASE Persist
  <2>1. up /\ up'
    BY <1>2 DEF Persist, StoreStep
  <2> QED
    BY <1>2, <2>1, PersistMaps
<1>3. CASE Fault
  <2>1. up
    BY <1>3 DEF Fault, StoreFaultOn
  <2> QED
    BY <1>3, <2>1, FaultMaps
<1>4. CASE Crash
  <2>1. up
    BY <1>4 DEF Crash, ProcessDies
  <2> QED
    BY <1>4, <2>1, CrashMaps
<1>7. CASE ACLStays
  <2>1. up /\ up'
    BY <1>7 DEF ACLStays, StoreFaultIgnored
  <2> QED
    BY <1>7, <2>1, ACLStaysMaps
<1>5. CASE Start
  BY <1>5, StartMaps
<1>6. CASE UNCHANGED vars
  <2>1. UNCHANGED <<objects, disk, todo, up, stale>>
    BY <1>6 DEF vars, memory, storeVars
  <2>2. Served' = Served /\ OnFile' = OnFile /\ Owed' = Owed
    BY <2>1 DEF Served, OnFile, Owed, LoadedObject, Listed
  <2>3. Pending' = Pending
    BY <2>1 DEF Pending, Changed, Coming, Touched
  <2> QED
    BY <2>1, <2>2, <2>3 DEF Promise!mapVars
<1> QED
  BY <1>1, <1>2, <1>3, <1>4, <1>5, <1>6, <1>7 DEF Next

LEMMA InitMaps == Init => Promise!Init
<1> SUFFICES ASSUME Init PROVE Promise!Init
  OBVIOUS
<1>1. \A x \in Kept : /\ objects[x] = NewOrg(x) /\ LoadedObject(x) = NewOrg(x)
                      /\ NewOrg(x) \in Stored \union {None}
  BY KindsDiffer, PathsKnown, MarksKnown DEF Init, LoadedObject, Listed, NewOrg
<1>2. Served = OnFile /\ Served \in [Kept -> Stored \union {None}]
  BY <1>1 DEF Served, OnFile
<1>3. Pending = Promise!NoChange
  BY NothingPending DEF Init
<1>4. Owed = {} /\ up = TRUE
  BY DEF Owed, Init
<1> QED
  BY <1>2, <1>3, <1>4 DEF Promise!Init

\* docs/serve.md: "every change a client makes is written back into the
\* directory immediately".  The handlers, the file operations of DirStore
\* and its Load are, step by step, the map that DurableMap promises: a crash
\* at any file operation loses what was not written yet and nothing else, and
\* a restart serves what is stored (routes.go, store.go:30-330).
THEOREM MapImplemented == Spec => ImplementsMap
<1>1. /\ MInv /\ MInv' /\ [Next]_vars
      /\ MInv /\ up => PendingAgrees
      /\ (MInv /\ up => PendingAgrees)'
      => [Promise!Next]_(Promise!mapVars)
  BY NextMaps
<1> QED
  BY <1>1, InitMaps, MapInvariant, PendingIsMemory, PTL
  DEF Spec, ImplementsMap, Promise!Spec
=============================================================================
