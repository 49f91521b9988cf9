-------------------------- MODULE Policies_proofs ---------------------------
(***************************************************************************)
(* That memory and directory agree in Policies, and that an assignment     *)
(* never reaches the directory before its revision, for any policies,      *)
(* revisions and groups.                                                   *)
(***************************************************************************)
EXTENDS Policies, SequenceTheorems, TLAPS

Contents == Docs \union Assignments \union ACLs \union {Absent}

\* A content that a path's own kind of file can have.
Fits(p, c) ==
    /\ c \in Contents
    /\ \A r \in Revisions : p = RevisionPath(r) => c \in Docs \union {Absent}
    /\ \A g \in PolicyGroups : p = GroupPath(g) => c \in Assignments \union {Absent}
    /\ \A x \in Guarded : p = ACLPath(x) => IF x \in Unsafe THEN c = Absent
                                                ELSE c \in ACLs \union {Absent}

MemoryOK ==
    /\ revisions \in [Revisions -> Docs \union {None}]
    /\ policyGroups \in [PolicyGroups -> Assignments \union {None}]
    /\ acls \in [Guarded -> ACLs \union {None}]

\* No ACL is stored under a name that SafeName rejects.
MayBeTorn(p) == \A x \in Guarded \intersect Unsafe : p # ACLPath(x)

DiskOK ==
    /\ disk \in [Paths -> Contents \union {Torn}]
    /\ \A p \in Paths : (disk[p] = Torn /\ MayBeTorn(p)) \/ Fits(p, disk[p])

\* A store call leaves one operation, or the two that delete a group.
One(p, c) == p \in Paths /\ Fits(p, c) /\ todo = <<Write(p, c)>>
Two(g) == /\ g \in PolicyGroups \intersect Guarded
          /\ todo = <<Write(GroupPath(g), Absent), Write(ACLPath(g), Absent)>>
TodoOK == todo = <<>> \/ (\E p, c : One(p, c)) \/ (\E g : Two(g))

HandlerOK ==
    \/ handler = <<>>
    \/ \E g \in PolicyGroups, r \in Revisions :
          handler = Assigning(g, r) /\ revisions[r] # None
    \/ \E p \in PolicyNames : \E left \in SUBSET RevisionsOf(p) : handler = Deleting(p, left)

StoreOK == /\ up \in BOOLEAN /\ stale \subseteq Paths /\ leftover \subseteq ACLPaths
           /\ ~up => todo = <<>> /\ stale = {} /\ handler = <<>>

-----------------------------------------------------------------------------
(* What memory says of a path, once the handler is through.                *)

Removed(h, r) == \E left \in SUBSET Revisions : h = Deleting(PolicyOf[r], left) /\ r \notin left
Meant(r) == IF Removed(handler, r) THEN None ELSE revisions[r]
Content(v) == IF v = None THEN Absent ELSE v
Read(c) == IF c # Absent THEN c ELSE None

Agrees(p, c) ==
    /\ \A r \in Plain : p = RevisionPath(r) => c = Content(Meant(r))
    /\ \A g \in PolicyGroups : p = GroupPath(g) /\ (g \notin Hidden \/ policyGroups[g] # None)
                                 => c = Content(policyGroups[g])
    /\ \A g \in Guarded \intersect (PolicyGroups \ Hidden) :
          p = ACLPath(g) => /\ Effective(Read(c)) = Effective(acls[g])
                            /\ policyGroups[g] = None => c = Absent

\* What is still to be written is what memory says; so is what is there of a
\* path that is not to be written, unless an error was answered or ignored.
Coming == \A i \in DOMAIN todo : \A p \in todo[i].at : Agrees(p, todo[i].holds)
Right(p) == p \in stale \union leftover \/ p \in Touched(todo) \/ Agrees(p, disk[p])
OnDiskInv == up => Coming /\ \A p \in Paths : Right(p)

\* Where no process runs, no ACL is there without its group.
Settled ==
    ~up => \A g \in Guarded \intersect (PolicyGroups \ Hidden) :
              LoadedGroup(g) = None /\ ACLPath(g) \notin leftover => disk[ACLPath(g)] = Absent

\* A group that is about to be written assigns nothing new that has no file.
Named(c) == IF c \in Assignments THEN c ELSE NoAssignment
Backed(g, c) ==
    \A p \in PolicyNames :
        LET r == Named(c)[p] IN
          /\ r \in Plain /\ r # Named(disk[GroupPath(g)])[p]
          /\ {GroupPath(g), RevisionPath(r)} \intersect stale = {}
          => disk[RevisionPath(r)] \in Docs
InTurn == \A g \in PolicyGroups :
             todo # <<>> /\ todo[1].at = {GroupPath(g)} => Backed(g, todo[1].holds)

IInv == MemoryOK /\ DiskOK /\ TodoOK /\ HandlerOK /\ StoreOK /\ OnDiskInv /\ InTurn
          /\ Settled

-----------------------------------------------------------------------------
(* Paths and operations.                                                   *)

LEMMA PathsDiffer ==
  /\ \A r, q : RevisionPath(r) = RevisionPath(q) <=> FileName[r] = FileName[q]
  /\ \A g, h : GroupPath(g) = GroupPath(h) => g = h
  /\ \A x, y : ACLPath(x) = ACLPath(y) => x = y
  /\ \A r, g : RevisionPath(r) # GroupPath(g) /\ RevisionPath(r) # ACLPath(g)
  /\ \A g, x : GroupPath(g) # ACLPath(x)
  BY DEF RevisionPath, GroupPath, ACLPath

LEMMA PathsKnown ==
  /\ \A r \in Revisions : RevisionPath(r) \in Paths
  /\ \A g \in PolicyGroups : GroupPath(g) \in Paths
  /\ \A x \in Guarded : ACLPath(x) \in Paths
  BY DEF Paths, ACLPaths

LEMMA PlainAlone ==
  /\ Plain \subseteq Revisions
  /\ \A r \in Plain, q \in Revisions : RevisionPath(q) = RevisionPath(r) => q = r
  BY PathsDiffer DEF Plain

LEMMA MarksKnown ==
  /\ Absent # Torn /\ None # Absent
  /\ {Absent, Torn, Dir, None} \intersect (Docs \union Assignments \union ACLs) = {}
  /\ Dir \notin Contents
  /\ None \notin Revisions /\ None \notin Plain
  /\ DefaultACL \in ACLs
  BY PoliciesAssumption, MarksDiffer DEF Plain, Contents

LEMMA AssignmentsKnown ==
  /\ NoAssignment \in Assignments
  /\ \A a \in Assignments, p \in PolicyNames : a[p] \in Revisions \union {None}
  /\ \A a \in Assignments, r \in Revisions : [a EXCEPT ![PolicyOf[r]] = r] \in Assignments
  /\ \A a \in Assignments, p \in PolicyNames : [a EXCEPT ![p] = None] \in Assignments
  BY MarksKnown DEF Assignments, NoAssignment, PolicyNames

\* The operation that is done first, the ones that are left, what they touch.
LEMMA OneOp ==
  ASSUME NEW s, NEW p, NEW c, s = <<Write(p, c)>>
  PROVE  /\ s # <<>> /\ DOMAIN s = {1} /\ Head(s) = Write(p, c) /\ s[1] = Write(p, c)
         /\ Tail(s) = <<>> /\ Touched(s) = {p}
<1>1. DOMAIN s = {1} /\ Len(s) = 1
  OBVIOUS
<1>2. Tail(s) = <<>> /\ Head(s) = Write(p, c) /\ s[1] = Write(p, c)
  BY <1>1
<1> QED
  BY <1>1, <1>2 DEF Touched, Write

LEMMA TwoOps ==
  ASSUME NEW s, NEW g, s = <<Write(GroupPath(g), Absent), Write(ACLPath(g), Absent)>>
  PROVE  /\ s # <<>> /\ DOMAIN s = {1, 2}
         /\ Head(s) = Write(GroupPath(g), Absent) /\ s[1] = Write(GroupPath(g), Absent)
         /\ s[2] = Write(ACLPath(g), Absent)
         /\ Tail(s) = <<Write(ACLPath(g), Absent)>>
         /\ Touched(s) = {GroupPath(g), ACLPath(g)}
<1>1. DOMAIN s = {1, 2}
  OBVIOUS
<1>2. /\ Head(s) = Write(GroupPath(g), Absent) /\ s[1] = Write(GroupPath(g), Absent)
      /\ s[2] = Write(ACLPath(g), Absent)
      /\ Tail(s) = <<Write(ACLPath(g), Absent)>>
  BY <1>1
<1> QED
  BY <1>1, <1>2 DEF Touched, Write

LEMMA Removing ==
  /\ \A r : ~Removed(<<>>, r)
  /\ \A g, q, r : ~Removed(Assigning(g, q), r)
  /\ \A p, r : \A left \in SUBSET Revisions :
        Removed(Deleting(p, left), r) <=> PolicyOf[r] = p /\ r \notin left
  BY DEF Removed, Assigning, Deleting

\* Only ACLs are left over.
LEMMA NotLeftover ==
  ASSUME IInv
  PROVE  \A x : RevisionPath(x) \notin leftover /\ GroupPath(x) \notin leftover
  BY PathsDiffer DEF IInv, StoreOK, ACLPaths

LEMMA NothingLeft == todo = <<>> => Touched(todo) = {} /\ DOMAIN todo = {}
  BY DEF Touched

\* Content is kept by kind.
LEMMA FitsKinds ==
  ASSUME DiskOK, NEW p \in Paths, NEW c, (c = Torn /\ MayBeTorn(p)) \/ Fits(p, c),
         disk' = [disk EXCEPT ![p] = c]
  PROVE  DiskOK'
<1>1. Paths' = Paths /\ disk'[p] = c /\ \A q \in Paths \ {p} : disk'[q] = disk[q]
  BY DEF DiskOK
<1>2. disk' \in [Paths -> Contents \union {Torn}]
  BY DEF DiskOK, Fits
<1>3. ASSUME NEW q \in Paths PROVE (disk'[q] = Torn /\ MayBeTorn(q)) \/ Fits(q, disk'[q])
  <2>1. CASE q = p
    BY <1>1, <2>1
  <2>2. CASE q # p
    BY <1>1, <2>2 DEF DiskOK
  <2> QED
    BY <2>1, <2>2
<1> QED
  BY <1>2, <1>3 DEF DiskOK

\* The next operation of a handler, and the ones after it.
LEMMA NextOp ==
  ASSUME IInv, up, todo # <<>>
  PROVE  \E p, c :
           /\ p \in Paths
           /\ Fits(p, c) /\ Agrees(p, c)
           /\ todo[1] = Write(p, c) /\ Head(todo) = Write(p, c)
           /\ p \in Touched(todo) /\ Touched(todo) \subseteq Paths
           /\ \/ Tail(todo) = <<>> /\ Touched(todo) = {p}
              \/ \E g \in PolicyGroups \intersect Guarded :
                    /\ Tail(todo) = <<Write(ACLPath(g), Absent)>>
                    /\ Agrees(ACLPath(g), Absent)
                    /\ Touched(todo) = {p, ACLPath(g)} /\ p # ACLPath(g)
<1>1. CASE \E p, c : One(p, c)
  <2>1. PICK p, c : One(p, c)
    BY <1>1
  <2>2. p \in Paths /\ Fits(p, c)
    BY <2>1 DEF One
  <2>3. Agrees(p, c)
    <3>1. todo[1] = Write(p, c) /\ 1 \in DOMAIN todo
      BY <2>1, OneOp DEF One
    <3>2. \A q \in Write(p, c).at : Agrees(q, Write(p, c).holds)
      BY <3>1 DEF IInv, OnDiskInv, Coming
    <3> QED
      BY <3>2 DEF Write
  <2> QED
    BY <2>1, <2>2, <2>3, OneOp DEF One
<1>2. CASE \E g : Two(g)
  <2>1. PICK g : Two(g)
    BY <1>2
  <2>2. /\ g \in PolicyGroups \intersect Guarded
        /\ GroupPath(g) \in Paths /\ ACLPath(g) \in Paths
        /\ GroupPath(g) # ACLPath(g)
    BY <2>1, PathsKnown, PathsDiffer DEF Two
  <2>3. Fits(GroupPath(g), Absent)
    BY <2>2, PathsDiffer DEF Fits, Contents
  <2>4. Agrees(GroupPath(g), Absent) /\ Agrees(ACLPath(g), Absent)
    <3>1. /\ todo[1] = Write(GroupPath(g), Absent) /\ todo[2] = Write(ACLPath(g), Absent)
          /\ 1 \in DOMAIN todo /\ 2 \in DOMAIN todo
      BY <2>1, TwoOps DEF Two
    <3>2. /\ \A q \in Write(GroupPath(g), Absent).at : Agrees(q, Write(GroupPath(g), Absent).holds)
          /\ \A q \in Write(ACLPath(g), Absent).at : Agrees(q, Write(ACLPath(g), Absent).holds)
      BY <3>1 DEF IInv, OnDiskInv, Coming
    <3> QED
      BY <3>2 DEF Write
  <2> QED
    BY <2>1, <2>2, <2>3, <2>4, TwoOps DEF Two
<1> QED
  BY <1>1, <1>2 DEF IInv, TodoOK

\* Memory and handler say the same as before.
LEMMA SameMeaning ==
  ASSUME UNCHANGED <<memory, handler>>, NEW p, NEW c, Agrees(p, c)
  PROVE  Agrees(p, c)'
<1>1. /\ policyGroups' = policyGroups /\ acls' = acls
      /\ \A r \in Plain : Meant(r)' = Meant(r)
  BY DEF memory, Meant, Removed
<1> QED
  BY <1>1 DEF Agrees

LEMMA PersistInv == IInv /\ Persist => IInv'
<1> SUFFICES ASSUME IInv, Persist PROVE IInv'
  OBVIOUS
<1>1. up /\ up' /\ todo # <<>> /\ UNCHANGED <<memory, handler>>
  BY DEF IInv, StoreOK, Persist, StoreStep
<1>2. PICK p, c :
        /\ p \in Paths
        /\ Fits(p, c) /\ Agrees(p, c)
        /\ Head(todo) = Write(p, c)
        /\ p \in Touched(todo) /\ Touched(todo) \subseteq Paths
        /\ \/ Tail(todo) = <<>> /\ Touched(todo) = {p}
           \/ \E g \in PolicyGroups \intersect Guarded :
                 /\ Tail(todo) = <<Write(ACLPath(g), Absent)>>
                 /\ Agrees(ACLPath(g), Absent)
                 /\ Touched(todo) = {p, ACLPath(g)} /\ p # ACLPath(g)
  BY <1>1, NextOp
<1>3. /\ disk' = [disk EXCEPT ![p] = c]
      /\ disk'[p] = c /\ \A q \in Paths \ {p} : disk'[q] = disk[q]
      /\ stale' = stale \ {p} /\ leftover' = leftover \ {p} /\ todo' = Tail(todo)
  <2>1. /\ disk' = Apply(Write(p, c), disk) /\ todo' = Tail(todo)
        /\ stale' = stale \ Write(p, c).at /\ leftover' = leftover \ Write(p, c).at
    BY <1>2 DEF Persist, StoreStep
  <2>2. disk \in [Paths -> Contents \union {Torn}]
    BY DEF IInv, DiskOK
  <2>3. disk' = [disk EXCEPT ![p] = c] /\ stale' = stale \ {p} /\ leftover' = leftover \ {p}
    BY <2>1, <2>2 DEF Apply, Write
  <2>4. disk'[p] = c /\ \A q \in Paths \ {p} : disk'[q] = disk[q]
    BY <1>2, <2>2, <2>3
  <2> QED
    BY <2>1, <2>3, <2>4
<1>4. MemoryOK' /\ HandlerOK' /\ StoreOK' /\ Settled'
  BY <1>1, <1>3 DEF IInv, MemoryOK, HandlerOK, StoreOK, Settled, memory
<1>5. DiskOK'
  BY <1>2, <1>3, FitsKinds DEF IInv
<1>6. CASE Tail(todo) = <<>> /\ Touched(todo) = {p}
  <2>1. TodoOK' /\ InTurn' /\ Coming'
    BY <1>3, <1>6, NothingLeft DEF TodoOK, InTurn, Coming
  <2>2. ASSUME NEW q \in Paths PROVE Right(q)'
    <3>1. CASE q = p
      BY <1>1, <1>2, <1>3, <3>1, SameMeaning DEF Right
    <3>2. CASE q # p
      BY <1>1, <1>3, <1>6, <3>2, SameMeaning DEF Right, IInv, OnDiskInv
    <3> QED
      BY <3>1, <3>2
  <2> QED
    BY <1>4, <1>5, <2>1, <2>2 DEF IInv, OnDiskInv
<1>7. CASE \E g \in PolicyGroups \intersect Guarded :
              /\ Tail(todo) = <<Write(ACLPath(g), Absent)>>
              /\ Agrees(ACLPath(g), Absent)
              /\ Touched(todo) = {p, ACLPath(g)} /\ p # ACLPath(g)
  <2>1. PICK g \in PolicyGroups \intersect Guarded :
              /\ Tail(todo) = <<Write(ACLPath(g), Absent)>>
              /\ Agrees(ACLPath(g), Absent)
              /\ Touched(todo) = {p, ACLPath(g)} /\ p # ACLPath(g)
    BY <1>7
  <2>2. One(ACLPath(g), Absent)'
    <3>1. Fits(ACLPath(g), Absent)
      BY PathsDiffer DEF Fits, Contents
    <3> QED
      BY <1>3, <2>1, <3>1, PathsKnown DEF One
  <2>3. /\ todo'[1] = Write(ACLPath(g), Absent) /\ DOMAIN todo' = {1}
        /\ Touched(todo') = {ACLPath(g)}
    BY <1>3, <2>1, OneOp
  <2>4. TodoOK' /\ InTurn'
    BY <2>2, <2>3, PathsDiffer DEF TodoOK, InTurn, Write
  <2>5. Coming'
    BY <1>1, <2>1, <2>3, SameMeaning DEF Coming, Write
  <2>6. ASSUME NEW q \in Paths PROVE Right(q)'
    <3>1. CASE q = p
      BY <1>1, <1>2, <1>3, <3>1, SameMeaning DEF Right
    <3>2. CASE q # p
      BY <1>1, <1>3, <2>1, <2>3, <3>2, SameMeaning DEF Right, IInv, OnDiskInv
    <3> QED
      BY <3>1, <3>2
  <2> QED
    BY <1>4, <1>5, <2>4, <2>5, <2>6 DEF IInv, OnDiskInv
<1> QED
  BY <1>2, <1>6, <1>7

-----------------------------------------------------------------------------
(* The process.                                                            *)

\* A file that is cut short is as it was, or empty and not JSON, or gone when
\* it was to be removed.
LEMMA CutFile ==
  ASSUME DiskOK, NEW p \in Paths, NEW c, Fits(p, c), NEW done \in SUBSET {p},
         disk' = Apply(CutShort(Write(p, c), done), disk)
  PROVE  \/ disk' = disk
         \/ disk' = [disk EXCEPT ![p] = Torn] /\ c # Absent
         \/ disk' = [disk EXCEPT ![p] = Absent] /\ c = Absent
<1>1. disk \in [Paths -> Contents \union {Torn}]
  BY DEF DiskOK
<1>2. c # Dir
  BY MarksKnown DEF Fits
<1>3. Write(p, c).holds = c
  BY DEF Write
<1>4. CASE done = {}
  BY <1>1, <1>4 DEF Apply, CutShort
<1>5. CASE done = {p} /\ c = Absent
  <2>1. CutShort(Write(p, c), done) = [at |-> {p}, holds |-> Absent]
    BY <1>3, <1>5 DEF CutShort
  <2>2. disk' = Apply([at |-> {p}, holds |-> Absent], disk)
    BY <2>1
  <2>3. disk' = [disk EXCEPT ![p] = Absent]
    BY <1>1, <2>2 DEF Apply
  <2> QED
    BY <1>5, <2>3
<1>6. CASE done = {p} /\ c # Absent
  <2>1. CutShort(Write(p, c), done) = [at |-> {p}, holds |-> Torn]
    BY <1>2, <1>3, <1>6 DEF CutShort
  <2>2. disk' = Apply([at |-> {p}, holds |-> Torn], disk)
    BY <2>1
  <2>3. disk' = [disk EXCEPT ![p] = Torn]
    BY <1>1, <2>2 DEF Apply
  <2> QED
    BY <1>6, <2>3
<1> QED
  BY <1>4, <1>5, <1>6

LEMMA CutKeeps ==
  ASSUME DiskOK, NEW p \in Paths, NEW c, Fits(p, c), NEW done \in SUBSET {p},
         disk' = Apply(CutShort(Write(p, c), done), disk)
  PROVE  DiskOK' /\ \A q \in Paths \ {p} : disk'[q] = disk[q]
<1>1. disk \in [Paths -> Contents \union {Torn}]
  BY DEF DiskOK
<1>2. CASE disk' = disk
  BY <1>2 DEF DiskOK
<1>3. CASE disk' = [disk EXCEPT ![p] = Torn] /\ c # Absent
  <2>1. MayBeTorn(p)
    BY <1>3 DEF Fits, MayBeTorn
  <2> QED
    BY <1>1, <1>3, <2>1, FitsKinds
<1>4. CASE disk' = [disk EXCEPT ![p] = Absent] /\ c = Absent
  BY <1>1, <1>4, FitsKinds
<1> QED
  BY <1>2, <1>3, <1>4, CutFile

LEMMA FaultInv == IInv /\ Fault => IInv'
<1> SUFFICES ASSUME IInv, Fault PROVE IInv'
  OBVIOUS
<1>1. /\ up /\ up' /\ todo # <<>> /\ todo' = <<>> /\ handler' = <<>>
      /\ stale' = stale \union Touched(todo) \union ChangedBefore
      /\ UNCHANGED <<memory, leftover>>
  BY DEF IInv, StoreOK, Fault, StoreFaultOn
<1>2. PICK p, c : /\ p \in Paths /\ Fits(p, c) /\ Head(todo) = Write(p, c)
                  /\ p \in Touched(todo) /\ Touched(todo) \subseteq Paths
  BY <1>1, NextOp
<1>3. DiskOK' /\ \A q \in Paths \ {p} : disk'[q] = disk[q]
  <2>1. PICK done \in SUBSET {p} : disk' = Apply(CutShort(Write(p, c), done), disk)
    <3>1. Write(p, c).at = {p}
      BY DEF Write
    <3> QED
      BY <1>2, <3>1 DEF Fault, StoreFaultOn
  <2> QED
    BY <1>2, <2>1, CutKeeps DEF IInv
<1>4. stale' \subseteq Paths
  BY <1>1, <1>2, PathsKnown DEF IInv, StoreOK, ChangedBefore
<1>5. MemoryOK' /\ TodoOK' /\ HandlerOK' /\ StoreOK' /\ InTurn' /\ Coming' /\ Settled'
  BY <1>1, <1>4, NothingLeft
     DEF IInv, MemoryOK, TodoOK, HandlerOK, StoreOK, InTurn, Coming, Settled, memory
<1>6. ASSUME NEW q \in Paths, q \notin (stale \union leftover)' PROVE Agrees(q, disk[q])'
  <2>1. disk'[q] = disk[q] /\ Agrees(q, disk[q])
    BY <1>1, <1>2, <1>3, <1>6 DEF IInv, OnDiskInv, Right
  <2>2. ASSUME NEW r \in Plain, q = RevisionPath(r) PROVE Meant(r)' = Meant(r)
    <3>1. ~Removed(handler, r)
      BY <1>1, <1>6, <2>2, PlainAlone DEF Removed, ChangedBefore
    <3> QED
      BY <1>1, <3>1, Removing DEF Meant, memory
  <2> QED
    BY <1>1, <2>1, <2>2 DEF Agrees, memory
<1>7. OnDiskInv'
  BY <1>5, <1>6 DEF OnDiskInv, Right
<1> QED
  BY <1>3, <1>5, <1>7 DEF IInv

\* An error that nobody sees: the file stays, and is in leftover.
LEMMA ACLStaysInv == IInv /\ ACLStays => IInv'
<1> SUFFICES ASSUME IInv, ACLStays PROVE IInv'
  OBVIOUS
<1>1. /\ up /\ up' /\ todo # <<>> /\ todo' = Tail(todo)
      /\ UNCHANGED <<memory, handler, disk, stale>>
  BY DEF IInv, StoreOK, ACLStays, StoreFaultIgnored
<1>2. PICK p, c :
        /\ p \in Paths
        /\ Fits(p, c) /\ Agrees(p, c)
        /\ Head(todo) = Write(p, c)
        /\ \/ Tail(todo) = <<>> /\ Touched(todo) = {p}
           \/ \E g \in PolicyGroups \intersect Guarded :
                 /\ Tail(todo) = <<Write(ACLPath(g), Absent)>>
                 /\ Agrees(ACLPath(g), Absent)
                 /\ Touched(todo) = {p, ACLPath(g)} /\ p # ACLPath(g)
  BY <1>1, NextOp
<1>3. /\ p \in ACLPaths /\ c = Absent
      /\ leftover' = leftover \union {q \in {p} : disk[q] # Absent}
  BY <1>2 DEF ACLStays, StoreFaultIgnored, ErrorIgnored, RemoveFile, RemoveAll, Write
<1>4. MemoryOK' /\ DiskOK' /\ HandlerOK' /\ StoreOK' /\ Settled'
  BY <1>1, <1>3 DEF IInv, MemoryOK, DiskOK, HandlerOK, StoreOK, Settled, memory
<1>5. Right(p)'
  BY <1>1, <1>2, <1>3, SameMeaning DEF Right
<1>6. CASE Tail(todo) = <<>> /\ Touched(todo) = {p}
  <2>1. TodoOK' /\ InTurn' /\ Coming'
    BY <1>1, <1>6, NothingLeft DEF TodoOK, InTurn, Coming
  <2>2. ASSUME NEW q \in Paths, q # p PROVE Right(q)'
    BY <1>1, <1>3, <1>6, <2>2, SameMeaning DEF Right, IInv, OnDiskInv
  <2> QED
    BY <1>4, <1>5, <2>1, <2>2 DEF IInv, OnDiskInv
<1>7. CASE \E g \in PolicyGroups \intersect Guarded :
              /\ Tail(todo) = <<Write(ACLPath(g), Absent)>>
              /\ Agrees(ACLPath(g), Absent)
              /\ Touched(todo) = {p, ACLPath(g)} /\ p # ACLPath(g)
  <2>1. PICK g \in PolicyGroups \intersect Guarded :
              /\ Tail(todo) = <<Write(ACLPath(g), Absent)>>
              /\ Agrees(ACLPath(g), Absent)
              /\ Touched(todo) = {p, ACLPath(g)} /\ p # ACLPath(g)
    BY <1>7
  <2>2. One(ACLPath(g), Absent)'
    <3>1. Fits(ACLPath(g), Absent)
      BY PathsDiffer DEF Fits, Contents
    <3> QED
      BY <1>1, <2>1, <3>1, PathsKnown DEF One
  <2>3. /\ todo'[1] = Write(ACLPath(g), Absent) /\ DOMAIN todo' = {1}
        /\ Touched(todo') = {ACLPath(g)}
    BY <1>1, <2>1, OneOp
  <2>4. TodoOK' /\ InTurn'
    BY <2>2, <2>3, PathsDiffer DEF TodoOK, InTurn, Write
  <2>5. Coming'
    BY <1>1, <2>1, <2>3, SameMeaning DEF Coming, Write
  <2>6. ASSUME NEW q \in Paths, q # p PROVE Right(q)'
    BY <1>1, <1>3, <2>1, <2>3, <2>6, SameMeaning DEF Right, IInv, OnDiskInv
  <2> QED
    BY <1>4, <1>5, <2>4, <2>5, <2>6 DEF IInv, OnDiskInv
<1> QED
  BY <1>2, <1>6, <1>7

LEMMA CrashInv == IInv /\ Crash => IInv'
<1> SUFFICES ASSUME IInv, Crash PROVE IInv'
  OBVIOUS
<1>1. /\ up /\ ~up' /\ up' \in BOOLEAN /\ todo' = <<>> /\ handler' = <<>> /\ stale' = {}
      /\ leftover \subseteq leftover' /\ leftover' \subseteq leftover \union ACLPaths
  BY DEF Crash, ProcessDies, ACLPaths
<1>2. MemoryOK'
  BY DEF Crash, MemoryOK
<1>3. DiskOK' /\ \A q \in Paths \ Touched(todo) : disk'[q] = disk[q]
  <2>1. CASE disk' = disk
    BY <2>1 DEF IInv, DiskOK
  <2>2. CASE todo # <<>> /\ disk' # disk
    <3>1. PICK p, c : p \in Paths /\ Fits(p, c) /\ Head(todo) = Write(p, c) /\ p \in Touched(todo)
      BY <1>1, <2>2, NextOp
    <3>2. PICK done \in SUBSET {p} : disk' = Apply(CutShort(Write(p, c), done), disk)
      <4>1. Write(p, c).at = {p}
        BY DEF Write
      <4> QED
        BY <2>2, <3>1, <4>1 DEF Crash, ProcessDies
    <3> QED
      BY <3>1, <3>2, CutKeeps DEF IInv
  <2> QED
    BY <2>1, <2>2 DEF Crash, ProcessDies
<1>4. Settled'
  <2> SUFFICES ASSUME NEW g \in Guarded \intersect (PolicyGroups \ Hidden),
                      LoadedGroup(g)' = None, ACLPath(g) \notin leftover'
               PROVE  disk'[ACLPath(g)] = Absent
    BY DEF Settled
  <2>1. ~Unsettled(g) /\ GroupPath(g) \notin leftover
    BY PathsDiffer DEF Crash, IInv, StoreOK, ACLPaths
  <2>2. /\ {GroupPath(g), ACLPath(g)} \subseteq Paths
        /\ \A q \in {GroupPath(g), ACLPath(g)} :
              q \notin stale \union leftover /\ q \notin Touched(todo) /\ disk'[q] = disk[q]
    BY <1>1, <1>3, <2>1, PathsKnown DEF Unsettled
  <2>3. Agrees(GroupPath(g), disk[GroupPath(g)]) /\ Agrees(ACLPath(g), disk[ACLPath(g)])
    BY <1>1, <2>2 DEF IInv, OnDiskInv, Right
  <2>4. policyGroups[g] # None => policyGroups[g] \in Assignments
    BY DEF IInv, MemoryOK
  <2>5. policyGroups[g] = None
    BY <2>2, <2>3, <2>4, MarksKnown DEF Agrees, Content, LoadedGroup, Listed, GroupPath
  <2> QED
    BY <2>2, <2>3, <2>5 DEF Agrees
<1>5. StoreOK'
  BY <1>1 DEF IInv, StoreOK
<1> QED
  BY <1>1, <1>2, <1>3, <1>4, <1>5 DEF IInv, TodoOK, HandlerOK, OnDiskInv, InTurn

LEMMA StartInv == IInv /\ Start => IInv'
<1> SUFFICES ASSUME IInv, Start PROVE IInv'
  OBVIOUS
<1>1. /\ ~up /\ up' /\ up' \in BOOLEAN /\ todo = <<>> /\ stale = {} /\ handler = <<>>
      /\ UNCHANGED <<disk, todo, stale, handler, leftover>>
      /\ \A p \in Paths : Listed(p) => disk[p] # Torn
      /\ revisions' = [r \in Revisions |-> LoadedRevision(r)]
      /\ policyGroups' = [g \in PolicyGroups |-> LoadedGroup(g)]
      /\ acls' = [x \in Guarded |-> LoadedACL(x)]
  BY DEF IInv, StoreOK, Start, ProcessStarts, Loadable
<1>2. \A p \in Paths : Listed(p) => Fits(p, disk[p])
  BY <1>1 DEF IInv, DiskOK
<1>3. MemoryOK'
  <2>1. revisions' \in [Revisions -> Docs \union {None}]
    BY <1>1, <1>2, PathsKnown DEF LoadedRevision, Listed, Fits
  <2>2. policyGroups' \in [PolicyGroups -> Assignments \union {None}]
    BY <1>1, <1>2, PathsKnown DEF LoadedGroup, Listed, Fits
  <2>3. acls' \in [Guarded -> ACLs \union {None}]
    BY <1>1, <1>2, PathsKnown DEF LoadedACL, Listed, Fits
  <2> QED
    BY <2>1, <2>2, <2>3 DEF MemoryOK
<1>4. DiskOK' /\ TodoOK' /\ HandlerOK' /\ StoreOK' /\ InTurn' /\ Coming' /\ Settled'
  BY <1>1, NothingLeft DEF IInv, DiskOK, TodoOK, HandlerOK, StoreOK, InTurn, Coming, Settled
<1>5. ASSUME NEW q \in Paths, q \notin leftover PROVE Agrees(q, disk[q])'
  <2>1. ASSUME NEW r \in Plain, q = RevisionPath(r)
        PROVE  disk[q] = Content(Meant(r)')
    <3>1. /\ r \in Revisions /\ ReadAs[FileName[r]] = r
          /\ q[2] \notin Hidden
      BY <2>1 DEF Plain, RevisionPath
    <3>2. Meant(r)' = IF disk[q] # Absent THEN disk[q] ELSE None
      BY <1>1, <2>1, <3>1, Removing DEF Meant, LoadedRevision, Listed
    <3>3. disk[q] # Absent => disk[q] \in Docs
      BY <1>2, <2>1, <3>1 DEF Listed, Fits
    <3> QED
      BY <3>2, <3>3, MarksKnown DEF Content
  <2>2. ASSUME NEW g \in PolicyGroups, q = GroupPath(g), g \notin Hidden \/ policyGroups'[g] # None
        PROVE  disk[q] = Content(policyGroups'[g])
    <3>1. g \notin Hidden /\ q[2] = g
      BY <1>1, <2>2 DEF LoadedGroup, Listed, GroupPath
    <3>2. policyGroups'[g] = IF disk[q] # Absent THEN disk[q] ELSE None
      BY <1>1, <2>2, <3>1 DEF LoadedGroup, Listed
    <3>3. disk[q] # Absent => disk[q] \in Assignments
      BY <1>2, <2>2, <3>1 DEF Listed, Fits
    <3> QED
      BY <3>2, <3>3, MarksKnown DEF Content
  <2>3. ASSUME NEW g \in Guarded \intersect (PolicyGroups \ Hidden), q = ACLPath(g)
        PROVE  Read(disk[q]) = acls'[g] /\ (policyGroups'[g] = None => disk[q] = Absent)
    <3>1. Read(disk[q]) = acls'[g]
      BY <1>1, <2>3 DEF Read, LoadedACL, Listed, ACLPath
    <3>2. policyGroups'[g] = LoadedGroup(g)
      BY <1>1
    <3> QED
      BY <1>1, <1>5, <2>3, <3>1, <3>2 DEF IInv, Settled
  <2> QED
    BY <1>1, <2>1, <2>2, <2>3 DEF Agrees
<1> QED
  BY <1>1, <1>3, <1>4, <1>5 DEF IInv, OnDiskInv, Right

-----------------------------------------------------------------------------
(* Requests.                                                               *)

\* A step without file operations: what the directory holds still is what
\* memory says, or an error is answered.
LEMMA QuietInv ==
  ASSUME IInv, UNCHANGED leftover, Idle, UNCHANGED <<disk, todo, up>>,
         stale \subseteq stale', stale' \subseteq Paths,
         MemoryOK', HandlerOK',
         \A q \in Paths \ stale' : \A c : Agrees(q, c) => Agrees(q, c)'
  PROVE  IInv'
<1>1. todo = <<>> /\ todo' = <<>> /\ up' /\ up' \in BOOLEAN
  BY DEF Idle
<1>2. DiskOK' /\ TodoOK' /\ StoreOK' /\ InTurn' /\ Coming' /\ Settled'
  BY <1>1, NothingLeft DEF IInv, DiskOK, TodoOK, StoreOK, InTurn, Coming, Settled
<1>3. ASSUME NEW q \in Paths, q \notin (stale \union leftover)' PROVE Agrees(q, disk[q])'
  BY <1>1, <1>3, NothingLeft DEF IInv, OnDiskInv, Right, Idle
<1> QED
  BY <1>2, <1>3 DEF IInv, OnDiskInv, Right

\* A step with one store call, for one path.
LEMMA CallInv ==
  ASSUME IInv, UNCHANGED leftover, Idle, NEW p \in Paths, NEW c, Fits(p, c),
         NEW accepted, StoreCall(p, <<Write(p, c)>>, accepted),
         MemoryOK', HandlerOK',
         Agrees(p, c)',
         \A q \in Paths \ {p} : \A d : Agrees(q, d) => Agrees(q, d)',
         \A g \in PolicyGroups : p = GroupPath(g) => Backed(g, c)
  PROVE  IInv'
<1>1. CASE ~accepted
  <2>1. UNCHANGED <<disk, todo, up>> /\ stale' = stale \union {p}
    BY <1>1 DEF StoreCall, StoreCallFails, Idle
  <2> QED
    BY <2>1, QuietInv DEF IInv, StoreOK
<1>2. CASE accepted
  <2>1. /\ todo' = <<Write(p, c)>> /\ todo'[1] = Write(p, c) /\ DOMAIN todo' = {1}
        /\ Touched(todo') = {p} /\ UNCHANGED <<disk, up, stale>> /\ up'
    BY <1>2, OneOp DEF StoreCall, Idle
  <2>2. DiskOK' /\ StoreOK' /\ Settled'
    BY <2>1 DEF IInv, DiskOK, StoreOK, Settled
  <2>3. TodoOK'
    BY <2>1 DEF TodoOK, One
  <2>4. Coming'
    BY <2>1 DEF Coming, Write
  <2>5. InTurn'
    BY <2>1 DEF InTurn, Backed, Write
  <2>6. ASSUME NEW q \in Paths, q # p PROVE Right(q)'
    BY <2>1, <2>6, NothingLeft DEF IInv, OnDiskInv, Right, Idle
  <2>7. OnDiskInv'
    BY <2>1, <2>4, <2>6 DEF OnDiskInv, Right
  <2> QED
    BY <2>2, <2>3, <2>5, <2>7 DEF IInv
<1> QED
  BY <1>1, <1>2

\* Between requests nothing is about to be removed.
LEMMA FreeFacts ==
  ASSUME IInv, Free
  PROVE  /\ Idle /\ handler = <<>> /\ MemoryOK
         /\ \A r : Meant(r) = revisions[r]
  BY Removing DEF IInv, Free, Meant

\* A path that only one revision can be meant by.
LEMMA RevisionPutInv ==
  ASSUME IInv, UNCHANGED leftover, Free, NEW r \in Revisions, NEW v \in Docs \union {None},
         revisions' = [revisions EXCEPT ![r] = v],
         UNCHANGED <<policyGroups, acls>>,
         handler' = <<>> \/ \E g \in PolicyGroups : v # None /\ handler' = Assigning(g, r),
         NEW accepted, StoreCall(RevisionPath(r), <<Write(RevisionPath(r), Content(v))>>, accepted)
  PROVE  IInv'
<1> DEFINE p == RevisionPath(r)
           c == Content(v)
<1>1. p \in Paths /\ c \in Docs \union {Absent} /\ Fits(p, c)
  BY PathsKnown, PathsDiffer DEF Content, Fits, Contents
<1>2. MemoryOK' /\ HandlerOK' /\ revisions'[r] = v
  BY FreeFacts DEF MemoryOK, HandlerOK
<1>3. \A q : Meant(q)' = revisions'[q]
  BY Removing DEF Meant
<1>4. Agrees(p, c)'
  BY <1>2, <1>3, PlainAlone, PathsDiffer DEF Agrees
<1>5. ASSUME NEW q \in Paths \ {p}, NEW d, Agrees(q, d) PROVE Agrees(q, d)'
  <2>1. ASSUME NEW x \in Plain, q = RevisionPath(x) PROVE Meant(x)' = Meant(x)
    BY <1>3, <1>5, <2>1, FreeFacts, PlainAlone DEF MemoryOK
  <2> QED
    BY <1>5, <2>1 DEF Agrees
<1>6. \A g \in PolicyGroups : p = GroupPath(g) => Backed(g, c)
  BY PathsDiffer
<1> QED
  BY <1>1, <1>2, <1>4, <1>5, <1>6, FreeFacts, CallInv

LEMMA RevisionPostInv ==
  ASSUME IInv, UNCHANGED leftover, NEW r \in Revisions, NEW doc \in Docs, RevisionPost(r, doc)
  PROVE  IInv'
<1>1. Content(doc) = doc
  BY MarksKnown DEF Content
<1> QED
  BY <1>1, RevisionPutInv DEF RevisionPost, PutRevision, Free

LEMMA RevisionDeleteInv ==
  ASSUME IInv, UNCHANGED leftover, NEW r \in Revisions, RevisionDelete(r)
  PROVE  IInv'
<1>1. RemoveFile(RevisionPath(r)) = Write(RevisionPath(r), Content(None))
  BY DEF RemoveFile, RemoveAll, Write, Content
<1> QED
  BY <1>1, RevisionPutInv DEF RevisionDelete, DeleteRevision, Free

LEMMA PolicyDeleteInv ==
  ASSUME IInv, UNCHANGED leftover, NEW p \in PolicyNames, PolicyDelete(p)
  PROVE  IInv'
<1> DEFINE left == {r \in RevisionsOf(p) : revisions[r] # None}
<1>1. /\ Free /\ handler' = Deleting(p, left) /\ UNCHANGED memory
      /\ UNCHANGED <<disk, todo, up, stale>>
  BY DEF PolicyDelete, NoStoreCall, storeVars
<1>2. left \subseteq RevisionsOf(p) /\ RevisionsOf(p) \subseteq Revisions
  BY DEF RevisionsOf
<1>3. MemoryOK' /\ HandlerOK'
  <2>1. left \in SUBSET RevisionsOf(p)
    BY <1>2
  <2> QED
    BY <1>1, <2>1 DEF IInv, MemoryOK, HandlerOK, memory
<1>4. ASSUME NEW r \in Plain PROVE Meant(r)' = Meant(r)
  <2>1. Removed(handler', r) => r \in RevisionsOf(p) /\ r \notin left
    BY <1>1, <1>2, Removing, PlainAlone DEF RevisionsOf
  <2> QED
    BY <1>1, <2>1, FreeFacts DEF Meant, memory
<1>5. \A q \in Paths : \A c : Agrees(q, c) => Agrees(q, c)'
  BY <1>1, <1>4 DEF Agrees, memory
<1> QED
  BY <1>1, <1>3, <1>5, FreeFacts, QuietInv DEF IInv, StoreOK

LEMMA DeleteNextInv ==
  ASSUME IInv, UNCHANGED leftover, NEW p \in PolicyNames, NEW left \in SUBSET Revisions, DeleteNext(p, left)
  PROVE  IInv'
<1>1. /\ Idle /\ handler = Deleting(p, left) /\ UNCHANGED memory
      /\ MemoryOK /\ MemoryOK'
  BY DEF DeleteNext, IInv, MemoryOK, memory
<1>2. left \subseteq RevisionsOf(p)
  BY <1>1 DEF IInv, HandlerOK, Deleting, Assigning
<1>3. PICK r \in left :
         IF r \in Unsafe
           THEN /\ handler' = <<>>
                /\ stale' = stale \union {RevisionPath(q) : q \in (RevisionsOf(p) \ left) \union {r}}
                /\ UNCHANGED <<disk, todo, up>>
           ELSE /\ handler' = Deleting(p, left \ {r})
                /\ DeleteRevision(r)
  BY DEF DeleteNext
<1>4. r \in Revisions /\ PolicyOf[r] = p /\ RevisionPath(r) \in Paths
  BY <1>2, PathsKnown DEF RevisionsOf
<1>5. \A x : Removed(handler, x) <=> PolicyOf[x] = p /\ x \notin left
  BY <1>1, Removing
<1>6. CASE r \in Unsafe
  <2>1. ASSUME NEW q \in Paths \ stale', NEW c, Agrees(q, c) PROVE Agrees(q, c)'
    <3>1. ASSUME NEW x \in Plain, q = RevisionPath(x) PROVE Meant(x)' = Meant(x)
      <4>1. ~Removed(handler, x)
        BY <1>3, <1>5, <1>6, <2>1, <3>1, PlainAlone DEF RevisionsOf
      <4> QED
        BY <1>1, <1>3, <1>6, <4>1, Removing DEF Meant, memory
    <3> QED
      BY <1>1, <2>1, <3>1 DEF Agrees, memory
  <2>2. stale' \subseteq Paths /\ HandlerOK'
    BY <1>3, <1>4, <1>6, PathsKnown DEF IInv, StoreOK, HandlerOK, RevisionsOf
  <2> QED
    BY <1>1, <1>3, <1>6, <2>1, <2>2, QuietInv
<1>7. CASE r \notin Unsafe
  <2>1. /\ handler' = Deleting(p, left \ {r})
        /\ StoreCall(RevisionPath(r), <<Write(RevisionPath(r), Absent)>>, TRUE)
    BY <1>3, <1>7 DEF DeleteRevision, RemoveFile, RemoveAll, Write
  <2>2. HandlerOK'
    <3>1. left \ {r} \in SUBSET RevisionsOf(p)
      BY <1>2
    <3> QED
      BY <2>1, <3>1 DEF HandlerOK
  <2>3. \A x : Removed(handler', x) <=> PolicyOf[x] = p /\ x \notin left \ {r}
    BY <2>1, Removing
  <2>4. Fits(RevisionPath(r), Absent)
    BY PathsDiffer DEF Fits, Contents
  <2>5. Agrees(RevisionPath(r), Absent)'
    <3>1. Meant(r)' = None
      BY <1>4, <2>3 DEF Meant
    <3> QED
      BY <1>4, <3>1, PlainAlone, PathsDiffer DEF Agrees, Content
  <2>6. ASSUME NEW q \in Paths \ {RevisionPath(r)}, NEW d, Agrees(q, d) PROVE Agrees(q, d)'
    <3>1. ASSUME NEW x \in Plain, q = RevisionPath(x) PROVE Meant(x)' = Meant(x)
      BY <1>1, <1>5, <2>3, <2>6, <3>1 DEF Meant, memory
    <3> QED
      BY <1>1, <2>6, <3>1 DEF Agrees, memory
  <2>7. \A g \in PolicyGroups : RevisionPath(r) = GroupPath(g) => Backed(g, Absent)
    BY PathsDiffer
  <2> QED
    BY <1>1, <1>4, <2>1, <2>2, <2>4, <2>5, <2>6, <2>7, CallInv
<1> QED
  BY <1>6, <1>7

LEMMA DeleteLastInv ==
  ASSUME IInv, UNCHANGED leftover, NEW p \in PolicyNames, DeleteLast(p)
  PROVE  IInv'
<1>1. /\ Idle /\ handler = Deleting(p, {}) /\ handler' = <<>>
      /\ revisions' = [r \in Revisions |-> IF r \in RevisionsOf(p) THEN None ELSE revisions[r]]
      /\ acls' = [x \in Guarded |-> IF x = p THEN None ELSE acls[x]]
      /\ UNCHANGED policyGroups /\ UNCHANGED <<disk, todo, up, stale>>
  BY DEF DeleteLast, NoStoreCall, storeVars
<1>2. MemoryOK' /\ HandlerOK'
  BY <1>1 DEF IInv, MemoryOK, HandlerOK
<1>3. ASSUME NEW r \in Plain PROVE Meant(r)' = Meant(r)
  <2>1. r \in Revisions /\ {} \in SUBSET Revisions
    BY PlainAlone
  <2>2. Removed(handler, r) <=> r \in RevisionsOf(p)
    BY <1>1, <2>1, Removing DEF RevisionsOf
  <2> QED
    BY <1>1, <2>1, <2>2, Removing DEF Meant
<1>4. ASSUME NEW g \in Guarded \intersect (PolicyGroups \ Hidden) PROVE acls'[g] = acls[g]
  BY <1>1, PoliciesAssumption
<1>5. \A q \in Paths : \A c : Agrees(q, c) => Agrees(q, c)'
  BY <1>1, <1>3, <1>4 DEF Agrees, Effective
<1> QED
  BY <1>1, <1>2, <1>5, QuietInv DEF IInv, StoreOK

\* The group's file, when no error was answered for it, says what memory says.
LEMMA GroupFile ==
  ASSUME IInv, Idle, NEW g \in PolicyGroups, GroupPath(g) \notin stale, policyGroups[g] # None
  PROVE  Named(disk[GroupPath(g)]) = policyGroups[g]
<1>1. Agrees(GroupPath(g), disk[GroupPath(g)])
  BY PathsKnown, NothingLeft, NotLeftover DEF IInv, OnDiskInv, Right, Idle
<1>2. policyGroups[g] \in Assignments
  BY DEF IInv, MemoryOK
<1> QED
  BY <1>1, <1>2 DEF Agrees, Content, Named

\* A group whose new assignments are those of memory or of a known revision.
LEMMA BackedByMemory ==
  ASSUME IInv, Idle, NEW g \in PolicyGroups, NEW c,
         \A p \in PolicyNames :
            \/ Named(c)[p] = None
            \/ policyGroups[g] # None /\ Named(c)[p] = policyGroups[g][p]
            \/ Named(c)[p] \in Revisions /\ Meant(Named(c)[p]) # None
  PROVE  Backed(g, c)
<1>1. SUFFICES ASSUME NEW p \in PolicyNames, NEW r, r = Named(c)[p],
                      r \in Plain, r # Named(disk[GroupPath(g)])[p],
                      GroupPath(g) \notin stale, RevisionPath(r) \notin stale
               PROVE  disk[RevisionPath(r)] \in Docs
  BY DEF Backed
<1>2. r \in Revisions /\ r # None /\ RevisionPath(r) \in Paths
  BY <1>1, PlainAlone, MarksKnown, PathsKnown
<1>3. Meant(r) # None
  BY <1>1, <1>2, GroupFile
<1>4. Meant(r) \in Docs
  BY <1>2, <1>3 DEF Meant, IInv, MemoryOK
<1>5. Agrees(RevisionPath(r), disk[RevisionPath(r)])
  BY <1>1, <1>2, NothingLeft, NotLeftover DEF IInv, OnDiskInv, Right, Idle
<1> QED
  BY <1>1, <1>3, <1>4, <1>5 DEF Agrees, Content

\* The one change of a group's file that is not its removal.
LEMMA GroupWriteInv ==
  ASSUME IInv, UNCHANGED leftover, Idle, \A r : ~Removed(handler, r), handler' = <<>>,
         NEW g \in PolicyGroups, NEW a \in Assignments,
         policyGroups' = [policyGroups EXCEPT ![g] = a],
         UNCHANGED <<revisions, acls>>,
         NEW accepted, StoreCall(GroupPath(g), <<Write(GroupPath(g), a)>>, accepted),
         \A p \in PolicyNames :
            \/ a[p] = None
            \/ policyGroups[g] # None /\ a[p] = policyGroups[g][p]
            \/ a[p] \in Revisions /\ revisions[a[p]] # None
  PROVE  IInv'
<1>1. /\ GroupPath(g) \in Paths /\ policyGroups'[g] = a
      /\ \A h \in PolicyGroups \ {g} : policyGroups'[h] = policyGroups[h]
  BY PathsKnown DEF IInv, MemoryOK
<1>2. Fits(GroupPath(g), a)
  BY PathsDiffer DEF Fits, Contents
<1>3. MemoryOK' /\ HandlerOK'
  BY DEF IInv, MemoryOK, HandlerOK
<1>4. \A r : Meant(r) = revisions[r] /\ Meant(r)' = Meant(r)
  BY Removing DEF Meant
<1>5. Agrees(GroupPath(g), a)'
  BY <1>1, PathsDiffer, MarksKnown DEF Agrees, Content
<1>6. ASSUME NEW q \in Paths \ {GroupPath(g)}, NEW d, Agrees(q, d) PROVE Agrees(q, d)'
  BY <1>1, <1>4, <1>6, MarksKnown DEF Agrees
<1>7. Backed(g, a)
  BY <1>4, BackedByMemory DEF Named
<1>8. \A h \in PolicyGroups : GroupPath(g) = GroupPath(h) => Backed(h, a)
  BY <1>7, PathsDiffer
<1> QED
  BY <1>1, <1>2, <1>3, <1>5, <1>6, <1>8, CallInv

LEMMA AssignInv ==
  ASSUME IInv, UNCHANGED leftover, Idle, \A q : ~Removed(handler, q),
         NEW g \in PolicyGroups, NEW r \in Revisions, revisions[r] # None, Assign(g, r)
  PROVE  IInv'
<1> DEFINE old == IF policyGroups[g] = None THEN NoAssignment ELSE policyGroups[g]
           a == [old EXCEPT ![PolicyOf[r]] = r]
<1>1. old \in Assignments
  BY AssignmentsKnown DEF IInv, MemoryOK
<1>2. a \in Assignments
  BY <1>1, AssignmentsKnown
<1>3. /\ policyGroups' = [policyGroups EXCEPT ![g] = a] /\ policyGroups'[g] = a
      /\ handler' = <<>> /\ UNCHANGED <<revisions, acls>>
      /\ StoreCall(GroupPath(g), <<Write(GroupPath(g), a)>>, g \notin Unsafe)
  <2>1. policyGroups' = [policyGroups EXCEPT ![g] = a]
    BY DEF Assign, Assigned, IInv, MemoryOK
  <2>2. policyGroups'[g] = a
    BY <2>1 DEF IInv, MemoryOK
  <2> QED
    BY <2>1, <2>2 DEF Assign, PersistPolicyGroup
<1>4. ASSUME NEW p \in PolicyNames
      PROVE  \/ a[p] = None
             \/ policyGroups[g] # None /\ a[p] = policyGroups[g][p]
             \/ a[p] \in Revisions /\ revisions[a[p]] # None
  <2>1. a[p] = IF p = PolicyOf[r] THEN r ELSE old[p]
    BY <1>1 DEF Assignments
  <2> QED
    BY <2>1 DEF NoAssignment
<1> HIDE DEF a, old
<1> QED
  BY <1>2, <1>3, <1>4, GroupWriteInv

LEMMA AssignmentPutInv ==
  ASSUME IInv, UNCHANGED leftover, NEW g \in PolicyGroups, NEW r \in Revisions, NEW doc \in Docs,
         AssignmentPut(g, r, doc)
  PROVE  IInv'
<1>1. Free /\ Idle /\ \A q : ~Removed(handler, q)
  BY Removing DEF AssignmentPut, Free
<1>2. CASE revisions[r] # None
  BY <1>1, <1>2, AssignInv DEF AssignmentPut
<1>3. CASE revisions[r] = None
  <2>1. Content(doc) = doc /\ doc # None
    BY MarksKnown DEF Content
  <2> QED
    BY <1>1, <1>3, <2>1, RevisionPutInv DEF AssignmentPut, PutRevision
<1> QED
  BY <1>2, <1>3

LEMMA AssignNextInv ==
  ASSUME IInv, UNCHANGED leftover, NEW g \in PolicyGroups, NEW r \in Revisions, AssignNext(g, r)
  PROVE  IInv'
<1>1. Idle /\ handler = Assigning(g, r) /\ Assign(g, r)
  BY DEF AssignNext
<1>2. revisions[r] # None
  BY <1>1 DEF IInv, HandlerOK, Assigning, Deleting
<1> QED
  BY <1>1, <1>2, Removing, AssignInv

LEMMA AssignmentDeleteInv ==
  ASSUME IInv, UNCHANGED leftover, NEW g \in PolicyGroups, NEW p \in PolicyNames, AssignmentDelete(g, p)
  PROVE  IInv'
<1> DEFINE a == [policyGroups[g] EXCEPT ![p] = None]
<1>1. Idle /\ handler = <<>> /\ handler' = <<>> /\ policyGroups[g] # None
      /\ UNCHANGED <<revisions, acls>>
  BY DEF AssignmentDelete, Free
<1>2. policyGroups[g] \in Assignments /\ a \in Assignments
  BY <1>1, AssignmentsKnown DEF IInv, MemoryOK
<1>3. policyGroups' = [policyGroups EXCEPT ![g] = a] /\ policyGroups'[g] = a
  BY DEF AssignmentDelete, IInv, MemoryOK
<1>4. StoreCall(GroupPath(g), <<Write(GroupPath(g), a)>>, g \notin Unsafe)
  BY <1>3 DEF AssignmentDelete, PersistPolicyGroup
<1>5. \A x \in PolicyNames : a[x] = None \/ a[x] = policyGroups[g][x]
  BY <1>2 DEF Assignments
<1>6. \A r : ~Removed(handler, r)
  BY <1>1, Removing
<1> HIDE DEF a
<1> QED
  BY <1>1, <1>2, <1>3, <1>4, <1>5, <1>6, GroupWriteInv

LEMMA PolicyGroupDeleteInv ==
  ASSUME IInv, UNCHANGED leftover, NEW g \in PolicyGroups, PolicyGroupDelete(g)
  PROVE  IInv'
<1>1. /\ Idle /\ Free /\ handler = <<>> /\ handler' = <<>>
      /\ policyGroups' = [policyGroups EXCEPT ![g] = None]
      /\ acls' = [x \in Guarded |-> IF x = g THEN None ELSE acls[x]]
      /\ UNCHANGED revisions /\ DeletePolicyGroup(g)
  BY DEF PolicyGroupDelete, Free
<1>2. /\ policyGroups'[g] = None /\ GroupPath(g) \in Paths
      /\ \A h \in PolicyGroups \ {g} : policyGroups'[h] = policyGroups[h]
      /\ \A x \in Guarded \ {g} : acls'[x] = acls[x]
      /\ g \in Guarded => acls'[g] = None
  BY <1>1, PathsKnown DEF IInv, MemoryOK
<1>3. MemoryOK' /\ HandlerOK'
  BY <1>1 DEF IInv, MemoryOK, HandlerOK
<1>4. \A r : Meant(r)' = Meant(r)
  BY <1>1, Removing DEF Meant
<1>5. Agrees(GroupPath(g), Absent)'
  BY <1>2, PathsDiffer DEF Agrees, Content
<1>6. g \in Guarded => Agrees(ACLPath(g), Absent)'
  BY <1>2, PathsDiffer DEF Agrees, Read
<1>7. ASSUME NEW q \in Paths, q # GroupPath(g), g \in Guarded => q # ACLPath(g),
             NEW d, Agrees(q, d)
      PROVE  Agrees(q, d)'
  BY <1>2, <1>4, <1>7 DEF Agrees, Effective
<1>8. Backed(g, Absent)
  <2>1. \A p \in PolicyNames : Named(Absent)[p] = None
    BY MarksKnown DEF Named, NoAssignment
  <2> QED
    BY <1>1, <2>1, BackedByMemory
<1>9. \A h \in PolicyGroups : GroupPath(g) = GroupPath(h) => Backed(h, Absent)
  BY <1>8, PathsDiffer
<1>10. /\ RemoveFile(GroupPath(g)) = Write(GroupPath(g), Absent)
       /\ RemoveFile(ACLPath(g)) = Write(ACLPath(g), Absent)
  BY DEF RemoveFile, RemoveAll, Write
<1>11. CASE g \notin Guarded
  <2>1. StoreCall(GroupPath(g), <<Write(GroupPath(g), Absent)>>, g \notin Unsafe)
    BY <1>1, <1>10, <1>11 DEF DeletePolicyGroup
  <2>2. Fits(GroupPath(g), Absent)
    BY PathsDiffer DEF Fits, Contents
  <2> QED
    BY <1>1, <1>2, <1>3, <1>5, <1>7, <1>9, <1>11, <2>1, <2>2, CallInv
<1>12. CASE g \in Guarded /\ g \in Unsafe
  <2>1. UNCHANGED <<disk, todo, up>> /\ stale' = stale \union {GroupPath(g)}
    BY <1>1, <1>12 DEF DeletePolicyGroup, StoreCall, StoreCallFails, Idle
  <2>2. disk[ACLPath(g)] = Absent
    <3>1. ~MayBeTorn(ACLPath(g))
      BY <1>12 DEF MayBeTorn
    <3> QED
      BY <1>12, <3>1, PathsKnown DEF IInv, DiskOK, Fits
  <2>3. DiskOK' /\ StoreOK' /\ TodoOK' /\ InTurn' /\ Coming' /\ Settled' /\ up'
    BY <1>1, <1>2, <2>1, NothingLeft
       DEF IInv, DiskOK, StoreOK, TodoOK, InTurn, Coming, Settled, Idle
  <2>4. ASSUME NEW q \in Paths PROVE Right(q)'
    <3>1. CASE q \in stale'
      BY <3>1 DEF Right
    <3>2. CASE q = ACLPath(g)
      BY <1>6, <1>12, <2>1, <2>2, <3>2 DEF Right
    <3>3. CASE q \notin stale' /\ q # ACLPath(g)
      BY <1>1, <1>7, <2>1, <3>3, NothingLeft DEF IInv, OnDiskInv, Right, Idle
    <3> QED
      BY <3>1, <3>2, <3>3
  <2> QED
    BY <1>3, <2>3, <2>4 DEF IInv, OnDiskInv
<1>13. CASE g \in Guarded /\ g \notin Unsafe
  <2>1. /\ todo' = <<Write(GroupPath(g), Absent), Write(ACLPath(g), Absent)>>
        /\ UNCHANGED <<disk, up, stale>> /\ up' /\ todo = <<>>
    BY <1>1, <1>10, <1>13 DEF DeletePolicyGroup, StoreCall, Idle
  <2>2. /\ DOMAIN todo' = {1, 2} /\ todo'[1] = Write(GroupPath(g), Absent)
        /\ todo'[2] = Write(ACLPath(g), Absent)
        /\ Touched(todo') = {GroupPath(g), ACLPath(g)}
    BY <2>1, TwoOps
  <2>3. DiskOK' /\ StoreOK' /\ TodoOK' /\ Settled'
    BY <1>13, <2>1 DEF IInv, DiskOK, StoreOK, TodoOK, Settled, Two
  <2>4. Coming'
    BY <1>5, <1>6, <1>13, <2>2 DEF Coming, Write
  <2>5. InTurn'
    BY <1>9, <2>1, <2>2 DEF InTurn, Backed, Write
  <2>6. ASSUME NEW q \in Paths PROVE Right(q)'
    <3>1. CASE q \in Touched(todo')
      BY <3>1 DEF Right
    <3>2. CASE q \notin Touched(todo')
      BY <1>7, <2>1, <2>2, <3>2, NothingLeft DEF IInv, OnDiskInv, Right, Idle
    <3> QED
      BY <3>1, <3>2
  <2> QED
    BY <1>3, <2>3, <2>4, <2>5, <2>6 DEF IInv, OnDiskInv
<1> QED
  BY <1>11, <1>12, <1>13

LEMMA GetACLInv ==
  ASSUME IInv, UNCHANGED leftover, NEW x \in Guarded, GetACL(x)
  PROVE  IInv'
<1>1. /\ Idle /\ handler' = handler /\ UNCHANGED <<disk, todo, up, stale>>
      /\ acls' = [acls EXCEPT ![x] = Effective(@)] /\ UNCHANGED <<revisions, policyGroups>>
  BY DEF GetACL, NoStoreCall, storeVars, Free
<1>2. \A y \in Guarded : acls'[y] = IF y = x THEN Effective(acls[x]) ELSE acls[y]
  BY <1>1 DEF IInv, MemoryOK
<1>3. MemoryOK' /\ HandlerOK'
  BY <1>1, MarksKnown DEF IInv, MemoryOK, HandlerOK, Effective
<1>4. \A r : Meant(r)' = Meant(r)
  BY <1>1 DEF Meant
<1>5. \A y \in Guarded : Effective(acls'[y]) = Effective(acls[y])
  BY <1>2, MarksKnown DEF Effective, IInv, MemoryOK
<1>6. \A q \in Paths : \A c : Agrees(q, c) => Agrees(q, c)'
  BY <1>1, <1>4, <1>5 DEF Agrees, Effective
<1> QED
  BY <1>1, <1>3, <1>6, QuietInv DEF IInv, StoreOK

LEMMA PutACLInv ==
  ASSUME IInv, UNCHANGED leftover, NEW x \in Guarded, NEW acl \in ACLs, PutACL(x, acl)
  PROVE  IInv'
<1>1. /\ Idle /\ handler' = handler
      /\ acls' = [acls EXCEPT ![x] = acl] /\ UNCHANGED <<revisions, policyGroups>>
      /\ StoreCall(ACLPath(x), <<Write(ACLPath(x), acl)>>, x \notin Unsafe)
  BY DEF PutACL, Free
<1>2. /\ ACLPath(x) \in Paths
      /\ \A y \in Guarded : acls'[y] = IF y = x THEN acl ELSE acls[y]
  BY <1>1, PathsKnown DEF IInv, MemoryOK
<1>3. MemoryOK' /\ HandlerOK'
  BY <1>1 DEF IInv, MemoryOK, HandlerOK
<1>4. \A r : Meant(r)' = Meant(r)
  BY <1>1 DEF Meant
<1>5. ASSUME NEW q \in Paths \ {ACLPath(x)}, NEW c, Agrees(q, c) PROVE Agrees(q, c)'
  BY <1>1, <1>2, <1>4, <1>5 DEF Agrees, Effective
<1>6. CASE x \in Unsafe
  <2>1. UNCHANGED <<disk, todo, up>> /\ stale' = stale \union {ACLPath(x)}
    BY <1>1, <1>6 DEF StoreCall, StoreCallFails, Idle
  <2> QED
    BY <1>1, <1>2, <1>3, <1>5, <2>1, QuietInv DEF IInv, StoreOK
<1>7. CASE x \notin Unsafe
  <2>1. Fits(ACLPath(x), acl)
    BY <1>7, PathsDiffer DEF Fits, Contents
  <2>2. Read(acl) = acl /\ acl # None
    BY MarksKnown DEF Read
  <2>3. Agrees(ACLPath(x), acl)'
    BY <1>1, <1>2, <2>2, PathsDiffer DEF Agrees, PutACL, Exists
  <2>4. \A g \in PolicyGroups : ACLPath(x) = GroupPath(g) => Backed(g, acl)
    BY PathsDiffer
  <2> QED
    BY <1>1, <1>2, <1>3, <1>5, <2>1, <2>3, <2>4, CallInv
<1> QED
  BY <1>6, <1>7

-----------------------------------------------------------------------------
(* The specification.                                                      *)

LEMMA InitInv == Init => IInv
<1> SUFFICES ASSUME Init PROVE IInv
  OBVIOUS
<1>1. /\ todo = <<>> /\ up = TRUE /\ stale = {} /\ handler = <<>>
      /\ \A p \in Paths : disk[p] = Absent
      /\ \A r \in Revisions : revisions[r] = None
      /\ \A g \in PolicyGroups : policyGroups[g] = None
      /\ \A x \in Guarded : acls[x] = None
  BY DEF Init
<1>2. MemoryOK /\ TodoOK /\ HandlerOK /\ StoreOK /\ InTurn /\ Coming /\ Settled
  BY <1>1, NothingLeft DEF Init, MemoryOK, TodoOK, HandlerOK, StoreOK, InTurn, Coming, Settled
<1>3. DiskOK
  <2>1. \A p \in Paths : Fits(p, Absent)
    BY DEF Fits, Contents
  <2> QED
    BY <1>1, <2>1 DEF Init, DiskOK, Contents
<1>4. ASSUME NEW p \in Paths PROVE Agrees(p, disk[p])
  <2>1. \A r \in Plain : Meant(r) = None
    BY <1>1, PlainAlone, Removing DEF Meant
  <2> QED
    BY <1>1, <2>1 DEF Agrees, Content, Read
<1> QED
  BY <1>2, <1>3, <1>4 DEF IInv, OnDiskInv, Right

LEMMA NextInv == IInv /\ [Next]_vars => IInv'
<1> SUFFICES ASSUME IInv, [Next]_vars PROVE IInv'
  OBVIOUS
<1>1. CASE Request /\ UNCHANGED leftover
  BY <1>1, RevisionDeleteInv, RevisionPostInv, PolicyDeleteInv, AssignmentPutInv,
     AssignmentDeleteInv, PolicyGroupDeleteInv, GetACLInv, PutACLInv DEF Request
<1>2. CASE Continue /\ UNCHANGED leftover
  BY <1>2, DeleteNextInv, DeleteLastInv, AssignNextInv DEF Continue
<1>3. CASE Persist
  BY <1>3, PersistInv
<1>4. CASE Fault
  BY <1>4, FaultInv
<1>5. CASE Crash
  BY <1>5, CrashInv
<1>6. CASE Start
  BY <1>6, StartInv
<1>7. CASE UNCHANGED vars
  <2>1. UNCHANGED <<revisions, policyGroups, acls, handler, leftover, disk, todo, up, stale>>
    BY <1>7 DEF vars, memory, storeVars
  <2> QED
    BY <2>1 DEF IInv, MemoryOK, DiskOK, TodoOK, One, Two, HandlerOK, StoreOK, OnDiskInv,
        Coming, Right, Agrees, Meant, InTurn, Backed, Settled, LoadedGroup, Listed
<1>8. CASE ACLStays
  BY <1>8, ACLStaysInv
<1> QED
  BY <1>1, <1>2, <1>3, <1>4, <1>5, <1>6, <1>7, <1>8 DEF Next

\* The inductive invariant holds of every behaviour.
THEOREM Invariance == Spec => []IInv
  BY InitInv, NextInv, PTL DEF Spec

\* Memory, directory, handler and pending operations are of their types.
THEOREM TypeCorrect == Spec => []TypeOK
<1>1. ASSUME IInv PROVE TypeOK
  <2>1. revisions \in [Revisions -> Docs \union {None}]
        /\ policyGroups \in [PolicyGroups -> Assignments \union {None}]
        /\ acls \in [Guarded -> ACLs \union {None}]
    BY <1>1 DEF IInv, MemoryOK
  <2>2. handler \in {<<>>} \union {Assigning(g, r) : g \in PolicyGroups, r \in Revisions}
                 \union {Deleting(p, left) : p \in PolicyNames, left \in SUBSET Revisions}
    <3>1. \A p : SUBSET RevisionsOf(p) \subseteq SUBSET Revisions
      BY DEF RevisionsOf
    <3> QED
      BY <1>1, <3>1 DEF IInv, HandlerOK
  <2>3. disk \in [Paths -> Docs \union Assignments \union ACLs \union {Absent, Torn}]
    BY <1>1 DEF IInv, DiskOK, Contents
  <2>4. todo \in Seq([at : SUBSET Paths, holds : Docs \union Assignments \union ACLs \union {Absent}])
    <3> DEFINE Ops == [at : SUBSET Paths, holds : Contents]
    <3>1. \A p \in Paths, c \in Contents : Write(p, c) \in Ops
      BY DEF Write
    <3>2. CASE todo = <<>>
      BY <3>2
    <3>3. CASE \E p, c : One(p, c)
      <4>1. PICK p \in Paths, c \in Contents : todo = <<Write(p, c)>>
        BY <3>3 DEF One, Fits
      <4>2. Write(p, c) \in Ops
        BY <3>1
      <4> HIDE DEF Ops
      <4>3. todo \in Seq(Ops)
        BY <4>1, <4>2
      <4> QED
        BY <4>3 DEF Ops, Contents
    <3>4. CASE \E g : Two(g)
      <4>1. PICK g \in PolicyGroups \intersect Guarded :
              todo = <<Write(GroupPath(g), Absent), Write(ACLPath(g), Absent)>>
        BY <3>4 DEF Two
      <4>2. Write(GroupPath(g), Absent) \in Ops /\ Write(ACLPath(g), Absent) \in Ops
        BY <3>1, PathsKnown DEF Contents
      <4> HIDE DEF Ops
      <4>3. todo \in Seq(Ops)
        BY <4>1, <4>2
      <4> QED
        BY <4>3 DEF Ops, Contents
    <3> QED
      BY <1>1, <3>2, <3>3, <3>4 DEF IInv, TodoOK
  <2> QED
    BY <1>1, <2>1, <2>2, <2>3, <2>4 DEF TypeOK, IInv, StoreOK
<1> QED
  BY <1>1, Invariance, PTL

\* Between requests a start would serve the revisions that are being served.
THEOREM RevisionsDurable == Spec => []RevisionsAreOnDisk
<1>1. ASSUME IInv PROVE RevisionsAreOnDisk
  <2>1. SUFFICES ASSUME Free, NEW r \in Plain, RevisionPath(r) \notin stale
                 PROVE  LoadedRevision(r) = revisions[r]
    BY DEF RevisionsAreOnDisk
  <2>2. r \in Revisions /\ RevisionPath(r) \in Paths
    BY PlainAlone, PathsKnown
  <2>3. Agrees(RevisionPath(r), disk[RevisionPath(r)])
    BY <1>1, <2>1, <2>2, NothingLeft, NotLeftover DEF IInv, OnDiskInv, Right, Free, Idle
  <2>4. disk[RevisionPath(r)] = Content(revisions[r])
    BY <1>1, <2>1, <2>3, FreeFacts DEF Agrees
  <2>5. revisions[r] # Absent
    BY <1>1, <2>2, MarksKnown DEF IInv, MemoryOK
  <2>6. ReadAs[FileName[r]] = r /\ RevisionPath(r)[2] \notin Hidden
    BY DEF Plain, RevisionPath
  <2> QED
    BY <2>4, <2>5, <2>6 DEF LoadedRevision, Listed, Content
<1> QED
  BY <1>1, Invariance, PTL

\* The same of the policy groups.
THEOREM GroupsDurable == Spec => []GroupsAreOnDisk
<1>1. ASSUME IInv PROVE GroupsAreOnDisk
  <2>1. SUFFICES ASSUME Free, NEW g \in PolicyGroups \ Hidden, GroupPath(g) \notin stale
                 PROVE  LoadedGroup(g) = policyGroups[g]
    BY DEF GroupsAreOnDisk
  <2>2. Agrees(GroupPath(g), disk[GroupPath(g)])
    BY <1>1, <2>1, PathsKnown, NothingLeft, NotLeftover
       DEF IInv, OnDiskInv, Right, Free, Idle
  <2>3. disk[GroupPath(g)] = Content(policyGroups[g])
    BY <2>2 DEF Agrees
  <2>4. policyGroups[g] # Absent
    BY <1>1, MarksKnown DEF IInv, MemoryOK
  <2>5. GroupPath(g)[2] \notin Hidden
    BY DEF GroupPath
  <2> QED
    BY <2>3, <2>4, <2>5 DEF LoadedGroup, Listed, Content
<1> QED
  BY <1>1, Invariance, PTL

\* Between requests a start would grant what is granted on policy groups, and
\* find no ACL of a group that is gone, but for changes answered with an error
\* and files whose removal was ignored or cut off by a crash.
THEOREM GroupACLsDurable == Spec => []GroupACLsAreOnDisk
<1>1. ASSUME IInv PROVE GroupACLsAreOnDisk
  <2>1. SUFFICES ASSUME Free, NEW g \in Guarded \intersect (PolicyGroups \ Hidden),
                        ACLPath(g) \notin stale \union leftover
                 PROVE  /\ Effective(LoadedACL(g)) = Effective(acls[g])
                        /\ policyGroups[g] = None => LoadedACL(g) = None
    BY DEF GroupACLsAreOnDisk
  <2>2. Agrees(ACLPath(g), disk[ACLPath(g)])
    BY <1>1, <2>1, PathsKnown, NothingLeft DEF IInv, OnDiskInv, Right, Free, Idle
  <2>3. /\ Effective(Read(disk[ACLPath(g)])) = Effective(acls[g])
        /\ policyGroups[g] = None => disk[ACLPath(g)] = Absent
    BY <2>2 DEF Agrees
  <2>4. ACLPath(g)[2] \notin Hidden
    BY DEF ACLPath
  <2> QED
    BY <2>3, <2>4 DEF LoadedACL, Listed, Read
<1> QED
  BY <1>1, Invariance, PTL

\* A group that is not assigned anything names no revision.
LEMMA NoneNamed ==
  ASSUME NEW p \in PolicyNames
  PROVE  Named(Absent)[p] \notin Plain /\ Named(Torn)[p] \notin Plain
  BY MarksKnown DEF Named, NoAssignment

\* A file that is cut short names no revision that it did not name before.
LEMMA CutNamesNothing ==
  ASSUME IInv, up, todo # <<>>, NEW done \in SUBSET Head(todo).at,
         disk' = Apply(CutShort(Head(todo), done), disk),
         NEW g \in PolicyGroups, NEW p \in PolicyNames,
         Named(disk'[GroupPath(g)])[p] \in Plain
  PROVE  disk'[GroupPath(g)] = disk[GroupPath(g)]
<1>1. PICK q, c : q \in Paths /\ Fits(q, c) /\ Head(todo) = Write(q, c)
  BY NextOp
<1>2. done \in SUBSET {q} /\ disk' = Apply(CutShort(Write(q, c), done), disk)
  <2>1. Write(q, c).at = {q}
    BY DEF Write
  <2> QED
    BY <1>1, <2>1
<1>3. disk \in [Paths -> Contents \union {Torn}] /\ GroupPath(g) \in Paths
  BY PathsKnown DEF IInv, DiskOK
<1>4. disk' = disk \/ disk' = [disk EXCEPT ![q] = Torn] \/ disk' = [disk EXCEPT ![q] = Absent]
  BY <1>1, <1>2, CutFile DEF IInv
<1>5. disk'[GroupPath(g)] \in {disk[GroupPath(g)], Torn, Absent}
  BY <1>3, <1>4
<1> QED
  BY <1>5, NoneNamed

\* Only finishing a group's file makes it name something else.
LEMMA NewlyNamed ==
  ASSUME IInv, Next, NEW g \in PolicyGroups, NEW p \in PolicyNames,
         Named(disk'[GroupPath(g)])[p] \in Plain,
         disk'[GroupPath(g)] # disk[GroupPath(g)]
  PROVE  Persist
<1>1. ~Request
  <2>1. SUFFICES ASSUME Request PROVE disk' = disk
    OBVIOUS
  <2> QED
    BY <2>1 DEF Request, RevisionDelete, RevisionPost, PolicyDelete, AssignmentPut, Assign,
         AssignmentDelete, PolicyGroupDelete, GetACL, PutACL, PutRevision, DeleteRevision,
         PersistPolicyGroup, DeletePolicyGroup, StoreCall, StoreCallFails, NoStoreCall, storeVars
<1>2. ~Continue
  <2>1. SUFFICES ASSUME Continue PROVE disk' = disk
    OBVIOUS
  <2> QED
    BY <2>1 DEF Continue, DeleteNext, DeleteLast, AssignNext, Assign, DeleteRevision,
         PersistPolicyGroup, StoreCall, StoreCallFails, NoStoreCall, storeVars
<1>3. ~Start /\ ~ACLStays
  BY DEF Start, ProcessStarts, ACLStays, StoreFaultIgnored
<1>4. ~Fault
  <2>1. SUFFICES ASSUME Fault PROVE FALSE
    OBVIOUS
  <2>2. up /\ todo # <<>>
    BY <2>1 DEF Fault, StoreFaultOn
  <2>3. PICK done \in SUBSET Head(todo).at : disk' = Apply(CutShort(Head(todo), done), disk)
    BY <2>1 DEF Fault, StoreFaultOn
  <2> QED
    BY <2>2, <2>3, CutNamesNothing
<1>5. ~Crash
  <2>1. SUFFICES ASSUME Crash PROVE FALSE
    OBVIOUS
  <2>2. up /\ todo # <<>>
    BY <2>1 DEF Crash, ProcessDies
  <2>3. PICK done \in SUBSET Head(todo).at : disk' = Apply(CutShort(Head(todo), done), disk)
    BY <2>1 DEF Crash, ProcessDies
  <2> QED
    BY <2>2, <2>3, CutNamesNothing
<1> QED
  BY <1>1, <1>2, <1>3, <1>4, <1>5 DEF Next

\* A revision is on disk before the group that newly names it.
LEMMA NamedIsThere ==
  ASSUME IInv, Next, NEW g \in PolicyGroups, NEW p \in PolicyNames,
         NEW r \in Plain, r = Named(disk'[GroupPath(g)])[p],
         r # Named(disk[GroupPath(g)])[p],
         {GroupPath(g), RevisionPath(r)} \intersect stale = {}
  PROVE  disk'[RevisionPath(r)] \in Docs
<1>1. disk'[GroupPath(g)] # disk[GroupPath(g)] /\ Named(disk'[GroupPath(g)])[p] \in Plain
  OBVIOUS
<1>2. Persist
  BY <1>1, NewlyNamed
<1>3. up /\ todo # <<>> /\ disk' = Apply(Head(todo), disk)
  BY <1>2 DEF Persist, StoreStep
<1>4. PICK q, c : q \in Paths /\ todo[1] = Write(q, c) /\ Head(todo) = Write(q, c)
  BY <1>3, NextOp
<1>5. /\ disk \in [Paths -> Contents \union {Torn}]
      /\ GroupPath(g) \in Paths /\ RevisionPath(r) \in Paths
      /\ RevisionPath(r) # GroupPath(g)
  BY PathsKnown, PathsDiffer, PlainAlone DEF IInv, DiskOK
<1>6. disk' = [disk EXCEPT ![q] = c]
  <2>1. disk' = Apply(Write(q, c), disk)
    BY <1>3, <1>4
  <2> QED
    BY <1>5, <2>1 DEF Apply, Write
<1>7. q = GroupPath(g) /\ disk'[GroupPath(g)] = c /\ disk'[RevisionPath(r)] = disk[RevisionPath(r)]
  BY <1>1, <1>5, <1>6
<1>8. Backed(g, c)
  BY <1>3, <1>4, <1>7 DEF IInv, InTurn, Write
<1> QED
  BY <1>7, <1>8 DEF Backed

\* No crash can leave a group on disk that newly assigns a revision the
\* directory does not have.
THEOREM AssignmentsBacked == Spec => AssignmentsFollowRevisions
<1> DEFINE Follow == \A g \in PolicyGroups, p \in PolicyNames :
          LET r == OnDisk(g)'[p] IN
            /\ r \in Plain /\ r # OnDisk(g)[p]
            /\ {GroupPath(g), RevisionPath(r)} \intersect stale = {}
            => disk'[RevisionPath(r)] \in Docs
<1>1. ASSUME IInv, Next PROVE Follow
  <2>1. SUFFICES ASSUME NEW g \in PolicyGroups, NEW p \in PolicyNames, NEW r \in Plain,
                        r = OnDisk(g)'[p], r # OnDisk(g)[p],
                        {GroupPath(g), RevisionPath(r)} \intersect stale = {}
                 PROVE  disk'[RevisionPath(r)] \in Docs
    OBVIOUS
  <2>2. OnDisk(g) = Named(disk[GroupPath(g)]) /\ OnDisk(g)' = Named(disk'[GroupPath(g)])
    BY DEF OnDisk, Named
  <2> QED
    BY <1>1, <2>1, <2>2, NamedIsThere
<1>2. ASSUME UNCHANGED vars PROVE Follow
  <2>1. disk' = disk
    BY <1>2 DEF vars, storeVars
  <2>2. \A g \in PolicyGroups : OnDisk(g)' = OnDisk(g)
    BY <2>1 DEF OnDisk
  <2> QED
    BY <2>2
<1>3. IInv /\ [Next]_vars => [Follow]_vars
  BY <1>1, <1>2
<1> HIDE DEF Follow
<1>4. Spec => [][Follow]_vars
  BY <1>3, Invariance, PTL DEF Spec
<1> QED
  BY <1>4 DEF AssignmentsFollowRevisions, Follow
=============================================================================
