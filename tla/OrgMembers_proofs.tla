-------------------------- MODULE OrgMembers_proofs --------------------------
(***************************************************************************)
(* That a start finds the users, clients and members that were being       *)
(* served, and takes nobody out of a group, for any number of users,       *)
(* clients and groups.                                                     *)
(***************************************************************************)
EXTENDS OrgMembers, SequenceTheorems, TLAPS

Contents == Membership \union {File, Absent}
Ops == [at : SUBSET Paths, holds : Contents]

\* A content that a path's own kind of file can have.
Fits(p, c) ==
    /\ c \in Contents
    /\ \A u \in Users : p = UserPath(u) => c \in {File, Absent}
    /\ \A x \in Clients : p = ClientPath(x) => c \in {File, Absent}
    /\ \A g \in Groups : p = GroupPath(g) => c \in Membership \union {Absent}
    /\ p = MembersPath => c \in Membership \union {Absent}

MemoryOK ==
    /\ users \subseteq Users /\ clients \subseteq Clients /\ members \subseteq Users
    /\ groups \in [Groups -> Membership \union {None}]
    /\ invitations \in [Ids -> Users \union {None}]

DiskOK ==
    /\ disk \in [Paths -> Contents \union {Torn}]
    /\ \A p \in Paths : disk[p] = Torn \/ Fits(p, disk[p])

TodoOK ==
    /\ todo \in Seq(Ops)
    /\ \A i \in DOMAIN todo : \A p \in todo[i].at : Fits(p, todo[i].holds)

StoreOK == up \in BOOLEAN /\ stale \subseteq Paths /\ (~up => todo = <<>> /\ stale = {})

-----------------------------------------------------------------------------
(* What a start makes of a content, and whether memory says no more.       *)

ReadMembers(c) == IF c \in {Absent, Torn} THEN {} ELSE c.users
ReadGroup(g, c) == IF c = Absent THEN NewGroup(g) ELSE c

Agrees(p, c) ==
    /\ \A u \in Users : p = UserPath(u) => (u \in users <=> c # Absent)
    /\ \A x \in Clients : p = ClientPath(x) => (x \in clients <=> c # Absent)
    /\ p = MembersPath => members = ReadMembers(c)
    /\ \A g \in Groups : p = GroupPath(g) /\ groups[g] # None =>
          ReadGroup(g, c) # None /\ Within(groups[g], ReadGroup(g, c))

\* What is still to be written agrees with memory, and so does what is there
\* of a path that is not to be written, unless an error was answered.
Coming == \A i \in DOMAIN todo : \A p \in todo[i].at : Agrees(p, todo[i].holds)
Right(p) == p \in stale \/ p \in Touched(todo) \/ Agrees(p, disk[p])
OnDisk == up => Coming /\ \A p \in Paths : Right(p)

IInv == MemoryOK /\ DiskOK /\ TodoOK /\ StoreOK /\ OnDisk

-----------------------------------------------------------------------------
LEMMA PathsDiffer ==
  /\ \A u, v : UserPath(u) = UserPath(v) => u = v
  /\ \A c, d : ClientPath(c) = ClientPath(d) => c = d
  /\ \A g, h : GroupPath(g) = GroupPath(h) => g = h
  /\ \A u, c, g : /\ UserPath(u) # ClientPath(c) /\ UserPath(u) # GroupPath(g)
                  /\ ClientPath(c) # GroupPath(g)
                  /\ MembersPath \notin {UserPath(u), ClientPath(c), GroupPath(g)}
  BY DEF UserPath, ClientPath, GroupPath, MembersPath

LEMMA PathsKnown ==
  /\ \A u \in Users : UserPath(u) \in Paths
  /\ \A c \in Clients : ClientPath(c) \in Paths
  /\ \A g \in Groups : GroupPath(g) \in Paths
  /\ MembersPath \in Paths
  BY DEF Paths

LEMMA MarksKnown ==
  /\ Absent # Torn
  /\ {None, Absent, Torn, File} \intersect Membership = {}
  /\ File \notin {None, Absent, Torn}
  BY MembersAssumption, MarksDiffer

LEMMA GroupsKnown ==
  /\ Empty \in Membership /\ [Empty EXCEPT !.users = {Pivotal}] \in Membership
  /\ \A g \in Groups : NewGroup(g) \in Membership \union {None}
  /\ \A list \in SUBSET Users : /\ [Empty EXCEPT !.users = list] \in Membership
                                /\ [Empty EXCEPT !.users = list].users = list
  BY MembersAssumption DEF Membership, Empty, NewGroup

LEMMA NothingLeft == todo = <<>> => Touched(todo) = {} /\ DOMAIN todo = {}
  BY DEF Touched

\* The first operation and the ones after it.
LEMMA HeadAndRest ==
  ASSUME TodoOK, todo # <<>>
  PROVE  /\ Head(todo) \in Ops
         /\ Head(todo) = todo[1] /\ 1 \in DOMAIN todo
         /\ Head(todo).at \subseteq Paths /\ Touched(todo) \subseteq Paths
         /\ Tail(todo) \in Seq(Ops)
         /\ \A i \in DOMAIN Tail(todo) : i + 1 \in DOMAIN todo /\ Tail(todo)[i] = todo[i + 1]
         /\ Touched(todo) \subseteq Head(todo).at \union Touched(Tail(todo))
         /\ Head(todo).at \subseteq Touched(todo)
<1>1. todo \in Seq(Ops)
  BY DEF TodoOK
<1>2. /\ Head(todo) \in Ops /\ Tail(todo) \in Seq(Ops) /\ Len(Tail(todo)) = Len(todo) - 1
      /\ \A i \in 1..Len(Tail(todo)) : Tail(todo)[i] = todo[i + 1]
      /\ Len(todo) \in Nat \ {0} /\ DOMAIN todo = 1..Len(todo)
      /\ DOMAIN Tail(todo) = 1..Len(Tail(todo)) /\ Head(todo) = todo[1]
  <2> HIDE DEF Ops
  <2> QED
    BY <1>1, HeadTailProperties, EmptySeq, LenProperties
<1>3. \A i \in DOMAIN todo : todo[i] \in Ops
  <2> HIDE DEF Ops
  <2> QED
    BY <1>1, LenProperties
<1>4. \A i \in DOMAIN todo : i = 1 \/ (i - 1 \in DOMAIN Tail(todo) /\ Tail(todo)[i - 1] = todo[i])
  BY <1>2
<1>5. Touched(todo) \subseteq Head(todo).at \union Touched(Tail(todo))
  BY <1>2, <1>4 DEF Touched
<1>6. Touched(todo) \subseteq Paths
  BY <1>3 DEF Touched, Ops
<1> QED
  BY <1>2, <1>3, <1>5, <1>6 DEF Touched, Ops

\* A content that does not fit a path is never put there.
LEMMA Applied ==
  ASSUME DiskOK, NEW at \in SUBSET Paths, NEW c, \A p \in at : c = Torn \/ Fits(p, c),
         disk' = Apply([at |-> at, holds |-> c], disk)
  PROVE  /\ DiskOK'
         /\ \A p \in Paths : disk'[p] = IF p \in at THEN c ELSE disk[p]
<1>1. \A p \in Paths : disk'[p] = IF p \in at THEN c ELSE disk[p]
  BY DEF Apply, DiskOK
<1>2. \A p \in at : c \in Contents \union {Torn}
  BY DEF Fits
<1>3. disk' \in [Paths -> Contents \union {Torn}]
  BY <1>2 DEF Apply, DiskOK
<1>4. \A p \in Paths : disk'[p] = Torn \/ Fits(p, disk'[p])
  BY <1>1 DEF DiskOK
<1>5. \A p, d : Fits(p, d)' = Fits(p, d)
  BY DEF Fits
<1> QED
  BY <1>1, <1>3, <1>4, <1>5 DEF DiskOK

\* A file that is cut short is Torn or gone, and no other is touched.
LEMMA Cut ==
  ASSUME DiskOK, TodoOK, todo # <<>>,
         \E done \in SUBSET Head(todo).at : disk' = Apply(CutShort(Head(todo), done), disk)
  PROVE  /\ DiskOK'
         /\ \A p \in Paths \ Touched(todo) : disk'[p] = disk[p]
<1>1. PICK done \in SUBSET Head(todo).at : disk' = Apply(CutShort(Head(todo), done), disk)
  OBVIOUS
<1> DEFINE c == IF Head(todo).holds \in {Absent, Dir} THEN Head(todo).holds ELSE Torn
<1>2. disk' = Apply([at |-> done, holds |-> c], disk)
  BY <1>1 DEF CutShort
<1>3. done \in SUBSET Paths /\ done \subseteq Touched(todo)
  BY HeadAndRest
<1>4. \A p \in done : c = Torn \/ Fits(p, c)
  BY HeadAndRest DEF TodoOK
<1> HIDE DEF c
<1>5. DiskOK' /\ \A p \in Paths : disk'[p] = IF p \in done THEN c ELSE disk[p]
  BY <1>2, <1>3, <1>4, Applied
<1> QED
  BY <1>3, <1>5

LEMMA SameMeaning ==
  ASSUME UNCHANGED memory, NEW p, NEW c, Agrees(p, c)
  PROVE  Agrees(p, c)'
  BY DEF Agrees, memory, ReadGroup, ReadMembers

-----------------------------------------------------------------------------
(* The store and the process.                                              *)

LEMMA InitInv == Init => IInv
<1> SUFFICES ASSUME Init PROVE IInv
  OBVIOUS
<1>1. MemoryOK
  BY GroupsKnown, MembersAssumption DEF Init, MemoryOK
<1>2. DiskOK
  <2>1. disk \in [Paths -> Contents \union {Torn}]
    BY DEF Init, Contents
  <2>2. \A p \in Paths : Fits(p, disk[p])
    BY PathsDiffer DEF Init, Fits, Contents
  <2> QED
    BY <2>1, <2>2 DEF DiskOK
<1>3. TodoOK /\ StoreOK /\ Coming
  BY NothingLeft DEF Init, TodoOK, StoreOK, Coming
<1>4. \A p \in Paths : Agrees(p, disk[p])
  <2> SUFFICES ASSUME NEW p \in Paths PROVE Agrees(p, disk[p])
    OBVIOUS
  <2>1. \A u \in Users : p = UserPath(u) => (u \in users <=> disk[p] # Absent)
    BY MarksKnown, PathsDiffer DEF Init
  <2>2. \A x \in Clients : p = ClientPath(x) => (x \in clients <=> disk[p] # Absent)
    BY PathsDiffer DEF Init
  <2>3. p = MembersPath => members = ReadMembers(disk[p])
    BY PathsDiffer DEF Init, ReadMembers
  <2>4. ASSUME NEW g \in Groups, p = GroupPath(g), groups[g] # None
        PROVE  ReadGroup(g, disk[p]) # None /\ Within(groups[g], ReadGroup(g, disk[p]))
    <3>1. disk[p] = Absent /\ groups[g] = NewGroup(g)
      BY <2>4, PathsDiffer DEF Init
    <3> QED
      BY <2>4, <3>1 DEF ReadGroup, Within
  <2> QED
    BY <2>1, <2>2, <2>3, <2>4 DEF Agrees
<1> QED
  BY <1>1, <1>2, <1>3, <1>4 DEF IInv, OnDisk, Right

LEMMA PersistInv == IInv /\ Persist => IInv'
<1> SUFFICES ASSUME IInv, Persist PROVE IInv'
  OBVIOUS
<1>1. /\ up /\ up' /\ todo # <<>> /\ UNCHANGED memory
      /\ disk' = Apply(Head(todo), disk) /\ todo' = Tail(todo)
      /\ stale' = stale \ Head(todo).at
      /\ TodoOK /\ DiskOK /\ Coming /\ \A p \in Paths : Right(p)
  BY DEF IInv, OnDisk, Persist, StoreStep
<1> DEFINE at == Head(todo).at
           c == Head(todo).holds
<1>2. at \in SUBSET Paths /\ Head(todo) = [at |-> at, holds |-> c]
  BY <1>1, HeadAndRest DEF Ops
<1>3. \A p \in at : Fits(p, c) /\ Agrees(p, c)
  BY <1>1, HeadAndRest DEF TodoOK, Coming
<1> HIDE DEF at, c
<1>4. DiskOK' /\ \A p \in Paths : disk'[p] = IF p \in at THEN c ELSE disk[p]
  <2>1. disk' = Apply([at |-> at, holds |-> c], disk)
    BY <1>1, <1>2
  <2> QED
    BY <1>1, <1>2, <1>3, <2>1, Applied
<1>5. TodoOK'
  BY <1>1, HeadAndRest DEF TodoOK, Fits
<1>6. Coming'
  <2> SUFFICES ASSUME NEW i \in DOMAIN todo', NEW p \in todo'[i].at
               PROVE  Agrees(p, todo[i].holds)'
    BY DEF Coming
  <2>1. i + 1 \in DOMAIN todo /\ todo'[i] = todo[i + 1]
    BY <1>1, HeadAndRest
  <2> QED
    BY <1>1, <2>1, SameMeaning DEF Coming
<1>7. ASSUME NEW p \in Paths PROVE Right(p)'
  <2>1. CASE p \in at
    <3>1. disk'[p] = c /\ Agrees(p, c)
      BY <1>3, <1>4, <2>1
    <3> QED
      BY <1>1, <3>1, SameMeaning DEF Right
  <2>2. CASE p \notin at
    <3>1. p \in stale' \/ p \in Touched(todo') \/ Agrees(p, disk[p])
      BY <1>1, <2>2, HeadAndRest DEF Right, at
    <3> QED
      BY <1>1, <1>4, <2>2, <3>1, SameMeaning DEF Right
  <2> QED
    BY <2>1, <2>2
<1>8. MemoryOK' /\ StoreOK'
  BY <1>1 DEF IInv, MemoryOK, StoreOK, memory
<1> QED
  BY <1>4, <1>5, <1>6, <1>7, <1>8 DEF IInv, OnDisk

LEMMA FaultInv == IInv /\ Fault => IInv'
<1> SUFFICES ASSUME IInv, Fault PROVE IInv'
  OBVIOUS
<1>1. /\ up /\ up' /\ todo # <<>> /\ todo' = <<>> /\ stale' = stale \union Touched(todo)
      /\ UNCHANGED memory
      /\ \E done \in SUBSET Head(todo).at : disk' = Apply(CutShort(Head(todo), done), disk)
      /\ TodoOK /\ DiskOK /\ \A p \in Paths : Right(p)
  BY DEF IInv, OnDisk, Fault, StoreFault, StoreFaultOn
<1>2. DiskOK' /\ \A p \in Paths \ Touched(todo) : disk'[p] = disk[p]
  BY <1>1, Cut
<1>3. MemoryOK' /\ TodoOK' /\ StoreOK' /\ Coming'
  BY <1>1, HeadAndRest, NothingLeft DEF IInv, MemoryOK, TodoOK, StoreOK, Coming, memory
<1>4. ASSUME NEW p \in Paths PROVE Right(p)'
  BY <1>1, <1>2, SameMeaning DEF Right
<1> QED
  BY <1>2, <1>3, <1>4 DEF IInv, OnDisk

LEMMA CrashInv == IInv /\ Crash => IInv'
<1> SUFFICES ASSUME IInv, Crash PROVE IInv'
  OBVIOUS
<1>1. /\ todo' = <<>> /\ ~up' /\ up' \in BOOLEAN /\ stale' = {} /\ TodoOK /\ DiskOK
      /\ \/ disk' = disk
         \/ /\ todo # <<>>
            /\ \E done \in SUBSET Head(todo).at : disk' = Apply(CutShort(Head(todo), done), disk)
  BY DEF IInv, Crash, ProcessDies
<1>2. DiskOK'
  <2>1. CASE disk' = disk
    BY <1>1, <2>1 DEF DiskOK, Fits
  <2>2. CASE disk' # disk
    BY <1>1, <2>2, Cut
  <2> QED
    BY <2>1, <2>2
<1>3. MemoryOK'
  BY DEF Crash, MemoryOK
<1> QED
  BY <1>1, <1>2, <1>3, NothingLeft DEF IInv, TodoOK, StoreOK, OnDisk

\* A start serves what it has read.
LEMMA StartInv == IInv /\ Start => IInv'
<1> SUFFICES ASSUME IInv, Start PROVE IInv'
  OBVIOUS
<1>1. /\ ~up /\ up' /\ todo = <<>> /\ todo' = <<>> /\ stale = {} /\ stale' = {} /\ DiskOK
  BY DEF IInv, StoreOK, Start
<1>2. /\ disk' = [disk EXCEPT ![UserPath(Pivotal)] = File]
      /\ users' = LoadedUsers \union {Pivotal}
      /\ clients' = LoadedClients /\ members' = LoadedMembers
      /\ groups' = [g \in Groups |-> LoadedGroup(g)] /\ UNCHANGED invitations
      /\ \A p \in Paths \ {MembersPath} : disk[p] # Torn
  BY DEF Start, Loadable
<1>3. Pivotal \in Users /\ UserPath(Pivotal) \in Paths
  BY MembersAssumption, PathsKnown
<1>4. DiskOK'
  <2>1. disk' \in [Paths -> Contents \union {Torn}]
    BY <1>1, <1>2 DEF DiskOK, Contents
  <2>2. Fits(UserPath(Pivotal), File)
    BY PathsDiffer DEF Fits, Contents
  <2>3. \A p \in Paths : disk'[p] = IF p = UserPath(Pivotal) THEN File ELSE disk[p]
    BY <1>1, <1>2 DEF DiskOK
  <2>4. \A p, d : Fits(p, d)' = Fits(p, d)
    BY DEF Fits
  <2> QED
    BY <1>1, <2>1, <2>2, <2>3, <2>4 DEF DiskOK
<1>5. \A g \in Groups : LoadedGroup(g) \in Membership \union {None}
  BY <1>1, <1>2, PathsKnown, PathsDiffer, GroupsKnown DEF DiskOK, Fits, LoadedGroup
<1>6. LoadedMembers \subseteq Users
  BY <1>1, PathsKnown DEF DiskOK, Fits, LoadedMembers, Membership
<1>7. MemoryOK'
  BY <1>2, <1>3, <1>5, <1>6 DEF IInv, MemoryOK, LoadedUsers, LoadedClients
<1>8. \A p \in Paths : disk'[p] = IF p = UserPath(Pivotal) THEN File ELSE disk[p]
  BY <1>1, <1>2 DEF DiskOK
<1>9. ASSUME NEW p \in Paths PROVE Agrees(p, disk[p])'
  <2>1. \A u \in Users : p = UserPath(u) => (u \in users' <=> disk'[p] # Absent)
    BY <1>2, <1>8, MarksKnown, PathsDiffer DEF LoadedUsers
  <2>2. \A x \in Clients : p = ClientPath(x) => (x \in clients' <=> disk'[p] # Absent)
    BY <1>2, <1>8, PathsDiffer DEF LoadedClients
  <2>3. p = MembersPath => members' = ReadMembers(disk'[p])
    BY <1>2, <1>8, PathsDiffer DEF LoadedMembers, ReadMembers
  <2>4. ASSUME NEW g \in Groups, p = GroupPath(g), groups'[g] # None
        PROVE  ReadGroup(g, disk'[p]) # None /\ Within(groups'[g], ReadGroup(g, disk'[p]))
    <3>1. disk'[p] = disk[p] /\ groups'[g] = LoadedGroup(g)
      BY <1>2, <1>8, <2>4, PathsDiffer
    <3>2. ReadGroup(g, disk'[p]) = groups'[g]
      BY <2>4, <3>1 DEF ReadGroup, LoadedGroup
    <3> QED
      BY <2>4, <3>2 DEF Within
  <2> QED
    BY <2>1, <2>2, <2>3, <2>4 DEF Agrees, ReadMembers, ReadGroup
<1>10. TodoOK' /\ StoreOK' /\ Coming'
  BY <1>1, NothingLeft DEF TodoOK, StoreOK, Coming
<1> QED
  BY <1>4, <1>7, <1>9, <1>10 DEF IInv, OnDisk, Right

-----------------------------------------------------------------------------
(* Handlers.                                                               *)

LEMMA OneOp ==
  ASSUME NEW p \in Paths, NEW c, Fits(p, c), todo' = <<Write(p, c)>>, Agrees(p, c)'
  PROVE  TodoOK' /\ Coming' /\ Touched(todo') = {p}
<1>1. DOMAIN todo' = {1} /\ todo'[1] = Write(p, c)
  OBVIOUS
<1>2. Write(p, c) \in Ops
  BY DEF Write, Ops, Fits
<1>3. todo' \in Seq(Ops)
  <2> HIDE DEF Ops
  <2> QED
    BY <1>2
<1>4. \A i \in DOMAIN todo' : \A q \in todo'[i].at : q = p /\ todo'[i].holds = c
  BY <1>1 DEF Write
<1>5. TodoOK'
  <2>1. Ops' = Ops /\ Fits(p, c)'
    BY DEF Fits, Ops
  <2> QED
    BY <1>3, <1>4, <2>1 DEF TodoOK, Fits
<1>6. Coming'
  BY <1>4 DEF Coming, Agrees
<1>7. Touched(todo') = {p}
  BY <1>1 DEF Touched, Write
<1> QED
  BY <1>5, <1>6, <1>7

LEMMA TwoOps ==
  ASSUME NEW p \in Paths, NEW c, Fits(p, c), Agrees(p, c)',
         NEW q \in Paths, NEW d, Fits(q, d), Agrees(q, d)',
         todo' = <<Write(p, c), Write(q, d)>>
  PROVE  TodoOK' /\ Coming' /\ Touched(todo') = {p, q}
<1>1. DOMAIN todo' = {1, 2} /\ todo'[1] = Write(p, c) /\ todo'[2] = Write(q, d)
  OBVIOUS
<1>2. Write(p, c) \in Ops /\ Write(q, d) \in Ops
  BY DEF Write, Ops, Fits
<1>3. todo' \in Seq(Ops)
  <2> HIDE DEF Ops
  <2> QED
    BY <1>2
<1>4. \A i \in DOMAIN todo' : \A x \in todo'[i].at :
         (x = p /\ todo'[i].holds = c) \/ (x = q /\ todo'[i].holds = d)
  BY <1>1 DEF Write
<1>5. TodoOK'
  <2>1. Ops' = Ops /\ Fits(p, c)' /\ Fits(q, d)'
    BY DEF Fits, Ops
  <2> QED
    BY <1>3, <1>4, <2>1 DEF TodoOK, Fits
<1>6. Coming'
  BY <1>4 DEF Coming, Agrees
<1>7. Touched(todo') = {p, q}
  BY <1>1 DEF Touched, Write
<1> QED
  BY <1>5, <1>6, <1>7

\* What a handler owes: what it does not write agrees with the new memory, or
\* is answered with an error.
LEMMA HandlerInv ==
  ASSUME IInv, Idle, MemoryOK', TodoOK', Coming', disk' = disk, up' = up,
         stale \subseteq stale', stale' \subseteq Paths,
         \A p \in Paths : Agrees(p, disk[p]) =>
            p \in stale' \/ p \in Touched(todo') \/ Agrees(p, disk[p])'
  PROVE  IInv'
<1>1. up /\ todo = <<>> /\ \A p \in Paths : p \in stale \/ Agrees(p, disk[p])
  BY NothingLeft DEF Idle, IInv, OnDisk, Right
<1>2. \A p \in Paths : p \in stale' \/ p \in Touched(todo') \/ Agrees(p, disk[p])'
  BY <1>1
<1>3. DiskOK' /\ StoreOK'
  BY <1>1 DEF IInv, DiskOK, Fits, StoreOK
<1> QED
  BY <1>2, <1>3 DEF IInv, OnDisk, Right

LEMMA OneCall ==
  ASSUME IInv, Idle, MemoryOK', NEW p \in Paths, NEW c, Fits(p, c), Agrees(p, c)',
         todo' = <<Write(p, c)>>, UNCHANGED <<disk, up, stale>>,
         \A q \in Paths \ {p} : \A d : Agrees(q, d) => Agrees(q, d)'
  PROVE  IInv'
<1>1. TodoOK' /\ Coming' /\ Touched(todo') = {p}
  BY OneOp
<1>2. stale \subseteq Paths
  BY DEF IInv, StoreOK
<1> QED
  BY <1>1, <1>2, HandlerInv

LEMMA NoCall ==
  ASSUME IInv, Idle, MemoryOK', NoStoreCall, \A q \in Paths : \A d : Agrees(q, d) => Agrees(q, d)'
  PROVE  IInv'
<1>1. TodoOK' /\ Coming' /\ stale \subseteq Paths
  BY NothingLeft DEF IInv, TodoOK, Coming, StoreOK, NoStoreCall, storeVars, Idle
<1> QED
  BY <1>1, HandlerInv DEF NoStoreCall, storeVars

\* A group that a user or a client leaves stays within what a start reads.
Thinner ==
  /\ groups' \in [Groups -> Membership \union {None}]
  /\ \A g \in Groups : groups'[g] # None =>
        groups[g] # None /\ \A x : Within(groups[g], x) => Within(groups'[g], x)

LEMMA StripThins ==
  ASSUME MemoryOK, \/ groups' = groups
                   \/ \E u \in Users : groups' = StripUser(u)
                   \/ \E c \in Clients : groups' = StripClient(c)
  PROVE  Thinner
<1>1. groups \in [Groups -> Membership \union {None}]
  BY DEF MemoryOK
<1>2. CASE groups' = groups
  BY <1>1, <1>2 DEF Thinner
<1>3. CASE \E u \in Users : groups' = StripUser(u)
  <2>1. PICK u \in Users : groups' = StripUser(u)
    BY <1>3
  <2>2. \A m \in Membership : /\ [m EXCEPT !.users = @ \ {u}] \in Membership
                              /\ [m EXCEPT !.users = @ \ {u}].users \subseteq m.users
                              /\ [m EXCEPT !.users = @ \ {u}].clients = m.clients
                              /\ [m EXCEPT !.users = @ \ {u}].groups = m.groups
    BY DEF Membership
  <2>3. ASSUME NEW g \in Groups
        PROVE  /\ groups'[g] \in Membership \union {None}
               /\ groups'[g] # None =>
                     groups[g] # None /\ \A x : Within(groups[g], x) => Within(groups'[g], x)
    <3>1. CASE groups[g] = None
      BY <2>1, <3>1 DEF StripUser
    <3>2. CASE groups[g] # None
      <4>1. groups'[g] = [groups[g] EXCEPT !.users = @ \ {u}] /\ groups[g] \in Membership
        BY <1>1, <2>1, <3>2 DEF StripUser
      <4> HIDE DEF Membership
      <4>2. groups'[g] \in Membership
        BY <2>2, <4>1
      <4>3. \A x : Within(groups[g], x) => Within(groups'[g], x)
        BY <2>2, <4>1 DEF Within
      <4> QED
        BY <3>2, <4>2, <4>3
    <3> QED
      BY <3>1, <3>2
  <2>4. groups' = [g \in Groups |-> groups'[g]]
    BY <2>1 DEF StripUser
  <2> HIDE DEF Membership
  <2> QED
    BY <2>3, <2>4 DEF Thinner
<1>4. CASE \E c \in Clients : groups' = StripClient(c)
  <2>1. PICK c \in Clients : groups' = StripClient(c)
    BY <1>4
  <2>2. \A m \in Membership : /\ [m EXCEPT !.clients = @ \ {c}] \in Membership
                              /\ [m EXCEPT !.clients = @ \ {c}].clients \subseteq m.clients
                              /\ [m EXCEPT !.clients = @ \ {c}].users = m.users
                              /\ [m EXCEPT !.clients = @ \ {c}].groups = m.groups
    BY DEF Membership
  <2>3. ASSUME NEW g \in Groups
        PROVE  /\ groups'[g] \in Membership \union {None}
               /\ groups'[g] # None =>
                     groups[g] # None /\ \A x : Within(groups[g], x) => Within(groups'[g], x)
    <3>1. CASE groups[g] = None
      BY <2>1, <3>1 DEF StripClient
    <3>2. CASE groups[g] # None
      <4>1. groups'[g] = [groups[g] EXCEPT !.clients = @ \ {c}] /\ groups[g] \in Membership
        BY <1>1, <2>1, <3>2 DEF StripClient
      <4> HIDE DEF Membership
      <4>2. groups'[g] \in Membership
        BY <2>2, <4>1
      <4>3. \A x : Within(groups[g], x) => Within(groups'[g], x)
        BY <2>2, <4>1 DEF Within
      <4> QED
        BY <3>2, <4>2, <4>3
    <3> QED
      BY <3>1, <3>2
  <2>4. groups' = [g \in Groups |-> groups'[g]]
    BY <2>1 DEF StripClient
  <2> HIDE DEF Membership
  <2> QED
    BY <2>3, <2>4 DEF Thinner
<1> QED
  BY <1>2, <1>3, <1>4

LEMMA UserInv ==
  ASSUME IInv, NEW u \in Users, UserPost(u) \/ UserDelete(u)
  PROVE  IInv'
<1>1. /\ Idle /\ UNCHANGED <<clients, groups, members, invitations, disk, up, stale>>
      /\ \/ users' = users \union {u} /\ todo' = <<Write(UserPath(u), File)>>
         \/ users' = users \ {u} /\ todo' = <<Write(UserPath(u), Absent)>>
  BY DEF UserPost, UserDelete, StoreCall, RemoveFile, RemoveAll, Write
<1>2. MemoryOK' /\ UserPath(u) \in Paths
  BY <1>1, PathsKnown DEF IInv, MemoryOK
<1>3. \A q \in Paths \ {UserPath(u)} : \A d : Agrees(q, d) => Agrees(q, d)'
  BY <1>1, PathsDiffer DEF Agrees, ReadMembers, ReadGroup
<1>4. Fits(UserPath(u), File) /\ Fits(UserPath(u), Absent)
  BY PathsDiffer DEF Fits, Contents
<1>5. CASE users' = users \union {u} /\ todo' = <<Write(UserPath(u), File)>>
  <2>1. Agrees(UserPath(u), File)'
    BY <1>5, PathsDiffer, MarksKnown DEF Agrees
  <2> QED
    BY <1>1, <1>2, <1>3, <1>4, <1>5, <2>1, OneCall
<1>6. CASE users' = users \ {u} /\ todo' = <<Write(UserPath(u), Absent)>>
  <2>1. Agrees(UserPath(u), Absent)'
    BY <1>6, PathsDiffer DEF Agrees
  <2> QED
    BY <1>1, <1>2, <1>3, <1>4, <1>6, <2>1, OneCall
<1> QED
  BY <1>1, <1>5, <1>6

\* A new list of members, of users only; groups may lose users.
LEMMA MembersInv ==
  ASSUME IInv, Idle, members' \subseteq Users,
         todo' = PersistOrg(members'),
         UNCHANGED <<users, clients, disk, up, stale>>,
         invitations' \in [Ids -> Users \union {None}],
         groups' = groups \/ \E u \in Users : groups' = StripUser(u)
  PROVE  IInv'
<1>1. Thinner
  BY StripThins DEF IInv
<1>2. \A g \in Groups : groups'[g] # None =>
         groups[g] # None /\ \A x : Within(groups[g], x) => Within(groups'[g], x)
  BY <1>1 DEF Thinner
<1>3. MemoryOK'
  BY <1>1 DEF IInv, MemoryOK, Thinner
<1> DEFINE c == [Empty EXCEPT !.users = members']
<1>4. c \in Membership /\ c.users = members'
  BY GroupsKnown
<1>5. Fits(MembersPath, c)
  <2> HIDE DEF c
  <2> QED
    BY <1>4, PathsDiffer DEF Fits, Contents
<1>6. todo' = <<Write(MembersPath, c)>>
  BY DEF PersistOrg
<1> HIDE DEF c
<1>7. PICK d : d = c
  OBVIOUS
<1>8. Agrees(MembersPath, d)'
  BY <1>4, <1>7, PathsDiffer, MarksKnown DEF Agrees, ReadMembers
<1>9. \A q \in Paths \ {MembersPath} : \A x : Agrees(q, x) => Agrees(q, x)'
  BY <1>2, PathsDiffer DEF Agrees, ReadGroup
<1> QED
  BY <1>3, <1>5, <1>6, <1>7, <1>8, <1>9, PathsKnown, OneCall

LEMMA MemberInv ==
  ASSUME IInv, NEW u \in Users, MemberPost(u) \/ MemberDelete(u)
  PROVE  IInv'
<1>1. Idle /\ MemoryOK
  BY DEF IInv, MemberPost, MemberDelete
<1>2. /\ members' \subseteq Users /\ todo' = PersistOrg(members')
      /\ UNCHANGED <<users, clients, invitations, disk, up, stale>>
      /\ groups' = groups \/ \E w \in Users : groups' = StripUser(w)
  BY <1>1 DEF MemberPost, MemberDelete, StoreCall, MemoryOK
<1>3. invitations' \in [Ids -> Users \union {None}]
  BY <1>1, <1>2 DEF MemoryOK
<1> QED
  BY <1>1, <1>2, <1>3, MembersInv

LEMMA InvitationInv ==
  ASSUME IInv, NEW id \in Ids,
         \/ \E u \in Users : Invite(id, u)
         \/ CancelInvitation(id)
         \/ \E accept \in BOOLEAN : AnswerInvitation(id, accept)
  PROVE  IInv'
<1>1. /\ Idle /\ MemoryOK /\ UNCHANGED <<users, clients, groups>>
      /\ \E x \in Users \union {None} : invitations' = [invitations EXCEPT ![id] = x]
      /\ \/ NoStoreCall /\ UNCHANGED members
         \/ /\ members' = members \union {invitations[id]} /\ invitations[id] \in users
            /\ StoreCall(MembersPath, PersistOrg(members'), TRUE)
  BY DEF IInv, Invite, CancelInvitation, AnswerInvitation
<1>2. invitations' \in [Ids -> Users \union {None}]
  BY <1>1 DEF MemoryOK
<1>3. CASE NoStoreCall /\ UNCHANGED members
  <2>1. MemoryOK'
    BY <1>1, <1>2, <1>3 DEF MemoryOK
  <2>2. \A q \in Paths : \A d : Agrees(q, d) => Agrees(q, d)'
    BY <1>1, <1>3 DEF Agrees, ReadMembers, ReadGroup
  <2> QED
    BY <1>1, <1>3, <2>1, <2>2, NoCall
<1>4. CASE /\ members' = members \union {invitations[id]} /\ invitations[id] \in users
           /\ StoreCall(MembersPath, PersistOrg(members'), TRUE)
  <2>1. members' \subseteq Users /\ todo' = PersistOrg(members') /\ UNCHANGED <<disk, up, stale>>
    BY <1>1, <1>4 DEF MemoryOK, StoreCall
  <2> QED
    BY <1>1, <1>2, <2>1, MembersInv
<1> QED
  BY <1>1, <1>3, <1>4

\* One group is made, filled or deleted.
LEMMA GroupInv ==
  ASSUME IInv, NEW g \in Groups,
         GroupPost(g) \/ GroupDelete(g) \/ \E m \in Membership : GroupPut(g, m)
  PROVE  IInv'
<1>1. /\ Idle /\ MemoryOK /\ UNCHANGED <<users, clients, members, invitations, disk, up, stale>>
      /\ \/ \E m \in Membership : /\ groups' = [groups EXCEPT ![g] = m]
                                  /\ todo' = <<Write(GroupPath(g), m)>>
         \/ groups' = [groups EXCEPT ![g] = None] /\ todo' = <<Write(GroupPath(g), Absent)>>
  BY GroupsKnown DEF IInv, GroupPost, GroupDelete, GroupPut, StoreCall, PersistGroup,
                     RemoveFile, RemoveAll, Write
<1>2. groups \in [Groups -> Membership \union {None}] /\ GroupPath(g) \in Paths
  BY <1>1, PathsKnown DEF MemoryOK
<1>3. \A h \in Groups \ {g} : groups'[h] = groups[h]
  BY <1>1, <1>2
<1>4. \A q \in Paths \ {GroupPath(g)} : \A d : Agrees(q, d) => Agrees(q, d)'
  BY <1>1, <1>3 DEF Agrees, ReadMembers, ReadGroup
<1>5. CASE \E m \in Membership : /\ groups' = [groups EXCEPT ![g] = m]
                                /\ todo' = <<Write(GroupPath(g), m)>>
  <2>1. PICK m \in Membership : groups' = [groups EXCEPT ![g] = m] /\ todo' = <<Write(GroupPath(g), m)>>
    BY <1>5
  <2> HIDE DEF Membership
  <2>2. MemoryOK'
    BY <1>1, <1>2, <2>1 DEF MemoryOK
  <2>3. Fits(GroupPath(g), m)
    BY PathsDiffer DEF Fits, Contents
  <2>4. groups'[g] = m
    BY <1>2, <2>1
  <2>5. Agrees(GroupPath(g), m)'
    BY <2>4, PathsDiffer, MarksKnown DEF Agrees, ReadGroup, Within
  <2> QED
    BY <1>1, <1>2, <1>4, <2>1, <2>2, <2>3, <2>5, OneCall
<1>6. CASE groups' = [groups EXCEPT ![g] = None] /\ todo' = <<Write(GroupPath(g), Absent)>>
  <2>1. MemoryOK'
    BY <1>1, <1>2, <1>6 DEF MemoryOK
  <2>2. Fits(GroupPath(g), Absent)
    BY PathsDiffer DEF Fits, Contents
  <2>3. Agrees(GroupPath(g), Absent)'
    BY <1>2, <1>6, PathsDiffer DEF Agrees
  <2> QED
    BY <1>1, <1>2, <1>4, <1>6, <2>1, <2>2, <2>3, OneCall
<1> QED
  BY <1>1, <1>5, <1>6

LEMMA TwoCalls ==
  ASSUME IInv, Idle, MemoryOK',
         NEW p \in Paths, NEW c, Fits(p, c), Agrees(p, c)',
         NEW q \in Paths, NEW d, Fits(q, d), Agrees(q, d)',
         todo' = <<Write(p, c), Write(q, d)>>, UNCHANGED <<disk, up, stale>>,
         \A x \in Paths \ {p, q} : \A e : Agrees(x, e) => Agrees(x, e)'
  PROVE  IInv'
<1>1. TodoOK' /\ Coming' /\ Touched(todo') = {p, q}
  BY TwoOps
<1>2. stale \subseteq Paths
  BY DEF IInv, StoreOK
<1> QED
  BY <1>1, <1>2, HandlerInv

\* The handler panics with the client made in memory only, or the client and
\* the group clients are written, one after the other.
LEMMA ClientPostInv ==
  ASSUME IInv, NEW c \in Clients, ClientPost(c)
  PROVE  IInv'
<1>1. /\ Idle /\ MemoryOK /\ clients' = clients \union {c}
      /\ UNCHANGED <<users, members, invitations, disk, up>>
      /\ ClientPath(c) \in Paths /\ GroupPath(ClientsGroup) \in Paths /\ ClientsGroup \in Groups
      /\ groups \in [Groups -> Membership \union {None}] /\ stale \subseteq Paths
  BY PathsKnown, MembersAssumption DEF IInv, MemoryOK, StoreOK, ClientPost, StoreCall, StoreCallFails
<1>2. CASE groups[ClientsGroup] = None
  <2>1. groups' = groups /\ todo' = <<>> /\ stale' = stale \union {ClientPath(c)}
    BY <1>2 DEF ClientPost, StoreCall, StoreCallFails
  <2>2. MemoryOK' /\ TodoOK' /\ Coming'
    BY <1>1, <2>1, NothingLeft DEF MemoryOK, TodoOK, Coming
  <2>3. \A q \in Paths \ {ClientPath(c)} : \A d : Agrees(q, d) => Agrees(q, d)'
    BY <1>1, <2>1, PathsDiffer DEF Agrees, ReadMembers, ReadGroup
  <2> QED
    BY <1>1, <2>1, <2>2, <2>3, HandlerInv
<1>3. CASE groups[ClientsGroup] # None
  <2>1. PICK m : m = [groups[ClientsGroup] EXCEPT !.clients = @ \union {c}]
    OBVIOUS
  <2>2. groups[ClientsGroup] \in Membership
    BY <1>1, <1>3
  <2>3. m \in Membership
    BY <2>1, <2>2 DEF Membership
  <2>4. groups' = [groups EXCEPT ![ClientsGroup] = m]
    BY <1>3, <2>1 DEF ClientPost
  <2>5. groups'[ClientsGroup] = m /\ \A h \in Groups \ {ClientsGroup} : groups'[h] = groups[h]
    BY <1>1, <2>4
  <2>6. /\ todo' = <<Write(ClientPath(c), File), Write(GroupPath(ClientsGroup), m)>>
        /\ UNCHANGED stale
    BY <1>3, <2>5 DEF ClientPost, StoreCall, PersistGroup
  <2>7. MemoryOK'
    <3> HIDE DEF Membership
    <3> QED
      BY <1>1, <2>3, <2>4 DEF MemoryOK
  <2>8. Fits(ClientPath(c), File) /\ Fits(GroupPath(ClientsGroup), m)
    BY <2>3, PathsDiffer DEF Fits, Contents
  <2>9. Agrees(ClientPath(c), File)'
    BY <1>1, PathsDiffer, MarksKnown DEF Agrees
  <2>10. Agrees(GroupPath(ClientsGroup), m)'
    BY <2>3, <2>5, PathsDiffer, MarksKnown DEF Agrees, ReadGroup, Within
  <2>11. \A q \in Paths \ {ClientPath(c), GroupPath(ClientsGroup)} : \A d : Agrees(q, d) => Agrees(q, d)'
    BY <1>1, <2>5, PathsDiffer DEF Agrees, ReadMembers, ReadGroup
  <2> QED
    BY <1>1, <2>6, <2>7, <2>8, <2>9, <2>10, <2>11, TwoCalls
<1> QED
  BY <1>2, <1>3

\* The client's file goes; of the groups it leaves only clients is written,
\* and the files of the others hold no less than they did.
LEMMA ClientDeleteInv ==
  ASSUME IInv, NEW c \in Clients, ClientDelete(c)
  PROVE  IInv'
<1>1. /\ Idle /\ MemoryOK /\ clients' = clients \ {c} /\ groups' = StripClient(c)
      /\ UNCHANGED <<users, members, invitations, disk, up, stale>>
      /\ ClientPath(c) \in Paths /\ GroupPath(ClientsGroup) \in Paths /\ ClientsGroup \in Groups
  BY PathsKnown, MembersAssumption DEF IInv, ClientDelete, StoreCall
<1>2. Thinner
  BY <1>1, StripThins
<1>3. MemoryOK'
  BY <1>1, <1>2 DEF MemoryOK, Thinner
<1>4. Fits(ClientPath(c), Absent)
  BY PathsDiffer DEF Fits, Contents
<1>5. Agrees(ClientPath(c), Absent)'
  BY <1>1, PathsDiffer DEF Agrees
<1>6. \A q \in Paths \ {ClientPath(c)} : \A d : Agrees(q, d) => Agrees(q, d)'
  BY <1>1, <1>2, PathsDiffer DEF Agrees, ReadMembers, ReadGroup, Thinner
<1>7. CASE groups[ClientsGroup] = None
  <2>1. todo' = <<Write(ClientPath(c), Absent)>>
    BY <1>7 DEF ClientDelete, StoreCall, RemoveFile, RemoveAll, Write
  <2> QED
    BY <1>1, <1>3, <1>4, <1>5, <1>6, <2>1, OneCall
<1>8. CASE groups[ClientsGroup] # None
  <2>1. PICK m : m = [groups[ClientsGroup] EXCEPT !.clients = @ \ {c}]
    OBVIOUS
  <2>2. groups'[ClientsGroup] = m
    BY <1>1, <1>8, <2>1 DEF StripClient
  <2>3. groups[ClientsGroup] \in Membership
    BY <1>1, <1>8 DEF MemoryOK
  <2>4. m \in Membership
    BY <2>1, <2>3 DEF Membership
  <2>5. todo' = <<Write(ClientPath(c), Absent), Write(GroupPath(ClientsGroup), m)>>
    BY <1>8, <2>2 DEF ClientDelete, StoreCall, RemoveFile, RemoveAll, PersistGroup, Write
  <2>6. Fits(GroupPath(ClientsGroup), m)
    BY <2>4, PathsDiffer DEF Fits, Contents
  <2>7. Agrees(GroupPath(ClientsGroup), m)'
    BY <2>2, <2>4, PathsDiffer, MarksKnown DEF Agrees, ReadGroup, Within
  <2> QED
    BY <1>1, <1>3, <1>4, <1>5, <1>6, <2>5, <2>6, <2>7, TwoCalls
<1> QED
  BY <1>7, <1>8

LEMMA NextInv == IInv /\ [Next]_vars => IInv'
<1> SUFFICES ASSUME IInv, [Next]_vars PROVE IInv'
  OBVIOUS
<1>1. CASE \E u \in Users : UserPost(u) \/ UserDelete(u)
  BY <1>1, UserInv
<1>2. CASE \E u \in Users : MemberPost(u) \/ MemberDelete(u)
  BY <1>2, MemberInv
<1>3. CASE \/ \E id \in Ids, u \in Users : Invite(id, u)
           \/ \E id \in Ids : CancelInvitation(id)
           \/ \E id \in Ids, accept \in BOOLEAN : AnswerInvitation(id, accept)
  BY <1>3, InvitationInv
<1>4. CASE \E c \in Clients : ClientPost(c)
  BY <1>4, ClientPostInv
<1>5. CASE \E c \in Clients : ClientDelete(c)
  BY <1>5, ClientDeleteInv
<1>6. CASE \/ \E g \in Groups : GroupPost(g) \/ GroupDelete(g)
           \/ \E g \in Groups, m \in Membership : GroupPut(g, m)
  BY <1>6, GroupInv
<1>7. CASE Persist
  BY <1>7, PersistInv
<1>8. CASE Fault
  BY <1>8, FaultInv
<1>9. CASE Crash
  BY <1>9, CrashInv
<1>10. CASE Start
  BY <1>10, StartInv
<1>11. CASE UNCHANGED vars
  <2>1. \A p, d : Agrees(p, d)' = Agrees(p, d)
    BY <1>11 DEF vars, memory, Agrees, ReadMembers, ReadGroup
  <2> QED
    BY <1>11, <2>1 DEF IInv, MemoryOK, DiskOK, TodoOK, StoreOK, OnDisk, Coming, Right,
                       vars, memory, storeVars, Fits
<1> QED
  BY <1>1, <1>2, <1>3, <1>4, <1>5, <1>6, <1>7, <1>8, <1>9, <1>10, <1>11 DEF Next, Request

-----------------------------------------------------------------------------
(* Theorems.                                                               *)

\* Every reachable state of the server is one in which memory, what is still
\* to be written and what is on disk agree.
THEOREM Invariance == Spec => []IInv
<1> QED
  BY InitInv, NextInv, PTL DEF Spec

\* Memory, store and files always have their types.
THEOREM TypeCorrect == Spec => []TypeOK
<1>1. IInv => TypeOK
  <2> SUFFICES ASSUME IInv PROVE TypeOK
    OBVIOUS
  <2>1. todo \in Seq([at : SUBSET Paths, holds : Membership \union {File, Absent}])
    BY DEF IInv, TodoOK, Ops, Contents
  <2>2. disk \in [Paths -> Membership \union {File, Absent, Torn}]
    BY DEF IInv, DiskOK, Contents
  <2> QED
    BY <2>1, <2>2 DEF IInv, MemoryOK, StoreOK, TypeOK
<1> QED
  BY <1>1, Invariance, PTL

\* Between requests every file that no error was answered about agrees with
\* what the server serves.
LEMMA IdleAgrees ==
  ASSUME IInv, Idle, NEW p \in Paths, p \notin stale
  PROVE  Agrees(p, disk[p])
  BY NothingLeft DEF Idle, IInv, OnDisk, Right

\* Whatever the order of requests, faults and restarts, a start finds the
\* users, clients and members that were being served.
THEOREM PrincipalsDurable == Spec => []PrincipalsAreOnDisk
<1>1. IInv => PrincipalsAreOnDisk
  <2> SUFFICES ASSUME IInv, Idle PROVE PrincipalsAreOnDisk!2
    BY DEF PrincipalsAreOnDisk
  <2>1. \A u \in Users : UserPath(u) \notin stale => (u \in users <=> u \in LoadedUsers)
    BY IdleAgrees, PathsKnown DEF Agrees, LoadedUsers
  <2>2. \A c \in Clients : ClientPath(c) \notin stale => (c \in clients <=> c \in LoadedClients)
    BY IdleAgrees, PathsKnown DEF Agrees, LoadedClients
  <2>3. MembersPath \notin stale => members = LoadedMembers
    BY IdleAgrees, PathsKnown DEF Agrees, LoadedMembers, ReadMembers
  <2> QED
    BY <2>1, <2>2, <2>3
<1> QED
  BY <1>1, Invariance, PTL

\* Deleting clients and members writes some of the groups they leave and not
\* others; still a restart takes nobody out of a group.
THEOREM NobodyDropped == Spec => []RestartDropsNobody
<1>1. IInv => RestartDropsNobody
  <2> SUFFICES ASSUME IInv, Idle, NEW g \in Groups, GroupPath(g) \notin stale, groups[g] # None
               PROVE  LoadedGroup(g) # None /\ Within(groups[g], LoadedGroup(g))
    BY DEF RestartDropsNobody
  <2>1. Agrees(GroupPath(g), disk[GroupPath(g)])
    BY IdleAgrees, PathsKnown
  <2>2. ReadGroup(g, disk[GroupPath(g)]) = LoadedGroup(g)
    BY DEF ReadGroup, LoadedGroup
  <2> QED
    BY <2>1, <2>2 DEF Agrees
<1> QED
  BY <1>1, Invariance, PTL
=============================================================================
