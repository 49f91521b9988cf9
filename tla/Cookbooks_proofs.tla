-------------------------- MODULE Cookbooks_proofs --------------------------
(***************************************************************************)
(* What the server of Cookbooks guarantees to its clients in memory, for   *)
(* any number of uploaders, versions and files.  The uploads need an       *)
(* invariant of their own: what a sandbox lacked is either served by now   *)
(* or still to be sent by the uploader who opened it.  And what a start    *)
(* finds in the directory of a version: the file operations of an upload   *)
(* are a sequence of unbounded length, and together with what is there     *)
(* they make up the version in memory at every one of them.                *)
(***************************************************************************)
EXTENDS Cookbooks, SequenceTheorems, FiniteSetTheorems, TLAPS

Indexed ==
    /\ versions = [v \in Versions |-> versions[v]]
    /\ job = [u \in Uploaders |-> job[u]]
    /\ phase = [u \in Uploaders |-> phase[u]]
    /\ missing = [u \in Uploaders |-> missing[u]]
    /\ sandboxes = [u \in Uploaders |-> sandboxes[u]]
    /\ unbroken \subseteq Uploaders

\* Nothing is served, and nobody counts on anything, while no process runs.
NothingWhileDown == ~up => unbroken = {} /\ \A v \in Versions : versions[v] = None

UploadsInOrder ==
    \A u \in unbroken :
      /\ phase[u] \in {"send", "commit"} =>
           /\ sandboxes[u] # None
           /\ sandboxes[u] \subseteq bookshelf \union missing[u]
           /\ Range(job[u].files) \subseteq bookshelf \union sandboxes[u]
      /\ phase[u] = "commit" => missing[u] = {}
      /\ phase[u] = "put" => Range(job[u].files) \subseteq bookshelf

IInv == Indexed /\ NothingWhileDown /\ ContentIsServed /\ UploadsInOrder

-----------------------------------------------------------------------------

\* The handlers never start or stop the process.
LEMMA CallsKeepUp ==
  /\ \A v, files, isFrozen : PutCookbook(v, files, isFrozen) => up' = up
  /\ \A v : DeleteCookbook(v) => up' = up
  /\ NoStoreCall => up' = up
<1>1. \A p, ops, accepted : StoreCall(p, ops, accepted) \/ StoreCallFails(p, ops) => up' = up
  BY DEF StoreCall, StoreCallFails
<1>2. ASSUME NEW v, NEW files, NEW isFrozen, PutCookbook(v, files, isFrozen) PROVE up' = up
  BY <1>1, <1>2, ZenonT(90) DEF PutCookbook
<1>3. ASSUME NEW v, DeleteCookbook(v) PROVE up' = up
  BY <1>1, <1>3, Zenon DEF DeleteCookbook
<1>4. NoStoreCall => up' = up
  BY DEF NoStoreCall, storeVars
<1> QED
  BY <1>2, <1>3, <1>4

LEMMA InitInv == Init => IInv
  BY DEF Init, IInv, Indexed, NothingWhileDown, ContentIsServed, UploadsInOrder

LEMMA SandboxPostInv ==
  ASSUME IInv, NEW u \in Uploaders, NEW j \in Jobs, SandboxPost(u, j)
  PROVE  IInv'
<1>1. PICK need \in SUBSET Sums :
        /\ need = Range(j.files) \ bookshelf
        /\ sandboxes' = [sandboxes EXCEPT ![u] = need]
        /\ missing' = [missing EXCEPT ![u] = need]
        /\ phase' = [phase EXCEPT ![u] = IF need = {} THEN "commit" ELSE "send"]
  <2>1. Range(j.files) \subseteq Sums
    BY CookbooksAssumption DEF Range
  <2> QED
    BY <2>1 DEF SandboxPost
<1>2. /\ job' = [job EXCEPT ![u] = j] /\ unbroken' = unbroken \union {u}
      /\ UNCHANGED <<bookshelf, versions>> /\ up' = up /\ up
  BY CallsKeepUp DEF SandboxPost, Idle
<1>3. need # None
  BY CookbooksAssumption
<1>4. Indexed' /\ NothingWhileDown' /\ ContentIsServed'
  BY <1>1, <1>2 DEF IInv, Indexed, NothingWhileDown, ContentIsServed
<1>5. UploadsInOrder'
  <2>1. ASSUME NEW w \in unbroken'
        PROVE  /\ phase'[w] \in {"send", "commit"} =>
                    /\ sandboxes'[w] # None
                    /\ sandboxes'[w] \subseteq bookshelf' \union missing'[w]
                    /\ Range(job'[w].files) \subseteq bookshelf' \union sandboxes'[w]
               /\ phase'[w] = "commit" => missing'[w] = {}
               /\ phase'[w] = "put" => Range(job'[w].files) \subseteq bookshelf'
    <3>1. CASE w = u
      <4>1. /\ sandboxes'[w] = need /\ missing'[w] = need /\ job'[w] = j
            /\ phase'[w] = IF need = {} THEN "commit" ELSE "send"
        BY <1>1, <1>2, <3>1 DEF IInv, Indexed
      <4> QED
        BY <1>1, <1>2, <1>3, <4>1
    <3>2. CASE w # u
      <4>1. /\ w \in unbroken /\ UNCHANGED bookshelf
            /\ sandboxes'[w] = sandboxes[w] /\ missing'[w] = missing[w]
            /\ job'[w] = job[w] /\ phase'[w] = phase[w]
        BY <1>1, <1>2, <3>2 DEF IInv, Indexed
      <4> QED
        BY <4>1 DEF IInv, UploadsInOrder
    <3> QED
      BY <3>1, <3>2
  <2> QED
    BY <2>1 DEF UploadsInOrder
<1> QED
  BY <1>4, <1>5 DEF IInv

\* An uploader that leaves no longer counts; the others keep what they have.
LEMMA LeaveInv ==
  ASSUME IInv, NEW u \in Uploaders, Leave(u), up' = up,
         bookshelf \subseteq bookshelf',
         sandboxes' = sandboxes \/ sandboxes' = [sandboxes EXCEPT ![u] = None]
  PROVE  /\ UploadsInOrder'
         /\ versions' = [v \in Versions |-> versions'[v]] => Indexed'
         /\ ~up => unbroken' = {}
<1>1. /\ job' = [job EXCEPT ![u] = None] /\ phase' = [phase EXCEPT ![u] = "none"]
      /\ missing' = [missing EXCEPT ![u] = {}] /\ unbroken' = unbroken \ {u}
  BY DEF Leave
<1>2. \A w \in unbroken' :
        /\ w \in unbroken /\ w \in Uploaders
        /\ job'[w] = job[w] /\ phase'[w] = phase[w]
        /\ missing'[w] = missing[w] /\ sandboxes'[w] = sandboxes[w]
  BY <1>1 DEF IInv, Indexed
<1>3. UploadsInOrder'
  BY <1>2 DEF IInv, UploadsInOrder
<1>4. versions' = [v \in Versions |-> versions'[v]] => Indexed'
  BY <1>1 DEF IInv, Indexed
<1>5. ~up => unbroken' = {}
  BY <1>1 DEF IInv, NothingWhileDown
<1> QED
  BY <1>3, <1>4, <1>5

LEMMA GiveUpInv ==
  ASSUME IInv, NEW u \in Uploaders, GiveUp(u)
  PROVE  IInv'
<1>1. /\ Leave(u) /\ up' = up /\ UNCHANGED <<bookshelf, versions>>
      /\ sandboxes' = [sandboxes EXCEPT ![u] = None]
  BY DEF GiveUp, storeVars
<1>2. UploadsInOrder' /\ Indexed' /\ (~up => unbroken' = {})
  BY <1>1, LeaveInv DEF IInv, Indexed
<1> QED
  BY <1>1, <1>2 DEF IInv, NothingWhileDown, ContentIsServed

LEMMA BookshelfPutInv ==
  ASSUME IInv, NEW u \in Uploaders, NEW sum \in Sums, BookshelfPut(u, sum)
  PROVE  IInv'
<1>1. /\ up /\ up' = up /\ phase[u] = "send" /\ UNCHANGED <<sandboxes, versions, job, unbroken>>
      /\ bookshelf' = bookshelf \union {sum}
      /\ missing' = [missing EXCEPT ![u] = @ \ {sum}]
      /\ phase' = [phase EXCEPT ![u] = IF missing[u] = {sum} THEN "commit" ELSE "send"]
  BY CallsKeepUp DEF BookshelfPut, Idle
<1>2. Indexed' /\ NothingWhileDown' /\ ContentIsServed'
  BY <1>1 DEF IInv, Indexed, NothingWhileDown, ContentIsServed
<1>3. ASSUME NEW w \in unbroken
      PROVE  /\ phase'[w] \in {"send", "commit"} =>
                  /\ sandboxes[w] # None
                  /\ sandboxes[w] \subseteq bookshelf' \union missing'[w]
                  /\ Range(job[w].files) \subseteq bookshelf' \union sandboxes[w]
             /\ phase'[w] = "commit" => missing'[w] = {}
             /\ phase'[w] = "put" => Range(job[w].files) \subseteq bookshelf'
  <2>1. CASE w = u
    <3>1. /\ missing'[w] = missing[w] \ {sum}
          /\ phase'[w] = IF missing[w] = {sum} THEN "commit" ELSE "send"
      BY <1>1, <2>1 DEF IInv, Indexed
    <3> QED
      BY <1>1, <2>1, <3>1 DEF IInv, UploadsInOrder
  <2>2. CASE w # u
    <3>1. missing'[w] = missing[w] /\ phase'[w] = phase[w]
      BY <1>1, <2>2 DEF IInv, Indexed
    <3> QED
      BY <1>1, <3>1 DEF IInv, UploadsInOrder
  <2> QED
    BY <2>1, <2>2
<1>4. UploadsInOrder'
  BY <1>1, <1>3 DEF UploadsInOrder
<1> QED
  BY <1>2, <1>4 DEF IInv

LEMMA SandboxPutInv ==
  ASSUME IInv, NEW u \in Uploaders, SandboxPut(u)
  PROVE  IInv'
<1>1. /\ up /\ up' = up /\ phase[u] = "commit" /\ UNCHANGED <<bookshelf, versions>>
  BY CallsKeepUp DEF SandboxPut, Idle
<1>2. CASE sandboxes[u] # None /\ sandboxes[u] \subseteq bookshelf
  <2>1. /\ phase' = [phase EXCEPT ![u] = "put"]
        /\ sandboxes' = [sandboxes EXCEPT ![u] = None]
        /\ UNCHANGED <<job, missing, unbroken>>
    BY <1>2 DEF SandboxPut
  <2>2. Indexed' /\ NothingWhileDown' /\ ContentIsServed'
    BY <1>1, <2>1 DEF IInv, Indexed, NothingWhileDown, ContentIsServed
  <2>3. ASSUME NEW w \in unbroken
        PROVE  /\ phase'[w] \in {"send", "commit"} =>
                    /\ sandboxes'[w] # None
                    /\ sandboxes'[w] \subseteq bookshelf \union missing[w]
                    /\ Range(job[w].files) \subseteq bookshelf \union sandboxes'[w]
               /\ phase'[w] = "commit" => missing[w] = {}
               /\ phase'[w] = "put" => Range(job[w].files) \subseteq bookshelf
    <3>1. CASE w = u
      <4>1. phase'[w] = "put"
        BY <2>1, <3>1 DEF IInv, Indexed
      <4>2. Range(job[w].files) \subseteq bookshelf \union sandboxes[w]
        BY <1>1, <3>1 DEF IInv, UploadsInOrder
      <4> QED
        BY <1>2, <3>1, <4>1, <4>2
    <3>2. CASE w # u
      <4>1. sandboxes'[w] = sandboxes[w] /\ phase'[w] = phase[w]
        BY <2>1, <3>2 DEF IInv, Indexed
      <4> QED
        BY <4>1 DEF IInv, UploadsInOrder
    <3> QED
      BY <3>1, <3>2
  <2>4. UploadsInOrder'
    BY <1>1, <2>1, <2>3 DEF UploadsInOrder
  <2> QED
    BY <2>2, <2>4 DEF IInv
<1>3. CASE ~(sandboxes[u] # None /\ sandboxes[u] \subseteq bookshelf)
  <2>1. Leave(u) /\ UNCHANGED sandboxes
    BY <1>3 DEF SandboxPut
  <2>2. UploadsInOrder' /\ Indexed'
    BY <1>1, <2>1, LeaveInv DEF IInv, Indexed
  <2> QED
    BY <1>1, <2>2 DEF IInv, NothingWhileDown, ContentIsServed
<1> QED
  BY <1>2, <1>3

LEMMA CookbookPutInv ==
  ASSUME IInv, NEW u \in Uploaders, NEW j \in Jobs, CookbookPut(u, j)
  PROVE  IInv'
<1>1. /\ up /\ up' = up /\ Leave(u) /\ UNCHANGED <<bookshelf, sandboxes>>
      /\ \/ /\ Acceptable(j)
            /\ versions' = [versions EXCEPT ![j.id] =
                              [files |-> j.files, frozen |-> j.id \in frozen']]
         \/ UNCHANGED versions
  BY CallsKeepUp DEF CookbookPut, Idle
<1>2. j.id \in Versions
  BY CookbooksAssumption
<1>3. versions' = [v \in Versions |-> versions'[v]]
  BY <1>1, <1>2 DEF IInv, Indexed
<1>4. UploadsInOrder' /\ Indexed'
  BY <1>1, <1>3, LeaveInv
<1>5. ContentIsServed'
  BY <1>1, <1>2 DEF IInv, Indexed, ContentIsServed, Acceptable
<1> QED
  BY <1>1, <1>4, <1>5 DEF IInv, NothingWhileDown

LEMMA CookbookDeleteInv ==
  ASSUME IInv, NEW v \in Versions, CookbookDelete(v)
  PROVE  IInv'
<1>1. /\ up /\ up' = up /\ UNCHANGED <<bookshelf, sandboxes, job, phase, missing, unbroken>>
      /\ versions' = [versions EXCEPT ![v] = None]
  BY CallsKeepUp DEF CookbookDelete, Idle, uploads
<1>2. Indexed' /\ NothingWhileDown' /\ UploadsInOrder'
  BY <1>1 DEF IInv, Indexed, NothingWhileDown, UploadsInOrder
<1>3. ContentIsServed'
  BY <1>1 DEF IInv, Indexed, ContentIsServed
<1> QED
  BY <1>2, <1>3 DEF IInv

\* The steps that leave memory and uploads alone.
LEMMA QuietInv ==
  ASSUME IInv, UNCHANGED <<bookshelf, versions, sandboxes, uploads>>, up' = up
  PROVE  IInv'
  BY DEF IInv, Indexed, NothingWhileDown, ContentIsServed, UploadsInOrder, uploads

LEMMA CrashInv == IInv /\ Crash => IInv'
<1> SUFFICES ASSUME IInv, Crash PROVE IInv'
  OBVIOUS
<1>1. /\ unbroken' = {} /\ versions' = [v \in Versions |-> None]
      /\ sandboxes' = [u \in Uploaders |-> None]
      /\ UNCHANGED <<job, phase, missing>>
  BY DEF Crash
<1> QED
  BY <1>1 DEF IInv, Indexed, NothingWhileDown, ContentIsServed, UploadsInOrder

LEMMA StartInv == IInv /\ Start => IInv'
<1> SUFFICES ASSUME IInv, Start PROVE IInv'
  OBVIOUS
<1>1. /\ ~up /\ up' /\ UNCHANGED <<sandboxes, job, phase, missing, unbroken>>
      /\ versions' = [v \in Versions |-> LoadedVersion(v)]
      /\ bookshelf' = UNION {Range(LoadedFiles(v)) :
                               v \in {w \in Versions : disk[DirPath(w)] # Absent}}
  BY DEF Start, ProcessStarts, uploads
<1>2. Indexed' /\ NothingWhileDown' /\ UploadsInOrder'
  BY <1>1 DEF IInv, Indexed, NothingWhileDown, UploadsInOrder
<1>3. ASSUME NEW v \in Versions, versions'[v] # None
      PROVE  Range(versions'[v].files) \subseteq bookshelf'
  <2>1. disk[DirPath(v)] # Absent /\ versions'[v].files = LoadedFiles(v)
    BY <1>1, <1>3 DEF LoadedVersion
  <2> QED
    BY <1>1, <2>1
<1>4. ContentIsServed'
  BY <1>3 DEF ContentIsServed
<1> QED
  BY <1>2, <1>4 DEF IInv

LEMMA NextInv == IInv /\ [Next]_vars => IInv'
<1> SUFFICES ASSUME IInv, [Next]_vars PROVE IInv'
  OBVIOUS
<1>1. ASSUME NEW n \in Names, NEW acl \in ACLs, CookbookACL(n, acl) PROVE IInv'
  <2>1. up' = up
    BY <1>1 DEF CookbookACL, StoreCall
  <2> QED
    BY <1>1, <2>1, QuietInv DEF CookbookACL
<1>2. CASE Persist \/ Fault
  BY <1>2, QuietInv DEF Persist, Fault, StoreStep, StoreFault, StoreFaultOn, memory
<1>3. CASE UNCHANGED vars
  BY <1>3, QuietInv DEF vars, memory, storeVars
<1>4. CASE Next
  BY <1>1, <1>2, <1>4, SandboxPostInv, CookbookPutInv, BookshelfPutInv, SandboxPutInv,
     GiveUpInv, CookbookDeleteInv, CrashInv, StartInv DEF Next
<1> QED
  BY <1>3, <1>4

\* The inductive invariant holds in every reachable state.
THEOREM Invariant == Spec => []IInv
  BY InitInv, NextInv, PTL DEF Spec

\* Only versions are entered in Org.Frozen.
FrozenInVersions == frozen \subseteq Versions

LEMMA FrozenKnown == Spec => []FrozenInVersions
<1>1. Init => FrozenInVersions
  BY DEF Init, FrozenInVersions
<1>2. ASSUME FrozenInVersions, [Next]_vars PROVE FrozenInVersions'
  <2>1. ASSUME NEW u \in Uploaders, NEW j \in Jobs, CookbookPut(u, j)
        PROVE  FrozenInVersions'
    BY <1>2, <2>1, CookbooksAssumption DEF CookbookPut, FrozenInVersions
  <2>2. ASSUME NEW v \in Versions, CookbookDelete(v) PROVE FrozenInVersions'
    BY <1>2, <2>2 DEF CookbookDelete, FrozenInVersions
  <2>3. CASE Crash \/ Start
    BY <2>3 DEF Crash, Start, FrozenInVersions
  <2>4. CASE UNCHANGED frozen
    BY <1>2, <2>4 DEF FrozenInVersions
  <2>5. \/ UNCHANGED frozen
        \/ \E u \in Uploaders, j \in Jobs : CookbookPut(u, j)
        \/ \E v \in Versions : CookbookDelete(v)
        \/ Crash \/ Start
    BY <1>2 DEF Next, SandboxPost, BookshelfPut, SandboxPut, GiveUp, CookbookACL, Persist,
                Fault, memory, vars
  <2> QED
    BY <2>1, <2>2, <2>3, <2>4, <2>5
<1> QED
  BY <1>1, <1>2, PTL DEF Spec

-----------------------------------------------------------------------------
(* The properties.                                                         *)

\* No upload, deletion, crash or restart leaves a manifest that names content
\* the server does not have.
THEOREM ManifestsAreServed == Spec => []ContentIsServed
<1>1. IInv => ContentIsServed
  BY DEF IInv
<1> QED
  BY <1>1, Invariant, PTL

\* Neither the commit of a sandbox nor the manifest after it is ever refused
\* for what other uploaders did meanwhile.
THEOREM NobodyIsDisturbed == Spec => []UploadsGoThrough
<1>1. IInv => UploadsGoThrough
  BY DEF IInv, UploadsInOrder, UploadsGoThrough
<1> QED
  BY <1>1, Invariant, PTL

\* A step that replaces the content of a frozen version is a forced upload,
\* and no step replaces the content of an artifact.
THEOREM FrozenIsFinal == Spec => FrozenContentStays
<1> DEFINE Final ==
      \A v \in frozen \union Artifacts :
        versions[v] # None /\ versions'[v] \notin {None, versions[v]} =>
          /\ v \notin Artifacts
          /\ \E u \in Uploaders, j \in Jobs : CookbookPut(u, j) /\ j.id = v /\ j.force
<1>1. ASSUME IInv, FrozenInVersions, [Next]_vars PROVE [Final]_vars
  <2> SUFFICES ASSUME Next, NEW v \in frozen \union Artifacts,
                      versions[v] # None, versions'[v] \notin {None, versions[v]}
               PROVE  /\ v \notin Artifacts
                      /\ \E u \in Uploaders, j \in Jobs : CookbookPut(u, j) /\ j.id = v /\ j.force
    BY <1>1
  <2>1. CASE \E u \in Uploaders, j \in Jobs : CookbookPut(u, j)
    <3>1. PICK u \in Uploaders, j \in Jobs : CookbookPut(u, j)
      BY <2>1
    <3>2. /\ Acceptable(j)
          /\ versions' = [versions EXCEPT ![j.id] =
                            [files |-> j.files, frozen |-> j.id \in frozen']]
      BY <3>1 DEF CookbookPut
    <3>3. v = j.id
      BY <1>1, <3>2 DEF IInv, Indexed
    <3> QED
      BY <3>1, <3>2, <3>3 DEF Acceptable
  <2>2. CASE \E w \in Versions : CookbookDelete(w)
    <3>1. PICK w \in Versions : versions' = [versions EXCEPT ![w] = None]
      BY <2>2 DEF CookbookDelete
    <3>2. versions'[v] \in {None, versions[v]}
      BY <1>1, <3>1 DEF IInv, Indexed
    <3> QED
      BY <3>2
  <2>3. CASE Crash \/ Start
    <3>1. v \in Versions
      BY <1>1, CookbooksAssumption DEF FrozenInVersions
    <3>2. Crash => versions'[v] = None
      BY <3>1 DEF Crash
    <3>3. Start => versions[v] = None
      BY <1>1, <3>1 DEF Start, ProcessStarts, IInv, NothingWhileDown
    <3> QED
      BY <2>3, <3>2, <3>3
  <2>4. \/ UNCHANGED versions
        \/ \E u \in Uploaders, j \in Jobs : CookbookPut(u, j)
        \/ \E w \in Versions : CookbookDelete(w)
        \/ Crash \/ Start
    BY DEF Next, SandboxPost, BookshelfPut, SandboxPut, GiveUp, CookbookACL, Persist, Fault,
           memory
  <2> QED
    BY <2>1, <2>2, <2>3, <2>4
<1> QED
  BY <1>1, Invariant, FrozenKnown, PTL DEF Spec, FrozenContentStays

-----------------------------------------------------------------------------
(* The directory.  What the version of a directory is to be, when nothing  *)
(* went wrong there, is what the last of the operations that are left says *)
(* of each of its paths, and what is there now where none is left.         *)

Kept == Contents \union ACLs \union {Absent, Dir}
Rooms == UNION {{DirPath(v), FrozenPath(v)} : v \in Versions}
Own(v) == Below(v) \union {DirPath(v)}

\* A content that a path's own kind of file can have.
Fits(p, c) ==
    /\ c \in Kept
    /\ p \in Rooms => c \in {Absent, Dir}
    /\ \A v \in Versions, f \in FilePaths : p = FilePath(v, f) => c \in Contents \union {Absent}
    /\ \A n \in Names : p = ACLPath(n) => c \in ACLs \union {Absent}

Ops == [at : SUBSET Paths, holds : Kept]
GoodOps == {op \in Ops : \A p \in op.at : Fits(p, op.holds)}

MemoryOK ==
    /\ bookshelf \subseteq Contents
    /\ sandboxes \in [Uploaders -> (SUBSET Sums) \union {None}]
    /\ versions \in [Versions -> Stored \union {None}]
    /\ frozen \subseteq Versions
    /\ acls \in [Names -> ACLs]
    /\ job \in [Uploaders -> Jobs \union {None}]
    /\ phase \in [Uploaders -> {"none", "send", "commit", "put"}]
    /\ missing \in [Uploaders -> SUBSET Sums]
    /\ unbroken \subseteq Uploaders

\* A version that has a metadata.json has one that can be loaded.
MetadataOK ==
    \A v \in Versions :
      versions[v] # None /\ Metadata \in DOMAIN versions[v].files =>
        versions[v].files[Metadata] \notin {Absent, Torn}

DiskOK ==
    /\ disk \in [Paths -> Kept \union {Torn}]
    /\ \A p \in Paths : Fits(p, disk[p]) \/ (disk[p] = Torn /\ p \notin Rooms)

StoreOK ==
    /\ todo \in Seq(GoodOps)
    /\ up \in BOOLEAN /\ stale \subseteq Paths
    /\ ~up => todo = <<>> /\ stale = {}

Leaves(ops, p, c) ==
    \A i \in DOMAIN ops :
      p \in ops[i].at /\ (\A k \in DOMAIN ops : k > i => p \notin ops[k].at) =>
        ops[i].holds = c

Settles(d, ops, p, c) == IF p \in Touched(ops) THEN Leaves(ops, p, c) ELSE d[p] = c

FileFor(files, f) ==
    IF f \in DOMAIN files THEN files[f] ELSE IF f = Metadata THEN Generated ELSE Absent

MarkFor(isFrozen) == IF isFrozen THEN Dir ELSE Absent

HoldsAt(d, ops, stored, v) ==
    IF stored = None THEN Settles(d, ops, DirPath(v), Absent)
    ELSE /\ Settles(d, ops, DirPath(v), Dir)
         /\ \A f \in FilePaths \ Skipped :
               Settles(d, ops, FilePath(v, f), FileFor(stored.files, f))
         /\ \E a, b : /\ Settles(d, ops, FrozenPath(v), a)
                      /\ Settles(d, ops, FilePath(v, Mark), b)
                      /\ a # Absent \/ b # Absent <=>
                           stored.frozen \/ Mark \in DOMAIN stored.files

\* No error was answered about v, or the handler is about to make up for it.
SureOf(wrong, ops, v) == wrong \intersect Own(v) \subseteq Touched(ops)

Told(v) == SureOf(stale, todo, v) => HoldsAt(disk, todo, versions[v], v)

DInv ==
    /\ MemoryOK /\ FrozenAgrees /\ MetadataOK
    /\ DiskOK /\ StoreOK
    /\ up => \A v \in Versions : Told(v)

-----------------------------------------------------------------------------
(* Paths and operations.                                                   *)

LEMMA PathsDiffer ==
  /\ \A v, w : DirPath(v) = DirPath(w) => v = w
  /\ \A v, w : FrozenPath(v) = FrozenPath(w) => v = w
  /\ \A v, w, f, g : FilePath(v, f) = FilePath(w, g) => v = w /\ f = g
  /\ \A m, n : ACLPath(m) = ACLPath(n) => m = n
  /\ \A v, w, u, f, n : /\ DirPath(v) # FrozenPath(w) /\ DirPath(v) # FilePath(u, f)
                         /\ DirPath(v) # ACLPath(n) /\ FrozenPath(w) # FilePath(u, f)
                         /\ FrozenPath(w) # ACLPath(n) /\ FilePath(u, f) # ACLPath(n)
  BY DEF DirPath, FrozenPath, FilePath, ACLPath

LEMMA PathsKnown ==
  /\ \A v \in Versions : DirPath(v) \in Rooms /\ FrozenPath(v) \in Rooms
  /\ \A v \in Versions : Own(v) \subseteq Paths
  /\ \A v, f : FilePath(v, f) \notin Rooms
  /\ \A n : ACLPath(n) \notin Rooms
  /\ \A n \in Names : ACLPath(n) \in Paths
<1>1. \A v \in Versions : DirPath(v) \in Rooms /\ FrozenPath(v) \in Rooms
  BY DEF Rooms
<1>2. \A v \in Versions : Own(v) \subseteq Paths
  BY DEF Own, Paths
<1>3. ASSUME NEW n \in Names PROVE ACLPath(n) \in Paths
  <2>1. ACLPath(n) \in {ACLPath(k) : k \in Names}
    BY <1>3, Zenon
  <2> QED
    BY <2>1 DEF Paths
<1>4. \A p \in Rooms : \E v \in Versions : p = DirPath(v) \/ p = FrozenPath(v)
  BY DEF Rooms
<1>5. \A v, f : FilePath(v, f) \notin Rooms
  BY <1>4, PathsDiffer
<1>6. \A n : ACLPath(n) \notin Rooms
  BY <1>4, PathsDiffer
<1> QED
  BY <1>1, <1>2, <1>3, <1>5, <1>6

LEMMA OwnIs ==
  ASSUME NEW v
  PROVE  /\ DirPath(v) \in Own(v) /\ FrozenPath(v) \in Own(v)
         /\ \A f \in FilePaths : FilePath(v, f) \in Own(v) /\ FilePath(v, f) \in Below(v)
         /\ FrozenPath(v) \in Below(v) /\ DirPath(v) \notin Below(v)
         /\ Below(v) \subseteq Own(v)
         /\ \A p \in Own(v) : \/ p = DirPath(v) \/ p = FrozenPath(v)
                               \/ \E f \in FilePaths : p = FilePath(v, f)
         /\ \A w : w # v => Own(v) \intersect Own(w) = {}
         /\ \A n : ACLPath(n) \notin Own(v)
  BY PathsDiffer DEF Own, Below

LEMMA MarksKnown ==
  /\ Absent # Torn /\ Dir # Torn /\ Absent # Dir
  /\ \A c \in ACLs \union Sums \union Stored : c # None /\ c # Absent /\ c # Torn
  /\ None # Absent /\ None # Torn
  /\ Generated # None /\ Generated # Absent /\ Generated # Torn /\ Generated # Dir
  /\ Absent \notin Contents
<1>1. \A c \in ACLs \union Sums \union Stored : c # None /\ c # Absent /\ c # Torn
  BY CookbooksAssumption
<1> HIDE DEF Stored
<1> QED
  BY <1>1, CookbooksAssumption, MarksDiffer DEF Contents

\* Nothing, the absence of a path of one's own, and a directory fit.
LEMMA Fitting ==
  /\ \A p : Fits(p, Absent)
  /\ \A p \in Rooms : Fits(p, Dir)
  /\ \A v, f, c : c \in Contents => Fits(FilePath(v, f), c)
  /\ \A n, c : c \in ACLs => Fits(ACLPath(n), c)
  /\ \A p, c : Fits(p, c)' = Fits(p, c)
<1>1. \A p : Fits(p, Absent)
  BY DEF Fits, Kept
<1>2. \A p \in Rooms : Fits(p, Dir)
  BY PathsKnown DEF Fits, Kept
<1>3. \A v, f, c : c \in Contents => Fits(FilePath(v, f), c)
  BY PathsKnown, PathsDiffer DEF Fits, Kept
<1>4. \A n, c : c \in ACLs => Fits(ACLPath(n), c)
  BY PathsKnown, PathsDiffer DEF Fits, Kept
<1>5. \A p, c : Fits(p, c)' = Fits(p, c)
  BY DEF Fits
<1> QED
  BY <1>1, <1>2, <1>3, <1>4, <1>5

\* An operation may cut a file short, but never a directory.
LEMMA Applied ==
  ASSUME DiskOK, NEW at \in SUBSET Paths, NEW c,
         \A p \in at : Fits(p, c) \/ (c = Torn /\ p \notin Rooms),
         disk' = Apply([at |-> at, holds |-> c], disk)
  PROVE  /\ DiskOK'
         /\ \A p \in Paths : disk'[p] = IF p \in at THEN c ELSE disk[p]
<1>1. \A p \in Paths : disk'[p] = IF p \in at THEN c ELSE disk[p]
  BY DEF Apply, DiskOK
<1>2. \A p \in at : c \in Kept \union {Torn}
  BY DEF Fits
<1>3. disk' \in [Paths -> Kept \union {Torn}]
  <2> HIDE DEF Kept
  <2> QED
    BY <1>2 DEF Apply, DiskOK
<1>4. \A p \in Paths : Fits(p, disk'[p]) \/ (disk'[p] = Torn /\ p \notin Rooms)
  BY <1>1 DEF DiskOK
<1>5. Kept' = Kept /\ Rooms' = Rooms
  BY DEF Kept, Rooms
<1> QED
  BY <1>1, <1>3, <1>4, <1>5, Fitting DEF DiskOK

\* The first operation and the ones after it.
LEMMA HeadAndRest ==
  ASSUME NEW ops \in Seq(GoodOps), ops # <<>>
  PROVE  /\ Head(ops) \in GoodOps /\ Tail(ops) \in Seq(GoodOps)
         /\ Touched(ops) = Head(ops).at \union Touched(Tail(ops))
         /\ \A p, c : p \in Touched(Tail(ops)) /\ Leaves(ops, p, c) => Leaves(Tail(ops), p, c)
         /\ \A p, c : p \in Head(ops).at \ Touched(Tail(ops)) /\ Leaves(ops, p, c) =>
                         c = Head(ops).holds
<1>1. /\ Head(ops) \in GoodOps /\ Tail(ops) \in Seq(GoodOps) /\ Len(Tail(ops)) = Len(ops) - 1
      /\ \A i \in 1..Len(Tail(ops)) : Tail(ops)[i] = ops[i + 1]
      /\ Len(ops) \in Nat \ {0} /\ DOMAIN ops = 1..Len(ops)
      /\ DOMAIN Tail(ops) = 1..Len(Tail(ops)) /\ Head(ops) = ops[1]
  <2> HIDE DEF GoodOps
  <2> QED
    BY HeadTailProperties, EmptySeq, LenProperties
<1> DEFINE rest == Tail(ops)
<1>2. \A i \in DOMAIN ops : i = 1 \/ (i - 1 \in DOMAIN rest /\ rest[i - 1] = ops[i])
  BY <1>1
<1>3. \A i \in DOMAIN rest : i + 1 \in DOMAIN ops /\ rest[i] = ops[i + 1]
  BY <1>1
<1>4. 1 \in DOMAIN ops /\ ops[1] = Head(ops) /\ DOMAIN ops \subseteq Nat \ {0} /\ DOMAIN rest \subseteq Nat
  BY <1>1
<1> HIDE DEF rest
<1>5. Touched(ops) = Head(ops).at \union Touched(rest)
  BY <1>2, <1>3, <1>4 DEF Touched
<1>6. ASSUME NEW p, NEW c, p \in Touched(rest), Leaves(ops, p, c) PROVE Leaves(rest, p, c)
  <2> SUFFICES ASSUME NEW i \in DOMAIN rest, p \in rest[i].at,
                      \A k \in DOMAIN rest : k > i => p \notin rest[k].at
               PROVE  rest[i].holds = c
    BY DEF Leaves
  <2>1. ASSUME NEW k \in DOMAIN ops, k > i + 1 PROVE p \notin ops[k].at
    <3>1. k # 1 /\ k - 1 > i
      BY <1>4, <2>1
    <3> QED
      BY <1>2, <2>1, <3>1
  <2>2. i + 1 \in DOMAIN ops /\ ops[i + 1] = rest[i]
    BY <1>3
  <2> QED
    BY <1>6, <2>1, <2>2 DEF Leaves
<1>7. ASSUME NEW p, NEW c, p \in Head(ops).at \ Touched(rest), Leaves(ops, p, c)
      PROVE  c = Head(ops).holds
  <2>1. ASSUME NEW k \in DOMAIN ops, k > 1 PROVE p \notin ops[k].at
    BY <1>2, <1>4, <1>7, <2>1 DEF Touched
  <2> QED
    BY <1>4, <1>7, <2>1 DEF Leaves
<1> QED
  BY <1>1, <1>5, <1>6, <1>7 DEF rest

\* The operations of a call, in two parts.
LEMMA Joined ==
  ASSUME NEW A \in Seq(GoodOps), NEW B \in Seq(GoodOps)
  PROVE  /\ A \o B \in Seq(GoodOps) /\ Touched(A \o B) = Touched(A) \union Touched(B)
         /\ \A p, c : p \in Touched(B) /\ Leaves(B, p, c) => Leaves(A \o B, p, c)
         /\ \A p, c : p \notin Touched(B) /\ Leaves(A, p, c) => Leaves(A \o B, p, c)
<1>1. /\ A \o B \in Seq(GoodOps) /\ Len(A \o B) = Len(A) + Len(B)
      /\ \A i \in 1 .. Len(A) + Len(B) : (A \o B)[i] =
            IF i <= Len(A) THEN A[i] ELSE B[i - Len(A)]
  <2> HIDE DEF GoodOps
  <2> QED
    BY ConcatProperties
<1>2. /\ DOMAIN A = 1..Len(A) /\ DOMAIN B = 1..Len(B) /\ DOMAIN (A \o B) = 1..Len(A \o B)
      /\ Len(A) \in Nat /\ Len(B) \in Nat
  <2> HIDE DEF GoodOps
  <2> QED
    BY <1>1, LenProperties
<1> DEFINE C == A \o B
           a == Len(A)
<1>3. \A i \in DOMAIN A : i \in DOMAIN C /\ C[i] = A[i] /\ i <= a
  BY <1>1, <1>2
<1>4. \A i \in DOMAIN B : i + a \in DOMAIN C /\ C[i + a] = B[i] /\ i + a > a
  BY <1>1, <1>2
<1>5. \A i \in DOMAIN C : \/ i \in DOMAIN A /\ C[i] = A[i] /\ i <= a
                          \/ i - a \in DOMAIN B /\ C[i] = B[i - a] /\ i > a
  BY <1>1, <1>2
<1>6. DOMAIN A \subseteq Nat /\ DOMAIN B \subseteq Nat /\ DOMAIN C \subseteq Nat /\ a \in Nat
  BY <1>1, <1>2
<1>7. C \in Seq(GoodOps)
  BY <1>1
<1> HIDE DEF C, a
<1>8. Touched(C) = Touched(A) \union Touched(B)
  BY <1>3, <1>4, <1>5 DEF Touched
<1>9. ASSUME NEW p, NEW c, p \in Touched(B), Leaves(B, p, c) PROVE Leaves(C, p, c)
  <2> SUFFICES ASSUME NEW i \in DOMAIN C, p \in C[i].at,
                      \A k \in DOMAIN C : k > i => p \notin C[k].at
               PROVE  C[i].holds = c
    BY DEF Leaves
  <2>1. PICK m \in DOMAIN B : p \in B[m].at
    BY <1>9 DEF Touched
  <2>2. i > a
    <3>1. ~(m + a > i)
      BY <1>4, <2>1
    <3> QED
      BY <1>4, <1>6, <2>1, <3>1
  <2>3. i - a \in DOMAIN B /\ C[i] = B[i - a]
    BY <1>5, <1>6, <2>2
  <2>4. ASSUME NEW k \in DOMAIN B, k > i - a PROVE p \notin B[k].at
    <3>1. k + a > i
      BY <1>6, <2>4
    <3> QED
      BY <1>4, <3>1
  <2> QED
    BY <1>9, <2>3, <2>4 DEF Leaves
<1>10. ASSUME NEW p, NEW c, p \notin Touched(B), Leaves(A, p, c) PROVE Leaves(C, p, c)
  <2> SUFFICES ASSUME NEW i \in DOMAIN C, p \in C[i].at,
                      \A k \in DOMAIN C : k > i => p \notin C[k].at
               PROVE  C[i].holds = c
    BY DEF Leaves
  <2>1. i \in DOMAIN A /\ C[i] = A[i]
    BY <1>5, <1>10 DEF Touched
  <2>2. \A k \in DOMAIN A : k > i => p \notin A[k].at
    BY <1>3
  <2> QED
    BY <1>10, <2>1, <2>2 DEF Leaves
<1> QED
  BY <1>7, <1>8, <1>9, <1>10 DEF C

\* A call of no operation or of one.
LEMMA Single ==
  /\ <<>> \in Seq(GoodOps) /\ Touched(<<>>) = {}
  /\ \A op \in GoodOps :
        /\ <<op>> \in Seq(GoodOps) /\ Touched(<<op>>) = op.at
        /\ \A p : Leaves(<<op>>, p, op.holds)
<1> HIDE DEF GoodOps
<1>1. <<>> \in Seq(GoodOps) /\ Touched(<<>>) = {}
  BY DEF Touched
<1>2. ASSUME NEW op \in GoodOps
      PROVE  /\ <<op>> \in Seq(GoodOps) /\ Touched(<<op>>) = op.at
             /\ \A p : Leaves(<<op>>, p, op.holds)
  <2>1. <<op>> \in Seq(GoodOps) /\ DOMAIN <<op>> = {1} /\ <<op>>[1] = op
    OBVIOUS
  <2> DEFINE s == <<op>>
  <2>2. s \in Seq(GoodOps) /\ DOMAIN s = {1} /\ s[1] = op
    BY <2>1
  <2> HIDE DEF s
  <2>3. Touched(s) = op.at
    BY <2>2 DEF Touched
  <2>4. \A p : Leaves(s, p, op.holds)
    BY <2>2 DEF Leaves
  <2> QED
    BY <2>2, <2>3, <2>4 DEF s
<1> QED
  BY <1>1, <1>2

-----------------------------------------------------------------------------
(* What the calls of DirStore leave behind.                                *)

LEMMA OpsAre ==
  /\ \A v \in Versions : \A S \in SUBSET Own(v) : RemoveAll(S) \in GoodOps
  /\ \A v \in Versions : /\ Write(DirPath(v), Dir) \in GoodOps
                         /\ Write(FrozenPath(v), Dir) \in GoodOps
                         /\ \A f \in FilePaths, c \in Contents : Write(FilePath(v, f), c) \in GoodOps
  /\ \A n \in Names, l \in ACLs : Write(ACLPath(n), l) \in GoodOps
<1>1. ASSUME NEW v \in Versions, NEW S \in SUBSET Own(v) PROVE RemoveAll(S) \in GoodOps
  BY PathsKnown, Fitting DEF RemoveAll, GoodOps, Ops, Kept
<1>2. ASSUME NEW v \in Versions
      PROVE  /\ Write(DirPath(v), Dir) \in GoodOps
             /\ Write(FrozenPath(v), Dir) \in GoodOps
             /\ \A f \in FilePaths, c \in Contents : Write(FilePath(v, f), c) \in GoodOps
  BY PathsKnown, OwnIs, Fitting DEF Write, GoodOps, Ops, Kept
<1>3. ASSUME NEW n \in Names, NEW l \in ACLs PROVE Write(ACLPath(n), l) \in GoodOps
  BY PathsKnown, Fitting DEF Write, GoodOps, Ops, Kept
<1> QED
  BY <1>1, <1>2, <1>3

LEMMA EmptiedIs ==
  ASSUME NEW v \in Versions, NEW S \in SUBSET Below(v)
  PROVE  /\ Emptied(v, S) \in Seq(GoodOps)
         /\ Touched(Emptied(v, S)) = S \union {DirPath(v)}
         /\ Leaves(Emptied(v, S), DirPath(v), Dir)
         /\ \A p \in S : Leaves(Emptied(v, S), p, Absent)
<1> DEFINE a == RemoveAll(S)
           b == RemoveFile(DirPath(v))
           c == Write(DirPath(v), Dir)
           s == << a, b, c >>
<1>1. a \in GoodOps /\ b \in GoodOps /\ c \in GoodOps
  BY OpsAre, OwnIs DEF RemoveFile
<1>2. /\ a.at = S /\ a.holds = Absent /\ b.at = {DirPath(v)} /\ b.holds = Absent
      /\ c.at = {DirPath(v)} /\ c.holds = Dir
  BY DEF RemoveAll, RemoveFile, Write
<1>3. DirPath(v) \notin S
  BY OwnIs
<1>4. Emptied(v, S) = s
  BY DEF Emptied
<1> HIDE DEF a, b, c
<1>5. s \in Seq(GoodOps) /\ DOMAIN s = {1, 2, 3} /\ s[1] = a /\ s[2] = b /\ s[3] = c
  <2> HIDE DEF GoodOps
  <2> QED
    BY <1>1
<1> HIDE DEF s
<1>6. Touched(s) = S \union {DirPath(v)}
  BY <1>2, <1>5 DEF Touched
<1>7. Leaves(s, DirPath(v), Dir)
  BY <1>2, <1>3, <1>5 DEF Leaves
<1>8. \A p \in S : Leaves(s, p, Absent)
  BY <1>2, <1>3, <1>5 DEF Leaves
<1> QED
  BY <1>4, <1>5, <1>6, <1>7, <1>8

LEMMA WritesAre ==
  ASSUME NEW v \in Versions, NEW files \in FileMaps, NEW n \in Nat, NEW s,
         \A i \in 1..n : s[i] \in DOMAIN files
  PROVE  /\ Writes(v, files, s, n) \in Seq(GoodOps)
         /\ \A p : p \in Touched(Writes(v, files, s, n)) <=> \E i \in 1..n : p = FilePath(v, s[i])
         /\ \A f : Leaves(Writes(v, files, s, n), FilePath(v, f), files[f])
<1> DEFINE w == Writes(v, files, s, n)
<1>1. DOMAIN w = 1..n /\ \A i \in 1..n : w[i] = Write(FilePath(v, s[i]), files[s[i]])
  BY DEF Writes
<1>2. \A f \in DOMAIN files : f \in FilePaths /\ files[f] \in Contents
  BY DEF FileMaps
<1>3. \A i \in 1..n : w[i] \in GoodOps
  BY <1>1, <1>2, OpsAre
<1>4. \A i \in 1..n : w[i].at = {FilePath(v, s[i])} /\ w[i].holds = files[s[i]]
  BY <1>1 DEF Write
<1>5. w = [i \in 1..n |-> w[i]]
  BY DEF Writes
<1> HIDE DEF w
<1>6. w \in Seq(GoodOps)
  <2> HIDE DEF GoodOps
  <2> QED
    BY <1>3, <1>5, SeqDef
<1>7. \A p : p \in Touched(w) <=> \E i \in 1..n : p = FilePath(v, s[i])
  BY <1>1, <1>4 DEF Touched
<1>8. \A f : Leaves(w, FilePath(v, f), files[f])
  BY <1>1, <1>4, PathsDiffer DEF Leaves
<1> QED
  BY <1>6, <1>7, <1>8 DEF w

LEMMA ExtrasAre ==
  ASSUME NEW v \in Versions, NEW files, NEW isFrozen \in BOOLEAN
  PROVE  /\ Extras(v, files, isFrozen) \in Seq(GoodOps)
         /\ \A p : p \in Touched(Extras(v, files, isFrozen)) <=>
                     \/ p = FilePath(v, Metadata) /\ Metadata \notin DOMAIN files
                     \/ p = FrozenPath(v) /\ isFrozen
         /\ Metadata \notin DOMAIN files =>
               Leaves(Extras(v, files, isFrozen), FilePath(v, Metadata), Generated)
         /\ isFrozen => Leaves(Extras(v, files, isFrozen), FrozenPath(v), Dir)
<1> DEFINE a == Write(FilePath(v, Metadata), Generated)
           b == Write(FrozenPath(v), Dir)
           A == IF Metadata \in DOMAIN files THEN <<>> ELSE << a >>
           B == IF isFrozen THEN << b >> ELSE <<>>
<1>1. a \in GoodOps /\ b \in GoodOps
  <2>1. Metadata \in FilePaths /\ Generated \in Contents
    BY CookbooksAssumption DEF Contents
  <2> QED
    BY <2>1, OpsAre
<1>2. a.at = {FilePath(v, Metadata)} /\ a.holds = Generated /\ b.at = {FrozenPath(v)} /\ b.holds = Dir
  BY DEF Write
<1>3. Extras(v, files, isFrozen) = A \o B
  BY DEF Extras
<1> HIDE DEF a, b
<1>4. /\ A \in Seq(GoodOps) /\ B \in Seq(GoodOps)
      /\ Touched(A) = IF Metadata \in DOMAIN files THEN {} ELSE {FilePath(v, Metadata)}
      /\ Touched(B) = IF isFrozen THEN {FrozenPath(v)} ELSE {}
      /\ Metadata \notin DOMAIN files => Leaves(A, FilePath(v, Metadata), Generated)
      /\ isFrozen => Leaves(B, FrozenPath(v), Dir)
  <2> HIDE DEF GoodOps
  <2> QED
    BY <1>1, <1>2, Single
<1> HIDE DEF A, B
<1>5. /\ A \o B \in Seq(GoodOps) /\ Touched(A \o B) = Touched(A) \union Touched(B)
      /\ \A p, c : p \in Touched(B) /\ Leaves(B, p, c) => Leaves(A \o B, p, c)
      /\ \A p, c : p \notin Touched(B) /\ Leaves(A, p, c) => Leaves(A \o B, p, c)
  BY <1>4, Joined
<1>6. FilePath(v, Metadata) \notin Touched(B)
  BY <1>4, PathsDiffer
<1> QED
  BY <1>3, <1>4, <1>5, <1>6

\* A listing of the files of a manifest names each of them.
LEMMA ListingIs ==
  ASSUME NEW S \in SUBSET FilePaths, NEW s \in Listings(S)
  PROVE  /\ Len(s) \in Nat /\ DOMAIN s = 1..Len(s)
         /\ \A i \in DOMAIN s : s[i] \in S
         /\ \A f \in S : \E i \in DOMAIN s : s[i] = f
<1>1. IsFiniteSet(FilePaths)
  <2>1. Files \in Seq(FilePaths)
    BY CookbooksAssumption
  <2>2. Len(Files) \in Nat /\ DOMAIN Files = 1..Len(Files) /\ Files \in [1..Len(Files) -> FilePaths]
    BY <2>1, LenProperties
  <2>3. Files \in Surjection(1..Len(Files), FilePaths)
    BY <2>2 DEF Surjection, FilePaths, Range
  <2>4. IsFiniteSet(1..Len(Files))
    BY <2>2, FS_Interval
  <2> QED
    BY <2>3, <2>4, FS_Surjection
<1>2. Cardinality(S) \in Nat
  BY <1>1, FS_Subset, FS_CardinalityType
<1>3. s \in [1..Cardinality(S) -> S] /\ Range(s) = S
  BY DEF Listings
<1>4. s \in Seq(S) /\ DOMAIN s = 1..Cardinality(S)
  BY <1>2, <1>3, SeqDef
<1>5. Len(s) \in Nat /\ DOMAIN s = 1..Len(s)
  BY <1>4, LenProperties
<1>6. \A i \in DOMAIN s : s[i] \in S
  BY <1>3
<1>7. \A f \in S : \E i \in DOMAIN s : s[i] = f
  BY <1>3 DEF Range
<1> QED
  BY <1>5, <1>6, <1>7

LEMMA OwnDiffer ==
  ASSUME NEW v
  PROVE  /\ DirPath(v) # FrozenPath(v)
         /\ \A f : FilePath(v, f) # DirPath(v) /\ FilePath(v, f) # FrozenPath(v)
         /\ \A f, g : FilePath(v, f) = FilePath(v, g) => f = g
  BY PathsDiffer

\* An accepted PutCookbook leaves exactly the files of the version.
LEMMA PutLeaves ==
  ASSUME NEW v \in Versions, NEW files \in FileMaps, NEW isFrozen \in BOOLEAN,
         NEW s \in Listings(DOMAIN files), NEW ops,
         ops = Emptied(v, Below(v)) \o (Writes(v, files, s, Len(s)) \o Extras(v, files, isFrozen))
  PROVE  /\ ops \in Seq(GoodOps) /\ Touched(ops) = Own(v)
         /\ Leaves(ops, DirPath(v), Dir)
         /\ \A f \in FilePaths : Leaves(ops, FilePath(v, f), FileFor(files, f))
         /\ Leaves(ops, FrozenPath(v), MarkFor(isFrozen))
<1> DEFINE A == Emptied(v, Below(v))
           B == Writes(v, files, s, Len(s))
           C == Extras(v, files, isFrozen)
<1>1. DOMAIN files \in SUBSET FilePaths
  BY DEF FileMaps
<1>2. /\ Len(s) \in Nat /\ \A i \in 1..Len(s) : s[i] \in DOMAIN files
      /\ \A f \in DOMAIN files : \E i \in 1..Len(s) : s[i] = f
  BY <1>1, ListingIs
<1>3. /\ A \in Seq(GoodOps) /\ Touched(A) = Below(v) \union {DirPath(v)}
      /\ Leaves(A, DirPath(v), Dir)
      /\ \A p \in Below(v) : Leaves(A, p, Absent)
  BY EmptiedIs
<1>4. /\ B \in Seq(GoodOps)
      /\ \A p : p \in Touched(B) <=> \E i \in 1..Len(s) : p = FilePath(v, s[i])
      /\ \A f : Leaves(B, FilePath(v, f), files[f])
  BY <1>2, WritesAre
<1>5. /\ C \in Seq(GoodOps)
      /\ \A p : p \in Touched(C) <=> \/ p = FilePath(v, Metadata) /\ Metadata \notin DOMAIN files
                                     \/ p = FrozenPath(v) /\ isFrozen
      /\ Metadata \notin DOMAIN files => Leaves(C, FilePath(v, Metadata), Generated)
      /\ isFrozen => Leaves(C, FrozenPath(v), Dir)
  BY ExtrasAre
<1>6. ops = A \o (B \o C)
  OBVIOUS
<1>7. Metadata \in FilePaths
  BY CookbooksAssumption
<1> HIDE DEF A, B, C
<1>8. /\ B \o C \in Seq(GoodOps) /\ Touched(B \o C) = Touched(B) \union Touched(C)
      /\ \A p, c : p \in Touched(C) /\ Leaves(C, p, c) => Leaves(B \o C, p, c)
      /\ \A p, c : p \notin Touched(C) /\ Leaves(B, p, c) => Leaves(B \o C, p, c)
  BY <1>4, <1>5, Joined
<1> DEFINE D == B \o C
<1>9. D \in Seq(GoodOps) /\ ops = A \o D
  BY <1>6, <1>8
<1>10. /\ Touched(D) = Touched(B) \union Touched(C)
       /\ \A p, c : p \in Touched(C) /\ Leaves(C, p, c) => Leaves(D, p, c)
       /\ \A p, c : p \notin Touched(C) /\ Leaves(B, p, c) => Leaves(D, p, c)
  BY <1>8
<1> HIDE DEF D
<1>16. /\ ops \in Seq(GoodOps) /\ Touched(ops) = Touched(A) \union Touched(D)
       /\ \A p, c : p \in Touched(D) /\ Leaves(D, p, c) => Leaves(ops, p, c)
       /\ \A p, c : p \notin Touched(D) /\ Leaves(A, p, c) => Leaves(ops, p, c)
  BY <1>3, <1>9, Joined
<1>11. ASSUME NEW f PROVE FilePath(v, f) \in Touched(B) <=> f \in DOMAIN files
  <2>1. FilePath(v, f) \in Touched(B) <=> \E i \in 1..Len(s) : FilePath(v, f) = FilePath(v, s[i])
    BY <1>4, Zenon
  <2>2. \A i \in 1..Len(s) : FilePath(v, f) = FilePath(v, s[i]) <=> f = s[i]
    BY OwnDiffer, Zenon
  <2> QED
    BY <1>2, <2>1, <2>2, Zenon
<1>12. Touched(ops) = Own(v)
  <2>1. Touched(D) \subseteq Own(v)
    <3>1. ASSUME NEW p \in Touched(B) PROVE p \in Own(v)
      <4>1. PICK i \in 1..Len(s) : p = FilePath(v, s[i])
        BY <1>4
      <4> QED
        BY <1>1, <1>2, <4>1, OwnIs
    <3>2. ASSUME NEW p \in Touched(C) PROVE p \in Own(v)
      BY <1>5, <1>7, OwnIs
    <3> QED
      BY <1>10, <3>1, <3>2
  <2> QED
    BY <1>3, <1>16, <2>1 DEF Own
<1>13. Leaves(ops, DirPath(v), Dir)
  <2>1. DirPath(v) \notin Touched(D)
    BY <1>4, <1>5, <1>10, OwnDiffer
  <2> QED
    BY <1>3, <1>16, <2>1, Zenon
<1>14. ASSUME NEW f \in FilePaths PROVE Leaves(ops, FilePath(v, f), FileFor(files, f))
  <2>1. CASE f \in DOMAIN files
    <3>1. FilePath(v, f) \in Touched(B) /\ FilePath(v, f) \notin Touched(C)
      BY <1>5, <1>11, <2>1, OwnDiffer
    <3> QED
      BY <1>4, <1>16, <1>10, <2>1, <3>1 DEF FileFor
  <2>2. CASE f \notin DOMAIN files /\ f = Metadata
    <3>1. FilePath(v, f) \in Touched(C) /\ Leaves(C, FilePath(v, f), Generated)
      BY <1>5, <2>2
    <3> QED
      BY <1>16, <1>10, <2>2, <3>1 DEF FileFor
  <2>3. CASE f \notin DOMAIN files /\ f # Metadata
    <3>1. FilePath(v, f) \notin Touched(D)
      <4>1. FilePath(v, f) \notin Touched(B) /\ FilePath(v, f) \notin Touched(C)
        <5>1. FilePath(v, f) # FilePath(v, Metadata) /\ FilePath(v, f) # FrozenPath(v)
          BY <2>3, OwnDiffer
        <5> QED
          BY <1>5, <1>11, <2>3, <5>1
      <4> QED
        BY <1>10, <4>1
    <3>2. FilePath(v, f) \in Below(v) /\ FileFor(files, f) = Absent
      BY <2>3, OwnIs DEF FileFor
    <3> QED
      BY <1>3, <1>16, <3>1, <3>2, Zenon
  <2> QED
    BY <2>1, <2>2, <2>3
<1>15. Leaves(ops, FrozenPath(v), MarkFor(isFrozen))
  <2>1. FrozenPath(v) \notin Touched(B)
    BY <1>4, OwnDiffer
  <2>2. CASE isFrozen
    BY <1>5, <1>16, <1>10, <2>2 DEF MarkFor
  <2>3. CASE ~isFrozen
    <3>1. FrozenPath(v) \notin Touched(D)
      BY <1>5, <1>10, <2>1, <2>3, OwnDiffer
    <3>2. FrozenPath(v) \in Below(v) /\ MarkFor(isFrozen) = Absent
      BY <2>3, OwnIs DEF MarkFor
    <3> QED
      BY <1>3, <1>16, <3>1, <3>2, Zenon
  <2> QED
    BY <2>2, <2>3
<1> QED
  BY <1>16, <1>12, <1>13, <1>14, <1>15

\* One that meets a path that cannot be one leaves it as it was.
LEMMA PutFails ==
  ASSUME NEW v \in Versions, NEW files \in FileMaps, NEW s \in Listings(DOMAIN files),
         NEW b \in DOMAIN s, s[b] \in Unwritable,
         \A i \in DOMAIN s : s[i] \in Unwritable => b <= i,
         NEW ops, ops = Emptied(v, Below(v) \ {FilePath(v, s[b])}) \o Writes(v, files, s, b - 1)
  PROVE  /\ ops \in Seq(GoodOps) /\ Touched(ops) \subseteq Own(v)
         /\ FilePath(v, s[b]) \in Own(v) \ Touched(ops)
<1> DEFINE A == Emptied(v, Below(v) \ {FilePath(v, s[b])})
           B == Writes(v, files, s, b - 1)
<1>1. DOMAIN files \in SUBSET FilePaths
  BY DEF FileMaps
<1>2. /\ Len(s) \in Nat /\ DOMAIN s = 1..Len(s) /\ \A i \in DOMAIN s : s[i] \in DOMAIN files
      /\ b - 1 \in Nat /\ \A i \in 1 .. b - 1 : i \in DOMAIN s /\ i < b
  BY <1>1, ListingIs
<1>3. /\ A \in Seq(GoodOps)
      /\ Touched(A) = (Below(v) \ {FilePath(v, s[b])}) \union {DirPath(v)}
  BY EmptiedIs
<1>4. /\ B \in Seq(GoodOps)
      /\ \A p : p \in Touched(B) <=> \E i \in 1 .. b - 1 : p = FilePath(v, s[i])
  <2> DEFINE n == b - 1
  <2>1. n \in Nat /\ \A i \in 1..n : s[i] \in DOMAIN files
    BY <1>2
  <2>2. B = Writes(v, files, s, n)
    OBVIOUS
  <2> HIDE DEF n, B
  <2>3. /\ B \in Seq(GoodOps)
        /\ \A p : p \in Touched(B) <=> \E i \in 1..n : p = FilePath(v, s[i])
    BY <2>1, <2>2, WritesAre
  <2> QED
    BY <2>3 DEF n
<1>5. ops = A \o B
  OBVIOUS
<1> HIDE DEF A, B
<1>6. ops \in Seq(GoodOps) /\ Touched(ops) = Touched(A) \union Touched(B)
  BY <1>3, <1>4, <1>5, Joined
<1>7. \A i \in 1 .. b - 1 : s[i] # s[b]
  BY <1>2
<1>8. FilePath(v, s[b]) \notin Touched(ops)
  BY <1>3, <1>4, <1>6, <1>7, OwnDiffer
<1>9. Touched(ops) \subseteq Own(v) /\ FilePath(v, s[b]) \in Own(v)
  <2>1. \A i \in DOMAIN s : FilePath(v, s[i]) \in Own(v)
    BY <1>1, <1>2, OwnIs
  <2>2. \A p \in Touched(B) : p \in Own(v)
    BY <1>2, <1>4, <2>1, Zenon
  <2>3. Touched(A) \subseteq Own(v)
    BY <1>3 DEF Own
  <2> QED
    BY <1>6, <2>1, <2>2, <2>3
<1> QED
  BY <1>6, <1>8, <1>9

LEMMA DeleteLeaves ==
  ASSUME NEW v \in Versions, NEW ops, ops = << RemoveAll(Below(v)), RemoveFile(DirPath(v)) >>
  PROVE  /\ ops \in Seq(GoodOps) /\ Touched(ops) = Own(v)
         /\ Leaves(ops, DirPath(v), Absent)
<1> DEFINE a == RemoveAll(Below(v))
           b == RemoveFile(DirPath(v))
<1>1. a \in GoodOps /\ b \in GoodOps
  BY OpsAre, OwnIs DEF RemoveFile
<1>2. a.at = Below(v) /\ b.at = {DirPath(v)} /\ b.holds = Absent
  BY DEF RemoveAll, RemoveFile
<1>3. ops = << a, b >>
  OBVIOUS
<1> HIDE DEF a, b
<1>4. ops \in Seq(GoodOps) /\ DOMAIN ops = {1, 2} /\ ops[1] = a /\ ops[2] = b
  <2> HIDE DEF GoodOps
  <2> QED
    BY <1>1, <1>3
<1>5. Touched(ops) = Own(v)
  BY <1>2, <1>4 DEF Touched, Own
<1>6. Leaves(ops, DirPath(v), Absent)
  BY <1>2, <1>4, OwnIs DEF Leaves
<1> QED
  BY <1>4, <1>5, <1>6

-----------------------------------------------------------------------------
(* The store and the process.                                              *)

LEMMA SameOps == GoodOps' = GoodOps
<1>1. Ops' = Ops
  BY DEF Ops
<1> QED
  BY <1>1, Fitting DEF GoodOps

LEMMA NothingLeft ==
  ASSUME NEW ops, ops = <<>>
  PROVE  Touched(ops) = {} /\ \A d, p, c : Settles(d, ops, p, c) <=> d[p] = c
<1>1. Touched(ops) = {}
  BY DEF Touched
<1> QED
  BY <1>1 DEF Settles

\* An operation that is carried out changes nothing about the outcome.
LEMMA StepSettles ==
  ASSUME NEW d, DOMAIN d = Paths, NEW ops \in Seq(GoodOps), ops # <<>>,
         NEW p \in Paths, NEW c, Settles(d, ops, p, c)
  PROVE  Settles(Apply(Head(ops), d), Tail(ops), p, c)
<1>1. Apply(Head(ops), d)[p] = IF p \in Head(ops).at THEN Head(ops).holds ELSE d[p]
  BY DEF Apply
<1>2. CASE p \in Touched(Tail(ops))
  BY <1>2, HeadAndRest DEF Settles
<1>3. CASE p \notin Touched(Tail(ops)) /\ p \in Head(ops).at
  BY <1>1, <1>3, HeadAndRest DEF Settles
<1>4. CASE p \notin Touched(Tail(ops)) /\ p \notin Head(ops).at
  BY <1>1, <1>4, HeadAndRest DEF Settles
<1> QED
  BY <1>2, <1>3, <1>4

LEMMA Carried ==
  ASSUME NEW d, NEW e, NEW ops, NEW rest, NEW stored, NEW v,
         \A p \in Own(v) : \A c : Settles(d, ops, p, c) => Settles(e, rest, p, c),
         HoldsAt(d, ops, stored, v)
  PROVE  HoldsAt(e, rest, stored, v)
<1>1. FilePath(v, Mark) \in Own(v) /\ FrozenPath(v) \in Own(v) /\ DirPath(v) \in Own(v)
  BY OwnIs, CookbooksAssumption
<1>2. CASE stored = None
  BY <1>1, <1>2 DEF HoldsAt
<1>3. CASE stored # None
  <2>1. PICK a, b : /\ Settles(d, ops, FrozenPath(v), a)
                    /\ Settles(d, ops, FilePath(v, Mark), b)
                    /\ a # Absent \/ b # Absent <=>
                         stored.frozen \/ Mark \in DOMAIN stored.files
    BY <1>3 DEF HoldsAt
  <2>2. Settles(e, rest, FrozenPath(v), a) /\ Settles(e, rest, FilePath(v, Mark), b)
    BY <1>1, <2>1
  <2>3. /\ Settles(e, rest, DirPath(v), Dir)
        /\ \A f \in FilePaths \ Skipped :
              Settles(e, rest, FilePath(v, f), FileFor(stored.files, f))
    BY <1>1, <1>3, OwnIs DEF HoldsAt
  <2> QED
    BY <1>3, <2>1, <2>2, <2>3 DEF HoldsAt
<1> QED
  BY <1>2, <1>3

\* The memory is as good as before when it is the same.
LEMMA MemoryStays ==
  ASSUME MemoryOK, FrozenAgrees, MetadataOK, UNCHANGED <<memory, uploads>>
  PROVE  MemoryOK' /\ FrozenAgrees' /\ MetadataOK'
<1>1. MemoryOK'
  BY DEF MemoryOK, memory, uploads, Contents, Stored, FileMaps, FilePaths
<1>2. FrozenAgrees' /\ MetadataOK'
  BY DEF FrozenAgrees, MetadataOK, memory
<1> QED
  BY <1>1, <1>2

LEMMA InitD == Init => DInv
<1> SUFFICES ASSUME Init PROVE DInv
  OBVIOUS
<1>1. MemoryOK
  BY CookbooksAssumption DEF Init, MemoryOK
<1>2. FrozenAgrees /\ MetadataOK
  BY DEF Init, FrozenAgrees, MetadataOK
<1>3. DiskOK
  <2>1. Absent \in Kept
    BY DEF Kept
  <2> QED
    BY <2>1, Fitting DEF Init, DiskOK
<1>4. StoreOK
  BY Single DEF Init, StoreOK
<1>5. ASSUME NEW v \in Versions PROVE Told(v)
  <2>1. versions[v] = None /\ todo = <<>> /\ disk[DirPath(v)] = Absent
    BY PathsKnown, OwnIs DEF Init
  <2> QED
    BY <2>1, NothingLeft DEF Told, HoldsAt
<1> QED
  BY <1>1, <1>2, <1>3, <1>4, <1>5 DEF DInv

LEMMA PersistD == DInv /\ Persist => DInv'
<1> SUFFICES ASSUME DInv, Persist PROVE DInv'
  OBVIOUS
<1>1. /\ up /\ up' = up /\ todo # <<>> /\ todo \in Seq(GoodOps)
      /\ disk' = Apply(Head(todo), disk) /\ todo' = Tail(todo) /\ stale' = stale \ Head(todo).at
      /\ UNCHANGED <<memory, uploads>>
  BY DEF Persist, StoreStep, DInv, StoreOK
<1>2. MemoryOK' /\ FrozenAgrees' /\ MetadataOK'
  BY <1>1, MemoryStays DEF DInv
<1>3. /\ Head(todo) \in GoodOps /\ Tail(todo) \in Seq(GoodOps)
      /\ Touched(todo) = Head(todo).at \union Touched(Tail(todo))
  BY <1>1, HeadAndRest
<1>4. DiskOK'
  <2> DEFINE at == Head(todo).at
             c == Head(todo).holds
  <2>1. /\ Head(todo) = [at |-> at, holds |-> c] /\ at \in SUBSET Paths
        /\ \A p \in at : Fits(p, c)
    BY <1>3 DEF GoodOps, Ops
  <2> HIDE DEF at, c
  <2>2. disk' = Apply([at |-> at, holds |-> c], disk)
    BY <1>1, <2>1
  <2> QED
    BY <2>1, <2>2, Applied DEF DInv
<1>5. StoreOK'
  <2>1. stale' \subseteq Paths /\ Paths' = Paths
    BY <1>1 DEF DInv, StoreOK, Paths, Below, DirPath, FilePath, FrozenPath, ACLPath
  <2> QED
    BY <1>1, <1>3, <2>1, SameOps DEF DInv, StoreOK
<1>6. ASSUME NEW v \in Versions PROVE Told(v)'
  <2> SUFFICES ASSUME SureOf(stale', todo', v) PROVE HoldsAt(disk', todo', versions'[v], v)
    BY DEF Told
  <2>1. SureOf(stale, todo, v)
    BY <1>1, <1>3 DEF SureOf
  <2>2. HoldsAt(disk, todo, versions[v], v)
    BY <1>1, <2>1 DEF DInv, Told
  <2>3. ASSUME NEW p \in Own(v), NEW c, Settles(disk, todo, p, c)
        PROVE  Settles(disk', todo', p, c)
    <3>1. p \in Paths /\ DOMAIN disk = Paths
      BY PathsKnown DEF DInv, DiskOK
    <3> QED
      BY <1>1, <2>3, <3>1, StepSettles
  <2>4. versions' = versions
    BY <1>1 DEF memory
  <2> QED
    BY <2>2, <2>3, <2>4, Carried
<1> QED
  BY <1>2, <1>4, <1>5, <1>6 DEF DInv

\* A file operation that is cut short.
LEMMA Cut ==
  ASSUME DInv, todo # <<>>,
         \E done \in SUBSET Head(todo).at : disk' = Apply(CutShort(Head(todo), done), disk)
  PROVE  DiskOK' /\ \A p \in Paths \ Touched(todo) : disk'[p] = disk[p]
<1>1. PICK done \in SUBSET Head(todo).at : disk' = Apply(CutShort(Head(todo), done), disk)
  OBVIOUS
<1> DEFINE c == IF Head(todo).holds \in {Absent, Dir} THEN Head(todo).holds ELSE Torn
<1>2. disk' = Apply([at |-> done, holds |-> c], disk)
  BY <1>1 DEF CutShort
<1>3. /\ Head(todo) \in GoodOps /\ Head(todo).at \subseteq Touched(todo)
  BY HeadAndRest DEF DInv, StoreOK
<1>4. done \in SUBSET Paths /\ done \subseteq Touched(todo)
  BY <1>3 DEF GoodOps, Ops
<1>5. \A p \in done : Fits(p, c) \/ (c = Torn /\ p \notin Rooms)
  BY <1>3 DEF GoodOps, Fits
<1>6. DiskOK' /\ \A p \in Paths : disk'[p] = IF p \in done THEN c ELSE disk[p]
  <2> HIDE DEF c
  <2> QED
    BY <1>2, <1>4, <1>5, Applied DEF DInv
<1> QED
  BY <1>4, <1>6

LEMMA TouchedKnown == DInv => Touched(todo) \subseteq Paths
<1> SUFFICES ASSUME DInv, NEW i \in DOMAIN todo PROVE todo[i].at \subseteq Paths
  BY DEF Touched
<1>1. todo[i] \in GoodOps
  <2> HIDE DEF GoodOps
  <2> QED
    BY ElementOfSeq, LenProperties DEF DInv, StoreOK
<1> QED
  BY <1>1 DEF GoodOps, Ops

LEMMA SamePaths == Paths' = Paths
  BY DEF Paths, Below, DirPath, FilePath, FrozenPath, ACLPath

LEMMA FaultD == DInv /\ Fault => DInv'
<1> SUFFICES ASSUME DInv, Fault PROVE DInv'
  OBVIOUS
<1>1. /\ up /\ up' = up /\ todo # <<>> /\ todo' = <<>> /\ stale' = stale \union Touched(todo)
      /\ \E done \in SUBSET Head(todo).at : disk' = Apply(CutShort(Head(todo), done), disk)
      /\ UNCHANGED <<memory, uploads>>
  BY DEF Fault, StoreFault, StoreFaultOn
<1>2. MemoryOK' /\ FrozenAgrees' /\ MetadataOK'
  BY <1>1, MemoryStays DEF DInv
<1>3. DiskOK' /\ \A p \in Paths \ Touched(todo) : disk'[p] = disk[p]
  BY <1>1, Cut
<1>4. StoreOK'
  <2>1. stale' \subseteq Paths
    BY <1>1, TouchedKnown DEF DInv, StoreOK
  <2> QED
    BY <1>1, <2>1, SamePaths, SameOps, Single DEF DInv, StoreOK
<1>5. ASSUME NEW v \in Versions PROVE Told(v)'
  <2> SUFFICES ASSUME SureOf(stale', todo', v) PROVE HoldsAt(disk', todo', versions'[v], v)
    BY DEF Told
  <2>1. Touched(todo) \intersect Own(v) = {} /\ stale \intersect Own(v) = {}
    BY <1>1, NothingLeft DEF SureOf
  <2>2. HoldsAt(disk, todo, versions[v], v)
    BY <1>1, <2>1 DEF DInv, Told, SureOf
  <2>3. ASSUME NEW p \in Own(v), NEW c, Settles(disk, todo, p, c)
        PROVE  Settles(disk', todo', p, c)
    <3>1. disk'[p] = disk[p] /\ p \notin Touched(todo)
      BY <1>3, <2>1, PathsKnown
    <3>2. disk[p] = c
      BY <2>3, <3>1 DEF Settles
    <3> QED
      BY <1>1, <3>1, <3>2, NothingLeft
  <2>4. versions' = versions
    BY <1>1 DEF memory
  <2> QED
    BY <2>2, <2>3, <2>4, Carried
<1> QED
  BY <1>2, <1>3, <1>4, <1>5 DEF DInv

LEMMA CrashD == DInv /\ Crash => DInv'
<1> SUFFICES ASSUME DInv, Crash PROVE DInv'
  OBVIOUS
<1>1. /\ ~up' /\ up' \in BOOLEAN /\ todo' = <<>> /\ stale' = {}
      /\ \/ disk' = disk
         \/ /\ todo # <<>>
            /\ \E done \in SUBSET Head(todo).at : disk' = Apply(CutShort(Head(todo), done), disk)
  BY DEF Crash, ProcessDies
<1>2. MemoryOK'
  <2>1. /\ bookshelf' = {} /\ frozen' = {} /\ unbroken' = {}
        /\ sandboxes' = [u \in Uploaders |-> None]
        /\ versions' = [v \in Versions |-> None]
        /\ acls' = [n \in Names |-> DefaultACL]
        /\ UNCHANGED <<job, phase, missing>>
    BY DEF Crash
  <2>2. DefaultACL \in ACLs
    BY CookbooksAssumption
  <2> QED
    BY <2>1, <2>2 DEF DInv, MemoryOK
<1>3. FrozenAgrees' /\ MetadataOK'
  BY DEF Crash, FrozenAgrees, MetadataOK
<1>4. DiskOK'
  <2>1. CASE disk' = disk
    <3>1. Kept' = Kept /\ Rooms' = Rooms
      BY DEF Kept, Rooms
    <3> QED
      BY <2>1, <3>1, SamePaths, Fitting DEF DInv, DiskOK
  <2>2. CASE disk' # disk
    BY <1>1, <2>2, Cut
  <2> QED
    BY <2>1, <2>2
<1>5. StoreOK'
  BY <1>1, SameOps, Single DEF StoreOK
<1> QED
  BY <1>1, <1>2, <1>3, <1>4, <1>5 DEF DInv

\* What a start reads is a version.
LEMMA LoadedIs ==
  ASSUME DInv, NEW v \in Versions, disk[DirPath(v)] # Absent
  PROVE  /\ LoadedFiles(v) \in FileMaps /\ LoadedVersion(v) \in Stored
         /\ LoadedVersion(v).files = LoadedFiles(v)
         /\ LoadedVersion(v).frozen = LoadedFrozen(v)
         /\ LoadedVersion(v) # None
         /\ Range(LoadedFiles(v)) \subseteq Contents
<1>1. \A f \in FilePaths : disk[FilePath(v, f)] \in Contents \union {Absent}
  <2>1. \A f \in FilePaths : FilePath(v, f) \in Paths /\ FilePath(v, f) \notin Rooms
    BY OwnIs, PathsKnown
  <2>2. Torn \in Contents
    BY DEF Contents
  <2> QED
    BY <2>1, <2>2 DEF DInv, DiskOK, Fits
<1>2. \A f \in Present(v) : f \in FilePaths /\ disk[FilePath(v, f)] \in Contents
  BY <1>1 DEF Present
<1>3. /\ LoadedFiles(v) \in [Present(v) \ Skipped -> Contents]
      /\ Present(v) \ Skipped \in SUBSET FilePaths
  <2> HIDE DEF Contents
  <2> QED
    BY <1>2 DEF LoadedFiles
<1>4. LoadedFiles(v) \in FileMaps
  BY <1>3 DEF FileMaps
<1>5. LoadedVersion(v) = [files |-> LoadedFiles(v), frozen |-> LoadedFrozen(v)]
  BY DEF LoadedVersion
<1>6. LoadedVersion(v) \in Stored
  BY <1>4, <1>5 DEF Stored, LoadedFrozen
<1>7. Range(LoadedFiles(v)) \subseteq Contents
  BY <1>3 DEF Range
<1> QED
  BY <1>4, <1>5, <1>6, <1>7, MarksKnown

LEMMA StartD == DInv /\ Start => DInv'
<1> SUFFICES ASSUME DInv, Start PROVE DInv'
  OBVIOUS
<1>1. /\ ~up /\ up' = TRUE /\ UNCHANGED <<disk, todo, stale, sandboxes, uploads>>
      /\ todo = <<>> /\ stale = {}
      /\ \A v \in Versions : LoadableVersion(v)
      /\ \A n \in Names : disk[ACLPath(n)] # Torn
  BY DEF Start, ProcessStarts, Loadable, DInv, StoreOK
<1>2. /\ versions' = [v \in Versions |-> LoadedVersion(v)]
      /\ frozen' = {v \in Versions : disk[DirPath(v)] # Absent /\ LoadedFrozen(v)}
      /\ bookshelf' = UNION {Range(LoadedFiles(v)) :
                               v \in {w \in Versions : disk[DirPath(w)] # Absent}}
      /\ acls' = [n \in Names |-> LoadedACL(n)]
  BY DEF Start
<1>3. \A v \in Versions : disk[DirPath(v)] = Absent => LoadedVersion(v) = None
  BY DEF LoadedVersion
<1>4. \A v \in Versions : LoadedVersion(v) \in Stored \union {None}
  <2> HIDE DEF Stored
  <2> QED
    BY <1>3, LoadedIs
<1>5. bookshelf' \subseteq Contents
  <2> HIDE DEF Contents
  <2>1. ASSUME NEW v \in Versions, disk[DirPath(v)] # Absent
        PROVE  Range(LoadedFiles(v)) \subseteq Contents
    BY <2>1, LoadedIs
  <2> QED
    BY <1>2, <2>1
<1>6. \A n \in Names : LoadedACL(n) \in ACLs
  <2>1. \A n \in Names : disk[ACLPath(n)] \in ACLs \union {Absent}
    BY <1>1, PathsKnown DEF DInv, DiskOK, Fits
  <2>2. DefaultACL \in ACLs
    BY CookbooksAssumption
  <2> QED
    BY <2>1, <2>2 DEF LoadedACL
<1>7. MemoryOK'
  <2>1. versions' \in [Versions -> Stored \union {None}]
    <3> HIDE DEF Stored
    <3> QED
      BY <1>2, <1>4
  <2>2. acls' \in [Names -> ACLs] /\ frozen' \subseteq Versions
    BY <1>2, <1>6
  <2>3. Contents' = Contents /\ Stored' = Stored
    BY DEF Contents, Stored, FileMaps, FilePaths
  <2> HIDE DEF Stored, Contents
  <2> QED
    BY <1>1, <1>5, <2>1, <2>2, <2>3 DEF DInv, MemoryOK, uploads
<1>8. FrozenAgrees'
  <2>1. ASSUME NEW v \in Versions
        PROVE  v \in frozen' <=> versions'[v] # None /\ versions'[v].frozen
    <3>1. versions'[v] = LoadedVersion(v)
          /\ (v \in frozen' <=> disk[DirPath(v)] # Absent /\ LoadedFrozen(v))
      BY <1>2
    <3> QED
      BY <1>3, <3>1, LoadedIs
  <2>2. frozen' \subseteq Versions
    BY <1>2
  <2> QED
    BY <2>1, <2>2 DEF FrozenAgrees
<1>9. MetadataOK'
  <2> SUFFICES ASSUME NEW v \in Versions, versions'[v] # None,
                      Metadata \in DOMAIN versions'[v].files
               PROVE  versions'[v].files[Metadata] \notin {Absent, Torn}
    BY DEF MetadataOK
  <2>1. versions'[v] = LoadedVersion(v) /\ disk[DirPath(v)] # Absent
    BY <1>2, <1>3
  <2>2. versions'[v].files = LoadedFiles(v)
    BY <2>1, LoadedIs
  <2>3. versions'[v].files[Metadata] = disk[FilePath(v, Metadata)]
    BY <2>2 DEF LoadedFiles
  <2> QED
    BY <1>1, <2>1, <2>3 DEF LoadableVersion
<1>10. DiskOK'
  <2>1. Kept' = Kept /\ Rooms' = Rooms
    BY DEF Kept, Rooms
  <2> QED
    BY <1>1, <2>1, SamePaths, Fitting DEF DInv, DiskOK
<1>11. StoreOK'
  BY <1>1, SameOps, SamePaths, Single DEF DInv, StoreOK
<1>12. ASSUME NEW v \in Versions PROVE Told(v)'
  <2> SUFFICES HoldsAt(disk, todo, versions'[v], v)
    BY <1>1 DEF Told
  <2>1. versions'[v] = LoadedVersion(v)
    BY <1>2
  <2>2. CASE disk[DirPath(v)] = Absent
    BY <1>1, <1>3, <2>1, <2>2, NothingLeft DEF HoldsAt
  <2>3. CASE disk[DirPath(v)] # Absent
    <3>1. /\ versions'[v] # None /\ versions'[v].files = LoadedFiles(v)
          /\ versions'[v].frozen = LoadedFrozen(v)
      BY <2>1, <2>3, LoadedIs
    <3>2. disk[DirPath(v)] = Dir
      <4>1. DirPath(v) \in Paths \intersect Rooms
        BY PathsKnown, OwnIs
      <4> QED
        BY <2>3, <4>1 DEF DInv, DiskOK, Fits
    <3>3. /\ Mark \notin DOMAIN LoadedFiles(v)
          /\ LoadedFrozen(v) <=> disk[FrozenPath(v)] # Absent \/ disk[FilePath(v, Mark)] # Absent
      BY CookbooksAssumption DEF LoadedFrozen, LoadedFiles, Present
    <3>4. ASSUME NEW f \in FilePaths \ Skipped
          PROVE  disk[FilePath(v, f)] = FileFor(LoadedFiles(v), f)
      <4>1. disk[FilePath(v, Metadata)] # Absent
        BY <1>1, <2>3 DEF LoadableVersion
      <4> QED
        BY <4>1 DEF FileFor, LoadedFiles, Present
    <3> QED
      <4>1. /\ Settles(disk, todo, FrozenPath(v), disk[FrozenPath(v)])
            /\ Settles(disk, todo, FilePath(v, Mark), disk[FilePath(v, Mark)])
            /\ Settles(disk, todo, DirPath(v), Dir)
            /\ \A f \in FilePaths \ Skipped :
                  Settles(disk, todo, FilePath(v, f), FileFor(LoadedFiles(v), f))
        BY <1>1, <3>2, <3>4, NothingLeft
      <4>2. disk[FrozenPath(v)] # Absent \/ disk[FilePath(v, Mark)] # Absent <=>
               LoadedFrozen(v) \/ Mark \in DOMAIN LoadedFiles(v)
        BY <3>3
      <4> QED
        BY <3>1, <4>1, <4>2 DEF HoldsAt
  <2> QED
    BY <2>2, <2>3
<1> QED
  BY <1>7, <1>8, <1>9, <1>10, <1>11, <1>12 DEF DInv

-----------------------------------------------------------------------------
(* The requests.                                                           *)

LEMMA JobsKnown ==
  ASSUME NEW j \in Jobs
  PROVE  /\ j.id \in Versions /\ j.force \in BOOLEAN /\ j.freeze \in BOOLEAN
         /\ j.files \in FileMaps /\ DOMAIN j.files \in SUBSET FilePaths
         /\ \A f \in DOMAIN j.files : j.files[f] \in Sums
         /\ Range(j.files) \in SUBSET Sums
<1>1. /\ j.id \in Versions /\ j.force \in BOOLEAN /\ j.freeze \in BOOLEAN
      /\ j.files \in UNION {[S -> Sums] : S \in SUBSET FilePaths}
  BY CookbooksAssumption
<1>2. PICK S \in SUBSET FilePaths : j.files \in [S -> Sums]
  BY <1>1
<1>3. j.files \in [S -> Contents]
  BY <1>2 DEF Contents
<1> QED
  BY <1>1, <1>2, <1>3 DEF FileMaps, Range

\* The directory of a version that nobody writes to tells what it told.
LEMMA Bystander ==
  ASSUME DInv, Idle, disk' = disk, NEW w \in Versions, versions'[w] = versions[w],
         Touched(todo') \intersect Own(w) = {},
         stale' \intersect Own(w) = stale \intersect Own(w)
  PROVE  Told(w)'
<1> SUFFICES ASSUME SureOf(stale', todo', w) PROVE HoldsAt(disk', todo', versions'[w], w)
  BY DEF Told
<1>1. stale \intersect Own(w) = {} /\ up /\ todo = <<>>
  BY DEF SureOf, Idle
<1>2. HoldsAt(disk, todo, versions[w], w)
  BY <1>1 DEF DInv, Told, SureOf
<1>3. ASSUME NEW p \in Own(w), NEW c, Settles(disk, todo, p, c)
      PROVE  Settles(disk', todo', p, c)
  BY <1>1, <1>3, NothingLeft DEF Settles
<1> QED
  BY <1>2, <1>3, Carried

LEMMA DiskStays == DInv /\ disk' = disk => DiskOK'
<1>1. Kept' = Kept /\ Rooms' = Rooms
  BY DEF Kept, Rooms
<1> QED
  BY <1>1, SamePaths, Fitting DEF DInv, DiskOK

\* A request that makes no store call and leaves the versions alone.
LEMMA NoCall ==
  ASSUME DInv, UNCHANGED storeVars, UNCHANGED versions, MemoryOK', FrozenAgrees', MetadataOK'
  PROVE  DInv'
<1>1. StoreOK'
  BY SameOps, SamePaths DEF DInv, StoreOK, storeVars
<1>2. ASSUME up, NEW v \in Versions PROVE Told(v)'
  <2>1. Told(v)
    BY <1>2 DEF DInv
  <2> QED
    BY <2>1 DEF Told, storeVars
<1> QED
  BY <1>1, <1>2, DiskStays DEF DInv, storeVars

\* A request that is about the version v, with the operations it leaves.
LEMMA CallAbout ==
  ASSUME DInv, Idle, NEW v \in Versions, disk' = disk, up' = up, todo' \in Seq(GoodOps),
         Touched(todo') \subseteq Own(v),
         NEW S \in SUBSET Own(v), stale' = stale \union S,
         \A w \in Versions \ {v} : versions'[w] = versions[w],
         SureOf(stale', todo', v) => HoldsAt(disk', todo', versions'[v], v)
  PROVE  DiskOK' /\ StoreOK' /\ \A w \in Versions : Told(w)'
<1>1. StoreOK'
  <2>1. stale' \subseteq Paths
    BY PathsKnown DEF DInv, StoreOK
  <2> QED
    BY <2>1, SameOps, SamePaths DEF DInv, StoreOK, Idle
<1>2. Told(v)'
  BY DEF Told
<1>3. ASSUME NEW w \in Versions, w # v PROVE Told(w)'
  <2>1. Own(v) \intersect Own(w) = {}
    BY <1>3, OwnIs
  <2> QED
    BY <1>3, <2>1, Bystander
<1> QED
  BY <1>1, <1>2, <1>3, DiskStays

LEMMA SameMemory == Contents' = Contents /\ Stored' = Stored
  BY DEF Contents, Stored, FileMaps, FilePaths

LEMMA LeaveD ==
  ASSUME DInv, NEW u \in Uploaders, Leave(u)
  PROVE  /\ job' \in [Uploaders -> Jobs \union {None}]
         /\ phase' \in [Uploaders -> {"none", "send", "commit", "put"}]
         /\ missing' \in [Uploaders -> SUBSET Sums]
         /\ unbroken' \subseteq Uploaders
  BY DEF DInv, MemoryOK, Leave

LEMMA SandboxPostD ==
  ASSUME DInv, NEW u \in Uploaders, NEW j \in Jobs, SandboxPost(u, j)
  PROVE  DInv'
<1>1. PICK need : need = Range(j.files) \ bookshelf
  OBVIOUS
<1>2. /\ job' = [job EXCEPT ![u] = j]
      /\ sandboxes' = [sandboxes EXCEPT ![u] = need]
      /\ missing' = [missing EXCEPT ![u] = need]
      /\ phase' = [phase EXCEPT ![u] = IF need = {} THEN "commit" ELSE "send"]
      /\ unbroken' = unbroken \union {u}
      /\ UNCHANGED storeVars /\ UNCHANGED <<bookshelf, versions, frozen, acls>>
  BY <1>1 DEF SandboxPost, NoStoreCall
<1>3. need \in SUBSET Sums
  BY <1>1, JobsKnown
<1>4. MemoryOK'
  <2> HIDE DEF Stored, Contents
  <2> QED
    BY <1>2, <1>3, SameMemory DEF DInv, MemoryOK
<1>5. FrozenAgrees' /\ MetadataOK'
  BY <1>2 DEF DInv, FrozenAgrees, MetadataOK
<1> QED
  BY <1>2, <1>4, <1>5, NoCall

LEMMA GiveUpD ==
  ASSUME DInv, NEW u \in Uploaders, GiveUp(u)
  PROVE  DInv'
<1>1. /\ Leave(u) /\ sandboxes' = [sandboxes EXCEPT ![u] = None]
      /\ UNCHANGED storeVars /\ UNCHANGED <<bookshelf, versions, frozen, acls>>
  BY DEF GiveUp
<1>2. MemoryOK'
  BY <1>1, LeaveD, SameMemory DEF DInv, MemoryOK
<1>3. FrozenAgrees' /\ MetadataOK'
  BY <1>1 DEF DInv, FrozenAgrees, MetadataOK
<1> QED
  BY <1>1, <1>2, <1>3, NoCall

LEMMA BookshelfPutD ==
  ASSUME DInv, NEW u \in Uploaders, NEW sum \in Sums, BookshelfPut(u, sum)
  PROVE  DInv'
<1>1. /\ bookshelf' = bookshelf \union {sum}
      /\ missing' = [missing EXCEPT ![u] = @ \ {sum}]
      /\ phase' = [phase EXCEPT ![u] = IF missing[u] = {sum} THEN "commit" ELSE "send"]
      /\ UNCHANGED storeVars /\ UNCHANGED <<sandboxes, versions, frozen, acls, job, unbroken>>
  BY DEF BookshelfPut, NoStoreCall
<1>2. bookshelf' \subseteq Contents
  BY <1>1 DEF DInv, MemoryOK, Contents
<1>3. MemoryOK'
  BY <1>1, <1>2, SameMemory DEF DInv, MemoryOK
<1>4. FrozenAgrees' /\ MetadataOK'
  BY <1>1 DEF DInv, FrozenAgrees, MetadataOK
<1> QED
  BY <1>1, <1>3, <1>4, NoCall

LEMMA SandboxPutD ==
  ASSUME DInv, NEW u \in Uploaders, SandboxPut(u)
  PROVE  DInv'
<1>1. UNCHANGED storeVars /\ UNCHANGED <<bookshelf, versions, frozen, acls>>
  BY DEF SandboxPut, NoStoreCall
<1>2. MemoryOK'
  <2>1. CASE /\ phase' = [phase EXCEPT ![u] = "put"]
             /\ sandboxes' = [sandboxes EXCEPT ![u] = None]
             /\ UNCHANGED <<job, missing, unbroken>>
    BY <1>1, <2>1, SameMemory DEF DInv, MemoryOK
  <2>2. CASE Leave(u) /\ UNCHANGED sandboxes
    BY <1>1, <2>2, LeaveD, SameMemory DEF DInv, MemoryOK
  <2> QED
    BY <2>1, <2>2 DEF SandboxPut
<1>3. FrozenAgrees' /\ MetadataOK'
  BY <1>1 DEF DInv, FrozenAgrees, MetadataOK
<1> QED
  BY <1>1, <1>2, <1>3, NoCall

\* An upload is accepted, and its directory written or not.
LEMMA PutCalls ==
  ASSUME DInv, Idle, NEW v \in Versions, NEW files \in FileMaps, NEW isFrozen \in BOOLEAN,
         PutCookbook(v, files, isFrozen),
         \A w \in Versions \ {v} : versions'[w] = versions[w],
         versions'[v] = [files |-> files, frozen |-> isFrozen], versions'[v] # None
  PROVE  DiskOK' /\ StoreOK' /\ (\A w \in Versions : Told(w)') /\ up' = up
<1>1. PICK s \in Listings(DOMAIN files) :
        LET stops == {i \in DOMAIN s : s[i] \in Unwritable}
        IN  \/ /\ stops = {}
               /\ StoreCall(DirPath(v),
                            Emptied(v, Below(v))
                               \o (Writes(v, files, s, Len(s)) \o Extras(v, files, isFrozen)),
                            TRUE)
            \/ \E b \in stops :
                  /\ \A i \in stops : b <= i
                  /\ StoreCallFails(FilePath(v, s[b]),
                                    Emptied(v, Below(v) \ {FilePath(v, s[b])})
                                       \o Writes(v, files, s, b - 1))
  BY DEF PutCookbook
<1>2. CASE StoreCall(DirPath(v), Emptied(v, Below(v))
                        \o (Writes(v, files, s, Len(s)) \o Extras(v, files, isFrozen)), TRUE)
  <2>1. PICK ops : ops = Emptied(v, Below(v))
                           \o (Writes(v, files, s, Len(s)) \o Extras(v, files, isFrozen))
    OBVIOUS
  <2>2. todo' = ops /\ UNCHANGED <<disk, up, stale>>
    BY <1>2, <2>1 DEF StoreCall
  <2>3. /\ ops \in Seq(GoodOps) /\ Touched(ops) = Own(v)
        /\ Leaves(ops, DirPath(v), Dir)
        /\ \A f \in FilePaths : Leaves(ops, FilePath(v, f), FileFor(files, f))
        /\ Leaves(ops, FrozenPath(v), MarkFor(isFrozen))
    BY <2>1, PutLeaves
  <2>4. HoldsAt(disk', ops, versions'[v], v)
    <3>1. versions'[v].files = files /\ versions'[v].frozen = isFrozen
      OBVIOUS
    <3>2. Settles(disk', ops, DirPath(v), Dir)
      BY <2>3, OwnIs DEF Settles
    <3>3. \A f \in FilePaths : Settles(disk', ops, FilePath(v, f), FileFor(files, f))
      BY <2>3, OwnIs DEF Settles
    <3>4. Settles(disk', ops, FrozenPath(v), MarkFor(isFrozen))
      BY <2>3, OwnIs DEF Settles
    <3>5. Mark \in FilePaths /\ Mark # Metadata
      BY CookbooksAssumption
    <3>6. Settles(disk', ops, FilePath(v, Mark), FileFor(files, Mark))
      BY <3>3, <3>5
    <3>7. FileFor(files, Mark) # Absent <=> Mark \in DOMAIN files
      <4>1. Mark \in DOMAIN files => files[Mark] \in Contents
        BY DEF FileMaps
      <4> QED
        BY <3>5, <4>1, MarksKnown DEF FileFor
    <3>8. MarkFor(isFrozen) # Absent <=> isFrozen
      BY MarksDiffer DEF MarkFor
    <3> QED
      BY <3>1, <3>2, <3>3, <3>4, <3>6, <3>7, <3>8 DEF HoldsAt
  <2>5. stale' = stale \union {}
    BY <2>2
  <2> QED
    BY <2>2, <2>3, <2>4, <2>5, CallAbout
<1>3. CASE \E b \in DOMAIN s :
             /\ s[b] \in Unwritable
             /\ \A i \in DOMAIN s : s[i] \in Unwritable => b <= i
             /\ StoreCallFails(FilePath(v, s[b]),
                               Emptied(v, Below(v) \ {FilePath(v, s[b])})
                                  \o Writes(v, files, s, b - 1))
  <2>1. PICK b \in DOMAIN s :
             /\ s[b] \in Unwritable
             /\ \A i \in DOMAIN s : s[i] \in Unwritable => b <= i
             /\ StoreCallFails(FilePath(v, s[b]),
                               Emptied(v, Below(v) \ {FilePath(v, s[b])})
                                  \o Writes(v, files, s, b - 1))
    BY <1>3
  <2>2. PICK ops : ops = Emptied(v, Below(v) \ {FilePath(v, s[b])}) \o Writes(v, files, s, b - 1)
    OBVIOUS
  <2>3. todo' = ops /\ stale' = stale \union {FilePath(v, s[b])} /\ UNCHANGED <<disk, up>>
    BY <2>1, <2>2 DEF StoreCallFails
  <2>4. /\ ops \in Seq(GoodOps) /\ Touched(ops) \subseteq Own(v)
        /\ FilePath(v, s[b]) \in Own(v) \ Touched(ops)
    BY <2>1, <2>2, PutFails
  <2>5. ~SureOf(stale', ops, v)
    BY <2>3, <2>4 DEF SureOf
  <2> QED
    BY <2>3, <2>4, <2>5, CallAbout
<1> QED
  BY <1>1, <1>2, <1>3

LEMMA CookbookPutD ==
  ASSUME DInv, NEW u \in Uploaders, NEW j \in Jobs, CookbookPut(u, j)
  PROVE  DInv'
<1>1. /\ Idle /\ Leave(u) /\ UNCHANGED <<bookshelf, sandboxes, acls>>
      /\ \/ /\ frozen' = IF j.freeze THEN frozen \union {j.id} ELSE frozen
            /\ versions' = [versions EXCEPT ![j.id] =
                              [files |-> j.files, frozen |-> j.id \in frozen']]
            /\ PutCookbook(j.id, j.files, j.id \in frozen')
         \/ UNCHANGED storeVars /\ UNCHANGED <<frozen, versions>>
  BY DEF CookbookPut, NoStoreCall
<1>2. CASE UNCHANGED storeVars /\ UNCHANGED <<frozen, versions>>
  <2>1. MemoryOK'
    BY <1>1, <1>2, LeaveD, SameMemory DEF DInv, MemoryOK
  <2>2. FrozenAgrees' /\ MetadataOK'
    BY <1>2 DEF DInv, FrozenAgrees, MetadataOK
  <2> QED
    BY <1>2, <2>1, <2>2, NoCall
<1>3. CASE /\ frozen' = IF j.freeze THEN frozen \union {j.id} ELSE frozen
           /\ versions' = [versions EXCEPT ![j.id] =
                             [files |-> j.files, frozen |-> j.id \in frozen']]
           /\ PutCookbook(j.id, j.files, j.id \in frozen')
  <2>1. PICK isFrozen \in BOOLEAN : isFrozen = (j.id \in frozen')
    <3>1. (j.id \in frozen') \in BOOLEAN
      OBVIOUS
    <3> QED
      BY <3>1, Zenon
  <2>2. PICK new : new = [files |-> j.files, frozen |-> isFrozen]
    OBVIOUS
  <2>3. new \in Stored /\ new # None /\ new.files = j.files /\ new.frozen = isFrozen
    <3>1. new \in Stored
      BY <2>2, JobsKnown DEF Stored
    <3> QED
      BY <2>2, <3>1, MarksKnown
  <2>4. versions' = [versions EXCEPT ![j.id] = new]
    BY <1>3, <2>1, <2>2
  <2>5. versions \in [Versions -> Stored \union {None}] /\ frozen \subseteq Versions /\ j.id \in Versions
    BY JobsKnown DEF DInv, MemoryOK
  <2>6. versions'[j.id] = new /\ \A w \in Versions \ {j.id} : versions'[w] = versions[w]
    BY <2>4, <2>5
  <2>7. MemoryOK'
    <3>1. versions' \in [Versions -> Stored \union {None}]
      BY <2>3, <2>4, <2>5
    <3>2. frozen' \subseteq Versions
      BY <1>3, <2>5
    <3> QED
      BY <1>1, <3>1, <3>2, LeaveD, SameMemory DEF DInv, MemoryOK
  <2>8. FrozenAgrees'
    <3>1. ASSUME NEW w \in Versions
          PROVE  w \in frozen' <=> versions'[w] # None /\ versions'[w].frozen
      <4>1. CASE w = j.id
        BY <2>1, <2>3, <2>6, <4>1
      <4>2. CASE w # j.id
        BY <1>3, <2>6, <4>2 DEF DInv, FrozenAgrees
      <4> QED
        BY <4>1, <4>2
    <3> QED
      BY <1>3, <2>5, <3>1 DEF FrozenAgrees
  <2>9. MetadataOK'
    <3> SUFFICES ASSUME NEW w \in Versions, versions'[w] # None,
                        Metadata \in DOMAIN versions'[w].files
                 PROVE  versions'[w].files[Metadata] \notin {Absent, Torn}
      BY DEF MetadataOK
    <3>1. CASE w = j.id
      BY <2>3, <2>6, <3>1, JobsKnown, MarksKnown
    <3>2. CASE w # j.id
      BY <2>6, <3>2 DEF DInv, MetadataOK
    <3> QED
      BY <3>1, <3>2
  <2>10. DiskOK' /\ StoreOK' /\ (\A w \in Versions : Told(w)') /\ up' = up
    <3>1. PutCookbook(j.id, j.files, isFrozen)
      BY <1>3, <2>1
    <3>2. j.files \in FileMaps
      BY JobsKnown
    <3> QED
      BY <1>1, <2>2, <2>3, <2>5, <2>6, <3>1, <3>2, PutCalls
  <2> QED
    BY <2>7, <2>8, <2>9, <2>10 DEF DInv
<1> QED
  BY <1>1, <1>2, <1>3

LEMMA CookbookDeleteD ==
  ASSUME DInv, NEW v \in Versions, CookbookDelete(v)
  PROVE  DInv'
<1>1. /\ Idle /\ UNCHANGED <<bookshelf, sandboxes, uploads>>
      /\ versions' = [versions EXCEPT ![v] = None] /\ frozen' = frozen \ {v}
      /\ DeleteCookbook(v)
  BY DEF CookbookDelete
<1>2. versions'[v] = None /\ \A w \in Versions \ {v} : versions'[w] = versions[w]
  BY <1>1 DEF DInv, MemoryOK
<1>3. MemoryOK'
  <2>1. acls' \in [Names -> ACLs]
    <3>1. DefaultACL \in ACLs
      BY CookbooksAssumption
    <3>2. acls' = [n \in Names |->
                     IF n = NameOf[v] /\ \A w \in Versions : NameOf[w] = n => versions'[w] = None
                     THEN DefaultACL ELSE acls[n]]
      BY DEF CookbookDelete
    <3> QED
      BY <3>1, <3>2 DEF DInv, MemoryOK
  <2>2. versions' \in [Versions -> Stored \union {None}]
    <3> HIDE DEF Stored
    <3> QED
      BY <1>1 DEF DInv, MemoryOK
  <2> QED
    BY <1>1, <2>1, <2>2, SameMemory DEF DInv, MemoryOK, uploads
<1>4. FrozenAgrees'
  <2>1. ASSUME NEW w \in Versions
        PROVE  w \in frozen' <=> versions'[w] # None /\ versions'[w].frozen
    BY <1>1, <1>2 DEF DInv, FrozenAgrees
  <2>2. frozen' \subseteq Versions
    BY <1>1 DEF DInv, MemoryOK
  <2> QED
    BY <2>1, <2>2 DEF FrozenAgrees
<1>5. MetadataOK'
  BY <1>2 DEF DInv, MetadataOK
<1>6. DiskOK' /\ StoreOK' /\ (\A w \in Versions : Told(w)') /\ up' = up
  <2>1. PICK ops : ops = << RemoveAll(Below(v)), RemoveFile(DirPath(v)) >>
    OBVIOUS
  <2>2. todo' = ops /\ UNCHANGED <<disk, up, stale>>
    BY <1>1, <2>1 DEF DeleteCookbook, StoreCall
  <2>3. ops \in Seq(GoodOps) /\ Touched(ops) = Own(v) /\ Leaves(ops, DirPath(v), Absent)
    BY <2>1, DeleteLeaves
  <2>4. HoldsAt(disk', ops, versions'[v], v)
    BY <1>2, <2>3, OwnIs DEF HoldsAt, Settles
  <2>5. stale' = stale \union {}
    BY <2>2
  <2> QED
    BY <1>1, <1>2, <2>2, <2>3, <2>4, <2>5, CallAbout
<1> QED
  BY <1>3, <1>4, <1>5, <1>6 DEF DInv

LEMMA CookbookACLD ==
  ASSUME DInv, NEW n \in Names, NEW acl \in ACLs, CookbookACL(n, acl)
  PROVE  DInv'
<1>1. /\ Idle /\ UNCHANGED <<bookshelf, sandboxes, versions, frozen, uploads>>
      /\ acls' = [acls EXCEPT ![n] = acl]
  BY DEF CookbookACL
<1>2. PICK ops : ops = << Write(ACLPath(n), acl) >>
  OBVIOUS
<1>3. todo' = ops /\ UNCHANGED <<disk, up, stale>>
  BY <1>2 DEF CookbookACL, StoreCall
<1>4. ops \in Seq(GoodOps) /\ Touched(ops) = {ACLPath(n)}
  <2>1. Write(ACLPath(n), acl) \in GoodOps /\ Write(ACLPath(n), acl).at = {ACLPath(n)}
    BY OpsAre DEF Write
  <2> QED
    BY <1>2, <2>1, Single
<1>5. MemoryOK'
  BY <1>1, SameMemory DEF DInv, MemoryOK, uploads
<1>6. FrozenAgrees' /\ MetadataOK'
  BY <1>1 DEF DInv, FrozenAgrees, MetadataOK
<1>7. StoreOK'
  BY <1>1, <1>3, <1>4, SameOps, SamePaths DEF DInv, StoreOK, Idle
<1>8. ASSUME NEW w \in Versions PROVE Told(w)'
  BY <1>1, <1>3, <1>4, OwnIs, Bystander
<1> QED
  BY <1>3, <1>5, <1>6, <1>7, <1>8, DiskStays DEF DInv

LEMMA NextD == DInv /\ [Next]_vars => DInv'
<1> SUFFICES ASSUME DInv, [Next]_vars PROVE DInv'
  OBVIOUS
<1>1. CASE UNCHANGED vars
  <2>1. UNCHANGED storeVars /\ UNCHANGED <<memory, uploads>> /\ UNCHANGED versions
    BY <1>1 DEF vars, memory
  <2>2. MemoryOK' /\ FrozenAgrees' /\ MetadataOK'
    BY <2>1, MemoryStays DEF DInv
  <2> QED
    BY <2>1, <2>2, NoCall
<1>2. CASE Next
  BY <1>2, SandboxPostD, CookbookPutD, BookshelfPutD, SandboxPutD, GiveUpD, CookbookDeleteD,
     CookbookACLD, PersistD, FaultD, CrashD, StartD DEF Next
<1> QED
  BY <1>1, <1>2

\* The inductive invariant about the directory holds in every reachable state.
THEOREM DirectoryInvariance == Spec => []DInv
  BY InitD, NextD, PTL DEF Spec

-----------------------------------------------------------------------------
(* The properties of memory and directory.                                 *)

\* Whatever the handlers, crashes and starts do, every variable has its type;
\* no directory is ever half there, and no manifest names a path or a content
\* it cannot have.
THEOREM TypeCorrect == Spec => []TypeOK
<1>1. DInv => TypeOK
  <2> SUFFICES ASSUME DInv PROVE TypeOK
    OBVIOUS
  <2>1. disk \in [Paths -> Contents \union ACLs \union {Absent, Torn, Dir}]
    <3>1. Kept \union {Torn} = Contents \union ACLs \union {Absent, Torn, Dir}
      BY DEF Kept
    <3> QED
      BY <3>1 DEF DInv, DiskOK
  <2>2. todo \in Seq([at : SUBSET Paths, holds : Contents \union ACLs \union {Absent, Dir}])
    <3>1. GoodOps \subseteq Ops /\ Ops = [at : SUBSET Paths, holds : Contents \union ACLs \union {Absent, Dir}]
      BY DEF GoodOps, Ops, Kept
    <3> HIDE DEF GoodOps, Ops
    <3>2. todo \in Seq(Ops)
      BY <3>1, SeqMonotonic DEF DInv, StoreOK
    <3> QED
      BY <3>1, <3>2
  <2> QED
    BY <2>1, <2>2 DEF DInv, MemoryOK, StoreOK, TypeOK
<1> QED
  BY <1>1, DirectoryInvariance, PTL

\* Org.Frozen, which decides on 409, is never out of step with the manifests:
\* not after a deletion, an upload over a frozen version, or a restart.
THEOREM FrozenInStep == Spec => []FrozenAgrees
<1>1. DInv => FrozenAgrees
  BY DEF DInv
<1> QED
  BY <1>1, DirectoryInvariance, PTL

\* The directory of a version that no handler is writing and no I/O error has
\* met is the version that is served, and a start can load it.
THEOREM VersionsDurable == Spec => []VersionsAreOnDisk
<1>1. DInv => VersionsAreOnDisk
  <2> SUFFICES ASSUME DInv, up, NEW v \in Versions, ~InWork(v), ~Wrong(v)
               PROVE  /\ LoadedVersion(v) = OnDisk(versions[v])
                      /\ Readable(versions[v]) => LoadableVersion(v)
    BY DEF VersionsAreOnDisk
  <2>1. Touched(todo) \intersect Own(v) = {} /\ stale \intersect Own(v) = {}
    BY DEF InWork, Wrong, Own
  <2>2. HoldsAt(disk, todo, versions[v], v)
    BY <2>1 DEF DInv, Told, SureOf
  <2>3. \A p \in Own(v) : \A c : Settles(disk, todo, p, c) => disk[p] = c
    BY <2>1 DEF Settles
  <2>4. CASE versions[v] = None
    <3>1. disk[DirPath(v)] = Absent
      BY <2>2, <2>3, <2>4, OwnIs DEF HoldsAt
    <3> QED
      BY <2>4, <3>1 DEF LoadedVersion, LoadableVersion, OnDisk
  <2>5. CASE versions[v] # None
    <3> DEFINE files == versions[v].files
               isFrozen == versions[v].frozen
               kept == (DOMAIN files \union {Metadata}) \ Skipped
    <3>1. /\ files \in FileMaps /\ isFrozen \in BOOLEAN
          /\ versions[v] = [files |-> files, frozen |-> isFrozen]
      BY <2>5 DEF DInv, MemoryOK, Stored
    <3>2. /\ disk[DirPath(v)] = Dir
          /\ \A f \in FilePaths \ Skipped : disk[FilePath(v, f)] = FileFor(files, f)
          /\ disk[FrozenPath(v)] # Absent \/ disk[FilePath(v, Mark)] # Absent <=>
               isFrozen \/ Mark \in DOMAIN files
      <4>1. FilePath(v, Mark) \in Own(v) /\ FrozenPath(v) \in Own(v) /\ DirPath(v) \in Own(v)
        BY OwnIs, CookbooksAssumption
      <4>2. PICK a, b : /\ Settles(disk, todo, FrozenPath(v), a)
                        /\ Settles(disk, todo, FilePath(v, Mark), b)
                        /\ a # Absent \/ b # Absent <=> isFrozen \/ Mark \in DOMAIN files
        BY <2>2, <2>5 DEF HoldsAt
      <4>3. disk[FrozenPath(v)] = a /\ disk[FilePath(v, Mark)] = b
        BY <2>3, <4>1, <4>2
      <4> QED
        BY <2>2, <2>3, <2>5, <4>1, <4>2, <4>3, OwnIs DEF HoldsAt
    <3>3. Metadata \in FilePaths \ Skipped /\ Mark \in FilePaths /\ DOMAIN files \in SUBSET FilePaths
          /\ \A f \in DOMAIN files : files[f] \in Contents
      BY <3>1, CookbooksAssumption DEF FileMaps
    <3>4. Metadata \in DOMAIN files => files[Metadata] \notin {Absent, Torn}
      BY <2>5 DEF DInv, MetadataOK
    <3>5. OnDisk(versions[v]) =
            [files |-> [f \in kept |-> IF f \in DOMAIN files THEN files[f] ELSE Generated],
             frozen |-> isFrozen \/ Mark \in DOMAIN files]
      BY <2>5 DEF OnDisk
    <3>6. Readable(versions[v]) /\ Metadata \in DOMAIN files => files[Metadata] \notin NotJSON
      BY <2>5 DEF Readable
    <3> HIDE DEF files, isFrozen
    <3>7. Present(v) \ Skipped = kept
      BY <3>2, <3>3, MarksKnown DEF Present, FileFor
    <3>8. LoadedFiles(v) = [f \in kept |-> IF f \in DOMAIN files THEN files[f] ELSE Generated]
      <4>1. \A f \in kept : disk[FilePath(v, f)] =
                                IF f \in DOMAIN files THEN files[f] ELSE Generated
        BY <3>2, <3>3 DEF FileFor
      <4> HIDE DEF kept
      <4> QED
        BY <3>7, <4>1 DEF LoadedFiles
    <3>9. LoadedFrozen(v) = (isFrozen \/ Mark \in DOMAIN files)
      BY <3>2, <3>3 DEF LoadedFrozen, Present
    <3>10. LoadedVersion(v) = [files |-> LoadedFiles(v), frozen |-> LoadedFrozen(v)]
      BY <3>2, MarksKnown DEF LoadedVersion
    <3>11. Readable(versions[v]) => LoadableVersion(v)
      BY <3>2, <3>3, <3>4, <3>6, MarksKnown, CookbooksAssumption DEF LoadableVersion, FileFor
    <3> QED
      BY <3>5, <3>8, <3>9, <3>10, <3>11
  <2> QED
    BY <2>4, <2>5
<1> QED
  BY <1>1, DirectoryInvariance, PTL
=============================================================================
