----------------------------- MODULE Cookbooks ------------------------------
(***************************************************************************)
(* Cookbook and artifact versions: the upload protocol of                  *)
(* internal/cookbook (sandbox, one PUT per file, commit, manifest) run by  *)
(* several uploaders at once, the handlers of internal/chefserver that     *)
(* answer them, DirStore.PutCookbook, which replaces the directory of a    *)
(* version, and the reload of those directories.  File content is known    *)
(* by its checksum.                                                        *)
(***************************************************************************)
EXTENDS DirStore, Functions

CONSTANTS
    Uploaders,
    Versions,    \* cookbook versions and artifacts, each with kind and name
    Artifacts,   \* those that are artifacts
    NameOf,      \* version -> its kind and name, which have an ACL together
    Names,       \* bound: the names whose ACL is followed
    Sums,        \* checksums of the files that uploaders hold
    Generated,   \* checksum of a metadata.json that the store makes up
    Files,       \* file paths, in the order of their names
    Metadata,    \* the path metadata.json
    Unwritable,  \* paths that SafeRelPath rejects
    Skipped,     \* paths that LoadDir passes over: .gnife.json, .git/config
    Mark,        \* the one of them that is the server's own mark, .frozen
    NotJSON,     \* checksums of files that are not JSON
    Jobs,        \* what there is to upload; files: path -> checksum
    ACLs,
    DefaultACL,
    None

FilePaths == Range(Files)
Contents == Sums \union {Generated, Torn}
FileMaps == UNION {[S -> Contents] : S \in SUBSET FilePaths}
Stored == [files : FileMaps, frozen : BOOLEAN]

ASSUME CookbooksAssumption ==
    /\ Artifacts \subseteq Versions
    /\ DOMAIN NameOf = Versions
    /\ Files \in Seq(FilePaths) /\ IsInjective(Files)
    /\ Metadata \in FilePaths \ (Unwritable \union Skipped)
    /\ {Mark} \subseteq Skipped /\ Skipped \subseteq FilePaths
    /\ NotJSON \subseteq Sums \ {Generated}
    /\ \A j \in Jobs : /\ j.id \in Versions /\ {j.force, j.freeze} \subseteq BOOLEAN
                      /\ j.files \in UNION {[S -> Sums] : S \in SUBSET FilePaths}
    /\ DefaultACL \in ACLs
    /\ {None, Absent, Torn} \intersect (ACLs \union Sums \union Stored) = {}
    /\ None \notin {Absent, Torn} /\ Generated \notin {None, Absent, Torn, Dir}
    /\ None \notin Jobs /\ \A S \in SUBSET Sums : S # None

DirPath(v) == <<"dir", v>>
FilePath(v, f) == <<"file", v, f>>
FrozenPath(v) == <<"frozen", v>>
ACLPath(n) == <<"acl", n>>
Below(v) == {FilePath(v, f) : f \in FilePaths} \union {FrozenPath(v)}
Paths == (UNION {Below(v) \union {DirPath(v)} : v \in Versions})
            \union {ACLPath(n) : n \in Names}

VARIABLES
    bookshelf,   \* checksums whose content the server has
    sandboxes,   \* uploader -> what its sandbox lacked, or None
    versions,    \* version -> manifest, or None
    frozen,      \* versions entered in Org.Frozen
    acls,        \* name -> ACL; an entry that holds the default is like none
    job,         \* uploader -> what it uploads, or None
    phase,       \* uploader -> its next request
    missing,     \* uploader -> checksums it was asked for and has not sent
    unbroken     \* history: uploaders whose server lives since their sandbox

memory == <<bookshelf, sandboxes, versions, frozen, acls>>
uploads == <<job, phase, missing, unbroken>>
vars == <<memory, uploads, storeVars>>

-----------------------------------------------------------------------------
(* What a start finds: a version for every directory, with the files that  *)
(* are there, but for those that LoadDir passes over, also when they were  *)
(* uploaded.  An uploaded file may have the path of the server's mark: the *)
(* file .frozen is there when either of its two writers left it.           *)

Present(v) == {f \in FilePaths : disk[FilePath(v, f)] # Absent}
LoadedFiles(v) == [f \in Present(v) \ Skipped |-> disk[FilePath(v, f)]]
LoadedFrozen(v) == disk[FrozenPath(v)] # Absent \/ Mark \in Present(v)
LoadedVersion(v) ==
    IF disk[DirPath(v)] = Absent THEN None
    ELSE [files |-> LoadedFiles(v), frozen |-> LoadedFrozen(v)]
\* Bug: every ACL is read, whether its file is there or not.
LoadedACLUnlisted(n) == disk[ACLPath(n)]
LoadedACL(n) == IF disk[ACLPath(n)] = Absent THEN DefaultACL ELSE disk[ACLPath(n)]

\* LoadDir wants a metadata.json, and wants it to be JSON, which nobody asked
\* of an uploaded one.
LoadableVersion(v) ==
    disk[DirPath(v)] # Absent =>
       disk[FilePath(v, Metadata)] \notin NotJSON \union {Absent, Torn}

TypeOK ==
    /\ bookshelf \subseteq Contents
    /\ sandboxes \in [Uploaders -> (SUBSET Sums) \union {None}]
    /\ versions \in [Versions -> Stored \union {None}]
    /\ frozen \subseteq Versions
    /\ acls \in [Names -> ACLs]
    /\ job \in [Uploaders -> Jobs \union {None}]
    /\ phase \in [Uploaders -> {"none", "send", "commit", "put"}]
    /\ missing \in [Uploaders -> SUBSET Sums]
    /\ unbroken \subseteq Uploaders
    /\ disk \in [Paths -> Contents \union ACLs \union {Absent, Torn, Dir}]
    /\ todo \in Seq([at : SUBSET Paths, holds : Contents \union ACLs \union {Absent, Dir}])
    /\ up \in BOOLEAN
    /\ stale \subseteq Paths

Init ==
    /\ disk = [p \in Paths |-> Absent]
    /\ todo = <<>> /\ up = TRUE /\ stale = {}
    /\ bookshelf = {} /\ frozen = {}
    /\ sandboxes = [u \in Uploaders |-> None]
    /\ versions = [v \in Versions |-> None]
    /\ acls = [n \in Names |-> DefaultACL]
    /\ job = [u \in Uploaders |-> None]
    /\ phase = [u \in Uploaders |-> "none"]
    /\ missing = [u \in Uploaders |-> {}]
    /\ unbroken = {}

-----------------------------------------------------------------------------
(* DirStore.                                                               *)

\* The files of a manifest in the order of their names.
Listings(S) ==
    {s \in [1..Cardinality(S) -> S] :
        /\ Range(s) = S
        /\ \A i, k \in DOMAIN s : i < k =>
              \E m, n \in DOMAIN Files : m < n /\ s[i] = Files[m] /\ s[k] = Files[n]}

Emptied(v, S) == << RemoveAll(S), RemoveFile(DirPath(v)), Write(DirPath(v), Dir) >>
Writes(v, files, s, n) == [i \in 1..n |-> Write(FilePath(v, s[i]), files[s[i]])]

\* What follows the files: a metadata.json if there is none, and the mark.
Extras(v, files, isFrozen) ==
    (IF Metadata \in DOMAIN files THEN <<>> ELSE << Write(FilePath(v, Metadata), Generated) >>)
      \o (IF isFrozen THEN << Write(FrozenPath(v), Dir) >> ELSE <<>>)

\* Bug: the old directory is not emptied first.
PutCookbookOver(v, files, isFrozen) ==
    \E s \in Listings(DOMAIN files) :
       StoreCall(DirPath(v), << Write(DirPath(v), Dir) >> \o Writes(v, files, s, Len(s))
                                \o Extras(v, files, isFrozen), TRUE)

\* The first path that cannot be one ends the call, when the old version is
\* already gone.
PutCookbook(v, files, isFrozen) ==
    \E s \in Listings(DOMAIN files) :
       LET stops == {i \in DOMAIN s : s[i] \in Unwritable}
       IN  \/ /\ stops = {}
              /\ StoreCall(DirPath(v),
                           Emptied(v, Below(v))
                              \o (Writes(v, files, s, Len(s)) \o Extras(v, files, isFrozen)),
                           TRUE)
           \/ \E b \in stops :
                 /\ \A i \in stops : b <= i
                 /\ StoreCallFails(FilePath(v, s[b]),
                                   Emptied(v, Below(v) \ {FilePath(v, s[b])})
                                      \o Writes(v, files, s, b - 1))

\* DeleteObject leaves the ACL file of a versioned kind where it is.
DeleteCookbook(v) ==
    StoreCall(DirPath(v), << RemoveAll(Below(v)), RemoveFile(DirPath(v)) >>, TRUE)

-----------------------------------------------------------------------------
(* Uploaders.  A request can also fail on its way: see GiveUp.             *)

\* A sandbox is known by a reading of the clock in nanoseconds; two of them
\* are taken to differ, so that every uploader has its own.

\* Bug: what another sandbox asks for is not asked for again.
SandboxPostSharing(u, j) ==
    /\ Idle
    /\ job[u] = None /\ DOMAIN j.files # {}
    /\ job' = [job EXCEPT ![u] = j]
    /\ LET asked == UNION {missing[w] : w \in Uploaders}
           need == Range(j.files) \ (bookshelf \union asked) IN
         /\ sandboxes' = [sandboxes EXCEPT ![u] = need]
         /\ missing' = [missing EXCEPT ![u] = need]
         /\ phase' = [phase EXCEPT ![u] = IF need = {} THEN "commit" ELSE "send"]
    /\ unbroken' = unbroken \union {u}
    /\ NoStoreCall
    /\ UNCHANGED <<bookshelf, versions, frozen, acls>>

SandboxPost(u, j) ==
    /\ Idle
    /\ job[u] = None /\ DOMAIN j.files # {}
    /\ job' = [job EXCEPT ![u] = j]
    /\ LET need == Range(j.files) \ bookshelf IN
         /\ sandboxes' = [sandboxes EXCEPT ![u] = need]
         /\ missing' = [missing EXCEPT ![u] = need]
         /\ phase' = [phase EXCEPT ![u] = IF need = {} THEN "commit" ELSE "send"]
    /\ unbroken' = unbroken \union {u}
    /\ NoStoreCall
    /\ UNCHANGED <<bookshelf, versions, frozen, acls>>

Leave(u) ==
    /\ job' = [job EXCEPT ![u] = None]
    /\ phase' = [phase EXCEPT ![u] = "none"]
    /\ missing' = [missing EXCEPT ![u] = {}]
    /\ unbroken' = unbroken \ {u}

\* A sandbox that is never committed stays with the server, but nobody
\* knows its id any more.  It makes no difference when, so it is between
\* two requests.
GiveUp(u) ==
    /\ Idle /\ job[u] # None
    /\ Leave(u)
    /\ sandboxes' = [sandboxes EXCEPT ![u] = None]
    /\ UNCHANGED <<bookshelf, versions, frozen, acls, storeVars>>

\* The files go out in parallel, in any order.
BookshelfPut(u, sum) ==
    /\ Idle
    /\ phase[u] = "send" /\ sum \in missing[u]
    /\ bookshelf' = bookshelf \union {sum}
    /\ missing' = [missing EXCEPT ![u] = @ \ {sum}]
    /\ phase' = [phase EXCEPT ![u] = IF missing[u] = {sum} THEN "commit" ELSE "send"]
    /\ NoStoreCall
    /\ UNCHANGED <<sandboxes, versions, frozen, acls, job, unbroken>>

\* 404 when the server no longer knows the sandbox, 400 when a file is missing.
SandboxPut(u) ==
    /\ Idle
    /\ phase[u] = "commit"
    /\ IF sandboxes[u] # None /\ sandboxes[u] \subseteq bookshelf
         THEN /\ phase' = [phase EXCEPT ![u] = "put"]
              /\ sandboxes' = [sandboxes EXCEPT ![u] = None]
              /\ UNCHANGED <<job, missing, unbroken>>
         ELSE Leave(u) /\ UNCHANGED sandboxes
    /\ NoStoreCall
    /\ UNCHANGED <<bookshelf, versions, frozen, acls>>

\* Bug: a frozen version gives way without force.
AcceptableUnforced(j) ==
    /\ Range(j.files) \subseteq bookshelf
    /\ j.id \in Artifacts => versions[j.id] = None

\* 400 for content the server does not have, 409 for an artifact that is
\* there and for a frozen version unless the uploader insists.
Acceptable(j) ==
    /\ Range(j.files) \subseteq bookshelf
    /\ j.id \in Artifacts => versions[j.id] = None
    /\ j.id \in frozen => j.force

\* An upload without files has no sandbox: this is its first request.
CookbookPut(u, j) ==
    /\ Idle
    /\ \/ job[u] = j /\ phase[u] = "put"
       \/ job[u] = None /\ DOMAIN j.files = {}
    /\ IF Acceptable(j)
         THEN /\ frozen' = IF j.freeze THEN frozen \union {j.id} ELSE frozen
              /\ versions' = [versions EXCEPT ![j.id] =
                                [files |-> j.files, frozen |-> j.id \in frozen']]
              /\ PutCookbook(j.id, j.files, j.id \in frozen')
         ELSE NoStoreCall /\ UNCHANGED <<frozen, versions>>
    /\ Leave(u)
    /\ UNCHANGED <<bookshelf, sandboxes, acls>>

\* Bug: the content of a deleted version goes, whoever else uses it.
CookbookDeleteCollecting(v) ==
    /\ Idle
    /\ versions[v] # None
    /\ versions' = [versions EXCEPT ![v] = None]
    /\ frozen' = frozen \ {v}
    /\ bookshelf' = bookshelf \ Range(versions[v].files)
    /\ DeleteCookbook(v)
    /\ UNCHANGED <<sandboxes, acls, uploads>>

\* Bug: a deleted version stays frozen.
CookbookDeleteStillFrozen(v) ==
    /\ Idle
    /\ versions[v] # None
    /\ versions' = [versions EXCEPT ![v] = None]
    /\ DeleteCookbook(v)
    /\ UNCHANGED <<bookshelf, sandboxes, frozen, acls, uploads>>

\* The bookshelf keeps the files: other versions may hold the same content.
CookbookDelete(v) ==
    /\ Idle
    /\ versions[v] # None
    /\ versions' = [versions EXCEPT ![v] = None]
    /\ frozen' = frozen \ {v}
    /\ acls' = [n \in Names |->
                  IF n = NameOf[v] /\ \A w \in Versions : NameOf[w] = n => versions'[w] = None
                  THEN DefaultACL ELSE acls[n]]
    /\ DeleteCookbook(v)
    /\ UNCHANGED <<bookshelf, sandboxes, uploads>>

CookbookACL(n, acl) ==
    /\ Idle
    /\ \E v \in Versions : NameOf[v] = n /\ versions[v] # None
    /\ acls' = [acls EXCEPT ![n] = acl]
    /\ StoreCall(ACLPath(n), << Write(ACLPath(n), acl) >>, TRUE)
    /\ UNCHANGED <<bookshelf, sandboxes, versions, frozen, uploads>>

-----------------------------------------------------------------------------
(* The process.                                                            *)

Persist == StoreStep /\ UNCHANGED <<memory, uploads>>
Fault == StoreFault /\ UNCHANGED <<memory, uploads>>

Crash ==
    /\ ProcessDies
    /\ bookshelf' = {} /\ frozen' = {} /\ unbroken' = {}
    /\ sandboxes' = [u \in Uploaders |-> None]
    /\ versions' = [v \in Versions |-> None]
    /\ acls' = [n \in Names |-> DefaultACL]
    /\ UNCHANGED <<job, phase, missing>>

\* SetCookbook puts the files of every version back on the bookshelf.
Start ==
    /\ ProcessStarts({ACLPath(n) : n \in Names})
    /\ \A v \in Versions : LoadableVersion(v)
    /\ versions' = [v \in Versions |-> LoadedVersion(v)]
    /\ frozen' = {v \in Versions : disk[DirPath(v)] # Absent /\ LoadedFrozen(v)}
    /\ bookshelf' = UNION {Range(LoadedFiles(v)) :
                             v \in {w \in Versions : disk[DirPath(w)] # Absent}}
    /\ acls' = [n \in Names |-> LoadedACL(n)]
    /\ UNCHANGED <<sandboxes, uploads>>

Next ==
    \/ \E u \in Uploaders, j \in Jobs : SandboxPost(u, j) \/ CookbookPut(u, j)
    \/ \E u \in Uploaders, sum \in Sums : BookshelfPut(u, sum)
    \/ \E u \in Uploaders : SandboxPut(u) \/ GiveUp(u)
    \/ \E v \in Versions : CookbookDelete(v)
    \/ \E n \in Names, acl \in ACLs : CookbookACL(n, acl)
    \/ Persist \/ Fault \/ Crash \/ Start

Spec == Init /\ [][Next]_vars
-----------------------------------------------------------------------------
(* Properties.                                                             *)

\* Whatever the server lists in a manifest can be downloaded from it: no
\* upload, deletion or restart leaves a version whose content is gone.
ContentIsServed ==
    \A v \in Versions : versions[v] # None => Range(versions[v].files) \subseteq bookshelf

\* An upload fails only for a reason of its own: whatever other uploaders and
\* deletions do meanwhile, the commit finds the sandbox and every file of it,
\* and the manifest every checksum, unless the server was restarted.
UploadsGoThrough ==
    \A u \in unbroken :
      /\ phase[u] = "commit" => sandboxes[u] # None /\ sandboxes[u] \subseteq bookshelf
      /\ phase[u] = "put" => Range(job[u].files) \subseteq bookshelf

\* Org.Frozen, which decides on 409, says what the manifests say; a version
\* that is deleted and uploaded again starts unfrozen.
FrozenAgrees == frozen = {v \in Versions : versions[v] # None /\ versions[v].frozen}

\* The content of a frozen version is only replaced by an uploader that
\* forces it, and the content of an artifact never.
FrozenContentStays ==
    [][ \A v \in frozen \union Artifacts :
          versions[v] # None /\ versions'[v] \notin {None, versions[v]} =>
            /\ v \notin Artifacts
            /\ \E u \in Uploaders, j \in Jobs :
                 CookbookPut(u, j) /\ j.id = v /\ j.force ]_vars

\* What of an accepted manifest comes back from the disk: a metadata.json is
\* added to a version that has none, the files that LoadDir passes over do not
\* come back, and an uploaded .frozen is taken for the mark.
OnDisk(stored) ==
    IF stored = None THEN None
    ELSE LET kept == (DOMAIN stored.files \union {Metadata}) \ Skipped IN
         [files |-> [f \in kept |-> IF f \in DOMAIN stored.files
                                     THEN stored.files[f] ELSE Generated],
          frozen |-> stored.frozen \/ Mark \in DOMAIN stored.files]

\* The server accepts a metadata.json that a start will refuse.
Readable(stored) ==
    stored # None /\ Metadata \in DOMAIN stored.files => stored.files[Metadata] \notin NotJSON

InWork(v) == Touched(todo) \intersect (Below(v) \union {DirPath(v)}) # {}
Wrong(v) == stale \intersect (Below(v) \union {DirPath(v)}) # {}

\* At every moment, also while another version is being written, the
\* directory of a version holds the files of its manifest that LoadDir does
\* not pass over, and its frozen mark: a crash costs at most the version that
\* was being written.  A start can load it, unless its own metadata.json was
\* never JSON; and LoadDir calls the files it passes over "gnife's own markers,
\* not cookbook content", uploaded or not.
VersionsAreOnDisk ==
    up => \A v \in Versions : ~InWork(v) /\ ~Wrong(v) =>
             /\ LoadedVersion(v) = OnDisk(versions[v])
             /\ Readable(versions[v]) => LoadableVersion(v)

\* docs/serve.md: the directory "is always a valid backup of what is being
\* served": between requests a start would find no version it cannot load.
AlwaysLoadable == Idle => \A v \in Versions : LoadableVersion(v)
=============================================================================
