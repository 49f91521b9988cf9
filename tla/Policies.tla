------------------------------ MODULE Policies ------------------------------
(***************************************************************************)
(* One organisation's policies and policy groups: routePolicies and        *)
(* routePolicyGroups of internal/chefserver/routes.go, the files DirStore  *)
(* keeps for them, and the reload of those files.                          *)
(*                                                                         *)
(* Two handlers make more than one store call.  Assigning a revision that  *)
(* the server does not have stores the revision first and the group then;  *)
(* deleting a policy deletes the files of its revisions one by one and     *)
(* changes memory only after the last.  `handler' is what such a handler   *)
(* still has to do while it holds the mutex between two of its calls.      *)
(***************************************************************************)
EXTENDS DirStore

CONSTANTS
    Revisions,   \* pairs of a policy's name and a revision id
    PolicyOf,    \* revision -> its policy
    PolicyGroups,
    FileName,    \* revision -> name of its file, NAME-REVISION
    ReadAs,      \* file name -> the revision it is read back as, None for an
                 \* error: the name is split at its last hyphen
    Docs,        \* JSON bodies of revisions
    Guarded,     \* bound: the policies and groups whose ACL is followed
    ACLs,
    DefaultACL,
    Unsafe,      \* revisions and groups with a name that SafeName rejects
    Hidden,      \* files, policies and groups whose name starts with a dot
    None         \* no entry in a map

PolicyNames == {PolicyOf[r] : r \in Revisions}
FileNames == {FileName[r] : r \in Revisions}
RevisionsOf(p) == {r \in Revisions : PolicyOf[r] = p}

\* What a group assigns: to each policy one revision, or none.
Assignments == {a \in [PolicyNames -> Revisions \union {None}] :
                   \A p \in PolicyNames : a[p] = None \/ PolicyOf[a[p]] = p}
NoAssignment == [p \in PolicyNames |-> None]

ASSUME PoliciesAssumption ==
    /\ DOMAIN PolicyOf = Revisions /\ DOMAIN FileName = Revisions
    /\ ReadAs \in [FileNames -> Revisions \union {None}]
    /\ \A f \in FileNames : ReadAs[f] # None => FileName[ReadAs[f]] = f
    /\ Guarded \subseteq PolicyNames \union PolicyGroups
    /\ PolicyNames \intersect PolicyGroups = {}
    /\ DefaultACL \in ACLs
    /\ Unsafe \subseteq Revisions \union PolicyGroups
    /\ Hidden \subseteq FileNames \union PolicyNames \union PolicyGroups
    /\ None \notin Revisions \union Docs \union Assignments \union ACLs
    /\ {Absent, Torn, Dir} \intersect (Docs \union Assignments \union ACLs \union {None}) = {}

RevisionPath(r) == <<"policy", FileName[r]>>
GroupPath(g) == <<"policy_group", g>>
ACLPath(x) == <<"acl", x>>
ACLPaths == {ACLPath(x) : x \in Guarded}
Paths == {RevisionPath(r) : r \in Revisions} \union {GroupPath(g) : g \in PolicyGroups}
           \union ACLPaths

VARIABLES
    revisions,   \* memory: revision -> body, or None
    policyGroups,\* memory: group -> its assignments, or None
    acls,        \* memory: policy or group -> ACL, None when no entry was made
    handler,     \* what the handler holding the mutex does next, <<>> at its end
    leftover     \* history: ACL files that were to go with their groups, and
                 \* stayed when the error was ignored or the process died

memory == <<revisions, policyGroups, acls>>
vars == <<memory, handler, leftover, storeVars>>

\* Only a request that finds the mutex free is let in.
Free == Idle /\ handler = <<>>

Assigning(g, r) == <<"assign", g, r>>
Deleting(p, left) == <<"delete", p, left>>

-----------------------------------------------------------------------------
(* What a start finds.                                                     *)

\* A file that Load looks at: listJSONNames skips dot names.
Listed(p) == disk[p] # Absent /\ p[2] \notin Hidden

LoadedRevision(r) ==
    IF Listed(RevisionPath(r)) /\ ReadAs[FileName[r]] = r
      THEN disk[RevisionPath(r)] ELSE None
LoadedGroup(g) == IF Listed(GroupPath(g)) THEN disk[GroupPath(g)] ELSE None
\* Bug: every ACL is read, whether its file is there or not.
LoadedACLUnlisted(x) == disk[ACLPath(x)]
LoadedACL(x) == IF Listed(ACLPath(x)) THEN disk[ACLPath(x)] ELSE None

\* An ACL nobody has asked for is the default one.
Effective(acl) == IF acl = None THEN DefaultACL ELSE acl

TypeOK ==
    /\ revisions \in [Revisions -> Docs \union {None}]
    /\ policyGroups \in [PolicyGroups -> Assignments \union {None}]
    /\ acls \in [Guarded -> ACLs \union {None}]
    /\ handler \in {<<>>} \union {Assigning(g, r) : g \in PolicyGroups, r \in Revisions}
                 \union {Deleting(p, left) : p \in PolicyNames, left \in SUBSET Revisions}
    /\ disk \in [Paths -> Docs \union Assignments \union ACLs \union {Absent, Torn}]
    /\ todo \in Seq([at : SUBSET Paths, holds : Docs \union Assignments \union ACLs \union {Absent}])
    /\ up \in BOOLEAN
    /\ stale \subseteq Paths
    /\ leftover \subseteq ACLPaths

Init ==
    /\ disk = [p \in Paths |-> Absent]
    /\ todo = <<>> /\ up = TRUE /\ stale = {} /\ leftover = {}
    /\ revisions = [r \in Revisions |-> None]
    /\ policyGroups = [g \in PolicyGroups |-> None]
    /\ acls = [x \in Guarded |-> None]
    /\ handler = <<>>

-----------------------------------------------------------------------------
(* Store methods.                                                          *)

PutRevision(r, doc) ==
    StoreCall(RevisionPath(r), <<Write(RevisionPath(r), doc)>>, r \notin Unsafe)

\* The ACL file is a policy's, not a revision's, and is left alone.
DeleteRevision(r) ==
    StoreCall(RevisionPath(r), <<RemoveFile(RevisionPath(r))>>, r \notin Unsafe)

PersistPolicyGroup(g) ==
    StoreCall(GroupPath(g), <<Write(GroupPath(g), policyGroups'[g])>>, g \notin Unsafe)

\* The ACL file goes with the group, after it.
DeletePolicyGroup(g) ==
    StoreCall(GroupPath(g),
              <<RemoveFile(GroupPath(g))>> \o
                 (IF g \in Guarded THEN <<RemoveFile(ACLPath(g))>> ELSE <<>>),
              g \notin Unsafe)

-----------------------------------------------------------------------------
(* Handlers of policies.  Requests that are refused (400, 404, 405, 409)   *)
(* change nothing and are left out.                                        *)

HasRevision(p) == \E r \in RevisionsOf(p) : revisions[r] # None

RevisionPost(r, doc) ==
    /\ Free
    /\ revisions[r] = None
    /\ revisions' = [revisions EXCEPT ![r] = doc]
    /\ PutRevision(r, doc)
    /\ UNCHANGED <<policyGroups, acls, handler>>

\* A policy is gone with its last revision; the entry of its ACL stays.
RevisionDelete(r) ==
    /\ Free
    /\ revisions[r] # None
    /\ revisions' = [revisions EXCEPT ![r] = None]
    /\ DeleteRevision(r)
    /\ UNCHANGED <<policyGroups, acls, handler>>

PolicyDelete(p) ==
    /\ Free
    /\ HasRevision(p)
    /\ handler' = Deleting(p, {r \in RevisionsOf(p) : revisions[r] # None})
    /\ NoStoreCall
    /\ UNCHANGED memory

\* The files go in the order Go's map hands the revisions out.  An error ends
\* the request: memory keeps revisions whose files are gone.
DeleteNext(p, left) ==
    /\ Idle /\ handler = Deleting(p, left)
    /\ \E r \in left :
         IF r \in Unsafe
           THEN /\ handler' = <<>>
                /\ stale' = stale \union {RevisionPath(q) : q \in (RevisionsOf(p) \ left) \union {r}}
                /\ UNCHANGED <<disk, todo, up>>
           ELSE /\ handler' = Deleting(p, left \ {r})
                /\ DeleteRevision(r)
    /\ UNCHANGED memory

\* Memory follows; the file of the policy's ACL stays.
DeleteLast(p) ==
    /\ Idle /\ handler = Deleting(p, {})
    /\ revisions' = [r \in Revisions |-> IF r \in RevisionsOf(p) THEN None ELSE revisions[r]]
    /\ acls' = [x \in Guarded |-> IF x = p THEN None ELSE acls[x]]
    /\ handler' = <<>>
    /\ NoStoreCall
    /\ UNCHANGED policyGroups

-----------------------------------------------------------------------------
(* Handlers of policy groups.                                              *)

Assigned(g, r) ==
    [policyGroups EXCEPT
        ![g] = [(IF @ = None THEN NoAssignment ELSE @) EXCEPT ![PolicyOf[r]] = r]]

Assign(g, r) ==
    /\ policyGroups' = Assigned(g, r)
    /\ PersistPolicyGroup(g)
    /\ handler' = <<>>
    /\ UNCHANGED <<revisions, acls>>

\* Bug: a revision that the server did not have is not persisted.
AssignmentPutUnsaved(g, r, doc) ==
    /\ Free
    /\ revisions' = [revisions EXCEPT ![r] = IF @ = None THEN doc ELSE @]
    /\ policyGroups' = Assigned(g, r)
    /\ PersistPolicyGroup(g)
    /\ UNCHANGED <<acls, handler>>

\* Bug: the group is written before the revision it names.
AssignmentPutGroupFirst(g, r, doc) ==
    /\ Free
    /\ revisions' = [revisions EXCEPT ![r] = IF @ = None THEN doc ELSE @]
    /\ policyGroups' = Assigned(g, r)
    /\ StoreCall(GroupPath(g), <<Write(GroupPath(g), policyGroups'[g]),
                                 Write(RevisionPath(r), revisions'[r])>>, {g, r} \intersect Unsafe = {})
    /\ UNCHANGED <<acls, handler>>

\* A revision that the server does not have comes with the assignment.
AssignmentPut(g, r, doc) ==
    /\ Free
    /\ IF revisions[r] # None
         THEN Assign(g, r)
         ELSE /\ revisions' = [revisions EXCEPT ![r] = doc]
              /\ PutRevision(r, doc)
              /\ handler' = IF r \in Unsafe THEN <<>> ELSE Assigning(g, r)
              /\ UNCHANGED <<policyGroups, acls>>

AssignNext(g, r) ==
    /\ Idle /\ handler = Assigning(g, r)
    /\ Assign(g, r)

\* Bug: the group is persisted as it was before.
AssignmentDeleteUnsaved(g, p) ==
    /\ Free
    /\ policyGroups[g] # None /\ policyGroups[g][p] # None
    /\ policyGroups' = [policyGroups EXCEPT ![g][p] = None]
    /\ StoreCall(GroupPath(g), <<Write(GroupPath(g), policyGroups[g])>>, g \notin Unsafe)
    /\ UNCHANGED <<revisions, acls, handler>>

AssignmentDelete(g, p) ==
    /\ Free
    /\ policyGroups[g] # None /\ policyGroups[g][p] # None
    /\ policyGroups' = [policyGroups EXCEPT ![g][p] = None]
    /\ PersistPolicyGroup(g)
    /\ UNCHANGED <<revisions, acls, handler>>

\* Bug: the entry of the group's ACL stays in memory.
PolicyGroupDeleteKeepingACL(g) ==
    /\ Free
    /\ policyGroups[g] # None
    /\ policyGroups' = [policyGroups EXCEPT ![g] = None]
    /\ DeletePolicyGroup(g)
    /\ UNCHANGED <<revisions, acls, handler>>

PolicyGroupDelete(g) ==
    /\ Free
    /\ policyGroups[g] # None
    /\ policyGroups' = [policyGroups EXCEPT ![g] = None]
    /\ acls' = [x \in Guarded |-> IF x = g THEN None ELSE acls[x]]
    /\ DeletePolicyGroup(g)
    /\ UNCHANGED <<revisions, handler>>

-----------------------------------------------------------------------------
(* ACLs of both.                                                           *)

Exists(x) == IF x \in PolicyGroups THEN policyGroups[x] # None ELSE HasRevision(x)

\* Reading an ACL creates its entry; nothing is persisted.
GetACL(x) ==
    /\ Free
    /\ Exists(x)
    /\ acls' = [acls EXCEPT ![x] = Effective(@)]
    /\ NoStoreCall
    /\ UNCHANGED <<revisions, policyGroups, handler>>

PutACL(x, acl) ==
    /\ Free
    /\ Exists(x)
    /\ acls' = [acls EXCEPT ![x] = acl]
    /\ StoreCall(ACLPath(x), <<Write(ACLPath(x), acl)>>, x \notin Unsafe)
    /\ UNCHANGED <<revisions, policyGroups, handler>>

-----------------------------------------------------------------------------
(* The process.                                                            *)

Persist ==
    /\ StoreStep
    /\ leftover' = leftover \ Head(todo).at
    /\ UNCHANGED <<memory, handler>>

\* The files a handler has changed before the call that fails.
ChangedBefore ==
    {RevisionPath(r) : r \in
        {q \in Revisions : \E left \in SUBSET Revisions :
                              handler = Deleting(PolicyOf[q], left) /\ q \notin left}}

Fault ==
    /\ StoreFaultOn(Touched(todo) \union ChangedBefore, ACLPaths)
    /\ handler' = <<>>
    /\ UNCHANGED <<memory, leftover>>

\* DeleteObject ignores that the ACL's file cannot be removed: the request is
\* answered 200.
ACLStays ==
    /\ StoreFaultIgnored(ACLPaths)
    /\ leftover' = leftover \union {p \in Head(todo).at : disk[p] # Absent}
    /\ UNCHANGED <<memory, handler>>

\* A group that the process was changing, or had failed to change.
Unsettled(g) == {GroupPath(g), ACLPath(g)} \intersect (stale \union Touched(todo)) # {}

\* A crash can leave the ACL of such a group without the group.
Crash ==
    /\ ProcessDies
    /\ revisions' = [r \in Revisions |-> None]
    /\ policyGroups' = [g \in PolicyGroups |-> None]
    /\ acls' = [x \in Guarded |-> None]
    /\ handler' = <<>>
    /\ leftover' = leftover \union
          {ACLPath(g) : g \in {h \in Guarded \intersect PolicyGroups :
                                 Unsettled(h) /\ LoadedGroup(h)' = None}}

Start ==
    /\ ProcessStarts({p \in Paths : Listed(p)})
    /\ \A r \in Revisions : Listed(RevisionPath(r)) => ReadAs[FileName[r]] # None
    /\ revisions' = [r \in Revisions |-> LoadedRevision(r)]
    /\ policyGroups' = [g \in PolicyGroups |-> LoadedGroup(g)]
    /\ acls' = [x \in Guarded |-> LoadedACL(x)]
    /\ UNCHANGED <<handler, leftover>>

Request ==
    \/ \E r \in Revisions : RevisionDelete(r) \/ \E doc \in Docs : RevisionPost(r, doc)
    \/ \E p \in PolicyNames : PolicyDelete(p)
    \/ \E g \in PolicyGroups, r \in Revisions, doc \in Docs : AssignmentPut(g, r, doc)
    \/ \E g \in PolicyGroups, p \in PolicyNames : AssignmentDelete(g, p)
    \/ \E g \in PolicyGroups : PolicyGroupDelete(g)
    \/ \E x \in Guarded : GetACL(x) \/ \E acl \in ACLs : PutACL(x, acl)

Continue ==
    \/ \E p \in PolicyNames, left \in SUBSET Revisions : DeleteNext(p, left)
    \/ \E p \in PolicyNames : DeleteLast(p)
    \/ \E g \in PolicyGroups, r \in Revisions : AssignNext(g, r)

Next ==
    \/ (Request \/ Continue) /\ UNCHANGED leftover
    \/ Persist \/ Fault \/ ACLStays \/ Crash \/ Start

Spec == Init /\ [][Next]_vars
-----------------------------------------------------------------------------
(* Properties.                                                             *)

\* Revisions whose file belongs to them alone and is read back as theirs.
\* ("web", "x-1") and ("web-x", "1") share the file web-x-1.json.
Plain == {r \in Revisions :
            /\ FileName[r] \notin Hidden /\ ReadAs[FileName[r]] = r
            /\ \A q \in Revisions : FileName[q] = FileName[r] => q = r}

\* docs/serve.md: "every change a client makes is written back into the
\* directory immediately".  Between requests a start would serve the same
\* revisions with the same bodies, those that came with an assignment and
\* those of a policy deleted file by file included.
RevisionsAreOnDisk ==
    Free => \A r \in Plain : RevisionPath(r) \notin stale => LoadedRevision(r) = revisions[r]

\* The same of the policy groups and of what they assign.
GroupsAreOnDisk ==
    Free => \A g \in PolicyGroups \ Hidden :
               GroupPath(g) \notin stale => LoadedGroup(g) = policyGroups[g]

\* The same of the ACLs of groups, and no start finds the ACL of a group that
\* is gone ("The ACL file goes with the object", store.go:51).  Excepted are
\* the two ways in which the code leaves such a file behind, both in leftover:
\* the error of its removal is ignored and the DELETE answered 200, or the
\* process dies after the group's file and before the ACL's.
GroupACLsAreOnDisk ==
    Free => \A g \in Guarded \intersect (PolicyGroups \ Hidden) :
               ACLPath(g) \notin stale \union leftover =>
                  /\ Effective(LoadedACL(g)) = Effective(acls[g])
                  /\ policyGroups[g] = None => LoadedACL(g) = None

OnDisk(g) == IF disk[GroupPath(g)] \in Assignments THEN disk[GroupPath(g)] ELSE NoAssignment

\* No crash can separate an assignment from its revision: whenever the file of
\* a group begins to name a revision, the revision's file is there already.
\* Files whose last change was answered with an error are left out.
AssignmentsFollowRevisions ==
    [][\A g \in PolicyGroups, p \in PolicyNames :
          LET r == OnDisk(g)'[p] IN
            /\ r \in Plain /\ r # OnDisk(g)[p]
            /\ {GroupPath(g), RevisionPath(r)} \intersect stale = {}
            => disk'[RevisionPath(r)] \in Docs]_vars
=============================================================================
