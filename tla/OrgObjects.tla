----------------------------- MODULE OrgObjects -----------------------------
(***************************************************************************)
(* One organisation's nodes, roles, environments, data bags, containers    *)
(* and their ACLs: the handlers of internal/chefserver/routes.go that      *)
(* change them, the files DirStore keeps for them, and the reload of those *)
(* files when the server starts again.                                     *)
(***************************************************************************)
EXTENDS DirStore

CONSTANTS
    Crud,        \* nodes, roles and environments, each with its kind and name
    DefaultEnv,  \* the environment _default; a small instance may leave it out
    Containers,
    BuiltIn,     \* the containers newOrg creates
    Bags,
    Items,
    BagOf,       \* item -> its data bag
    Bodies,      \* JSON bodies a client can send
    Malformed,   \* request bodies that are not JSON
    OwnBody,     \* what the server writes itself: newOrg's _default, a container
    Perms,       \* the permissions of an ACL
    Grants,      \* what one permission can grant
    DefaultGrant,\* what defaultACL grants
    Guarded,     \* bound: the objects whose ACL is asked for and changed
    Unsafe,      \* objects whose name SafeName rejects
    Hidden,      \* objects whose name starts with a dot
    None         \* no entry in a map

Objects == Crud \union Containers \union Bags \union Items
WithACL == Objects \ Items
ItemsOf(b) == {i \in Items : BagOf[i] = b}
ACLs == [Perms -> Grants]
DefaultACL == [p \in Perms |-> DefaultGrant]
Stored == Bodies \union Malformed \union {OwnBody, Dir}

ASSUME ObjectsAssumption ==
    /\ DefaultEnv \notin Containers \union Bags \union Items
    /\ BuiltIn \subseteq Containers
    /\ Crud \intersect (Containers \union Bags \union Items) = {}
    /\ Containers \intersect (Bags \union Items) = {}
    /\ Bags \intersect Items = {}
    /\ BagOf \in [Items -> Bags]
    /\ Guarded \subseteq WithACL
    /\ Unsafe \subseteq Objects /\ Hidden \subseteq Objects
    /\ \A i \in Items : BagOf[i] \in Unsafe => i \in Unsafe
    /\ \A i \in Items : BagOf[i] \in Hidden => i \in Hidden
    /\ (BuiltIn \union {DefaultEnv}) \intersect (Unsafe \union Hidden) = {}
    /\ DefaultGrant \in Grants
    /\ {Absent, Torn, None} \intersect (Stored \union ACLs) = {}
    /\ Malformed \intersect (Bodies \union {OwnBody, Dir}) = {}
    /\ None \notin {Absent, Torn}

\* layout.go: an object's file and, in the tree acls/, the file of its ACL.
ObjectPath(x) == <<"object", x>>
ACLPath(x) == <<"acl", x>>
ACLPaths == {ACLPath(x) : x \in WithACL}
Paths == {ObjectPath(x) : x \in Objects} \union ACLPaths

VARIABLES
    objects,     \* memory: object -> body (Dir for a bag), or None
    acls,        \* memory: object -> ACL, None when no entry was made
    leftover     \* history: ACL files that were to go with their objects, and
                 \* stayed when the error was ignored or the process died

memory == <<objects, acls>>
vars == <<memory, leftover, storeVars>>

-----------------------------------------------------------------------------
(* What a start finds.                                                     *)

NewOrg(x) == IF x \in BuiltIn \union {DefaultEnv} THEN OwnBody ELSE None

\* A file that Load looks at: listJSONNames and listDirs skip dot names.
Listed(p, x) == disk[p] # Absent /\ x \notin Hidden

LoadedObject(x) == IF Listed(ObjectPath(x), x) THEN disk[ObjectPath(x)] ELSE NewOrg(x)
\* Bug: every ACL is read, whether its file is there or not.
LoadedACLUnlisted(x) == disk[ACLPath(x)]
LoadedACL(x) == IF Listed(ACLPath(x), x) THEN disk[ACLPath(x)] ELSE None

\* An ACL nobody has asked for is the default one.
Effective(acl) == IF acl = None THEN DefaultACL ELSE acl

TypeOK ==
    /\ objects \in [Objects -> Stored \union {None}]
    /\ acls \in [WithACL -> ACLs \union {None}]
    /\ disk \in [Paths -> Stored \union ACLs \union {Absent, Torn}]
    /\ todo \in Seq([at : SUBSET Paths, holds : Stored \union ACLs \union {Absent}])
    /\ up \in BOOLEAN
    /\ stale \subseteq Paths
    /\ leftover \subseteq ACLPaths

Init ==
    /\ disk = [p \in Paths |-> Absent]
    /\ todo = <<>> /\ up = TRUE /\ stale = {} /\ leftover = {}
    /\ objects = [x \in Objects |-> NewOrg(x)]
    /\ acls = [x \in WithACL |-> None]

-----------------------------------------------------------------------------
(* Store methods.                                                          *)

PutObject(x, body) ==
    StoreCall(ObjectPath(x),
              IF x \in Items
                THEN <<Write(ObjectPath(BagOf[x]), Dir), Write(ObjectPath(x), body)>>
                ELSE <<Write(ObjectPath(x), body)>>,
              x \notin Unsafe /\ body \notin Malformed)

\* Bug: the ACL file stays behind.
DeleteObjectKeepingACL(x) ==
    StoreCall(ObjectPath(x),
              IF x \in Bags
                THEN << RemoveAll({ObjectPath(i) : i \in ItemsOf(x)}), RemoveFile(ObjectPath(x)) >>
                ELSE << RemoveFile(ObjectPath(x)) >>,
              x \notin Unsafe)

\* The ACL file goes with the object, after it; RemoveAll empties a directory
\* first.
DeleteObject(x) ==
    StoreCall(ObjectPath(x),
              CASE x \in Bags  -> << RemoveAll({ObjectPath(i) : i \in ItemsOf(x)}),
                                     RemoveFile(ObjectPath(x)), RemoveFile(ACLPath(x)) >>
                [] x \in Items -> << RemoveFile(ObjectPath(x)) >>
                [] OTHER       -> << RemoveFile(ObjectPath(x)), RemoveFile(ACLPath(x)) >>,
              x \notin Unsafe)

PutACL(x, acl) == StoreCall(ACLPath(x), <<Write(ACLPath(x), acl)>>, x \notin Unsafe)

-----------------------------------------------------------------------------
(* Handlers.  Requests that are refused (404, 405, 409) change nothing and *)
(* are left out.                                                           *)

CrudPost(x, body) ==
    /\ Idle
    /\ x \in Crud /\ objects[x] = None
    /\ objects' = [objects EXCEPT ![x] = body]
    /\ PutObject(x, body)
    /\ UNCHANGED acls

\* Bug: a changed object is not persisted.
CrudPutUnsaved(x, body) ==
    /\ Idle
    /\ x \in Crud \ {DefaultEnv} /\ objects[x] # None
    /\ objects' = [objects EXCEPT ![x] = body]
    /\ NoStoreCall
    /\ UNCHANGED acls

CrudPut(x, body) ==
    /\ Idle
    /\ x \in Crud \ {DefaultEnv} /\ objects[x] # None
    /\ objects' = [objects EXCEPT ![x] = body]
    /\ PutObject(x, body)
    /\ UNCHANGED acls

CrudDelete(x) ==
    /\ Idle
    /\ x \in Crud \ {DefaultEnv} /\ objects[x] # None
    /\ objects' = [objects EXCEPT ![x] = None]
    /\ acls' = [acls EXCEPT ![x] = None]
    /\ DeleteObject(x)

BagPost(b) ==
    /\ Idle
    /\ b \in Bags /\ objects[b] = None
    /\ objects' = [objects EXCEPT ![b] = Dir]
    /\ PutObject(b, Dir)
    /\ UNCHANGED acls

\* A container is a name in memory, and a file that only repeats the name.
ContainerPost(c) ==
    /\ Idle
    /\ c \in Containers /\ objects[c] = None
    /\ objects' = [objects EXCEPT ![c] = OwnBody]
    /\ PutObject(c, OwnBody)
    /\ UNCHANGED acls

\* The ACL entry of a container stays in memory.
ContainerDelete(x) ==
    /\ Idle
    /\ x \in Containers /\ objects[x] # None
    /\ objects' = [objects EXCEPT ![x] = None]
    /\ DeleteObject(x)
    /\ UNCHANGED acls

\* Bug: the items of a deleted bag are still served.
BagDeleteKeepingItems(b) ==
    /\ Idle
    /\ b \in Bags /\ objects[b] # None
    /\ objects' = [objects EXCEPT ![b] = None]
    /\ acls' = [acls EXCEPT ![b] = None]
    /\ DeleteObject(b)

BagDelete(b) ==
    /\ Idle
    /\ b \in Bags /\ objects[b] # None
    /\ objects' = [x \in Objects |-> IF x \in ItemsOf(b) \union {b} THEN None ELSE objects[x]]
    /\ acls' = [acls EXCEPT ![b] = None]
    /\ DeleteObject(b)

ItemPost(i, body) ==
    /\ Idle
    /\ i \in Items /\ objects[BagOf[i]] # None /\ objects[i] = None
    /\ objects' = [objects EXCEPT ![i] = body]
    /\ PutObject(i, body)
    /\ UNCHANGED acls

\* The body of an item PUT is stored as it came, JSON or not.
ItemPut(i, body) ==
    /\ Idle
    /\ i \in Items /\ objects[i] # None
    /\ objects' = [objects EXCEPT ![i] = body]
    /\ PutObject(i, body)
    /\ UNCHANGED acls

ItemDelete(i) ==
    /\ Idle
    /\ i \in Items /\ objects[i] # None
    /\ objects' = [objects EXCEPT ![i] = None]
    /\ DeleteObject(i)
    /\ UNCHANGED acls

\* Reading an ACL creates its entry; nothing is persisted.
GetACL(x) ==
    /\ Idle
    /\ objects[x] # None
    /\ acls' = [acls EXCEPT ![x] = Effective(@)]
    /\ NoStoreCall
    /\ UNCHANGED objects

PutPerm(x, perm, grant) ==
    /\ Idle
    /\ objects[x] # None
    /\ LET acl == [Effective(acls[x]) EXCEPT ![perm] = grant] IN
         /\ acls' = [acls EXCEPT ![x] = acl]
         /\ PutACL(x, acl)
    /\ UNCHANGED objects

-----------------------------------------------------------------------------
(* The process.                                                            *)

Persist ==
    /\ StoreStep
    /\ leftover' = leftover \ Head(todo).at
    /\ UNCHANGED memory

Fault ==
    /\ StoreFaultOn(Touched(todo), ACLPaths)
    /\ UNCHANGED <<memory, leftover>>

\* DeleteObject ignores that the ACL's file cannot be removed: the request is
\* answered 200.
ACLStays ==
    /\ StoreFaultIgnored(ACLPaths)
    /\ leftover' = leftover \union {p \in Head(todo).at : disk[p] # Absent}
    /\ UNCHANGED memory

\* An object that the process was changing, or had failed to change.
Unsettled(x) == {ObjectPath(x), ACLPath(x)} \intersect (stale \union Touched(todo)) # {}

\* A crash can leave the ACL of such an object without the object.
Crash ==
    /\ ProcessDies
    /\ objects' = [x \in Objects |-> None]
    /\ acls' = [x \in WithACL |-> None]
    /\ leftover' = leftover \union
          {ACLPath(x) : x \in {y \in WithACL : Unsettled(y) /\ LoadedObject(y)' = None}}

Start ==
    /\ ProcessStarts({ObjectPath(x) : x \in Objects \ Hidden}
                       \union {ACLPath(x) : x \in WithACL \ Hidden})
    /\ objects' = [x \in Objects |-> LoadedObject(x)]
    /\ acls' = [x \in WithACL |-> LoadedACL(x)]
    /\ UNCHANGED leftover

Request ==
    \/ \E x \in Crud, body \in Bodies : CrudPost(x, body) \/ CrudPut(x, body)
    \/ \E x \in Crud : CrudDelete(x)
    \/ \E c \in Containers : ContainerPost(c) \/ ContainerDelete(c)
    \/ \E b \in Bags : BagPost(b) \/ BagDelete(b)
    \/ \E i \in Items, body \in Bodies : ItemPost(i, body)
    \/ \E i \in Items, body \in Bodies \union Malformed : ItemPut(i, body)
    \/ \E i \in Items : ItemDelete(i)
    \/ \E x \in Guarded : GetACL(x)
    \/ \E x \in Guarded, perm \in Perms, grant \in Grants : PutPerm(x, perm, grant)

Next ==
    \/ Request /\ UNCHANGED leftover
    \/ Persist \/ Fault \/ ACLStays \/ Crash \/ Start

Spec == Init /\ [][Next]_vars
-----------------------------------------------------------------------------
(* Properties.                                                             *)

\* Objects whose file a start reads back as it is.  newOrg creates a built-in
\* container again whether it was deleted or not, and dot names are skipped.
Kept == Objects \ (BuiltIn \union Hidden)

\* docs/serve.md: "every change a client makes is written back into the
\* directory immediately".  Between requests, a start from the directory would
\* serve every object the running server serves, with the same body, and no
\* other; only a change that was answered with an error may be missing.
ObjectsAreOnDisk ==
    Idle => \A x \in Kept : ObjectPath(x) \notin stale => LoadedObject(x) = objects[x]

\* The same of the ACLs, the entries that a GET creates in memory included,
\* and no start finds the ACL of an object that is gone ("The ACL file goes
\* with the object", store.go:51).  Excepted are the two ways in which the
\* code leaves such a file behind, both in leftover: the error of its removal
\* is ignored and the DELETE answered 200, or the process dies after the
\* object's file and before the ACL's.  Containers are left out: their
\* deletion keeps the entry in memory.
ACLsAreOnDisk ==
    Idle => \A x \in (WithACL \intersect Kept) \ Containers :
               ACLPath(x) \notin stale \union leftover =>
                  /\ Effective(LoadedACL(x)) = Effective(acls[x])
                  /\ objects[x] = None => LoadedACL(x) = None

\* A data bag item is never stored, nor reloaded, without its data bag.
ItemsHaveBags ==
    /\ \A i \in Items : objects[i] # None => objects[BagOf[i]] # None
    /\ \A i \in Items : disk[ObjectPath(i)] # Absent => disk[ObjectPath(BagOf[i])] # Absent

-----------------------------------------------------------------------------
(* The organisation implements the map docs/serve.md promises.             *)

Served == [x \in Kept |-> objects[x]]
OnFile == [x \in Kept |-> LoadedObject(x)]
Owed == {x \in Kept : ObjectPath(x) \in stale}

\* What the handler has still to write of each object.
Changed == {x \in Kept : ObjectPath(x) \in Touched(todo)}
Coming(x) == LET i == CHOOSE j \in DOMAIN todo : ObjectPath(x) \in todo[j].at
             IN todo[i].holds
Pending == [x \in Changed |-> IF Coming(x) = Absent THEN None ELSE Coming(x)]

Promise == INSTANCE DurableMap WITH
    Keys    <- Kept,
    Values  <- Stored,
    Nothing <- None,
    Ruined  <- Torn,
    view    <- Served,
    store   <- OnFile,
    pending <- Pending,
    owed    <- Owed,
    serving <- up

ImplementsMap == Promise!Spec
=============================================================================
