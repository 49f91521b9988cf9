-------------------------------- MODULE Keys --------------------------------
(***************************************************************************)
(* The public keys that requests are verified with, from the start that    *)
(* makes the first of them to the restart that reads them back: serve.Run, *)
(* the handlers of internal/chefserver that change keys, authenticate, and *)
(* the store calls behind them.  The keys of one user or client are kept   *)
(* in two files, the default key in its body and, when there is another    *)
(* key, all of them in a sidecar; a user's ACL is a third file.  Of the    *)
(* bodies only the key is modelled.  Groups and members are those of       *)
(* OrgMembers, the ACLs of clients those of OrgObjects.  There is one      *)
(* organisation, no client is called like a user, and all names are fit    *)
(* for a file.                                                             *)
(***************************************************************************)
EXTENDS DirStore

CONSTANTS
    Users, Clients,
    Pivotal,        \* the superuser
    Validator,      \* the client that comes with the organisation
    Names, Default, \* names of keys
    CallerKeys,     \* keys that callers bring, or are given in an answer
    StartKeys,      \* bound: the keys that starts may generate
    Unparsable,     \* the keys that are no public key in PEM form
    NoKey, None,
    DefaultACL, OtherACL,
    WithOrg, WithTLS, \* options of serve.Run, the same for every start
    MayFail,        \* bound: the paths that I/O errors may strike
    Managed,        \* bound: whose keys are added, changed and deleted by name
    Guarded,        \* bound: the users whose ACLs are read and written
    Intact          \* content of a file of which only that is of interest

Actors == Users \union Clients
Keys == CallerKeys \union StartKeys
KeySets == [Names -> Keys \union {NoKey}]

ASSUME KeysAssumption ==
    /\ Pivotal \in Users /\ Validator \in Clients /\ Users \intersect Clients = {}
    /\ Default \in Names
    /\ CallerKeys \intersect StartKeys = {} /\ Unparsable \subseteq CallerKeys
    /\ Managed \subseteq Actors /\ Guarded \subseteq Users
    /\ WithOrg \in BOOLEAN /\ WithTLS \in BOOLEAN
    /\ NoKey \notin Keys /\ DefaultACL # OtherACL
    /\ {Absent, Torn, Dir, None} \intersect
          (Keys \union {NoKey, DefaultACL, OtherACL, Intact} \union KeySets) = {}

Body(a) == <<"body", a>>
Sidecar(a) == <<"keys", a>>
ACLPath(u) == <<"acl", u>>
OrgDir == <<"org">>
PivotalPem == <<"pivotal.pem">>
ValidatorPem == <<"validator.pem">>
Crt == <<"tls.crt">>
CrtKey == <<"tls.key">>
OrgFiles == {Body(c) : c \in Clients} \union {Sidecar(c) : c \in Clients}
Paths == {Body(a) : a \in Actors} \union {Sidecar(a) : a \in Actors}
            \union {ACLPath(u) : u \in Users}
            \union {OrgDir, PivotalPem, ValidatorPem, Crt, CrtKey}

VARIABLES
    keys,        \* user or client -> its keys by name, or None
    acl,         \* user -> ACL, None before anybody has asked for it
    org,         \* is there the organisation
    doing,       \* "serving", or what the process does besides requests
    before       \* history: keys before the request that is being handled

memory == <<keys, acl, org>>
vars == <<memory, doing, before, storeVars>>

NoKeys == [n \in Names |-> NoKey]
Set(ks) == {n \in Names : ks[n] # NoKey}

-----------------------------------------------------------------------------
(* The files of one user or client, and what a start makes of them.        *)

\* A user always has a default key for keysOf, if need be the empty one.
Plain(a, ks) == Set(ks) = {Default} \/ (a \in Clients /\ Set(ks) = {})

\* Bug: the sidecar stays when only the default key is left.
PutKeysKeeping(a, ks) == IF Plain(a, ks) THEN <<>> ELSE <<Write(Sidecar(a), ks)>>

\* Bug: the old sidecar is removed before the new one is written.
PutKeysAfresh(a, ks) ==
    IF Plain(a, ks) THEN <<RemoveFile(Sidecar(a))>>
                    ELSE <<RemoveFile(Sidecar(a)), Write(Sidecar(a), ks)>>

PutKeys(a, ks) ==
    IF Plain(a, ks) THEN <<RemoveFile(Sidecar(a))>> ELSE <<Write(Sidecar(a), ks)>>

PutUser(u, ks, list) ==
    <<Write(Body(u), ks[Default])>>
       \o IF list = None THEN <<>> ELSE <<Write(ACLPath(u), list)>>

PersistUser(u, ks, list) == PutUser(u, ks, list) \o PutKeys(u, ks)
PersistClient(c, ks) == <<Write(Body(c), ks[Default])>> \o PutKeys(c, ks)

DeleteUser(u) == <<RemoveFile(ACLPath(u)), RemoveFile(Body(u))>>

\* Bug: users and clients without a body are found all the same.
KeysInUnlisted(d, a) ==
    IF d[Sidecar(a)] \in {Absent, Torn} THEN [NoKeys EXCEPT ![Default] = d[Body(a)]]
    ELSE d[Sidecar(a)]

\* A sidecar that is not JSON is passed over; one that is replaces the key
\* of the body.
KeysIn(d, a) ==
    IF d[Body(a)] = Absent THEN None
    ELSE IF d[Sidecar(a)] \in {Absent, Torn} THEN [NoKeys EXCEPT ![Default] = d[Body(a)]]
    ELSE d[Sidecar(a)]

\* WriteJSON makes the directories above a file, the organisation's too.
OrgIn(d) == \E p \in OrgFiles \union {OrgDir} : d[p] # Absent

ACLIn(d, u) ==
    IF d[Body(u)] = Absent \/ d[ACLPath(u)] \in {Absent, Torn} THEN None ELSE d[ACLPath(u)]

-----------------------------------------------------------------------------
(* Who may call.  publicKeyFor takes a user's default key if it parses,    *)
(* else any of the others that does, in the random order of a Go map; of   *)
(* a client's keys any that parses.                                        *)

Parsing(a) == {keys[a][n] : n \in Names} \ (Unparsable \union {NoKey})

Verifiers(a) ==
    IF keys[a] = None THEN {}
    ELSE IF a \in Users /\ keys[a][Default] \in Parsing(a) THEN {keys[a][Default]}
    ELSE Parsing(a)

Serving == Idle /\ doing = "serving"
BySuperuser == Serving /\ Verifiers(Pivotal) # {}
ByAnyone == Serving /\ \E a \in Actors : Verifiers(a) # {}

TypeOK ==
    /\ keys \in [Actors -> KeySets \union {None}]
    /\ acl \in [Users -> {DefaultACL, OtherACL, None}]
    /\ org \in BOOLEAN
    /\ doing \in {"serving", "newOrg", "starting"}
    /\ before \in [Actors -> KeySets \union {None}]
    /\ disk \in [Paths -> KeySets \union Keys
                    \union {NoKey, Absent, Torn, Dir, DefaultACL, OtherACL, Intact}]
    /\ todo \in Seq([at : SUBSET Paths,
                     holds : KeySets \union Keys
                        \union {NoKey, Absent, Dir, DefaultACL, OtherACL, Intact}])
    /\ up \in BOOLEAN
    /\ stale \subseteq Paths

\* An empty directory, before the first start.
Init ==
    /\ disk = [p \in Paths |-> Absent]
    /\ todo = <<>> /\ up = FALSE /\ stale = {}
    /\ keys = [a \in Actors |-> None] /\ before = keys
    /\ acl = [u \in Users |-> None] /\ org = FALSE
    /\ doing = "serving"

-----------------------------------------------------------------------------
(* The start.                                                              *)

\* What an actor's files hold is not what is generated for it next.
Fresh(a) == {k \in StartKeys :
    /\ disk[Body(a)] # k
    /\ disk[Sidecar(a)] \in KeySets => \A n \in Names : disk[Sidecar(a)][n] # k}
Just(k) == [NoKeys EXCEPT ![Default] = k]

\* Files of an actor deleted earlier that its successor does not look at.
Leftover(S) == {p \in S : disk[p] # Absent}

GeneratePivotal(k) == PutUser(Pivotal, Just(k), None) \o <<Write(PivotalPem, k)>>

CreateOrg(k) == <<Write(OrgDir, Dir), Write(Body(Validator), k), Write(ValidatorPem, k)>>

MakeCert == IF disk[Crt] = Absent THEN <<Write(Crt, Intact), Write(CrtKey, Intact)>> ELSE <<>>

\* One goroutine and no request yet.  A client's body that is not JSON is
\* an error, a user's is a panic.
Start(k, l) ==
    LET loaded == [a \in Actors |-> KeysIn(disk, a)]
        generate == loaded[Pivotal] = None
        create == WithOrg /\ ~OrgIn(disk)
    IN  /\ ~up
        /\ Loadable({Body(a) : a \in Actors})
        /\ (generate => k \in Fresh(Pivotal)) /\ (create => l \in Fresh(Validator))
        /\ up' = TRUE
        /\ doing' = "starting"
        /\ org' = (create \/ OrgIn(disk))
        /\ keys' = [a \in Actors |->
              IF a = Pivotal /\ generate THEN Just(k)
              ELSE IF a = Validator /\ create THEN Just(l) ELSE loaded[a]]
        /\ before' = loaded
        /\ acl' = [u \in Users |-> ACLIn(disk, u)]
        /\ stale' = IF generate THEN Leftover({Sidecar(Pivotal), ACLPath(Pivotal)}) ELSE {}
        /\ todo' = (IF generate THEN GeneratePivotal(k) ELSE <<>>)
                      \o (IF create THEN CreateOrg(l) ELSE <<>>)
                      \o (IF WithTLS THEN MakeCert ELSE <<>>)
        /\ UNCHANGED disk

\* LoadX509KeyPair wants both files; without them Run returns (Crash).
Listen ==
    /\ Idle
    /\ doing = "starting"
    /\ WithTLS => disk[Crt] = Intact /\ disk[CrtKey] = Intact
    /\ doing' = "serving"
    /\ UNCHANGED <<memory, before, storeVars>>

-----------------------------------------------------------------------------
(* Requests.                                                               *)

SetKeysOf(a, ks, ops) ==
    /\ keys' = [keys EXCEPT ![a] = ks]
    /\ before' = keys
    /\ StoreCall(Body(a), ops, TRUE)

\* A user may come without a key.
UserPost(u, k) ==
    /\ BySuperuser
    /\ keys[u] = None
    /\ keys' = [keys EXCEPT ![u] = Just(k)] /\ acl' = [acl EXCEPT ![u] = None]
    /\ before' = keys
    /\ todo' = PersistUser(u, Just(k), None)
    /\ stale' = stale \union Leftover({ACLPath(u)})
    /\ UNCHANGED <<org, doing, disk, up>>

\* Only version 0 of the API takes a key; k = NoKey stands for the rest.
UserPut(u, k) ==
    /\ keys[u] # None
    /\ Serving /\ Verifiers(Pivotal) \union Verifiers(u) # {}
    /\ LET ks == IF k = NoKey THEN keys[u] ELSE [keys[u] EXCEPT ![Default] = k]
       IN  SetKeysOf(u, ks, PersistUser(u, ks, acl[u]))
    /\ UNCHANGED <<acl, org, doing>>

UserDelete(u) ==
    /\ BySuperuser
    /\ keys[u] # None
    /\ SetKeysOf(u, None, DeleteUser(u))
    /\ acl' = [acl EXCEPT ![u] = None]
    /\ UNCHANGED <<org, doing>>

UserGetACL(u) ==
    /\ ByAnyone
    /\ keys[u] # None /\ acl[u] = None
    /\ acl' = [acl EXCEPT ![u] = DefaultACL]
    /\ NoStoreCall
    /\ UNCHANGED <<keys, org, doing, before>>

UserPutACL(u, list) ==
    /\ ByAnyone
    /\ keys[u] # None
    /\ acl' = [acl EXCEPT ![u] = list]
    /\ SetKeysOf(u, keys[u], PersistUser(u, keys[u], list))
    /\ UNCHANGED <<org, doing>>

ClientPost(c, k) ==
    /\ ByAnyone /\ org
    /\ keys[c] = None
    /\ SetKeysOf(c, Just(k), PersistClient(c, Just(k)))
    /\ UNCHANGED <<acl, org, doing>>

ClientPut(c, k) ==
    /\ ByAnyone
    /\ keys[c] # None
    /\ LET ks == IF k = NoKey THEN keys[c] ELSE [keys[c] EXCEPT ![Default] = k]
       IN  SetKeysOf(c, ks, PersistClient(c, ks))
    /\ UNCHANGED <<acl, org, doing>>

\* DeleteObject removes the body and leaves the sidecar.
ClientDelete(c) ==
    /\ ByAnyone
    /\ keys[c] # None
    /\ SetKeysOf(c, None, <<RemoveFile(Body(c))>>)
    /\ UNCHANGED <<acl, org, doing>>

Save(a, ks) ==
    SetKeysOf(a, ks, IF a \in Users THEN PersistUser(a, ks, acl[a]) ELSE PersistClient(a, ks))

\* routeKeys.  A user has a key called default even when it is empty.
Has(a, n) == keys[a][n] # NoKey \/ (a \in Users /\ n = Default)

KeyPost(a, n, k) ==
    /\ ByAnyone
    /\ keys[a] # None
    /\ ~Has(a, n)
    /\ Save(a, [keys[a] EXCEPT ![n] = k])
    /\ UNCHANGED <<acl, org, doing>>

KeyPut(a, n, k) ==
    /\ ByAnyone
    /\ keys[a] # None
    /\ Has(a, n)
    /\ Save(a, [keys[a] EXCEPT ![n] = IF k = NoKey THEN @ ELSE k])
    /\ UNCHANGED <<acl, org, doing>>

KeyDelete(a, n) ==
    /\ ByAnyone
    /\ keys[a] # None
    /\ Has(a, n)
    /\ Save(a, [keys[a] EXCEPT ![n] = NoKey])
    /\ UNCHANGED <<acl, org, doing>>

\* The organisation is saved first; its validator is a second step.
OrgPost ==
    /\ BySuperuser
    /\ ~org
    /\ org' = TRUE
    /\ doing' = "newOrg"
    /\ before' = keys
    /\ StoreCall(OrgDir, <<Write(OrgDir, Dir)>>, TRUE)
    /\ UNCHANGED <<keys, acl>>

CreateValidator(k) ==
    /\ Idle /\ doing = "newOrg"
    /\ doing' = "serving"
    /\ SetKeysOf(Validator, Just(k), PersistClient(Validator, Just(k)))
    /\ UNCHANGED <<acl, org>>

OrgDelete ==
    /\ BySuperuser
    /\ org
    /\ org' = FALSE
    /\ keys' = [a \in Actors |-> IF a \in Clients THEN None ELSE keys[a]]
    /\ before' = keys
    /\ StoreCall(OrgDir, <<RemoveAll(OrgFiles), RemoveFile(OrgDir)>>, TRUE)
    /\ UNCHANGED <<acl, doing>>

Request ==
    \/ \E u \in Users, k \in CallerKeys \union {NoKey} : UserPost(u, k) \/ UserPut(u, k)
    \/ \E u \in Users : UserDelete(u)
    \/ \E u \in Guarded : UserGetACL(u) \/ UserPutACL(u, OtherACL)
    \/ \E c \in Clients, k \in CallerKeys \union {NoKey} : ClientPost(c, k) \/ ClientPut(c, k)
    \/ \E c \in Clients : ClientDelete(c)
    \/ \E a \in Managed, n \in Names, k \in CallerKeys : KeyPost(a, n, k)
    \/ \E a \in Managed, n \in Names, k \in CallerKeys \union {NoKey} : KeyPut(a, n, k)
    \/ \E a \in Managed, n \in Names : KeyDelete(a, n)
    \/ OrgPost \/ OrgDelete

-----------------------------------------------------------------------------
(* The store and the process.                                              *)

Persist ==
    /\ StoreStep
    /\ before' = IF todo' = <<>> THEN keys ELSE before
    /\ UNCHANGED <<memory, doing>>

\* During a start an error ends the process (Crash).
Fault ==
    /\ doing \in {"serving", "newOrg"}
    /\ todo # <<>> /\ Head(todo).at \subseteq MayFail
    /\ StoreFaultOn(Touched(todo), {ACLPath(u) : u \in Users})
    /\ doing' = "serving"
    /\ UNCHANGED <<memory, before>>

\* DeleteUser does not mind when the ACL's file cannot be removed.
ACLStays(u) ==
    /\ up /\ todo # <<>> /\ Head(todo) = RemoveFile(ACLPath(u))
    /\ ACLPath(u) \in MayFail
    /\ Cardinality(stale) < MaxStale
    /\ todo' = Tail(todo)
    /\ stale' = stale \union {ACLPath(u)}
    /\ UNCHANGED <<disk, up, memory, doing, before>>

Crash ==
    /\ ProcessDies
    /\ keys' = [a \in Actors |-> None] /\ before' = keys'
    /\ acl' = [u \in Users |-> None] /\ org' = FALSE
    /\ doing' = "serving"

Next ==
    \/ Request
    \/ \E k \in CallerKeys : CreateValidator(k)
    \/ \E k, l \in StartKeys : Start(k, l)
    \/ Listen \/ Persist \/ Fault \/ Crash
    \/ \E u \in Users : ACLStays(u)

Spec == Init /\ [][Next]_vars

-----------------------------------------------------------------------------
(* Properties.                                                             *)

InStep(a) == {Body(a), Sidecar(a)} \intersect stale = {}

\* Between requests a restart finds the keys that are in memory, of body and
\* sidecar together, and the ACLs of the users.  Excepted are changes that
\* were answered with an error, and files that outlived a deleted actor.
KeysAreOnDisk ==
    Idle =>
      /\ \A a \in Actors : InStep(a) => keys[a] = KeysIn(disk, a)
      /\ \A u \in Users : keys[u] # None /\ {Body(u), ACLPath(u)} \intersect stale = {} =>
            acl[u] = ACLIn(disk, u) \/ (acl[u] = DefaultACL /\ ACLIn(disk, u) = None)

\* A crash in the middle of a change leaves each user and client that was
\* there, and still is, with the keys before or after the change.  When the
\* sidecar itself is cut short, its default key survives, the others do not.
CrashKeepsKeys ==
    [][Crash =>
         \A a \in Actors :
            LET found == KeysIn(disk', a)
                whole == {before[a], keys[a]}
            IN  InStep(a) /\ None \notin whole /\ disk'[Body(a)] # Torn =>
                  IF disk'[Sidecar(a)] = Torn
                    THEN found[Default] \in {ks[Default] : ks \in whole}
                    ELSE found \in whole]_vars

=============================================================================
