----------------------------- MODULE OrgMembers -----------------------------
(***************************************************************************)
(* Who may do what on a served organisation: the server's users, the       *)
(* organisation's members, invitations, clients and groups.  The handlers  *)
(* are routeUsers, routeMembers, routeClients and routeGroups of           *)
(* internal/chefserver/routes.go.  They differ from those of OrgObjects in *)
(* that one request changes several records: deleting a client or a member *)
(* also takes it out of the groups that hold it.  Bodies, keys and ACLs    *)
(* of users and clients are left out: a file says only that they exist.    *)
(***************************************************************************)
EXTENDS DirStore

CONSTANTS
    Users,
    Clients,
    Groups,
    BuiltInGroups,  \* the groups newOrg creates
    ClientsGroup,   \* the group called clients
    AdminsGroup,    \* the group called admins
    Nested,         \* bound: the groups that clients nest in others
    Pivotal,        \* the superuser, accepted as a group member unseen
    Ids,            \* invitation ids
    File,           \* content of a user's or client's file
    None

Membership == [users : SUBSET Users, clients : SUBSET Clients, groups : SUBSET Nested]
Empty == [users |-> {}, clients |-> {}, groups |-> {}]

ASSUME MembersAssumption ==
    /\ {ClientsGroup, AdminsGroup} \subseteq BuiltInGroups
    /\ BuiltInGroups \subseteq Groups
    /\ ClientsGroup # AdminsGroup
    /\ Nested \subseteq Groups
    /\ Pivotal \in Users
    /\ None \notin Users /\ {None, Absent, Torn} \intersect (Membership \union {File}) = {}
    /\ File \notin Membership

UserPath(u) == <<"user", u>>
ClientPath(c) == <<"client", c>>
GroupPath(g) == <<"group", g>>
MembersPath == <<"members">>
Paths == {UserPath(u) : u \in Users} \union {ClientPath(c) : c \in Clients}
            \union {GroupPath(g) : g \in Groups} \union {MembersPath}

VARIABLES
    users,        \* users the server knows
    clients,      \* clients of the organisation
    groups,       \* group -> membership, or None
    members,      \* users associated with the organisation
    invitations   \* invitation id -> invited user, or None

memory == <<users, clients, groups, members, invitations>>
vars == <<memory, storeVars>>

-----------------------------------------------------------------------------
NewGroup(g) ==
    IF g = AdminsGroup THEN [Empty EXCEPT !.users = {Pivotal}]
    ELSE IF g \in BuiltInGroups THEN Empty ELSE None

\* What a start finds.  members.json is read for what it is worth: a file
\* that is not JSON counts as no members.
LoadedUsers == {u \in Users : disk[UserPath(u)] # Absent}
LoadedClients == {c \in Clients : disk[ClientPath(c)] # Absent}
\* Bug: the groups newOrg creates are forgotten.
LoadedGroupUnlisted(g) == disk[GroupPath(g)]
LoadedGroup(g) == IF disk[GroupPath(g)] = Absent THEN NewGroup(g) ELSE disk[GroupPath(g)]
LoadedMembers == IF disk[MembersPath] \in {Absent, Torn} THEN {} ELSE disk[MembersPath].users

TypeOK ==
    /\ users \subseteq Users /\ clients \subseteq Clients /\ members \subseteq Users
    /\ groups \in [Groups -> Membership \union {None}]
    /\ invitations \in [Ids -> Users \union {None}]
    /\ disk \in [Paths -> Membership \union {File, Absent, Torn}]
    /\ todo \in Seq([at : SUBSET Paths, holds : Membership \union {File, Absent}])
    /\ up \in BOOLEAN
    /\ stale \subseteq Paths

\* A directory served for the first time: serve.Run has written pivotal.
Init ==
    /\ disk = [p \in Paths |-> IF p = UserPath(Pivotal) THEN File ELSE Absent]
    /\ todo = <<>> /\ up = TRUE /\ stale = {}
    /\ users = {Pivotal} /\ clients = {} /\ members = {}
    /\ groups = [g \in Groups |-> NewGroup(g)]
    /\ invitations = [id \in Ids |-> None]

-----------------------------------------------------------------------------
(* Store calls.                                                            *)

PersistOrg(list) == <<Write(MembersPath, [Empty EXCEPT !.users = list])>>
PersistGroup(g, membership) == <<Write(GroupPath(g), membership)>>

StripUser(u) == [g \in Groups |->
    IF groups[g] = None THEN None ELSE [groups[g] EXCEPT !.users = @ \ {u}]]
StripClient(c) == [g \in Groups |->
    IF groups[g] = None THEN None ELSE [groups[g] EXCEPT !.clients = @ \ {c}]]

-----------------------------------------------------------------------------
(* /users and /organizations/ORG/users.                                    *)

UserPost(u) ==
    /\ Idle
    /\ u \notin users
    /\ users' = users \union {u}
    /\ StoreCall(UserPath(u), <<Write(UserPath(u), File)>>, TRUE)
    /\ UNCHANGED <<clients, groups, members, invitations>>

\* Members, groups and invitations keep the name of a deleted user.
UserDelete(u) ==
    /\ Idle
    /\ u \in users
    /\ users' = users \ {u}
    /\ StoreCall(UserPath(u), <<RemoveFile(UserPath(u))>>, TRUE)
    /\ UNCHANGED <<clients, groups, members, invitations>>

MemberPost(u) ==
    /\ Idle
    /\ u \in users \ members
    /\ members' = members \union {u}
    /\ StoreCall(MembersPath, PersistOrg(members'), TRUE)
    /\ UNCHANGED <<users, clients, groups, invitations>>

MemberDelete(u) ==
    /\ Idle
    /\ u \in members
    /\ members' = members \ {u}
    /\ groups' = StripUser(u)
    /\ StoreCall(MembersPath, PersistOrg(members'), TRUE)
    /\ UNCHANGED <<users, clients, invitations>>

\* Invitations live in memory only.
Invite(id, u) ==
    /\ Idle
    /\ u \in users /\ invitations[id] = None
    /\ invitations' = [invitations EXCEPT ![id] = u]
    /\ NoStoreCall
    /\ UNCHANGED <<users, clients, groups, members>>

CancelInvitation(id) ==
    /\ Idle
    /\ invitations[id] # None
    /\ invitations' = [invitations EXCEPT ![id] = None]
    /\ NoStoreCall
    /\ UNCHANGED <<users, clients, groups, members>>

\* Bug: an accepted invitation is not persisted.
AnswerInvitationUnsaved(id, accept) ==
    /\ Idle
    /\ invitations[id] \in users
    /\ invitations' = [invitations EXCEPT ![id] = None]
    /\ members' = IF accept THEN members \union {invitations[id]} ELSE members
    /\ NoStoreCall
    /\ UNCHANGED <<users, clients, groups>>

AnswerInvitation(id, accept) ==
    /\ Idle
    /\ invitations[id] \in users
    /\ invitations' = [invitations EXCEPT ![id] = None]
    /\ IF accept
         THEN /\ members' = members \union {invitations[id]}
              /\ StoreCall(MembersPath, PersistOrg(members'), TRUE)
         ELSE NoStoreCall /\ UNCHANGED members
    /\ UNCHANGED <<users, clients, groups>>

-----------------------------------------------------------------------------
(* /organizations/ORG/clients and /groups.                                 *)

\* Bug: the group a new client joins is not persisted.
ClientPostGroupUnsaved(c) ==
    /\ Idle
    /\ c \notin clients /\ groups[ClientsGroup] # None
    /\ clients' = clients \union {c}
    /\ groups' = [groups EXCEPT ![ClientsGroup].clients = @ \union {c}]
    /\ StoreCall(ClientPath(c), <<Write(ClientPath(c), File)>>, TRUE)
    /\ UNCHANGED <<users, members, invitations>>

\* Every client joins the group clients.  Without that group the handler
\* panics after it has changed memory, before its first store call.
ClientPost(c) ==
    /\ Idle
    /\ c \notin clients
    /\ clients' = clients \union {c}
    /\ IF groups[ClientsGroup] = None
         THEN /\ StoreCall(ClientPath(c), <<>>, FALSE)
              /\ UNCHANGED groups
         ELSE /\ groups' = [groups EXCEPT ![ClientsGroup].clients = @ \union {c}]
              /\ StoreCall(ClientPath(c),
                           <<Write(ClientPath(c), File)>>
                              \o PersistGroup(ClientsGroup, groups'[ClientsGroup]), TRUE)
    /\ UNCHANGED <<users, members, invitations>>

\* The client leaves every group in memory; of the groups only clients is
\* persisted, and nothing is when there is no such group.
ClientDelete(c) ==
    /\ Idle
    /\ c \in clients
    /\ clients' = clients \ {c}
    /\ groups' = StripClient(c)
    /\ StoreCall(ClientPath(c),
                 <<RemoveFile(ClientPath(c))>>
                    \o IF groups[ClientsGroup] = None THEN <<>>
                       ELSE PersistGroup(ClientsGroup, groups'[ClientsGroup]), TRUE)
    /\ UNCHANGED <<users, members, invitations>>

GroupPost(g) ==
    /\ Idle
    /\ groups[g] = None
    /\ groups' = [groups EXCEPT ![g] = Empty]
    /\ StoreCall(GroupPath(g), PersistGroup(g, Empty), TRUE)
    /\ UNCHANGED <<users, clients, members, invitations>>

\* Whoever is put into a group has to exist.
GroupPut(g, membership) ==
    /\ Idle
    /\ groups[g] # None
    /\ membership.users \subseteq users \union {Pivotal}
    /\ membership.clients \subseteq clients
    /\ \A sub \in membership.groups : groups[sub] # None
    /\ groups' = [groups EXCEPT ![g] = membership]
    /\ StoreCall(GroupPath(g), PersistGroup(g, membership), TRUE)
    /\ UNCHANGED <<users, clients, members, invitations>>

\* Nothing protects the built-in groups, and nested references stay.
GroupDelete(g) ==
    /\ Idle
    /\ groups[g] # None
    /\ groups' = [groups EXCEPT ![g] = None]
    /\ StoreCall(GroupPath(g), <<RemoveFile(GroupPath(g))>>, TRUE)
    /\ UNCHANGED <<users, clients, members, invitations>>

-----------------------------------------------------------------------------
Persist == StoreStep /\ UNCHANGED memory
Fault == StoreFault /\ UNCHANGED memory

Crash ==
    /\ ProcessDies
    /\ users' = {} /\ clients' = {} /\ members' = {}
    /\ groups' = [g \in Groups |-> None]
    /\ invitations' = [id \in Ids |-> None]

\* serve.Run makes a new pivotal when there is none in the directory.
Start ==
    /\ ~up
    /\ Loadable(Paths \ {MembersPath})
    /\ up' = TRUE
    /\ users' = LoadedUsers \union {Pivotal}
    /\ disk' = [disk EXCEPT ![UserPath(Pivotal)] = File]
    /\ clients' = LoadedClients /\ members' = LoadedMembers
    /\ groups' = [g \in Groups |-> LoadedGroup(g)]
    /\ UNCHANGED <<invitations, todo, stale>>

Request ==
    \/ \E u \in Users : UserPost(u) \/ UserDelete(u) \/ MemberPost(u) \/ MemberDelete(u)
    \/ \E id \in Ids, u \in Users : Invite(id, u)
    \/ \E id \in Ids : CancelInvitation(id)
    \/ \E id \in Ids, accept \in BOOLEAN : AnswerInvitation(id, accept)
    \/ \E c \in Clients : ClientPost(c) \/ ClientDelete(c)
    \/ \E g \in Groups : GroupPost(g) \/ GroupDelete(g)
    \/ \E g \in Groups, membership \in Membership : GroupPut(g, membership)

Next == Request \/ Persist \/ Fault \/ Crash \/ Start

Spec == Init /\ [][Next]_vars
-----------------------------------------------------------------------------
(* Properties.                                                             *)

\* Between requests a restart finds the same users, clients and members,
\* those of a change that was answered with an error apart.
PrincipalsAreOnDisk ==
    Idle =>
      /\ \A u \in Users : UserPath(u) \notin stale => (u \in users <=> u \in LoadedUsers)
      /\ \A c \in Clients : ClientPath(c) \notin stale => (c \in clients <=> c \in LoadedClients)
      /\ MembersPath \notin stale => members = LoadedMembers

Within(a, b) ==
    /\ a.users \subseteq b.users
    /\ a.clients \subseteq b.clients
    /\ a.groups \subseteq b.groups

\* A restart takes nobody out of a group: what a group holds in memory, its
\* file holds too.
RestartDropsNobody ==
    Idle => \A g \in Groups : GroupPath(g) \notin stale /\ groups[g] # None =>
               LoadedGroup(g) # None /\ Within(groups[g], LoadedGroup(g))

\* docs/serve.md: the directory is "always a valid backup of what is being
\* served".  Nobody is in a group after a restart who was not in it before,
\* groups that were never written apart.
RestartAddsNobody ==
    Idle => \A g \in Groups : GroupPath(g) \notin stale /\ groups[g] # None
                               /\ disk[GroupPath(g)] # Absent =>
               Within(LoadedGroup(g), groups[g])
=============================================================================
