-------------------------- MODULE Transfer_proofs ---------------------------
(***************************************************************************)
(* What a transfer does to the destination, for every plan, destination,   *)
(* number of workers and of lost, repeated and refused requests: that the  *)
(* variables have their types, that nothing but the purge makes an object  *)
(* disappear, that the objects of others are left alone by a transfer that *)
(* does not overwrite, that what is reported as written is there, and that *)
(* what fails in a run without faults fails for a reason.                  *)
(***************************************************************************)
EXTENDS Transfer, SequenceTheorems, FiniteSetTheorems, TLAPS

Groups == {p \in Principals : p[1] = "group"}
Whose == {"absent", "ours", "theirs"}
Keyed == DOMAIN SourceKeys

Servers ==
    [body : [Objects -> Whose], keys : [Keyed -> [KeyNames -> Whose]],
     members : [Groups -> SUBSET Principals], assigned : [DOMAIN Assigned -> SUBSET Objects],
     acl : [ACLObjects -> [ToSet(Perms) -> SUBSET Principals]], users : SUBSET Users]

\* The requests that a job can send.
KeyReqs(o) ==
    {With("put_key", o, n) : n \in KeyNames} \union {With("post_key", o, n) : n \in KeyNames}
ACLReqs(o) == {With("acl", o, <<p, who>>) : p \in ToSet(Perms), who \in SUBSET Principals}
MemberReqs(o) == {With("members", o, who) : who \in SUBSET Principals}
AssignReqs(o) == {Req("get", p) : p \in Objects} \union {With("assign", o, p) : p \in Assigned[o]}
\* The requests that give an ACL these principals.
Give(o, who) == {q \in ACLReqs(o) : q.arg[2] = who}

-----------------------------------------------------------------------------
(* The destination.                                                        *)

LEMMA ServerIs ==
  ASSUME NEW s \in Servers
  PROVE  /\ s.body \in [Objects -> Whose] /\ s.keys \in [Keyed -> [KeyNames -> Whose]]
         /\ s.members \in [Groups -> SUBSET Principals]
         /\ s.assigned \in [DOMAIN Assigned -> SUBSET Objects]
         /\ s.acl \in [ACLObjects -> [ToSet(Perms) -> SUBSET Principals]]
         /\ s.users \in SUBSET Users
  BY DEF Servers

LEMMA CreatedIs ==
  ASSUME NEW s \in Servers, NEW o \in Objects
  PROVE  /\ Created(s, o) \in Servers
         /\ Created(s, o).body = [s.body EXCEPT ![o] = "ours"]
         /\ Created(s, o).keys = s.keys /\ Created(s, o).members = s.members
         /\ Created(s, o).assigned = s.assigned /\ Created(s, o).acl = s.acl
         /\ Created(s, o).users = s.users
  BY DEF Created, Servers, Whose

LEMMA RemovedIs ==
  ASSUME NEW s \in Servers, NEW gone
  PROVE  /\ Removed(s, gone) \in Servers
         /\ \A o \in Objects :
               Removed(s, gone).body[o] = IF o \in gone THEN "absent" ELSE s.body[o]
         /\ \A a \in Keyed : Removed(s, gone).keys[a] = IF a \in gone THEN NoKeys ELSE s.keys[a]
         /\ \A g \in Groups : Removed(s, gone).members[g] = IF g \in gone THEN {} ELSE s.members[g]
         /\ \A g \in DOMAIN Assigned :
               Removed(s, gone).assigned[g] = IF g \in gone THEN {} ELSE s.assigned[g]
         /\ Removed(s, gone).acl = s.acl /\ Removed(s, gone).users = s.users
<1>1. NoKeys \in [KeyNames -> Whose]
  BY DEF NoKeys, Whose
<1> DEFINE b == [o \in Objects |-> IF o \in gone THEN "absent" ELSE s.body[o]]
           k == [a \in Keyed |-> IF a \in gone THEN NoKeys ELSE s.keys[a]]
           m == [g \in Groups |-> IF g \in gone THEN {} ELSE s.members[g]]
           c == [g \in DOMAIN Assigned |-> IF g \in gone THEN {} ELSE s.assigned[g]]
<1>2. b \in [Objects -> Whose] /\ k \in [Keyed -> [KeyNames -> Whose]]
      /\ m \in [Groups -> SUBSET Principals] /\ c \in [DOMAIN Assigned -> SUBSET Objects]
  BY <1>1, ServerIs DEF Whose
<1>3. DOMAIN s.keys = Keyed /\ DOMAIN s.members = Groups /\ DOMAIN s.assigned = DOMAIN Assigned
  BY ServerIs
<1>4. Removed(s, gone) = [s EXCEPT !.body = b, !.keys = k, !.members = m, !.assigned = c]
  BY <1>3 DEF Removed
<1> HIDE DEF b, k, m, c
<1>5. [s EXCEPT !.body = b, !.keys = k, !.members = m, !.assigned = c] \in Servers
  BY <1>2 DEF Servers
<1>6. LET t == [s EXCEPT !.body = b, !.keys = k, !.members = m, !.assigned = c]
      IN  t.body = b /\ t.keys = k /\ t.members = m /\ t.assigned = c
          /\ t.acl = s.acl /\ t.users = s.users
  BY DEF Servers
<1> QED
  BY <1>4, <1>5, <1>6 DEF b, k, m, c

-----------------------------------------------------------------------------
(* The requests of a job.                                                  *)

Plain(ops, o) == {Req(op, o) : op \in ops}

Requests(j) ==
    CASE j[1] = "shell"      -> Plain({"post"}, j[2])
      [] j[1] = "member"     -> Plain({"associate"}, j[2])
      [] j[1] = "purge"      -> Plain({"delete"}, j[2])
      [] j[1] = "membership" -> MemberReqs(j[2])
      [] j[1] = "acl"        -> ACLReqs(j[2])
      [] j[1] = "user"       ->
            Plain({"get", "put", "post"}, j[2]) \union KeyReqs(j[2])
                \union Give(j[2], Actors[j[2]])
      [] j[1] = "item" /\ j[2][1] = "policygroup" -> AssignReqs(j[2])
      [] j[1] = "item" /\ j[2][1] = "client" ->
            Plain({"get", "put", "post"}, j[2]) \union KeyReqs(j[2])
      [] j[1] = "item" /\ j[2][1] = "user" ->
            Plain({"get", "put", "post"}, j[2]) \union KeyReqs(j[2])
      [] j[1] = "item" /\ Files(j[2]) -> Plain({"get", "upload"}, j[2])
      [] j[1] = "item" /\ j[2][1] \in {"container", "databag", "policy"} ->
            Plain({"get", "post"}, j[2])
      [] OTHER -> Plain({"get", "put", "post"}, j[2])

\* The name of the stage that a job belongs to.
StageName(j) ==
    CASE j[1] = "user"   -> "users"
      [] j[1] = "member" -> "members"
      [] j[1] = "shell"  -> "group"
      [] j[1] = "acl"    -> "acls"
      [] j[1] = "item"   -> j[2][1]
      [] OTHER -> j[1]

\* What a job of a stage is about.
Purgeable(o) ==
    /\ o \in Objects /\ o \notin Plan /\ o # Self /\ o # DefaultEnv
    /\ o[1] # "container" /\ o[1] # "user" /\ Of(o[1]) # {}
    /\ o[1] = "group" => o \notin USAGs /\ o[2] \notin BuiltIn

About(j) ==
    /\ j = Job(j[1], j[2])
    /\ \/ j[1] = "user" /\ j[2] \in Users
       \/ j[1] = "member" /\ j[2] \in Users
       \/ j[1] \in {"shell", "membership"} /\ j[2] \in Of("group")
       \/ j[1] = "acl" /\ j[2] \in PlanACLs
       \/ j[1] = "purge" /\ Purgeable(j[2])
       \/ j[1] = "item" /\ j[2] \in Plan /\ j[2][1] # "group"

JobStates(j) ==
    [at : {"waiting", "asking", "checking", "sending", "ended"}, todo : Seq(Requests(j)),
     tries : Nat, left : SUBSET Principals, kept : SUBSET Principals]

\* How far a job can be.
JobIs(j, s) ==
    /\ s \in JobStates(j)
    /\ s.at = "asking" => s.todo = <<Req("get", j[2])>> /\ j[1] \in {"user", "item"}
                          /\ ~(j[1] = "item" /\ j[2][1] = "policygroup")
    /\ s.at = "checking" => j[1] \in {"membership", "acl"}
    /\ s.at = "sending" => s.todo # <<>>

LEMMA SetToSeqIs ==
  ASSUME NEW S, IsFiniteSet(S)
  PROVE  SetToSeq(S) \in Seq(S) /\ \A x \in S : \E i \in 1..Len(SetToSeq(S)) : SetToSeq(S)[i] = x
<1> DEFINE n == Cardinality(S)
<1>1. n \in Nat /\ ExistsBijection(1..n, S)
  BY FS_CardinalityType
<1>2. PICK f : f \in Bijection(1..n, S)
  BY <1>1, Zenon DEF ExistsBijection
<1>3. f \in [1..n -> S] /\ IsInjective(f)
  BY <1>2 DEF Bijection, Injection, Surjection, IsInjective
<1>4. SetToSeq(S) \in [1..n -> S] /\ IsInjective(SetToSeq(S))
  BY <1>3, Zenon DEF SetToSeq
<1> DEFINE g == SetToSeq(S)
<1> HIDE DEF g
<1>5. g \in Injection(1..n, S)
  BY <1>4 DEF Injection, g
<1>6. Cardinality(1..n) = n
  BY <1>1, FS_Interval
<1>7. g \in Surjection(1..n, S)
  BY <1>5, <1>6, FS_Injection
<1>8. \A x \in S : \E i \in 1..n : g[i] = x
  BY <1>7 DEF Surjection
<1>9. g \in Seq(S) /\ Len(g) = n
  BY <1>1, <1>4 DEF g
<1> QED
  BY <1>8, <1>9 DEF g

LEMMA ObjectIs ==
  /\ Plan \subseteq Objects /\ Users \subseteq Objects /\ Principals \subseteq Objects
  /\ \A k : Of(k) \subseteq Plan
  /\ \A o \in Users : o[1] = "user" /\ o \notin Plan
  BY TransferAssumption DEF Objects, Principals, Of

LEMMA JobsAre ==
  ASSUME NEW name, NEW j \in JobsOf(name)
  PROVE  About(j) /\ StageName(j) = name
         /\ (j[1] = "purge" => opts.purge)
<1>1. CASE name = "users"
  BY <1>1 DEF JobsOf, Job, About, StageName
<1>2. CASE name = "members"
  BY <1>2, TransferAssumption DEF JobsOf, Job, About, StageName
<1>3. CASE name = "group"
  BY <1>3 DEF JobsOf, Job, About, StageName
<1>4. CASE name = "membership"
  BY <1>4 DEF JobsOf, Job, About, StageName
<1>5. CASE name = "acls"
  BY <1>5 DEF JobsOf, Job, About, StageName
<1>6. CASE name = "purge"
  BY <1>6 DEF JobsOf, Job, About, StageName, PurgeList, Purgeable, Protected
<1>7. CASE name = "done"
  BY <1>7 DEF JobsOf
<1>8. CASE name \notin {"users", "members", "group", "membership", "acls", "purge", "done"}
  <2>1. PICK o \in Of(name) : j = Job("item", o)
    BY <1>8 DEF JobsOf
  <2> QED
    BY <1>8, <2>1 DEF Job, About, StageName, Of
<1> QED
  BY <1>1, <1>2, <1>3, <1>4, <1>5, <1>6, <1>7, <1>8

\* Whom a request is about.
LEMMA JobObject ==
  ASSUME NEW j, About(j)
  PROVE  j[2] \in Objects \union {OrgACL}
         /\ (j[1] # "acl" => j[2] \in Objects)
         /\ (j[1] = "acl" => j[2] \in ACLObjects)
         /\ (j[1] = "user" => j[2] \in Keyed /\ j[2] \in ACLObjects /\ j[2][1] = "user")
         /\ (j[1] = "item" /\ j[2][1] \in {"client", "user"} => j[2] \in Keyed)
         /\ (j[1] = "item" => j[2][1] \in Kinds)
         /\ (j[1] \in {"shell", "membership"} => j[2] \in Groups /\ j[2][1] = "group")
         /\ (j[1] = "member" => j[2] \in Users)
<1> USE TransferAssumption, ObjectIs
<1>1. CASE j[1] = "user"
  BY <1>1 DEF About, ACLObjects, Keyed
<1>2. CASE j[1] = "member"
  BY <1>2 DEF About
<1>3. CASE j[1] \in {"shell", "membership"}
  BY <1>3 DEF About, Of, Groups, Principals
<1>4. CASE j[1] = "acl"
  BY <1>4 DEF About, ACLObjects
<1>5. CASE j[1] = "purge"
  BY <1>5 DEF About, Purgeable
<1>6. CASE j[1] = "item"
  <2>1. j[2] \in Plan
    BY <1>6 DEF About
  <2>2. j[2][1] \in {"client", "user"} => j[2] \in Keyed
    BY <2>1 DEF Of, Keyed
  <2> QED
    BY <1>6, <2>1, <2>2
<1> QED
  BY <1>1, <1>2, <1>3, <1>4, <1>5, <1>6 DEF About

-----------------------------------------------------------------------------
(* What is written.                                                        *)

LEMMA KeyRequestsAre ==
  ASSUME NEW o, o \in Users \union Of("client") \union Of("user")
  PROVE  KeyRequests(o) \in Seq(KeyReqs(o))
         /\ \A i \in DOMAIN KeyRequests(o) : KeyRequests(o)[i].op = "put_key"
<1>1. o \in DOMAIN SourceKeys /\ IsFiniteSet(SourceKeys[o])
  BY TransferAssumption
<1> DEFINE names == SetToSeq(SourceKeys[o])
<1>2. names \in Seq(SourceKeys[o])
  BY <1>1, SetToSeqIs
<1>3. SourceKeys[o] \subseteq KeyNames
  BY <1>1 DEF KeyNames
<1>5. Len(names) \in Nat /\ DOMAIN names = 1..Len(names)
  BY <1>2
<1>4. \A i \in 1..Len(names) : With("put_key", o, names[i]) \in KeyReqs(o)
  <2>1. \A i \in 1..Len(names) : names[i] \in KeyNames
    <3> HIDE DEF names
    <3> QED
      BY <1>2, <1>3
  <2>2. \A n \in KeyNames : With("put_key", o, n) \in KeyReqs(o)
    BY DEF KeyReqs
  <2> QED
    BY <2>1, <2>2, Zenon
<1>6. KeyRequests(o) = [i \in 1..Len(names) |-> With("put_key", o, names[i])]
  BY <1>5 DEF KeyRequests
<1> HIDE DEF names
<1>7. \A i \in 1..Len(names) : KeyRequests(o)[i] = With("put_key", o, names[i])
  BY <1>6
<1>8. KeyRequests(o) \in [1..Len(names) -> KeyReqs(o)]
  BY <1>4, <1>5, <1>6
<1>9. KeyRequests(o) \in Seq(KeyReqs(o)) /\ DOMAIN KeyRequests(o) = 1..Len(names)
  BY <1>5, <1>8
<1>10. \A n : With("put_key", o, n).op = "put_key"
  BY DEF With
<1> QED
  BY <1>7, <1>9, <1>10

LEMMA ACLRequestsAre ==
  ASSUME NEW o, NEW who \in SUBSET Principals
  PROVE  /\ ACLRequests(o, who) \in Seq(ACLReqs(o))
         /\ \A i \in DOMAIN ACLRequests(o, who) : ACLRequests(o, who)[i].op = "acl"
         /\ ACLRequests(o, who) # <<>> /\ ACLRequests(o, who) \in Seq(Give(o, who))
<1>1. Perms \in Seq(ToSet(Perms)) /\ Len(Perms) \in Nat /\ DOMAIN Perms = 1..Len(Perms)
  BY TransferAssumption
<1>2. \A i \in 1..Len(Perms) : Perms[i] \in ToSet(Perms)
  BY <1>1 DEF ToSet
<1>3. \A i \in 1..Len(Perms) : With("acl", o, <<Perms[i], who>>) \in ACLReqs(o)
  <2> SUFFICES ASSUME NEW p \in ToSet(Perms)
               PROVE  With("acl", o, <<p, who>>) \in ACLReqs(o)
    BY <1>2
  <2> QED
    BY DEF ACLReqs
<1>4. ACLRequests(o, who) = [i \in 1..Len(Perms) |-> With("acl", o, <<Perms[i], who>>)]
  BY <1>1 DEF ACLRequests
<1>5. ACLRequests(o, who) \in [1..Len(Perms) -> ACLReqs(o)]
  BY <1>3, <1>4
<1>6. Len(Perms) # 0
  BY <1>1, TransferAssumption
<1>7. ACLRequests(o, who) \in Seq(ACLReqs(o)) /\ Len(ACLRequests(o, who)) = Len(Perms)
  BY <1>1, <1>5
<1>8. \A i \in 1..Len(Perms) : ACLRequests(o, who)[i].op = "acl"
  BY <1>4 DEF With
<1>9. DOMAIN ACLRequests(o, who) = 1..Len(Perms)
  BY <1>4
<1>10. \A i \in 1..Len(Perms) : With("acl", o, <<Perms[i], who>>) \in Give(o, who)
  BY <1>3 DEF Give, With
<1>11. ACLRequests(o, who) \in [1..Len(Perms) -> Give(o, who)]
  BY <1>4, <1>10
<1>12. ACLRequests(o, who) \in Seq(Give(o, who))
  BY <1>1, <1>11
<1> QED
  BY <1>6, <1>7, <1>8, <1>9, <1>12

LEMMA PolicyGroupIs ==
  ASSUME NEW o \in Of("policygroup")
  PROVE  WritePolicyGroup(o) \in Seq(AssignReqs(o))
         /\ \A i \in DOMAIN WritePolicyGroup(o) : WritePolicyGroup(o)[i].op \in {"get", "assign"}
<1> DEFINE ps == SetToSeq(Assigned[o])
           w(i) == LET p == ps[(i + 1) \div 2]
                   IN  IF i % 2 = 1 THEN Req("get", p) ELSE With("assign", o, p)
<1>1. Assigned[o] \subseteq Objects /\ IsFiniteSet(Assigned[o])
  BY TransferAssumption
<1>2. ps \in Seq(Assigned[o]) /\ Len(ps) \in Nat
  BY <1>1, SetToSeqIs
<1>3. \A k \in 1..Len(ps) : ps[k] \in Objects /\ ps[k] \in Assigned[o]
  BY <1>1, <1>2
<1>4. WritePolicyGroup(o) = [i \in 1..(2 * Len(ps)) |-> w(i)]
  BY DEF WritePolicyGroup
<1> HIDE DEF ps
<1>5. \A i \in 1..(2 * Len(ps)) : (i + 1) \div 2 \in 1..Len(ps)
  BY <1>2
<1>6. \A i \in 1..(2 * Len(ps)) : w(i) \in AssignReqs(o) /\ w(i).op \in {"get", "assign"}
  BY <1>3, <1>5 DEF AssignReqs, Req, With
<1> HIDE DEF w
<1>7. WritePolicyGroup(o) \in [1..(2 * Len(ps)) -> AssignReqs(o)]
  BY <1>4, <1>6
<1>8. 2 * Len(ps) \in Nat
  BY <1>2
<1> QED
  BY <1>4, <1>6, <1>7, <1>8

\* Nothing is replaced before the object has been made.
Replaces(r) == r.op \in {"put", "put_key", "post_key"}
Careful(o, todo) ==
    \/ todo # <<>> /\ todo[1] = Req("post", o)
    \/ \A i \in DOMAIN todo : ~Replaces(todo[i])

LEMMA RequestIs ==
  ASSUME NEW op, NEW o
  PROVE  Req(op, o).op = op /\ Req(op, o).obj = o /\ Req(op, o).arg = None
  BY DEF Req

LEMMA OneRequest ==
  ASSUME NEW X, NEW r \in X
  PROVE  <<r>> \in Seq(X) /\ <<r>> # <<>> /\ <<r>>[1] = r /\ DOMAIN <<r>> = {1}
  OBVIOUS

LEMMA TwoRequests ==
  ASSUME NEW X, NEW r \in X, NEW q \in X
  PROVE  <<r, q>> \in Seq(X)
<1>1. <<r, q>> = [i \in 1..2 |-> IF i = 1 THEN r ELSE q]
  OBVIOUS
<1> QED
  BY <1>1

LEMMA WriteActorIs ==
  ASSUME NEW o, NEW e \in BOOLEAN
  PROVE  /\ WriteActor(o, e) \in Seq(Plain({"get", "put", "post"}, o) \union KeyReqs(o))
         /\ WriteActor(o, e) # <<>>
         /\ ~e => WriteActor(o, e)[1] = Req("post", o)
<1> DEFINE X == Plain({"get", "put", "post"}, o) \union KeyReqs(o)
<1>1. Req("put", o) \in X /\ Req("post", o) \in X
  BY DEF Plain
<1>2. With("put_key", o, "default") \in X
  BY DEF KeyReqs, KeyNames
<1> HIDE DEF X
<1>3. CASE e
  <2>1. WriteActor(o, e) = <<Req("put", o), With("put_key", o, "default")>>
    BY <1>3 DEF WriteActor
  <2>2. <<Req("put", o), With("put_key", o, "default")>> \in Seq(X)
    BY <1>1, <1>2, TwoRequests
  <2>3. <<Req("put", o), With("put_key", o, "default")>> # <<>>
    OBVIOUS
  <2> QED
    BY <1>3, <2>1, <2>2, <2>3 DEF X
<1>4. CASE ~e
  <2>1. WriteActor(o, e) = <<Req("post", o)>>
    BY <1>4 DEF WriteActor
  <2> QED
    BY <1>1, <1>4, <2>1 DEF X
<1> QED
  BY <1>3, <1>4

LEMMA Joined ==
  ASSUME NEW X, NEW a \in Seq(X), NEW b \in Seq(X)
  PROVE  a \o b \in Seq(X) /\ (a # <<>> => a \o b # <<>> /\ (a \o b)[1] = a[1])
<1>1. a \o b \in Seq(X) /\ Len(a \o b) = Len(a) + Len(b)
  BY ConcatProperties
<1>2. a # <<>> => Len(a) > 0
  BY EmptySeq
<1> QED
  BY <1>1, <1>2, ConcatProperties

LEMMA Wider ==
  ASSUME NEW X, NEW Y, X \subseteq Y, NEW s \in Seq(X)
  PROVE  s \in Seq(Y)
  OBVIOUS

\* The requests of an item's job.
LEMMA WriteIs ==
  ASSUME NEW o \in Plan, o[1] # "group", NEW j, j[1] = "item", j[2] = o, NEW e \in BOOLEAN
  PROVE  /\ Write(o, e) \in Seq(Requests(j))
         /\ (~e \/ o[1] = "policygroup" \/ Files(o)) => Careful(o, Write(o, e))
<1> DEFINE X == Plain({"get", "put", "post"}, o)
<1>1. X = {Req(op, o) : op \in {"get", "put", "post"}}
  BY DEF Plain
<1>2. Req("post", o) \in X /\ Req("put", o) \in X
  BY <1>1
<1> HIDE DEF X
<1>3. CASE o = DefaultEnv
  <2>1. Write(o, e) = <<>>
    BY <1>3 DEF Write, DefaultEnv, Files
  <2> QED
    BY <2>1 DEF Careful
<1>4. CASE o # DefaultEnv /\ o[1] \in {"container", "databag", "policy"}
  <2>1. Write(o, e) = WriteOnce(o, e)
    BY <1>4 DEF Write, Files
  <2>2. Requests(j) = Plain({"get", "post"}, o) /\ Req("post", o) \in Plain({"get", "post"}, o)
    BY <1>4 DEF Requests, Files, Plain
  <2>3. WriteOnce(o, e) \in {<<>>, <<Req("post", o)>>}
    BY DEF WriteOnce
  <2>4. WriteOnce(o, e) \in Seq(Plain({"get", "post"}, o))
    <3> DEFINE Y == Plain({"get", "post"}, o)
    <3> HIDE DEF Y
    <3>1. <<>> \in Seq(Y) /\ (Req("post", o) \in Y => <<Req("post", o)>> \in Seq(Y))
      BY OneRequest
    <3> QED
      BY <2>2, <2>3, <3>1 DEF Y
  <2>5. Careful(o, WriteOnce(o, e))
    BY <2>3 DEF Careful
  <2> QED
    BY <2>1, <2>2, <2>4, <2>5
<1>5. CASE o # DefaultEnv /\ Files(o)
  <2>1. Write(o, e) = <<Req("upload", o)>>
    BY <1>5 DEF Write, Files
  <2>2. Requests(j) = Plain({"get", "upload"}, o)
    BY <1>5 DEF Requests, Files
  <2>3. ~Replaces(Req("upload", o))
    BY DEF Replaces, Req
  <2>4. Careful(o, <<Req("upload", o)>>)
    BY <2>3 DEF Careful
  <2>5. Req("upload", o) \in Plain({"get", "upload"}, o)
    BY DEF Plain
  <2> QED
    BY <2>1, <2>2, <2>4, <2>5, OneRequest
<1>6. CASE o # DefaultEnv /\ o[1] \in {"client", "user"}
  <2> DEFINE Y == Plain({"get", "put", "post"}, o) \union KeyReqs(o)
  <2>1. Write(o, e) = WriteActor(o, e) \o KeyRequests(o)
    BY <1>6 DEF Write, Files
  <2>2. Requests(j) = Y
    BY <1>6 DEF Requests, Files
  <2>3. o \in Of("client") \union Of("user")
    BY <1>6 DEF Of
  <2>4. KeyRequests(o) \in Seq(KeyReqs(o))
    BY <2>3, KeyRequestsAre
  <2>5. KeyRequests(o) \in Seq(Y)
    BY <2>4, Wider
  <2>6. WriteActor(o, e) \in Seq(Y) /\ WriteActor(o, e) # <<>>
        /\ (~e => WriteActor(o, e)[1] = Req("post", o))
    BY WriteActorIs
  <2> HIDE DEF Y
  <2>7. Write(o, e) \in Seq(Y) /\ Write(o, e) # <<>>
        /\ (~e => Write(o, e)[1] = Req("post", o))
    BY <2>1, <2>5, <2>6, Joined
  <2>8. ~Files(o) /\ o[1] # "policygroup"
    BY <1>6 DEF Files
  <2> QED
    BY <2>2, <2>7, <2>8 DEF Careful
<1>7. CASE o # DefaultEnv /\ o[1] = "policygroup"
  <2>1. Write(o, e) = WritePolicyGroup(o)
    BY <1>7 DEF Write, Files
  <2>2. Requests(j) = AssignReqs(o)
    BY <1>7 DEF Requests, Files
  <2>3. o \in Of("policygroup")
    BY <1>7 DEF Of
  <2> QED
    BY <2>1, <2>2, <2>3, PolicyGroupIs DEF Careful, Replaces
<1>8. CASE o # DefaultEnv /\ ~Files(o)
           /\ o[1] \notin {"container", "databag", "policy", "client", "user", "policygroup"}
  <2>1. Write(o, e) = WriteSimple(o, e)
    BY <1>8 DEF Write
  <2>2. Requests(j) = X
    BY <1>8 DEF Requests, X
  <2>3. WriteSimple(o, e) = <<IF e THEN Req("put", o) ELSE Req("post", o)>>
    BY DEF WriteSimple
  <2>4. WriteSimple(o, e) \in Seq(X)
    BY <1>2, <2>3
  <2>5. ~e => Careful(o, WriteSimple(o, e))
    BY <2>3 DEF Careful
  <2> QED
    BY <1>8, <2>1, <2>2, <2>4, <2>5
<1> QED
  BY <1>3, <1>4, <1>5, <1>6, <1>7, <1>8

\* The requests of a user's job.
LEMMA WriteUserIs ==
  ASSUME NEW o \in Users, NEW j, j[1] = "user", j[2] = o, NEW e \in BOOLEAN
  PROVE  /\ WriteUser(o, e) \in Seq(Requests(j)) /\ WriteUser(o, e) # <<>>
         /\ ~e => Careful(o, WriteUser(o, e))
<1> DEFINE Y == Plain({"get", "put", "post"}, o) \union KeyReqs(o) \union Give(o, Actors[o])
<1>1. o[1] = "user" /\ o \in ACLObjects
  BY TransferAssumption DEF ACLObjects
<1>2. Requests(j) = Y
  BY DEF Requests
<1>3. WriteActor(o, e) \in Seq(Y) /\ WriteActor(o, e) # <<>>
      /\ (~e => WriteActor(o, e)[1] = Req("post", o))
  <2> DEFINE Z == Plain({"get", "put", "post"}, o) \union KeyReqs(o)
  <2>1. WriteActor(o, e) \in Seq(Z) /\ WriteActor(o, e) # <<>>
        /\ (~e => WriteActor(o, e)[1] = Req("post", o))
    BY WriteActorIs
  <2>2. Z \subseteq Y
    OBVIOUS
  <2> HIDE DEF Y, Z
  <2> QED
    BY <2>1, <2>2, Wider
<1>4. KeyRequests(o) \in Seq(Y)
  <2>1. KeyRequests(o) \in Seq(KeyReqs(o))
    BY KeyRequestsAre
  <2> QED
    BY <2>1, Wider
<1>5. ACLRequests(o, Actors[o]) \in Seq(Y)
  <2>1. Actors[o] \in SUBSET Principals
    BY <1>1, TransferAssumption
  <2>2. ACLRequests(o, Actors[o]) \in Seq(Give(o, Actors[o]))
    BY <2>1, ACLRequestsAre
  <2> QED
    BY <2>2, Wider
<1> HIDE DEF Y
<1>6. o # DefaultEnv
  BY <1>1 DEF DefaultEnv
<1>7. Write(o, e) = WriteActor(o, e) \o KeyRequests(o)
  BY <1>1, <1>6 DEF Write, Files
<1>8. Write(o, e) \in Seq(Y) /\ Write(o, e) # <<>>
      /\ (~e => Write(o, e)[1] = Req("post", o))
  BY <1>3, <1>4, <1>7, Joined
<1>9. WriteUser(o, e) \in Seq(Y) /\ WriteUser(o, e) # <<>>
      /\ (~e => WriteUser(o, e)[1] = Req("post", o))
  BY <1>5, <1>8, Joined DEF WriteUser
<1> QED
  BY <1>2, <1>9 DEF Careful

-----------------------------------------------------------------------------
(* What a request may do to the destination.                               *)

\* Only a deletion removes, only PUT replaces what is somebody else's, only
\* the requests for its keys change them.
Effect(s, t, r) ==
    /\ t \in Servers
    /\ \A o \in Objects :
          /\ s.body[o] # "absent" /\ t.body[o] = "absent"
                => r.op = "delete" /\ (o = r.obj \/ InBag(o, r.obj))
          /\ s.body[o] = "theirs" /\ t.body[o] = "ours" /\ o[1] # "cookbook"
                => r.op = "put" /\ o = r.obj
          /\ s.body[o] = "theirs" /\ t.body[o] # "absent" /\ o \in Keyed /\ t.keys[o] # s.keys[o]
                => r.op \in {"put_key", "post_key"} /\ o = r.obj
          /\ s.body[o] = "ours" /\ t.body[o] # "ours" => r.op = "delete" /\ t.body[o] = "absent"

LEMMA PresentIs ==
  ASSUME NEW s \in Servers, NEW o \in Objects
  PROVE  Present(s, o) <=> s.body[o] # "absent"
<1>1. o[1] \in Kinds
  BY TransferAssumption
<1>2. o # OrgACL
  BY <1>1 DEF OrgACL, Kinds
<1> QED
  BY <1>2 DEF Present

LEMMA MadeIs ==
  ASSUME NEW s \in Servers, NEW o \in Objects
  PROVE  \A q \in Objects : [s.body EXCEPT ![o] = "ours"][q] = IF q = o THEN "ours" ELSE s.body[q]
<1>1. s.body \in [Objects -> Whose]
  BY ServerIs
<1> QED
  BY <1>1

LEMMA SameIs ==
  ASSUME NEW s \in Servers, NEW r
  PROVE  Effect(s, s, r)
  BY DEF Effect

LEMMA PostedIs ==
  ASSUME NEW s \in Servers, NEW o \in Objects
  PROVE  /\ Posted(s, o) \in Servers
         /\ Posted(s, o).body = [s.body EXCEPT ![o] = "ours"]
         /\ \A a \in Keyed : a # o => Posted(s, o).keys[a] = s.keys[a]
<1>1. DefaultKey("ours") \in [KeyNames -> Whose]
  BY DEF DefaultKey, NoKeys, Whose
<1> DEFINE c == Created(s, o)
           k == DefaultKey("ours")
<1>2. c \in Servers /\ c.body = [s.body EXCEPT ![o] = "ours"] /\ c.keys = s.keys
  BY CreatedIs
<1>3. CASE ~HasKeys(o)
  BY <1>2, <1>3 DEF Posted
<1>4. CASE HasKeys(o)
  <2>1. Posted(s, o) = [c EXCEPT !.keys = [@ EXCEPT ![o] = k]]
    BY <1>4 DEF Posted
  <2>2. o \in Keyed
    BY <1>4 DEF HasKeys, Keyed
  <2> HIDE DEF c, k
  <2>3. [c.keys EXCEPT ![o] = k] \in [Keyed -> [KeyNames -> Whose]]
    BY <1>1, <1>2, <2>2, ServerIs DEF k
  <2>4. [c EXCEPT !.keys = [c.keys EXCEPT ![o] = k]] \in Servers
    BY <1>2, <2>3 DEF Servers
  <2>5. Posted(s, o).body = c.body /\ Posted(s, o).keys = [c.keys EXCEPT ![o] = k]
    BY <1>2, <2>1 DEF Servers
  <2>6. \A a \in Keyed : a # o => Posted(s, o).keys[a] = s.keys[a]
    BY <1>2, <2>5, ServerIs
  <2> QED
    BY <1>2, <2>1, <2>4, <2>5, <2>6
<1> QED
  BY <1>3, <1>4

LEMMA AnswerIs ==
  ASSUME NEW status, NEW s
  PROVE  Answer(status, s).status = status /\ Answer(status, s).server = s
  BY DEF Answer

LEMMA ServeObjectIs ==
  ASSUME NEW s \in Servers, NEW o \in Objects, NEW r, r.obj = o,
         r.op \in {"get", "put", "post", "upload", "delete"}, r.op = "upload" => Files(o)
  PROVE  /\ Effect(s, ServeObject(s, r.op, o).server, r)
         /\ r.op = "post" /\ ServeObject(s, r.op, o).status = 200
              => ServeObject(s, r.op, o).server.body[o] = "ours"
<1> DEFINE a == ServeObject(s, r.op, o)
<1> USE PresentIs, AnswerIs, SameIs
<1>1. CASE r.op = "get"
  <2>1. a.server = s
    BY <1>1 DEF ServeObject
  <2> QED
    BY <1>1, <2>1
<1>2. CASE r.op = "post"
  <2>1. a \in {Answer(409, s), Answer(404, s)} \/ (~Present(s, o) /\ a = Answer(200, Posted(s, o)))
    BY <1>2 DEF ServeObject
  <2>2. CASE a \in {Answer(409, s), Answer(404, s)}
    <3>1. a.server = s /\ a.status # 200
      BY <2>2
    <3> QED
      BY <3>1
  <2>3. CASE ~Present(s, o) /\ a = Answer(200, Posted(s, o))
    <3>1. a.server = Posted(s, o) /\ s.body[o] = "absent"
      BY <2>3
    <3>2. \A q \in Objects : Posted(s, o).body[q] = IF q = o THEN "ours" ELSE s.body[q]
      <4>1. Posted(s, o).body = [s.body EXCEPT ![o] = "ours"]
        BY PostedIs
      <4> QED
        BY <4>1, MadeIs
    <3>3. Posted(s, o) \in Servers /\ \A q \in Keyed : q # o => Posted(s, o).keys[q] = s.keys[q]
      BY PostedIs
    <3>4. Effect(s, Posted(s, o), r)
      BY <1>2, <3>1, <3>2, <3>3 DEF Effect
    <3> QED
      BY <3>1, <3>2, <3>4
  <2> QED
    BY <2>1, <2>2, <2>3
<1>6. \A q \in Objects : Created(s, o).body[q] = IF q = o THEN "ours" ELSE s.body[q]
  <2>1. Created(s, o).body = [s.body EXCEPT ![o] = "ours"]
    BY CreatedIs
  <2> QED
    BY <2>1, MadeIs
<1>7. Created(s, o) \in Servers /\ Created(s, o).keys = s.keys
  BY CreatedIs
<1>3. CASE r.op = "put"
  <2>1. a.server = s \/ a.server = Created(s, o)
    BY <1>3 DEF ServeObject
  <2>2. Effect(s, Created(s, o), r)
    BY <1>3, <1>6, <1>7 DEF Effect
  <2> QED
    BY <1>3, <2>1, <2>2
<1>4. CASE r.op = "upload"
  <2>1. a.server = s \/ (a.server = Created(s, o) /\ (s.body[o] = "absent" \/ o[1] = "cookbook"))
    BY <1>4 DEF ServeObject, Files
  <2>2. s.body[o] = "absent" \/ o[1] = "cookbook" => Effect(s, Created(s, o), r)
    BY <1>4, <1>6, <1>7 DEF Effect
  <2> QED
    BY <1>4, <2>1, <2>2
<1>5. CASE r.op = "delete"
  <2> DEFINE gone == {o} \union {i \in Objects : InBag(i, o)}
  <2>1. a.server = s \/ a.server = Removed(s, gone)
    BY <1>5 DEF ServeObject
  <2> HIDE DEF gone
  <2>2. \A q \in Objects : Removed(s, gone).body[q] = IF q \in gone THEN "absent" ELSE s.body[q]
    BY RemovedIs
  <2>3. \A q \in Keyed : q \notin gone => Removed(s, gone).keys[q] = s.keys[q]
    BY RemovedIs
  <2>4. Removed(s, gone) \in Servers
    BY RemovedIs
  <2>5. Effect(s, Removed(s, gone), r)
    BY <1>5, <2>2, <2>3, <2>4 DEF Effect, gone
  <2> QED
    BY <1>5, <2>1, <2>5
<1> QED
  BY <1>1, <1>2, <1>3, <1>4, <1>5

LEMMA KeyWrittenIs ==
  ASSUME NEW s \in Servers, NEW o \in Keyed, NEW n \in KeyNames
  PROVE  /\ KeyWritten(s, o, n) \in Servers /\ KeyWritten(s, o, n).body = s.body
         /\ KeyWritten(s, o, n).keys[o][n] = "ours"
         /\ \A m \in KeyNames : m # n => KeyWritten(s, o, n).keys[o][m] = s.keys[o][m]
         /\ \A q \in Keyed : q # o => KeyWritten(s, o, n).keys[q] = s.keys[q]
         /\ KeyWritten(s, o, n).members = s.members /\ KeyWritten(s, o, n).users = s.users
         /\ KeyWritten(s, o, n).assigned = s.assigned /\ KeyWritten(s, o, n).acl = s.acl
  BY DEF KeyWritten, Servers, Whose

LEMMA ServeKeyIs ==
  ASSUME NEW s \in Servers, NEW o \in Keyed, NEW n \in KeyNames, NEW r, r.obj = o,
         r.op \in {"put_key", "post_key"}
  PROVE  Effect(s, ServeKey(s, r.op, o, n).server, r)
<1> DEFINE t == KeyWritten(s, o, n)
<1>1. ServeKey(s, r.op, o, n).server \in {s, t}
  <2>1. ServeKey(s, r.op, o, n) \in {Answer(404, s), Answer(409, s), Answer(200, t)}
    BY DEF ServeKey
  <2> QED
    BY <2>1, AnswerIs
<1>2. t \in Servers /\ t.body = s.body /\ \A q \in Keyed : q # o => t.keys[q] = s.keys[q]
  BY KeyWrittenIs
<1> HIDE DEF t
<1>3. Effect(s, t, r)
  BY <1>2 DEF Effect
<1> QED
  BY <1>1, <1>3, SameIs

LEMMA ServeAssignIs ==
  ASSUME NEW s \in Servers, NEW o \in Objects, o \in DOMAIN Assigned, NEW p \in Objects,
         NEW r, r.obj = o
  PROVE  Effect(s, ServeAssign(s, o, p).server, r)
<1> DEFINE b == [s.body EXCEPT ![o] = IF @ = "absent" THEN "ours" ELSE @]
           g == [s.assigned EXCEPT ![o] = {q \in @ : q[2] # p[2]} \union {p}]
           t == [s EXCEPT !.assigned = g, !.body = b]
<1>1. ServeAssign(s, o, p).server = t
  BY AnswerIs DEF ServeAssign
<1>2. s.body \in [Objects -> Whose] /\ s.assigned \in [DOMAIN Assigned -> SUBSET Objects]
  BY ServerIs
<1>3. b \in [Objects -> Whose]
      /\ \A q \in Objects : b[q] = s.body[q] \/ (s.body[q] = "absent" /\ b[q] = "ours")
  BY <1>2 DEF Whose
<1>4. g \in [DOMAIN Assigned -> SUBSET Objects]
  BY <1>2
<1> HIDE DEF b, g
<1>5. t \in Servers /\ t.body = b /\ t.keys = s.keys
  BY <1>3, <1>4 DEF Servers
<1> HIDE DEF t
<1>6. Effect(s, t, r)
  BY <1>3, <1>5 DEF Effect
<1> QED
  BY <1>1, <1>6

LEMMA ServeMembersIs ==
  ASSUME NEW s \in Servers, NEW r, r.op = "members", r.obj \in Groups, r.arg \in SUBSET Principals
  PROVE  Effect(s, ServePrincipals(s, r).server, r)
<1> DEFINE m == [s.members EXCEPT ![r.obj] = r.arg]
           t == [s EXCEPT !.members = m]
<1>1. ServePrincipals(s, r).server \in {s, t}
  BY AnswerIs DEF ServePrincipals
<1>2. m \in [Groups -> SUBSET Principals]
  BY ServerIs
<1> HIDE DEF m
<1>3. t \in Servers /\ t.body = s.body /\ t.keys = s.keys
  BY <1>2 DEF Servers
<1> HIDE DEF t
<1>4. Effect(s, t, r)
  BY <1>3 DEF Effect
<1> QED
  BY <1>1, <1>4, SameIs

LEMMA ServeACLIs ==
  ASSUME NEW s \in Servers, NEW r, r.op = "acl", r.obj \in ACLObjects,
         NEW p \in ToSet(Perms), NEW who \in SUBSET Principals, r.arg = <<p, who>>
  PROVE  Effect(s, ServePrincipals(s, r).server, r)
<1> DEFINE m == [s.acl EXCEPT ![r.obj] = [@ EXCEPT ![p] = who]]
           t == [s EXCEPT !.acl = m]
<1>1. ServePrincipals(s, r).server \in {s, t}
  BY AnswerIs DEF ServePrincipals
<1>2. s.acl \in [ACLObjects -> [ToSet(Perms) -> SUBSET Principals]]
  BY ServerIs
<1>3. [s.acl[r.obj] EXCEPT ![p] = who] \in [ToSet(Perms) -> SUBSET Principals]
  BY <1>2
<1>4. m \in [ACLObjects -> [ToSet(Perms) -> SUBSET Principals]]
  BY <1>2, <1>3
<1> HIDE DEF m
<1>5. t \in Servers /\ t.body = s.body /\ t.keys = s.keys
  BY <1>4 DEF Servers
<1> HIDE DEF t
<1>6. Effect(s, t, r)
  BY <1>5 DEF Effect
<1> QED
  BY <1>1, <1>6, SameIs

LEMMA AssociateIs ==
  ASSUME NEW s \in Servers, NEW r, r.op = "associate", r.obj \in Users
  PROVE  Effect(s, ServePrincipals(s, r).server, r)
<1> DEFINE m == s.users \union {r.obj}
           t == [s EXCEPT !.users = m]
<1>1. ServePrincipals(s, r).server \in {s, t}
  BY AnswerIs DEF ServePrincipals
<1>2. m \in SUBSET Users
  BY ServerIs
<1> HIDE DEF m
<1>3. t \in Servers /\ t.body = s.body /\ t.keys = s.keys
  BY <1>2 DEF Servers
<1> HIDE DEF t
<1>4. Effect(s, t, r)
  BY <1>3 DEF Effect
<1> QED
  BY <1>1, <1>4, SameIs

\* The requests there are, whatever the job.
Sound(j, r) ==
    \/ /\ r.op \in {"get", "put", "post", "upload"} /\ r.obj \in Objects
       /\ r.op = "upload" => Files(r.obj)
       /\ r.op # "get" => r.obj = j[2]
    \/ r.op = "delete" /\ j[1] = "purge" /\ r.obj = j[2] /\ r.obj \in Objects
    \/ /\ r.op \in {"put_key", "post_key"} /\ r.obj = j[2] /\ r.obj \in Keyed /\ r.arg \in KeyNames
       /\ r \in KeyReqs(j[2]) /\ KeyReqs(j[2]) \subseteq Requests(j)
    \/ /\ r.op = "assign" /\ r.obj = j[2] /\ r.obj \in Objects /\ r.obj \in DOMAIN Assigned
       /\ r.arg \in Objects /\ r.obj \in Of("policygroup") /\ r.arg \in Assigned[r.obj]
    \/ /\ r.op = "members" /\ j[1] = "membership" /\ r.obj = j[2] /\ r.obj \in Plan
       /\ r.obj \in Groups /\ r.arg \in SUBSET Principals
    \/ /\ r.op = "acl" /\ j[1] \in {"acl", "user"} /\ r.obj = j[2] /\ r.obj \in ACLObjects
       /\ \E p \in ToSet(Perms), who \in SUBSET Principals : r.arg = <<p, who>>
       /\ j[1] = "user" => r.arg[2] = Actors[j[2]]
    \/ r.op = "associate" /\ r.obj \in Users

LEMMA PlainIs ==
  ASSUME NEW ops, NEW o, NEW r \in Plain(ops, o)
  PROVE  r.op \in ops /\ r.obj = o
  BY DEF Plain, Req

LEMMA KeyReqIs ==
  ASSUME NEW o, NEW r \in KeyReqs(o)
  PROVE  r.op \in {"put_key", "post_key"} /\ r.obj = o /\ r.arg \in KeyNames
  BY DEF KeyReqs, With

LEMMA ACLReqIs ==
  ASSUME NEW o, NEW r \in ACLReqs(o)
  PROVE  r.op = "acl" /\ r.obj = o
         /\ \E p \in ToSet(Perms), who \in SUBSET Principals : r.arg = <<p, who>>
  BY DEF ACLReqs, With

LEMMA RequestsAre ==
  ASSUME NEW j, About(j), NEW r \in Requests(j)
  PROVE  Sound(j, r)
<1> DEFINE o == j[2]
<1>1. CASE j[1] = "shell"
  <2>1. r \in Plain({"post"}, o)
    BY <1>1 DEF Requests
  <2> QED
    BY <1>1, <2>1, PlainIs, JobObject DEF Sound
<1>2. CASE j[1] = "member"
  <2>1. r \in Plain({"associate"}, o)
    BY <1>2 DEF Requests
  <2> QED
    BY <1>2, <2>1, PlainIs, JobObject DEF Sound
<1>3. CASE j[1] = "purge"
  <2>1. r \in Plain({"delete"}, o)
    BY <1>3 DEF Requests
  <2> QED
    BY <1>3, <2>1, PlainIs, JobObject DEF Sound
<1>4. CASE j[1] = "membership"
  <2>1. r \in MemberReqs(o)
    BY <1>4 DEF Requests
  <2>2. r.op = "members" /\ r.obj = o /\ r.arg \in SUBSET Principals
    BY <2>1 DEF MemberReqs, With
  <2>3. o \in Plan
    BY <1>4 DEF About, Of
  <2> QED
    BY <1>4, <2>2, <2>3, JobObject DEF Sound
<1>5. CASE j[1] = "acl"
  <2>1. r \in ACLReqs(o)
    BY <1>5 DEF Requests
  <2> QED
    BY <1>5, <2>1, ACLReqIs, JobObject DEF Sound
<1>6. CASE j[1] = "user"
  <2>1. \/ r \in Plain({"get", "put", "post"}, o) \/ r \in KeyReqs(o)
        \/ r \in ACLReqs(o) /\ r.arg[2] = Actors[o]
    BY <1>6 DEF Requests, Give
  <2>2. CASE r \in Plain({"get", "put", "post"}, o)
    BY <1>6, <2>2, PlainIs, JobObject DEF Sound
  <2>3. CASE r \in KeyReqs(o)
    <3>1. KeyReqs(o) \subseteq Requests(j)
      BY <1>6 DEF Requests
    <3> QED
      BY <1>6, <2>3, <3>1, KeyReqIs, JobObject DEF Sound
  <2>4. CASE r \in ACLReqs(o) /\ r.arg[2] = Actors[o]
    BY <1>6, <2>4, ACLReqIs, JobObject DEF Sound
  <2> QED
    BY <2>1, <2>2, <2>3, <2>4
<1>7. CASE j[1] = "item" /\ o[1] = "policygroup"
  <2>1. r \in AssignReqs(o)
    BY <1>7 DEF Requests, Files
  <2>4. o \in Of("policygroup") /\ o \in Objects
    BY <1>7, ObjectIs DEF About, Of
  <2>5. o \in DOMAIN Assigned /\ Assigned[o] \subseteq Objects
    BY <2>4, TransferAssumption
  <2>2. PICK p \in Objects : r = Req("get", p) \/ (p \in Assigned[o] /\ r = With("assign", o, p))
    BY <2>1, <2>5 DEF AssignReqs
  <2>3. \/ r.op = "get" /\ r.obj \in Objects
        \/ r.op = "assign" /\ r.obj = o /\ r.arg \in Objects /\ r.arg \in Assigned[o]
    BY <2>2 DEF Req, With
  <2> QED
    BY <2>3, <2>4, <2>5 DEF Sound
<1>8. CASE j[1] = "item" /\ o[1] \in {"client", "user"}
  <2>1. r \in Plain({"get", "put", "post"}, o) \/ r \in KeyReqs(o)
    BY <1>8 DEF Requests, Files
  <2>2. CASE r \in Plain({"get", "put", "post"}, o)
    BY <1>8, <2>2, PlainIs, JobObject DEF Sound
  <2>3. CASE r \in KeyReqs(o)
    <3>1. KeyReqs(o) \subseteq Requests(j)
      BY <1>8 DEF Requests, Files
    <3> QED
      BY <1>8, <2>3, <3>1, KeyReqIs, JobObject DEF Sound
  <2> QED
    BY <2>1, <2>2, <2>3
<1>9. CASE j[1] = "item" /\ Files(o)
  <2>1. r \in Plain({"get", "upload"}, o)
    BY <1>9 DEF Requests, Files
  <2> QED
    BY <1>9, <2>1, PlainIs, JobObject DEF Sound
<1>11. CASE j[1] = "item" /\ o[1] \in {"container", "databag", "policy"}
  <2>1. r \in Plain({"get", "post"}, o)
    BY <1>11 DEF Requests, Files
  <2> QED
    BY <1>11, <2>1, PlainIs, JobObject DEF Sound
<1>10. CASE /\ j[1] = "item" /\ ~Files(o)
            /\ o[1] \notin {"policygroup", "client", "user", "container", "databag", "policy"}
  <2>1. r \in Plain({"get", "put", "post"}, o)
    BY <1>10 DEF Requests
  <2> QED
    BY <1>10, <2>1, PlainIs, JobObject DEF Sound
<1> QED
  BY <1>1, <1>2, <1>3, <1>4, <1>5, <1>6, <1>7, <1>8, <1>9, <1>10, <1>11 DEF About, Files

LEMMA ServeIs ==
  ASSUME NEW s \in Servers, NEW j, NEW r, Sound(j, r)
  PROVE  /\ Effect(s, Serve(s, r).server, r)
         /\ r.op = "post" /\ Serve(s, r).status = 200 => Serve(s, r).server.body[r.obj] = "ours"
<1>1. CASE r.op \in {"get", "put", "post", "upload", "delete"}
  <2>1. Serve(s, r) = ServeObject(s, r.op, r.obj)
    BY <1>1 DEF Serve
  <2>2. r.obj \in Objects /\ (r.op = "upload" => Files(r.obj))
    BY <1>1 DEF Sound
  <2> QED
    BY <1>1, <2>1, <2>2, ServeObjectIs
<1>2. CASE r.op \in {"put_key", "post_key"}
  <2>1. Serve(s, r) = ServeKey(s, r.op, r.obj, r.arg)
    BY <1>2 DEF Serve
  <2> QED
    BY <1>2, <2>1, ServeKeyIs DEF Sound
<1>3. CASE r.op = "assign"
  <2>1. Serve(s, r) = ServeAssign(s, r.obj, r.arg)
    BY <1>3 DEF Serve
  <2> QED
    BY <1>3, <2>1, ServeAssignIs DEF Sound
<1>4. CASE r.op = "members"
  <2>1. Serve(s, r) = ServePrincipals(s, r)
    BY <1>4 DEF Serve
  <2> QED
    BY <1>4, <2>1, ServeMembersIs DEF Sound
<1>5. CASE r.op = "acl"
  <2>1. Serve(s, r) = ServePrincipals(s, r)
    BY <1>5 DEF Serve
  <2> QED
    BY <1>5, <2>1, ServeACLIs DEF Sound
<1>6. CASE r.op = "associate"
  <2>1. Serve(s, r) = ServePrincipals(s, r)
    BY <1>6 DEF Serve
  <2> QED
    BY <1>6, <2>1, AssociateIs DEF Sound
<1> QED
  BY <1>1, <1>2, <1>3, <1>4, <1>5, <1>6 DEF Sound

-----------------------------------------------------------------------------
(* The invariant.                                                          *)

StageNames ==
    {"users", "members", "container", "group", "client", "user", "environment", "cookbook",
     "artifact", "role", "databag", "item", "node", "policy", "policygroup",
     "membership", "acls", "purge", "done"}

LEMMA StagesAre ==
  /\ Len(Stages) = 19 /\ Stages \in [1..19 -> StageNames]
  /\ \A i, k \in 1..19 : Stages[i] = Stages[k] => i = k
  /\ Stages[19] = "done"
<1>1. Len(Stages) = 19 /\ Stages[19] = "done"
  BY DEF Stages
<1>2. Stages \in [1..19 -> StageNames]
  BY DEF Stages, StageNames
<1>3. \A i, k \in 1..19 : Stages[i] = Stages[k] => i = k
  BY DEF Stages
<1> QED
  BY <1>1, <1>2, <1>3

\* Nothing of somebody else's is replaced: who would replace has made it.
Mine(j, state, s) ==
    state.at = "sending" => s.body[j[2]] = "ours" \/ Careful(j[2], state.todo)

StageOK == stage \in 1..19 /\ faults \in 0..MaxFaults
ServerOK == server \in Servers
JobsOK ==
    /\ jobs = [j \in DOMAIN jobs |-> jobs[j]]
    /\ \A j \in DOMAIN jobs :
          /\ About(j) /\ StageName(j) = Stages[stage] /\ (j[1] = "purge" => opts.purge)
          /\ JobIs(j, jobs[j])
MineOK == ~opts.overwrite => \A j \in DOMAIN jobs : Mine(j, jobs[j], server)
PoolOK == IsFiniteSet(Active) /\ Cardinality(Active) <= Workers
CacheOK ==
    /\ cache \in [{"user", "client", "group"} -> {None} \union (SUBSET Principals)]
    /\ \A k \in {"user", "client", "group"} : cache[k] = None \/ \A p \in cache[k] : p[1] = k
ReportOK ==
    /\ \A j \in (written \union failed) \union skipped :
          About(j) /\ \E i \in 1..stage : StageName(j) = Stages[i]
    /\ skipped \intersect (written \union failed) = {}
    /\ \A j \in DOMAIN jobs :
          /\ j \in skipped => jobs[j].at = "ended"
          /\ j \in written \union failed => jobs[j].at \notin {"waiting", "asking"}

TInv ==
    StageOK /\ ServerOK /\ JobsOK /\ MineOK /\ PoolOK /\ CacheOK /\ ReportOK

\* What a step of a job does to its state and to the report.
Step(j, n) ==
    /\ jobs' = [jobs EXCEPT ![j] = n] /\ JobIs(j, n)
    /\ jobs[j].at # "ended"
    /\ jobs[j].at = "waiting" => Cardinality(Active) < Limit
    /\ opts' = opts /\ stage' = stage /\ faults' \in 0..MaxFaults
    /\ written' \in {written, written \union {j}}
    /\ skipped' \in {skipped, skipped \union {j}}
    /\ failed' \in {failed, failed \union {j}}
    /\ skipped' # skipped => jobs[j].at = "asking" /\ n.at = "ended"
                             /\ written' = written /\ failed' = failed
    /\ n.at \in {"waiting", "asking"} =>
          /\ jobs[j].at \in {"waiting", "asking"}
          /\ written' = written /\ failed' = failed /\ skipped' = skipped

\* What it does to the destination.
Served(j) ==
    \/ server' = server
    \/ /\ jobs[j].at \in {"asking", "sending"}
       /\ Effect(server, server', Head(jobs[j].todo))

-----------------------------------------------------------------------------
(* The parts of the invariant, one by one.                                 *)

LEMMA HeadIs ==
  ASSUME JobsOK, NEW j \in DOMAIN jobs, jobs[j].at \in {"asking", "sending"}
  PROVE  /\ jobs[j].todo \in Seq(Requests(j)) /\ jobs[j].todo # <<>>
         /\ Head(jobs[j].todo) = jobs[j].todo[1] /\ 1 \in DOMAIN jobs[j].todo
         /\ Head(jobs[j].todo) \in Requests(j) /\ Sound(j, Head(jobs[j].todo))
         /\ Tail(jobs[j].todo) \in Seq(Requests(j))
         /\ jobs[j].at = "asking" => Head(jobs[j].todo) = Req("get", j[2])
<1> DEFINE todo == jobs[j].todo
<1>1. JobIs(j, jobs[j]) /\ About(j)
  BY DEF JobsOK
<1>2. todo \in Seq(Requests(j))
  BY <1>1 DEF JobIs, JobStates
<1>3. todo # <<>> /\ (jobs[j].at = "asking" => todo = <<Req("get", j[2])>>)
  BY <1>1 DEF JobIs
<1> HIDE DEF todo
<1>4. Head(todo) = todo[1] /\ Head(todo) \in Requests(j) /\ Tail(todo) \in Seq(Requests(j))
      /\ 1 \in DOMAIN todo
  BY <1>2, <1>3, EmptySeq
<1>5. Sound(j, Head(todo))
  BY <1>1, <1>4, RequestsAre
<1>6. jobs[j].at = "asking" => Head(todo) = Req("get", j[2])
  BY <1>3
<1> QED
  BY <1>2, <1>3, <1>4, <1>5, <1>6 DEF todo

LEMMA JobsStep ==
  ASSUME JobsOK, NEW j \in DOMAIN jobs, NEW n, Step(j, n)
  PROVE  JobsOK' /\ DOMAIN jobs' = DOMAIN jobs /\ jobs'[j] = n
         /\ \A k \in DOMAIN jobs : k # j => jobs'[k] = jobs[k]
<1>1. DOMAIN jobs' = DOMAIN jobs /\ jobs'[j] = n /\ \A k \in DOMAIN jobs : k # j => jobs'[k] = jobs[k]
  BY DEF Step, JobsOK
<1>2. jobs' = [k \in DOMAIN jobs' |-> jobs'[k]]
  BY DEF Step, JobsOK
<1>3. ASSUME NEW k \in DOMAIN jobs'
      PROVE  /\ About(k) /\ StageName(k) = Stages[stage'] /\ (k[1] = "purge" => opts'.purge)
             /\ JobIs(k, jobs'[k])
  <2>1. k \in DOMAIN jobs /\ stage' = stage /\ opts' = opts
    BY <1>1 DEF Step
  <2>2. About(k) /\ StageName(k) = Stages[stage] /\ (k[1] = "purge" => opts.purge)
        /\ JobIs(k, jobs[k])
    BY <2>1 DEF JobsOK
  <2>3. JobIs(k, jobs'[k])
    BY <1>1, <2>1, <2>2 DEF Step
  <2> QED
    BY <2>1, <2>2, <2>3
<1> QED
  BY <1>1, <1>2, <1>3 DEF JobsOK

LEMMA LimitIs == Limit \in Nat /\ Limit <= Workers
  BY TransferAssumption DEF Limit

LEMMA PoolStep ==
  ASSUME JobsOK, PoolOK, NEW j \in DOMAIN jobs, NEW n, Step(j, n)
  PROVE  PoolOK'
<1>1. Active' \subseteq Active \union {j}
  BY JobsStep DEF Active
<1>2. Cardinality(Active) \in Nat /\ IsFiniteSet(Active \union {j})
  BY FS_CardinalityType, FS_AddElement DEF PoolOK
<1>3. Cardinality(Active') <= Cardinality(Active \union {j}) /\ IsFiniteSet(Active')
  BY <1>1, <1>2, FS_Subset
<1>4. Workers \in Nat
  BY TransferAssumption
<1>5. CASE jobs[j].at = "waiting"
  <2>1. Cardinality(Active \union {j}) <= Cardinality(Active) + 1
    BY <1>2, FS_AddElement DEF PoolOK
  <2>2. Cardinality(Active) < Limit
    BY <1>5 DEF Step
  <2>3. Cardinality(Active \union {j}) \in Nat /\ Cardinality(Active') \in Nat
    BY <1>2, <1>3, FS_CardinalityType
  <2> HIDE DEF Active
  <2> QED
    BY <1>2, <1>3, <1>4, <2>1, <2>2, <2>3, LimitIs DEF PoolOK
<1>6. CASE jobs[j].at # "waiting"
  <2>1. j \in Active
    BY <1>6 DEF Active, Step
  <2>2. Active \union {j} = Active
    BY <2>1
  <2>3. Cardinality(Active') \in Nat
    BY <1>3, FS_CardinalityType
  <2> QED
    BY <1>2, <1>3, <1>4, <2>2, <2>3 DEF PoolOK
<1> QED
  BY <1>5, <1>6

LEMMA ReportStep ==
  ASSUME StageOK, JobsOK, ReportOK, NEW j \in DOMAIN jobs, NEW n, Step(j, n)
  PROVE  ReportOK'
<1>1. About(j) /\ StageName(j) = Stages[stage] /\ stage \in 1..stage
  BY DEF JobsOK, StageOK
<1>2. j \notin skipped
  BY DEF Step, ReportOK
<1>3. \A k \in (written' \union failed') \union skipped' :
          About(k) /\ \E i \in 1..stage' : StageName(k) = Stages[i]
  <2> SUFFICES ASSUME NEW k \in (written' \union failed') \union skipped'
               PROVE  About(k) /\ \E i \in 1..stage : StageName(k) = Stages[i]
    BY DEF Step
  <2>1. k = j \/ k \in (written \union failed) \union skipped
    BY DEF Step
  <2> QED
    BY <1>1, <2>1 DEF ReportOK
<1>4. skipped' \intersect (written' \union failed') = {}
  <2>1. CASE skipped' = skipped
    BY <1>2, <2>1 DEF Step, ReportOK
  <2>2. CASE skipped' # skipped
    BY <2>2 DEF Step, ReportOK
  <2> QED
    BY <2>1, <2>2
<1>5. ASSUME NEW k \in DOMAIN jobs'
      PROVE  /\ k \in skipped' => jobs'[k].at = "ended"
             /\ k \in written' \union failed' => jobs'[k].at \notin {"waiting", "asking"}
  <2>1. CASE k = j
    BY <1>2, <2>1, JobsStep DEF Step, ReportOK
  <2>2. CASE k # j
    BY <2>2, JobsStep DEF Step, ReportOK
  <2> QED
    BY <2>1, <2>2
<1> QED
  BY <1>3, <1>4, <1>5 DEF ReportOK

\* In the purge nobody replaces anything.
LEMMA PurgeCareful ==
  ASSUME NEW j, j[1] = "purge", NEW state, JobIs(j, state)
  PROVE  Careful(j[2], state.todo)
<1>1. state.todo \in Seq(Plain({"delete"}, j[2]))
  BY DEF JobIs, JobStates, Requests
<1>2. \A i \in DOMAIN state.todo : state.todo[i] \in Plain({"delete"}, j[2])
  BY <1>1
<1>3. \A i \in DOMAIN state.todo : state.todo[i].op = "delete"
  BY <1>2, PlainIs
<1> QED
  BY <1>3 DEF Careful, Replaces

\* The purge is a stage of its own.
LEMMA PurgeStage ==
  ASSUME JobsOK, NEW j \in DOMAIN jobs
  PROVE  j[1] = "purge" <=> Stages[stage] = "purge"
<1>1. About(j) /\ StageName(j) = Stages[stage]
  BY DEF JobsOK
<1>2. j[1] = "item" => j[2][1] \in Kinds
  BY <1>1, JobObject
<1>3. CASE j[1] = "item"
  BY <1>1, <1>2, <1>3 DEF StageName, Kinds
<1>4. CASE j[1] # "item"
  BY <1>1, <1>4 DEF StageName, About
<1> QED
  BY <1>3, <1>4

LEMMA DeleteIs ==
  ASSUME JobsOK, NEW j \in DOMAIN jobs, jobs[j].at \in {"asking", "sending"},
         Head(jobs[j].todo).op = "delete"
  PROVE  /\ Stages[stage] = "purge" /\ opts.purge /\ Purgeable(j[2])
         /\ Head(jobs[j].todo).obj = j[2]
<1>1. Sound(j, Head(jobs[j].todo)) /\ About(j) /\ (j[1] = "purge" => opts.purge)
  BY HeadIs DEF JobsOK
<1>2. j[1] = "purge" /\ Head(jobs[j].todo).obj = j[2]
  BY <1>1 DEF Sound
<1>3. Stages[stage] = "purge"
  BY <1>2, PurgeStage
<1> QED
  BY <1>1, <1>2, <1>3 DEF About

\* Who replaces something has made it.
LEMMA ReplaceIs ==
  ASSUME JobsOK, MineOK, ~opts.overwrite, NEW j \in DOMAIN jobs,
         jobs[j].at \in {"asking", "sending"}, Replaces(Head(jobs[j].todo))
  PROVE  Head(jobs[j].todo).obj = j[2] /\ server.body[j[2]] = "ours"
<1> DEFINE r == Head(jobs[j].todo)
<1>1. Sound(j, r) /\ r = jobs[j].todo[1] /\ 1 \in DOMAIN jobs[j].todo
      /\ (jobs[j].at = "asking" => r = Req("get", j[2]))
  BY HeadIs
<1>2. r.op \in {"put", "put_key", "post_key"}
  BY DEF Replaces
<1>3. jobs[j].at = "sending"
  BY <1>1, <1>2, RequestIs
<1>4. r.obj = j[2]
  BY <1>1, <1>2 DEF Sound
<1>5. ~Careful(j[2], jobs[j].todo)
  BY <1>1, <1>2, RequestIs DEF Careful
<1> QED
  BY <1>3, <1>4, <1>5 DEF MineOK, Mine

LEMMA MineStep ==
  ASSUME JobsOK, ServerOK, MineOK, NEW j \in DOMAIN jobs, NEW n, Step(j, n), Served(j),
         ~opts.overwrite => Mine(j, n, server')
  PROVE  MineOK'
<1>1. opts' = opts /\ DOMAIN jobs' = DOMAIN jobs /\ jobs'[j] = n
      /\ \A k \in DOMAIN jobs : k # j => jobs'[k] = jobs[k]
  BY JobsStep DEF Step
<1> SUFFICES ASSUME ~opts.overwrite, NEW k \in DOMAIN jobs, k # j, jobs[k].at = "sending"
             PROVE  server'.body[k[2]] = "ours" \/ Careful(k[2], jobs[k].todo)
  BY <1>1 DEF MineOK, Mine
<1>2. About(k) /\ JobIs(k, jobs[k])
  BY DEF JobsOK
<1>3. server.body[k[2]] = "ours" \/ Careful(k[2], jobs[k].todo)
  BY DEF MineOK, Mine
<1>4. CASE server' = server
  BY <1>3, <1>4
<1>5. CASE k[1] = "purge"
  BY <1>2, <1>5, PurgeCareful
<1>6. CASE k[1] = "acl"
  <2>1. jobs[k].todo \in Seq(ACLReqs(k[2]))
    BY <1>2, <1>6 DEF JobIs, JobStates, Requests
  <2>2. \A i \in DOMAIN jobs[k].todo : jobs[k].todo[i] \in ACLReqs(k[2])
    BY <2>1
  <2>3. \A i \in DOMAIN jobs[k].todo : jobs[k].todo[i].op = "acl"
    BY <2>2, ACLReqIs
  <2> QED
    BY <2>3 DEF Careful, Replaces
<1>7. CASE server' # server /\ k[1] \notin {"purge", "acl"}
  <2>1. jobs[j].at \in {"asking", "sending"} /\ Effect(server, server', Head(jobs[j].todo))
    BY <1>7 DEF Served
  <2>2. Head(jobs[j].todo).op # "delete"
    BY <1>7, <2>1, DeleteIs, PurgeStage
  <2>3. k[2] \in Objects
    BY <1>2, <1>7, JobObject
  <2> QED
    BY <1>3, <2>1, <2>2, <2>3 DEF Effect
<1> QED
  BY <1>4, <1>5, <1>6, <1>7

\* What a step says of the objects of others, and of what disappears.
Spared(o) ==
    /\ Stages[stage] = "purge" /\ opts.purge
    /\ o \notin Plan /\ \E p \in Plan : p[1] = o[1] \/ (o[1] = "item" /\ p[1] = "databag")
    /\ o \notin {Self, DefaultEnv} /\ o[1] \notin {"container", "user"}
    /\ o[1] = "group" => o \notin USAGs /\ o[2] \notin {"admins", "billing-admins", "clients", "users",
                                                      "public_key_read_access"}

OthersSame ==
    ~opts.overwrite =>
        \A o \in Objects : server.body[o] = "theirs" /\ o[1] # "cookbook" =>
            /\ server.body'[o] # "ours"
            /\ HasKeys(o) /\ Present(server', o) => server.keys'[o] = server.keys[o]

OnlyPurged ==
    \A o \in Objects : Present(server, o) /\ server.body'[o] = "absent" => Spared(o)

LEMMA OthersServed ==
  ASSUME JobsOK, ServerOK, MineOK, NEW j \in DOMAIN jobs, Served(j)
  PROVE  OthersSame
<1> SUFFICES ASSUME ~opts.overwrite, NEW o \in Objects, server.body[o] = "theirs",
                    o[1] # "cookbook"
             PROVE  /\ server'.body[o] # "ours"
                    /\ HasKeys(o) /\ Present(server', o) => server'.keys[o] = server.keys[o]
  BY DEF OthersSame
<1>1. CASE server' = server
  BY <1>1
<1>2. CASE server' # server
  <2> DEFINE r == Head(jobs[j].todo)
  <2>1. jobs[j].at \in {"asking", "sending"} /\ Effect(server, server', r)
    BY <1>2 DEF Served
  <2>2. server' \in Servers
    BY <2>1 DEF Effect
  <2>3. Present(server', o) => server'.body[o] # "absent"
    BY <2>2, PresentIs
  <2>4. ~(r.op \in {"put", "put_key", "post_key"} /\ o = r.obj)
    BY <2>1, ReplaceIs DEF Replaces
  <2> QED
    BY <2>1, <2>3, <2>4 DEF Effect, HasKeys, Keyed
<1> QED
  BY <1>1, <1>2

LEMMA PurgeServed ==
  ASSUME JobsOK, ServerOK, NEW j \in DOMAIN jobs, Served(j)
  PROVE  OnlyPurged
<1> SUFFICES ASSUME NEW o \in Objects, Present(server, o), server'.body[o] = "absent"
             PROVE  Spared(o)
  BY DEF OnlyPurged
<1>1. server.body[o] # "absent"
  BY PresentIs DEF ServerOK
<1> DEFINE r == Head(jobs[j].todo)
<1>2. jobs[j].at \in {"asking", "sending"} /\ Effect(server, server', r)
  BY <1>1 DEF Served
<1>3. r.op = "delete" /\ (o = r.obj \/ InBag(o, r.obj))
  BY <1>1, <1>2 DEF Effect
<1>4. Stages[stage] = "purge" /\ opts.purge /\ Purgeable(j[2]) /\ r.obj = j[2]
  BY <1>2, <1>3, DeleteIs
<1>5. CASE o = r.obj
  <2>1. \E p \in Plan : p[1] = o[1]
    BY <1>4, <1>5 DEF Purgeable, Of
  <2> QED
    BY <1>4, <1>5, <2>1 DEF Purgeable, Spared, BuiltIn
<1>6. CASE InBag(o, r.obj)
  <2>1. o[1] = "item" /\ j[2] = <<"databag", o[2], None>>
    BY <1>4, <1>6 DEF InBag
  <2>2. j[2] \notin Plan /\ Of("databag") # {}
    BY <1>4, <2>1 DEF Purgeable
  <2>3. o \notin Plan
    <3>1. o \in Plan => o \in Of("item")
      BY <2>1 DEF Of
    <3> QED
      BY <2>1, <2>2, <3>1, TransferAssumption
  <2>4. o # Self /\ o # DefaultEnv /\ o[1] \notin {"container", "user", "group"}
    BY <2>1, TransferAssumption DEF DefaultEnv
  <2>5. \E p \in Plan : p[1] = "databag"
    BY <2>2 DEF Of
  <2> QED
    BY <1>4, <2>1, <2>3, <2>4, <2>5 DEF Spared
<1> QED
  BY <1>3, <1>5, <1>6

-----------------------------------------------------------------------------
(* What the actions of a job do.                                           *)

LEMMA StateIs ==
  ASSUME NEW at, NEW todo, NEW left, NEW kept
  PROVE  /\ State(at, todo, left, kept).at = at /\ State(at, todo, left, kept).todo = todo
         /\ State(at, todo, left, kept).left = left /\ State(at, todo, left, kept).kept = kept
  BY DEF State

LEMMA OverIs ==
  ASSUME NEW j
  PROVE  /\ JobIs(j, Over) /\ Over.at = "ended" /\ \A s : Mine(j, Over, s)
         /\ JobIs(j, Waiting) /\ Waiting.at = "waiting" /\ \A s : Mine(j, Waiting, s)
<1>1. <<>> \in Seq(Requests(j))
  OBVIOUS
<1> QED
  BY <1>1 DEF JobIs, JobStates, Mine, State, Over, Waiting

LEMMA SendingIs ==
  ASSUME NEW j, NEW todo \in Seq(Requests(j)), todo # <<>>
  PROVE  JobIs(j, State("sending", todo, {}, {}))
  BY DEF JobIs, JobStates, State

LEMMA AskingIs ==
  ASSUME NEW j, Req("get", j[2]) \in Requests(j), j[1] \in {"user", "item"},
         ~(j[1] = "item" /\ j[2][1] = "policygroup")
  PROVE  JobIs(j, State("asking", <<Req("get", j[2])>>, {}, {}))
<1>1. <<Req("get", j[2])>> \in Seq(Requests(j))
  BY OneRequest
<1> QED
  BY <1>1 DEF JobIs, JobStates, State

LEMMA CheckingIs ==
  ASSUME NEW j, j[1] \in {"membership", "acl"},
         NEW left \in SUBSET Principals, NEW kept \in SUBSET Principals
  PROVE  JobIs(j, State("checking", <<>>, left, kept))
<1>1. <<>> \in Seq(Requests(j))
  OBVIOUS
<1> QED
  BY <1>1 DEF JobIs, JobStates, State

\* A job sends something next, or is over.
Goes(j, n) ==
    /\ jobs' = [jobs EXCEPT ![j] = n] /\ JobIs(j, n) /\ n.at \in {"sending", "ended"}
    /\ written' \in {written, written \union {j}}

LEMMA GoOnIs ==
  ASSUME NEW j, NEW todo \in Seq(Requests(j)), GoOn(j, todo)
  PROVE  \E n : Goes(j, n) /\ \A s : s.body[j[2]] = "ours" \/ Careful(j[2], todo) => Mine(j, n, s)
<1>1. CASE todo = <<>>
  BY <1>1, OverIs DEF GoOn, Ended, Goes
<1>2. CASE todo # <<>>
  <2> DEFINE n == State("sending", todo, {}, {})
  <2>1. jobs' = [jobs EXCEPT ![j] = n]
    BY <1>2 DEF GoOn, Becomes
  <2>2. JobIs(j, n) /\ n.at = "sending" /\ n.todo = todo
    BY <1>2, SendingIs, StateIs
  <2> HIDE DEF n
  <2>3. Goes(j, n)
    BY <2>1, <2>2 DEF GoOn, Goes
  <2>4. \A s : s.body[j[2]] = "ours" \/ Careful(j[2], todo) => Mine(j, n, s)
    BY <2>2 DEF Mine
  <2> QED
    BY <2>3, <2>4
<1> QED
  BY <1>1, <1>2

LEMMA FailsIs ==
  ASSUME JobsOK, NEW j \in DOMAIN jobs, Fails(j)
  PROVE  \E n : Goes(j, n) /\ failed' = failed \union {j} /\ \A s : Mine(j, n, s)
<1> DEFINE keyFailed == /\ j[1] = "user" /\ j \in written
                        /\ Head(jobs[j].todo).op \in {"put_key", "post_key"}
<1>1. failed' = failed \union {j} /\ written' \in {written, written \union {j}}
  BY DEF Fails
<1>2. CASE ~keyFailed
  BY <1>1, <1>2, OverIs DEF Fails, Ended, Goes
<1>3. CASE keyFailed
  <2> DEFINE todo == ACLRequests(j[2], Actors[j[2]])
             n == State("sending", todo, {}, {})
  <2>1. jobs' = [jobs EXCEPT ![j] = n]
    BY <1>3 DEF Fails, Becomes
  <2>2. About(j) /\ j[2] \in ACLObjects
    BY <1>3, JobObject DEF JobsOK
  <2>3. Actors[j[2]] \in SUBSET Principals
    BY <2>2, TransferAssumption
  <2>4. todo \in Seq(Give(j[2], Actors[j[2]])) /\ todo # <<>>
        /\ \A i \in DOMAIN todo : todo[i].op = "acl"
    BY <1>3, <2>3, ACLRequestsAre
  <2>5. Give(j[2], Actors[j[2]]) \subseteq Requests(j)
    BY <1>3 DEF Requests
  <2> HIDE DEF todo
  <2>6. todo \in Seq(Requests(j))
    BY <2>4, <2>5, Wider
  <2>7. JobIs(j, n) /\ n.at = "sending" /\ n.todo = todo
    BY <2>4, <2>6, SendingIs, StateIs
  <2>8. Careful(j[2], todo)
    BY <2>4 DEF Careful, Replaces
  <2> HIDE DEF n
  <2>9. \A s : Mine(j, n, s)
    BY <2>7, <2>8 DEF Mine
  <2> QED
    BY <1>1, <2>1, <2>7, <2>9 DEF Goes
<1> QED
  BY <1>2, <1>3

\* Whatever a job does.
Does(j) ==
    /\ \E n : Step(j, n) /\ (~opts.overwrite => Mine(j, n, server'))
    /\ Served(j) /\ CacheOK'

LEMMA LostIs ==
  ASSUME TInv, NEW j \in DOMAIN jobs, Lost(j)
  PROVE  Does(j)
<1> USE DEF TInv
<1> DEFINE r == Head(jobs[j].todo)
<1>1. jobs[j].at \in {"asking", "sending"} /\ Sound(j, r) /\ JobIs(j, jobs[j])
  BY HeadIs DEF Lost, JobsOK
<1>2. server' = server \/ Effect(server, server', r)
  BY <1>1, ServeIs DEF Lost, ServerOK
<1>3. Served(j)
  BY <1>1, <1>2 DEF Served
<1>4. CacheOK'
  BY DEF Lost, CacheOK
<1>5. faults' \in 0..MaxFaults /\ opts' = opts /\ stage' = stage /\ skipped' = skipped
  BY TransferAssumption DEF Lost, StageOK
<1>6. CASE jobs[j].tries + 1 < Retries
  <2> DEFINE n == [jobs[j] EXCEPT !.tries = @ + 1]
  <2>1. jobs' = [jobs EXCEPT ![j] = n] /\ written' = written /\ failed' = failed
    BY <1>6 DEF Lost
  <2>2. n \in JobStates(j) /\ n.at = jobs[j].at /\ n.todo = jobs[j].todo
    BY <1>1 DEF JobIs, JobStates
  <2> HIDE DEF n
  <2>3. JobIs(j, n)
    BY <1>1, <2>2 DEF JobIs
  <2>4. Step(j, n)
    BY <1>1, <1>5, <2>1, <2>2, <2>3 DEF Step
  <2>5. ASSUME ~opts.overwrite, n.at = "sending"
        PROVE  server'.body[j[2]] = "ours" \/ Careful(j[2], n.todo)
    <3>1. server.body[j[2]] = "ours" \/ Careful(j[2], n.todo)
      BY <2>2, <2>5 DEF MineOK, Mine
    <3>2. CASE server' = server
      BY <3>1, <3>2
    <3>3. CASE r.op = "delete"
      <4>1. j[1] = "purge"
        BY <1>1, <3>3 DEF Sound
      <4> QED
        BY <2>3, <4>1, PurgeCareful
    <3>4. CASE j[1] = "acl"
      <4>1. n.todo \in Seq(ACLReqs(j[2]))
        BY <2>3, <3>4 DEF JobIs, JobStates, Requests
      <4>2. \A i \in DOMAIN n.todo : n.todo[i].op = "acl"
        BY <4>1, ACLReqIs
      <4> QED
        BY <4>2 DEF Careful, Replaces
    <3>5. CASE server' # server /\ r.op # "delete" /\ j[1] # "acl"
      <4>1. j[2] \in Objects
        BY <3>5, JobObject DEF JobsOK
      <4> QED
        BY <1>2, <3>1, <3>5, <4>1 DEF Effect
    <3> QED
      BY <3>2, <3>3, <3>4, <3>5
  <2> QED
    BY <1>3, <1>4, <2>4, <2>5 DEF Does, Mine
<1>7. CASE ~(jobs[j].tries + 1 < Retries)
  <2>1. Fails(j)
    BY <1>7 DEF Lost
  <2>2. PICK n : Goes(j, n) /\ failed' = failed \union {j} /\ \A s : Mine(j, n, s)
    BY <2>1, FailsIs
  <2>3. Step(j, n)
    BY <1>1, <1>5, <2>2 DEF Step, Goes
  <2> QED
    BY <1>3, <1>4, <2>2, <2>3 DEF Does
<1> QED
  BY <1>6, <1>7

LEMMA RefusedIs ==
  ASSUME TInv, NEW j \in DOMAIN jobs, Refused(j)
  PROVE  Does(j)
<1> USE DEF TInv
<1>1. PICK n : Goes(j, n) /\ failed' = failed \union {j} /\ \A s : Mine(j, n, s)
  BY FailsIs DEF Refused
<1>2. faults' \in 0..MaxFaults /\ opts' = opts /\ stage' = stage /\ skipped' = skipped
      /\ server' = server /\ jobs[j].at \in {"asking", "sending"}
  BY TransferAssumption DEF Refused, StageOK
<1>3. Step(j, n)
  BY <1>1, <1>2 DEF Step, Goes
<1>4. CacheOK'
  BY DEF Refused, CacheOK
<1> QED
  BY <1>1, <1>2, <1>3, <1>4 DEF Does, Served

\* A key that is not there is posted instead of put.
LEMMA PostKeyIs ==
  ASSUME NEW j, About(j), NEW r \in Requests(j), r.op = "put_key"
  PROVE  [r EXCEPT !.op = "post_key"] \in Requests(j)
<1>1. r \in KeyReqs(j[2]) /\ KeyReqs(j[2]) \subseteq Requests(j)
  BY RequestsAre DEF Sound
<1>2. [r EXCEPT !.op = "post_key"] \in KeyReqs(j[2])
  BY <1>1 DEF KeyReqs, With
<1> QED
  BY <1>1, <1>2

LEMMA AskedIs ==
  ASSUME TInv, NEW j \in DOMAIN jobs, Answered(j), jobs[j].at = "asking"
  PROVE  Does(j)
<1> USE DEF TInv
<1> DEFINE r == Head(jobs[j].todo)
           a == Serve(server, r)
           skip == a.status = 200 /\ (~opts.overwrite \/ r.obj[1] = "artifact")
           e == a.status = 200
           todo == IF j[1] = "user" THEN WriteUser(r.obj, e) ELSE Write(r.obj, e)
<1>1. About(j) /\ JobIs(j, jobs[j]) /\ Sound(j, r) /\ r.op = "get" /\ r.obj = j[2]
  BY HeadIs, RequestIs DEF JobsOK
<1>2. server' = a.server /\ Effect(server, server', r)
  BY <1>1, ServeIs DEF Answered, ServerOK
<1>3. Served(j)
  BY <1>2 DEF Served
<1>4. CacheOK'
  BY DEF Answered, CacheOK
<1>5. faults' \in 0..MaxFaults /\ opts' = opts /\ stage' = stage
  BY DEF Answered, StageOK
<1>6. CASE skip
  <2>1. Ended(j) /\ skipped' = skipped \union {j} /\ UNCHANGED <<written, failed>>
    BY <1>6 DEF Answered
  <2>2. Step(j, Over)
    BY <1>5, <2>1, OverIs DEF Step, Ended
  <2> QED
    BY <1>3, <1>4, <2>2, OverIs DEF Does
<1>7. CASE ~skip /\ Files(r.obj) /\ r.obj \notin source
  <2>1. Fails(j) /\ skipped' = skipped
    BY <1>7 DEF Answered
  <2>2. PICK n : Goes(j, n) /\ failed' = failed \union {j} /\ \A s : Mine(j, n, s)
    BY <2>1, FailsIs
  <2>3. Step(j, n)
    BY <1>5, <2>1, <2>2 DEF Step, Goes
  <2> QED
    BY <1>3, <1>4, <2>2, <2>3 DEF Does
<1>8. CASE ~skip /\ ~(Files(r.obj) /\ r.obj \notin source)
  <2>1. GoOn(j, todo) /\ skipped' = skipped /\ failed' = failed
    BY <1>8 DEF Answered
  <2>2. j[1] \in {"user", "item"}
    BY <1>1 DEF JobIs
  <2>3. e \in BOOLEAN /\ (~opts.overwrite => ~e)
    BY <1>8
  <2> HIDE DEF e
  <2>4. todo \in Seq(Requests(j)) /\ (~e => Careful(j[2], todo))
    <3>1. CASE j[1] = "user"
      <4>1. j[2] \in Users
        BY <1>1, <3>1 DEF About
      <4> QED
        BY <1>1, <2>3, <3>1, <4>1, WriteUserIs
    <3>2. CASE j[1] = "item"
      <4>1. j[2] \in Plan /\ j[2][1] # "group"
        BY <1>1, <3>2 DEF About
      <4>2. todo = Write(j[2], e)
        BY <1>1, <3>2
      <4> HIDE DEF todo
      <4> QED
        BY <2>3, <3>2, <4>1, <4>2, WriteIs
    <3> QED
      BY <2>2, <3>1, <3>2
  <2> HIDE DEF todo
  <2>5. PICK n : Goes(j, n)
                 /\ \A s : s.body[j[2]] = "ours" \/ Careful(j[2], todo) => Mine(j, n, s)
    BY <2>1, <2>4, GoOnIs
  <2>6. Step(j, n)
    BY <1>5, <2>1, <2>5 DEF Step, Goes
  <2> QED
    BY <1>3, <1>4, <2>3, <2>4, <2>5, <2>6 DEF Does
<1> QED
  BY <1>6, <1>7, <1>8

\* What is sent next is as careful as what was to be sent.
LEMMA TailCareful ==
  ASSUME NEW j, About(j), NEW todo \in Seq(Requests(j)), todo # <<>>, Careful(j[2], todo),
         NEW s \in Servers,
         \/ Serve(s, Head(todo)).status = 200
         \/ Tolerated(j, Head(todo), Serve(s, Head(todo)).status)
  PROVE  Serve(s, Head(todo)).server.body[j[2]] = "ours" \/ Careful(j[2], Tail(todo))
<1>1. Head(todo) = todo[1] /\ Head(todo) \in Requests(j)
  BY EmptySeq
<1>2. ASSUME \A i \in DOMAIN todo : ~Replaces(todo[i])
      PROVE  Careful(j[2], Tail(todo))
  <2>1. \A i \in DOMAIN Tail(todo) : i + 1 \in DOMAIN todo /\ Tail(todo)[i] = todo[i + 1]
    BY HeadTailProperties
  <2> QED
    BY <1>2, <2>1 DEF Careful
<1>3. ASSUME todo[1] = Req("post", j[2]), Serve(s, Head(todo)).status = 200
      PROVE  Serve(s, Head(todo)).server.body[j[2]] = "ours"
  <2>1. Head(todo).op = "post" /\ Head(todo).obj = j[2]
    BY <1>1, <1>3, RequestIs
  <2> QED
    BY <1>1, <1>3, <2>1, RequestsAre, ServeIs
<1>4. ASSUME todo[1] = Req("post", j[2]), Tolerated(j, Head(todo), Serve(s, Head(todo)).status)
      PROVE  \A i \in DOMAIN todo : ~Replaces(todo[i])
  <2>1. j[1] = "shell" \/ j[2][1] = "policy"
    BY <1>1, <1>4, RequestIs DEF Tolerated
  <2>2. ASSUME NEW i \in DOMAIN todo
        PROVE  todo[i].op \in {"get", "post", "acl", "associate", "delete", "members"}
    <3>1. todo[i] \in Requests(j)
      OBVIOUS
    <3>2. CASE j[1] = "shell"
      <4>1. Requests(j) = Plain({"post"}, j[2])
        BY <3>2 DEF Requests
      <4> QED
        BY <3>1, <4>1, PlainIs
    <3>3. CASE j[1] = "item" /\ j[2][1] = "policy"
      <4>1. Requests(j) = Plain({"get", "post"}, j[2])
        BY <3>3 DEF Requests, Files
      <4> QED
        BY <3>1, <4>1, PlainIs
    <3>4. CASE j[1] # "shell" /\ j[1] # "item" /\ j[2][1] = "policy"
      <4>1. j[1] # "user" /\ j[1] # "member" /\ j[1] # "membership"
        BY <3>4, JobObject, TransferAssumption DEF About
      <4>2. CASE j[1] = "acl"
        <5>1. Requests(j) = ACLReqs(j[2])
          BY <4>2 DEF Requests
        <5> QED
          BY <3>1, <5>1, ACLReqIs
      <4>3. CASE j[1] = "purge"
        <5>1. Requests(j) = Plain({"delete"}, j[2])
          BY <4>3 DEF Requests
        <5> QED
          BY <3>1, <5>1, PlainIs
      <4> QED
        BY <3>4, <4>1, <4>2, <4>3 DEF About
    <3> QED
      BY <2>1, <3>2, <3>3, <3>4
  <2> QED
    BY <2>2 DEF Replaces
<1> QED
  BY <1>2, <1>3, <1>4 DEF Careful

LEMMA StaysOurs ==
  ASSUME TInv, NEW j \in DOMAIN jobs, NEW t, NEW r, Sound(j, r), Effect(server, t, r),
         j[1] \notin {"purge", "acl"}, server.body[j[2]] = "ours"
  PROVE  t.body[j[2]] = "ours"
<1>1. r.op # "delete"
  BY DEF Sound
<1>2. j[2] \in Objects
  BY JobObject DEF TInv, JobsOK
<1> QED
  BY <1>1, <1>2 DEF Effect

LEMMA ACLCareful ==
  ASSUME NEW j, j[1] = "acl", NEW state, JobIs(j, state)
  PROVE  Careful(j[2], state.todo)
<1>1. state.todo \in Seq(ACLReqs(j[2]))
  BY DEF JobIs, JobStates, Requests
<1>2. \A i \in DOMAIN state.todo : state.todo[i].op = "acl"
  BY <1>1, ACLReqIs
<1> QED
  BY <1>2 DEF Careful, Replaces

LEMMA MineIf ==
  ASSUME NEW j, NEW n, JobIs(j, n), NEW t,
         j[1] \notin {"purge", "acl"} => Mine(j, n, t)
  PROVE  Mine(j, n, t)
  BY PurgeCareful, ACLCareful DEF Mine

LEMMA SentIs ==
  ASSUME TInv, NEW j \in DOMAIN jobs, Answered(j), jobs[j].at = "sending"
  PROVE  Does(j)
<1> USE DEF TInv
<1> DEFINE todo == jobs[j].todo
           r == Head(todo)
           a == Serve(server, r)
           good == a.status = 200 \/ Tolerated(j, r, a.status)
<1>1. About(j) /\ Sound(j, r) /\ todo \in Seq(Requests(j)) /\ todo # <<>>
      /\ r \in Requests(j) /\ Tail(todo) \in Seq(Requests(j)) /\ r = todo[1] /\ 1 \in DOMAIN todo
  BY HeadIs DEF JobsOK
<1>2. server' = a.server /\ Effect(server, server', r)
  BY <1>1, ServeIs DEF Answered, ServerOK
<1>3. Served(j)
  BY <1>2 DEF Served
<1>4. CacheOK'
  BY DEF Answered, CacheOK
<1>5. faults' \in 0..MaxFaults /\ opts' = opts /\ stage' = stage /\ skipped' = skipped
  BY DEF Answered, StageOK
<1>6. ~opts.overwrite => server.body[j[2]] = "ours" \/ Careful(j[2], todo)
  BY DEF MineOK, Mine
<1>7. CASE good
  <2>1. GoOn(j, Tail(todo)) /\ failed' = failed
    <3>1. j[1] = "member" => Requests(j) = Plain({"associate"}, j[2])
      BY DEF Requests
    <3>2. j[1] = "member" => r.op = "associate"
      BY <1>1, <3>1, PlainIs
    <3>3. ~(a.status = 409 /\ j[1] = "member")
      BY <1>7, <3>2 DEF Tolerated
    <3>4. ~(a.status = 404 /\ r.op = "put_key")
      BY <1>7 DEF Tolerated
    <3> QED
      BY <1>7, <3>3, <3>4 DEF Answered
  <2>2. PICK n : Goes(j, n)
                 /\ \A s : s.body[j[2]] = "ours" \/ Careful(j[2], Tail(todo)) => Mine(j, n, s)
    BY <1>1, <2>1, GoOnIs
  <2>3. Step(j, n)
    BY <1>5, <2>1, <2>2 DEF Step, Goes
  <2>4. ~opts.overwrite /\ Careful(j[2], todo) =>
            server'.body[j[2]] = "ours" \/ Careful(j[2], Tail(todo))
    BY <1>1, <1>2, <1>7, TailCareful DEF ServerOK
  <2>5. ~opts.overwrite /\ j[1] \notin {"purge", "acl"} => Mine(j, n, server')
    BY <1>1, <1>2, <1>6, <2>2, <2>4, StaysOurs
  <2>6. ~opts.overwrite => Mine(j, n, server')
    BY <2>2, <2>5, MineIf DEF Goes
  <2> QED
    BY <1>3, <1>4, <2>3, <2>6 DEF Does
<1>8. CASE ~good /\ a.status = 409 /\ j[1] = "member"
  <2>1. Ended(j) /\ UNCHANGED <<written, failed>>
    BY <1>8 DEF Answered
  <2>2. Step(j, Over)
    BY <1>5, <2>1, OverIs DEF Step, Ended
  <2> QED
    BY <1>3, <1>4, <2>2, OverIs DEF Does
<1>9. CASE ~good /\ a.status = 404 /\ r.op = "put_key"
  <2> DEFINE q == [r EXCEPT !.op = "post_key"]
             next == <<q>> \o Tail(todo)
             n == State("sending", next, {}, {})
  <2>1. jobs' = [jobs EXCEPT ![j] = n] /\ UNCHANGED <<written, failed>>
    BY <1>9 DEF Answered, Becomes
  <2>2. q \in Requests(j)
    BY <1>1, <1>9, PostKeyIs
  <2>3. <<q>> \in Seq(Requests(j)) /\ <<q>> # <<>>
    BY <2>2, OneRequest
  <2> HIDE DEF q
  <2>4. next \in Seq(Requests(j)) /\ next # <<>>
    BY <1>1, <2>3, Joined
  <2> HIDE DEF next
  <2>5. JobIs(j, n) /\ n.at = "sending"
    BY <2>4, SendingIs, StateIs
  <2> HIDE DEF n
  <2>6. Step(j, n)
    BY <1>5, <2>1, <2>5 DEF Step
  <2>7. ~Careful(j[2], todo)
    BY <1>1, <1>9, RequestIs DEF Careful, Replaces
  <2>8. ~opts.overwrite /\ j[1] \notin {"purge", "acl"} => server'.body[j[2]] = "ours"
    BY <1>1, <1>2, <1>6, <2>7, StaysOurs
  <2>9. ~opts.overwrite => Mine(j, n, server')
    BY <2>5, <2>8, MineIf DEF Mine
  <2> QED
    BY <1>3, <1>4, <2>6, <2>9 DEF Does
<1>10. CASE ~good /\ ~(a.status = 409 /\ j[1] = "member") /\ ~(a.status = 404 /\ r.op = "put_key")
  <2>1. Fails(j)
    BY <1>10 DEF Answered
  <2>2. PICK n : Goes(j, n) /\ failed' = failed \union {j} /\ \A s : Mine(j, n, s)
    BY <2>1, FailsIs
  <2>3. Step(j, n)
    BY <1>5, <2>2 DEF Step, Goes
  <2> QED
    BY <1>3, <1>4, <2>2, <2>3 DEF Does
<1> QED
  BY <1>7, <1>8, <1>9, <1>10

LEMMA StartIs ==
  ASSUME TInv, NEW j \in DOMAIN jobs, Start(j)
  PROVE  Does(j)
<1> USE DEF TInv
<1> DEFINE o == j[2]
           lacks == o \in Plan \ source
                    /\ (j[1] \in {"membership", "acl"} \/ (j[1] = "item" /\ ~Files(o)))
<1>1. About(j) /\ jobs[j].at = "waiting" /\ Cardinality(Active) < Limit
  BY DEF Start, JobsOK
<1>2. faults' \in 0..MaxFaults /\ opts' = opts /\ stage' = stage /\ skipped' = skipped
      /\ server' = server
  BY DEF Start, StageOK
<1>3. Served(j)
  BY <1>2 DEF Served
<1>4. CacheOK'
  BY DEF Start, CacheOK
<1>5. CASE lacks
  <2>1. Ended(j) /\ failed' = failed \union {j} /\ UNCHANGED written
    BY <1>5 DEF Start
  <2>2. Step(j, Over)
    BY <1>1, <1>2, <2>1, OverIs DEF Step, Ended
  <2> QED
    BY <1>3, <1>4, <2>2, OverIs DEF Does
<1>6. ASSUME NEW todo \in Seq(Requests(j)), Careful(o, todo), GoOn(j, todo), failed' = failed
      PROVE  Does(j)
  <2>1. PICK n : Goes(j, n) /\ \A s : s.body[j[2]] = "ours" \/ Careful(j[2], todo) => Mine(j, n, s)
    BY <1>6, GoOnIs
  <2>2. Step(j, n)
    BY <1>1, <1>2, <1>6, <2>1 DEF Step, Goes
  <2> QED
    BY <1>3, <1>4, <1>6, <2>1, <2>2 DEF Does
<1>7. ASSUME NEW op, op \notin {"put", "put_key", "post_key"}, Requests(j) = Plain({op}, o),
             GoOn(j, <<Req(op, o)>>), failed' = failed
      PROVE  Does(j)
  <2>1. Req(op, o) \in Requests(j)
    BY <1>7 DEF Plain
  <2>2. <<Req(op, o)>> \in Seq(Requests(j))
    BY <2>1, OneRequest
  <2>3. Careful(o, <<Req(op, o)>>)
    BY <1>7, RequestIs DEF Careful, Replaces
  <2> QED
    BY <1>6, <1>7, <2>2, <2>3
<1>8. CASE ~lacks /\ j[1] = "shell"
  <2>1. GoOn(j, <<Req("post", o)>>) /\ failed' = failed
    BY <1>8 DEF Start
  <2>2. Requests(j) = Plain({"post"}, o)
    BY <1>8 DEF Requests
  <2> QED
    BY <1>7, <2>1, <2>2
<1>9. CASE ~lacks /\ j[1] = "member"
  <2>1. GoOn(j, <<Req("associate", o)>>) /\ failed' = failed
    BY <1>9 DEF Start
  <2>2. Requests(j) = Plain({"associate"}, o)
    BY <1>9 DEF Requests
  <2> QED
    BY <1>7, <2>1, <2>2
<1>10. CASE ~lacks /\ j[1] = "purge"
  <2>1. GoOn(j, <<Req("delete", o)>>) /\ failed' = failed
    BY <1>10 DEF Start
  <2>2. Requests(j) = Plain({"delete"}, o)
    BY <1>10 DEF Requests
  <2> QED
    BY <1>7, <2>1, <2>2
<1>11. CASE ~lacks /\ j[1] = "item" /\ o[1] = "policygroup"
  <2>1. GoOn(j, Write(o, TRUE)) /\ failed' = failed
    BY <1>11 DEF Start
  <2>2. o \in Plan /\ o[1] # "group"
    BY <1>1, <1>11 DEF About
  <2>3. Write(o, TRUE) \in Seq(Requests(j)) /\ Careful(o, Write(o, TRUE))
    BY <1>11, <2>2, WriteIs
  <2> QED
    BY <1>6, <2>1, <2>3
<1>12. CASE ~lacks /\ j[1] \in {"membership", "acl"}
  <2> DEFINE left == IF j[1] = "acl" THEN Actors[o] ELSE Members[o]
             n == State("checking", <<>>, left, {})
  <2>1. jobs' = [jobs EXCEPT ![j] = n] /\ UNCHANGED <<written, failed>>
    BY <1>12 DEF Start, Looks
  <2>2. left \in SUBSET Principals
    <3>1. CASE j[1] = "acl"
      BY <1>1, <3>1, JobObject, TransferAssumption
    <3>2. CASE j[1] = "membership"
      BY <1>1, <3>2, TransferAssumption DEF About
    <3> QED
      BY <1>12, <3>1, <3>2
  <2> HIDE DEF left
  <2>3. JobIs(j, n) /\ n.at = "checking"
    BY <1>12, <2>2, CheckingIs, StateIs
  <2> HIDE DEF n
  <2>4. Step(j, n)
    BY <1>1, <1>2, <2>1, <2>3 DEF Step
  <2> QED
    BY <1>3, <1>4, <2>3, <2>4 DEF Does, Mine
<1>13. CASE /\ ~lacks /\ j[1] \notin {"shell", "member", "purge", "membership", "acl"}
            /\ ~(j[1] = "item" /\ o[1] = "policygroup")
  <2> DEFINE n == State("asking", <<Req("get", o)>>, {}, {})
  <2>1. jobs' = [jobs EXCEPT ![j] = n] /\ UNCHANGED <<written, failed>>
    BY <1>13 DEF Start, Becomes
  <2>2. j[1] \in {"user", "item"}
    BY <1>1, <1>13 DEF About
  <2>3. Req("get", o) \in Requests(j)
    <3>1. Requests(j) \in {Plain({"get", "put", "post"}, o) \union KeyReqs(o) \union Give(o, Actors[o]),
                           Plain({"get", "put", "post"}, o) \union KeyReqs(o),
                           Plain({"get", "upload"}, o), Plain({"get", "post"}, o),
                           Plain({"get", "put", "post"}, o)}
      <4>1. CASE j[1] = "user"
        BY <4>1 DEF Requests
      <4>2. CASE j[1] = "item" /\ o[1] \in {"client", "user"}
        BY <4>2 DEF Requests, Files
      <4>3. CASE j[1] = "item" /\ Files(o)
        BY <4>3 DEF Requests, Files
      <4>4. CASE j[1] = "item" /\ o[1] \in {"container", "databag", "policy"}
        BY <4>4 DEF Requests, Files
      <4>5. CASE /\ j[1] = "item" /\ ~Files(o) /\ o[1] # "policygroup"
                 /\ o[1] \notin {"client", "user", "container", "databag", "policy"}
        BY <4>5 DEF Requests
      <4> QED
        BY <1>13, <2>2, <4>1, <4>2, <4>3, <4>4, <4>5
    <3>2. \A ops : "get" \in ops => Req("get", o) \in Plain(ops, o)
      BY DEF Plain
    <3> QED
      BY <3>1, <3>2
  <2>4. JobIs(j, n) /\ n.at = "asking"
    BY <1>13, <2>2, <2>3, AskingIs, StateIs
  <2> HIDE DEF n
  <2>5. Step(j, n)
    BY <1>1, <1>2, <2>1, <2>4 DEF Step
  <2> QED
    BY <1>3, <1>4, <2>4, <2>5 DEF Does, Mine
<1> QED
  BY <1>5, <1>8, <1>9, <1>10, <1>11, <1>12, <1>13

LEMMA ListingIs ==
  ASSUME ServerOK, NEW kind \in {"user", "client", "group"}
  PROVE  Listing(kind) \in SUBSET Principals /\ \A p \in Listing(kind) : p[1] = kind
<1>1. server.users \in SUBSET Users
  BY ServerIs DEF ServerOK
<1>2. \A u \in Users : u[1] = "user" /\ u \in Principals
  BY TransferAssumption DEF Principals
<1>3. CASE kind = "user"
  <2>1. Listing(kind) = server.users \union {p \in Principals : p = <<"user", "pivotal", None>>}
    BY <1>3 DEF Listing
  <2> QED
    BY <1>1, <1>2, <1>3, <2>1
<1>4. CASE kind = "group"
  BY <1>4 DEF Listing
<1>5. CASE kind = "client"
  BY <1>5 DEF Listing
<1> QED
  BY <1>3, <1>4, <1>5

LEMMA HasIs ==
  ASSUME TInv, NEW p \in Principals, Has(p)
  PROVE  CacheOK' /\ faults' \in 0..MaxFaults
<1> USE DEF TInv
<1>1. p[1] \in {"user", "client", "group"}
  BY DEF Principals
<1>2. CASE Cached(p)
  BY <1>2 DEF Has, CacheOK, StageOK
<1>3. CASE ~Cached(p) /\ cache' = [cache EXCEPT ![p[1]] = Listing(p[1])] /\ faults' = faults
  <2>1. Listing(p[1]) \in SUBSET Principals /\ \A q \in Listing(p[1]) : q[1] = p[1]
    BY <1>1, ListingIs
  <2> DEFINE l == Listing(p[1])
  <2> HIDE DEF l
  <2>2. cache' = [cache EXCEPT ![p[1]] = l] /\ l \in SUBSET Principals /\ \A q \in l : q[1] = p[1]
    BY <1>3, <2>1 DEF l
  <2> QED
    BY <1>1, <1>3, <2>2 DEF CacheOK, StageOK
<1>4. CASE ~Cached(p) /\ cache' = [cache EXCEPT ![p[1]] = {}]
  <2>1. CacheOK'
    BY <1>1, <1>4 DEF CacheOK
  <2>2. faults' = faults \/ \E m \in {1, 2} : faults + m <= MaxFaults /\ faults' = faults + m
    BY <1>4 DEF Has
  <2> QED
    BY <2>1, <2>2, TransferAssumption DEF StageOK
<1> QED
  BY <1>2, <1>3, <1>4 DEF Has

LEMMA CheckIs ==
  ASSUME TInv, NEW j \in DOMAIN jobs, Check(j)
  PROVE  Does(j)
<1> USE DEF TInv
<1>1. JobIs(j, jobs[j]) /\ jobs[j].at = "checking"
  BY DEF Check, JobsOK
<1>2. j[1] \in {"membership", "acl"} /\ jobs[j].left \in SUBSET Principals
      /\ jobs[j].kept \in SUBSET Principals
  BY <1>1 DEF JobIs, JobStates
<1>3. opts' = opts /\ stage' = stage /\ server' = server
      /\ written' = written /\ skipped' = skipped /\ failed' = failed
  BY DEF Check
<1>4. PICK p \in jobs[j].left :
          /\ (Has(p) \/ UNCHANGED <<cache, faults>>)
          /\ \E kept \in {jobs[j].kept, jobs[j].kept \union {p}} :
                jobs' = [jobs EXCEPT ![j] = State("checking", <<>>, jobs[j].left \ {p}, kept)]
  BY DEF Check, Looks
<1>5. p \in Principals
  BY <1>2
<1>6. CacheOK' /\ faults' \in 0..MaxFaults
  <2>1. CASE Has(p)
    BY <1>5, <2>1, HasIs
  <2>2. CASE UNCHANGED <<cache, faults>>
    BY <2>2 DEF CacheOK, StageOK
  <2> QED
    BY <1>4, <2>1, <2>2
<1>7. PICK kept \in SUBSET Principals :
          jobs' = [jobs EXCEPT ![j] = State("checking", <<>>, jobs[j].left \ {p}, kept)]
  BY <1>2, <1>4, <1>5
<1> DEFINE n == State("checking", <<>>, jobs[j].left \ {p}, kept)
<1>8. JobIs(j, n) /\ n.at = "checking"
  BY <1>2, CheckingIs, StateIs
<1>9. jobs' = [jobs EXCEPT ![j] = n]
  BY <1>7
<1> HIDE DEF n
<1>10. Step(j, n)
  BY <1>1, <1>3, <1>6, <1>8, <1>9 DEF Step
<1> QED
  BY <1>3, <1>6, <1>8, <1>10 DEF Does, Mine, Served

LEMMA CheckedIs ==
  ASSUME TInv, NEW j \in DOMAIN jobs, Checked(j)
  PROVE  Does(j)
<1> USE DEF TInv
<1> DEFINE kept == jobs[j].kept
           todo == IF j[1] = "acl" THEN ACLRequests(j[2], kept)
                   ELSE <<With("members", j[2], kept)>>
           n == State("sending", todo, {}, {})
<1>1. JobIs(j, jobs[j]) /\ jobs[j].at = "checking" /\ About(j)
  BY DEF Checked, JobsOK
<1>2. j[1] \in {"membership", "acl"} /\ kept \in SUBSET Principals
  BY <1>1 DEF JobIs, JobStates
<1>3. opts' = opts /\ stage' = stage /\ server' = server /\ faults' \in 0..MaxFaults
      /\ written' = written /\ skipped' = skipped /\ failed' = failed
  BY DEF Checked, StageOK, report
<1>4. CacheOK'
  BY DEF Checked, CacheOK
<1>5. jobs' = [jobs EXCEPT ![j] = n]
  BY DEF Checked, Becomes
<1>6. todo \in Seq(Requests(j)) /\ todo # <<>> /\ Careful(j[2], todo)
  <2>1. CASE j[1] = "acl"
    <3>1. todo = ACLRequests(j[2], kept) /\ Requests(j) = ACLReqs(j[2])
      BY <2>1 DEF Requests
    <3>2. todo \in Seq(ACLReqs(j[2])) /\ todo # <<>> /\ \A i \in DOMAIN todo : todo[i].op = "acl"
      BY <1>2, <3>1, ACLRequestsAre
    <3> QED
      BY <3>1, <3>2 DEF Careful, Replaces
  <2>2. CASE j[1] = "membership"
    <3> DEFINE r == With("members", j[2], kept)
    <3>1. todo = <<r>> /\ Requests(j) = MemberReqs(j[2])
      BY <2>2 DEF Requests
    <3>2. r \in MemberReqs(j[2]) /\ r.op = "members"
      BY <1>2 DEF MemberReqs, With
    <3> HIDE DEF r, todo
    <3>3. <<r>> \in Seq(MemberReqs(j[2])) /\ <<r>> # <<>>
      BY <3>2, OneRequest
    <3>4. Careful(j[2], <<r>>)
      BY <3>2 DEF Careful, Replaces
    <3> QED
      BY <3>1, <3>3, <3>4
  <2> QED
    BY <1>2, <2>1, <2>2
<1> HIDE DEF todo
<1>7. JobIs(j, n) /\ n.at = "sending" /\ n.todo = todo
  BY <1>6, SendingIs, StateIs
<1> HIDE DEF n
<1>8. Step(j, n)
  BY <1>1, <1>3, <1>5, <1>7 DEF Step
<1>9. Mine(j, n, server')
  BY <1>6, <1>7 DEF Mine
<1> QED
  BY <1>3, <1>4, <1>8, <1>9 DEF Does, Served

-----------------------------------------------------------------------------
(* What the other actions do.                                              *)

LEMMA WorkIs ==
  ASSUME TInv, NEW j \in DOMAIN jobs, Work(j) \/ Lost(j) \/ Refused(j)
  PROVE  Does(j)
<1>1. Answered(j) => jobs[j].at \in {"asking", "sending"}
  BY DEF Answered
<1> QED
  BY <1>1, StartIs, AskedIs, SentIs, CheckIs, CheckedIs, LostIs, RefusedIs DEF Work

LEMMA DoesIs ==
  ASSUME TInv, NEW j \in DOMAIN jobs, Does(j)
  PROVE  TInv'
<1> USE DEF TInv
<1>1. PICK n : Step(j, n) /\ (~opts.overwrite => Mine(j, n, server'))
  BY DEF Does
<1>2. Served(j) /\ CacheOK'
  BY DEF Does
<1>3. StageOK'
  BY <1>1 DEF Step, StageOK
<1>4. ServerOK'
  BY <1>2 DEF Served, Effect, ServerOK
<1>5. JobsOK'
  BY <1>1, JobsStep
<1>6. MineOK'
  BY <1>1, <1>2, MineStep
<1>7. PoolOK'
  BY <1>1, PoolStep
<1>8. ReportOK'
  BY <1>1, ReportStep
<1> QED
  BY <1>2, <1>3, <1>4, <1>5, <1>6, <1>7, <1>8

\* At the start of a stage all of its jobs wait.
LEMMA BegunIs ==
  ASSUME NEW name, jobs' = Begun(name)
  PROVE  /\ DOMAIN jobs' = JobsOf(name)
         /\ jobs' = [j \in DOMAIN jobs' |-> jobs'[j]]
         /\ \A j \in DOMAIN jobs' : jobs'[j] = Waiting
         /\ Active' = {}
<1>1. DOMAIN jobs' = JobsOf(name) /\ jobs' = [j \in DOMAIN jobs' |-> jobs'[j]]
      /\ \A j \in DOMAIN jobs' : jobs'[j] = Waiting
  BY DEF Begun
<1>2. Active' = {}
  BY <1>1, OverIs DEF Active
<1> QED
  BY <1>1, <1>2

LEMMA NewStage ==
  ASSUME TInv, stage' \in 1..19, stage' > stage, jobs' = Begun(Stages[stage']),
         faults' \in 0..MaxFaults, UNCHANGED <<opts, server, cache, report>>
  PROVE  TInv'
<1> USE DEF TInv
<1>1. StageOK' /\ ServerOK' /\ CacheOK'
  BY DEF StageOK, ServerOK, CacheOK
<1>2. \A j \in DOMAIN jobs' : jobs'[j] = Waiting /\ j \in JobsOf(Stages[stage'])
  BY BegunIs
<1>3. JobsOK'
  <2>1. jobs' = [j \in DOMAIN jobs' |-> jobs'[j]]
    BY BegunIs
  <2>2. ASSUME NEW j \in DOMAIN jobs'
        PROVE  /\ About(j) /\ StageName(j) = Stages[stage'] /\ (j[1] = "purge" => opts'.purge)
               /\ JobIs(j, jobs'[j])
    <3>1. j \in JobsOf(Stages[stage']) /\ jobs'[j] = Waiting
      BY <1>2
    <3> QED
      BY <3>1, JobsAre, OverIs
  <2> QED
    BY <2>1, <2>2 DEF JobsOK
<1>4. MineOK'
  BY <1>2, OverIs DEF MineOK
<1>5. PoolOK'
  <2>1. Active' = {} /\ Workers \in Nat
    BY BegunIs, TransferAssumption
  <2> QED
    BY <2>1, FS_EmptySet DEF PoolOK
<1>6. ReportOK'
  <2>1. written' = written /\ skipped' = skipped /\ failed' = failed
    BY DEF report
  <2>2. ASSUME NEW j \in (written \union failed) \union skipped
        PROVE  /\ About(j) /\ \E i \in 1..stage' : StageName(j) = Stages[i]
               /\ j \notin DOMAIN jobs'
    <3>1. PICK i \in 1..stage : About(j) /\ StageName(j) = Stages[i]
      BY DEF ReportOK
    <3>2. i \in 1..19 /\ i \in 1..stage' /\ i # stage'
      BY DEF StageOK
    <3>3. j \in DOMAIN jobs' => StageName(j) = Stages[stage']
      BY <1>2, JobsAre
    <3> QED
      BY <3>1, <3>2, <3>3, StagesAre
  <2> QED
    BY <2>1, <2>2 DEF ReportOK
<1> QED
  BY <1>1, <1>3, <1>4, <1>5, <1>6

LEMMA AdvanceIs ==
  ASSUME TInv, Advance
  PROVE  TInv' /\ server' = server
<1>1. stage' \in 1..19 /\ stage' > stage /\ jobs' = Begun(Stages[stage'])
  BY StagesAre DEF Advance, TInv, StageOK
<1>2. faults' \in 0..MaxFaults /\ UNCHANGED <<opts, server, cache, report>>
  BY DEF Advance, TInv, StageOK
<1> QED
  BY <1>1, <1>2, NewStage

LEMMA PurgeFailsIs ==
  ASSUME TInv, PurgeFails
  PROVE  TInv' /\ server' = server
<1>1. stage' = 19 /\ jobs' = Begun(Stages[stage'])
  BY StagesAre DEF PurgeFails
<1>2. stage \in 1..19 /\ stage # 19
  BY StagesAre DEF PurgeFails, TInv, StageOK
<1>3. faults' \in 0..MaxFaults /\ UNCHANGED <<opts, server, cache, report>>
  BY TransferAssumption DEF PurgeFails, TInv, StageOK
<1> QED
  BY <1>1, <1>2, <1>3, NewStage

LEMMA ForbiddenIs ==
  ASSUME TInv, Forbidden
  PROVE  TInv' /\ server' = server
<1> USE DEF TInv
<1>1. UNCHANGED <<opts, stage, server, cache, written, skipped, failed, faults>>
  BY DEF Forbidden, report
<1>2. jobs' = [j \in DOMAIN jobs |-> Over]
  BY DEF Forbidden
<1>3. DOMAIN jobs' = DOMAIN jobs /\ \A j \in DOMAIN jobs : jobs'[j] = Over
  BY <1>2
<1>4. StageOK' /\ ServerOK' /\ CacheOK'
  BY <1>1 DEF StageOK, ServerOK, CacheOK
<1>5. JobsOK'
  BY <1>1, <1>2, <1>3, OverIs DEF JobsOK
<1>6. MineOK'
  BY <1>3, OverIs DEF MineOK
<1>7. PoolOK'
  <2>1. Active' = {} /\ Workers \in Nat
    BY <1>3, OverIs, TransferAssumption DEF Active
  <2> QED
    BY <2>1, FS_EmptySet DEF PoolOK
<1>8. ReportOK'
  BY <1>1, <1>3, OverIs DEF ReportOK
<1> QED
  BY <1>1, <1>4, <1>5, <1>6, <1>7, <1>8

LEMMA AppearsIs ==
  ASSUME TInv, NEW o \in MayAppear, Appears(o)
  PROVE  TInv' /\ OthersSame /\ OnlyPurged
<1> USE DEF TInv
<1> DEFINE b == [server.body EXCEPT ![o] = "theirs"]
           k == [a \in DOMAIN server.keys |-> IF a = o THEN DefaultKey("theirs") ELSE server.keys[a]]
<1>1. o \in Objects /\ server.body[o] = "absent"
  BY TransferAssumption, PresentIs DEF Appears, ServerOK
<1>2. UNCHANGED <<opts, stage, jobs, cache, written, skipped, failed, faults>>
  BY DEF Appears, report
<1>3. DefaultKey("theirs") \in [KeyNames -> Whose]
  BY DEF DefaultKey, NoKeys, Whose
<1>4. server.body \in [Objects -> Whose] /\ server.keys \in [Keyed -> [KeyNames -> Whose]]
  BY ServerIs DEF ServerOK
<1>5. b \in [Objects -> Whose] /\ \A q \in Objects : b[q] = IF q = o THEN "theirs" ELSE server.body[q]
  BY <1>4 DEF Whose
<1>6. k \in [Keyed -> [KeyNames -> Whose]] /\ \A a \in Keyed : a # o => k[a] = server.keys[a]
  BY <1>3, <1>4
<1>7. server' = [server EXCEPT !.body = b, !.keys = k]
  BY DEF Appears
<1> HIDE DEF b, k
<1>8. server' \in Servers /\ server'.body = b /\ server'.keys = k
  BY <1>5, <1>6, <1>7 DEF ServerOK, Servers
<1>9. StageOK' /\ ServerOK' /\ CacheOK' /\ PoolOK' /\ ReportOK'
  BY <1>2, <1>8 DEF StageOK, ServerOK, CacheOK, PoolOK, ReportOK, Active
<1>10. JobsOK'
  BY <1>2 DEF JobsOK
<1>11. MineOK'
  <2> SUFFICES ASSUME ~opts.overwrite, NEW j \in DOMAIN jobs, jobs[j].at = "sending"
               PROVE  server'.body[j[2]] = "ours" \/ Careful(j[2], jobs[j].todo)
    BY <1>2 DEF MineOK, Mine
  <2>1. server.body[j[2]] = "ours" \/ Careful(j[2], jobs[j].todo)
    BY DEF MineOK, Mine
  <2>2. CASE j[1] = "acl"
    BY <2>2, ACLCareful DEF JobsOK
  <2>3. CASE j[1] # "acl"
    <3>1. j[2] \in Objects
      BY <2>3, JobObject DEF JobsOK
    <3> QED
      BY <1>1, <1>5, <1>8, <2>1, <3>1
  <2> QED
    BY <2>2, <2>3
<1>12. OthersSame
  <2> SUFFICES ASSUME NEW q \in Objects, server.body[q] = "theirs"
               PROVE  /\ server'.body[q] # "ours"
                      /\ HasKeys(q) => server'.keys[q] = server.keys[q]
    BY DEF OthersSame
  <2> QED
    BY <1>1, <1>5, <1>6, <1>8 DEF HasKeys, Keyed
<1>13. OnlyPurged
  <2> SUFFICES ASSUME NEW q \in Objects, Present(server, q), server'.body[q] = "absent"
               PROVE  FALSE
    BY DEF OnlyPurged
  <2>1. server.body[q] # "absent"
    BY PresentIs DEF ServerOK
  <2> QED
    BY <1>5, <1>8, <2>1
<1> QED
  BY <1>9, <1>10, <1>11, <1>12, <1>13

-----------------------------------------------------------------------------
(* The theorems.                                                           *)

LEMMA InitIs ==
  ASSUME Init
  PROVE  TInv
<1>1. stage = 1 /\ jobs = Begun(Stages[1]) /\ faults = 0
      /\ written = {} /\ skipped = {} /\ failed = {}
      /\ cache = [k \in {"user", "client", "group"} |-> None]
  BY DEF Init
<1>2. DOMAIN jobs = JobsOf(Stages[1]) /\ jobs = [j \in DOMAIN jobs |-> jobs[j]]
      /\ \A j \in DOMAIN jobs : jobs[j] = Waiting
  BY <1>1 DEF Begun
<1>3. StageOK
  BY <1>1, TransferAssumption DEF StageOK
<1>4. ServerOK
  <2>1. PICK there \in Existing :
          server = [body |-> [o \in Objects |-> IF o \in there \union {Self} THEN "theirs" ELSE "absent"],
                    keys |-> [a \in DOMAIN SourceKeys |->
                                 IF a \in there \union {Self} THEN DefaultKey("theirs") ELSE NoKeys],
                    members |-> [g \in {p \in Principals : p[1] = "group"} |->
                                    IF g \in there THEN Held[g] ELSE {}],
                    assigned |-> [g \in DOMAIN Assigned |-> IF g \in there THEN Held[g] ELSE {}],
                    acl |-> [o \in ACLObjects |-> [p \in ToSet(Perms) |-> {}]],
                    users |-> {}]
    BY DEF Init
  <2>2. DefaultKey("theirs") \in [KeyNames -> Whose] /\ NoKeys \in [KeyNames -> Whose]
    BY DEF DefaultKey, NoKeys, Whose
  <2>3. [o \in Objects |-> IF o \in there \union {Self} THEN "theirs" ELSE "absent"]
            \in [Objects -> Whose]
    BY DEF Whose
  <2>4. [a \in DOMAIN SourceKeys |-> IF a \in there \union {Self} THEN DefaultKey("theirs") ELSE NoKeys]
            \in [Keyed -> [KeyNames -> Whose]]
    BY <2>2 DEF Keyed
  <2>5. [g \in {p \in Principals : p[1] = "group"} |-> IF g \in there THEN Held[g] ELSE {}]
            \in [Groups -> SUBSET Principals]
    BY TransferAssumption DEF Groups
  <2>6. [g \in DOMAIN Assigned |-> IF g \in there THEN Held[g] ELSE {}]
            \in [DOMAIN Assigned -> SUBSET Objects]
    BY TransferAssumption
  <2>7. [o \in ACLObjects |-> [p \in ToSet(Perms) |-> {}]]
            \in [ACLObjects -> [ToSet(Perms) -> SUBSET Principals]]
    OBVIOUS
  <2> QED
    BY <2>1, <2>3, <2>4, <2>5, <2>6, <2>7 DEF ServerOK, Servers
<1>5. JobsOK
  <2>1. ASSUME NEW j \in DOMAIN jobs
        PROVE  /\ About(j) /\ StageName(j) = Stages[stage] /\ (j[1] = "purge" => opts.purge)
               /\ JobIs(j, jobs[j])
    <3>1. j \in JobsOf(Stages[1]) /\ jobs[j] = Waiting
      BY <1>2
    <3> QED
      BY <1>1, <3>1, JobsAre, OverIs
  <2> QED
    BY <1>2, <2>1 DEF JobsOK
<1>6. MineOK
  BY <1>2, OverIs DEF MineOK
<1>7. PoolOK
  <2>1. Active = {} /\ Workers \in Nat
    BY <1>2, OverIs, TransferAssumption DEF Active
  <2> QED
    BY <2>1, FS_EmptySet DEF PoolOK
<1>8. CacheOK
  BY <1>1 DEF CacheOK
<1>9. ReportOK
  BY <1>1 DEF ReportOK
<1> QED
  BY <1>3, <1>4, <1>5, <1>6, <1>7, <1>8, <1>9 DEF TInv

\* Every step keeps the invariant, the objects of others, and what is not
\* to be purged.
LEMMA NextIs ==
  ASSUME TInv, [Next]_vars
  PROVE  TInv' /\ OthersSame /\ OnlyPurged
<1>1. ASSUME server' = server
      PROVE  OthersSame /\ OnlyPurged
  <2>1. \A o \in Objects : Present(server, o) => server.body[o] # "absent"
    BY PresentIs DEF TInv, ServerOK
  <2>2. OthersSame
    BY <1>1 DEF OthersSame
  <2>3. OnlyPurged
    BY <1>1, <2>1 DEF OnlyPurged
  <2> QED
    BY <2>2, <2>3
<1>2. ASSUME NEW j \in DOMAIN jobs, Work(j) \/ Lost(j) \/ Refused(j)
      PROVE  TInv' /\ OthersSame /\ OnlyPurged
  <2>1. Does(j)
    BY <1>2, WorkIs
  <2>2. OthersSame
    BY <2>1, OthersServed DEF Does, TInv
  <2>3. OnlyPurged
    BY <2>1, PurgeServed DEF Does, TInv
  <2> QED
    BY <2>1, <2>2, <2>3, DoesIs
<1>3. CASE Advance
  BY <1>1, <1>3, AdvanceIs
<1>4. CASE PurgeFails
  BY <1>1, <1>4, PurgeFailsIs
<1>5. CASE Forbidden
  BY <1>1, <1>5, ForbiddenIs
<1>6. CASE \E o \in MayAppear : Appears(o)
  BY <1>6, AppearsIs
<1>7. CASE UNCHANGED vars
  <2>1. server' = server
    BY <1>7 DEF vars
  <2>2. TInv'
    BY <1>7 DEF vars, report, TInv, StageOK, ServerOK, JobsOK, MineOK, PoolOK, CacheOK, ReportOK, Active
  <2> QED
    BY <1>1, <2>1, <2>2
<1> QED
  BY <1>2, <1>3, <1>4, <1>5, <1>6, <1>7 DEF Next, Working, Trouble

\* The inductive invariant: jobs belong to their stage and ask only for what
\* is theirs to ask, and who replaces an object has made it.
THEOREM Invariance == Spec => []TInv
<1>1. Init => TInv
  BY InitIs
<1>2. TInv /\ [Next]_vars => TInv'
  BY NextIs
<1> QED
  BY <1>1, <1>2, PTL DEF Spec

\* The variables have their types; no more jobs are active than there are
\* workers; nothing is reported as skipped and as written or failed too.
THEOREM TypeCorrect == Spec => []TypeOK
<1>1. TInv => TypeOK
  <2> SUFFICES ASSUME TInv
               PROVE  TypeOK
    OBVIOUS
  <2> USE DEF TInv
  <2>1. stage \in 1..Len(Stages) /\ Cardinality(Active) <= Workers /\ faults \in 0..MaxFaults
    BY StagesAre DEF StageOK, PoolOK
  <2>2. \A j \in Active : jobs[j].at # "checking" => jobs[j].todo # <<>>
    <3> SUFFICES ASSUME NEW j \in Active, jobs[j].at # "checking"
                 PROVE  jobs[j].todo # <<>>
      OBVIOUS
    <3>1. j \in DOMAIN jobs /\ jobs[j].at \notin {"waiting", "ended"}
      BY DEF Active
    <3>2. JobIs(j, jobs[j])
      BY <3>1 DEF JobsOK
    <3>3. jobs[j].at \in {"asking", "sending"}
      BY <3>1, <3>2 DEF JobIs, JobStates
    <3> QED
      BY <3>2, <3>3 DEF JobIs
  <2>3. \A k \in DOMAIN cache : cache[k] = None \/ \A p \in cache[k] : p[1] = k
    BY DEF CacheOK
  <2>4. \A j \in (written \union skipped) \union failed : j[2] \in Objects \union {OrgACL}
    BY JobObject DEF ReportOK
  <2>5. skipped \intersect (written \union failed) = {}
    BY DEF ReportOK
  <2> QED
    BY <2>1, <2>2, <2>3, <2>4, <2>5 DEF TypeOK
<1> QED
  BY <1>1, Invariance, PTL

\* Nothing disappears but in the purge, and there nothing that is planned or
\* protected and nothing of a kind that the plan does not have.
THEOREM PurgeIsSafe == Spec => PurgeSpares
<1>1. TInv /\ [Next]_vars => [OnlyPurged]_vars
  BY NextIs
<1> QED
  BY <1>1, Invariance, PTL DEF Spec, PurgeSpares, OnlyPurged, Spared

-----------------------------------------------------------------------------
(* The report.                                                             *)

In(r, todo) == \E i \in DOMAIN todo : todo[i] = r

\* The principals of a group or an ACL, those to be written, and those that
\* are left when some have been dropped.
Everybody(j) == IF j[1] = "acl" THEN Actors[j[2]] ELSE Members[j[2]]
Wanted(j) == IF j[1] = "acl" THEN Actors[j[2]] ELSE Members[j[2]] \ USAGs
Kept(j, out) == {p \in Wanted(j) : <<j, p>> \notin out}

Once == {"container", "databag", "policy"}

\* Everything that makes a job complete is on the destination, or is still
\* to be sent: by kind of job.
MemberPends(j, todo, s) ==
    j[1] = "member" => j[2] \in s.users \/ In(Req("associate", j[2]), todo)
MembershipPends(j, todo, s, who) ==
    j[1] = "membership" =>
        /\ s.members[j[2]] = who \/ todo # <<>>
        /\ \A i \in DOMAIN todo : todo[i].arg = who
ACLPends(j, todo, s, who) ==
    j[1] = "acl" =>
        /\ \A p \in ToSet(Perms) :
              s.acl[j[2]][p] = who \/ In(With("acl", j[2], <<p, who>>), todo)
        /\ \A i \in DOMAIN todo : todo[i].arg[2] = who
GroupPends(j, todo, s) ==
    j[1] = "item" /\ j[2][1] = "policygroup" =>
        \A p \in Assigned[j[2]] : p \in s.assigned[j[2]] \/ In(With("assign", j[2], p), todo)
OncePends(j, todo, s) ==
    j[1] = "item" /\ j[2][1] \in Once => s.body[j[2]] # "absent" \/ In(Req("post", j[2]), todo)
BodyPends(j, todo, s) ==
    j[1] = "item" /\ j[2][1] \notin Once \union {"policygroup"} /\ j[2] # DefaultEnv =>
        s.body[j[2]] = "ours" \/ \E op \in {"post", "put", "upload"} : In(Req(op, j[2]), todo)
KeyPends(o, n, todo, s) ==
    \/ s.keys[o][n] = "ours"
    \/ In(With("put_key", o, n), todo) \/ In(With("post_key", o, n), todo)
KeysPend(j, todo, s) ==
    j[1] = "item" /\ j[2][1] \in {"client", "user"} =>
        /\ KeyPends(j[2], "default", todo, s) \/ In(Req("post", j[2]), todo)
        /\ \A n \in SourceKeys[j[2]] \ {"default"} : KeyPends(j[2], n, todo, s)

Pends(j, todo, s, who) ==
    /\ MemberPends(j, todo, s) /\ MembershipPends(j, todo, s, who) /\ ACLPends(j, todo, s, who)
    /\ GroupPends(j, todo, s) /\ OncePends(j, todo, s) /\ BodyPends(j, todo, s)
    /\ KeysPend(j, todo, s)

Keyless(s) ==
    \A a \in Keyed : s.body[a] = "absent" => \A n \in KeyNames : s.keys[a][n] # "ours"

KeylessOK == Keyless(server)
PendsOK ==
    \A j \in DOMAIN jobs : jobs[j].at = "sending" =>
        Pends(j, jobs[j].todo, server, Kept(j, dropped))
LooksOK ==
    \A j \in DOMAIN jobs :
        /\ jobs[j].at = "waiting" => \A d \in dropped : d[1] # j
        /\ jobs[j].at = "checking" =>
              /\ jobs[j].left \subseteq Everybody(j)
              /\ \A p \in jobs[j].left : <<j, p>> \notin dropped
              /\ jobs[j].kept = Kept(j, dropped) \ jobs[j].left
DroppedOK ==
    \A d \in dropped : d = <<d[1], d[2]>> /\ \E i \in 1..stage : StageName(d[1]) = Stages[i]
DoneOK ==
    \A j \in written : j[1] # "user" /\ j \in DOMAIN jobs => jobs[j].at = "ended"

\* Complete, of a destination and of what has been dropped, but for users.
Done(j, s, out) ==
    LET o == j[2]
        kept(all) == {p \in all : <<j, p>> \notin out}
    IN  CASE j[1] = "item" /\ o[1] = "policygroup" -> Assigned[o] \subseteq s.assigned[o]
          [] j[1] = "item" /\ o[1] \in {"client", "user"} ->
                /\ s.body[o] = "ours"
                /\ \A n \in SourceKeys[o] \union {"default"} : s.keys[o][n] = "ours"
          [] j[1] = "item" /\ o[1] \in Once -> Present(s, o)
          [] j[1] = "item" /\ o[1] \notin Once \union {"policygroup", "client", "user"} ->
                o = DefaultEnv \/ s.body[o] = "ours"
          [] j[1] = "membership" -> s.members[o] = kept(Members[o] \ USAGs)
          [] j[1] = "acl" -> \A p \in ToSet(Perms) : s.acl[o][p] = kept(Actors[o])
          [] j[1] = "member" -> o \in s.users
          [] OTHER -> TRUE
ReportTold == \A j \in written : Done(j, server, dropped)

RInv == KeylessOK /\ PendsOK /\ LooksOK /\ DroppedOK /\ DoneOK /\ ReportTold


-----------------------------------------------------------------------------
(* What was written stays written.                                         *)

\* Assignments, members, permissions and keys are changed by their own
\* requests only, and go with their object.
Keeps(s, t, r) ==
    /\ Keyless(t)
    /\ \A a \in Keyed, n \in KeyNames : s.keys[a][n] = "ours" =>
          t.keys[a][n] = "ours" \/ (s.body[a] # "absent" /\ t.body[a] = "absent")
    /\ \A g \in DOMAIN Assigned :
          /\ \A p \in t.assigned[g] :
                p \in s.assigned[g] \/ (r.op = "assign" /\ r.obj = g /\ p = r.arg)
          /\ \A p \in s.assigned[g] :
                \/ p \in t.assigned[g]
                \/ r.op = "assign" /\ r.obj = g /\ p[2] = r.arg[2] /\ p # r.arg
                \/ s.body[g] # "absent" /\ t.body[g] = "absent"
    /\ \A g \in Groups :
          \/ t.members[g] = s.members[g]
          \/ r.op = "members" /\ r.obj = g /\ t.members[g] = r.arg
          \/ s.body[g] # "absent" /\ t.body[g] = "absent"
    /\ \A o \in ACLObjects, p \in ToSet(Perms) :
          \/ t.acl[o][p] = s.acl[o][p]
          \/ r.op = "acl" /\ r.obj = o /\ t.acl[o][p] = r.arg[2]
    /\ s.users \subseteq t.users

\* What a request says when it is answered.
Achieves(s, a, r) ==
    /\ a.status = 200 =>
          /\ r.op \in {"post", "put", "upload"} => a.server.body[r.obj] = "ours"
          /\ r.op = "post" /\ r.obj \in Keyed => a.server.keys[r.obj]["default"] = "ours"
          /\ r.op \in {"put_key", "post_key"} => a.server.keys[r.obj][r.arg] = "ours"
          /\ r.op = "assign" => r.arg \in a.server.assigned[r.obj]
          /\ r.op = "members" => a.server.members[r.obj] = r.arg
          /\ r.op = "acl" => a.server.acl[r.obj][r.arg[1]] = r.arg[2]
          /\ r.op = "associate" => r.obj \in a.server.users
          /\ r.op = "get" => a.server.body[r.obj] # "absent"
    /\ a.status # 200 => a.server = s
    /\ a.status = 409 /\ r.op = "post" => s.body[r.obj] # "absent"

\* What is true of the answers that change nothing, and of the others.
Served2(s, a, r) == Keeps(s, a.server, r) /\ Achieves(s, a, r)

LEMMA RefusedAnswer ==
  ASSUME NEW s \in Servers, Keyless(s), NEW r, NEW status, status # 200,
         status = 409 /\ r.op = "post" => s.body[r.obj] # "absent"
  PROVE  Served2(s, Answer(status, s), r)
  BY AnswerIs DEF Served2, Keeps, Achieves

LEMMA PostedKeeps ==
  ASSUME NEW s \in Servers, NEW o \in Objects
  PROVE  /\ Posted(s, o).members = s.members /\ Posted(s, o).assigned = s.assigned
         /\ Posted(s, o).acl = s.acl /\ Posted(s, o).users = s.users
         /\ o \in Keyed => Posted(s, o).keys[o]["default"] = "ours"
<1> DEFINE c == Created(s, o)
           k == DefaultKey("ours")
<1>1. c \in Servers /\ c.keys = s.keys /\ c.members = s.members
      /\ c.assigned = s.assigned /\ c.acl = s.acl /\ c.users = s.users
  BY CreatedIs
<1>2. CASE ~HasKeys(o)
  BY <1>1, <1>2 DEF Posted, HasKeys, Keyed
<1>3. CASE HasKeys(o)
  <2>1. Posted(s, o) = [c EXCEPT !.keys = [@ EXCEPT ![o] = k]]
    BY <1>3 DEF Posted
  <2>2. k["default"] = "ours"
    BY DEF DefaultKey, NoKeys, KeyNames
  <2>3. o \in Keyed
    BY <1>3 DEF HasKeys, Keyed
  <2> HIDE DEF c, k
  <2>4. Posted(s, o).keys = [c.keys EXCEPT ![o] = k]
    BY <1>1, <2>1 DEF Servers
  <2>5. c.keys \in [Keyed -> [KeyNames -> Whose]]
    BY <1>1, ServerIs
  <2>6. Posted(s, o).members = c.members /\ Posted(s, o).assigned = c.assigned
        /\ Posted(s, o).acl = c.acl /\ Posted(s, o).users = c.users
    BY <1>1, <2>1 DEF Servers
  <2>7. Posted(s, o).keys[o]["default"] = "ours"
    BY <2>2, <2>3, <2>4, <2>5
  <2> HIDE DEF Posted
  <2> QED
    BY <1>1, <2>6, <2>7
<1> QED
  BY <1>2, <1>3

LEMMA GetKeeps ==
  ASSUME NEW s \in Servers, Keyless(s), NEW o \in Objects, NEW r, r.op = "get", r.obj = o
  PROVE  Served2(s, ServeObject(s, r.op, o), r)
<1>1. ServeObject(s, r.op, o) =
          IF Present(s, o) THEN Answer(200, s) ELSE Answer(404, s)
  BY DEF ServeObject
<1>2. CASE Present(s, o)
  <2>1. s.body[o] # "absent"
    BY <1>2, PresentIs
  <2> QED
    BY <1>1, <1>2, <2>1, AnswerIs DEF Served2, Keeps, Achieves
<1>3. CASE ~Present(s, o)
  BY <1>1, <1>3, RefusedAnswer
<1> QED
  BY <1>2, <1>3

LEMMA PostKeeps ==
  ASSUME NEW s \in Servers, Keyless(s), NEW o \in Objects, NEW r, r.op = "post", r.obj = o
  PROVE  Served2(s, ServeObject(s, r.op, o), r)
<1>1. ServeObject(s, r.op, o) =
          IF Present(s, o) THEN Answer(409, s)
          ELSE IF HasBag(s, o) THEN Answer(200, Posted(s, o)) ELSE Answer(404, s)
  BY DEF ServeObject
<1>2. CASE Present(s, o)
  BY <1>1, <1>2, RefusedAnswer, PresentIs
<1>3. CASE ~Present(s, o) /\ ~HasBag(s, o)
  BY <1>1, <1>3, RefusedAnswer
<1>4. CASE ~Present(s, o) /\ HasBag(s, o)
  <2> DEFINE t == Posted(s, o)
             a == Answer(200, t)
  <2>1. s.body[o] = "absent"
    BY <1>4, PresentIs
  <2>2. t.body = [s.body EXCEPT ![o] = "ours"] /\ \A q \in Keyed : q # o => t.keys[q] = s.keys[q]
    BY PostedIs
  <2>3. \A q \in Objects : t.body[q] = IF q = o THEN "ours" ELSE s.body[q]
    BY <2>2, MadeIs
  <2>4. /\ t.members = s.members /\ t.assigned = s.assigned /\ t.acl = s.acl /\ t.users = s.users
        /\ (o \in Keyed => t.keys[o]["default"] = "ours")
    BY PostedKeeps
  <2>5. Keyed \subseteq Objects
    BY TransferAssumption DEF Keyed
  <2>6. a.status = 200 /\ a.server = t /\ ServeObject(s, r.op, o) = a
    BY <1>1, <1>4, AnswerIs
  <2> HIDE DEF t, a
  <2>7. Keyless(t)
    BY <2>2, <2>3, <2>5 DEF Keyless
  <2>8. \A q \in Keyed, n \in KeyNames : s.keys[q][n] = "ours" => t.keys[q][n] = "ours"
    BY <2>1, <2>2 DEF Keyless
  <2>9. Keeps(s, t, r)
    BY <2>4, <2>7, <2>8 DEF Keeps
  <2>10. Achieves(s, a, r)
    BY <2>3, <2>4, <2>6 DEF Achieves
  <2> QED
    BY <2>6, <2>9, <2>10 DEF Served2
<1> QED
  BY <1>2, <1>3, <1>4

LEMMA CreatedKeeps ==
  ASSUME NEW s \in Servers, Keyless(s), NEW o \in Objects, NEW r, r.op \in {"put", "upload"},
         r.obj = o
  PROVE  Served2(s, Answer(200, Created(s, o)), r)
<1> DEFINE t == Created(s, o)
           a == Answer(200, t)
<1>1. t.body = [s.body EXCEPT ![o] = "ours"] /\ t.keys = s.keys /\ t.members = s.members
      /\ t.assigned = s.assigned /\ t.acl = s.acl /\ t.users = s.users
  BY CreatedIs
<1>2. \A q \in Objects : t.body[q] = IF q = o THEN "ours" ELSE s.body[q]
  BY <1>1, MadeIs
<1>3. Keyed \subseteq Objects
  BY TransferAssumption DEF Keyed
<1>4. a.status = 200 /\ a.server = t
  BY AnswerIs
<1> HIDE DEF t, a
<1>5. Keyless(t)
  BY <1>1, <1>2, <1>3 DEF Keyless
<1>6. Keeps(s, t, r)
  BY <1>1, <1>5 DEF Keeps
<1>7. Achieves(s, a, r)
  BY <1>2, <1>4 DEF Achieves
<1>8. Served2(s, a, r)
  BY <1>4, <1>6, <1>7 DEF Served2
<1> QED
  BY <1>8 DEF a, t

LEMMA DeleteKeeps ==
  ASSUME NEW s \in Servers, Keyless(s), NEW o \in Objects, NEW r, r.op = "delete", r.obj = o
  PROVE  Served2(s, ServeObject(s, r.op, o), r)
<1> DEFINE gone == {o} \union {i \in Objects : InBag(i, o)}
           t == Removed(s, gone)
           a == Answer(200, t)
<1>1. ServeObject(s, r.op, o) = IF Present(s, o) THEN a ELSE Answer(404, s)
  BY DEF ServeObject
<1>2. CASE ~Present(s, o)
  BY <1>1, <1>2, RefusedAnswer
<1>3. CASE Present(s, o)
  <2>1. s.body[o] # "absent"
    BY <1>3, PresentIs
  <2>2. \A q \in Groups : q[1] = "group" /\ q \in Objects
    BY ObjectIs DEF Groups
  <2>3. \A q \in Groups : q \in gone => q = o
    BY <2>2 DEF InBag
  <2>4. Keyed \subseteq Objects /\ \A g \in DOMAIN Assigned : g \in gone => g = o
    BY TransferAssumption DEF Keyed, InBag
  <2>5. a.status = 200 /\ a.server = t /\ ServeObject(s, r.op, o) = a
    BY <1>1, <1>3, AnswerIs
  <2>13. o \in gone
    OBVIOUS
  <2> HIDE DEF gone
  <2>6. /\ \A q \in Objects : t.body[q] = IF q \in gone THEN "absent" ELSE s.body[q]
        /\ \A q \in Keyed : t.keys[q] = IF q \in gone THEN NoKeys ELSE s.keys[q]
        /\ \A g \in Groups : t.members[g] = IF g \in gone THEN {} ELSE s.members[g]
        /\ \A g \in DOMAIN Assigned : t.assigned[g] = IF g \in gone THEN {} ELSE s.assigned[g]
        /\ t.acl = s.acl /\ t.users = s.users
    BY RemovedIs
  <2>7. \A n \in KeyNames : NoKeys[n] = "absent"
    BY DEF NoKeys
  <2> HIDE DEF t, a
  <2>8. Keyless(t)
    BY <2>4, <2>6, <2>7 DEF Keyless
  <2>9. \A q \in Keyed, n \in KeyNames : s.keys[q][n] = "ours" =>
            t.keys[q][n] = "ours" \/ (s.body[q] # "absent" /\ t.body[q] = "absent")
    BY <2>4, <2>6 DEF Keyless
  <2>10. \A g \in Groups :
            t.members[g] = s.members[g] \/ (s.body[g] # "absent" /\ t.body[g] = "absent")
    BY <2>1, <2>2, <2>3, <2>6
  <2>14. \A g \in DOMAIN Assigned :
            \/ t.assigned[g] = s.assigned[g]
            \/ t.assigned[g] = {} /\ s.body[g] # "absent" /\ t.body[g] = "absent"
    BY <2>1, <2>4, <2>6, <2>13
  <2>11. Keeps(s, t, r)
    BY <2>6, <2>8, <2>9, <2>10, <2>14 DEF Keeps
  <2>12. Achieves(s, a, r)
    BY <2>5 DEF Achieves
  <2> QED
    BY <2>5, <2>11, <2>12 DEF Served2
<1> QED
  BY <1>2, <1>3

LEMMA ObjectKeeps ==
  ASSUME NEW s \in Servers, Keyless(s), NEW o \in Objects, NEW r, r.obj = o,
         r.op \in {"get", "put", "post", "upload", "delete"}
  PROVE  Served2(s, ServeObject(s, r.op, o), r)
<1>1. CASE r.op = "put"
  <2>1. ServeObject(s, r.op, o) \in {Answer(404, s), Answer(200, Created(s, o))}
    BY <1>1 DEF ServeObject
  <2>2. Served2(s, Answer(404, s), r)
    BY RefusedAnswer
  <2> QED
    BY <1>1, <2>1, <2>2, CreatedKeeps
<1>2. CASE r.op = "upload"
  <2>1. ServeObject(s, r.op, o) \in {Answer(409, s), Answer(200, Created(s, o))}
    BY <1>2 DEF ServeObject
  <2>2. Served2(s, Answer(409, s), r)
    BY <1>2, RefusedAnswer
  <2> QED
    BY <1>2, <2>1, <2>2, CreatedKeeps
<1> QED
  BY <1>1, <1>2, GetKeeps, PostKeeps, DeleteKeeps

LEMMA KeyKeeps ==
  ASSUME NEW s \in Servers, Keyless(s), NEW o \in Keyed, NEW n \in KeyNames, NEW r,
         r.op \in {"put_key", "post_key"}, r.obj = o, r.arg = n
  PROVE  Served2(s, ServeKey(s, r.op, o, n), r)
<1> DEFINE t == KeyWritten(s, o, n)
           a == Answer(200, t)
           b == ServeKey(s, r.op, o, n)
<1>1. b \in {Answer(404, s), Answer(409, s)} \/ (Present(s, o) /\ b = a)
  BY DEF ServeKey
<1>2. CASE b \in {Answer(404, s), Answer(409, s)}
  <2>1. Served2(s, Answer(404, s), r) /\ Served2(s, Answer(409, s), r)
    BY RefusedAnswer
  <2> HIDE DEF b
  <2>2. Served2(s, b, r)
    BY <1>2, <2>1
  <2> QED
    BY <2>2 DEF b
<1>3. CASE Present(s, o) /\ b = a
  <2>1. o \in Objects /\ Keyed \subseteq Objects
    BY TransferAssumption DEF Keyed
  <2>2. s.body[o] # "absent"
    BY <1>3, <2>1, PresentIs
  <2>3. /\ t.body = s.body /\ t.keys[o][n] = "ours"
        /\ \A m \in KeyNames : m # n => t.keys[o][m] = s.keys[o][m]
        /\ \A q \in Keyed : q # o => t.keys[q] = s.keys[q]
        /\ t.members = s.members /\ t.users = s.users
        /\ t.assigned = s.assigned /\ t.acl = s.acl
    BY KeyWrittenIs
  <2>4. a.status = 200 /\ a.server = t
    BY AnswerIs
  <2> HIDE DEF t, a, b
  <2>5. Keyless(t)
    BY <2>1, <2>2, <2>3 DEF Keyless
  <2>6. \A q \in Keyed, m \in KeyNames : s.keys[q][m] = "ours" => t.keys[q][m] = "ours"
    BY <2>3
  <2>7. Keeps(s, t, r)
    BY <2>3, <2>5, <2>6 DEF Keeps
  <2>8. Achieves(s, a, r)
    BY <2>3, <2>4 DEF Achieves
  <2>9. Served2(s, b, r)
    BY <1>3, <2>4, <2>7, <2>8 DEF Served2
  <2> QED
    BY <2>9 DEF b
<1> QED
  BY <1>1, <1>2, <1>3

LEMMA AssignKeeps ==
  ASSUME NEW s \in Servers, Keyless(s), NEW o \in Objects, o \in DOMAIN Assigned,
         NEW p \in Objects, NEW r, r.op = "assign", r.obj = o, r.arg = p
  PROVE  Served2(s, ServeAssign(s, o, p), r)
<1> DEFINE b == [s.body EXCEPT ![o] = IF @ = "absent" THEN "ours" ELSE @]
           g == [s.assigned EXCEPT ![o] = {q \in @ : q[2] # p[2]} \union {p}]
           t == [s EXCEPT !.assigned = g, !.body = b]
           a == Answer(200, t)
<1>1. ServeAssign(s, o, p) = a
  BY DEF ServeAssign
<1>2. s.body \in [Objects -> Whose] /\ s.assigned \in [DOMAIN Assigned -> SUBSET Objects]
  BY ServerIs
<1>3. \A q \in Objects : b[q] = "absent" => s.body[q] = "absent"
  BY <1>2
<1>4. /\ p \in g[o] /\ \A x \in g[o] : x \in s.assigned[o] \/ x = p
      /\ \A x \in s.assigned[o] : x \in g[o] \/ (x[2] = p[2] /\ x # p)
      /\ \A q \in DOMAIN Assigned : q # o => g[q] = s.assigned[q]
  BY <1>2
<1> HIDE DEF b, g
<1>5. t.body = b /\ t.assigned = g /\ t.keys = s.keys /\ t.members = s.members
      /\ t.acl = s.acl /\ t.users = s.users
  BY DEF Servers
<1>6. a.status = 200 /\ a.server = t
  BY AnswerIs
<1>7. Keyed \subseteq Objects
  BY TransferAssumption DEF Keyed
<1> HIDE DEF t, a
<1>8. Keyless(t)
  BY <1>3, <1>5, <1>7 DEF Keyless
<1>9. Keeps(s, t, r)
  BY <1>4, <1>5, <1>8 DEF Keeps
<1>10. Achieves(s, a, r)
  BY <1>4, <1>5, <1>6 DEF Achieves
<1>11. Served2(s, a, r)
  BY <1>6, <1>9, <1>10 DEF Served2
<1> QED
  BY <1>1, <1>11

LEMMA MembersKeeps ==
  ASSUME NEW s \in Servers, Keyless(s), NEW r, r.op = "members", r.obj \in Groups,
         r.arg \in SUBSET Principals
  PROVE  Served2(s, ServePrincipals(s, r), r)
<1> DEFINE m == [s.members EXCEPT ![r.obj] = r.arg]
           t == [s EXCEPT !.members = m]
           a == Answer(200, t)
<1>1. ServePrincipals(s, r) \in {Answer(404, s), a}
  BY DEF ServePrincipals
<1>2. s.members \in [Groups -> SUBSET Principals]
  BY ServerIs
<1>3. m[r.obj] = r.arg /\ \A g \in Groups : g # r.obj => m[g] = s.members[g]
  BY <1>2
<1> HIDE DEF m
<1>4. t.members = m /\ t.body = s.body /\ t.keys = s.keys /\ t.assigned = s.assigned
      /\ t.acl = s.acl /\ t.users = s.users
  BY DEF Servers
<1>5. a.status = 200 /\ a.server = t
  BY AnswerIs
<1>6. Served2(s, Answer(404, s), r)
  BY RefusedAnswer
<1> HIDE DEF t, a
<1>7. Keeps(s, t, r)
  BY <1>3, <1>4 DEF Keeps, Keyless
<1>8. Achieves(s, a, r)
  BY <1>3, <1>4, <1>5 DEF Achieves
<1>9. Served2(s, a, r)
  BY <1>5, <1>7, <1>8 DEF Served2
<1> QED
  BY <1>1, <1>6, <1>9

LEMMA ACLKeeps ==
  ASSUME NEW s \in Servers, Keyless(s), NEW r, r.op = "acl", r.obj \in ACLObjects,
         NEW p \in ToSet(Perms), NEW who \in SUBSET Principals, r.arg = <<p, who>>
  PROVE  Served2(s, ServePrincipals(s, r), r)
<1> DEFINE m == [s.acl EXCEPT ![r.obj] = [@ EXCEPT ![p] = who]]
           t == [s EXCEPT !.acl = m]
           a == Answer(200, t)
<1>1. ServePrincipals(s, r) \in {Answer(404, s), a}
  BY DEF ServePrincipals
<1>2. s.acl \in [ACLObjects -> [ToSet(Perms) -> SUBSET Principals]]
  BY ServerIs
<1>3. /\ m[r.obj][p] = who
      /\ \A o \in ACLObjects, q \in ToSet(Perms) :
            m[o][q] = s.acl[o][q] \/ (o = r.obj /\ m[o][q] = who)
  BY <1>2
<1> HIDE DEF m
<1>4. t.acl = m /\ t.body = s.body /\ t.keys = s.keys /\ t.assigned = s.assigned
      /\ t.members = s.members /\ t.users = s.users
  BY DEF Servers
<1>5. a.status = 200 /\ a.server = t
  BY AnswerIs
<1>6. Served2(s, Answer(404, s), r)
  BY RefusedAnswer
<1> HIDE DEF t, a
<1>7. r.arg[1] = p /\ r.arg[2] = who
  OBVIOUS
<1>8. Keeps(s, t, r)
  BY <1>3, <1>4, <1>7 DEF Keeps, Keyless
<1>9. Achieves(s, a, r)
  BY <1>3, <1>4, <1>5, <1>7 DEF Achieves
<1>10. Served2(s, a, r)
  BY <1>5, <1>8, <1>9 DEF Served2
<1> QED
  BY <1>1, <1>6, <1>10

LEMMA AssociateKeeps ==
  ASSUME NEW s \in Servers, Keyless(s), NEW r, r.op = "associate", r.obj \in Users
  PROVE  Served2(s, ServePrincipals(s, r), r)
<1> DEFINE m == s.users \union {r.obj}
           t == [s EXCEPT !.users = m]
           a == Answer(200, t)
<1>1. ServePrincipals(s, r) \in {Answer(404, s), Answer(409, s), a}
  BY DEF ServePrincipals
<1>2. r.obj \in m /\ s.users \subseteq m
  OBVIOUS
<1> HIDE DEF m
<1>3. t.users = m /\ t.body = s.body /\ t.keys = s.keys /\ t.assigned = s.assigned
      /\ t.members = s.members /\ t.acl = s.acl
  BY DEF Servers
<1>4. a.status = 200 /\ a.server = t
  BY AnswerIs
<1>5. Served2(s, Answer(404, s), r) /\ Served2(s, Answer(409, s), r)
  BY RefusedAnswer
<1> HIDE DEF t, a
<1>6. Keeps(s, t, r)
  BY <1>2, <1>3 DEF Keeps, Keyless
<1>7. Achieves(s, a, r)
  BY <1>2, <1>3, <1>4 DEF Achieves
<1>8. Served2(s, a, r)
  BY <1>4, <1>6, <1>7 DEF Served2
<1> QED
  BY <1>1, <1>5, <1>8

LEMMA ServeKeeps ==
  ASSUME NEW s \in Servers, Keyless(s), NEW j, NEW r, Sound(j, r)
  PROVE  Served2(s, Serve(s, r), r)
<1>1. CASE r.op \in {"get", "put", "post", "upload", "delete"}
  <2>1. Serve(s, r) = ServeObject(s, r.op, r.obj) /\ r.obj \in Objects
    BY <1>1 DEF Serve, Sound
  <2> QED
    BY <1>1, <2>1, ObjectKeeps
<1>2. CASE r.op \in {"put_key", "post_key"}
  <2>1. Serve(s, r) = ServeKey(s, r.op, r.obj, r.arg)
    BY <1>2 DEF Serve
  <2> QED
    BY <1>2, <2>1, KeyKeeps DEF Sound
<1>3. CASE r.op = "assign"
  <2>1. Serve(s, r) = ServeAssign(s, r.obj, r.arg)
    BY <1>3 DEF Serve
  <2> QED
    BY <1>3, <2>1, AssignKeeps DEF Sound
<1>4. CASE r.op \in {"members", "acl", "associate"}
  <2>1. Serve(s, r) = ServePrincipals(s, r)
    BY <1>4 DEF Serve
  <2>2. CASE r.op = "members"
    BY <2>1, <2>2, MembersKeeps DEF Sound
  <2>3. CASE r.op = "acl"
    BY <2>1, <2>3, ACLKeeps DEF Sound
  <2>4. CASE r.op = "associate"
    BY <2>1, <2>4, AssociateKeeps DEF Sound
  <2> QED
    BY <1>4, <2>2, <2>3, <2>4
<1> QED
  BY <1>1, <1>2, <1>3, <1>4 DEF Sound

-----------------------------------------------------------------------------
(* What is to be sent, and what has been sent.                             *)

\* A request of another job leaves alone what a job has written.
LEMMA PendsStable ==
  ASSUME NEW s \in Servers, NEW t, NEW r, Effect(s, t, r), Keeps(s, t, r),
         NEW k, About(k), NEW todo, NEW who, Pends(k, todo, s, who),
         k[1] \in {"item", "membership"} => s.body[k[2]] = "absent" \/ t.body[k[2]] # "absent",
         r.op = "assign" /\ r.obj = k[2] => r.arg \in Assigned[k[2]],
         r.op = "members" /\ k[1] = "membership" /\ r.obj = k[2] => r.arg = who,
         r.op = "acl" /\ k[1] = "acl" /\ r.obj = k[2] => r.arg[2] = who
  PROVE  Pends(k, todo, t, who)
<1> USE DEF Pends
<1>1. MemberPends(k, todo, t)
  BY DEF MemberPends, Keeps
<1>2. MembershipPends(k, todo, t, who)
  <2> SUFFICES ASSUME k[1] = "membership"
               PROVE  MembershipPends(k, todo, t, who)
    BY DEF MembershipPends
  <2>1. k[2] \in Groups
    BY JobObject
  <2>2. \/ t.members[k[2]] = s.members[k[2]]
        \/ r.op = "members" /\ r.obj = k[2] /\ t.members[k[2]] = r.arg
    BY <2>1 DEF Keeps
  <2>3. s.members[k[2]] = who => t.members[k[2]] = who
    BY <2>2
  <2> QED
    BY <2>3 DEF MembershipPends
<1>3. ACLPends(k, todo, t, who)
  <2> SUFFICES ASSUME k[1] = "acl"
               PROVE  ACLPends(k, todo, t, who)
    BY DEF ACLPends
  <2>1. k[2] \in ACLObjects
    BY JobObject
  <2>2. \A p \in ToSet(Perms) : s.acl[k[2]][p] = who => t.acl[k[2]][p] = who
    BY <2>1 DEF Keeps
  <2> QED
    BY <2>2 DEF ACLPends
<1>4. GroupPends(k, todo, t)
  <2> SUFFICES ASSUME k[1] = "item", k[2][1] = "policygroup"
               PROVE  GroupPends(k, todo, t)
    BY DEF GroupPends
  <2>1. s.body[k[2]] = "absent" \/ t.body[k[2]] # "absent"
    OBVIOUS
  <2>2. k[2] \in Of("policygroup") /\ k[2] \in DOMAIN Assigned
    BY TransferAssumption DEF About, Of
  <2>3. \A p, q \in Assigned[k[2]] : p[2] = q[2] => p = q
    BY <2>2, TransferAssumption
  <2>4. \A p \in Assigned[k[2]] : p \in s.assigned[k[2]] => p \in t.assigned[k[2]]
    BY <2>1, <2>2, <2>3 DEF Keeps
  <2> QED
    BY <2>4 DEF GroupPends
<1>5. OncePends(k, todo, t)
  BY DEF OncePends
<1>6. BodyPends(k, todo, t)
  <2> SUFFICES ASSUME k[1] = "item", s.body[k[2]] = "ours"
               PROVE  t.body[k[2]] = "ours"
    BY DEF BodyPends
  <2>1. k[2] \in Objects
    BY JobObject
  <2> QED
    BY <2>1 DEF Effect
<1>7. KeysPend(k, todo, t)
  <2> SUFFICES ASSUME k[1] = "item", k[2][1] \in {"client", "user"}
               PROVE  KeysPend(k, todo, t)
    BY DEF KeysPend
  <2>1. k[2] \in Keyed
    BY JobObject
  <2>2. SourceKeys[k[2]] \subseteq KeyNames /\ "default" \in KeyNames
    BY <2>1 DEF KeyNames, Keyed
  <2>3. \A n \in KeyNames : s.keys[k[2]][n] = "ours" => t.keys[k[2]][n] = "ours"
    BY <2>1 DEF Keeps
  <2>4. \A n \in KeyNames : KeyPends(k[2], n, todo, s) => KeyPends(k[2], n, todo, t)
    BY <2>3 DEF KeyPends
  <2> QED
    BY <2>2, <2>4 DEF KeysPend
<1> QED
  BY <1>1, <1>2, <1>3, <1>4, <1>5, <1>6, <1>7

LEMMA InTail ==
  ASSUME NEW X, NEW todo \in Seq(X), todo # <<>>, NEW x, In(x, todo)
  PROVE  x = Head(todo) \/ In(x, Tail(todo))
<1>1. PICK i \in DOMAIN todo : todo[i] = x
  BY DEF In
<1>2. Len(todo) \in Nat /\ DOMAIN todo = 1..Len(todo) /\ Head(todo) = todo[1]
      /\ Tail(todo) \in Seq(X) /\ Len(Tail(todo)) = Len(todo) - 1
      /\ \A k \in 1..Len(Tail(todo)) : Tail(todo)[k] = todo[k + 1]
  BY EmptySeq, HeadTailProperties
<1>3. CASE i = 1
  BY <1>1, <1>2, <1>3
<1>4. CASE i # 1
  <2> DEFINE u == Tail(todo)
  <2> HIDE DEF u
  <2>1. i - 1 \in 1..Len(u) /\ u[i - 1] = todo[i]
    BY <1>2, <1>4 DEF u
  <2>2. i - 1 \in DOMAIN u
    BY <1>2, <2>1 DEF u
  <2> QED
    BY <1>1, <2>1, <2>2 DEF In, u
<1> QED
  BY <1>3, <1>4

LEMMA TailOf ==
  ASSUME NEW X, NEW todo \in Seq(X), todo # <<>>, NEW P, \A i \in DOMAIN todo : todo[i] \in P
  PROVE  Head(todo) \in P /\ \A i \in DOMAIN Tail(todo) : Tail(todo)[i] \in P
<1>1. Len(todo) \in Nat /\ DOMAIN todo = 1..Len(todo) /\ Head(todo) = todo[1] /\ Len(todo) > 0
      /\ Tail(todo) \in Seq(X) /\ Len(Tail(todo)) = Len(todo) - 1
      /\ \A k \in 1..Len(Tail(todo)) : Tail(todo)[k] = todo[k + 1]
  BY EmptySeq, HeadTailProperties
<1> DEFINE u == Tail(todo)
<1> HIDE DEF u
<1>2. DOMAIN u = 1..Len(u)
  BY <1>1 DEF u
<1> QED
  BY <1>1, <1>2 DEF u

LEMMA InJoined ==
  ASSUME NEW X, NEW a \in Seq(X), NEW b \in Seq(X), NEW x, In(x, a) \/ In(x, b)
  PROVE  In(x, a \o b)
<1>1. /\ a \o b \in Seq(X) /\ Len(a \o b) = Len(a) + Len(b) /\ Len(a) \in Nat /\ Len(b) \in Nat
      /\ DOMAIN a = 1..Len(a) /\ DOMAIN b = 1..Len(b)
      /\ \A i \in 1..Len(a) : (a \o b)[i] = a[i]
      /\ \A i \in 1..Len(b) : (a \o b)[i + Len(a)] = b[i]
  BY ConcatProperties
<1> DEFINE c == a \o b
<1> HIDE DEF c
<1>2. DOMAIN c = 1..Len(c)
  BY <1>1 DEF c
<1>3. ASSUME NEW i \in DOMAIN a, a[i] = x
      PROVE  In(x, c)
  <2>1. i \in DOMAIN c /\ c[i] = x
    BY <1>1, <1>2, <1>3 DEF c
  <2> QED
    BY <2>1 DEF In
<1>4. ASSUME NEW i \in DOMAIN b, b[i] = x
      PROVE  In(x, c)
  <2>1. i + Len(a) \in DOMAIN c /\ c[i + Len(a)] = x
    BY <1>1, <1>2, <1>4 DEF c
  <2> QED
    BY <2>1 DEF In
<1> QED
  BY <1>3, <1>4 DEF In, c

LEMMA InOne ==
  ASSUME NEW x
  PROVE  In(x, <<x>>)
<1>1. 1 \in DOMAIN <<x>> /\ <<x>>[1] = x
  OBVIOUS
<1> QED
  BY <1>1 DEF In

\* What has been answered needs not be sent.
LEMMA PendsTail ==
  ASSUME NEW s \in Servers, NEW j, About(j), NEW todo \in Seq(Requests(j)), todo # <<>>, NEW who,
         NEW a, Served2(s, a, Head(todo)), Pends(j, todo, a.server, who),
         a.status = 200 \/ Tolerated(j, Head(todo), a.status)
  PROVE  Pends(j, Tail(todo), a.server, who)
<1> DEFINE r == Head(todo)
           t == a.server
           rest == Tail(todo)
<1>1. r \in Requests(j) /\ Sound(j, r)
  BY RequestsAre, EmptySeq
<1>2. \A x : In(x, todo) => x = r \/ In(x, rest)
  BY InTail
<1>3. Achieves(s, a, r)
  BY DEF Served2
<1>4. a.status = 200 \/ (a.status = 409 /\ r.op = "post" /\ t.body[r.obj] # "absent" /\ r.obj[1] = "policy")
      \/ j[1] = "shell"
  BY <1>3 DEF Tolerated, Achieves
<1> HIDE DEF t, rest, r
<1>5. MemberPends(j, rest, t)
  <2> SUFFICES ASSUME j[1] = "member", Req("associate", j[2]) = r
               PROVE  j[2] \in t.users
    BY <1>2 DEF MemberPends, Pends, t, r
  <2>1. r.op = "associate" /\ r.obj = j[2]
    BY DEF Req
  <2> QED
    BY <1>3, <1>4, <2>1 DEF Achieves, t
<1>6. MembershipPends(j, rest, t, who)
  <2> SUFFICES ASSUME j[1] = "membership"
               PROVE  t.members[j[2]] = who /\ \A i \in DOMAIN rest : rest[i].arg = who
    BY DEF MembershipPends
  <2>1. r.op = "members" /\ r.obj = j[2]
    BY <1>1 DEF Requests, MemberReqs, With
  <2>2. r.arg = who /\ \A i \in DOMAIN rest : rest[i].arg = who
    <3> DEFINE P == {x \in Requests(j) : x.arg = who}
    <3>1. \A i \in DOMAIN todo : todo[i] \in P
      BY DEF Pends, MembershipPends, t
    <3> HIDE DEF P
    <3>2. r \in P /\ \A i \in DOMAIN rest : rest[i] \in P
      BY <3>1, TailOf DEF r, rest
    <3> QED
      BY <3>2 DEF P
  <2>3. t.members[r.obj] = r.arg
    BY <1>3, <1>4, <2>1 DEF Achieves, t
  <2> QED
    BY <2>1, <2>2, <2>3
<1>7. ACLPends(j, rest, t, who)
  <2> SUFFICES ASSUME j[1] = "acl"
               PROVE  ACLPends(j, rest, t, who)
    BY DEF ACLPends
  <2>1. \A i \in DOMAIN rest : rest[i].arg[2] = who
    <3> DEFINE P == {x \in Requests(j) : x.arg[2] = who}
    <3>1. \A i \in DOMAIN todo : todo[i] \in P
      BY DEF Pends, ACLPends, t
    <3> HIDE DEF P
    <3>2. \A i \in DOMAIN rest : rest[i] \in P
      BY <3>1, TailOf DEF rest
    <3> QED
      BY <3>2 DEF P
  <2>2. ASSUME NEW p \in ToSet(Perms), With("acl", j[2], <<p, who>>) = r
        PROVE  t.acl[j[2]][p] = who
    <3>1. r.op = "acl" /\ r.obj = j[2] /\ r.arg[1] = p /\ r.arg[2] = who
      BY <2>2 DEF With
    <3>2. a.status = 200
      BY <1>4, <3>1
    <3>3. t.acl[r.obj][r.arg[1]] = r.arg[2]
      BY <1>3, <2>2, <3>1, <3>2 DEF Achieves, t
    <3> QED
      BY <3>1, <3>3
  <2>3. \A p \in ToSet(Perms) :
            t.acl[j[2]][p] = who \/ In(With("acl", j[2], <<p, who>>), todo)
    BY DEF Pends, ACLPends, t
  <2> QED
    BY <1>2, <2>1, <2>2, <2>3 DEF ACLPends
<1>8. GroupPends(j, rest, t)
  <2> SUFFICES ASSUME NEW p, j[1] = "item", With("assign", j[2], p) = r
               PROVE  p \in t.assigned[j[2]]
    BY <1>2 DEF GroupPends, Pends, t, r
  <2>1. r.op = "assign" /\ r.obj = j[2] /\ r.arg = p
    BY DEF With
  <2> QED
    BY <1>3, <1>4, <2>1 DEF Achieves, t
<1>9. OncePends(j, rest, t)
  <2> SUFFICES ASSUME j[1] = "item", Req("post", j[2]) = r
               PROVE  t.body[j[2]] # "absent"
    BY <1>2 DEF OncePends, Pends, t, r
  <2>1. r.op = "post" /\ r.obj = j[2]
    BY DEF Req
  <2> QED
    BY <1>3, <1>4, <2>1 DEF Achieves, t
<1>10. BodyPends(j, rest, t)
  <2> SUFFICES ASSUME j[1] = "item", j[2][1] \notin Once,
                      NEW op \in {"post", "put", "upload"}, Req(op, j[2]) = r
               PROVE  t.body[j[2]] = "ours"
    BY <1>2 DEF BodyPends, Pends, t, r
  <2>1. r.op = op /\ r.obj = j[2] /\ j[2][1] # "policy"
    BY DEF Req, Once
  <2> QED
    BY <1>3, <1>4, <2>1 DEF Achieves, t
<1>11. KeysPend(j, rest, t)
  <2> SUFFICES ASSUME j[1] = "item", j[2][1] \in {"client", "user"}
               PROVE  KeysPend(j, rest, t)
    BY DEF KeysPend
  <2>1. ASSUME NEW n, KeyPends(j[2], n, todo, t)
        PROVE  KeyPends(j[2], n, rest, t)
    <3> SUFFICES ASSUME NEW op \in {"put_key", "post_key"}, With(op, j[2], n) = r
                 PROVE  t.keys[j[2]][n] = "ours"
      BY <1>2, <2>1 DEF KeyPends
    <3>1. r.op = op /\ r.obj = j[2] /\ r.arg = n
      BY DEF With
    <3> QED
      BY <1>3, <1>4, <3>1 DEF Achieves, t
  <2>2. Req("post", j[2]) = r => t.keys[j[2]]["default"] = "ours"
    <3> SUFFICES ASSUME Req("post", j[2]) = r
                 PROVE  t.keys[j[2]]["default"] = "ours"
      OBVIOUS
    <3>1. r.op = "post" /\ r.obj = j[2] /\ j[2] \in Keyed
      BY JobObject DEF Req
    <3> QED
      BY <1>3, <1>4, <3>1 DEF Achieves, t
  <2>3. /\ KeyPends(j[2], "default", todo, t) \/ In(Req("post", j[2]), todo)
        /\ \A n \in SourceKeys[j[2]] \ {"default"} : KeyPends(j[2], n, todo, t)
    BY DEF Pends, KeysPend, t
  <2>4. t.keys[j[2]]["default"] = "ours" => KeyPends(j[2], "default", rest, t)
    BY DEF KeyPends
  <2> QED
    BY <1>2, <2>1, <2>2, <2>3, <2>4 DEF KeysPend
<1> QED
  BY <1>5, <1>6, <1>7, <1>8, <1>9, <1>10, <1>11 DEF Pends, t, rest

LEMMA MemberACL ==
  ASSUME NEW j, j[1] \in {"membership", "acl"}, NEW r \in Requests(j)
  PROVE  r.op # "put_key"
<1>1. CASE j[1] = "membership"
  <2>1. r \in MemberReqs(j[2])
    BY <1>1 DEF Requests
  <2> QED
    BY <2>1 DEF MemberReqs, With
<1>2. CASE j[1] = "acl"
  <2>1. r \in ACLReqs(j[2])
    BY <1>2 DEF Requests
  <2> QED
    BY <2>1, ACLReqIs
<1> QED
  BY <1>1, <1>2

\* A key that is not there is posted instead of put.
LEMMA PendsPostKey ==
  ASSUME NEW j, About(j), NEW todo \in Seq(Requests(j)), todo # <<>>, NEW who, NEW t,
         Pends(j, todo, t, who), Head(todo).op = "put_key"
  PROVE  Pends(j, <<[Head(todo) EXCEPT !.op = "post_key"]>> \o Tail(todo), t, who)
<1> DEFINE r == Head(todo)
           q == [r EXCEPT !.op = "post_key"]
           rest == Tail(todo)
           next == <<q>> \o rest
<1>1. r \in Requests(j) /\ Sound(j, r) /\ rest \in Seq(Requests(j))
  BY RequestsAre, EmptySeq
<1>2. r \in KeyReqs(j[2]) /\ r.op = "put_key" /\ q \in Requests(j)
  BY <1>1, PostKeyIs DEF Sound
<1>3. PICK n : r = With("put_key", j[2], n) /\ q = With("post_key", j[2], n)
  BY <1>2 DEF KeyReqs, With
<1>4. <<q>> \in Seq(Requests(j))
  BY <1>2, OneRequest
<1>5. In(q, <<q>>)
  BY InOne
<1> HIDE DEF q, rest
<1>6. In(q, next) /\ \A x : In(x, rest) => In(x, next)
  BY <1>1, <1>4, <1>5, InJoined
<1>7. \A x : In(x, todo) => x = r \/ In(x, rest)
  BY InTail DEF rest
<1> HIDE DEF next
<1>8. \A x : In(x, todo) /\ x # r => In(x, next)
  BY <1>6, <1>7
<1> HIDE DEF r
<1>9. j[1] \notin {"membership", "acl"}
  BY <1>1, <1>2, MemberACL DEF r
<1>10. \A op, o : op # "put_key" => Req(op, o) # r
  BY <1>2 DEF Req
<1>11. \A op, o, x : op # "put_key" => With(op, o, x) # r
  BY <1>2 DEF With
<1>12. \A m : KeyPends(j[2], m, todo, t) => KeyPends(j[2], m, next, t)
  <2> SUFFICES ASSUME NEW m, With("put_key", j[2], m) = r
               PROVE  In(With("post_key", j[2], m), next)
    BY <1>8, <1>11 DEF KeyPends
  <2>1. m = n
    BY <1>3 DEF With
  <2> QED
    BY <1>3, <1>6, <2>1
<1>13. MemberPends(j, next, t) /\ GroupPends(j, next, t) /\ OncePends(j, next, t)
  BY <1>8, <1>10, <1>11 DEF Pends, MemberPends, GroupPends, OncePends
<1>14. BodyPends(j, next, t)
  BY <1>8, <1>10 DEF Pends, BodyPends
<1>15. KeysPend(j, next, t)
  BY <1>8, <1>10, <1>12 DEF Pends, KeysPend
<1>16. MembershipPends(j, next, t, who) /\ ACLPends(j, next, t, who)
  BY <1>9 DEF MembershipPends, ACLPends
<1> QED
  BY <1>13, <1>14, <1>15, <1>16 DEF Pends, next, q, rest, r

LEMMA PresentObject ==
  ASSUME NEW j, About(j), j[1] = "item", NEW s
  PROVE  Present(s, j[2]) <=> s.body[j[2]] # "absent"
<1>1. j[2][1] \in Kinds
  BY JobObject
<1>2. j[2] # OrgACL
  BY <1>1 DEF OrgACL, Kinds
<1> QED
  BY <1>2 DEF Present

\* What has nothing left to send is complete.
LEMMA DoneIs ==
  ASSUME NEW j, About(j), NEW s, NEW out
  PROVE  Pends(j, <<>>, s, Kept(j, out)) <=> Done(j, s, out)
<1>1. \A x : ~In(x, <<>>)
  BY DEF In
<1>2. CASE j[1] = "membership"
  BY <1>1, <1>2 DEF Pends, MemberPends, MembershipPends, ACLPends, GroupPends, OncePends, BodyPends,
        KeysPend, Done, Kept, Wanted
<1>3. CASE j[1] = "acl"
  <2> DEFINE who == Kept(j, out)
  <2>1. Done(j, s, out) <=> \A p \in ToSet(Perms) : s.acl[j[2]][p] = who
    BY <1>3 DEF Done, Kept, Wanted
  <2>2. DOMAIN <<>> = {}
    OBVIOUS
  <2> HIDE DEF who
  <2>3. ACLPends(j, <<>>, s, who) <=>
            \A p \in ToSet(Perms) : s.acl[j[2]][p] = who
    BY <1>1, <1>3, <2>2 DEF ACLPends
  <2>4. Pends(j, <<>>, s, who) <=> ACLPends(j, <<>>, s, who)
    BY <1>3 DEF Pends, MemberPends, MembershipPends, GroupPends, OncePends, BodyPends, KeysPend
  <2> QED
    BY <2>1, <2>3, <2>4 DEF who
<1>4. CASE j[1] \in {"user", "member", "shell", "purge"}
  BY <1>1, <1>4 DEF Pends, MemberPends, MembershipPends, ACLPends, GroupPends, OncePends, BodyPends,
        KeysPend, Done
<1>5. CASE j[1] = "item"
  <2> DEFINE o == j[2]
  <2>1. Pends(j, <<>>, s, Kept(j, out)) <=>
            GroupPends(j, <<>>, s) /\ OncePends(j, <<>>, s) /\ BodyPends(j, <<>>, s) /\ KeysPend(j, <<>>, s)
    BY <1>5 DEF Pends, MemberPends, MembershipPends, ACLPends
  <2>2. GroupPends(j, <<>>, s) <=> (o[1] = "policygroup" => Assigned[o] \subseteq s.assigned[o])
    BY <1>1, <1>5 DEF GroupPends
  <2>3. OncePends(j, <<>>, s) <=> (o[1] \in Once => s.body[o] # "absent")
    BY <1>1, <1>5 DEF OncePends
  <2>4. BodyPends(j, <<>>, s) <=>
            (o[1] \notin Once \union {"policygroup"} /\ o # DefaultEnv => s.body[o] = "ours")
    BY <1>1, <1>5 DEF BodyPends
  <2>5. KeysPend(j, <<>>, s) <=>
            (o[1] \in {"client", "user"} => \A n \in SourceKeys[o] \union {"default"} : s.keys[o][n] = "ours")
    BY <1>1, <1>5 DEF KeysPend, KeyPends
  <2>6. Present(s, o) <=> s.body[o] # "absent"
    BY <1>5, PresentObject
  <2>7. CASE o[1] = "policygroup"
    BY <1>5, <2>1, <2>2, <2>3, <2>4, <2>5, <2>7 DEF Done, Once, DefaultEnv
  <2>8. CASE o[1] \in {"client", "user"}
    BY <1>5, <2>1, <2>2, <2>3, <2>4, <2>5, <2>8 DEF Done, Once, DefaultEnv
  <2>9. CASE o[1] \in Once
    BY <1>5, <2>1, <2>2, <2>3, <2>4, <2>5, <2>6, <2>9 DEF Done, Once, DefaultEnv
  <2>10. CASE o[1] \notin Once \union {"policygroup", "client", "user"}
    BY <1>5, <2>1, <2>2, <2>3, <2>4, <2>5, <2>10 DEF Done, Once
  <2> QED
    BY <2>7, <2>8, <2>9, <2>10
<1> QED
  BY <1>2, <1>3, <1>4, <1>5 DEF About

-----------------------------------------------------------------------------
(* What a job is to send makes it complete.                                *)

LEMMA KeysIn ==
  ASSUME NEW o \in Users \union Of("client") \union Of("user"), NEW n \in SourceKeys[o]
  PROVE  In(With("put_key", o, n), KeyRequests(o))
<1>1. IsFiniteSet(SourceKeys[o])
  BY TransferAssumption
<1> DEFINE names == SetToSeq(SourceKeys[o])
<1>2. names \in Seq(SourceKeys[o]) /\ \E i \in 1..Len(names) : names[i] = n
  BY <1>1, SetToSeqIs
<1>3. KeyRequests(o) = [i \in DOMAIN names |-> With("put_key", o, names[i])]
  BY DEF KeyRequests
<1> HIDE DEF names
<1>4. PICK i \in DOMAIN names : names[i] = n
  BY <1>2
<1> QED
  BY <1>3, <1>4 DEF In

LEMMA AssignsIn ==
  ASSUME NEW o \in Of("policygroup"), NEW p \in Assigned[o]
  PROVE  In(With("assign", o, p), WritePolicyGroup(o))
<1> DEFINE ps == SetToSeq(Assigned[o])
           w(i) == LET q == ps[(i + 1) \div 2]
                   IN  IF i % 2 = 1 THEN Req("get", q) ELSE With("assign", o, q)
<1>1. IsFiniteSet(Assigned[o])
  BY TransferAssumption
<1>2. ps \in Seq(Assigned[o]) /\ Len(ps) \in Nat /\ \E i \in 1..Len(ps) : ps[i] = p
  BY <1>1, SetToSeqIs
<1>3. WritePolicyGroup(o) = [i \in 1..(2 * Len(ps)) |-> w(i)]
  BY DEF WritePolicyGroup
<1> HIDE DEF ps
<1>4. PICK i \in 1..Len(ps) : ps[i] = p
  BY <1>2
<1>5. 2 * i \in 1..(2 * Len(ps)) /\ (2 * i + 1) \div 2 = i /\ (2 * i) % 2 = 0
  BY <1>2
<1>6. w(2 * i) = With("assign", o, p)
  BY <1>4, <1>5
<1> HIDE DEF w
<1>7. WritePolicyGroup(o)[2 * i] = With("assign", o, p) /\ 2 * i \in DOMAIN WritePolicyGroup(o)
  BY <1>3, <1>5, <1>6
<1> QED
  BY <1>7 DEF In

LEMMA ACLsIn ==
  ASSUME NEW o, NEW who
  PROVE  /\ \A p \in ToSet(Perms) : In(With("acl", o, <<p, who>>), ACLRequests(o, who))
         /\ \A i \in DOMAIN ACLRequests(o, who) : ACLRequests(o, who)[i].arg[2] = who
<1>1. ACLRequests(o, who) = [i \in DOMAIN Perms |-> With("acl", o, <<Perms[i], who>>)]
  BY DEF ACLRequests
<1>2. \A p \in ToSet(Perms) : \E i \in DOMAIN Perms : Perms[i] = p
  BY DEF ToSet
<1>3. \A p \in ToSet(Perms) : In(With("acl", o, <<p, who>>), ACLRequests(o, who))
  BY <1>1, <1>2 DEF In
<1>4. \A i \in DOMAIN Perms : With("acl", o, <<Perms[i], who>>).arg[2] = who
  BY DEF With
<1> QED
  BY <1>1, <1>3, <1>4

\* The requests for an item.
LEMMA WritePends ==
  ASSUME NEW s \in Servers, NEW j, About(j), j[1] = "item", NEW e \in BOOLEAN, NEW who,
         e /\ j[2][1] # "policygroup" => s.body[j[2]] # "absent"
  PROVE  Pends(j, Write(j[2], e), s, who)
<1> DEFINE o == j[2]
           todo == Write(o, e)
<1>1. MemberPends(j, todo, s) /\ MembershipPends(j, todo, s, who) /\ ACLPends(j, todo, s, who)
  BY DEF MemberPends, MembershipPends, ACLPends
<1>2. o \in Plan /\ o[1] # "group"
  BY DEF About
<1>3. CASE o = DefaultEnv
  BY <1>1, <1>3 DEF Pends, GroupPends, OncePends, BodyPends, KeysPend, Once, DefaultEnv
<1>4. CASE o # DefaultEnv /\ o[1] \in Once
  <2>1. todo = WriteOnce(o, e)
    BY <1>4 DEF Write, Files, Once
  <2>2. OncePends(j, todo, s)
    BY <1>4, <2>1, InOne DEF OncePends, WriteOnce, Once
  <2> QED
    BY <1>1, <1>4, <2>2 DEF Pends, GroupPends, BodyPends, KeysPend, Once
<1>5. CASE o # DefaultEnv /\ Files(o)
  <2>1. todo = <<Req("upload", o)>>
    BY <1>5 DEF Write, Files
  <2>2. In(Req("upload", o), todo)
    BY <2>1, InOne
  <2> HIDE DEF todo
  <2>3. BodyPends(j, todo, s)
    BY <2>2 DEF BodyPends
  <2> QED
    BY <1>1, <1>5, <2>3 DEF Pends, GroupPends, OncePends, KeysPend, Once, Files, todo
<1>6. CASE o # DefaultEnv /\ o[1] \in {"client", "user"}
  <2> DEFINE Y == Plain({"get", "put", "post"}, o) \union KeyReqs(o)
             x == WriteActor(o, e)
             y == KeyRequests(o)
  <2>1. todo = x \o y
    BY <1>6 DEF Write, Files
  <2>2. o \in Of("client") \union Of("user")
    BY <1>2, <1>6 DEF Of
  <2>3. y \in Seq(Y) /\ x \in Seq(Y)
    <3>1. y \in Seq(KeyReqs(o))
      BY <2>2, KeyRequestsAre
    <3> QED
      BY <3>1, Wider, WriteActorIs
  <2>4. x = IF e THEN <<Req("put", o), With("put_key", o, "default")>> ELSE <<Req("post", o)>>
    BY DEF WriteActor
  <2>5. IF e THEN In(Req("put", o), x) /\ In(With("put_key", o, "default"), x)
        ELSE In(Req("post", o), x)
    <3>1. CASE e
      <4> DEFINE p == Req("put", o)
                 q == With("put_key", o, "default")
      <4>1. x = <<p, q>>
        BY <2>4, <3>1
      <4> HIDE DEF p, q, x
      <4>2. 1 \in DOMAIN x /\ x[1] = p /\ 2 \in DOMAIN x /\ x[2] = q
        BY <4>1
      <4> QED
        BY <3>1, <4>2 DEF In, p, q
    <3>2. CASE ~e
      BY <2>4, <3>2, InOne
    <3> QED
      BY <3>1, <3>2
  <2>6. \A n \in SourceKeys[o] : In(With("put_key", o, n), y)
    BY <2>2, KeysIn
  <2> HIDE DEF x, y, Y, todo
  <2>7. \A z : In(z, x) \/ In(z, y) => In(z, todo)
    BY <2>1, <2>3, InJoined
  <2>8. BodyPends(j, todo, s)
    BY <2>5, <2>7 DEF BodyPends
  <2>9. KeysPend(j, todo, s)
    BY <2>5, <2>6, <2>7 DEF KeysPend, KeyPends
  <2> QED
    BY <1>1, <1>6, <2>8, <2>9 DEF Pends, GroupPends, OncePends, Once, todo
<1>7. CASE o # DefaultEnv /\ o[1] = "policygroup"
  <2>1. todo = WritePolicyGroup(o)
    BY <1>7 DEF Write, Files
  <2>2. o \in Of("policygroup")
    BY <1>2, <1>7 DEF Of
  <2>3. GroupPends(j, todo, s)
    BY <2>1, <2>2, AssignsIn DEF GroupPends
  <2> QED
    BY <1>1, <1>7, <2>3 DEF Pends, OncePends, BodyPends, KeysPend, Once
<1>8. CASE o # DefaultEnv /\ ~Files(o) /\ o[1] \notin Once \union {"client", "user", "policygroup"}
  <2>1. todo = WriteSimple(o, e)
    BY <1>8 DEF Write, Once
  <2>2. \E op \in {"post", "put", "upload"} : In(Req(op, o), todo)
    BY <2>1, InOne DEF WriteSimple
  <2> HIDE DEF todo
  <2>3. BodyPends(j, todo, s)
    BY <2>2 DEF BodyPends
  <2> QED
    BY <1>1, <1>8, <2>3 DEF Pends, GroupPends, OncePends, KeysPend, todo
<1> QED
  BY <1>3, <1>4, <1>5, <1>6, <1>7, <1>8

-----------------------------------------------------------------------------
(* A step of a job keeps the report true.                                  *)

Moved(j) ==
    \/ server' = server
    \/ /\ jobs[j].at \in {"asking", "sending"} /\ Effect(server, server', Head(jobs[j].todo))
       /\ Keeps(server, server', Head(jobs[j].todo))

\* What a job knows of itself after a step.
Tells(j) ==
    /\ jobs'[j].at = "sending" => Pends(j, jobs'[j].todo, server', Kept(j, dropped'))
    /\ jobs'[j].at = "checking" =>
          /\ jobs'[j].left \subseteq Everybody(j)
          /\ \A p \in jobs'[j].left : <<j, p>> \notin dropped'
          /\ jobs'[j].kept = Kept(j, dropped') \ jobs'[j].left
    /\ jobs'[j].at # "waiting"
    /\ j \in written' => Pends(j, <<>>, server', Kept(j, dropped'))
    /\ j \in written' /\ j[1] # "user" => jobs'[j].at = "ended"
    /\ dropped' = dropped \/ \E p : dropped' = dropped \union {<<j, p>>}

\* The requests of a job leave alone what another has written, or has left
\* to send.
LEMMA OtherStable ==
  ASSUME TInv, RInv, NEW j \in DOMAIN jobs, jobs[j].at # "ended", Does(j), Moved(j),
         dropped' = dropped \/ \E p : dropped' = dropped \union {<<j, p>>},
         NEW k, About(k), k # j, k \in DOMAIN jobs \/ k \in written, NEW todo,
         Pends(k, todo, server, Kept(k, dropped))
  PROVE  Pends(k, todo, server', Kept(k, dropped'))
<1> USE DEF TInv
<1>1. Kept(k, dropped') = Kept(k, dropped)
  BY DEF Kept
<1>2. CASE server' = server
  BY <1>1, <1>2
<1>3. CASE server' # server
  <2> DEFINE r == Head(jobs[j].todo)
             who == Kept(k, dropped)
  <2>1. Effect(server, server', r) /\ Keeps(server, server', r) /\ Sound(j, r)
        /\ About(j) /\ StageName(j) = Stages[stage]
    BY <1>3, HeadIs DEF Moved, JobsOK
  <2>2. k[1] \in {"item", "membership"} => server.body[k[2]] = "absent" \/ server'.body[k[2]] # "absent"
    <3> SUFFICES ASSUME k[1] \in {"item", "membership"}, server.body[k[2]] # "absent"
                 PROVE  server'.body[k[2]] # "absent"
      OBVIOUS
    <3>1. k[2] \in Plan /\ k[2] \in Objects
      BY ObjectIs DEF About
    <3>2. Present(server, k[2])
      BY <3>1, PresentIs DEF ServerOK
    <3>3. OnlyPurged
      BY PurgeServed DEF Does
    <3> QED
      BY <3>1, <3>2, <3>3 DEF OnlyPurged, Spared
  <2>3. ASSUME r.op = "members", k[1] = "membership", r.obj = k[2]
        PROVE  FALSE
    <3>1. j[1] = "membership" /\ j[2] = k[2]
      BY <2>1, <2>3 DEF Sound
    <3> QED
      BY <2>1, <2>3, <3>1 DEF About
  <2>4. ASSUME r.op = "acl", k[1] = "acl", r.obj = k[2]
        PROVE  FALSE
    <3>1. j[1] \in {"acl", "user"} /\ j[2] = k[2]
      BY <2>1, <2>4 DEF Sound
    <3>2. CASE j[1] = "acl"
      BY <2>1, <2>4, <3>1, <3>2 DEF About
    <3>3. CASE j[1] = "user"
      <4>1. Stages[stage] = "users" /\ stage \in 1..19 /\ Stages[1] = "users"
        BY <2>1, <3>3 DEF StageName, StageOK, Stages
      <4>2. stage = 1
        BY <4>1, StagesAre
      <4>3. StageName(k) = "acls"
        BY <2>4 DEF StageName
      <4>4. \E i \in 1..stage : StageName(k) = Stages[i]
        <5>1. CASE k \in written
          BY <5>1 DEF ReportOK
        <5>2. CASE k \in DOMAIN jobs
          BY <4>2, <5>2 DEF JobsOK
        <5> QED
          BY <5>1, <5>2
      <4> QED
        BY <4>1, <4>2, <4>3, <4>4
    <3> QED
      BY <3>1, <3>2, <3>3
  <2>6. r.op = "assign" => r.arg \in Assigned[r.obj]
    BY <2>1 DEF Sound
  <2> HIDE DEF r, who
  <2>5. Pends(k, todo, server', who)
    BY <2>1, <2>2, <2>3, <2>4, <2>6, PendsStable DEF ServerOK, who
  <2> QED
    BY <1>1, <2>5 DEF who
<1> QED
  BY <1>2, <1>3

LEMMA TellsIs ==
  ASSUME TInv, RInv, NEW j \in DOMAIN jobs, Does(j), Moved(j), Tells(j)
  PROVE  RInv'
<1> USE DEF TInv, RInv
<1>1. PICK n : Step(j, n)
  BY DEF Does
<1>2. /\ DOMAIN jobs' = DOMAIN jobs /\ \A k \in DOMAIN jobs : k # j => jobs'[k] = jobs[k]
      /\ jobs[j].at # "ended" /\ stage' = stage /\ written' \in {written, written \union {j}}
  BY <1>1, JobsStep DEF Step
<1>3. dropped' = dropped \/ \E p : dropped' = dropped \union {<<j, p>>}
  BY DEF Tells
<1>4. JobsOK' /\ ReportOK'
  BY DoesIs
<1>5. KeylessOK'
  BY DEF Moved, Keeps, KeylessOK
<1>6. PendsOK'
  <2> SUFFICES ASSUME NEW k \in DOMAIN jobs, jobs'[k].at = "sending"
               PROVE  Pends(k, jobs'[k].todo, server', Kept(k, dropped'))
    BY <1>2 DEF PendsOK
  <2>1. CASE k = j
    BY <2>1 DEF Tells
  <2>2. CASE k # j
    <3>1. jobs'[k] = jobs[k] /\ Pends(k, jobs[k].todo, server, Kept(k, dropped)) /\ About(k)
      BY <1>2, <2>2 DEF PendsOK, JobsOK
    <3> QED
      BY <1>2, <1>3, <2>2, <3>1, OtherStable
  <2> QED
    BY <2>1, <2>2
<1>7. LooksOK'
  <2> SUFFICES ASSUME NEW k \in DOMAIN jobs
               PROVE  /\ jobs'[k].at = "waiting" => \A d \in dropped' : d[1] # k
                      /\ jobs'[k].at = "checking" =>
                            /\ jobs'[k].left \subseteq Everybody(k)
                            /\ \A p \in jobs'[k].left : <<k, p>> \notin dropped'
                            /\ jobs'[k].kept = Kept(k, dropped') \ jobs'[k].left
    BY <1>2 DEF LooksOK
  <2>1. CASE k = j
    BY <2>1 DEF Tells
  <2>2. CASE k # j
    <3>1. jobs'[k] = jobs[k]
      BY <1>2, <2>2
    <3>2. \A p : <<k, p>> \in dropped' <=> <<k, p>> \in dropped
      BY <1>3, <2>2
    <3>3. Kept(k, dropped') = Kept(k, dropped)
      BY <3>2 DEF Kept
    <3>4. \A d \in dropped' : d \in dropped \/ d[1] = j
      BY <1>3
    <3> QED
      BY <2>2, <3>1, <3>2, <3>3, <3>4 DEF LooksOK
  <2> QED
    BY <2>1, <2>2
<1>8. DroppedOK'
  <2>1. StageName(j) = Stages[stage] /\ stage \in 1..stage
    BY DEF JobsOK, StageOK
  <2> SUFFICES ASSUME NEW d \in dropped'
               PROVE  d = <<d[1], d[2]>> /\ \E i \in 1..stage : StageName(d[1]) = Stages[i]
    BY <1>2 DEF DroppedOK
  <2>2. d \in dropped \/ \E p : d = <<j, p>>
    BY <1>3
  <2> QED
    BY <2>1, <2>2 DEF DroppedOK
<1>9. DoneOK'
  <2> SUFFICES ASSUME NEW k \in written', k[1] # "user", k \in DOMAIN jobs
               PROVE  jobs'[k].at = "ended"
    BY <1>2 DEF DoneOK
  <2>1. CASE k = j
    BY <2>1 DEF Tells
  <2>2. CASE k # j
    BY <1>2, <2>2 DEF DoneOK
  <2> QED
    BY <2>1, <2>2
<1>10. ReportTold'
  <2> SUFFICES ASSUME NEW k \in written'
               PROVE  Done(k, server', dropped')
    BY DEF ReportTold
  <2>1. About(k)
    BY <1>4 DEF ReportOK
  <2>2. Pends(k, <<>>, server', Kept(k, dropped'))
    <3>1. CASE k = j
      BY <3>1 DEF Tells
    <3>2. CASE k # j
      <4>1. k \in written
        BY <1>2, <3>2
      <4>2. Pends(k, <<>>, server, Kept(k, dropped))
        BY <2>1, <4>1, DoneIs DEF ReportTold
      <4> QED
        BY <1>2, <1>3, <2>1, <3>2, <4>1, <4>2, OtherStable
    <3> QED
      BY <3>1, <3>2
  <2> QED
    BY <2>1, <2>2, DoneIs
<1> QED
  BY <1>5, <1>6, <1>7, <1>8, <1>9, <1>10

LEMMA NothingPends ==
  ASSUME NEW j, j[1] \in {"user", "shell", "purge"}, NEW todo, NEW s, NEW who
  PROVE  Pends(j, todo, s, who)
  BY DEF Pends, MemberPends, MembershipPends, ACLPends, GroupPends, OncePends, BodyPends, KeysPend

\* Who is in the report and goes on is a user.
LEMMA Reported ==
  ASSUME JobsOK, DoneOK, NEW j \in DOMAIN jobs, jobs[j].at # "ended", NEW s, NEW who
  PROVE  j \in written => j[1] = "user" /\ Pends(j, <<>>, s, who)
  BY NothingPends DEF DoneOK

LEMMA StateJobs ==
  ASSUME JobsOK, NEW j \in DOMAIN jobs, NEW n, jobs' = [jobs EXCEPT ![j] = n]
  PROVE  jobs'[j] = n
  BY DEF JobsOK

LEMMA EndedTells ==
  ASSUME JobsOK, DoneOK, NEW j \in DOMAIN jobs, jobs[j].at # "ended",
         Ended(j), written' = written, dropped' = dropped
  PROVE  Tells(j)
<1>1. jobs'[j].at = "ended"
  BY StateJobs, OverIs DEF Ended
<1> QED
  BY <1>1, Reported DEF Tells

LEMMA BecomesTells ==
  ASSUME JobsOK, DoneOK, NEW j \in DOMAIN jobs, jobs[j].at # "ended",
         NEW at \in {"asking", "sending"}, NEW todo, Becomes(j, at, todo), dropped' = dropped,
         written' = written,
         at = "sending" => Pends(j, todo, server', Kept(j, dropped))
  PROVE  Tells(j)
<1>1. jobs'[j] = State(at, todo, {}, {})
  BY StateJobs DEF Becomes
<1>2. jobs'[j].at = at /\ jobs'[j].todo = todo
  BY <1>1, StateIs
<1>3. j \in written => j[1] = "user" /\ Pends(j, <<>>, server', Kept(j, dropped))
  BY Reported
<1> QED
  BY <1>2, <1>3, Reported DEF Tells, DoneOK

LEMMA GoOnTells ==
  ASSUME JobsOK, DoneOK, NEW j \in DOMAIN jobs, jobs[j].at # "ended",
         NEW todo, GoOn(j, todo), dropped' = dropped, Pends(j, todo, server', Kept(j, dropped))
  PROVE  Tells(j)
<1>1. CASE todo = <<>>
  <2>1. jobs'[j].at = "ended"
    BY <1>1, StateJobs, OverIs DEF GoOn, Ended
  <2> QED
    BY <1>1, <2>1 DEF Tells
<1>2. CASE todo # <<>>
  <2>1. jobs'[j] = State("sending", todo, {}, {})
    BY <1>2, StateJobs DEF GoOn, Becomes
  <2>2. jobs'[j].at = "sending" /\ jobs'[j].todo = todo
    BY <2>1, StateIs
  <2>3. j \in written' => j[1] = "user"
    BY <1>2, Reported DEF GoOn
  <2>4. j[1] = "user" => Pends(j, <<>>, server', Kept(j, dropped))
    BY NothingPends
  <2> QED
    BY <2>2, <2>3, <2>4 DEF Tells
<1> QED
  BY <1>1, <1>2

LEMMA FailsTells ==
  ASSUME JobsOK, DoneOK, NEW j \in DOMAIN jobs, jobs[j].at # "ended", Fails(j), dropped' = dropped
  PROVE  Tells(j)
<1> DEFINE keyFailed == /\ j[1] = "user" /\ j \in written
                        /\ Head(jobs[j].todo).op \in {"put_key", "post_key"}
<1>1. j \in written' => j[1] \in {"user", "purge"} /\ Pends(j, <<>>, server', Kept(j, dropped))
  BY Reported, NothingPends DEF Fails
<1>2. CASE ~keyFailed
  <2>1. jobs'[j].at = "ended"
    BY <1>2, StateJobs, OverIs DEF Fails, Ended
  <2> QED
    BY <1>1, <2>1 DEF Tells
<1>3. CASE keyFailed
  <2> DEFINE todo == ACLRequests(j[2], Actors[j[2]])
  <2>1. jobs'[j] = State("sending", todo, {}, {})
    BY <1>3, StateJobs DEF Fails, Becomes
  <2>2. jobs'[j].at = "sending" /\ Pends(j, jobs'[j].todo, server', Kept(j, dropped))
    BY <1>3, <2>1, StateIs, NothingPends
  <2>3. j \in written' => j[1] = "user"
    BY <1>3
  <2> QED
    BY <1>1, <2>2, <2>3 DEF Tells
<1> QED
  BY <1>2, <1>3

LEMMA MovedIs ==
  ASSUME TInv, RInv, NEW j \in DOMAIN jobs, Answered(j) \/ Lost(j)
  PROVE  Moved(j)
<1> DEFINE r == Head(jobs[j].todo)
<1>1. jobs[j].at \in {"asking", "sending"}
  BY DEF Answered, Lost
<1>2. Sound(j, r)
  BY <1>1, HeadIs DEF TInv
<1>3. Effect(server, Serve(server, r).server, r) /\ Keeps(server, Serve(server, r).server, r)
  BY <1>2, ServeIs, ServeKeeps DEF TInv, RInv, ServerOK, KeylessOK, Served2
<1>4. server' \in {server, Serve(server, r).server}
  BY DEF Answered, Lost
<1> QED
  BY <1>1, <1>3, <1>4 DEF Moved

\* A request of a job leaves alone what the job has written before.
LEMMA OwnStable ==
  ASSUME TInv, RInv, NEW j \in DOMAIN jobs, jobs[j].at = "sending", Moved(j)
  PROVE  Pends(j, jobs[j].todo, server', Kept(j, dropped))
<1> USE DEF TInv, RInv
<1> DEFINE todo == jobs[j].todo
           r == Head(todo)
           who == Kept(j, dropped)
<1>1. Pends(j, todo, server, who)
  BY DEF PendsOK
<1>2. CASE server' = server
  BY <1>1, <1>2
<1>3. CASE server' # server
  <2>1. Effect(server, server', r) /\ Keeps(server, server', r)
    BY <1>3 DEF Moved
  <2>2. Sound(j, r) /\ About(j) /\ r = todo[1] /\ 1 \in DOMAIN todo
    BY HeadIs DEF JobsOK
  <2>3. j[1] = "membership" => r.arg = who
    BY <1>1, <2>2 DEF Pends, MembershipPends
  <2>4. j[1] = "acl" => r.arg[2] = who
    BY <1>1, <2>2 DEF Pends, ACLPends
  <2>5. j[1] \in {"item", "membership"} => server.body[j[2]] = "absent" \/ server'.body[j[2]] # "absent"
    <3> SUFFICES ASSUME j[1] \in {"item", "membership"}
                 PROVE  server.body[j[2]] = "absent" \/ server'.body[j[2]] # "absent"
      OBVIOUS
    <3>1. r.op # "delete" /\ j[2] \in Objects
      BY <2>2, JobObject DEF Sound
    <3> QED
      BY <2>1, <3>1 DEF Effect
  <2>6. r.op = "assign" => r.arg \in Assigned[r.obj]
    BY <2>2 DEF Sound
  <2> HIDE DEF todo, r, who
  <2> QED
    BY <1>1, <2>1, <2>2, <2>3, <2>4, <2>5, <2>6, PendsStable DEF ServerOK, todo, who
<1> QED
  BY <1>2, <1>3

LEMMA LostTells ==
  ASSUME TInv, RInv, NEW j \in DOMAIN jobs, Lost(j)
  PROVE  Tells(j)
<1> USE DEF TInv, RInv
<1>1. jobs[j].at \in {"asking", "sending"} /\ dropped' = dropped /\ JobIs(j, jobs[j])
  BY DEF Lost, JobsOK
<1>2. CASE jobs[j].tries + 1 < Retries
  <2> DEFINE n == [jobs[j] EXCEPT !.tries = @ + 1]
  <2>1. jobs' = [jobs EXCEPT ![j] = n] /\ written' = written
    BY <1>2 DEF Lost
  <2>2. n.at = jobs[j].at /\ n.todo = jobs[j].todo
    BY <1>1 DEF JobIs, JobStates
  <2> HIDE DEF n
  <2>3. jobs'[j].at = jobs[j].at /\ jobs'[j].todo = jobs[j].todo
    BY <2>1, <2>2, StateJobs
  <2>4. jobs[j].at = "sending" => Pends(j, jobs[j].todo, server', Kept(j, dropped))
    BY MovedIs, OwnStable
  <2>5. j \in written => j[1] = "user" /\ Pends(j, <<>>, server', Kept(j, dropped))
    BY <1>1, Reported
  <2> QED
    BY <1>1, <2>1, <2>3, <2>4, <2>5 DEF Tells
<1>3. CASE ~(jobs[j].tries + 1 < Retries)
  BY <1>1, <1>3, FailsTells DEF Lost
<1> QED
  BY <1>2, <1>3

LEMMA RefusedTells ==
  ASSUME TInv, RInv, NEW j \in DOMAIN jobs, Refused(j)
  PROVE  Tells(j)
  BY FailsTells DEF Refused, TInv, RInv

LEMMA AskedTells ==
  ASSUME TInv, RInv, NEW j \in DOMAIN jobs, Answered(j), jobs[j].at = "asking"
  PROVE  Tells(j)
<1> USE DEF TInv, RInv
<1> DEFINE r == Head(jobs[j].todo)
           a == Serve(server, r)
           e == a.status = 200
           skip == e /\ (~opts.overwrite \/ r.obj[1] = "artifact")
           todo == IF j[1] = "user" THEN WriteUser(r.obj, e) ELSE Write(r.obj, e)
<1>1. About(j) /\ Sound(j, r) /\ r.op = "get" /\ r.obj = j[2] /\ j[1] \in {"user", "item"}
  BY HeadIs, RequestIs DEF JobsOK, JobIs
<1>2. server' = a.server /\ dropped' = dropped
  BY DEF Answered
<1>3. server' \in Servers /\ (e => server'.body[j[2]] # "absent")
  <2>1. Effect(server, a.server, r) /\ Achieves(server, a, r)
    BY <1>1, ServeIs, ServeKeeps DEF ServerOK, KeylessOK, Served2
  <2> HIDE DEF a, r
  <2>2. a.status = 200 => a.server.body[r.obj] # "absent"
    BY <1>1, <2>1 DEF Achieves
  <2>3. a.server \in Servers
    BY <2>1 DEF Effect
  <2> QED
    BY <1>1, <1>2, <2>2, <2>3
<1>4. CASE skip
  <2>1. Ended(j) /\ written' = written
    BY <1>4 DEF Answered
  <2> QED
    BY <1>2, <2>1, EndedTells
<1>5. CASE ~skip /\ Files(r.obj) /\ r.obj \notin source
  <2>1. Fails(j)
    BY <1>5 DEF Answered
  <2> QED
    BY <1>2, <2>1, FailsTells
<1>6. CASE ~skip /\ ~(Files(r.obj) /\ r.obj \notin source)
  <2>1. GoOn(j, todo)
    BY <1>6 DEF Answered
  <2>2. e \in BOOLEAN
    OBVIOUS
  <2> HIDE DEF e
  <2>3. Pends(j, todo, server', Kept(j, dropped))
    <3>1. CASE j[1] = "user"
      BY <3>1, NothingPends
    <3>2. CASE j[1] = "item"
      <4>1. todo = Write(j[2], e)
        BY <1>1, <3>2
      <4> HIDE DEF todo
      <4> QED
        BY <1>1, <1>3, <2>2, <3>2, <4>1, WritePends
    <3> QED
      BY <1>1, <3>1, <3>2
  <2> HIDE DEF todo
  <2> QED
    BY <1>2, <2>1, <2>3, GoOnTells
<1> QED
  BY <1>4, <1>5, <1>6

LEMMA SentTells ==
  ASSUME TInv, RInv, NEW j \in DOMAIN jobs, Answered(j), jobs[j].at = "sending"
  PROVE  Tells(j)
<1> USE DEF TInv, RInv
<1> DEFINE todo == jobs[j].todo
           r == Head(todo)
           a == Serve(server, r)
           good == a.status = 200 \/ Tolerated(j, r, a.status)
           who == Kept(j, dropped)
<1>1. About(j) /\ Sound(j, r) /\ todo \in Seq(Requests(j)) /\ todo # <<>>
  BY HeadIs DEF JobsOK
<1>2. server' = a.server /\ dropped' = dropped
  BY DEF Answered
<1>3. Served2(server, a, r)
  BY <1>1, ServeKeeps DEF ServerOK, KeylessOK
<1>4. Pends(j, todo, server', who)
  BY MovedIs, OwnStable
<1>5. CASE good
  <2>1. GoOn(j, Tail(todo))
    <3>1. j[1] = "member" => Requests(j) = Plain({"associate"}, j[2])
      BY DEF Requests
    <3>2. j[1] = "member" => r.op = "associate"
      BY <1>1, <3>1, PlainIs, EmptySeq
    <3>3. ~(a.status = 409 /\ j[1] = "member")
      BY <1>5, <3>2 DEF Tolerated
    <3>4. ~(a.status = 404 /\ r.op = "put_key")
      BY <1>5 DEF Tolerated
    <3> QED
      BY <1>5, <3>3, <3>4 DEF Answered
  <2>2. Pends(j, Tail(todo), server', who)
    <3>1. Pends(j, todo, a.server, who)
      BY <1>2, <1>4
    <3> HIDE DEF who, a, todo
    <3> QED
      BY <1>1, <1>2, <1>3, <1>5, <3>1, PendsTail DEF ServerOK
  <2> QED
    BY <1>2, <2>1, <2>2, GoOnTells
<1>6. CASE ~good /\ a.status = 409 /\ j[1] = "member"
  <2>1. Ended(j) /\ written' = written
    BY <1>6 DEF Answered
  <2> QED
    BY <1>2, <2>1, EndedTells
<1>7. CASE ~good /\ a.status = 404 /\ r.op = "put_key"
  <2> DEFINE next == <<[r EXCEPT !.op = "post_key"]>> \o Tail(todo)
  <2>1. Becomes(j, "sending", next) /\ written' = written
    BY <1>7 DEF Answered
  <2>2. Pends(j, next, server', who)
    <3> HIDE DEF who, todo
    <3> QED
      BY <1>1, <1>4, <1>7, PendsPostKey
  <2> HIDE DEF next
  <2> QED
    BY <1>2, <2>1, <2>2, BecomesTells
<1>8. CASE ~good /\ ~(a.status = 409 /\ j[1] = "member") /\ ~(a.status = 404 /\ r.op = "put_key")
  <2>1. Fails(j)
    BY <1>8 DEF Answered
  <2> QED
    BY <1>2, <2>1, FailsTells
<1> QED
  BY <1>5, <1>6, <1>7, <1>8

LEMMA StartTells ==
  ASSUME TInv, RInv, NEW j \in DOMAIN jobs, Start(j)
  PROVE  Tells(j)
<1> USE DEF TInv, RInv
<1> DEFINE o == j[2]
           who == Kept(j, dropped)
           lacks == o \in Plan \ source
                    /\ (j[1] \in {"membership", "acl"} \/ (j[1] = "item" /\ ~Files(o)))
<1>1. About(j) /\ jobs[j].at = "waiting"
  BY DEF Start, JobsOK
<1>2. server' = server /\ dropped' = dropped /\ server \in Servers
  BY DEF Start, ServerOK
<1>3. CASE lacks
  <2>1. Ended(j) /\ written' = written
    BY <1>3 DEF Start
  <2> QED
    BY <1>1, <1>2, <2>1, EndedTells
<1>4. CASE ~lacks /\ j[1] \in {"shell", "purge"}
  <2>1. \E todo : GoOn(j, todo)
    BY <1>4 DEF Start
  <2> QED
    BY <1>1, <1>2, <1>4, <2>1, GoOnTells, NothingPends
<1>5. CASE ~lacks /\ j[1] = "member"
  <2> DEFINE todo == <<Req("associate", o)>>
  <2>1. GoOn(j, todo)
    BY <1>5 DEF Start
  <2>2. In(Req("associate", o), todo)
    BY InOne
  <2> HIDE DEF todo
  <2>3. Pends(j, todo, server', who)
    BY <1>5, <2>2 DEF Pends, MemberPends, MembershipPends, ACLPends, GroupPends, OncePends, BodyPends,
          KeysPend
  <2> QED
    BY <1>1, <1>2, <2>1, <2>3, GoOnTells
<1>6. CASE ~lacks /\ j[1] = "item" /\ o[1] = "policygroup"
  <2>1. GoOn(j, Write(o, TRUE))
    BY <1>6 DEF Start
  <2>2. Pends(j, Write(o, TRUE), server', who)
    BY <1>1, <1>2, <1>6, WritePends
  <2> QED
    BY <1>1, <1>2, <2>1, <2>2, GoOnTells
<1>7. CASE ~lacks /\ j[1] \in {"membership", "acl"}
  <2>1. Looks(j, Everybody(j), {}) /\ written' = written
    BY <1>7 DEF Start, Everybody
  <2>2. jobs'[j] = State("checking", <<>>, Everybody(j), {})
    BY <2>1, StateJobs DEF Looks
  <2>3. jobs'[j].at = "checking" /\ jobs'[j].left = Everybody(j) /\ jobs'[j].kept = {}
    BY <2>2, StateIs
  <2>4. \A p : <<j, p>> \notin dropped
    BY <1>1 DEF LooksOK
  <2>5. Kept(j, dropped) \ Everybody(j) = {}
    BY DEF Kept, Wanted, Everybody
  <2>6. j \notin written
    BY <1>1, <1>7, Reported
  <2> QED
    BY <1>2, <2>1, <2>3, <2>4, <2>5, <2>6 DEF Tells
<1>8. CASE /\ ~lacks /\ j[1] \notin {"shell", "member", "purge", "membership", "acl"}
           /\ ~(j[1] = "item" /\ o[1] = "policygroup")
  <2>1. Becomes(j, "asking", <<Req("get", o)>>) /\ written' = written
    BY <1>8 DEF Start
  <2> QED
    BY <1>1, <1>2, <2>1, BecomesTells
<1> QED
  BY <1>3, <1>4, <1>5, <1>6, <1>7, <1>8

LEMMA CheckTells ==
  ASSUME TInv, RInv, NEW j \in DOMAIN jobs, Check(j)
  PROVE  Tells(j)
<1> USE DEF TInv, RInv
<1> DEFINE left == jobs[j].left
           kept == jobs[j].kept
<1>1. jobs[j].at = "checking" /\ written' = written /\ j[1] \in {"membership", "acl"}
  BY DEF Check, JobsOK, JobIs
<1>2. left \subseteq Everybody(j) /\ (\A p \in left : <<j, p>> \notin dropped)
      /\ kept = Kept(j, dropped) \ left
  BY <1>1 DEF LooksOK
<1>3. j \notin written
  BY <1>1, Reported
<1> SUFFICES ASSUME NEW p \in left, NEW k,
                    Looks(j, left \ {p}, k), k = Kept(j, dropped') \ (left \ {p}),
                    dropped' \in {dropped, dropped \union {<<j, p>>}}
             PROVE  Tells(j)
  <2>1. PICK p \in left :
            \/ /\ j[1] = "membership" /\ p \in USAGs
               /\ Looks(j, left \ {p}, kept) /\ dropped' = dropped
            \/ /\ ~(j[1] = "membership" /\ p \in USAGs)
               /\ Looks(j, left \ {p}, kept \union {p}) /\ dropped' = dropped
            \/ /\ ~(j[1] = "membership" /\ p \in USAGs)
               /\ Looks(j, left \ {p}, kept) /\ dropped' = dropped \union {<<j, p>>}
    BY DEF Check
  <2>2. CASE /\ j[1] = "membership" /\ p \in USAGs
             /\ Looks(j, left \ {p}, kept) /\ dropped' = dropped
    <3>1. p \notin Kept(j, dropped)
      BY <2>2 DEF Kept, Wanted
    <3>2. kept = Kept(j, dropped') \ (left \ {p})
      BY <1>2, <2>2, <3>1
    <3> QED
      BY <2>2, <3>2
  <2>3. CASE /\ ~(j[1] = "membership" /\ p \in USAGs)
             /\ Looks(j, left \ {p}, kept \union {p}) /\ dropped' = dropped
    <3>1. p \in Kept(j, dropped)
      BY <1>1, <1>2, <2>3 DEF Kept, Wanted, Everybody
    <3>2. kept \union {p} = Kept(j, dropped') \ (left \ {p})
      BY <1>2, <2>3, <3>1
    <3> QED
      BY <2>3, <3>2
  <2>4. CASE /\ ~(j[1] = "membership" /\ p \in USAGs)
             /\ Looks(j, left \ {p}, kept) /\ dropped' = dropped \union {<<j, p>>}
    <3>1. Kept(j, dropped') = Kept(j, dropped) \ {p}
      BY <2>4 DEF Kept
    <3>2. kept = Kept(j, dropped') \ (left \ {p})
      BY <1>2, <3>1
    <3> QED
      BY <2>4, <3>2
  <2> QED
    BY <2>1, <2>2, <2>3, <2>4
<1>4. jobs'[j] = State("checking", <<>>, left \ {p}, k)
  BY StateJobs DEF Looks
<1>5. jobs'[j].at = "checking" /\ jobs'[j].left = left \ {p} /\ jobs'[j].kept = k
  BY <1>4, StateIs
<1>6. \A q \in left \ {p} : <<j, q>> \notin dropped'
  BY <1>2
<1> HIDE DEF left, kept
<1> QED
  BY <1>1, <1>2, <1>3, <1>5, <1>6 DEF Tells

LEMMA CheckedTells ==
  ASSUME TInv, RInv, NEW j \in DOMAIN jobs, Checked(j)
  PROVE  Tells(j)
<1> USE DEF TInv, RInv
<1> DEFINE who == Kept(j, dropped)
           todo == IF j[1] = "acl" THEN ACLRequests(j[2], who) ELSE <<With("members", j[2], who)>>
<1>1. jobs[j].at = "checking" /\ j[1] \in {"membership", "acl"} /\ About(j)
  BY DEF Checked, JobsOK, JobIs
<1>2. jobs[j].kept = who /\ dropped' = dropped /\ written' = written /\ server' = server
  <2>1. jobs[j].left = {} /\ dropped' = dropped /\ written' = written /\ server' = server
    BY DEF Checked, report
  <2>2. jobs[j].kept = who \ jobs[j].left
    BY <1>1 DEF LooksOK
  <2> QED
    BY <2>1, <2>2
<1>3. Becomes(j, "sending", todo)
  BY <1>2 DEF Checked
<1> HIDE DEF who
<1>4. Pends(j, todo, server, who)
  <2>1. CASE j[1] = "acl"
    <3>1. ACLPends(j, todo, server, who)
      BY <2>1, ACLsIn DEF ACLPends
    <3> QED
      BY <2>1, <3>1 DEF Pends, MemberPends, MembershipPends, GroupPends, OncePends, BodyPends, KeysPend
  <2>2. CASE j[1] = "membership"
    <3>1. todo = <<With("members", j[2], who)>>
      BY <2>2
    <3>2. With("members", j[2], who).arg = who
      BY DEF With
    <3>3. MembershipPends(j, todo, server, who)
      BY <3>1, <3>2 DEF MembershipPends
    <3> QED
      BY <2>2, <3>3 DEF Pends, MemberPends, ACLPends, GroupPends, OncePends, BodyPends, KeysPend
  <2> QED
    BY <1>1, <2>1, <2>2
<1> HIDE DEF todo
<1> QED
  BY <1>1, <1>2, <1>3, <1>4, BecomesTells DEF who

-----------------------------------------------------------------------------
(* The other steps.                                                        *)

LEMMA SameReport ==
  ASSUME RInv, written' = written, server' = server, dropped' = dropped
  PROVE  KeylessOK' /\ ReportTold'
  BY DEF RInv, KeylessOK, ReportTold

LEMMA NewStageTells ==
  ASSUME TInv, RInv, stage' \in 1..19, stage' > stage, jobs' = Begun(Stages[stage']),
         server' = server, report' = report
  PROVE  RInv'
<1> USE DEF TInv, RInv
<1>1. written' = written /\ dropped' = dropped /\ server' = server
  BY DEF report
<1>2. KeylessOK' /\ ReportTold'
  BY <1>1, SameReport
<1>3. \A j \in DOMAIN jobs' : jobs'[j].at = "waiting" /\ StageName(j) = Stages[stage']
  <2>1. \A j \in DOMAIN jobs' : jobs'[j] = Waiting /\ j \in JobsOf(Stages[stage'])
    BY BegunIs
  <2>2. Waiting.at = "waiting"
    BY OverIs
  <2> SUFFICES ASSUME NEW j \in DOMAIN jobs'
               PROVE  StageName(j) = Stages[stage'] /\ jobs'[j].at = "waiting"
    OBVIOUS
  <2>3. StageName(j) = Stages[stage']
    BY <2>1, JobsAre
  <2> QED
    BY <2>1, <2>2, <2>3
<1>4. ASSUME NEW j \in DOMAIN jobs', NEW k, \E i \in 1..stage : StageName(k) = Stages[i]
      PROVE  k # j
  <2>1. PICK i \in 1..stage : StageName(k) = Stages[i]
    BY <1>4
  <2>2. i \in 1..19 /\ i # stage'
    BY DEF StageOK
  <2> QED
    BY <1>3, <2>1, <2>2, StagesAre
<1>5. PendsOK'
  BY <1>3 DEF PendsOK
<1>6. LooksOK'
  <2> SUFFICES ASSUME NEW j \in DOMAIN jobs', NEW d \in dropped
               PROVE  d[1] # j
    BY <1>1, <1>3 DEF LooksOK
  <2> QED
    BY <1>4 DEF DroppedOK
<1>7. DroppedOK'
  <2> SUFFICES ASSUME NEW d \in dropped
               PROVE  d = <<d[1], d[2]>> /\ \E i \in 1..stage' : StageName(d[1]) = Stages[i]
    BY <1>1 DEF DroppedOK
  <2>1. PICK i \in 1..stage : d = <<d[1], d[2]>> /\ StageName(d[1]) = Stages[i]
    BY DEF DroppedOK
  <2>2. i \in 1..stage'
    BY DEF StageOK
  <2> QED
    BY <2>1, <2>2
<1>8. DoneOK'
  <2>1. \A j \in written : j \notin DOMAIN jobs'
    BY <1>4 DEF ReportOK
  <2> QED
    BY <1>1, <2>1 DEF DoneOK
<1> QED
  BY <1>2, <1>5, <1>6, <1>7, <1>8

LEMMA ForbiddenTells ==
  ASSUME TInv, RInv, Forbidden
  PROVE  RInv'
<1> USE DEF RInv
<1>1. UNCHANGED <<stage, server, written, dropped>>
  BY DEF Forbidden, report
<1>2. KeylessOK' /\ ReportTold'
  BY <1>1, SameReport
<1>3. \A j \in DOMAIN jobs' : jobs'[j].at = "ended"
  BY OverIs DEF Forbidden
<1> QED
  BY <1>1, <1>2, <1>3 DEF PendsOK, LooksOK, DroppedOK, DoneOK

LEMMA AppearsKeeps ==
  ASSUME TInv, RInv, NEW o \in MayAppear, Appears(o)
  PROVE  /\ Effect(server, server', Req("get", o)) /\ Keeps(server, server', Req("get", o))
         /\ KeylessOK' /\ server'.members = server.members /\ server'.assigned = server.assigned
         /\ \A q \in Objects : server.body[q] = "absent" \/ server'.body[q] # "absent"
         /\ server' \in Servers /\ UNCHANGED <<stage, jobs, written, failed, dropped>>
<1> USE DEF TInv, RInv
<1> DEFINE b == [server.body EXCEPT ![o] = "theirs"]
           k == [a \in DOMAIN server.keys |-> IF a = o THEN DefaultKey("theirs") ELSE server.keys[a]]
           r == Req("get", o)
<1>1. o \in Objects /\ server.body[o] = "absent"
  BY TransferAssumption, PresentIs DEF Appears, ServerOK
<1>2. UNCHANGED <<stage, jobs, written, failed, dropped>>
  BY DEF Appears, report
<1>3. server.body \in [Objects -> Whose] /\ server.keys \in [Keyed -> [KeyNames -> Whose]]
  BY ServerIs DEF ServerOK
<1>4. \A n \in KeyNames : DefaultKey("theirs")[n] # "ours"
  BY DEF DefaultKey, NoKeys
<1>5. \A q \in Objects : b[q] = IF q = o THEN "theirs" ELSE server.body[q]
  BY <1>3
<1>6. \A a \in Keyed : k[a] = IF a = o THEN DefaultKey("theirs") ELSE server.keys[a]
  BY <1>3
<1>7. server' = [server EXCEPT !.body = b, !.keys = k]
  BY DEF Appears
<1> HIDE DEF b, k
<1>8. server'.body = b /\ server'.keys = k /\ server'.members = server.members
      /\ server'.assigned = server.assigned /\ server'.acl = server.acl
      /\ server'.users = server.users
  BY <1>7 DEF ServerOK, Servers
<1>9. server' \in Servers /\ Keyed \subseteq Objects
  BY AppearsIs, TransferAssumption DEF ServerOK, Keyed
<1> HIDE DEF r
<1>11. Effect(server, server', r)
  BY <1>1, <1>5, <1>6, <1>8, <1>9 DEF Effect
<1>12. \A n \in KeyNames : o \in Keyed => server.keys[o][n] # "ours"
  BY <1>1 DEF KeylessOK, Keyless
<1>13. KeylessOK'
  <2> SUFFICES ASSUME NEW a \in Keyed, server'.body[a] = "absent", NEW n \in KeyNames
               PROVE  server'.keys[a][n] # "ours"
    BY DEF KeylessOK, Keyless
  <2>1. a # o /\ server.body[a] = "absent"
    BY <1>5, <1>8, <1>9
  <2> QED
    BY <1>6, <1>8, <2>1 DEF KeylessOK, Keyless
<1>15. \A q \in Objects : server.body[q] = "absent" \/ server'.body[q] # "absent"
  BY <1>5, <1>8
<1>14. Keeps(server, server', r)
  <2>1. \A a \in Keyed, n \in KeyNames : server.keys[a][n] = "ours" => server'.keys[a][n] = "ours"
    BY <1>6, <1>8, <1>12
  <2> QED
    BY <1>8, <1>13, <2>1 DEF Keeps, KeylessOK
<1> QED
  BY <1>2, <1>8, <1>9, <1>11, <1>13, <1>14, <1>15 DEF r

LEMMA AppearsTells ==
  ASSUME TInv, RInv, NEW o \in MayAppear, Appears(o)
  PROVE  RInv'
<1> USE DEF TInv, RInv
<1> DEFINE r == Req("get", o)
<1>2. UNCHANGED <<stage, jobs, written, dropped>> /\ KeylessOK'
  BY AppearsKeeps
<1>10. r.op = "get"
  BY DEF Req
<1> HIDE DEF r
<1>11. Effect(server, server', r) /\ Keeps(server, server', r)
       /\ \A q \in Objects : server.body[q] = "absent" \/ server'.body[q] # "absent"
  BY AppearsKeeps DEF r
<1>15. ASSUME NEW j, About(j), NEW todo, Pends(j, todo, server, Kept(j, dropped))
       PROVE  Pends(j, todo, server', Kept(j, dropped))
  <2>1. j[1] \in {"item", "membership"} => server.body[j[2]] = "absent" \/ server'.body[j[2]] # "absent"
    <3> SUFFICES ASSUME j[1] \in {"item", "membership"}
                 PROVE  server.body[j[2]] = "absent" \/ server'.body[j[2]] # "absent"
      OBVIOUS
    <3>1. j[2] \in Objects
      BY <1>15, JobObject
    <3> QED
      BY <1>11, <3>1
  <2> QED
    BY <1>10, <1>11, <1>15, <2>1, PendsStable DEF ServerOK
<1>16. PendsOK'
  BY <1>2, <1>15 DEF PendsOK, JobsOK
<1>17. LooksOK' /\ DroppedOK' /\ DoneOK'
  BY <1>2 DEF LooksOK, DroppedOK, DoneOK
<1>18. ReportTold'
  <2> SUFFICES ASSUME NEW j \in written
               PROVE  Done(j, server', dropped)
    BY <1>2 DEF ReportTold
  <2>1. About(j) /\ Done(j, server, dropped)
    BY DEF ReportOK, ReportTold
  <2>2. Pends(j, <<>>, server', Kept(j, dropped))
    BY <1>15, <2>1, DoneIs
  <2> QED
    BY <1>2, <2>1, <2>2, DoneIs
<1> QED
  BY <1>2, <1>16, <1>17, <1>18

LEMMA InitTells ==
  ASSUME Init
  PROVE  RInv
<1>1. stage = 1 /\ jobs = Begun(Stages[1]) /\ written = {} /\ dropped = {}
  BY DEF Init
<1>2. \A j \in DOMAIN jobs : jobs[j].at = "waiting"
  BY <1>1, OverIs DEF Begun
<1>3. KeylessOK
  <2>1. PICK there \in Existing :
          server.keys = [a \in DOMAIN SourceKeys |->
                            IF a \in there \union {Self} THEN DefaultKey("theirs") ELSE NoKeys]
    BY DEF Init
  <2>2. \A n \in KeyNames : DefaultKey("theirs")[n] # "ours" /\ NoKeys[n] # "ours"
    BY DEF DefaultKey, NoKeys
  <2> QED
    BY <2>1, <2>2 DEF KeylessOK, Keyless, Keyed
<1>4. PendsOK /\ LooksOK /\ DroppedOK /\ DoneOK /\ ReportTold
  BY <1>1, <1>2 DEF PendsOK, LooksOK, DroppedOK, DoneOK, ReportTold
<1> QED
  BY <1>3, <1>4 DEF RInv

LEMMA ReportNext ==
  ASSUME TInv, RInv, [Next]_vars
  PROVE  RInv'
<1>1. ASSUME NEW j \in DOMAIN jobs, Work(j) \/ Lost(j) \/ Refused(j)
      PROVE  RInv'
  <2>1. Does(j)
    BY <1>1, WorkIs
  <2>2. Tells(j)
    <3>1. Answered(j) => jobs[j].at \in {"asking", "sending"}
      BY DEF Answered
    <3> QED
      BY <1>1, <3>1, StartTells, AskedTells, SentTells, CheckTells, CheckedTells, LostTells,
         RefusedTells DEF Work
  <2>3. Moved(j)
    <3>1. Start(j) \/ Check(j) \/ Checked(j) \/ Refused(j) => server' = server
      BY DEF Start, Check, Checked, Refused
    <3> QED
      BY <1>1, <3>1, MovedIs DEF Work, Moved
  <2> QED
    BY <2>1, <2>2, <2>3, TellsIs
<1>2. CASE Advance
  <2>1. stage' \in 1..19 /\ stage' > stage /\ jobs' = Begun(Stages[stage'])
    BY <1>2, StagesAre DEF Advance, TInv, StageOK
  <2> QED
    BY <1>2, <2>1, NewStageTells DEF Advance
<1>3. CASE PurgeFails
  <2>1. stage' = 19 /\ jobs' = Begun(Stages[stage'])
    BY <1>3, StagesAre DEF PurgeFails
  <2>2. stage \in 1..19 /\ stage # 19
    BY <1>3, StagesAre DEF PurgeFails, TInv, StageOK
  <2> QED
    BY <1>3, <2>1, <2>2, NewStageTells DEF PurgeFails
<1>4. CASE Forbidden
  BY <1>4, ForbiddenTells
<1>5. CASE \E o \in MayAppear : Appears(o)
  BY <1>5, AppearsTells
<1>6. CASE UNCHANGED vars
  <2>1. UNCHANGED <<stage, jobs, server, written, dropped>>
    BY <1>6 DEF vars, report
  <2>2. KeylessOK' /\ ReportTold'
    BY <2>1, SameReport
  <2> QED
    BY <2>1, <2>2 DEF RInv, PendsOK, LooksOK, DroppedOK, DoneOK
<1> QED
  BY <1>1, <1>2, <1>3, <1>4, <1>5, <1>6 DEF Next, Working, Trouble

\* What is left of others' groups and policy groups.
GroupsSame ==
    /\ \A g \in DOMAIN server.members :
          g \notin Plan /\ Present(server', g) => server.members'[g] = server.members[g]
    /\ \A g \in DOMAIN server.assigned : Present(server', g) =>
          /\ server.assigned'[g] \subseteq server.assigned[g] \union ToAssign(g)
          /\ \A q \in server.assigned[g] \ server.assigned'[g] :
                \E p \in ToAssign(g) : p[2] = q[2]

LEMMA GroupsMoved ==
  ASSUME TInv, RInv, NEW j \in DOMAIN jobs, Moved(j)
  PROVE  GroupsSame
<1> USE DEF TInv
<1>1. CASE server' = server
  BY <1>1 DEF GroupsSame
<1>2. CASE server' # server
  <2> DEFINE r == Head(jobs[j].todo)
  <2>1. Effect(server, server', r) /\ Keeps(server, server', r) /\ Sound(j, r)
    BY <1>2, HeadIs DEF Moved
  <2> HIDE DEF r
  <2>2. server' \in Servers /\ DOMAIN server.members = Groups
        /\ DOMAIN server.assigned = DOMAIN Assigned
    BY <2>1, ServerIs DEF Effect, ServerOK
  <2>3. \A g \in Objects : Present(server', g) => server'.body[g] # "absent"
    BY <2>2, PresentIs
  <2>4. Groups \subseteq Objects /\ DOMAIN Assigned \subseteq Objects
    BY ObjectIs, TransferAssumption DEF Groups
  <2>5. r.op = "members" => r.obj \in Plan
    BY <2>1 DEF Sound
  <2>6. r.op = "assign" => r.obj \in Plan /\ r.arg \in Assigned[r.obj]
    BY <2>1 DEF Sound, Of
  <2>7. ASSUME NEW g \in Groups, g \notin Plan, Present(server', g)
        PROVE  server'.members[g] = server.members[g]
    BY <2>1, <2>3, <2>4, <2>5, <2>7 DEF Keeps
  <2>8. ASSUME NEW g \in DOMAIN Assigned, Present(server', g)
        PROVE  /\ server'.assigned[g] \subseteq server.assigned[g] \union ToAssign(g)
               /\ \A q \in server.assigned[g] \ server'.assigned[g] :
                     \E p \in ToAssign(g) : p[2] = q[2]
    <3>1. \A p \in server'.assigned[g] : p \in server.assigned[g] \/ p \in ToAssign(g)
      BY <2>1, <2>6 DEF Keeps, ToAssign
    <3>2. \A q \in server.assigned[g] : q \notin server'.assigned[g] =>
              r.op = "assign" /\ r.obj = g /\ q[2] = r.arg[2]
      BY <2>1, <2>3, <2>4, <2>8 DEF Keeps
    <3>3. r.op = "assign" /\ r.obj = g => r.arg \in ToAssign(g)
      BY <2>6 DEF ToAssign
    <3> QED
      BY <3>1, <3>2, <3>3
  <2> QED
    BY <2>2, <2>7, <2>8 DEF GroupsSame
<1> QED
  BY <1>1, <1>2

LEMMA GroupsNext ==
  ASSUME TInv, RInv, [Next]_vars
  PROVE  GroupsSame
<1>1. CASE server' = server
  BY <1>1 DEF GroupsSame
<1>2. ASSUME NEW j \in DOMAIN jobs, Work(j) \/ Lost(j) \/ Refused(j)
      PROVE  GroupsSame
  <2>1. Start(j) \/ Check(j) \/ Checked(j) \/ Refused(j) => server' = server
    BY DEF Start, Check, Checked, Refused
  <2> QED
    BY <1>1, <1>2, <2>1, MovedIs, GroupsMoved DEF Work
<1>3. CASE Advance \/ PurgeFails \/ Forbidden \/ UNCHANGED vars
  BY <1>1, <1>3 DEF Advance, PurgeFails, Forbidden, vars
<1>4. ASSUME NEW o \in MayAppear, Appears(o)
      PROVE  GroupsSame
  BY <1>4, AppearsKeeps DEF GroupsSame
<1> QED
  BY <1>2, <1>3, <1>4 DEF Next, Working, Trouble

\* Whatever falls between the requests of a transfer, an object that
\* somebody else made keeps its body and its keys unless the transfer
\* overwrites; only groups of the plan change their members, and a policy
\* group loses a revision only to the planned one of the same policy.
THEOREM OthersUntouched == Spec => OthersStay
<1>1. Init => RInv
  BY InitTells
<1>2. TInv /\ RInv /\ [Next]_vars => RInv'
  BY ReportNext
<1>3. TInv /\ RInv /\ [Next]_vars => [OthersSame /\ GroupsSame]_vars
  BY NextIs, GroupsNext
<1> QED
  BY <1>1, <1>2, <1>3, Invariance, PTL DEF Spec, OthersStay, OthersSame, GroupsSame

-----------------------------------------------------------------------------
(* The users of a backup.                                                  *)

\* A user has its body and its default key; its other keys and its ACL are
\* there, or are still to be sent.
Based(o, s) == s.body[o] = "ours" /\ s.keys[o]["default"] = "ours"
RestPends(o, todo, s) ==
    /\ \A n \in SourceKeys[o] : KeyPends(o, n, todo, s)
    /\ \A p \in ToSet(Perms) :
          s.acl[o][p] = Actors[o] \/ In(With("acl", o, <<p, Actors[o]>>), todo)

\* How far a user is, by what is left to send.
Shape(o, todo, s) ==
    LET L == Len(AfterBody(o))
    IN  \/ Len(todo) <= L /\ Based(o, s)
        \/ /\ Len(todo) = L + 1
           /\ \/ Head(todo) = Req("post", o)
              \/ s.body[o] = "ours" /\ \E op \in {"put_key", "post_key"} :
                                          Head(todo) = With(op, o, "default")
        \/ /\ Len(todo) = L + 2 /\ Head(todo) = Req("put", o)
           /\ Head(Tail(todo)) = With("put_key", o, "default")

UserJobsOK ==
    \A j \in DOMAIN jobs : j[1] = "user" /\ jobs[j].at = "sending" =>
        /\ Shape(j[2], jobs[j].todo, server)
        /\ j \in failed \/ RestPends(j[2], jobs[j].todo, server)
UsersOK ==
    \A j \in written : j[1] = "user" =>
        /\ Based(j[2], server)
        /\ j \in Active \union failed \/ RestPends(j[2], <<>>, server)
UInv == UserJobsOK /\ UsersOK

LEMMA UserStable ==
  ASSUME NEW s \in Servers, NEW t, NEW r, Effect(s, t, r), Keeps(s, t, r), NEW o \in Users,
         s.body[o] = "absent" \/ t.body[o] # "absent",
         r.op = "acl" /\ r.obj = o => r.arg[2] = Actors[o]
  PROVE  /\ Based(o, s) => Based(o, t)
         /\ \A todo : RestPends(o, todo, s) => RestPends(o, todo, t)
         /\ \A todo : Shape(o, todo, s) => Shape(o, todo, t)
<1>1. o \in Objects /\ o \in Keyed /\ o \in ACLObjects
  BY ObjectIs, TransferAssumption DEF Keyed, ACLObjects
<1>2. SourceKeys[o] \subseteq KeyNames /\ "default" \in KeyNames
  BY <1>1 DEF KeyNames, Keyed
<1>3. s.body[o] = "ours" => t.body[o] = "ours"
  BY <1>1 DEF Effect
<1>4. \A n \in KeyNames : s.keys[o][n] = "ours" => t.keys[o][n] = "ours"
  BY <1>1 DEF Keeps
<1>5. \A p \in ToSet(Perms) : s.acl[o][p] = Actors[o] => t.acl[o][p] = Actors[o]
  BY <1>1 DEF Keeps
<1>6. Based(o, s) => Based(o, t)
  BY <1>2, <1>3, <1>4 DEF Based
<1>7. \A todo : RestPends(o, todo, s) => RestPends(o, todo, t)
  BY <1>2, <1>4, <1>5 DEF RestPends, KeyPends
<1>8. \A todo : Shape(o, todo, s) => Shape(o, todo, t)
  BY <1>3, <1>6 DEF Shape
<1> QED
  BY <1>6, <1>7, <1>8

\* Nobody's request takes away from a user what it has been given.
LEMMA UserMoved ==
  ASSUME TInv, RInv, NEW j \in DOMAIN jobs, Does(j), Moved(j), NEW o \in Users
  PROVE  /\ Based(o, server) => Based(o, server')
         /\ \A todo : RestPends(o, todo, server) => RestPends(o, todo, server')
         /\ \A todo : Shape(o, todo, server) => Shape(o, todo, server')
<1> USE DEF TInv
<1>1. CASE server' = server
  BY <1>1
<1>2. CASE server' # server
  <2> DEFINE r == Head(jobs[j].todo)
  <2>1. Effect(server, server', r) /\ Keeps(server, server', r) /\ Sound(j, r) /\ About(j)
    BY <1>2, HeadIs DEF Moved, JobsOK
  <2>2. o \in Objects /\ o[1] = "user" /\ o \notin PlanACLs
    BY ObjectIs, TransferAssumption
  <2>3. server.body[o] = "absent" \/ server'.body[o] # "absent"
    <3>1. Present(server, o) <=> server.body[o] # "absent"
      BY <2>2, PresentIs DEF ServerOK
    <3>2. OnlyPurged
      BY PurgeServed DEF Does
    <3> QED
      BY <2>2, <3>1, <3>2 DEF OnlyPurged, Spared
  <2>4. r.op = "acl" /\ r.obj = o => r.arg[2] = Actors[o]
    <3> SUFFICES ASSUME r.op = "acl", r.obj = o
                 PROVE  r.arg[2] = Actors[o]
      OBVIOUS
    <3>1. j[1] \in {"acl", "user"} /\ j[2] = o /\ (j[1] = "user" => r.arg[2] = Actors[j[2]])
      BY <2>1 DEF Sound
    <3>2. j[1] # "acl"
      BY <2>1, <2>2, <3>1 DEF About
    <3> QED
      BY <3>1, <3>2
  <2> HIDE DEF r
  <2> QED
    BY <2>1, <2>3, <2>4, UserStable DEF ServerOK
<1> QED
  BY <1>1, <1>2

\* What a user's job knows of itself after a step.
UTells(j) ==
    j[1] = "user" =>
        /\ jobs'[j].at = "sending" =>
              /\ Shape(j[2], jobs'[j].todo, server')
              /\ j \in failed' \/ RestPends(j[2], jobs'[j].todo, server')
        /\ j \in written' =>
              /\ Based(j[2], server')
              /\ j \in Active' \union failed' \/ RestPends(j[2], <<>>, server')

LEMMA UTellsIs ==
  ASSUME TInv, RInv, UInv, NEW j \in DOMAIN jobs, Does(j), Moved(j), UTells(j)
  PROVE  UInv'
<1> USE DEF TInv, UInv
<1>1. PICK n : Step(j, n)
  BY DEF Does
<1>2. /\ DOMAIN jobs' = DOMAIN jobs /\ \A k \in DOMAIN jobs : k # j => jobs'[k] = jobs[k]
      /\ written' \in {written, written \union {j}} /\ failed \subseteq failed'
  BY <1>1, JobsStep DEF Step
<1>3. \A k : k # j => (k \in Active' <=> k \in Active)
  BY <1>2 DEF Active
<1>4. UserJobsOK'
  <2> SUFFICES ASSUME NEW k \in DOMAIN jobs, k[1] = "user", jobs'[k].at = "sending"
               PROVE  /\ Shape(k[2], jobs'[k].todo, server')
                      /\ k \in failed' \/ RestPends(k[2], jobs'[k].todo, server')
    BY <1>2 DEF UserJobsOK
  <2>1. CASE k = j
    BY <2>1 DEF UTells
  <2>2. CASE k # j
    <3>1. k[2] \in Users
      BY DEF JobsOK, About
    <3>2. jobs'[k] = jobs[k]
      BY <1>2, <2>2
    <3>3. Shape(k[2], jobs[k].todo, server) /\ (k \in failed \/ RestPends(k[2], jobs[k].todo, server))
      BY <3>2 DEF UserJobsOK
    <3> QED
      BY <1>2, <3>1, <3>2, <3>3, UserMoved
  <2> QED
    BY <2>1, <2>2
<1>5. UsersOK'
  <2> SUFFICES ASSUME NEW k \in written', k[1] = "user"
               PROVE  /\ Based(k[2], server')
                      /\ k \in Active' \union failed' \/ RestPends(k[2], <<>>, server')
    BY DEF UsersOK
  <2>1. CASE k = j
    BY <2>1 DEF UTells
  <2>2. CASE k # j
    <3>1. k \in written
      BY <1>2, <2>2
    <3>2. k[2] \in Users
      BY <3>1 DEF ReportOK, About
    <3>3. Based(k[2], server) /\ (k \in Active \union failed \/ RestPends(k[2], <<>>, server))
      BY <3>1 DEF UsersOK
    <3> QED
      BY <1>2, <1>3, <2>2, <3>2, <3>3, UserMoved
  <2> QED
    BY <2>1, <2>2
<1> QED
  BY <1>4, <1>5

\* The sequences of a user's requests.
LEMMA AfterBodyIs ==
  ASSUME NEW o \in Users
  PROVE  LET K == KeyRequests(o)
             A == ACLRequests(o, Actors[o])
             R == Requests(Job("user", o))
         IN  /\ K \in Seq(R) /\ A \in Seq(R) /\ AfterBody(o) \in Seq(R)
             /\ Len(K) \in Nat /\ Len(A) \in Nat /\ Len(AfterBody(o)) = Len(K) + Len(A)
<1> DEFINE K == KeyRequests(o)
           A == ACLRequests(o, Actors[o])
           R == Requests(Job("user", o))
<1>1. R = Plain({"get", "put", "post"}, o) \union KeyReqs(o) \union Give(o, Actors[o])
  BY DEF Requests, Job
<1>2. K \in Seq(KeyReqs(o))
  BY KeyRequestsAre
<1>3. A \in Seq(Give(o, Actors[o]))
  <2>1. Actors[o] \in SUBSET Principals
    BY TransferAssumption DEF ACLObjects
  <2> QED
    BY <2>1, ACLRequestsAre
<1> HIDE DEF K, A, R
<1>4. KeyReqs(o) \subseteq R /\ Give(o, Actors[o]) \subseteq R
  BY <1>1
<1>5. K \in Seq(R) /\ A \in Seq(R)
  BY <1>2, <1>3, <1>4, Wider
<1>6. K \o A \in Seq(R) /\ Len(K \o A) = Len(K) + Len(A) /\ Len(K) \in Nat /\ Len(A) \in Nat
  BY <1>5, ConcatProperties, LenProperties
<1>7. AfterBody(o) = K \o A
  BY DEF AfterBody, K, A
<1> QED
  BY <1>5, <1>6, <1>7 DEF K, A, R

LEMMA WriteUserPends ==
  ASSUME NEW o \in Users, NEW e \in BOOLEAN, NEW s
  PROVE  Shape(o, WriteUser(o, e), s) /\ RestPends(o, WriteUser(o, e), s)
<1> DEFINE K == KeyRequests(o)
           A == ACLRequests(o, Actors[o])
           R == Requests(Job("user", o))
           W == WriteActor(o, e)
           V == W \o K
           U == V \o A
<1>1. /\ K \in Seq(R) /\ A \in Seq(R) /\ Len(K) \in Nat /\ Len(A) \in Nat
      /\ Len(AfterBody(o)) = Len(K) + Len(A)
  BY AfterBodyIs
<1>2. o[1] = "user"
  BY TransferAssumption
<1>3. W \in Seq(R)
  <2>1. R = Plain({"get", "put", "post"}, o) \union KeyReqs(o) \union Give(o, Actors[o])
    BY DEF Requests, Job
  <2>2. W \in Seq(Plain({"get", "put", "post"}, o) \union KeyReqs(o))
    BY WriteActorIs
  <2> HIDE DEF R, W
  <2> QED
    BY <2>1, <2>2, Wider
<1>4. WriteUser(o, e) = U
  <2>1. o # DefaultEnv
    BY <1>2 DEF DefaultEnv
  <2>2. Write(o, e) = V
    BY <1>2, <2>1 DEF Write, Files
  <2> QED
    BY <2>2 DEF WriteUser
<1>5. W = IF e THEN <<Req("put", o), With("put_key", o, "default")>> ELSE <<Req("post", o)>>
  BY DEF WriteActor
<1>6. \A n \in SourceKeys[o] : In(With("put_key", o, n), K)
  BY KeysIn
<1>7. \A p \in ToSet(Perms) : In(With("acl", o, <<p, Actors[o]>>), A)
  BY ACLsIn
<1> HIDE DEF K, A, W, R
<1>8. /\ V \in Seq(R) /\ Len(V) = Len(W) + Len(K) /\ Len(W) \in Nat
      /\ \A i \in 1..Len(W) : V[i] = W[i]
  BY <1>1, <1>3, ConcatProperties, LenProperties
<1>9. \A x : In(x, K) => In(x, V)
  BY <1>1, <1>3, InJoined
<1> HIDE DEF V
<1>10. /\ U \in Seq(R) /\ Len(U) = Len(V) + Len(A) /\ \A i \in 1..Len(V) : U[i] = V[i]
  BY <1>1, <1>8, ConcatProperties
<1>11. \A x : In(x, V) \/ In(x, A) => In(x, U)
  BY <1>1, <1>8, InJoined
<1> HIDE DEF U
<1>12. RestPends(o, U, s)
  BY <1>6, <1>7, <1>9, <1>11 DEF RestPends, KeyPends
<1>13. Shape(o, U, s)
  <2>1. CASE e
    <3> DEFINE p == Req("put", o)
               q == With("put_key", o, "default")
    <3>1. W = <<p, q>>
      BY <1>5, <2>1
    <3> HIDE DEF p, q
    <3>2. Len(W) = 2 /\ W[1] = p /\ W[2] = q
      BY <3>1
    <3>3. Len(U) = Len(AfterBody(o)) + 2 /\ U[1] = p /\ U[2] = q
      BY <1>1, <1>8, <1>10, <3>2
    <3>4. U # <<>>
      BY <1>1, <3>3
    <3>5. Head(U) = U[1] /\ Tail(U) \in Seq(R) /\ Len(Tail(U)) = Len(U) - 1
          /\ \A i \in 1..Len(Tail(U)) : Tail(U)[i] = U[i + 1]
      BY <1>10, <3>4, HeadTailProperties
    <3> DEFINE T == Tail(U)
    <3>6. Len(T) = Len(AfterBody(o)) + 1 /\ T \in Seq(R)
      BY <1>1, <3>3, <3>5
    <3>8. T[1] = q /\ T # <<>>
      <4> HIDE DEF T
      <4>1. 1 \in 1..Len(T) /\ Len(T) # 0
        BY <1>1, <3>6
      <4>2. T[1] = U[1 + 1]
        BY <3>5, <4>1 DEF T
      <4> QED
        BY <3>3, <4>1, <4>2
    <3>7. Head(Tail(U)) = q
      BY <3>6, <3>8, HeadTailProperties
    <3> QED
      BY <3>3, <3>5, <3>7 DEF Shape, p, q
  <2>2. CASE ~e
    <3> DEFINE p == Req("post", o)
    <3>1. W = <<p>>
      BY <1>5, <2>2
    <3> HIDE DEF p
    <3>2. Len(W) = 1 /\ W[1] = p
      BY <3>1
    <3>3. Len(U) = Len(AfterBody(o)) + 1 /\ U[1] = p
      BY <1>1, <1>8, <1>10, <3>2
    <3>4. U # <<>>
      BY <1>1, <3>3
    <3>5. Head(U) = U[1]
      BY <1>10, <3>4, HeadTailProperties
    <3> QED
      BY <3>3, <3>5 DEF Shape, p
  <2> QED
    BY <2>1, <2>2
<1> QED
  BY <1>4, <1>12, <1>13

\* What has been answered needs not be sent.
LEMMA UserTail ==
  ASSUME NEW o \in Users, NEW todo \in Seq(Requests(Job("user", o))), todo # <<>>,
         NEW s, NEW a, Achieves(s, a, Head(todo)), a.status = 200
  PROVE  /\ Shape(o, todo, a.server) => Shape(o, Tail(todo), a.server)
         /\ RestPends(o, todo, a.server) => RestPends(o, Tail(todo), a.server)
<1> DEFINE L == Len(AfterBody(o))
           r == Head(todo)
           rest == Tail(todo)
           t == a.server
<1>1. L \in Nat
  BY AfterBodyIs
<1>2. Len(todo) \in Nat /\ Len(rest) = Len(todo) - 1
  BY HeadTailProperties, LenProperties
<1>3. \A x : In(x, todo) => x = r \/ In(x, rest)
  BY InTail
<1>4. o \in Keyed
  BY TransferAssumption DEF Keyed
<1> HIDE DEF L, r, rest, t
<1>5. ASSUME Shape(o, todo, t)
      PROVE  Shape(o, rest, t)
  <2>1. CASE Len(todo) <= L /\ Based(o, t)
    BY <1>1, <1>2, <2>1 DEF Shape, L
  <2>2. CASE Len(todo) = L + 1 /\ r = Req("post", o)
    <3>1. r.op = "post" /\ r.obj = o
      BY <2>2 DEF Req
    <3>2. Based(o, t)
      BY <1>4, <3>1 DEF Achieves, Based, r, t
    <3> QED
      BY <1>1, <1>2, <2>2, <3>2 DEF Shape, L
  <2>3. ASSUME NEW op \in {"put_key", "post_key"}, Len(todo) = L + 1, t.body[o] = "ours",
               r = With(op, o, "default")
        PROVE  Shape(o, rest, t)
    <3>1. r.op \in {"put_key", "post_key"} /\ r.obj = o /\ r.arg = "default"
      BY <2>3 DEF With
    <3>2. Based(o, t)
      BY <2>3, <3>1 DEF Achieves, Based, r, t
    <3> QED
      BY <1>1, <1>2, <2>3, <3>2 DEF Shape, L
  <2>4. CASE Len(todo) = L + 2 /\ r = Req("put", o) /\ Head(rest) = With("put_key", o, "default")
    <3>1. r.op = "put" /\ r.obj = o
      BY <2>4 DEF Req
    <3>2. t.body[o] = "ours"
      BY <3>1 DEF Achieves, r, t
    <3>3. Len(rest) = L + 1
      BY <1>1, <1>2, <2>4
    <3> QED
      BY <2>4, <3>2, <3>3 DEF Shape, L
  <2> QED
    BY <1>5, <2>1, <2>2, <2>3, <2>4 DEF Shape, L, r, rest
<1>6. ASSUME RestPends(o, todo, t)
      PROVE  RestPends(o, rest, t)
  <2>1. ASSUME NEW n \in SourceKeys[o]
        PROVE  KeyPends(o, n, rest, t)
    <3>1. KeyPends(o, n, todo, t)
      BY <1>6 DEF RestPends
    <3>2. ASSUME NEW op \in {"put_key", "post_key"}, With(op, o, n) = r
          PROVE  t.keys[o][n] = "ours"
      <4>1. r.op \in {"put_key", "post_key"} /\ r.obj = o /\ r.arg = n
        BY <3>2 DEF With
      <4> QED
        BY <4>1 DEF Achieves, r, t
    <3> QED
      BY <1>3, <3>1, <3>2 DEF KeyPends
  <2>2. ASSUME NEW p \in ToSet(Perms)
        PROVE  t.acl[o][p] = Actors[o] \/ In(With("acl", o, <<p, Actors[o]>>), rest)
    <3>1. t.acl[o][p] = Actors[o] \/ In(With("acl", o, <<p, Actors[o]>>), todo)
      BY <1>6 DEF RestPends
    <3>2. ASSUME With("acl", o, <<p, Actors[o]>>) = r
          PROVE  t.acl[o][p] = Actors[o]
      <4>1. r.op = "acl" /\ r.obj = o /\ r.arg[1] = p /\ r.arg[2] = Actors[o]
        BY <3>2 DEF With
      <4>2. t.acl[r.obj][r.arg[1]] = r.arg[2]
        BY <4>1 DEF Achieves, r, t
      <4> QED
        BY <4>1, <4>2
    <3> QED
      BY <1>3, <3>1, <3>2
  <2> QED
    BY <2>1, <2>2 DEF RestPends
<1> QED
  BY <1>5, <1>6 DEF rest, t

\* A key that is not there is posted instead of put.
LEMMA UserPostKey ==
  ASSUME NEW o \in Users, NEW todo \in Seq(Requests(Job("user", o))), todo # <<>>,
         Head(todo).op = "put_key", NEW s
  PROVE  LET next == <<[Head(todo) EXCEPT !.op = "post_key"]>> \o Tail(todo)
         IN  /\ Shape(o, todo, s) => Shape(o, next, s)
             /\ RestPends(o, todo, s) => RestPends(o, next, s)
<1> DEFINE j == Job("user", o)
           r == Head(todo)
           q == [r EXCEPT !.op = "post_key"]
           rest == Tail(todo)
           next == <<q>> \o rest
<1>1. About(j) /\ j[2] = o
  BY DEF About, Job
<1> HIDE DEF j
<1>2. r \in Requests(j) /\ Sound(j, r) /\ rest \in Seq(Requests(j)) /\ Len(todo) \in Nat
      /\ Len(rest) = Len(todo) - 1
  BY <1>1, RequestsAre, EmptySeq, HeadTailProperties, LenProperties DEF j
<1>3. r \in KeyReqs(o) /\ r.op = "put_key" /\ q \in Requests(j)
  BY <1>1, <1>2, PostKeyIs DEF Sound
<1>4. PICK n : r = With("put_key", o, n) /\ q = With("post_key", o, n)
  BY <1>3 DEF KeyReqs, With
<1>5. <<q>> \in Seq(Requests(j)) /\ In(q, <<q>>)
  BY <1>3, OneRequest, InOne
<1>6. \A x : In(x, todo) => x = r \/ In(x, rest)
  BY InTail
<1> HIDE DEF q, rest
<1>7. In(q, next) /\ \A x : In(x, rest) => In(x, next)
  BY <1>2, <1>5, InJoined
<1>8. Len(next) = Len(todo) /\ Head(next) = q /\ next # <<>>
  <2>1. Len(<<q>>) = 1 /\ <<q>>[1] = q
    OBVIOUS
  <2>2. next \in Seq(Requests(j)) /\ Len(next) = 1 + Len(rest) /\ next[1] = q
    BY <1>2, <1>5, <2>1, ConcatProperties
  <2> HIDE DEF next
  <2>3. next # <<>>
    BY <1>2, <2>2, EmptySeq
  <2> QED
    BY <1>2, <2>2, <2>3, HeadTailProperties
<1> HIDE DEF next, r
<1>9. Shape(o, todo, s) => Shape(o, next, s)
  <2>1. r # Req("post", o) /\ r # Req("put", o)
    BY <1>3 DEF Req
  <2>2. \A op : r = With(op, o, "default") => q = With("post_key", o, "default")
    BY <1>4 DEF With
  <2> QED
    BY <1>8, <2>1, <2>2 DEF Shape, r
<1>10. RestPends(o, todo, s) => RestPends(o, next, s)
  <2>1. \A m : With("put_key", o, m) = r => m = n
    BY <1>4 DEF With
  <2>2. \A op, m : op # "put_key" => With(op, o, m) # r
    BY <1>3 DEF With
  <2>3. \A m : KeyPends(o, m, todo, s) => KeyPends(o, m, next, s)
    BY <1>4, <1>6, <1>7, <2>1, <2>2 DEF KeyPends
  <2>4. \A m : In(With("acl", o, m), todo) => In(With("acl", o, m), next)
    BY <1>6, <1>7, <2>2
  <2> QED
    BY <2>3, <2>4 DEF RestPends
<1> QED
  BY <1>9, <1>10 DEF next, q, r, rest

LEMMA UserJob ==
  ASSUME TInv, NEW j \in DOMAIN jobs, j[1] = "user"
  PROVE  j[2] \in Users /\ j = Job("user", j[2])
  BY DEF TInv, JobsOK, About

LEMMA GoOnUser ==
  ASSUME TInv, NEW j \in DOMAIN jobs, j[1] = "user", NEW todo \in Seq(Requests(j)),
         GoOn(j, todo), failed' = failed, j \in written => Based(j[2], server'),
         Shape(j[2], todo, server'), j \in failed \/ RestPends(j[2], todo, server')
  PROVE  UTells(j)
<1> USE DEF TInv
<1> DEFINE o == j[2]
           L == Len(AfterBody(o))
<1>1. o \in Users /\ L \in Nat /\ Len(todo) \in Nat
  BY UserJob, AfterBodyIs, LenProperties
<1>2. DOMAIN jobs' = DOMAIN jobs
  BY DEF GoOn, Ended, Becomes
<1> HIDE DEF L
<1>3. Len(todo) <= L => Based(o, server')
  BY <1>1 DEF Shape, L
<1>4. CASE todo = <<>>
  <2>1. jobs'[j].at = "ended"
    BY <1>4, StateJobs, OverIs DEF GoOn, Ended
  <2>2. Based(o, server')
    BY <1>1, <1>3, <1>4
  <2> QED
    BY <1>4, <2>1, <2>2 DEF UTells
<1>5. CASE todo # <<>>
  <2>1. jobs'[j] = State("sending", todo, {}, {})
    BY <1>5, StateJobs DEF GoOn, Becomes
  <2>2. jobs'[j].at = "sending" /\ jobs'[j].todo = todo
    BY <2>1, StateIs
  <2>3. j \in Active'
    BY <1>2, <2>2 DEF Active
  <2>4. j \in written' => j \in written \/ Len(todo) <= L
    BY <1>5 DEF GoOn, L
  <2> QED
    BY <1>3, <2>2, <2>3, <2>4 DEF UTells
<1> QED
  BY <1>4, <1>5

LEMMA FailsUser ==
  ASSUME TInv, NEW j \in DOMAIN jobs, j[1] = "user", Fails(j),
         j \in written => Based(j[2], server')
  PROVE  UTells(j)
<1> USE DEF TInv
<1> DEFINE keyFailed == /\ j[1] = "user" /\ j \in written
                        /\ Head(jobs[j].todo).op \in {"put_key", "post_key"}
           o == j[2]
           todo == ACLRequests(o, Actors[o])
<1>1. j \in failed' /\ written' = written
  BY DEF Fails
<1>2. CASE ~keyFailed
  <2>1. jobs'[j].at = "ended"
    BY <1>2, StateJobs, OverIs DEF Fails, Ended
  <2> QED
    BY <1>1, <2>1 DEF UTells
<1>3. CASE keyFailed
  <2>1. jobs'[j] = State("sending", todo, {}, {})
    BY <1>3, StateJobs DEF Fails, Becomes
  <2>2. jobs'[j].at = "sending" /\ jobs'[j].todo = todo
    BY <2>1, StateIs
  <2>3. Len(todo) <= Len(AfterBody(o))
    BY UserJob, AfterBodyIs
  <2> HIDE DEF todo
  <2>4. Shape(o, todo, server')
    BY <1>3, <2>3 DEF Shape
  <2> QED
    BY <1>1, <2>2, <2>4 DEF UTells
<1> QED
  BY <1>2, <1>3

LEMMA LostUser ==
  ASSUME TInv, RInv, UInv, NEW j \in DOMAIN jobs, Lost(j), j[1] = "user", Does(j)
  PROVE  UTells(j)
<1> USE DEF TInv, UInv
<1> DEFINE o == j[2]
<1>1. o \in Users /\ jobs[j].at \in {"asking", "sending"} /\ JobIs(j, jobs[j]) /\ Moved(j)
  BY UserJob, MovedIs DEF Lost, JobsOK
<1>2. j \in written => jobs[j].at = "sending" /\ Based(o, server')
  <2>1. j \in written => jobs[j].at \notin {"waiting", "asking"} /\ Based(o, server)
    BY DEF ReportOK, UsersOK
  <2> QED
    BY <1>1, <2>1, UserMoved
<1>3. CASE jobs[j].tries + 1 < Retries
  <2> DEFINE n == [jobs[j] EXCEPT !.tries = @ + 1]
  <2>1. jobs' = [jobs EXCEPT ![j] = n] /\ written' = written /\ failed' = failed
    BY <1>3 DEF Lost
  <2>2. n.at = jobs[j].at /\ n.todo = jobs[j].todo
    BY <1>1 DEF JobIs, JobStates
  <2> HIDE DEF n
  <2>3. jobs'[j].at = jobs[j].at /\ jobs'[j].todo = jobs[j].todo /\ DOMAIN jobs' = DOMAIN jobs
    BY <2>1, <2>2, StateJobs
  <2>4. j \in Active'
    BY <1>1, <2>3 DEF Active
  <2>5. jobs[j].at = "sending" => /\ Shape(o, jobs[j].todo, server')
                                  /\ j \in failed \/ RestPends(o, jobs[j].todo, server')
    BY <1>1, UserMoved DEF UserJobsOK
  <2> QED
    BY <1>2, <2>1, <2>3, <2>4, <2>5 DEF UTells
<1>4. CASE ~(jobs[j].tries + 1 < Retries)
  BY <1>2, <1>4, FailsUser DEF Lost
<1> QED
  BY <1>3, <1>4

LEMMA AskedUser ==
  ASSUME TInv, RInv, UInv, NEW j \in DOMAIN jobs, Answered(j), jobs[j].at = "asking",
         j[1] = "user"
  PROVE  UTells(j)
<1> USE DEF TInv
<1> DEFINE r == Head(jobs[j].todo)
           a == Serve(server, r)
           e == a.status = 200
           skip == e /\ (~opts.overwrite \/ r.obj[1] = "artifact")
<1>1. r.obj = j[2] /\ j[2] \in Users /\ j = Job("user", j[2]) /\ j \notin written
  BY UserJob, HeadIs, RequestIs DEF ReportOK
<1>2. CASE skip
  <2>1. Ended(j) /\ written' = written
    BY <1>2 DEF Answered
  <2>2. jobs'[j].at = "ended"
    BY <2>1, StateJobs, OverIs DEF Ended
  <2> QED
    BY <1>1, <2>1, <2>2 DEF UTells
<1>3. CASE ~skip /\ Files(r.obj) /\ r.obj \notin source
  <2>1. Fails(j)
    BY <1>3 DEF Answered
  <2> QED
    BY <1>1, <2>1, FailsUser
<1>4. CASE ~skip /\ ~(Files(r.obj) /\ r.obj \notin source)
  <2>1. GoOn(j, WriteUser(j[2], e)) /\ failed' = failed
    BY <1>1, <1>4 DEF Answered
  <2>2. e \in BOOLEAN
    OBVIOUS
  <2> HIDE DEF e
  <2>3. WriteUser(j[2], e) \in Seq(Requests(j))
    BY <1>1, <2>2, WriteUserIs
  <2>4. Shape(j[2], WriteUser(j[2], e), server') /\ RestPends(j[2], WriteUser(j[2], e), server')
    BY <1>1, <2>2, WriteUserPends
  <2> QED
    BY <1>1, <2>1, <2>3, <2>4, GoOnUser
<1> QED
  BY <1>2, <1>3, <1>4

LEMMA SentUser ==
  ASSUME TInv, RInv, UInv, NEW j \in DOMAIN jobs, Answered(j), jobs[j].at = "sending",
         j[1] = "user", Does(j)
  PROVE  UTells(j)
<1> USE DEF TInv, UInv
<1> DEFINE o == j[2]
           todo == jobs[j].todo
           r == Head(todo)
           a == Serve(server, r)
           good == a.status = 200 \/ Tolerated(j, r, a.status)
<1>1. o \in Users /\ j = Job("user", o) /\ Sound(j, r) /\ todo \in Seq(Requests(j)) /\ todo # <<>>
      /\ Tail(todo) \in Seq(Requests(j))
  BY UserJob, HeadIs
<1>2. server' = a.server
  BY DEF Answered
<1>3. Achieves(server, a, r)
  BY <1>1, ServeKeeps DEF ServerOK, RInv, KeylessOK, Served2
<1>4. /\ j \in written => Based(o, server')
      /\ Shape(o, todo, server') /\ (j \in failed \/ RestPends(o, todo, server'))
  <2>1. Moved(j)
    BY MovedIs
  <2>2. /\ j \in written => Based(o, server)
        /\ Shape(o, todo, server) /\ (j \in failed \/ RestPends(o, todo, server))
    BY DEF UsersOK, UserJobsOK
  <2> QED
    BY <1>1, <2>1, <2>2, UserMoved
<1>5. good => a.status = 200
  <2>1. o[1] = "user"
    BY <1>1, TransferAssumption
  <2>2. r.op = "post" => r.obj = o
    BY <1>1 DEF Sound
  <2> QED
    BY <2>1, <2>2 DEF Tolerated
<1>6. CASE good
  <2>1. GoOn(j, Tail(todo)) /\ failed' = failed
    BY <1>5, <1>6 DEF Answered
  <2>2. Shape(o, Tail(todo), server') /\ (j \in failed \/ RestPends(o, Tail(todo), server'))
    <3>1. todo \in Seq(Requests(Job("user", o)))
      BY <1>1
    <3>2. Shape(o, todo, a.server) /\ (j \in failed \/ RestPends(o, todo, a.server))
      BY <1>2, <1>4
    <3> HIDE DEF a, todo, o
    <3>3. /\ Shape(o, todo, a.server) => Shape(o, Tail(todo), a.server)
          /\ RestPends(o, todo, a.server) => RestPends(o, Tail(todo), a.server)
      BY <1>1, <1>3, <1>5, <1>6, <3>1, UserTail
    <3> QED
      BY <1>2, <3>2, <3>3
  <2> HIDE DEF todo
  <2> QED
    BY <1>1, <1>4, <2>1, <2>2, GoOnUser
<1>7. CASE ~good /\ a.status = 404 /\ r.op = "put_key"
  <2> DEFINE next == <<[r EXCEPT !.op = "post_key"]>> \o Tail(todo)
  <2>1. Becomes(j, "sending", next) /\ written' = written /\ failed' = failed
    BY <1>7 DEF Answered
  <2>2. Shape(o, next, server') /\ (j \in failed \/ RestPends(o, next, server'))
    BY <1>1, <1>4, <1>7, UserPostKey
  <2> HIDE DEF next
  <2>3. jobs'[j] = State("sending", next, {}, {}) /\ DOMAIN jobs' = DOMAIN jobs
    BY <2>1, StateJobs DEF Becomes
  <2>4. jobs'[j].at = "sending" /\ jobs'[j].todo = next
    BY <2>3, StateIs
  <2>5. j \in Active'
    BY <2>3, <2>4 DEF Active
  <2> QED
    BY <1>4, <2>1, <2>2, <2>4, <2>5 DEF UTells
<1>8. CASE ~good /\ ~(a.status = 404 /\ r.op = "put_key")
  <2>1. Fails(j)
    BY <1>8 DEF Answered
  <2> QED
    BY <1>4, <2>1, FailsUser
<1> QED
  BY <1>6, <1>7, <1>8

LEMMA UserStarts ==
  ASSUME TInv, NEW j \in DOMAIN jobs, Start(j), j[1] = "user"
  PROVE  UTells(j)
<1>1. j \notin written /\ j[2] \notin Plan
  BY UserJob, TransferAssumption DEF TInv, ReportOK, Start
<1>2. Becomes(j, "asking", <<Req("get", j[2])>>) /\ written' = written
  BY <1>1 DEF Start
<1>3. jobs'[j] = State("asking", <<Req("get", j[2])>>, {}, {})
  BY <1>2, StateJobs DEF Becomes, TInv
<1>4. jobs'[j].at = "asking"
  BY <1>3, StateIs
<1> QED
  BY <1>1, <1>2, <1>4 DEF UTells

LEMMA UsersNext ==
  ASSUME TInv, RInv, UInv, [Next]_vars
  PROVE  UInv'
<1> USE DEF TInv, UInv
<1>1. ASSUME NEW j \in DOMAIN jobs, Work(j) \/ Lost(j) \/ Refused(j)
      PROVE  UInv'
  <2>1. Does(j)
    BY <1>1, WorkIs
  <2>2. Moved(j)
    <3>1. Start(j) \/ Check(j) \/ Checked(j) \/ Refused(j) => server' = server
      BY DEF Start, Check, Checked, Refused
    <3> QED
      BY <1>1, <3>1, MovedIs DEF Work, Moved
  <2>3. CASE j[1] # "user"
    BY <2>1, <2>2, <2>3, UTellsIs DEF UTells
  <2>4. CASE j[1] = "user"
    <3>1. Answered(j) => jobs[j].at \in {"asking", "sending"}
      BY DEF Answered
    <3>2. Refused(j) => UTells(j)
      <4>1. Refused(j) => Fails(j) /\ server' = server
        BY DEF Refused
      <4>2. j \in written => Based(j[2], server)
        BY <2>4 DEF UsersOK
      <4> QED
        BY <2>4, <4>1, <4>2, FailsUser
    <3>3. ~Check(j) /\ ~Checked(j)
      BY <2>4 DEF Check, Checked, JobsOK, JobIs
    <3> QED
      BY <1>1, <2>1, <2>2, <2>4, <3>1, <3>2, <3>3, UserStarts, AskedUser, SentUser, LostUser,
         UTellsIs DEF Work
  <2> QED
    BY <2>3, <2>4
<1>2. ASSUME server' = server, written' = written, failed' = failed, Active' \intersect written = {},
             Active \intersect written = {}, \A j \in DOMAIN jobs' : jobs'[j].at # "sending"
      PROVE  UInv'
  BY <1>2 DEF UserJobsOK, UsersOK
<1>3. CASE Advance \/ PurgeFails
  <2>1. server' = server /\ written' = written /\ failed' = failed /\ Active = {}
    BY <1>3 DEF Advance, PurgeFails, report, Active
  <2>2. \E name : jobs' = Begun(name)
    BY <1>3 DEF Advance, PurgeFails
  <2>3. \A j \in DOMAIN jobs' : jobs'[j].at = "waiting"
    BY <2>2, OverIs DEF Begun
  <2> QED
    BY <1>2, <2>1, <2>3 DEF Active
<1>4. CASE Forbidden
  <2>1. server' = server /\ written' = written /\ failed' = failed
        /\ Active \intersect written = {}
    BY <1>4 DEF Forbidden, report
  <2>2. \A j \in DOMAIN jobs' : jobs'[j].at = "ended"
    BY <1>4, OverIs DEF Forbidden
  <2> QED
    BY <1>2, <2>1, <2>2 DEF Active
<1>5. ASSUME NEW o \in MayAppear, Appears(o)
      PROVE  UInv'
  <2> DEFINE r == Req("get", o)
  <2>1. r.op = "get"
    BY DEF Req
  <2> HIDE DEF r
  <2>2. /\ Effect(server, server', r) /\ Keeps(server, server', r)
        /\ \A q \in Objects : server.body[q] = "absent" \/ server'.body[q] # "absent"
        /\ UNCHANGED <<jobs, written, failed>>
    BY <1>5, AppearsKeeps DEF r
  <2>3. ASSUME NEW u \in Users
        PROVE  /\ Based(u, server) => Based(u, server')
               /\ \A todo : RestPends(u, todo, server) => RestPends(u, todo, server')
               /\ \A todo : Shape(u, todo, server) => Shape(u, todo, server')
    BY <2>1, <2>2, ObjectIs, UserStable DEF ServerOK
  <2>4. Active' = Active
    BY <2>2 DEF Active
  <2>5. UserJobsOK'
    <3>1. \A j \in DOMAIN jobs : j[1] = "user" => j[2] \in Users
      BY UserJob
    <3> QED
      BY <2>2, <2>3, <3>1 DEF UserJobsOK
  <2>6. UsersOK'
    <3>1. \A j \in written : j[1] = "user" => j[2] \in Users
      BY DEF ReportOK, About
    <3> QED
      BY <2>2, <2>3, <2>4, <3>1 DEF UsersOK
  <2> QED
    BY <2>5, <2>6
<1>6. CASE UNCHANGED vars
  BY <1>6 DEF vars, report, UserJobsOK, UsersOK, Active
<1> QED
  BY <1>1, <1>3, <1>4, <1>5, <1>6 DEF Next, Working, Trouble

LEMMA CompleteIs ==
  ASSUME TInv, RInv, UInv, NEW j \in written
  PROVE  Complete(j)
<1>1. About(j) /\ Done(j, server, dropped)
  BY DEF TInv, ReportOK, RInv, ReportTold
<1>2. CASE j[1] = "item"
  <2>1. CASE j[2][1] = "policygroup"
    BY <1>1, <1>2, <2>1 DEF Done, Complete, Once
  <2>2. CASE j[2][1] \in {"client", "user"}
    BY <1>1, <1>2, <2>2 DEF Done, Complete, Once
  <2>3. CASE j[2][1] \in Once
    BY <1>1, <1>2, <2>3 DEF Done, Complete, Once
  <2>4. CASE j[2][1] \notin Once \union {"policygroup", "client", "user"}
    BY <1>1, <1>2, <2>4 DEF Done, Complete, Once
  <2> QED
    BY <2>1, <2>2, <2>3, <2>4
<1>3. CASE j[1] = "user"
  <2>1. /\ Based(j[2], server)
        /\ j \in Active \union failed \/ RestPends(j[2], <<>>, server)
    BY <1>3 DEF UInv, UsersOK
  <2>2. \A x : ~In(x, <<>>)
    BY DEF In
  <2>3. RestPends(j[2], <<>>, server) =>
            /\ \A n \in SourceKeys[j[2]] : server.keys[j[2]][n] = "ours"
            /\ \A p \in ToSet(Perms) : server.acl[j[2]][p] = Actors[j[2]]
    BY <2>2 DEF RestPends, KeyPends
  <2> QED
    BY <1>3, <2>1, <2>3 DEF Complete, Based
<1>4. CASE j[1] \notin {"item", "user"}
  BY <1>1, <1>4 DEF Done, Complete
<1> QED
  BY <1>2, <1>3, <1>4

\* What the report calls written is on the destination as the source has
\* it, but for the principals that the report names as dropped: keys,
\* members, assignments and permissions too, and of the users of a backup
\* that are not named as failed everything once their jobs are over.
THEOREM ReportHolds == Spec => []ReportIsTrue
<1>1. Init => RInv /\ UInv
  <2>1. Init => UInv
    BY OverIs DEF Init, Begun, UInv, UserJobsOK, UsersOK
  <2> QED
    BY <2>1, InitTells
<1>2. TInv /\ RInv /\ UInv /\ [Next]_vars => RInv' /\ UInv'
  BY ReportNext, UsersNext
<1>3. TInv /\ RInv /\ UInv => ReportIsTrue
  BY CompleteIs DEF ReportIsTrue
<1> QED
  BY <1>1, <1>2, <1>3, Invariance, PTL DEF Spec
-----------------------------------------------------------------------------
(* When a request succeeds.                                                *)

\* A request other than a deletion leaves alone the bodies and keys of all
\* objects but its own, and what is assigned in a policy group makes it exist;
\* a deletion leaves nothing assigned.
Only(s, t, r) ==
    /\ r.op = "get" => t = s
    /\ r.op # "delete" => \A o \in Objects :
          o # r.obj => t.body[o] = s.body[o] /\ (o \in Keyed => t.keys[o] = s.keys[o])
    /\ \A g \in DOMAIN Assigned :
          \/ t.assigned[g] = s.assigned[g] \/ t.assigned[g] = {}
          \/ r.op = "assign" /\ g = r.obj /\ t.body[g] # "absent"

LEMMA SameOnly ==
  ASSUME NEW s, NEW r
  PROVE  Only(s, s, r)
  BY DEF Only

LEMMA OneObjectOnly ==
  ASSUME NEW s, NEW t, NEW o, NEW r, r.obj = o, r.op # "get",
         \A q \in Objects : q # o => t.body[q] = s.body[q],
         \A q \in Keyed : q # o => t.keys[q] = s.keys[q],
         t.assigned = s.assigned
  PROVE  Only(s, t, r)
  BY DEF Only

LEMMA ObjectOnly ==
  ASSUME NEW s \in Servers, NEW o \in Objects, NEW r, r.obj = o,
         r.op \in {"get", "put", "post", "upload", "delete"}
  PROVE  Only(s, ServeObject(s, r.op, o).server, r)
<1> DEFINE t == ServeObject(s, r.op, o).server
<1> USE AnswerIs, SameOnly
<1>1. ASSUME r.op # "get"
      PROVE  Only(s, Created(s, o), r)
  <2>1. /\ Created(s, o).body = [s.body EXCEPT ![o] = "ours"]
        /\ Created(s, o).keys = s.keys /\ Created(s, o).assigned = s.assigned
    BY CreatedIs
  <2>2. \A q \in Objects : q # o => Created(s, o).body[q] = s.body[q]
    BY <2>1, MadeIs
  <2> QED
    BY <1>1, <2>1, <2>2 DEF Only
<1>2. CASE r.op = "get"
  BY <1>2 DEF ServeObject
<1>3. CASE r.op = "post"
  <2>1. /\ Posted(s, o).body = [s.body EXCEPT ![o] = "ours"]
        /\ Posted(s, o).assigned = s.assigned
        /\ \A q \in Keyed : q # o => Posted(s, o).keys[q] = s.keys[q]
    BY PostedIs, PostedKeeps
  <2>2. \A q \in Objects : q # o => Posted(s, o).body[q] = s.body[q]
    BY <2>1, MadeIs
  <2>3. Only(s, Posted(s, o), r)
    BY <1>3, <2>1, <2>2, OneObjectOnly
  <2>4. t \in {s, Posted(s, o)}
    BY <1>3 DEF ServeObject
  <2> QED
    BY <2>3, <2>4
<1>4. CASE r.op \in {"put", "upload"}
  <2>1. t \in {s, Created(s, o)}
    BY <1>4 DEF ServeObject
  <2> QED
    BY <1>1, <1>4, <2>1
<1>5. CASE r.op = "delete"
  <2> DEFINE gone == {o} \union {i \in Objects : InBag(i, o)}
  <2>1. t \in {s, Removed(s, gone)}
    BY <1>5 DEF ServeObject
  <2>2. \A g \in DOMAIN Assigned : \/ Removed(s, gone).assigned[g] = s.assigned[g]
                                    \/ Removed(s, gone).assigned[g] = {}
    <3> HIDE DEF gone
    <3> QED
      BY RemovedIs
  <2>3. Only(s, Removed(s, gone), r)
    BY <1>5, <2>2 DEF Only
  <2> QED
    BY <2>1, <2>3
<1> QED
  BY <1>2, <1>3, <1>4, <1>5

LEMMA KeyOnly ==
  ASSUME NEW s \in Servers, NEW o \in Keyed, NEW n \in KeyNames, NEW r, r.obj = o,
         r.op \in {"put_key", "post_key"}
  PROVE  Only(s, ServeKey(s, r.op, o, n).server, r)
<1>1. ServeKey(s, r.op, o, n).server \in {s, KeyWritten(s, o, n)}
  BY AnswerIs DEF ServeKey
<1>2. /\ KeyWritten(s, o, n).body = s.body /\ KeyWritten(s, o, n).assigned = s.assigned
      /\ \A q \in Keyed : q # o => KeyWritten(s, o, n).keys[q] = s.keys[q]
  BY KeyWrittenIs
<1>3. Only(s, KeyWritten(s, o, n), r)
  BY <1>2, OneObjectOnly
<1> QED
  BY <1>1, <1>3, SameOnly

LEMMA AssignOnly ==
  ASSUME NEW s \in Servers, NEW o \in Objects, o \in DOMAIN Assigned, NEW p \in Objects,
         NEW r, r.obj = o, r.op = "assign"
  PROVE  Only(s, ServeAssign(s, o, p).server, r)
<1> DEFINE b == [s.body EXCEPT ![o] = IF @ = "absent" THEN "ours" ELSE @]
           g == [s.assigned EXCEPT ![o] = {q \in @ : q[2] # p[2]} \union {p}]
           t == [s EXCEPT !.assigned = g, !.body = b]
<1>1. ServeAssign(s, o, p).server = t
  BY AnswerIs DEF ServeAssign
<1>2. s.body \in [Objects -> Whose] /\ s.assigned \in [DOMAIN Assigned -> SUBSET Objects]
  BY ServerIs
<1>3. b[o] # "absent" /\ \A q \in Objects : q # o => b[q] = s.body[q]
  BY <1>2
<1>4. \A q \in DOMAIN Assigned : q # o => g[q] = s.assigned[q]
  BY <1>2
<1> HIDE DEF b, g
<1>5. t.body = b /\ t.assigned = g /\ t.keys = s.keys
  BY DEF Servers
<1> HIDE DEF t
<1>6. Only(s, t, r)
  BY <1>3, <1>4, <1>5 DEF Only
<1> QED
  BY <1>1, <1>6

LEMMA PrincipalsOnly ==
  ASSUME NEW s \in Servers, NEW r, r.op \in {"members", "acl", "associate"}
  PROVE  LET t == ServePrincipals(s, r).server
         IN  Only(s, t, r) /\ t.body = s.body
<1> DEFINE t == ServePrincipals(s, r).server
<1>1. t.body = s.body /\ t.keys = s.keys /\ t.assigned = s.assigned
  BY AnswerIs DEF ServePrincipals, Servers
<1> HIDE DEF t
<1>2. Only(s, t, r)
  BY <1>1, OneObjectOnly
<1> QED
  BY <1>1, <1>2 DEF t

LEMMA ServeOnly ==
  ASSUME NEW s \in Servers, NEW j, NEW r, Sound(j, r)
  PROVE  Only(s, Serve(s, r).server, r)
<1>1. CASE r.op \in {"get", "put", "post", "upload", "delete"}
  <2>1. Serve(s, r) = ServeObject(s, r.op, r.obj) /\ r.obj \in Objects
    BY <1>1 DEF Serve, Sound
  <2> QED
    BY <1>1, <2>1, ObjectOnly
<1>2. CASE r.op \in {"put_key", "post_key"}
  <2>1. Serve(s, r) = ServeKey(s, r.op, r.obj, r.arg)
    BY <1>2 DEF Serve
  <2> QED
    BY <1>2, <2>1, KeyOnly DEF Sound
<1>3. CASE r.op = "assign"
  <2>1. Serve(s, r) = ServeAssign(s, r.obj, r.arg)
    BY <1>3 DEF Serve
  <2> QED
    BY <1>3, <2>1, AssignOnly DEF Sound
<1>4. CASE r.op \in {"members", "acl", "associate"}
  <2>1. Serve(s, r) = ServePrincipals(s, r)
    BY <1>4 DEF Serve
  <2> QED
    BY <1>4, <2>1, PrincipalsOnly
<1> QED
  BY <1>1, <1>2, <1>3, <1>4 DEF Sound

\* A request that is answered with 200 finds its object or makes it.
LEMMA PresentAfter ==
  ASSUME NEW s \in Servers, NEW j, NEW r, Sound(j, r), r.op # "delete", Keyless(s),
         Serve(s, r).status = 200
  PROVE  Present(Serve(s, r).server, r.obj)
<1> DEFINE a == Serve(s, r)
           t == a.server
<1> SUFFICES Present(t, r.obj)
  OBVIOUS
<1>1. t \in Servers /\ Effect(s, t, r)
  BY ServeIs DEF Effect
<1>2. CASE r.op \in {"get", "put", "post", "upload"}
  <2>1. Achieves(s, a, r) /\ r.obj \in Objects
    BY <1>2, ServeKeeps DEF Served2, Sound
  <2>2. t.body[r.obj] # "absent"
    BY <1>2, <2>1 DEF Achieves
  <2> HIDE DEF t
  <2> QED
    BY <1>1, <2>1, <2>2, PresentIs
<1>3. CASE r.op \in {"put_key", "post_key", "members", "acl", "associate"}
  <2>1. Present(s, r.obj)
    <3>1. ~Present(s, r.obj) => a = Answer(404, s)
      BY <1>3 DEF Serve, ServeKey, ServePrincipals
    <3> QED
      BY <3>1, AnswerIs
  <2>2. CASE r.obj = OrgACL
    BY <2>2 DEF Present
  <2>3. CASE r.obj # OrgACL
    <3>1. r.obj \in Objects
      BY <1>3, <2>3, TransferAssumption DEF Sound, Keyed, Groups, Principals, ACLObjects, Objects
    <3>2. s.body[r.obj] # "absent"
      BY <2>1, <3>1, PresentIs
    <3>3. t.body[r.obj] # "absent"
      BY <1>1, <1>3, <3>1, <3>2 DEF Effect
    <3> HIDE DEF t
    <3> QED
      BY <1>1, <3>1, <3>3, PresentIs
  <2> QED
    BY <2>2, <2>3
<1>4. CASE r.op = "assign"
  <2>1. r.obj \in Objects /\ r.obj \in DOMAIN Assigned
    BY <1>4 DEF Sound
  <2>2. t = [s EXCEPT !.assigned[r.obj] = {q \in @ : q[2] # r.arg[2]} \union {r.arg},
                      !.body[r.obj] = IF @ = "absent" THEN "ours" ELSE @]
    BY <1>4, AnswerIs DEF Serve, ServeAssign
  <2>3. t.body[r.obj] # "absent"
    BY <2>1, <2>2, ServerIs DEF Servers
  <2> HIDE DEF t
  <2> QED
    BY <1>1, <2>1, <2>3, PresentIs
<1> QED
  BY <1>2, <1>3, <1>4 DEF Sound

\* What the destination must be like for a request to succeed, and for one
\* that comes after another request of the same job.
Fit(s, r) ==
    /\ r.op \in {"get", "put", "put_key", "post_key", "members", "acl", "associate"} =>
          Present(s, r.obj)
    /\ r.op = "post" => ~Present(s, r.obj) /\ HasBag(s, r.obj)
    /\ r.op = "upload" /\ r.obj[1] = "artifact" => ~Present(s, r.obj)
    /\ r.op = "post_key" => s.keys[r.obj][r.arg] = "absent"

LEMMA FitSucceeds ==
  ASSUME NEW s, NEW j, NEW r, Sound(j, r), r.op # "delete", Fit(s, r),
         r.op = "upload" => ~(r.obj \in Frozen /\ ~opts.force)
  PROVE  \/ Serve(s, r).status = 200
         \/ Serve(s, r) = Answer(409, s) /\ r.op = "associate"
         \/ Serve(s, r) = Answer(404, s) /\ r.op = "put_key" /\ s.keys[r.obj][r.arg] = "absent"
<1> DEFINE a == Serve(s, r)
<1>1. CASE r.op = "get"
  BY <1>1, AnswerIs DEF Serve, ServeObject, Fit
<1>2. CASE r.op = "post"
  BY <1>2, AnswerIs DEF Serve, ServeObject, Fit
<1>3. CASE r.op = "put"
  BY <1>3, AnswerIs DEF Serve, ServeObject, Fit
<1>4. CASE r.op = "upload"
  BY <1>4, AnswerIs DEF Serve, ServeObject, Fit
<1>5. CASE r.op = "put_key"
  BY <1>5, AnswerIs DEF Serve, ServeKey, Fit
<1>6. CASE r.op = "post_key"
  BY <1>6, AnswerIs DEF Serve, ServeKey, Fit
<1>7. CASE r.op = "assign"
  BY <1>7, AnswerIs DEF Serve, ServeAssign
<1>8. CASE r.op \in {"members", "acl", "associate"}
  BY <1>8, AnswerIs DEF Serve, ServePrincipals, Fit
<1> QED
  BY <1>1, <1>2, <1>3, <1>4, <1>5, <1>6, <1>7, <1>8 DEF Sound

GroupItem(j) == j[1] = "item" /\ j[2][1] = "policygroup"

\* Jobs send requests about their own object, but for policy groups, that
\* also ask for the policies.
LEMMA OwnRequest ==
  ASSUME NEW j, About(j), NEW r \in Requests(j)
  PROVE  /\ ~GroupItem(j) => r.obj = j[2] /\ r.op # "assign"
         /\ GroupItem(j) => r.op \in {"get", "assign"}
         /\ r.op = "associate" => j[1] = "member"
         /\ r.op = "delete" => j[1] = "purge"
<1> DEFINE o == j[2]
<1>1. ASSUME NEW ops, r \in Plain(ops, o), "assign" \notin ops
      PROVE  r.obj = o /\ r.op \in ops /\ r.op # "assign"
  BY <1>1, PlainIs
<1>2. r \in KeyReqs(o) => r.obj = o /\ r.op \in {"put_key", "post_key"}
  BY KeyReqIs
<1>3. r \in ACLReqs(o) => r.obj = o /\ r.op = "acl"
  BY ACLReqIs
<1>4. r \in MemberReqs(o) => r.obj = o /\ r.op = "members"
  BY DEF MemberReqs, With
<1>5. r \in AssignReqs(o) => r.op \in {"get", "assign"}
  BY DEF AssignReqs, Req, With
<1>6. CASE j[1] \in {"shell", "member", "purge", "membership", "acl"}
  BY <1>1, <1>3, <1>4, <1>6 DEF Requests, GroupItem
<1>7. CASE j[1] = "user"
  <2>1. r \in Plain({"get", "put", "post"}, o) \/ r \in KeyReqs(o) \/ r \in ACLReqs(o)
    BY <1>7 DEF Requests, Give
  <2> QED
    BY <1>1, <1>2, <1>3, <1>7, <2>1 DEF GroupItem
<1>8. CASE GroupItem(j)
  BY <1>5, <1>8 DEF Requests, GroupItem, Files
<1>9. CASE j[1] = "item" /\ ~GroupItem(j)
  <2>1. \/ r \in Plain({"get", "put", "post"}, o) \/ r \in KeyReqs(o)
        \/ r \in Plain({"get", "upload"}, o) \/ r \in Plain({"get", "post"}, o)
    BY <1>9 DEF Requests, GroupItem, Files
  <2> QED
    BY <1>1, <1>2, <1>9, <2>1
<1> QED
  BY <1>6, <1>7, <1>8, <1>9 DEF About

-----------------------------------------------------------------------------
(* What is to be sent will succeed.                                        *)

Later(s, r) == r.op \in {"put_key", "acl", "assign"} \/ (r.op = "get" /\ Present(s, r.obj))
Feasible(s, todo) ==
    \A i \in DOMAIN todo : IF i = 1 THEN Fit(s, todo[i]) ELSE Later(s, todo[i])

LEMMA FitBody ==
  ASSUME NEW s, NEW r, NEW o, r = Req(r.op, o), r.op \in {"put", "post", "upload"},
         r.op = "put" => Present(s, o),
         r.op = "post" => ~Present(s, o) /\ HasBag(s, o),
         r.op = "upload" /\ o[1] = "artifact" => ~Present(s, o)
  PROVE  Fit(s, r) /\ Feasible(s, <<r>>)
<1>1. r.obj = o
  BY RequestIs
<1>2. Fit(s, r)
  BY <1>1 DEF Fit
<1>3. DOMAIN <<r>> = {1} /\ <<r>>[1] = r
  BY OneRequest
<1> QED
  BY <1>2, <1>3 DEF Feasible

LEMMA FeasibleEmpty ==
  ASSUME NEW s
  PROVE  Feasible(s, <<>>)
  BY DEF Feasible

\* Requests that come later may be appended to others.
LEMMA FeasibleJoined ==
  ASSUME NEW s, NEW X, NEW a \in Seq(X), NEW b \in Seq(X), a # <<>>, Feasible(s, a),
         \A i \in DOMAIN b : Later(s, b[i])
  PROVE  Feasible(s, a \o b)
<1>1. /\ a \o b \in Seq(X) /\ Len(a \o b) = Len(a) + Len(b) /\ Len(a) \in Nat /\ Len(b) \in Nat
      /\ DOMAIN a = 1..Len(a) /\ DOMAIN b = 1..Len(b) /\ Len(a) > 0
      /\ \A i \in 1..Len(a) : (a \o b)[i] = a[i]
      /\ \A i \in 1..Len(b) : (a \o b)[i + Len(a)] = b[i]
  BY ConcatProperties, EmptySeq
<1> DEFINE c == a \o b
<1> HIDE DEF c
<1>2. DOMAIN c = 1..Len(c)
  BY <1>1 DEF c
<1> SUFFICES ASSUME NEW i \in DOMAIN c
             PROVE  IF i = 1 THEN Fit(s, c[i]) ELSE Later(s, c[i])
  BY DEF Feasible, c
<1>3. CASE i \in 1..Len(a)
  BY <1>1, <1>3 DEF Feasible, c
<1>4. CASE i \notin 1..Len(a)
  <2>1. i - Len(a) \in 1..Len(b) /\ i = (i - Len(a)) + Len(a) /\ i # 1
    BY <1>1, <1>2, <1>4 DEF c
  <2>2. c[i] = b[i - Len(a)]
    BY <1>1, <2>1 DEF c
  <2> QED
    BY <1>1, <2>1, <2>2
<1> QED
  BY <1>3, <1>4

\* A request that succeeds makes way for the next one.
LEMMA FeasibleTail ==
  ASSUME NEW s \in Servers, Keyless(s), NEW j, About(j), j[1] # "purge",
         NEW todo \in Seq(Requests(j)), todo # <<>>, Feasible(s, todo),
         Serve(s, Head(todo)).status = 200
  PROVE  Feasible(Serve(s, Head(todo)).server, Tail(todo))
<1> DEFINE r == Head(todo)
           t == Serve(s, r).server
           u == Tail(todo)
<1>1. Len(todo) \in Nat /\ DOMAIN todo = 1..Len(todo) /\ r = todo[1] /\ Len(todo) > 0
      /\ u \in Seq(Requests(j)) /\ Len(u) = Len(todo) - 1
      /\ \A k \in 1..Len(u) : u[k] = todo[k + 1]
  BY EmptySeq, HeadTailProperties
<1>2. DOMAIN u = 1..Len(u)
  BY <1>1
<1>3. r \in Requests(j)
  BY <1>1
<1>4. Sound(j, r) /\ r.op # "delete"
  BY <1>3, RequestsAre, OwnRequest
<1>5. Effect(s, t, r) /\ Present(t, r.obj) /\ t \in Servers
  <2>1. Effect(s, t, r) /\ Present(t, r.obj)
    BY <1>4, ServeIs, PresentAfter
  <2> HIDE DEF t
  <2> QED
    BY <2>1 DEF Effect
<1> HIDE DEF u, t, r
<1> SUFFICES ASSUME NEW i \in DOMAIN u
             PROVE  IF i = 1 THEN Fit(t, u[i]) ELSE Later(t, u[i])
  BY DEF Feasible, u, t, r
<1>6. i + 1 \in DOMAIN todo /\ i + 1 # 1 /\ u[i] = todo[i + 1]
  BY <1>1, <1>2
<1>7. Later(s, u[i]) /\ u[i] \in Requests(j)
  BY <1>1, <1>2, <1>6 DEF Feasible
<1>8. Later(t, u[i]) /\ Sound(j, u[i])
  <2>1. Sound(j, u[i])
    BY <1>7, RequestsAre
  <2>2. CASE u[i].op # "get"
    BY <1>7, <2>1, <2>2 DEF Later
  <2>3. CASE u[i].op = "get"
    <3>1. u[i].obj \in Objects /\ Present(s, u[i].obj)
      BY <1>7, <2>1, <2>3 DEF Sound, Later
    <3>2. t.body[u[i].obj] # "absent"
      BY <1>4, <1>5, <3>1, PresentIs DEF Effect
    <3> QED
      BY <1>5, <2>1, <2>3, <3>1, <3>2, PresentIs DEF Later
  <2> QED
    BY <2>2, <2>3
<1>9. CASE i = 1
  <2>1. u[i].op \in {"put_key", "acl"} => Present(t, u[i].obj)
    <3>1. u[i].op \in {"put_key", "acl"} => ~GroupItem(j)
      BY <1>7, OwnRequest
    <3>2. ~GroupItem(j) => u[i].obj = r.obj
      BY <1>3, <1>7, OwnRequest
    <3> QED
      BY <1>5, <3>1, <3>2
  <2> QED
    BY <1>8, <1>9, <2>1 DEF Fit, Later
<1> QED
  BY <1>8, <1>9

\* A key that is not there is posted.
LEMMA FeasiblePostKey ==
  ASSUME NEW s, NEW j, NEW todo \in Seq(Requests(j)), todo # <<>>, Feasible(s, todo),
         NEW r, r = Head(todo), r.op = "put_key", r = With("put_key", r.obj, r.arg),
         s.keys[r.obj][r.arg] = "absent"
  PROVE  Feasible(s, <<[r EXCEPT !.op = "post_key"]>> \o Tail(todo))
<1> DEFINE q == [r EXCEPT !.op = "post_key"]
           u == Tail(todo)
<1>1. Len(todo) \in Nat /\ DOMAIN todo = 1..Len(todo) /\ r = todo[1] /\ Len(todo) > 0
      /\ u \in Seq(Requests(j)) /\ Len(u) = Len(todo) - 1
      /\ \A k \in 1..Len(u) : u[k] = todo[k + 1]
  BY EmptySeq, HeadTailProperties
<1>2. q.op = "post_key" /\ q.obj = r.obj /\ q.arg = r.arg
  BY DEF With
<1>3. Fit(s, r)
  BY <1>1 DEF Feasible
<1>4. Fit(s, q)
  BY <1>2, <1>3 DEF Fit
<1>5. DOMAIN u = 1..Len(u)
  BY <1>1
<1> HIDE DEF u
<1>6. \A i \in DOMAIN u : Later(s, u[i])
  <2> SUFFICES ASSUME NEW i \in 1..Len(u)
               PROVE  Later(s, u[i])
    BY <1>5
  <2>1. i + 1 \in DOMAIN todo /\ i + 1 # 1 /\ u[i] = todo[i + 1]
    BY <1>1
  <2> QED
    BY <2>1 DEF Feasible
<1> HIDE DEF q
<1>7. Feasible(s, <<q>>) /\ <<q>> # <<>>
  BY <1>4, OneRequest DEF Feasible
<1> DEFINE X == Requests(j) \union {q}
<1>8. <<q>> \in Seq(X) /\ u \in Seq(X)
  <2>1. q \in X /\ Requests(j) \subseteq X
    OBVIOUS
  <2> HIDE DEF X
  <2> QED
    BY <1>1, <2>1, OneRequest, Wider
<1> HIDE DEF X
<1> QED
  BY <1>6, <1>7, <1>8, FeasibleJoined DEF q, u

LEMMA ActorFeasible ==
  ASSUME NEW s, NEW o, NEW e \in BOOLEAN, e <=> Present(s, o), ~e => HasBag(s, o)
  PROVE  Feasible(s, WriteActor(o, e))
<1> DEFINE k == With("put_key", o, "default")
<1>1. CASE e
  <2>1. WriteActor(o, e) = <<Req("put", o), k>>
    BY <1>1 DEF WriteActor
  <2>2. Req("put", o) = Req(Req("put", o).op, o) /\ Req("put", o).op = "put"
    BY RequestIs
  <2>3. Fit(s, Req("put", o))
    BY <1>1, <2>2, FitBody
  <2>4. Later(s, k)
    BY DEF Later, With
  <2> HIDE DEF k
  <2>5. DOMAIN <<Req("put", o), k>> = {1, 2} /\ <<Req("put", o), k>>[1] = Req("put", o)
        /\ <<Req("put", o), k>>[2] = k
    OBVIOUS
  <2> QED
    BY <2>1, <2>3, <2>4, <2>5 DEF Feasible
<1>2. CASE ~e
  <2>1. WriteActor(o, e) = <<Req("post", o)>>
    BY <1>2 DEF WriteActor
  <2>2. Req("post", o) = Req(Req("post", o).op, o) /\ Req("post", o).op = "post"
    BY RequestIs
  <2> QED
    BY <1>2, <2>1, <2>2, FitBody
<1> QED
  BY <1>1, <1>2

LEMMA KeysLater ==
  ASSUME NEW s, NEW o, o \in Users \union Of("client") \union Of("user")
  PROVE  KeyRequests(o) \in Seq(KeyReqs(o)) /\ \A i \in DOMAIN KeyRequests(o) : Later(s, KeyRequests(o)[i])
  BY KeyRequestsAre DEF Later

LEMMA ACLsLater ==
  ASSUME NEW s, NEW o, NEW who \in SUBSET Principals
  PROVE  /\ ACLRequests(o, who) \in Seq(ACLReqs(o))
         /\ \A i \in DOMAIN ACLRequests(o, who) : Later(s, ACLRequests(o, who)[i])
         /\ Present(s, o) => Feasible(s, ACLRequests(o, who))
<1> DEFINE a == ACLRequests(o, who)
<1>1. a \in Seq(ACLReqs(o)) /\ \A i \in DOMAIN a : a[i].op = "acl"
  BY ACLRequestsAre
<1> HIDE DEF a
<1>2. \A i \in DOMAIN a : Later(s, a[i])
  BY <1>1 DEF Later
<1>3. \A i \in DOMAIN a : a[i].obj = o
  BY <1>1, ACLReqIs
<1>4. Present(s, o) => Feasible(s, a)
  BY <1>1, <1>2, <1>3 DEF Feasible, Fit
<1> QED
  BY <1>1, <1>2, <1>4 DEF a

LEMMA GroupFeasible ==
  ASSUME NEW s, NEW o \in Of("policygroup"), \A p \in Assigned[o] : Present(s, p)
  PROVE  Feasible(s, WritePolicyGroup(o))
<1> DEFINE ps == SetToSeq(Assigned[o])
           w(i) == LET p == ps[(i + 1) \div 2]
                   IN  IF i % 2 = 1 THEN Req("get", p) ELSE With("assign", o, p)
<1>1. IsFiniteSet(Assigned[o])
  BY TransferAssumption
<1>2. ps \in Seq(Assigned[o]) /\ Len(ps) \in Nat
  BY <1>1, SetToSeqIs
<1>3. \A k \in 1..Len(ps) : Present(s, ps[k])
  BY <1>2
<1>4. WritePolicyGroup(o) = [i \in 1..(2 * Len(ps)) |-> w(i)]
  BY DEF WritePolicyGroup
<1> HIDE DEF ps
<1> SUFFICES ASSUME NEW i \in 1..(2 * Len(ps))
             PROVE  IF i = 1 THEN Fit(s, w(i)) ELSE Later(s, w(i))
  BY <1>4 DEF Feasible
<1> DEFINE p == ps[(i + 1) \div 2]
<1>5. (i + 1) \div 2 \in 1..Len(ps)
  BY <1>2
<1>6. Present(s, p)
  BY <1>3, <1>5
<1> HIDE DEF p
<1>7. CASE i % 2 = 1
  <2>1. w(i) = Req("get", p)
    BY <1>7 DEF p
  <2>2. w(i).op = "get" /\ w(i).obj = p
    BY <2>1, RequestIs
  <2> HIDE DEF w
  <2>3. Fit(s, w(i)) /\ Later(s, w(i))
    BY <1>6, <2>2 DEF Fit, Later
  <2> QED
    BY <2>3
<1>8. CASE i % 2 # 1
  <2>1. w(i) = With("assign", o, p) /\ i # 1
    BY <1>8 DEF p
  <2>2. w(i).op = "assign"
    BY <2>1 DEF With
  <2> HIDE DEF w
  <2> QED
    BY <2>1, <2>2 DEF Later
<1> QED
  BY <1>7, <1>8

\* What a job sends once it knows whether its object exists.
LEMMA WriteFeasible ==
  ASSUME NEW s, NEW j, About(j), j[1] = "item", ~GroupItem(j), NEW e \in BOOLEAN,
         e <=> Present(s, j[2]), ~e => HasBag(s, j[2]), e => j[2][1] # "artifact"
  PROVE  Feasible(s, Write(j[2], e))
<1> DEFINE o == j[2]
<1>1. ASSUME NEW op \in {"put", "post", "upload"}, op = "put" => e, op = "post" => ~e,
             op = "upload" => o[1] # "artifact" \/ ~e
      PROVE  Feasible(s, <<Req(op, o)>>)
  <2>1. Req(op, o) = Req(Req(op, o).op, o) /\ Req(op, o).op = op
    BY RequestIs
  <2> QED
    BY <1>1, <2>1, FitBody
<1>2. CASE o = DefaultEnv
  <2>1. Write(o, e) = <<>>
    BY <1>2 DEF Write, DefaultEnv, Files
  <2> QED
    BY <2>1, FeasibleEmpty
<1>3. CASE o # DefaultEnv /\ o[1] \in {"container", "databag", "policy"}
  <2>1. Write(o, e) = WriteOnce(o, e)
    BY <1>3 DEF Write, Files
  <2>2. CASE e
    BY <2>1, <2>2, FeasibleEmpty DEF WriteOnce
  <2>3. CASE ~e
    BY <1>1, <2>1, <2>3 DEF WriteOnce
  <2> QED
    BY <2>2, <2>3
<1>4. CASE o # DefaultEnv /\ Files(o)
  <2>1. Write(o, e) = <<Req("upload", o)>>
    BY <1>4 DEF Write, Files
  <2> QED
    BY <1>1, <2>1
<1>5. CASE o # DefaultEnv /\ o[1] \in {"client", "user"}
  <2>1. Write(o, e) = WriteActor(o, e) \o KeyRequests(o)
    BY <1>5 DEF Write, Files
  <2>2. o \in Of("client") \union Of("user")
    BY <1>5 DEF Of, About
  <2> DEFINE Y == Plain({"get", "put", "post"}, o) \union KeyReqs(o)
  <2>3. WriteActor(o, e) \in Seq(Y) /\ WriteActor(o, e) # <<>>
    BY WriteActorIs
  <2>4. KeyRequests(o) \in Seq(KeyReqs(o)) /\ \A i \in DOMAIN KeyRequests(o) : Later(s, KeyRequests(o)[i])
    BY <2>2, KeysLater
  <2>5. KeyRequests(o) \in Seq(Y)
    BY <2>4, Wider
  <2>6. Feasible(s, WriteActor(o, e))
    BY ActorFeasible
  <2> HIDE DEF Y
  <2> QED
    BY <2>1, <2>3, <2>4, <2>5, <2>6, FeasibleJoined
<1>6. CASE /\ o # DefaultEnv /\ ~Files(o)
           /\ o[1] \notin {"container", "databag", "policy", "client", "user", "policygroup"}
  <2>1. Write(o, e) = WriteSimple(o, e)
    BY <1>6 DEF Write
  <2>2. CASE e
    BY <1>1, <2>1, <2>2 DEF WriteSimple
  <2>3. CASE ~e
    BY <1>1, <2>1, <2>3 DEF WriteSimple
  <2> QED
    BY <2>2, <2>3
<1> QED
  BY <1>2, <1>3, <1>4, <1>5, <1>6 DEF GroupItem

LEMMA WriteUserFeasible ==
  ASSUME NEW s, NEW o \in Users, NEW e \in BOOLEAN, e <=> Present(s, o)
  PROVE  Feasible(s, WriteUser(o, e))
<1> DEFINE j == Job("user", o)
           Y == Plain({"get", "put", "post"}, o) \union KeyReqs(o)
           Z == Y \union ACLReqs(o)
<1>1. o[1] = "user" /\ o # DefaultEnv /\ ~Files(o) /\ Actors[o] \in SUBSET Principals
  BY TransferAssumption DEF DefaultEnv, Files, ACLObjects
<1>2. WriteUser(o, e) = (WriteActor(o, e) \o KeyRequests(o)) \o ACLRequests(o, Actors[o])
  BY <1>1 DEF WriteUser, Write
<1>3. WriteActor(o, e) \in Seq(Y) /\ WriteActor(o, e) # <<>>
  BY WriteActorIs
<1>4. KeyRequests(o) \in Seq(KeyReqs(o)) /\ \A i \in DOMAIN KeyRequests(o) : Later(s, KeyRequests(o)[i])
  BY KeysLater
<1>5. /\ ACLRequests(o, Actors[o]) \in Seq(ACLReqs(o))
      /\ \A i \in DOMAIN ACLRequests(o, Actors[o]) : Later(s, ACLRequests(o, Actors[o])[i])
  BY <1>1, ACLsLater
<1>6. KeyRequests(o) \in Seq(Y)
  BY <1>4, Wider
<1>7. ~e => HasBag(s, o)
  BY <1>1 DEF HasBag
<1>8. Feasible(s, WriteActor(o, e))
  BY <1>7, ActorFeasible
<1>9. Y \subseteq Z /\ ACLReqs(o) \subseteq Z
  OBVIOUS
<1> DEFINE w == WriteActor(o, e) \o KeyRequests(o)
<1> HIDE DEF Y, Z
<1>10. Feasible(s, w)
  BY <1>3, <1>4, <1>6, <1>8, FeasibleJoined
<1>11. w \in Seq(Y) /\ w # <<>>
  BY <1>3, <1>6, Joined
<1> HIDE DEF w
<1>12. w \in Seq(Z)
  BY <1>9, <1>11, Wider
<1>13. ACLRequests(o, Actors[o]) \in Seq(Z)
  BY <1>5, <1>9, Wider
<1>14. Feasible(s, w \o ACLRequests(o, Actors[o]))
  BY <1>5, <1>10, <1>11, <1>12, <1>13, FeasibleJoined
<1> QED
  BY <1>2, <1>14 DEF w

\* What a job has yet to send still succeeds when its own object and the
\* existence of the others have stayed as they were.
LEMMA FeasibleKept ==
  ASSUME NEW s \in Servers, NEW t \in Servers, NEW k, About(k), k[1] # "purge",
         NEW todo \in Seq(Requests(k)), Feasible(s, todo),
         \A o \in Objects : s.body[o] # "absent" => t.body[o] # "absent",
         k[2] \in Objects => t.body[k[2]] = s.body[k[2]],
         k[2] \in Keyed => t.keys[k[2]] = s.keys[k[2]]
  PROVE  Feasible(t, todo)
<1>1. \A o : o \in Objects \/ o = OrgACL => (Present(s, o) => Present(t, o))
  BY PresentIs DEF Present
<1>2. k[2] \in Objects => (Present(t, k[2]) => Present(s, k[2]))
  BY PresentIs
<1>3. \A o : HasBag(s, o) => HasBag(t, o)
  BY <1>1 DEF HasBag
<1> SUFFICES ASSUME NEW i \in DOMAIN todo
             PROVE  IF i = 1 THEN Fit(t, todo[i]) ELSE Later(t, todo[i])
  BY DEF Feasible
<1> DEFINE q == todo[i]
<1>4. Sound(k, q) /\ (IF i = 1 THEN Fit(s, q) ELSE Later(s, q))
  <2>1. q \in Requests(k)
    OBVIOUS
  <2> QED
    BY <2>1, RequestsAre DEF Feasible
<1> HIDE DEF q
<1>5. q.obj \in Objects \/ q.obj = OrgACL
  BY <1>4, TransferAssumption DEF Sound, Keyed, Groups, Principals, ACLObjects, Objects
<1>6. q.op \in {"post", "upload"} => q.obj = k[2] /\ k[2] \in Objects
  BY <1>4 DEF Sound
<1>7. q.op = "post_key" => q.obj = k[2] /\ k[2] \in Keyed
  BY <1>4 DEF Sound
<1>8. CASE i = 1
  <2>1. Fit(s, q)
    BY <1>4, <1>8
  <2>2. Fit(t, q)
    BY <1>1, <1>2, <1>3, <1>5, <1>6, <1>7, <2>1 DEF Fit
  <2> QED
    BY <1>8, <2>2 DEF q
<1>9. CASE i # 1
  <2>1. Later(s, q)
    BY <1>4, <1>9
  <2>2. Later(t, q)
    BY <1>1, <1>5, <2>1 DEF Later
  <2> QED
    BY <1>9, <2>2 DEF q
<1> QED
  BY <1>8, <1>9

-----------------------------------------------------------------------------
(* The invariant of a run without faults.                                  *)

\* The stage and the job that bring an object to the destination.
Home(o) == IF o \in Users THEN "users" ELSE o[1]
Maker(o) ==
    IF o \in Users THEN Job("user", o)
    ELSE IF o[1] = "group" THEN Job("shell", o) ELSE Job("item", o)

\* What this run is to bring, and what it has dealt with so far.
Expected == Plan \union (IF opts.restore /\ opts.superuser THEN Users ELSE {})
DealtWith(o) ==
    \/ \E i \in 1..(stage - 1) : Stages[i] = Home(o)
    \/ Maker(o) \in DOMAIN jobs /\ jobs[Maker(o)].at = "ended"

\* There is a reason for what went wrong with an object.
Excused(o) == \E n \in Needed(o) : Reason(n)

\* Nothing is written for the default environment, nor for a policy group
\* without policies.
Unwritten(o) == o = DefaultEnv \/ (o[1] = "policygroup" /\ Assigned[o] = {})
Arrived(o) == Present(server, o) \/ Excused(o) \/ Unwritten(o)

\* Jobs that may fail without a reason.
MayFail(j) == j[1] = "purge" \/ (j[1] = "member" /\ ~opts.superuser)
Lenient(j) == j[1] = "shell" \/ MayFail(j)

MayDrop(p) == p \notin Plan \/ p \in USAGs \/ Reason(p)

SourceOK == source \subseteq Plan
CrewOK == Stages[stage] # "purge" => DOMAIN jobs = JobsOf(Stages[stage])
AssignedOK == \A g \in Of("policygroup") : server.assigned[g] # {} => server.body[g] # "absent"
DefaultOK == DefaultEnv \in Plan \intersect PlanACLs => Present(server, DefaultEnv)
ArrivedOK == \A o \in Expected : DealtWith(o) => Arrived(o)
FeasibleOK ==
    \A j \in DOMAIN jobs : jobs[j].at = "sending" /\ ~Lenient(j) =>
        Excused(j[2]) \/ Feasible(server, jobs[j].todo)
FailedOK == \A j \in failed : MayFail(j) \/ Excused(j[2])
LackingOK == \A d \in dropped : MayDrop(d[2])

ReasonsOK == ArrivedOK /\ FeasibleOK /\ FailedOK /\ LackingOK
CInv == SourceOK /\ CrewOK /\ AssignedOK /\ DefaultOK /\ (faults = 0 => ReasonsOK)

\* Reasons do not go away.
LEMMA ReasonStays ==
  ASSUME opts' = opts, source' = source, appeared \subseteq appeared'
  PROVE  /\ \A o : Reason(o) => Reason(o)'
         /\ \A o : Excused(o) => Excused(o)'
         /\ \A p : MayDrop(p) => MayDrop(p)'
         /\ \A j : (MayFail(j) <=> MayFail(j)') /\ (Lenient(j) <=> Lenient(j)')
<1>1. \A o : Reason(o) => Reason(o)'
  BY DEF Reason
<1>2. \A o : Excused(o) => Excused(o)'
  BY <1>1 DEF Excused
<1>3. \A p : MayDrop(p) => MayDrop(p)'
  BY <1>1 DEF MayDrop
<1>4. \A j : (MayFail(j) <=> MayFail(j)') /\ (Lenient(j) <=> Lenient(j)')
  BY DEF MayFail, Lenient
<1> QED
  BY <1>1, <1>2, <1>3, <1>4

LEMMA JobsOfSame ==
  ASSUME opts' = opts, NEW name, name # "purge"
  PROVE  JobsOf(name)' = JobsOf(name)
  BY DEF JobsOf

\* The jobs of a stage are of one type, and no two are about the same object.
LEMMA SameStage ==
  ASSUME JobsOK, NEW j \in DOMAIN jobs, NEW k \in DOMAIN jobs
  PROVE  j[1] = k[1] /\ (j # k => j[2] # k[2])
<1>1. About(j) /\ About(k) /\ StageName(j) = StageName(k)
  BY DEF JobsOK
<1>2. (j[1] = "item" => j[2][1] \in Kinds \ {"group"}) /\ (k[1] = "item" => k[2][1] \in Kinds \ {"group"})
  BY <1>1, JobObject DEF About
<1>3. ASSUME NEW i, About(i), i[1] = "item" => i[2][1] \in Kinds \ {"group"}
      PROVE  /\ i[1] = "user" <=> StageName(i) = "users"
             /\ i[1] = "member" <=> StageName(i) = "members"
             /\ i[1] = "shell" <=> StageName(i) = "group"
             /\ i[1] = "acl" <=> StageName(i) = "acls"
             /\ i[1] = "membership" <=> StageName(i) = "membership"
             /\ i[1] = "purge" <=> StageName(i) = "purge"
  <2>1. CASE i[1] = "item"
    BY <1>3, <2>1 DEF StageName, Kinds
  <2>2. CASE i[1] # "item"
    BY <1>3, <2>2 DEF StageName, About
  <2> QED
    BY <2>1, <2>2
<1>4. j[1] = k[1]
  BY <1>1, <1>2, <1>3 DEF About
<1> QED
  BY <1>1, <1>4 DEF About

-----------------------------------------------------------------------------
(* A step of a job.                                                        *)

\* The stages that come before others.
LEMMA Earlier ==
  ASSUME StageOK
  PROVE  /\ Stages[stage] = "item" => \E i \in 1..(stage - 1) : Stages[i] = "databag"
         /\ Stages[stage] = "policygroup" => \E i \in 1..(stage - 1) : Stages[i] = "policy"
         /\ Stages[stage] = "members" => \E i \in 1..(stage - 1) : Stages[i] = "users"
         /\ Stages[stage] \in {"membership", "acls"} =>
               \A k \in Kinds : \E i \in 1..(stage - 1) : Stages[i] = k
<1>1. /\ Stages[1] = "users" /\ Stages[2] = "members" /\ Stages[11] = "databag"
      /\ Stages[12] = "item" /\ Stages[14] = "policy" /\ Stages[15] = "policygroup"
      /\ Stages[16] = "membership" /\ Stages[17] = "acls"
  BY DEF Stages
<1>2. stage \in 1..19
  BY DEF StageOK
<1>3. /\ Stages[stage] = "item" => stage = 12
      /\ Stages[stage] = "policygroup" => stage = 15
      /\ Stages[stage] = "members" => stage = 2
      /\ Stages[stage] = "membership" => stage = 16
      /\ Stages[stage] = "acls" => stage = 17
  BY <1>1, <1>2, StagesAre
<1>4. \A k \in Kinds : \E i \in 3..15 : Stages[i] = k
  <2>1. /\ Stages[3] = "container" /\ Stages[4] = "group" /\ Stages[5] = "client"
        /\ Stages[6] = "user" /\ Stages[7] = "environment" /\ Stages[8] = "cookbook"
        /\ Stages[9] = "artifact" /\ Stages[10] = "role" /\ Stages[13] = "node"
    BY DEF Stages
  <2> QED
    BY <1>1, <2>1 DEF Kinds
<1>5. ASSUME Stages[stage] \in {"membership", "acls"}, NEW k \in Kinds
      PROVE  \E i \in 1..(stage - 1) : Stages[i] = k
  <2>1. PICK i \in 3..15 : Stages[i] = k
    BY <1>4
  <2>2. i \in 1..(stage - 1)
    BY <1>3, <1>5
  <2> QED
    BY <2>1, <2>2
<1> QED
  BY <1>1, <1>3, <1>5

\* The job that makes an object is one of its stage.
LEMMA MakerIs ==
  ASSUME NEW o \in Expected
  PROVE  /\ Maker(o) \in JobsOf(Home(o)) /\ Home(o) \in Kinds \union {"users"}
         /\ o \in Plan => o \notin Users /\ Home(o) = o[1] /\ o[1] \in Kinds
<1>1. CASE o \in Users
  <2>1. opts.restore /\ o \notin Plan
    BY <1>1, ObjectIs DEF Expected
  <2> QED
    BY <1>1, <2>1 DEF Maker, Home, JobsOf
<1>2. CASE o \notin Users
  <2>1. o \in Plan /\ o[1] \in Kinds
    BY <1>2, TransferAssumption DEF Expected, Objects
  <2>2. Home(o) = o[1] /\ o \in Of(o[1])
    BY <1>2, <2>1 DEF Home, Of
  <2>3. CASE o[1] = "group"
    BY <1>2, <2>1, <2>2, <2>3 DEF Maker, JobsOf
  <2>4. CASE o[1] # "group"
    <3>1. o[1] \notin {"users", "members", "group", "membership", "acls", "purge", "done"}
      BY <2>1, <2>4 DEF Kinds
    <3> QED
      BY <1>2, <2>1, <2>2, <2>4, <3>1 DEF Maker, JobsOf
  <2> QED
    BY <1>2, <2>1, <2>2, <2>3, <2>4
<1> QED
  BY <1>1, <1>2

LEMMA MakerOf ==
  ASSUME NEW o
  PROVE  Maker(o)[2] = o /\ Maker(o)[1] \in {"user", "shell", "item"}
  BY DEF Maker, Job

\* What has been dealt with has arrived, when no reason speaks against it.
LEMMA Comes ==
  ASSUME ReasonsOK, NEW o \in Plan, NEW i \in 1..(stage - 1), Stages[i] = o[1]
  PROVE  Present(server, o) \/ Excused(o) \/ Unwritten(o)
<1>1. o \in Expected /\ o \notin Users
  BY ObjectIs DEF Expected
<1>2. DealtWith(o)
  BY <1>1 DEF DealtWith, Home
<1> QED
  BY <1>1, <1>2 DEF ReasonsOK, ArrivedOK, Arrived

\* Objects that need no other have only their own reasons.
LEMMA OwnReason ==
  ASSUME NEW o
  PROVE  /\ o[1] \notin {"item", "policygroup"} => (Excused(o) <=> Reason(o))
         /\ Reason(o) => Excused(o)
  BY DEF Excused, Needed, InBag

LEMMA GoneReason ==
  ASSUME NEW o, o \in Objects \ Users, o \notin source
  PROVE  Reason(o)
<1>1. o[1] \in Kinds
  BY TransferAssumption
<1>2. o # OrgACL
  BY <1>1 DEF OrgACL, Kinds
<1> QED
  BY <1>2 DEF Reason

LEMMA NoReason ==
  ASSUME SourceOK, NEW o \in Objects \ Users, ~Reason(o)
  PROVE  o \in Plan
  BY GoneReason DEF SourceOK

\* What a step of a job does to the destination.
Quietly(j) ==
    \/ server' = server
    \/ jobs[j].at \in {"asking", "sending"} /\ Only(server, server', Head(jobs[j].todo))

LEMMA QuietlyIs ==
  ASSUME TInv, NEW j \in DOMAIN jobs, Answered(j) \/ Lost(j)
  PROVE  Quietly(j)
<1> DEFINE r == Head(jobs[j].todo)
<1>1. jobs[j].at \in {"asking", "sending"}
  BY DEF Answered, Lost
<1>2. Sound(j, r)
  BY <1>1, HeadIs DEF TInv
<1>3. Only(server, Serve(server, r).server, r)
  BY <1>2, ServeOnly DEF TInv, ServerOK
<1>4. server' \in {server, Serve(server, r).server}
  BY DEF Answered, Lost
<1> QED
  BY <1>1, <1>3, <1>4 DEF Quietly

\* Planned objects and the users of a backup stay.
LEMMA PlannedStay ==
  ASSUME TInv, NEW j \in DOMAIN jobs, Does(j), NEW o \in Plan \union Users, Present(server, o)
  PROVE  Present(server', o)
<1> USE DEF TInv
<1>1. o \in Objects /\ server' \in Servers
  BY DoesIs, ObjectIs DEF ServerOK
<1> SUFFICES server'.body[o] # "absent"
  BY <1>1, PresentIs
<1>2. CASE o \in Plan
  BY <1>1, <1>2, PurgeServed DEF Does, OnlyPurged, Spared
<1>3. CASE o \in Users
  <2>1. o[1] = "user" /\ server.body[o] # "absent"
    BY <1>1, <1>3, ObjectIs, PresentIs DEF ServerOK
  <2> SUFFICES ASSUME server'.body[o] = "absent"
               PROVE  FALSE
    OBVIOUS
  <2> DEFINE r == Head(jobs[j].todo)
  <2>2. jobs[j].at \in {"asking", "sending"} /\ Effect(server, server', r)
    BY <2>1 DEF Does, Served
  <2>3. r.op = "delete" /\ (o = r.obj \/ InBag(o, r.obj))
    BY <1>1, <2>1, <2>2 DEF Effect
  <2>4. Purgeable(j[2]) /\ r.obj = j[2]
    BY <2>2, <2>3, DeleteIs
  <2> QED
    BY <2>1, <2>3, <2>4 DEF Purgeable, InBag
<1> QED
  BY <1>2, <1>3

\* What a step of a job without faults has to show of the job.
Clears(j) ==
    /\ faults = 0
    /\ failed' \subseteq failed \union {j}
    /\ failed' # failed => MayFail(j) \/ Excused(j[2])
    /\ \A d \in dropped' \ dropped : MayDrop(d[2])
    /\ jobs'[j].at = "sending" /\ ~Lenient(j) => Excused(j[2]) \/ Feasible(server', jobs'[j].todo)
    /\ jobs'[j].at = "ended" => \A o \in Expected : Maker(o) = j =>
          Present(server', o) \/ Excused(o) \/ Unwritten(o)

\* What another job has left to send still succeeds.
LEMMA OtherFeasible ==
  ASSUME TInv, NEW j \in DOMAIN jobs, Does(j), Quietly(j), NEW k \in DOMAIN jobs, k # j,
         k[1] # "purge", NEW todo \in Seq(Requests(k)), Feasible(server, todo)
  PROVE  Feasible(server', todo)
<1> USE DEF TInv
<1>1. CASE server' = server
  BY <1>1
<1>2. CASE server' # server
  <2> DEFINE r == Head(jobs[j].todo)
  <2>1. Only(server, server', r) /\ jobs[j].at \in {"asking", "sending"}
    BY <1>2 DEF Quietly
  <2>2. Sound(j, r) /\ r \in Requests(j) /\ About(j) /\ About(k)
    BY <2>1, HeadIs DEF JobsOK
  <2>3. r.op # "get" /\ r.op # "delete"
    <3>1. r.op # "get"
      BY <1>2, <2>1 DEF Only
    <3>2. Stages[stage] # "purge"
      BY PurgeStage
    <3> QED
      BY <2>1, <3>1, <3>2, DeleteIs
  <2>4. r.obj = j[2] /\ k[2] # j[2]
    <3>1. k[2] # j[2]
      BY SameStage
    <3>2. r.obj = j[2]
      BY <2>2, <2>3, OwnRequest DEF Sound
    <3> QED
      BY <3>1, <3>2
  <2>5. server' \in Servers /\ server \in Servers
    BY DoesIs DEF ServerOK
  <2>6. \A o \in Objects : server.body[o] # "absent" => server'.body[o] # "absent"
    <3>1. OnlyPurged /\ Stages[stage] # "purge"
      BY PurgeServed, PurgeStage DEF Does
    <3> QED
      BY <2>5, <3>1, PresentIs DEF OnlyPurged, Spared
  <2>7. k[2] \in Objects => server'.body[k[2]] = server.body[k[2]]
    BY <2>1, <2>3, <2>4 DEF Only
  <2>8. k[2] \in Keyed => server'.keys[k[2]] = server.keys[k[2]]
    <3>1. Keyed \subseteq Objects
      BY TransferAssumption DEF Keyed
    <3> QED
      BY <2>1, <2>3, <2>4, <3>1 DEF Only
  <2> QED
    BY <2>2, <2>5, <2>6, <2>7, <2>8, FeasibleKept
<1> QED
  BY <1>1, <1>2

LEMMA StableParts ==
  ASSUME TInv, CInv, NEW j \in DOMAIN jobs, Does(j), Quietly(j),
         UNCHANGED <<opts, source, appeared>>
  PROVE  SourceOK' /\ CrewOK' /\ AssignedOK' /\ DefaultOK'
<1> USE DEF TInv, CInv
<1>1. PICK n : Step(j, n)
  BY DEF Does
<1>2. DOMAIN jobs' = DOMAIN jobs /\ stage' = stage
  BY <1>1, JobsStep DEF Step
<1>3. SourceOK'
  BY DEF SourceOK
<1>4. CrewOK'
  BY <1>2, JobsOfSame DEF CrewOK
<1>5. AssignedOK'
  <2> SUFFICES ASSUME NEW g \in Of("policygroup"), server'.assigned[g] # {}
               PROVE  server'.body[g] # "absent"
    BY DEF AssignedOK
  <2>1. g \in Plan /\ g \in Objects /\ g \in DOMAIN Assigned /\ server' \in Servers
    BY ObjectIs, TransferAssumption, DoesIs DEF ServerOK
  <2>2. ASSUME server'.assigned[g] = server.assigned[g]
        PROVE  server'.body[g] # "absent"
    <3>1. server.body[g] # "absent"
      BY <2>2 DEF AssignedOK
    <3>2. Present(server, g)
      BY <2>1, <3>1, PresentIs DEF ServerOK
    <3>3. Present(server', g)
      BY <2>1, <3>2, PlannedStay
    <3> QED
      BY <2>1, <3>3, PresentIs
  <2> QED
    BY <2>1, <2>2 DEF Quietly, Only
<1>6. DefaultOK'
  BY PlannedStay DEF DefaultOK
<1> QED
  BY <1>3, <1>4, <1>5, <1>6

LEMMA ClearsIs ==
  ASSUME TInv, CInv, NEW j \in DOMAIN jobs, Does(j), Quietly(j),
         UNCHANGED <<opts, source, appeared>>, faults' = 0 => Clears(j)
  PROVE  CInv'
<1> USE DEF TInv, CInv
<1>1. PICK n : Step(j, n)
  BY DEF Does
<1>2. DOMAIN jobs' = DOMAIN jobs /\ stage' = stage
      /\ \A k \in DOMAIN jobs : k # j => jobs'[k] = jobs[k]
  BY <1>1, JobsStep DEF Step
<1> SUFFICES ASSUME faults' = 0
             PROVE  ReasonsOK'
  BY StableParts
<1>3. Clears(j) /\ faults = 0 /\ ReasonsOK
  BY DEF Clears
<1>4. /\ \A o : Excused(o) => Excused(o)'
      /\ \A p : MayDrop(p) => MayDrop(p)'
      /\ \A k : (MayFail(k) <=> MayFail(k)') /\ (Lenient(k) <=> Lenient(k)')
  BY ReasonStays
<1>5. ArrivedOK'
  <2> SUFFICES ASSUME NEW o \in Expected', DealtWith(o)'
               PROVE  Present(server', o) \/ Excused(o)' \/ Unwritten(o)
    BY DEF ArrivedOK, Arrived, Unwritten
  <2>1. o \in Expected /\ o \in Plan \union Users
    BY DEF Expected
  <2>2. CASE Maker(o) = j /\ jobs'[j].at = "ended"
    BY <1>3, <1>4, <2>1, <2>2 DEF Clears
  <2>3. CASE ~(Maker(o) = j /\ jobs'[j].at = "ended")
    <3>1. DealtWith(o)
      BY <1>2, <2>3 DEF DealtWith, Maker, Home
    <3>2. Present(server, o) \/ Excused(o) \/ Unwritten(o)
      BY <1>3, <2>1, <3>1 DEF ReasonsOK, ArrivedOK, Arrived
    <3> QED
      BY <1>4, <2>1, <3>2, PlannedStay
  <2> QED
    BY <2>2, <2>3
<1>6. FeasibleOK'
  <2> SUFFICES ASSUME NEW k \in DOMAIN jobs, jobs'[k].at = "sending", ~Lenient(k)
               PROVE  Excused(k[2]) \/ Feasible(server', jobs'[k].todo)
    BY <1>2, <1>4 DEF FeasibleOK
  <2>1. CASE k = j
    BY <1>3, <2>1 DEF Clears
  <2>2. CASE k # j
    <3>1. jobs'[k] = jobs[k]
      BY <1>2, <2>2
    <3>2. Excused(k[2]) \/ Feasible(server, jobs[k].todo)
      BY <1>3, <3>1 DEF ReasonsOK, FeasibleOK
    <3>3. jobs[k].todo \in Seq(Requests(k)) /\ k[1] # "purge"
      BY <3>1, HeadIs DEF Lenient, MayFail
    <3> QED
      BY <2>2, <3>1, <3>2, <3>3, OtherFeasible
  <2> QED
    BY <2>1, <2>2
<1>7. FailedOK'
  BY <1>3, <1>4 DEF Clears, ReasonsOK, FailedOK
<1>8. LackingOK'
  BY <1>3, <1>4 DEF Clears, ReasonsOK, LackingOK
<1> QED
  BY <1>5, <1>6, <1>7, <1>8 DEF ReasonsOK

-----------------------------------------------------------------------------
(* The steps of a job.                                                     *)

LEMMA EndsWith ==
  ASSUME JobsOK, NEW j \in DOMAIN jobs, Ended(j)
  PROVE  jobs'[j].at = "ended"
  BY StateJobs, OverIs DEF Ended

LEMMA LooksAt ==
  ASSUME JobsOK, NEW j \in DOMAIN jobs, NEW left, NEW kept, Looks(j, left, kept)
  PROVE  jobs'[j].at = "checking"
  BY StateJobs, StateIs DEF Looks

LEMMA BecomesAt ==
  ASSUME JobsOK, NEW j \in DOMAIN jobs, NEW at, NEW todo, Becomes(j, at, todo)
  PROVE  jobs'[j].at = at /\ jobs'[j].todo = todo
<1>1. jobs'[j] = State(at, todo, {}, {})
  BY StateJobs DEF Becomes
<1> QED
  BY <1>1, StateIs

\* A job that goes on ends, or sends what is left.
LEMMA GoOnClears ==
  ASSUME JobsOK, NEW j \in DOMAIN jobs, faults = 0, NEW todo, GoOn(j, todo),
         failed' = failed, dropped' = dropped,
         ~Lenient(j) /\ todo # <<>> => Excused(j[2]) \/ Feasible(server', todo),
         todo = <<>> => \A o \in Expected : Maker(o) = j =>
             Present(server', o) \/ Excused(o) \/ Unwritten(o)
  PROVE  Clears(j)
<1>1. CASE todo = <<>>
  <2>1. jobs'[j].at = "ended"
    BY <1>1, EndsWith DEF GoOn
  <2> QED
    BY <1>1, <2>1 DEF Clears
<1>2. CASE todo # <<>>
  <2>1. jobs'[j].at = "sending" /\ jobs'[j].todo = todo
    BY <1>2, BecomesAt DEF GoOn
  <2> QED
    BY <1>2, <2>1 DEF Clears
<1> QED
  BY <1>1, <1>2

\* Whatever becomes of a job whose object has a reason not to come.
LEMMA ExcusedClears ==
  ASSUME NEW j, faults = 0, Excused(j[2]), failed' \subseteq failed \union {j}, dropped' = dropped
  PROVE  Clears(j)
  BY MakerOf DEF Clears

\* A job of no object's that ends well, or waits for answers.
LEMMA LooksClears ==
  ASSUME NEW j, faults = 0, jobs'[j].at \notin {"sending", "ended"},
         failed' = failed, \A d \in dropped' \ dropped : MayDrop(d[2])
  PROVE  Clears(j)
  BY DEF Clears

LEMMA GroupEmpty ==
  ASSUME NEW o \in Of("policygroup"), WritePolicyGroup(o) = <<>>
  PROVE  Assigned[o] = {}
<1> DEFINE ps == SetToSeq(Assigned[o])
<1>1. IsFiniteSet(Assigned[o])
  BY TransferAssumption
<1>2. ps \in Seq(Assigned[o]) /\ \A x \in Assigned[o] : \E i \in 1..Len(ps) : ps[i] = x
  BY <1>1, SetToSeqIs
<1>3. DOMAIN WritePolicyGroup(o) = 1..(2 * Len(ps))
  BY DEF WritePolicyGroup
<1> HIDE DEF ps
<1>4. Len(ps) \in Nat
  BY <1>2
<1>5. 1 \notin 1..(2 * Len(ps))
  BY <1>3
<1> DEFINE m == Len(ps)
<1> HIDE DEF m
<1>6. m \in Nat /\ 1 \notin 1..(2 * m)
  BY <1>4, <1>5 DEF m
<1>7. m = 0
  BY <1>6
<1> QED
  BY <1>2, <1>7 DEF m

LEMMA GroupStarts ==
  ASSUME PlanIsWhole, TInv, CInv, ReasonsOK, NEW j \in DOMAIN jobs, GroupItem(j)
  PROVE  /\ j[2] \in Of("policygroup")
         /\ Excused(j[2]) \/ Feasible(server, WritePolicyGroup(j[2]))
<1> USE DEF TInv, CInv
<1> DEFINE o == j[2]
<1>1. About(j) /\ StageName(j) = Stages[stage]
  BY DEF JobsOK
<1>2. o \in Of("policygroup") /\ Stages[stage] = "policygroup"
  BY <1>1 DEF About, StageName, GroupItem, Of
<1>3. PICK i \in 1..(stage - 1) : Stages[i] = "policy"
  BY <1>2, Earlier
<1> SUFFICES ASSUME ~Excused(o)
             PROVE  Feasible(server, WritePolicyGroup(o))
  BY <1>2
<1>4. ASSUME NEW p \in Assigned[o]
      PROVE  Present(server, p)
  <2>1. p[1] = "policy" /\ p \in Objects
    BY <1>2, TransferAssumption DEF PlanIsWhole
  <2>2. ~Reason(p)
    BY <1>2 DEF Excused, Needed, Of
  <2>3. p \notin Users
    BY <2>1, ObjectIs
  <2>4. p \in Plan
    BY <2>1, <2>2, <2>3, NoReason
  <2>5. Present(server, p) \/ Excused(p) \/ Unwritten(p)
    BY <1>3, <2>1, <2>4, Comes
  <2>6. ~Excused(p)
    BY <2>1, <2>2, OwnReason
  <2>7. ~Unwritten(p)
    BY <2>1 DEF Unwritten, DefaultEnv
  <2> QED
    BY <2>5, <2>6, <2>7
<1> QED
  BY <1>2, <1>4, GroupFeasible

\* A user that is to become a member has come, or has a reason not to.
LEMMA MemberStarts ==
  ASSUME TInv, CInv, ReasonsOK, NEW j \in DOMAIN jobs, j[1] = "member", ~Lenient(j)
  PROVE  Excused(j[2]) \/ Present(server, j[2])
<1> USE DEF TInv, CInv
<1> DEFINE u == j[2]
<1>1. About(j) /\ StageName(j) = Stages[stage] /\ Stages[stage] = "members"
  BY DEF JobsOK, StageName
<1>2. opts.superuser
  BY DEF Lenient, MayFail
<1>3. j \in JobsOf("members")
  BY <1>1 DEF CrewOK
<1>4. opts.restore
  BY <1>3 DEF JobsOf
<1>5. u \in Users /\ u[1] = "user"
  BY <1>1, ObjectIs DEF About
<1>6. u \in Expected
  BY <1>2, <1>4, <1>5 DEF Expected
<1>7. DealtWith(u)
  BY <1>1, <1>5, Earlier DEF DealtWith, Home
<1>8. ~Unwritten(u)
  BY <1>5 DEF Unwritten, DefaultEnv
<1> QED
  BY <1>6, <1>7, <1>8 DEF ReasonsOK, ArrivedOK, Arrived

LEMMA StartClears ==
  ASSUME PlanIsWhole, TInv, CInv, NEW j \in DOMAIN jobs, Start(j), faults' = 0
  PROVE  Clears(j)
<1> USE DEF TInv, CInv
<1> DEFINE o == j[2]
           lacks == o \in Plan \ source
                    /\ (j[1] \in {"membership", "acl"} \/ (j[1] = "item" /\ ~Files(o)))
<1>1. About(j) /\ faults = 0 /\ ReasonsOK /\ server' = server /\ dropped' = dropped
  BY DEF Start, JobsOK
<1>2. CASE lacks
  <2>1. Ended(j) /\ failed' = failed \union {j}
    BY <1>2 DEF Start
  <2>2. Excused(o)
    BY <1>2, ObjectIs, GoneReason, OwnReason
  <2> QED
    BY <1>1, <2>1, <2>2, ExcusedClears
<1>3. ASSUME NEW r, GoOn(j, <<r>>), failed' = failed, Lenient(j) \/ Excused(o) \/ Feasible(server, <<r>>)
      PROVE  Clears(j)
  <2>1. <<r>> # <<>>
    BY OneRequest
  <2> QED
    BY <1>1, <1>3, <2>1, GoOnClears
<1>4. CASE ~lacks /\ j[1] \in {"shell", "purge"}
  <2>1. \E r : GoOn(j, <<r>>) /\ failed' = failed
    BY <1>4 DEF Start
  <2> QED
    BY <1>3, <1>4, <2>1 DEF Lenient, MayFail
<1>5. CASE ~lacks /\ j[1] = "member"
  <2> DEFINE r == Req("associate", o)
  <2>1. GoOn(j, <<r>>) /\ failed' = failed
    BY <1>5 DEF Start
  <2>2. r.op = "associate" /\ r.obj = o
    BY RequestIs
  <2> HIDE DEF r
  <2>3. DOMAIN <<r>> = {1} /\ <<r>>[1] = r
    BY OneRequest
  <2>4. Present(server, o) => Feasible(server, <<r>>)
    BY <2>2, <2>3 DEF Feasible, Fit
  <2> QED
    BY <1>1, <1>3, <1>5, <2>1, <2>4, MemberStarts
<1>6. CASE ~lacks /\ j[1] = "item" /\ o[1] = "policygroup"
  <2>1. GoOn(j, Write(o, TRUE)) /\ failed' = failed
    BY <1>6 DEF Start
  <2>2. Write(o, TRUE) = WritePolicyGroup(o)
    BY <1>6 DEF Write, Files, DefaultEnv
  <2>3. o \in Of("policygroup") /\ (Excused(o) \/ Feasible(server, WritePolicyGroup(o)))
    BY <1>1, <1>6, GroupStarts DEF GroupItem
  <2>4. WritePolicyGroup(o) = <<>> => Unwritten(o)
    BY <1>6, <2>3, GroupEmpty DEF Unwritten
  <2> QED
    BY <1>1, <2>1, <2>2, <2>3, <2>4, GoOnClears, MakerOf
<1>7. CASE ~lacks /\ j[1] \in {"membership", "acl"}
  <2>1. Looks(j, Everybody(j), {}) /\ failed' = failed
    BY <1>7 DEF Start, Everybody
  <2> QED
    BY <1>1, <2>1, LooksAt, LooksClears
<1>8. CASE /\ ~lacks /\ j[1] \notin {"shell", "member", "purge", "membership", "acl"}
           /\ ~(j[1] = "item" /\ o[1] = "policygroup")
  <2>1. Becomes(j, "asking", <<Req("get", o)>>) /\ failed' = failed
    BY <1>8 DEF Start
  <2> QED
    BY <1>1, <2>1, BecomesAt, LooksClears
<1> QED
  BY <1>2, <1>4, <1>5, <1>6, <1>7, <1>8

\* Nothing is to be written only when the object is there, or is the
\* default environment.
LEMMA WriteEmpty ==
  ASSUME NEW j, About(j), j[1] = "item", ~GroupItem(j), NEW e \in BOOLEAN, Write(j[2], e) = <<>>
  PROVE  e \/ j[2] = DefaultEnv
<1> DEFINE o == j[2]
<1> SUFFICES ASSUME ~e, o # DefaultEnv
             PROVE  Write(o, e) # <<>>
  OBVIOUS
<1>1. CASE o[1] \in {"container", "databag", "policy"}
  <2>1. Write(o, e) = <<Req("post", o)>>
    BY <1>1 DEF Write, WriteOnce, Files
  <2> QED
    BY <2>1
<1>2. CASE Files(o)
  <2>1. Write(o, e) = <<Req("upload", o)>>
    BY <1>2 DEF Write, Files
  <2> QED
    BY <2>1
<1>3. CASE o[1] \in {"client", "user"}
  <2>1. Write(o, e) = WriteActor(o, e) \o KeyRequests(o)
    BY <1>3 DEF Write, Files
  <2> DEFINE Y == Plain({"get", "put", "post"}, o) \union KeyReqs(o)
  <2>2. o \in Of("client") \union Of("user")
    BY <1>3 DEF Of, About
  <2>3. WriteActor(o, e) \in Seq(Y) /\ WriteActor(o, e) # <<>>
    BY WriteActorIs
  <2>4. KeyRequests(o) \in Seq(KeyReqs(o))
    BY <2>2, KeyRequestsAre
  <2>5. KeyRequests(o) \in Seq(Y)
    BY <2>4, Wider
  <2> HIDE DEF Y
  <2> QED
    BY <2>1, <2>3, <2>5, Joined
<1>4. CASE o[1] \notin {"container", "databag", "policy", "client", "user", "policygroup"} /\ ~Files(o)
  <2>1. Write(o, e) = <<Req("post", o)>>
    BY <1>4 DEF Write, WriteSimple
  <2> QED
    BY <2>1
<1> QED
  BY <1>1, <1>2, <1>3, <1>4 DEF GroupItem

\* An item finds its bag, or shares the reason why that is not there.
LEMMA BagStands ==
  ASSUME PlanIsWhole, TInv, CInv, ReasonsOK, NEW j \in DOMAIN jobs, j[1] = "item", ~Excused(j[2])
  PROVE  HasBag(server, j[2])
<1> USE DEF TInv, CInv
<1> DEFINE o == j[2]
           b == <<"databag", o[2], None>>
<1> SUFFICES ASSUME o[1] = "item"
             PROVE  \E q \in Objects : InBag(o, q) /\ Present(server, q)
  BY DEF HasBag
<1>1. About(j) /\ StageName(j) = Stages[stage]
  BY DEF JobsOK
<1>2. o \in Of("item") /\ Stages[stage] = "item"
  BY <1>1 DEF About, StageName, Of
<1>3. b \in Plan /\ b \in Objects /\ InBag(o, b) /\ b[1] = "databag"
  BY <1>2, ObjectIs DEF PlanIsWhole, InBag
<1> HIDE DEF b
<1>4. PICK i \in 1..(stage - 1) : Stages[i] = "databag"
  BY <1>2, Earlier
<1>5. Present(server, b) \/ Excused(b) \/ Unwritten(b)
  BY <1>3, <1>4, Comes
<1>6. ~Excused(b)
  <2>1. ~Reason(b)
    BY <1>3 DEF Excused, Needed
  <2> QED
    BY <1>3, <2>1, OwnReason
<1>7. ~Unwritten(b)
  BY <1>3 DEF Unwritten, DefaultEnv
<1> QED
  BY <1>3, <1>5, <1>6, <1>7

LEMMA GetIs ==
  ASSUME NEW s \in Servers, NEW o, NEW r, r.op = "get", r.obj = o
  PROVE  Serve(s, r).server = s /\ (Serve(s, r).status = 200 <=> Present(s, o))
<1>1. Serve(s, r) = ServeObject(s, "get", o)
  BY DEF Serve
<1> QED
  BY <1>1, AnswerIs DEF ServeObject

LEMMA AskedClears ==
  ASSUME PlanIsWhole, TInv, CInv, NEW j \in DOMAIN jobs, Answered(j), jobs[j].at = "asking", faults' = 0
  PROVE  Clears(j)
<1> USE DEF TInv, CInv
<1> DEFINE o == j[2]
           r == Head(jobs[j].todo)
           e == Serve(server, r).status = 200
           skip == e /\ (~opts.overwrite \/ r.obj[1] = "artifact")
           todo == IF j[1] = "user" THEN WriteUser(r.obj, e) ELSE Write(r.obj, e)
<1>1. /\ About(j) /\ Sound(j, r) /\ r.op = "get" /\ r.obj = o /\ j[1] \in {"user", "item"}
      /\ ~GroupItem(j)
  BY HeadIs, RequestIs DEF JobsOK, JobIs, GroupItem
<1>2. faults = 0 /\ ReasonsOK /\ dropped' = dropped
  BY DEF Answered
<1>3. server' = server /\ (e <=> Present(server, o))
  <2>1. server' = Serve(server, r).server
    BY DEF Answered
  <2> HIDE DEF r
  <2> QED
    BY <1>1, <2>1, GetIs DEF ServerOK
<1>4. CASE skip
  <2>1. Ended(j) /\ failed' = failed
    BY <1>4 DEF Answered
  <2>2. jobs'[j].at = "ended" /\ Present(server', o)
    BY <1>3, <1>4, <2>1, EndsWith
  <2> QED
    BY <1>2, <2>1, <2>2, MakerOf DEF Clears
<1>5. CASE ~skip /\ Files(r.obj) /\ r.obj \notin source
  <2>1. Fails(j)
    BY <1>5 DEF Answered
  <2>2. o \in Objects \ Users
    <3>1. o[1] # "user"
      BY <1>1, <1>5 DEF Files
    <3> QED
      BY <1>1, <3>1, ObjectIs DEF Sound
  <2>3. Excused(o)
    BY <1>1, <1>5, <2>2, GoneReason, OwnReason
  <2> QED
    BY <1>2, <2>1, <2>3, ExcusedClears DEF Fails
<1>6. CASE ~skip /\ ~(Files(r.obj) /\ r.obj \notin source)
  <2>1. GoOn(j, todo) /\ failed' = failed
    BY <1>6 DEF Answered
  <2>2. e \in BOOLEAN /\ (e => o[1] # "artifact")
    BY <1>1, <1>6
  <2> HIDE DEF e
  <2>3. CASE j[1] = "user"
    <3>1. o \in Users /\ todo = WriteUser(o, e)
      BY <1>1, <2>3 DEF About
    <3> HIDE DEF todo
    <3>2. Feasible(server', todo) /\ todo # <<>>
      BY <1>3, <2>2, <2>3, <3>1, WriteUserFeasible, WriteUserIs
    <3> QED
      BY <1>2, <2>1, <3>2, GoOnClears
  <2>4. CASE j[1] = "item"
    <3>1. todo = Write(o, e)
      BY <1>1, <2>4
    <3> HIDE DEF todo
    <3>2. Excused(o) \/ Feasible(server', todo)
      BY <1>1, <1>2, <1>3, <2>2, <2>4, <3>1, WriteFeasible, BagStands
    <3>3. todo = <<>> => Present(server', o) \/ Unwritten(o)
      BY <1>1, <1>3, <2>2, <2>4, <3>1, WriteEmpty DEF Unwritten
    <3> QED
      BY <1>2, <2>1, <3>2, <3>3, GoOnClears, MakerOf
  <2> QED
    BY <1>1, <2>3, <2>4
<1> QED
  BY <1>4, <1>5, <1>6

\* A group that is there already is as good as one that is made.
LEMMA ShellClears ==
  ASSUME TInv, RInv, CInv, NEW j \in DOMAIN jobs, j[1] = "shell", Answered(j),
         jobs[j].at = "sending", faults' = 0
  PROVE  Clears(j)
<1> USE DEF TInv, CInv, RInv
<1> DEFINE g == j[2]
           todo == jobs[j].todo
           r == Head(todo)
           a == Serve(server, r)
<1>1. About(j) /\ Sound(j, r) /\ r \in Requests(j)
  BY HeadIs DEF JobsOK
<1>2. r.op = "post" /\ r.obj = g
  <2>1. Requests(j) = Plain({"post"}, g)
    BY DEF Requests
  <2> HIDE DEF r
  <2> QED
    BY <1>1, <2>1, PlainIs
<1>3. faults = 0 /\ dropped' = dropped /\ server' = a.server
  BY DEF Answered
<1>4. g[1] = "group" /\ g \in Objects
  BY <1>1, JobObject
<1>5. \/ a.status = 200
      \/ a.status = 409 /\ Present(server, g) /\ a.server = server
  <2>1. HasBag(server, g)
    BY <1>4 DEF HasBag
  <2>2. a = ServeObject(server, "post", g)
    BY <1>2 DEF Serve
  <2> HIDE DEF r
  <2> QED
    BY <2>1, <2>2, AnswerIs DEF ServeObject
<1>6. GoOn(j, Tail(todo)) /\ failed' = failed
  BY <1>5 DEF Answered, Tolerated
<1>7. Present(server', g)
  <2>1. CASE a.status = 200
    <3> HIDE DEF r
    <3> QED
      BY <1>1, <1>2, <1>3, <2>1, PresentAfter DEF ServerOK, KeylessOK
  <2>2. CASE a.status = 409 /\ Present(server, g) /\ a.server = server
    BY <1>3, <2>2
  <2> QED
    BY <1>5, <2>1, <2>2
<1>8. Lenient(j)
  BY DEF Lenient
<1> HIDE DEF todo
<1> QED
  BY <1>3, <1>6, <1>7, <1>8, GoOnClears, MakerOf

\* Jobs of which nothing is asked.
LEMMA FreeClears ==
  ASSUME NEW j, faults = 0, MayFail(j), failed' \subseteq failed \union {j}, dropped' = dropped
  PROVE  Clears(j)
<1>1. j[1] \in {"purge", "member"}
  BY DEF MayFail
<1> QED
  BY <1>1, MakerOf DEF Clears, Lenient

LEMMA AnsweredReport ==
  ASSUME NEW j, Answered(j)
  PROVE  failed' \subseteq failed \union {j} /\ dropped' = dropped /\ (faults' = 0 => faults = 0)
<1>1. dropped' = dropped /\ faults' = faults
  BY DEF Answered
<1>2. failed' = failed \/ Fails(j)
  BY DEF Answered
<1> QED
  BY <1>1, <1>2 DEF Fails

\* The object of a job whose last request succeeds is there.
LEMMA LastArrives ==
  ASSUME TInv, RInv, RInv', AssignedOK', NEW j \in DOMAIN jobs, Answered(j), jobs[j].at = "sending",
         j[1] \in {"user", "item"}, Serve(server, Head(jobs[j].todo)).status = 200,
         GoOn(j, <<>>)
  PROVE  Present(server', j[2]) \/ Unwritten(j[2])
<1> USE DEF TInv, RInv
<1> DEFINE r == Head(jobs[j].todo)
           o == j[2]
<1>1. About(j) /\ Sound(j, r) /\ r \in Requests(j) /\ server' = Serve(server, r).server
  BY HeadIs DEF JobsOK, Answered
<1>2. CASE ~GroupItem(j)
  <2>1. r.obj = o /\ r.op # "delete"
    BY <1>1, <1>2, OwnRequest
  <2> HIDE DEF r
  <2> QED
    BY <1>1, <2>1, PresentAfter DEF r, ServerOK, KeylessOK
<1>3. CASE GroupItem(j)
  <2>1. o \in Of("policygroup") /\ o \in Objects
    BY <1>1, <1>3, ObjectIs DEF GroupItem, About, Of
  <2>2. j \in written'
    BY <1>3 DEF GoOn, GroupItem
  <2>3. Assigned[o] \subseteq server'.assigned[o]
    <3>1. ReportTold'
      OBVIOUS
    <3>2. Done(j, server', dropped')
      BY <2>2, <3>1 DEF ReportTold
    <3> QED
      BY <1>3, <3>2 DEF Done, GroupItem, Once
  <2>4. CASE Assigned[o] = {}
    BY <1>3, <2>4 DEF Unwritten, GroupItem
  <2>5. CASE Assigned[o] # {}
    <3>1. server'.assigned[o] # {}
      BY <2>3, <2>5
    <3>2. server'.body[o] # "absent"
      BY <2>1, <3>1 DEF AssignedOK
    <3>3. server' \in Servers
      BY <1>1, ServeIs DEF Effect, ServerOK
    <3> QED
      BY <2>1, <3>2, <3>3, PresentIs
  <2> QED
    BY <2>4, <2>5
<1> QED
  BY <1>2, <1>3

LEMMA KeyRequestIs ==
  ASSUME NEW j, NEW r, Sound(j, r), r.op = "put_key"
  PROVE  r = With("put_key", r.obj, r.arg) /\ r.obj = j[2]
<1>1. r \in KeyReqs(j[2]) /\ r.obj = j[2]
  BY DEF Sound
<1> QED
  BY <1>1 DEF KeyReqs, With

LEMMA SentClears ==
  ASSUME TInv, RInv, CInv, RInv', AssignedOK', NEW j \in DOMAIN jobs, Answered(j),
         jobs[j].at = "sending", faults' = 0
  PROVE  Clears(j)
<1> USE DEF TInv, RInv, CInv
<1> DEFINE o == j[2]
           todo == jobs[j].todo
           r == Head(todo)
           a == Serve(server, r)
<1>1. /\ About(j) /\ Sound(j, r) /\ todo \in Seq(Requests(j)) /\ todo # <<>>
      /\ r \in Requests(j) /\ Tail(todo) \in Seq(Requests(j))
  BY HeadIs DEF JobsOK
<1>2. /\ failed' \subseteq failed \union {j} /\ dropped' = dropped /\ faults = 0 /\ ReasonsOK
      /\ server' = a.server
  BY AnsweredReport DEF Answered
<1>3. CASE Excused(o)
  BY <1>2, <1>3, ExcusedClears
<1>4. CASE MayFail(j)
  BY <1>2, <1>4, FreeClears
<1>5. CASE j[1] = "shell"
  BY <1>5, ShellClears
<1>6. CASE ~Excused(o) /\ ~MayFail(j) /\ j[1] # "shell"
  <2>1. ~Lenient(j)
    BY <1>6 DEF Lenient
  <2>2. Feasible(server, todo)
    BY <1>2, <1>6, <2>1 DEF ReasonsOK, FeasibleOK
  <2>3. Fit(server, r) /\ r.op # "delete"
    <3>1. 1 \in DOMAIN todo /\ r = todo[1]
      BY HeadIs
    <3>2. j[1] # "purge"
      BY <1>6 DEF MayFail
    <3> HIDE DEF r
    <3> QED
      BY <1>1, <2>2, <3>1, <3>2, OwnRequest DEF Feasible
  <2>4. r.op = "upload" => ~(r.obj \in Frozen /\ ~opts.force)
    <3>1. r.op = "upload" => r.obj = o
      BY <1>1 DEF Sound
    <3> QED
      BY <1>6, <3>1, OwnReason DEF Reason
  <2>5. \/ a.status = 200
        \/ a = Answer(409, server) /\ r.op = "associate"
        \/ a = Answer(404, server) /\ r.op = "put_key" /\ server.keys[r.obj][r.arg] = "absent"
    <3> HIDE DEF r
    <3> QED
      BY <1>1, <2>3, <2>4, FitSucceeds
  <2>6. CASE a.status = 200
    <3>1. GoOn(j, Tail(todo)) /\ failed' = failed
      BY <2>6 DEF Answered
    <3>2. Feasible(server', Tail(todo))
      <4>1. j[1] # "purge"
        BY <1>6 DEF MayFail
      <4> HIDE DEF todo
      <4> QED
        BY <1>1, <1>2, <2>2, <2>6, <4>1, FeasibleTail DEF ServerOK, KeylessOK
    <3>3. ASSUME Tail(todo) = <<>>, NEW q \in Expected, Maker(q) = j
          PROVE  Present(server', q) \/ Unwritten(q)
      <4>1. q = o /\ j[1] \in {"user", "item"}
        BY <1>6, <3>3, MakerOf
      <4>2. GoOn(j, <<>>)
        BY <3>1, <3>3
      <4> QED
        BY <2>6, <4>1, <4>2, LastArrives
    <3> HIDE DEF todo
    <3> QED
      BY <1>2, <3>1, <3>2, <3>3, GoOnClears
  <2>7. CASE a = Answer(409, server) /\ r.op = "associate"
    <3>1. j[1] = "member" /\ a.status = 409
      <4> HIDE DEF r
      <4> QED
        BY <1>1, <2>7, OwnRequest, AnswerIs
    <3>2. ~Tolerated(j, r, a.status)
      BY <2>7, <3>1 DEF Tolerated
    <3>3. Ended(j) /\ failed' = failed
      BY <3>1, <3>2 DEF Answered
    <3>4. jobs'[j].at = "ended"
      BY <3>3, EndsWith
    <3> QED
      BY <1>2, <3>1, <3>3, <3>4, MakerOf DEF Clears
  <2>8. CASE a = Answer(404, server) /\ r.op = "put_key" /\ server.keys[r.obj][r.arg] = "absent"
    <3> DEFINE next == <<[r EXCEPT !.op = "post_key"]>> \o Tail(todo)
    <3>1. a.status = 404 /\ a.server = server
      BY <2>8, AnswerIs
    <3>2. Becomes(j, "sending", next) /\ failed' = failed
      BY <2>8, <3>1 DEF Answered, Tolerated
    <3>3. r = With("put_key", r.obj, r.arg)
      <4> HIDE DEF r
      <4> QED
        BY <1>1, <2>8, KeyRequestIs
    <3>4. Feasible(server', next)
      <4> HIDE DEF todo
      <4> QED
        BY <1>1, <1>2, <2>2, <2>8, <3>1, <3>3, FeasiblePostKey
    <3> HIDE DEF next
    <3>5. jobs'[j].at = "sending" /\ jobs'[j].todo = next
      BY <3>2, BecomesAt
    <3> QED
      BY <1>2, <3>2, <3>4, <3>5 DEF Clears
  <2> QED
    BY <2>5, <2>6, <2>7, <2>8
<1> QED
  BY <1>3, <1>4, <1>5, <1>6

\* Who is looked up and came with the transfer is found.
LEMMA Found ==
  ASSUME PlanIsWhole, TInv, RInv, CInv, ReasonsOK, NEW j \in DOMAIN jobs, jobs[j].at = "checking",
         NEW p \in jobs[j].left, ~MayDrop(p)
  PROVE  p \in Principals /\ p[1] \in {"client", "group"} /\ p \in Listing(p[1])
<1> USE DEF TInv, RInv, CInv
<1>1. About(j) /\ StageName(j) = Stages[stage] /\ j[1] \in {"membership", "acl"}
  BY DEF JobsOK, JobIs
<1>2. p \in Everybody(j)
  BY DEF LooksOK
<1>3. jobs[j].left \in SUBSET Principals
  BY DEF JobsOK, JobIs, JobStates
<1>4. p \in Principals /\ p[1] \in {"user", "client", "group"}
  BY <1>3 DEF Principals
<1>5. p \in Plan /\ p \notin USAGs /\ ~Reason(p)
  BY DEF MayDrop
<1>6. p \notin Of("user")
  <2>1. CASE j[1] = "membership"
    <3>1. j[2] \in Of("group") /\ p \in Members[j[2]]
      BY <1>1, <1>2, <2>1 DEF About, Everybody
    <3> QED
      BY <3>1 DEF PlanIsWhole
  <2>2. CASE j[1] = "acl"
    <3>1. j[2] \in PlanACLs /\ p \in Actors[j[2]]
      BY <1>1, <1>2, <2>2 DEF About, Everybody
    <3> QED
      BY <3>1 DEF PlanIsWhole
  <2> QED
    BY <1>1, <2>1, <2>2
<1>7. p[1] \in {"client", "group"}
  BY <1>4, <1>5, <1>6 DEF Of
<1>8. Stages[stage] \in {"membership", "acls"} /\ p[1] \in Kinds
  BY <1>1, <1>7 DEF StageName, Kinds
<1>9. PICK i \in 1..(stage - 1) : Stages[i] = p[1]
  BY <1>8, Earlier
<1>10. Present(server, p) \/ Excused(p) \/ Unwritten(p)
  BY <1>5, <1>9, Comes
<1>11. Present(server, p)
  BY <1>5, <1>7, <1>10, OwnReason DEF Unwritten, DefaultEnv
<1>12. p \in Listing(p[1])
  BY <1>4, <1>5, <1>7, <1>11 DEF Listing
<1> QED
  BY <1>4, <1>7, <1>12

LEMMA HasFound ==
  ASSUME TInv, NEW p \in Principals, Has(p), faults' = 0, p[1] \in {"client", "group"},
         p \in Listing(p[1])
  PROVE  faults = 0 /\ p \in cache'[p[1]]
<1> USE DEF TInv
<1>1. faults \in Nat
  BY TransferAssumption DEF StageOK
<1>2. CASE Cached(p)
  BY <1>2 DEF Has, Cached
<1>3. CASE ~Cached(p)
  <2>1. ~(\E m \in {1, 2} : faults' = faults + m)
    BY <1>1
  <2>2. cache' = [cache EXCEPT ![p[1]] = Listing(p[1])] /\ faults' = faults
    BY <1>3, <2>1 DEF Has
  <2>3. p[1] \in DOMAIN cache
    BY DEF CacheOK
  <2> QED
    BY <2>2, <2>3
<1> QED
  BY <1>2, <1>3

LEMMA HasFaults ==
  ASSUME TInv, NEW p, Has(p), faults' = 0
  PROVE  faults = 0
<1>1. faults \in Nat
  BY TransferAssumption DEF TInv, StageOK
<1>2. faults' = faults \/ \E m \in {1, 2} : faults' = faults + m
  BY DEF Has
<1> QED
  BY <1>1, <1>2

LEMMA CheckClears ==
  ASSUME PlanIsWhole, TInv, RInv, CInv, NEW j \in DOMAIN jobs, Check(j), faults' = 0
  PROVE  Clears(j)
<1> USE DEF TInv, CInv
<1>1. jobs[j].at = "checking" /\ failed' = failed
  BY DEF Check
<1>2. PICK p \in jobs[j].left :
          \/ UNCHANGED <<faults, dropped>> /\ \E kept : Looks(j, jobs[j].left \ {p}, kept)
          \/ Has(p) /\ UNCHANGED dropped /\ \E kept : Looks(j, jobs[j].left \ {p}, kept)
          \/ /\ Has(p) /\ p \notin cache'[p[1]] /\ dropped' = dropped \union {<<j, p>>}
             /\ \E kept : Looks(j, jobs[j].left \ {p}, kept)
  BY DEF Check
<1>3. jobs'[j].at = "checking"
  BY <1>2, LooksAt
<1>4. faults = 0
  BY <1>2, HasFaults
<1>5. dropped' # dropped => MayDrop(p)
  BY <1>1, <1>2, <1>4, Found, HasFound
<1>6. \A d \in dropped' \ dropped : MayDrop(d[2])
  BY <1>2, <1>5
<1> QED
  BY <1>1, <1>3, <1>4, <1>6, LooksClears

\* A group or ACL that is written now is that of an object that is there.
LEMMA ObjectStands ==
  ASSUME PlanIsWhole, TInv, CInv, ReasonsOK, NEW j \in DOMAIN jobs, j[1] \in {"membership", "acl"},
         ~Excused(j[2])
  PROVE  Present(server, j[2])
<1> USE DEF TInv, CInv
<1> DEFINE o == j[2]
<1>1. About(j) /\ StageName(j) = Stages[stage]
  BY DEF JobsOK
<1>2. ~Reason(o)
  BY OwnReason
<1>3. ASSUME o \in Plan
      PROVE  Present(server, o) \/ Unwritten(o)
  <2>1. Stages[stage] \in {"membership", "acls"} /\ o[1] \in Kinds
    BY <1>1, <1>3, ObjectIs, TransferAssumption DEF StageName
  <2>2. PICK i \in 1..(stage - 1) : Stages[i] = o[1]
    BY <2>1, Earlier
  <2> QED
    BY <1>3, <2>2, Comes
<1>4. CASE j[1] = "membership"
  <2>1. o \in Plan /\ o[1] = "group"
    BY <1>1, <1>4 DEF About, Of
  <2> QED
    BY <1>3, <2>1 DEF Unwritten, DefaultEnv
<1>5. CASE j[1] = "acl" /\ o = OrgACL
  BY <1>5 DEF Present
<1>6. CASE j[1] = "acl" /\ o # OrgACL
  <2>1. o \in PlanACLs /\ o \in Objects \ Users
    BY <1>1, <1>6, TransferAssumption DEF About, PlanIsWhole
  <2>2. o \in Plan
    BY <1>2, <2>1, NoReason
  <2>3. o = DefaultEnv => Present(server, o)
    BY <2>1, <2>2 DEF DefaultOK
  <2>4. ~(o[1] = "policygroup" /\ Assigned[o] = {})
    BY <2>1, <2>2 DEF PlanIsWhole, Of
  <2> QED
    BY <1>3, <2>2, <2>3, <2>4 DEF Unwritten
<1> QED
  BY <1>4, <1>5, <1>6

LEMMA CheckedClears ==
  ASSUME PlanIsWhole, TInv, CInv, NEW j \in DOMAIN jobs, Checked(j), faults' = 0
  PROVE  Clears(j)
<1> USE DEF TInv, CInv
<1> DEFINE o == j[2]
           kept == jobs[j].kept
           todo == IF j[1] = "acl" THEN ACLRequests(o, kept) ELSE <<With("members", o, kept)>>
<1>1. /\ faults = 0 /\ failed' = failed /\ dropped' = dropped /\ server' = server /\ ReasonsOK
      /\ jobs[j].at = "checking"
  BY DEF Checked, report
<1>2. j[1] \in {"membership", "acl"} /\ kept \in SUBSET Principals
  BY <1>1 DEF JobsOK, JobIs, JobStates
<1>3. Becomes(j, "sending", todo)
  BY DEF Checked
<1>4. Present(server, o) => Feasible(server, todo)
  <2>1. CASE j[1] = "acl"
    BY <1>2, <2>1, ACLsLater
  <2>2. CASE j[1] = "membership"
    <3> DEFINE r == With("members", o, kept)
    <3>1. todo = <<r>> /\ r.op = "members" /\ r.obj = o
      BY <2>2 DEF With
    <3> HIDE DEF r, todo
    <3>2. DOMAIN <<r>> = {1} /\ <<r>>[1] = r
      BY OneRequest
    <3> QED
      BY <3>1, <3>2 DEF Feasible, Fit
  <2> QED
    BY <1>2, <2>1, <2>2
<1> HIDE DEF todo
<1>5. jobs'[j].at = "sending" /\ jobs'[j].todo = todo
  BY <1>3, BecomesAt
<1>6. Excused(o) \/ Present(server, o)
  BY <1>1, <1>2, ObjectStands
<1> QED
  BY <1>1, <1>4, <1>5, <1>6 DEF Clears

LEMMA TroubleFaults ==
  ASSUME TInv, NEW j \in DOMAIN jobs, Lost(j) \/ Refused(j)
  PROVE  faults' # 0 /\ UNCHANGED <<opts, source, appeared>> /\ Quietly(j)
<1>1. faults \in Nat /\ faults' = faults + 1
  BY TransferAssumption DEF TInv, StageOK, Lost, Refused
<1>2. faults' # 0
  BY <1>1
<1>3. UNCHANGED <<opts, source, appeared>>
  BY DEF Lost, Refused
<1>4. Quietly(j)
  BY QuietlyIs DEF Refused, Quietly
<1> QED
  BY <1>2, <1>3, <1>4

LEMMA JobsClear ==
  ASSUME PlanIsWhole, TInv, RInv, RInv', CInv, NEW j \in DOMAIN jobs,
         Work(j) \/ Lost(j) \/ Refused(j)
  PROVE  CInv'
<1>1. Does(j)
  BY WorkIs
<1>2. CASE Lost(j) \/ Refused(j)
  BY <1>1, <1>2, TroubleFaults, ClearsIs
<1>3. CASE Work(j)
  <2>1. UNCHANGED <<opts, source, appeared>>
    BY <1>3 DEF Work, Start, Answered, Check, Checked
  <2>2. Quietly(j)
    BY <1>3, QuietlyIs DEF Work, Start, Check, Checked, Quietly
  <2>3. AssignedOK'
    BY <1>1, <2>1, <2>2, StableParts
  <2>4. Answered(j) => jobs[j].at \in {"asking", "sending"}
    BY DEF Answered
  <2>5. faults' = 0 => Clears(j)
    BY <1>3, <2>3, <2>4, StartClears, AskedClears, SentClears, CheckClears, CheckedClears DEF Work
  <2> QED
    BY <1>1, <2>1, <2>2, <2>5, ClearsIs
<1> QED
  BY <1>2, <1>3

-----------------------------------------------------------------------------
(* The other steps.                                                        *)

\* The parts that a step leaves alone that changes neither the destination
\* nor what failed or was dropped.
LEMMA SameReasons ==
  ASSUME FailedOK, LackingOK, UNCHANGED <<opts, source, failed, dropped>>, appeared \subseteq appeared'
  PROVE  FailedOK' /\ LackingOK'
  BY ReasonStays DEF FailedOK, LackingOK

LEMMA SameArrived ==
  ASSUME UNCHANGED <<opts, source, server, appeared>>
  PROVE  /\ \A o : Arrived(o)' <=> Arrived(o)
         /\ Expected' = Expected
<1>1. \A o : Excused(o)' <=> Excused(o)
  BY DEF Excused, Reason
<1> QED
  BY <1>1 DEF Arrived, Present, Unwritten, Expected

LEMMA NewStageClears ==
  ASSUME TInv, CInv, NEW name, name = Stages[stage'], jobs' = Begun(name),
         UNCHANGED <<opts, source, server, report, appeared>>,
         faults' = 0 => faults = 0 /\ stage' = stage + 1 /\ \A j \in DOMAIN jobs : jobs[j].at = "ended"
  PROVE  CInv'
<1> USE DEF TInv, CInv
<1>1. DOMAIN jobs' = JobsOf(name) /\ \A j \in DOMAIN jobs' : jobs'[j].at = "waiting"
  BY BegunIs, OverIs
<1>2. SourceOK' /\ AssignedOK' /\ DefaultOK'
  BY DEF SourceOK, AssignedOK, DefaultOK, Present
<1>3. CrewOK'
  BY <1>1, JobsOfSame DEF CrewOK
<1> SUFFICES ASSUME faults' = 0
             PROVE  ReasonsOK'
  BY <1>2, <1>3
<1>4. ReasonsOK /\ stage' = stage + 1 /\ failed' = failed /\ dropped' = dropped
  BY DEF report
<1>5. ArrivedOK'
  <2> SUFFICES ASSUME NEW o \in Expected, DealtWith(o)'
               PROVE  Arrived(o)
    BY SameArrived DEF ArrivedOK
  <2>1. PICK i \in 1..stage : Stages[i] = Home(o)
    <3>1. stage' - 1 = stage
      BY <1>4 DEF StageOK
    <3> QED
      BY <1>1, <3>1 DEF DealtWith, Home
  <2>2. CASE i # stage
    <3>1. i \in 1..(stage - 1)
      BY <2>2 DEF StageOK
    <3> QED
      BY <1>4, <2>1, <3>1 DEF ReasonsOK, ArrivedOK, DealtWith
  <2>3. CASE i = stage
    <3>1. Maker(o) \in JobsOf(Stages[stage]) /\ Stages[stage] # "purge"
      BY <2>1, <2>3, MakerIs DEF Kinds
    <3>2. Maker(o) \in DOMAIN jobs
      BY <3>1 DEF CrewOK
    <3> QED
      BY <1>4, <3>2 DEF ReasonsOK, ArrivedOK, DealtWith
  <2> QED
    BY <2>2, <2>3
<1>6. FeasibleOK'
  BY <1>1 DEF FeasibleOK
<1>7. FailedOK' /\ LackingOK'
  BY <1>4, SameReasons DEF ReasonsOK
<1> QED
  BY <1>5, <1>6, <1>7 DEF ReasonsOK

LEMMA ForbiddenClears ==
  ASSUME TInv, CInv, Forbidden
  PROVE  CInv'
<1> USE DEF TInv, CInv
<1>1. UNCHANGED <<opts, source, stage, server, failed, dropped, faults, appeared>>
  BY DEF Forbidden, report
<1>2. DOMAIN jobs' = DOMAIN jobs /\ \A j \in DOMAIN jobs' : jobs'[j].at = "ended"
  BY OverIs DEF Forbidden
<1>3. SourceOK' /\ AssignedOK' /\ DefaultOK'
  BY <1>1 DEF SourceOK, AssignedOK, DefaultOK, Present
<1>4. CrewOK'
  BY <1>1, <1>2, JobsOfSame DEF CrewOK
<1> SUFFICES ASSUME faults' = 0
             PROVE  ReasonsOK'
  BY <1>3, <1>4
<1>5. ReasonsOK
  BY <1>1
<1>6. ArrivedOK'
  <2> SUFFICES ASSUME NEW o \in Expected, DealtWith(o)'
               PROVE  Arrived(o)
    BY <1>1, SameArrived DEF ArrivedOK
  <2>1. Maker(o) \notin DOMAIN jobs
    <3>1. o \in Plan
      BY DEF Expected, Forbidden
    <3>2. Maker(o) \in JobsOf(o[1]) /\ o[1] \in Kinds
      BY <3>1, MakerIs
    <3>3. StageName(Maker(o)) = o[1]
      BY <3>2, JobsAre
    <3>4. Stages[stage] \in {"users", "members"}
      BY DEF Forbidden
    <3> QED
      BY <3>2, <3>3, <3>4 DEF JobsOK, Kinds
  <2>2. DealtWith(o)
    BY <1>1, <1>2, <2>1 DEF DealtWith, Maker, Home
  <2> QED
    BY <1>5, <2>2 DEF ReasonsOK, ArrivedOK
<1>7. FeasibleOK'
  BY <1>2 DEF FeasibleOK
<1>8. FailedOK' /\ LackingOK'
  BY <1>1, <1>5, SameReasons DEF ReasonsOK
<1> QED
  BY <1>6, <1>7, <1>8 DEF ReasonsOK

LEMMA AppearsClears ==
  ASSUME TInv, CInv, NEW o \in MayAppear, Appears(o)
  PROVE  CInv'
<1> USE DEF TInv, CInv
<1> DEFINE b == [server.body EXCEPT ![o] = "theirs"]
           k == [a \in DOMAIN server.keys |-> IF a = o THEN DefaultKey("theirs") ELSE server.keys[a]]
<1>1. UNCHANGED <<opts, source, stage, jobs, failed, dropped, faults>>
      /\ appeared' = appeared \union {o}
  BY DEF Appears, report
<1>2. o \in Objects
  BY TransferAssumption
<1>3. server.body \in [Objects -> Whose] /\ server.keys \in [Keyed -> [KeyNames -> Whose]]
  BY ServerIs DEF ServerOK
<1>4. \A q \in Objects : b[q] = IF q = o THEN "theirs" ELSE server.body[q]
  BY <1>3
<1>5. \A a \in Keyed : k[a] = IF a = o THEN DefaultKey("theirs") ELSE server.keys[a]
  BY <1>3
<1>6. server' = [server EXCEPT !.body = b, !.keys = k]
  BY DEF Appears
<1> HIDE DEF b, k
<1>7. server'.body = b /\ server'.keys = k /\ server'.assigned = server.assigned
  BY <1>6 DEF ServerOK, Servers
<1>8. server' \in Servers
  BY AppearsIs DEF ServerOK
<1>9. \A q \in Objects : server.body[q] # "absent" => server'.body[q] # "absent"
  BY <1>4, <1>7
<1>10. \A q : q \in Objects \/ q = OrgACL => (Present(server, q) => Present(server', q))
  BY <1>8, <1>9, PresentIs DEF ServerOK, Present
<1>11. SourceOK' /\ AssignedOK' /\ DefaultOK'
  BY <1>1, <1>7, <1>9, <1>10, ObjectIs DEF SourceOK, AssignedOK, DefaultOK
<1>12. CrewOK'
  BY <1>1, JobsOfSame DEF CrewOK
<1>13. appeared \subseteq appeared' /\ Reason(o)'
  BY <1>1 DEF Reason
<1>14. /\ \A q : Excused(q) => Excused(q)'
       /\ \A j : Lenient(j) <=> Lenient(j)'
  BY <1>1, <1>13, ReasonStays
<1> SUFFICES ASSUME faults' = 0
             PROVE  ReasonsOK'
  BY <1>11, <1>12
<1>15. ReasonsOK
  BY <1>1
<1>16. ArrivedOK'
  <2> SUFFICES ASSUME NEW q \in Expected', DealtWith(q)'
               PROVE  Present(server', q) \/ Excused(q)' \/ Unwritten(q)
    BY DEF ArrivedOK, Arrived, Unwritten
  <2>1. q \in Expected /\ q \in Objects
    BY <1>1, ObjectIs DEF Expected
  <2>2. DealtWith(q)
    BY <1>1 DEF DealtWith, Maker, Home
  <2>3. Arrived(q)
    BY <1>15, <2>1, <2>2 DEF ReasonsOK, ArrivedOK
  <2> QED
    BY <1>10, <1>14, <2>1, <2>3 DEF Arrived
<1>17. FeasibleOK'
  <2> SUFFICES ASSUME NEW j \in DOMAIN jobs, jobs[j].at = "sending", ~Lenient(j)
               PROVE  Excused(j[2])' \/ Feasible(server', jobs[j].todo)
    BY <1>1, <1>14 DEF FeasibleOK
  <2>1. CASE Excused(j[2])
    BY <1>14, <2>1
  <2>2. CASE j[2] = o
    <3>1. Excused(o)'
      BY <1>13 DEF Excused, Needed
    <3> QED
      BY <2>2, <3>1
  <2>3. CASE ~Excused(j[2]) /\ j[2] # o
    <3>1. Feasible(server, jobs[j].todo)
      BY <1>15, <2>3 DEF ReasonsOK, FeasibleOK
    <3>2. About(j) /\ jobs[j].todo \in Seq(Requests(j)) /\ j[1] # "purge"
      BY HeadIs DEF JobsOK, Lenient, MayFail
    <3>3. j[2] \in Objects => server'.body[j[2]] = server.body[j[2]]
      BY <1>4, <1>7, <2>3
    <3>4. j[2] \in Keyed => server'.keys[j[2]] = server.keys[j[2]]
      BY <1>5, <1>7, <2>3
    <3> QED
      BY <1>8, <1>9, <3>1, <3>2, <3>3, <3>4, FeasibleKept DEF ServerOK
  <2> QED
    BY <2>1, <2>2, <2>3
<1>18. FailedOK' /\ LackingOK'
  BY <1>1, <1>13, <1>15, SameReasons DEF ReasonsOK
<1> QED
  BY <1>16, <1>17, <1>18 DEF ReasonsOK

LEMMA InitClears ==
  ASSUME PlanIsWhole, Init
  PROVE  CInv
<1>1. /\ stage = 1 /\ jobs = Begun(Stages[1]) /\ failed = {} /\ dropped = {}
      /\ source \in {Plan \ gone : gone \in SUBSET MayVanish}
  BY DEF Init
<1>2. PICK there \in Existing :
          /\ server.body = [o \in Objects |-> IF o \in there \union {Self} THEN "theirs" ELSE "absent"]
          /\ server.assigned = [g \in DOMAIN Assigned |-> IF g \in there THEN Held[g] ELSE {}]
  BY DEF Init
<1>3. DOMAIN jobs = JobsOf(Stages[1]) /\ \A j \in DOMAIN jobs : jobs[j].at = "waiting"
  BY <1>1, OverIs DEF Begun
<1>4. SourceOK
  BY <1>1 DEF SourceOK
<1>5. CrewOK
  BY <1>1, <1>3 DEF CrewOK
<1>6. AssignedOK
  BY <1>2, TransferAssumption DEF AssignedOK
<1>7. DefaultOK
  <2> SUFFICES ASSUME DefaultEnv \in Plan \intersect PlanACLs
               PROVE  Present(server, DefaultEnv)
    BY DEF DefaultOK
  <2>1. DefaultEnv \in there
    BY DEF PlanIsWhole
  <2>2. server.body[DefaultEnv] = "theirs"
    BY <1>2, <2>1, ObjectIs
  <2> QED
    BY <2>2 DEF Present
<1>8. ArrivedOK
  BY <1>1, <1>3 DEF ArrivedOK, DealtWith
<1>9. FeasibleOK /\ FailedOK /\ LackingOK
  BY <1>1, <1>3 DEF FeasibleOK, FailedOK, LackingOK
<1> QED
  BY <1>4, <1>5, <1>6, <1>7, <1>8, <1>9 DEF CInv, ReasonsOK

LEMMA ClearNext ==
  ASSUME PlanIsWhole, TInv, RInv, CInv, [Next]_vars
  PROVE  CInv'
<1>1. RInv'
  BY ReportNext
<1>2. ASSUME NEW j \in DOMAIN jobs, Work(j) \/ Lost(j) \/ Refused(j)
      PROVE  CInv'
  BY <1>1, <1>2, JobsClear
<1>3. CASE Advance
  BY <1>3, NewStageClears DEF Advance
<1>4. CASE PurgeFails
  <2>1. Stages[stage'] = "done" /\ jobs' = Begun("done")
    BY <1>4, StagesAre DEF PurgeFails
  <2>2. faults' # 0
    BY <1>4, TransferAssumption DEF PurgeFails, TInv, StageOK
  <2> QED
    BY <1>4, <2>1, <2>2, NewStageClears DEF PurgeFails
<1>5. CASE Forbidden
  BY <1>5, ForbiddenClears
<1>6. CASE \E o \in MayAppear : Appears(o)
  BY <1>6, AppearsClears
<1>7. CASE UNCHANGED vars
  <2>1. UNCHANGED <<opts, source, stage, jobs, server, failed, dropped, faults, appeared>>
    BY <1>7 DEF vars, report
  <2>2. SourceOK' /\ AssignedOK' /\ DefaultOK'
    BY <2>1 DEF CInv, SourceOK, AssignedOK, DefaultOK, Present
  <2>3. CrewOK'
    BY <2>1, JobsOfSame DEF CInv, CrewOK
  <2>4. ASSUME ReasonsOK
        PROVE  ReasonsOK'
    <3>1. FailedOK' /\ LackingOK'
      BY <2>1, <2>4, SameReasons DEF ReasonsOK
    <3>2. ArrivedOK'
      BY <2>1, <2>4, SameArrived DEF ReasonsOK, ArrivedOK, DealtWith, Maker, Home
    <3>3. \A o : Excused(o) => Excused(o)'
      BY <2>1, ReasonStays
    <3>4. FeasibleOK'
      BY <2>1, <2>4, <3>3, ReasonStays DEF ReasonsOK, FeasibleOK
    <3> QED
      BY <3>1, <3>2, <3>4 DEF ReasonsOK
  <2> QED
    BY <2>1, <2>2, <2>3, <2>4 DEF CInv
<1> QED
  BY <1>2, <1>3, <1>4, <1>5, <1>6, <1>7 DEF Next, Working, Trouble

-----------------------------------------------------------------------------
(* The members that a restoration brings along.                            *)

Enlisted == IF opts.restore /\ opts.superuser THEN OrgMembers ELSE {}
Belongs(u) == u \in server.users \/ Excused(u)

\* The stage of the members brings them, as far as its jobs have ended; the
\* users are listed only later, and so nobody of them is missed.
JoinedOK == stage > 2 => \A u \in Enlisted : Belongs(u)
JoiningOK ==
    \A j \in DOMAIN jobs : j[1] = "member" /\ jobs[j].at = "ended" /\ j[2] \in Enlisted => Belongs(j[2])
ListedOK == cache["user"] # None => stage > 2 /\ \A u \in Enlisted : u \in cache["user"] \/ Excused(u)
MissedOK == \A d \in dropped : d[2] \in Enlisted => Excused(d[2])
EInv == faults = 0 => JoinedOK /\ JoiningOK /\ ListedOK /\ MissedOK

LEMMA EnlistedStay ==
  ASSUME opts' = opts, source' = source, appeared \subseteq appeared', server.users \subseteq server'.users
  PROVE  Enlisted' = Enlisted /\ \A u : (Belongs(u) => Belongs(u)') /\ (Excused(u) => Excused(u)')
<1>1. \A u : Excused(u) => Excused(u)'
  BY ReasonStays
<1> QED
  BY <1>1 DEF Enlisted, Belongs

\* The job of a member ends with the member in the organisation, or for a
\* reason.
LEMMA MemberEnds ==
  ASSUME TInv, CInv', RInv', faults' = 0, NEW j \in DOMAIN jobs, Answered(j), j[1] = "member",
         j[2] \in Enlisted, opts' = opts, server.users \subseteq server'.users,
         jobs'[j].at = "ended"
  PROVE  Belongs(j[2])'
<1> USE DEF TInv
<1> DEFINE r == Head(jobs[j].todo)
           a == Serve(server, r)
<1>1. jobs[j].at = "sending" /\ About(j)
  BY DEF Answered, JobsOK, JobIs
<1>2. r \in Requests(j)
  BY <1>1, HeadIs
<1>3. r.op = "associate" /\ r.obj = j[2]
  <2>1. r \in Plain({"associate"}, j[2])
    BY <1>2 DEF Requests
  <2> HIDE DEF r
  <2> QED
    BY <2>1, PlainIs
<1>4. GoOn(j, Tail(jobs[j].todo)) \/ a.status = 409 \/ Fails(j)
  <2>1. ~Tolerated(j, r, a.status)
    BY <1>1, <1>3 DEF Tolerated, About, Job
  <2>2. CASE a.status = 200
    BY <1>1, <2>2 DEF Answered
  <2>3. CASE a.status \notin {200, 409}
    <3>1. Fails(j)
      BY <1>1, <1>3, <2>1, <2>3 DEF Answered
    <3> QED
      BY <3>1
  <2> QED
    BY <2>2, <2>3
<1>5. ASSUME GoOn(j, Tail(jobs[j].todo))
      PROVE  Belongs(j[2])'
  <2>1. j \in written'
    BY <1>1, <1>5, BecomesAt DEF GoOn
  <2>2. Done(j, server', dropped')
    BY <2>1 DEF RInv, ReportTold
  <2> QED
    BY <1>1, <2>2 DEF Done, Belongs
<1>6. ASSUME a.status = 409
      PROVE  Belongs(j[2])'
  <2>1. a = ServePrincipals(server, r)
    BY <1>3 DEF Serve
  <2>2. r.obj \in server.users
    <3> HIDE DEF r
    <3> SUFFICES ASSUME r.obj \notin server.users
                 PROVE  FALSE
      OBVIOUS
    <3>1. CASE ~Present(server, r.obj)
      <4>1. a = Answer(404, server)
        BY <2>1, <3>1 DEF ServePrincipals
      <4> QED
        BY <1>6, <4>1, AnswerIs
    <3>2. CASE Present(server, r.obj)
      <4>1. a = Answer(200, [server EXCEPT !.users = @ \union {r.obj}])
        BY <1>3, <2>1, <3>2 DEF ServePrincipals
      <4> HIDE DEF a
      <4> QED
        BY <1>6, <4>1, AnswerIs
    <3> QED
      BY <3>1, <3>2
  <2> QED
    BY <1>3, <2>2 DEF Belongs
<1>7. ASSUME Fails(j)
      PROVE  Belongs(j[2])'
  <2>1. j \in failed'
    BY <1>7 DEF Fails
  <2>2. opts.superuser
    BY DEF Enlisted
  <2>3. FailedOK'
    BY DEF CInv, ReasonsOK
  <2>4. MayFail(j)' \/ Excused(j[2])'
    BY <2>1, <2>3 DEF FailedOK
  <2> QED
    BY <2>2, <2>4 DEF MayFail, Belongs
<1> QED
  BY <1>4, <1>5, <1>6, <1>7

\* Nobody of them is missing in a listing of the users.
LEMMA EnlistedFound ==
  ASSUME TInv, EInv, NEW j \in DOMAIN jobs, Check(j), faults' = 0
  PROVE  ListedOK' /\ MissedOK'
<1> USE DEF TInv
<1>1. UNCHANGED <<opts, source, stage, server, appeared>> /\ jobs[j].at = "checking"
  BY DEF Check
<1>2. Enlisted' = Enlisted /\ \A u : (Belongs(u) => Belongs(u)') /\ (Excused(u) => Excused(u)')
  BY <1>1, EnlistedStay
<1>3. PICK p \in jobs[j].left :
          \/ UNCHANGED <<cache, faults, dropped>>
          \/ Has(p) /\ dropped' = dropped
          \/ Has(p) /\ p \notin cache'[p[1]] /\ dropped' = dropped \union {<<j, p>>}
  BY DEF Check
<1>4. faults = 0 /\ JoinedOK /\ ListedOK /\ MissedOK
  BY <1>3, HasFaults DEF EInv
<1>5. stage > 2
  <2>1. StageName(j) = Stages[stage] /\ j[1] \in {"membership", "acl"} /\ About(j)
    BY <1>1 DEF JobsOK, JobIs
  <2>2. Stages[stage] \in {"membership", "acls"}
    BY <2>1 DEF StageName
  <2> QED
    BY <2>2 DEF Stages, StageOK
<1>6. CASE UNCHANGED <<cache, faults, dropped>>
  BY <1>1, <1>2, <1>4, <1>6 DEF ListedOK, MissedOK
<1>7. CASE Has(p)
  <2>1. p \in Principals /\ p[1] \in {"user", "client", "group"}
    <3>1. jobs[j].left \in SUBSET Principals
      BY DEF JobsOK, JobIs, JobStates
    <3> QED
      BY <3>1 DEF Principals
  <2>2. \/ cache' = cache /\ Cached(p)
        \/ cache' = [cache EXCEPT ![p[1]] = Listing(p[1])] /\ faults' = faults
    <3>1. faults \in Nat
      BY TransferAssumption DEF StageOK
    <3>2. ~(\E m \in {1, 2} : faults' = faults + m)
      BY <3>1
    <3>3. CASE Cached(p)
      BY <1>7, <3>3 DEF Has
    <3>4. CASE ~Cached(p)
      BY <1>7, <3>2, <3>4 DEF Has
    <3> QED
      BY <3>3, <3>4
  <2>3. DOMAIN cache = {"user", "client", "group"}
    BY DEF CacheOK
  <2>4. \A u \in Enlisted : u \in Listing("user") \/ Excused(u)
    BY <1>4, <1>5 DEF JoinedOK, Belongs, Listing
  <2>5. ListedOK'
    <3>1. CASE cache' = cache
      BY <1>1, <1>2, <1>4, <3>1 DEF ListedOK
    <3>2. CASE cache' = [cache EXCEPT ![p[1]] = Listing(p[1])] /\ p[1] = "user"
      <4>1. cache'["user"] = Listing("user")
        BY <2>3, <3>2
      <4> QED
        BY <1>1, <1>2, <1>5, <2>4, <4>1 DEF ListedOK
    <3>3. CASE cache' = [cache EXCEPT ![p[1]] = Listing(p[1])] /\ p[1] # "user"
      <4>1. cache'["user"] = cache["user"]
        BY <2>3, <3>3
      <4> QED
        BY <1>1, <1>2, <1>4, <4>1 DEF ListedOK
    <3> QED
      BY <2>2, <3>1, <3>2, <3>3
  <2>6. ASSUME p \in Enlisted, p \notin cache'[p[1]]
        PROVE  Excused(p)'
    <3>1. p[1] = "user"
      BY <2>6, TransferAssumption DEF Enlisted
    <3>2. CASE cache'["user"] # None
      BY <1>2, <2>5, <2>6, <3>1, <3>2 DEF ListedOK
    <3>3. CASE cache'["user"] = None
      <4>1. ~(cache' = cache /\ Cached(p))
        BY <3>1, <3>3 DEF Cached
      <4>2. cache'["user"] = Listing("user")
        BY <2>2, <2>3, <3>1, <4>1
      <4> QED
        BY <1>2, <2>4, <2>6, <3>1, <4>2
    <3> QED
      BY <3>2, <3>3
  <2>7. MissedOK'
    BY <1>2, <1>3, <1>4, <2>6 DEF MissedOK
  <2> QED
    BY <2>5, <2>7
<1> QED
  BY <1>3, <1>6, <1>7

LEMMA EnlistNext ==
  ASSUME TInv, RInv, RInv', CInv, CInv', EInv, [Next]_vars
  PROVE  EInv'
<1> USE DEF TInv
<1>1. ASSUME UNCHANGED <<opts, source, cache, dropped>>, appeared \subseteq appeared',
             server.users \subseteq server'.users, faults' = 0 => faults = 0,
             stage' = stage \/ stage' = stage + 1
      PROVE  faults' = 0 => /\ ListedOK' /\ MissedOK' /\ JoinedOK /\ JoiningOK /\ faults = 0
                            /\ stage' = stage => JoinedOK'
                            /\ Enlisted' = Enlisted
                            /\ \A u : (Belongs(u) => Belongs(u)') /\ (Excused(u) => Excused(u)')
  <2> SUFFICES ASSUME faults' = 0
               PROVE  /\ ListedOK' /\ MissedOK' /\ JoinedOK /\ JoiningOK /\ faults = 0
                      /\ stage' = stage => JoinedOK'
                      /\ Enlisted' = Enlisted
                      /\ \A u : (Belongs(u) => Belongs(u)') /\ (Excused(u) => Excused(u)')
    OBVIOUS
  <2>1. Enlisted' = Enlisted /\ \A u : (Belongs(u) => Belongs(u)') /\ (Excused(u) => Excused(u)')
    BY <1>1, EnlistedStay
  <2>2. faults = 0 /\ JoinedOK /\ JoiningOK /\ ListedOK /\ MissedOK
    BY <1>1 DEF EInv
  <2>3. ListedOK' /\ MissedOK' /\ (stage' = stage => JoinedOK')
    BY <1>1, <2>1, <2>2 DEF ListedOK, MissedOK, JoinedOK, StageOK
  <2> QED
    BY <2>1, <2>2, <2>3
<1>2. ASSUME NEW j \in DOMAIN jobs, Work(j) \/ Lost(j) \/ Refused(j)
      PROVE  EInv'
  <2>1. CASE Lost(j) \/ Refused(j)
    BY <2>1, TroubleFaults DEF EInv
  <2>2. CASE Work(j)
    <3> SUFFICES ASSUME faults' = 0
                 PROVE  JoinedOK' /\ JoiningOK' /\ ListedOK' /\ MissedOK'
      BY DEF EInv
    <3>1. UNCHANGED <<opts, source, stage, appeared>>
      BY <2>2 DEF Work, Start, Answered, Check, Checked
    <3>2. server.users \subseteq server'.users
      BY <2>2, MovedIs DEF Work, Start, Check, Checked, Moved, Keeps
    <3>3. PICK n : Step(j, n)
      BY <1>2, WorkIs DEF Does
    <3>4. DOMAIN jobs' = DOMAIN jobs /\ \A k \in DOMAIN jobs : k # j => jobs'[k] = jobs[k]
      BY <3>3, JobsStep
    <3>5. Enlisted' = Enlisted /\ \A u : (Belongs(u) => Belongs(u)') /\ (Excused(u) => Excused(u)')
      BY <3>1, <3>2, EnlistedStay
    <3>6. faults = 0
      BY <2>2, HasFaults DEF Work, Start, Answered, Check, Checked
    <3>7. JoinedOK /\ JoiningOK /\ ListedOK /\ MissedOK
      BY <3>6 DEF EInv
    <3>8. JoinedOK'
      BY <3>1, <3>5, <3>7 DEF JoinedOK
    <3>9. JoiningOK'
      <4> SUFFICES ASSUME j[1] = "member", jobs'[j].at = "ended", j[2] \in Enlisted
                   PROVE  Belongs(j[2])'
        BY <3>4, <3>5, <3>7 DEF JoiningOK
      <4>1. ~Check(j) /\ ~Checked(j)
        BY DEF Check, Checked, JobsOK, JobIs
      <4>2. ASSUME Start(j)
            PROVE  FALSE
        <5>1. j[2] \notin Plan /\ GoOn(j, <<Req("associate", j[2])>>)
          <6>1. j[2] \notin Plan
            BY TransferAssumption DEF JobsOK, About
          <6> QED
            BY <4>2, <6>1 DEF Start
        <5> QED
          BY <5>1, BecomesAt DEF GoOn
      <4> QED
        BY <2>2, <3>1, <3>2, <4>1, <4>2, MemberEnds DEF Work
    <3>10. ListedOK' /\ MissedOK'
      <4>1. CASE Check(j)
        BY <4>1, EnlistedFound
      <4>2. CASE ~Check(j)
        <5>1. UNCHANGED <<cache, dropped>>
          BY <2>2, <4>2 DEF Work, Start, Answered, Checked, report
        <5> QED
          BY <1>1, <3>1, <3>2, <3>6, <5>1
      <4> QED
        BY <4>1, <4>2
    <3> QED
      BY <3>8, <3>9, <3>10
  <2> QED
    BY <1>2, <2>1, <2>2
<1>3. CASE Advance
  <2>1. UNCHANGED <<opts, source, cache, dropped, server, faults, appeared>>
    BY <1>3 DEF Advance, report
  <2>2. stage' = stage + 1 /\ jobs' = Begun(Stages[stage']) /\ \A j \in DOMAIN jobs : jobs[j].at = "ended"
    BY <1>3 DEF Advance
  <2> SUFFICES ASSUME faults' = 0
               PROVE  JoinedOK' /\ JoiningOK' /\ ListedOK' /\ MissedOK'
    BY DEF EInv
  <2>3. /\ ListedOK' /\ MissedOK' /\ JoinedOK /\ JoiningOK /\ Enlisted' = Enlisted
        /\ \A u : Belongs(u) => Belongs(u)'
    BY <1>1, <2>1, <2>2
  <2>4. JoiningOK'
    BY <2>2, BegunIs, OverIs DEF JoiningOK
  <2>5. JoinedOK'
    <3>1. CASE stage > 2
      BY <2>3, <3>1 DEF JoinedOK
    <3>2. CASE stage = 2
      <4> SUFFICES ASSUME NEW u \in Enlisted
                   PROVE  Belongs(u)
        BY <2>3 DEF JoinedOK
      <4>1. Stages[stage] = "members"
        BY <3>2 DEF Stages
      <4>2. Job("member", u) \in JobsOf("members")
        BY DEF Enlisted, JobsOf
      <4>3. Job("member", u) \in DOMAIN jobs
        BY <4>1, <4>2 DEF CInv, CrewOK
      <4>4. Job("member", u)[1] = "member" /\ Job("member", u)[2] = u
        BY DEF Job
      <4> QED
        BY <2>2, <2>3, <4>3, <4>4 DEF JoiningOK
    <3>3. CASE stage < 2
      BY <2>2, <3>3 DEF JoinedOK, StageOK
    <3> QED
      BY <3>1, <3>2, <3>3 DEF StageOK
  <2> QED
    BY <2>3, <2>4, <2>5
<1>4. CASE PurgeFails
  BY <1>4, TransferAssumption DEF PurgeFails, EInv, StageOK
<1>5. CASE Forbidden
  <2>1. UNCHANGED <<opts, source, stage, cache, dropped, server, faults, appeared>> /\ ~opts.superuser
    BY <1>5 DEF Forbidden, report
  <2>2. JoiningOK'
    BY <2>1 DEF JoiningOK, Enlisted
  <2> QED
    BY <1>1, <2>1, <2>2 DEF EInv
<1>6. ASSUME NEW o \in MayAppear, Appears(o)
      PROVE  EInv'
  <2>1. UNCHANGED <<opts, source, stage, jobs, cache, dropped, faults>> /\ appeared \subseteq appeared'
    BY <1>6 DEF Appears, report
  <2>2. server.users \subseteq server'.users
    BY <1>6, AppearsKeeps DEF Keeps
  <2> QED
    BY <1>1, <2>1, <2>2 DEF EInv, JoiningOK
<1>7. CASE UNCHANGED vars
  <2>1. UNCHANGED <<opts, source, stage, jobs, cache, dropped, server, faults, appeared>>
    BY <1>7 DEF vars, report
  <2> QED
    BY <1>1, <2>1 DEF EInv, JoiningOK
<1> QED
  BY <1>2, <1>3, <1>4, <1>5, <1>6, <1>7 DEF Next, Working, Trouble

\* As long as no request goes wrong, a plan without gaps is carried out but
\* for what the source has lost, what others made meanwhile and what is
\* frozen, and nobody is dropped whom the transfer itself brings along: the
\* order of the stages is right for every plan.
THEOREM CleanRunHolds == PlanIsWhole => (Spec => []CleanRun)
<1> SUFFICES ASSUME PlanIsWhole
             PROVE  Spec => []CleanRun
  OBVIOUS
<1>1. Init => RInv /\ CInv /\ EInv
  <2>1. ASSUME Init
        PROVE  EInv
    <3>1. stage = 1 /\ dropped = {} /\ cache["user"] = None
      BY <2>1 DEF Init
    <3>2. \A j \in DOMAIN jobs : jobs[j].at = "waiting"
      BY <2>1, OverIs DEF Init, Begun
    <3> QED
      BY <3>1, <3>2 DEF EInv, JoinedOK, JoiningOK, ListedOK, MissedOK
  <2> QED
    BY <2>1, InitTells, InitClears
<1>2. TInv /\ (RInv /\ CInv /\ EInv) /\ [Next]_vars => (RInv /\ CInv /\ EInv)'
  BY ReportNext, ClearNext, EnlistNext
<1>3. TInv /\ CInv /\ EInv => CleanRun
  <2> SUFFICES ASSUME TInv, CInv, EInv, faults = 0
               PROVE  CleanRun
    BY DEF CleanRun
  <2>1. ASSUME NEW d \in dropped
        PROVE  d[2] \notin Brought \/ d[2] \in USAGs \/ Reason(d[2])
    <3>1. MayDrop(d[2]) /\ (d[2] \in Enlisted => Excused(d[2]))
      BY DEF CInv, ReasonsOK, LackingOK, EInv, MissedOK
    <3>2. d[2] \in Enlisted => Reason(d[2])
      <4>1. d[2] \in Enlisted => d[2][1] = "user"
        BY TransferAssumption DEF Enlisted
      <4> QED
        BY <3>1, <4>1, OwnReason
    <3> QED
      BY <3>1, <3>2 DEF MayDrop, Brought, Enlisted
  <2> QED
    BY <2>1 DEF CInv, ReasonsOK, FailedOK, MayFail, Excused, CleanRun
<1> QED
  BY <1>1, <1>2, <1>3, Invariance, PTL DEF Spec
=============================================================================
