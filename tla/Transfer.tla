------------------------------ MODULE Transfer ------------------------------
(***************************************************************************)
(* The execution of a plan against a destination server: transfer.Execute, *)
(* and around it backup.Restore with its organisation, users, members and  *)
(* purge.  The work is done in stages; a stage is a set of jobs that run   *)
(* through the worker pool, and a job is a sequence of HTTP requests.  A   *)
(* request may fail, or lose its answer after it has been served, and is   *)
(* sent again by chef.Client.Do.  Others create objects meanwhile.  An     *)
(* object of the destination is absent, somebody else's, or what the       *)
(* source has.  The upload of a cookbook is that of Cookbooks, the pool    *)
(* that of WorkerPool without its cancellation.                            *)
(***************************************************************************)
EXTENDS Naturals, Sequences, FiniteSets, SequencesExt

CONSTANTS
    Plan,           \* the planned objects: <<kind, name, sub>>
    PlanACLs,       \* the objects with a planned ACL
    Users,          \* the users of a backup, and
    OrgMembers,     \* those that were members of its organisation
    Members,        \* group -> the users, clients and groups in it
    Assigned,       \* policy group -> its policy revisions
    SourceKeys,     \* client or user -> its keys, {} when only the default one
    Actors,         \* object -> the principals in its ACL
    USAGs, Frozen,  \* groups of single users; frozen cookbook versions
    Others,         \* objects that are not planned
    Existing,       \* what there may be on the destination at first, a set of sets
    Held,           \* who is in such a group, and what such a policy group assigns
    MayVanish,      \* bound: what the source may no longer have
    MayAppear,      \* bound: what others may create
    Options,        \* the options of a transfer, one set of them for a run
    Perms,          \* the permissions of an ACL, a sequence
    Self, None,     \* the client that does the transfer
    Workers, Retries,
    MaxFaults       \* bound: requests that go wrong

Kinds == {"container", "group", "client", "user", "environment", "cookbook", "artifact",
          "role", "databag", "item", "node", "policy", "policygroup"}
OrgACL == <<"organization", None, None>>
DefaultEnv == <<"environment", "_default", None>>
Principals == {o \in Others \union Plan \union Users : o[1] \in {"user", "client", "group"}}
Objects == Plan \union Others \union Users
ACLObjects == PlanACLs \union Users
Of(kind) == {o \in Plan : o[1] = kind}
KeyNames == {"default"} \union UNION {SourceKeys[a] : a \in DOMAIN SourceKeys}

ASSUME TransferAssumption ==
    /\ Workers \in Nat \ {0} /\ Retries \in Nat \ {0} /\ MaxFaults \in Nat
    /\ \A o \in Objects : o[1] \in Kinds
    /\ \A u \in Users : u[1] = "user" /\ u \notin Plan
    /\ OrgMembers \subseteq Users /\ PlanACLs \subseteq Objects \union {OrgACL}
    \* No user has a planned ACL: those of a backup go with the users.
    /\ PlanACLs \intersect Users = {}
    /\ Self[1] = "client"
    /\ \A g \in Of("group") : Members[g] \subseteq Principals
    /\ \A g \in Of("policygroup") :
          g \in DOMAIN Assigned /\ Assigned[g] \subseteq Objects /\ IsFiniteSet(Assigned[g])
    \* A policy group has one revision of a policy.
    /\ \A g \in Of("policygroup") : \A p, q \in Assigned[g] : p[2] = q[2] => p = q
    /\ \A g \in DOMAIN Assigned :
          g \in Objects /\ g[1] = "policygroup" /\ Held[g] \subseteq Objects
    /\ \A g \in Principals : g[1] = "group" => Held[g] \subseteq Principals
    /\ \A o \in ACLObjects : Actors[o] \subseteq Principals
    /\ DOMAIN SourceKeys \subseteq Objects /\ MayAppear \subseteq Objects
    /\ \A o \in Users \union Of("client") \union Of("user") :
          o \in DOMAIN SourceKeys /\ IsFiniteSet(SourceKeys[o])
    /\ Perms \in Seq(ToSet(Perms)) /\ Perms # <<>>
    \* Items are planned with their bag, and without it when no bag is.
    /\ \A i \in Of("item") : Of("databag") = {} \/ <<"databag", i[2], None>> \in Plan
    /\ \A there \in Existing : /\ there \subseteq Objects
                                /\ \A o \in there : o[1] = "item" =>
                                      \E b \in there : b = <<"databag", o[2], None>>

VARIABLES
    opts,       \* the options of this run
    source,     \* the planned objects that the source still has
    stage,      \* the stage, a number into Stages, or "aborted"
    jobs,       \* job of the stage -> how far it is
    server,     \* the destination
    cache,      \* kind of principal -> the names known to be there, or None
    written, skipped, failed, dropped,  \* the report
    faults,     \* how many requests went wrong
    appeared    \* history: what others created meanwhile

report == <<written, skipped, failed, dropped>>
vars == <<opts, source, stage, jobs, server, cache, report, faults, appeared>>

-----------------------------------------------------------------------------
(* The destination server.                                                 *)

Req(op, o) == [op |-> op, obj |-> o, arg |-> None]
With(op, o, x) == [op |-> op, obj |-> o, arg |-> x]

Present(s, o) == o = OrgACL \/ s.body[o] # "absent"

Created(s, o) == [s EXCEPT !.body[o] = "ours"]
NoKeys == [n \in KeyNames |-> "absent"]
DefaultKey(whose) == [NoKeys EXCEPT !["default"] = whose]
HasKeys(o) == o \in DOMAIN SourceKeys

\* A new client or user comes with its default key.
Posted(s, o) ==
    IF HasKeys(o) THEN [Created(s, o) EXCEPT !.keys[o] = DefaultKey("ours")] ELSE Created(s, o)

Removed(s, gone) ==
    [s EXCEPT !.body = [o \in Objects |-> IF o \in gone THEN "absent" ELSE @[o]],
              !.keys = [a \in DOMAIN @ |-> IF a \in gone THEN NoKeys ELSE @[a]],
              !.members = [g \in DOMAIN @ |-> IF g \in gone THEN {} ELSE @[g]],
              !.assigned = [g \in DOMAIN @ |-> IF g \in gone THEN {} ELSE @[g]]]

\* An item is in its bag, and goes with it.
InBag(o, bag) == o[1] = "item" /\ bag = <<"databag", o[2], None>>
HasBag(s, o) == o[1] = "item" => \E b \in Objects : InBag(o, b) /\ Present(s, b)

Answer(status, s) == [status |-> status, server |-> s]

\* The requests about an object, the keys of one, the principals in one.
ServeObject(s, op, o) ==
    CASE op = "get"    -> IF Present(s, o) THEN Answer(200, s) ELSE Answer(404, s)
      [] op = "post"   -> IF Present(s, o) THEN Answer(409, s)
                          ELSE IF HasBag(s, o) THEN Answer(200, Posted(s, o)) ELSE Answer(404, s)
      [] op = "put"    -> IF Present(s, o) THEN Answer(200, Created(s, o)) ELSE Answer(404, s)
      [] op = "upload" -> IF Present(s, o) /\ (o[1] = "artifact" \/ (o \in Frozen /\ ~opts.force))
                          THEN Answer(409, s) ELSE Answer(200, Created(s, o))
      [] op = "delete" -> IF Present(s, o)
                          THEN Answer(200, Removed(s, {o} \union {i \in Objects : InBag(i, o)}))
                          ELSE Answer(404, s)

KeyWritten(s, o, n) == [s EXCEPT !.keys[o][n] = "ours"]

ServeKey(s, op, o, n) ==
    LET there == s.keys[o][n] # "absent"
    IN  IF ~Present(s, o) \/ (op = "put_key" /\ ~there) THEN Answer(404, s)
        ELSE IF op = "post_key" /\ there THEN Answer(409, s)
        ELSE Answer(200, KeyWritten(s, o, n))

\* A policy group has one revision of a policy: an assignment replaces it.
ServeAssign(s, g, p) ==
    Answer(200, [s EXCEPT !.assigned[g] = {q \in @ : q[2] # p[2]} \union {p},
                          !.body[g] = IF @ = "absent" THEN "ours" ELSE @])

ServePrincipals(s, r) ==
    LET o == r.obj
    IN  IF ~Present(s, o) THEN Answer(404, s)
        ELSE CASE r.op = "members" -> Answer(200, [s EXCEPT !.members[o] = r.arg])
               [] r.op = "acl" -> Answer(200, [s EXCEPT !.acl[o] = [@ EXCEPT ![r.arg[1]] = r.arg[2]]])
               [] r.op = "associate" -> IF o \in s.users THEN Answer(409, s)
                                        ELSE Answer(200, [s EXCEPT !.users = @ \union {o}])

\* The answer to a request, and the server after it.
Serve(s, r) ==
    CASE r.op \in {"put_key", "post_key"} -> ServeKey(s, r.op, r.obj, r.arg)
      [] r.op = "assign" -> ServeAssign(s, r.obj, r.arg)
      [] r.op \in {"members", "acl", "associate"} -> ServePrincipals(s, r)
      [] OTHER -> ServeObject(s, r.op, r.obj)

-----------------------------------------------------------------------------
(* The stages of a transfer and the requests of their jobs.                *)

Job(type, o) == <<type, o>>

\* Bug: the membership pass comes before everything else.
StagesMembershipFirst ==
    << "users", "members", "membership", "container", "group", "client", "user", "environment",
       "cookbook", "artifact", "role", "databag", "item", "node", "policy", "policygroup",
       "acls", "purge", "done" >>

\* Kind after kind; a kind of which nothing is planned is over at once.
Stages ==
    << "users", "members", "container", "group", "client", "user", "environment", "cookbook",
       "artifact", "role", "databag", "item", "node", "policy", "policygroup",
       "membership", "acls", "purge", "done" >>

BuiltIn == {"admins", "billing-admins", "clients", "users", "public_key_read_access"}

\* Bug: the groups that a server makes itself are not protected.
ProtectedNoGroups(o) == o = DefaultEnv \/ o[1] = "container" \/ o = Self

Protected(o) ==
    \/ o = DefaultEnv \/ o[1] = "container" \/ o = Self
    \/ o[1] = "group" /\ (o[2] \in BuiltIn \/ o \in USAGs)

PurgeList ==
    {o \in Objects : /\ Present(server, o) /\ o \notin Plan /\ ~Protected(o)
                     /\ o[1] # "user" /\ Of(o[1]) # {}}

JobsOf(name) ==
    CASE name = "users"      -> {Job("user", u) : u \in IF opts.restore THEN Users ELSE {}}
      [] name = "members"    -> {Job("member", u) : u \in IF opts.restore THEN OrgMembers ELSE {}}
      [] name = "group"      -> {Job("shell", g) : g \in Of("group")}
      [] name = "membership" -> {Job("membership", g) : g \in Of("group")}
      [] name = "acls"       -> {Job("acl", o) : o \in PlanACLs}
      [] name = "purge"      -> {Job("purge", o) : o \in IF opts.purge THEN PurgeList ELSE {}}
      [] name = "done"       -> {}
      [] OTHER -> {Job("item", o) : o \in Of(name)}

State(at, todo, left, kept) ==
    [at |-> at, todo |-> todo, tries |-> 0, left |-> left, kept |-> kept]
Waiting == State("waiting", <<>>, {}, {})
Over == State("ended", <<>>, {}, {})
Begun(name) == [j \in JobsOf(name) |-> Waiting]

Files(o) == o[1] \in {"cookbook", "artifact"}

\* Bug: only the default key is written.
KeyRequestsDefault(o) == <<With("put_key", o, "default")>>

KeyRequests(o) ==
    LET names == SetToSeq(SourceKeys[o]) IN [i \in DOMAIN names |-> With("put_key", o, names[i])]

ACLRequests(o, who) == [i \in DOMAIN Perms |-> With("acl", o, <<Perms[i], who>>)]

\* What is sent for an object once it is known whether it exists: most are
\* replaced, some cannot be changed, a policy group is its assignments.
WriteSimple(o, exists) == <<Req(IF exists THEN "put" ELSE "post", o)>>
WriteOnce(o, exists) == IF exists THEN <<>> ELSE <<Req("post", o)>>

WriteActor(o, exists) ==
    IF exists THEN <<Req("put", o), With("put_key", o, "default")>> ELSE <<Req("post", o)>>

WritePolicyGroup(o) ==
    LET ps == SetToSeq(Assigned[o])
    IN  [i \in 1..(2 * Len(ps)) |->
            LET p == ps[(i + 1) \div 2]
            IN  IF i % 2 = 1 THEN Req("get", p) ELSE With("assign", o, p)]

Write(o, exists) ==
    CASE o = DefaultEnv -> <<>>
      [] o[1] \in {"container", "databag", "policy"} -> WriteOnce(o, exists)
      [] Files(o) -> <<Req("upload", o)>>
      [] o[1] \in {"client", "user"} -> WriteActor(o, exists) \o KeyRequests(o)
      [] o[1] = "policygroup" -> WritePolicyGroup(o)
      [] OTHER -> WriteSimple(o, exists)

\* The users of a backup get their ACLs too.
WriteUser(o, exists) == Write(o, exists) \o ACLRequests(o, Actors[o])
AfterBody(o) == KeyRequests(o) \o ACLRequests(o, Actors[o])

\* Bug: an object that somebody else has just made counts as written.
ToleratedAll(j, r, status) == status = 409

\* Answers that count as success though they are none.
Tolerated(j, r, status) ==
    status = 409 /\ (j[1] = "shell" \/ (r.op = "post" /\ r.obj[1] = "policy"))

-----------------------------------------------------------------------------
Init ==
    /\ opts \in Options
    /\ source \in {Plan \ gone : gone \in SUBSET MayVanish}
    /\ stage = 1
    /\ \E there \in Existing :
          server = [body |-> [o \in Objects |-> IF o \in there \union {Self} THEN "theirs" ELSE "absent"],
                    keys |-> [a \in DOMAIN SourceKeys |->
                                 IF a \in there \union {Self} THEN DefaultKey("theirs") ELSE NoKeys],
                    members |-> [g \in {p \in Principals : p[1] = "group"} |->
                                    IF g \in there THEN Held[g] ELSE {}],
                    assigned |-> [g \in DOMAIN Assigned |-> IF g \in there THEN Held[g] ELSE {}],
                    acl |-> [o \in ACLObjects |-> [p \in ToSet(Perms) |-> {}]],
                    users |-> {}]
    /\ jobs = Begun(Stages[1])
    /\ cache = [k \in {"user", "client", "group"} |-> None]
    /\ written = {} /\ skipped = {} /\ failed = {} /\ dropped = {}
    /\ faults = 0 /\ appeared = {}

\* Bug: the pool is a worker too large.
LimitOneMore == IF Stages[stage] \in {"users", "members"} THEN 1 ELSE Workers + 1

\* Users and members are restored one by one, the rest by the worker pool.
Limit == IF Stages[stage] \in {"users", "members"} THEN 1 ELSE Workers
Active == {j \in DOMAIN jobs : jobs[j].at \notin {"waiting", "ended"}}

Ended(j) == jobs' = [jobs EXCEPT ![j] = Over]
Becomes(j, at, todo) == jobs' = [jobs EXCEPT ![j] = State(at, todo, {}, {})]
Looks(j, left, kept) == jobs' = [jobs EXCEPT ![j] = State("checking", <<>>, left, kept)]

\* The next request of a job, if there is one.  A user is reported as
\* written as soon as its body and its default key are, before its other
\* keys and its ACL.
GoOn(j, todo) ==
    /\ IF todo = <<>> THEN Ended(j) ELSE Becomes(j, "sending", todo)
    /\ written' = IF \/ j[1] # "shell" /\ todo = <<>>
                     \/ j[1] = "user" /\ Len(todo) <= Len(AfterBody(j[2]))
                  THEN written \union {j} ELSE written

\* A key of a user that fails after that does not keep its ACL from being
\* written, and what was to be purged is reported as purged.
Fails(j) ==
    /\ failed' = failed \union {j}
    /\ written' = IF j[1] = "purge" THEN written \union {j} ELSE written
    /\ LET keyFailed == /\ j[1] = "user" /\ j \in written
                        /\ Head(jobs[j].todo).op \in {"put_key", "post_key"}
       IN  IF keyFailed
           THEN Becomes(j, "sending", ACLRequests(j[2], Actors[j[2]])) ELSE Ended(j)

Start(j) ==
    /\ jobs[j].at = "waiting" /\ Cardinality(Active) < Limit
    /\ LET o == j[2]
       IN  IF o \in Plan \ source /\ (j[1] \in {"membership", "acl"} \/ (j[1] = "item" /\ ~Files(o)))
           THEN Ended(j) /\ failed' = failed \union {j} /\ UNCHANGED written
           ELSE /\ CASE j[1] = "shell"  -> GoOn(j, <<Req("post", o)>>)
                     [] j[1] = "member" -> GoOn(j, <<Req("associate", o)>>)
                     [] j[1] = "purge"  -> GoOn(j, <<Req("delete", o)>>)
                     [] j[1] = "item" /\ o[1] = "policygroup" -> GoOn(j, Write(o, TRUE))
                     [] j[1] \in {"membership", "acl"} ->
                           Looks(j, IF j[1] = "acl" THEN Actors[o] ELSE Members[o], {})
                           /\ UNCHANGED written
                     [] OTHER -> Becomes(j, "asking", <<Req("get", o)>>) /\ UNCHANGED written
                /\ UNCHANGED failed
    /\ UNCHANGED <<opts, source, stage, server, cache, skipped, dropped, faults, appeared>>

\* The destination answers a request of a job.
Answered(j) ==
    /\ jobs[j].at \in {"asking", "sending"}
    /\ LET r == Head(jobs[j].todo)
           a == Serve(server, r)
       IN  /\ server' = a.server
           /\ IF jobs[j].at = "asking"
              THEN IF a.status = 200 /\ (~opts.overwrite \/ r.obj[1] = "artifact")
                   THEN Ended(j) /\ skipped' = skipped \union {j} /\ UNCHANGED <<written, failed>>
                   ELSE /\ UNCHANGED skipped
                        /\ IF Files(r.obj) /\ r.obj \notin source THEN Fails(j)
                           ELSE /\ GoOn(j, IF j[1] = "user" THEN WriteUser(r.obj, a.status = 200)
                                           ELSE Write(r.obj, a.status = 200))
                                /\ UNCHANGED failed
              ELSE /\ UNCHANGED skipped
                   /\ CASE a.status = 200 \/ Tolerated(j, r, a.status) ->
                              GoOn(j, Tail(jobs[j].todo)) /\ UNCHANGED failed
                        [] a.status = 409 /\ j[1] = "member" -> Ended(j) /\ UNCHANGED <<written, failed>>
                        [] a.status = 404 /\ r.op = "put_key" ->
                              /\ Becomes(j, "sending", <<[r EXCEPT !.op = "post_key"]>> \o Tail(jobs[j].todo))
                              /\ UNCHANGED <<written, failed>>
                        [] OTHER -> Fails(j)
    /\ UNCHANGED <<opts, source, stage, cache, dropped, faults, appeared>>

\* A request does not get through, or its answer gets lost: it is sent again
\* unless it was the last try.
Lost(j) ==
    /\ jobs[j].at \in {"asking", "sending"} /\ faults < MaxFaults /\ faults' = faults + 1
    /\ server' \in {server, Serve(server, Head(jobs[j].todo)).server}
    /\ IF jobs[j].tries + 1 < Retries
       THEN jobs' = [jobs EXCEPT ![j].tries = @ + 1] /\ UNCHANGED <<written, failed>>
       ELSE Fails(j)
    /\ UNCHANGED <<opts, source, stage, cache, skipped, dropped, appeared>>

\* The server refuses a request for a reason that no retry helps against.
Refused(j) ==
    /\ jobs[j].at \in {"asking", "sending"} /\ faults < MaxFaults /\ faults' = faults + 1
    /\ Fails(j)
    /\ UNCHANGED <<opts, source, stage, server, cache, skipped, dropped, appeared>>

\* A profile that is no superuser's may be refused users and members, and
\* the first refusal ends the stage, but not that of a key or an ACL of a
\* user that is written.
Forbidden ==
    /\ ~opts.superuser /\ Stages[stage] \in {"users", "members"}
    /\ Active # {} /\ Active \intersect written = {}
    /\ jobs' = [j \in DOMAIN jobs |-> Over]
    /\ UNCHANGED <<opts, source, stage, server, cache, report, faults, appeared>>

-----------------------------------------------------------------------------
(* Which of the principals in a group or ACL the destination has.          *)

\* A listing: what there is, or, when it fails, nothing.
Listing(kind) ==
    CASE kind = "user" -> server.users \union {p \in Principals : p = <<"user", "pivotal", None>>}
      [] kind = "group" -> {p \in Principals : p[1] = kind /\ p \notin USAGs /\ Present(server, p)}
      [] OTHER -> {p \in Principals : p[1] = kind /\ Present(server, p)}

\* Users are listed once, clients and groups again when one is not there.
Cached(p) == cache[p[1]] # None /\ (p \in cache[p[1]] \/ p[1] = "user")

\* The next principal of a group or ACL is looked up.  The first lookup of
\* a client or group lists twice before it says that it is not there.
Has(p) ==
    LET mustFail == IF cache[p[1]] = None /\ p[1] # "user" /\ p \in Listing(p[1]) THEN 2 ELSE 1
    IN  IF Cached(p) THEN UNCHANGED <<cache, faults>>
        ELSE \/ cache' = [cache EXCEPT ![p[1]] = Listing(p[1])] /\ UNCHANGED faults
             \/ /\ faults + mustFail <= MaxFaults /\ faults' = faults + mustFail
                /\ cache' = [cache EXCEPT ![p[1]] = {}]

Check(j) ==
    /\ jobs[j].at = "checking" /\ jobs[j].left # {}
    /\ \E p \in jobs[j].left :
          LET left == jobs[j].left \ {p}
              kept == jobs[j].kept
          IN  IF j[1] = "membership" /\ p \in USAGs
              THEN Looks(j, left, kept) /\ UNCHANGED <<cache, faults, dropped>>
              ELSE /\ Has(p)
                   /\ IF p \in cache'[p[1]]
                      THEN Looks(j, left, kept \union {p}) /\ UNCHANGED dropped
                      ELSE Looks(j, left, kept) /\ dropped' = dropped \union {<<j, p>>}
    /\ UNCHANGED <<opts, source, stage, server, written, skipped, failed, appeared>>

Checked(j) ==
    /\ jobs[j].at = "checking" /\ jobs[j].left = {}
    /\ Becomes(j, "sending",
               IF j[1] = "acl" THEN ACLRequests(j[2], jobs[j].kept)
               ELSE <<With("members", j[2], jobs[j].kept)>>)
    /\ UNCHANGED <<opts, source, stage, server, cache, report, faults, appeared>>

-----------------------------------------------------------------------------
\* The next stage starts when the last job of the stage has ended.
Advance ==
    /\ stage < Len(Stages) /\ \A j \in DOMAIN jobs : jobs[j].at = "ended"
    /\ stage' = stage + 1 /\ jobs' = Begun(Stages[stage'])
    /\ UNCHANGED <<opts, source, server, cache, report, faults, appeared>>

\* The listing for the purge fails: nothing is purged.
PurgeFails ==
    /\ opts.purge /\ Stages[stage] = "acls" /\ \A j \in DOMAIN jobs : jobs[j].at = "ended"
    /\ faults < MaxFaults /\ faults' = faults + 1
    /\ stage' = Len(Stages) /\ jobs' = Begun("done")
    /\ UNCHANGED <<opts, source, server, cache, report, appeared>>

\* Others create an object on the destination.
Appears(o) ==
    /\ stage < Len(Stages) /\ ~Present(server, o) /\ HasBag(server, o)
    /\ server' = [server EXCEPT !.body[o] = "theirs",
                        !.keys = [a \in DOMAIN @ |-> IF a = o THEN DefaultKey("theirs") ELSE @[a]]]
    /\ appeared' = appeared \union {o}
    /\ UNCHANGED <<opts, source, stage, jobs, cache, report, faults>>

Work(j) == Start(j) \/ Answered(j) \/ Check(j) \/ Checked(j)
Working == \E j \in DOMAIN jobs : Work(j)
Trouble == \E j \in DOMAIN jobs : Lost(j) \/ Refused(j)
Next == Working \/ Trouble \/ Forbidden \/ Advance \/ PurgeFails \/ \E o \in MayAppear : Appears(o)

Spec == Init /\ [][Next]_vars

-----------------------------------------------------------------------------
(* Properties.                                                             *)

\* No more jobs are active than there are workers, what is active has
\* something to do, a cache has principals of its kind only, and what is
\* reported is an object of the model and either skipped or not.
TypeOK ==
    /\ stage \in 1..Len(Stages)
    /\ Cardinality(Active) <= Workers /\ faults \in 0..MaxFaults
    /\ \A j \in Active : jobs[j].at # "checking" => jobs[j].todo # <<>>
    /\ \A k \in DOMAIN cache : cache[k] = None \/ \A p \in cache[k] : p[1] = k
    /\ \A j \in written \union skipped \union failed :
          j[2] \in Objects \union {OrgACL}
    /\ skipped \intersect (written \union failed) = {}

\* What a transfer that does not overwrite leaves of others' objects,
\* however their appearance falls between its requests and the repetitions
\* of these (execute.go:213-256, client.go:399-442).  An object that somebody
\* else made keeps its body and its keys; a cookbook is uploaded with PUT and
\* not covered.  The members of a group and the assignments of a policy group
\* are not spared: those of the plan are written whether the group existed or
\* not (execute.go:84-141, execute.go:225-231), and so are planned ACLs.  But
\* the groups of nobody's plan keep their members, and a policy group loses a
\* revision only to the planned one of the same policy.
ToAssign(g) == IF g \in Plan THEN Assigned[g] ELSE {}
OthersStay ==
    [][/\ ~opts.overwrite =>
            \A o \in Objects : server.body[o] = "theirs" /\ o[1] # "cookbook" =>
                /\ server.body'[o] # "ours"
                /\ HasKeys(o) /\ Present(server', o) => server.keys'[o] = server.keys[o]
       /\ \A g \in DOMAIN server.members :
            g \notin Plan /\ Present(server', g) => server.members'[g] = server.members[g]
       /\ \A g \in DOMAIN server.assigned : Present(server', g) =>
            /\ server.assigned'[g] \subseteq server.assigned[g] \union ToAssign(g)
            /\ \A q \in server.assigned[g] \ server.assigned'[g] :
                  \E p \in ToAssign(g) : p[2] = q[2]]_vars

\* What the report calls written is on the destination as the source has it,
\* keys, assignments, members and permissions included, whatever was lost and
\* repeated on the way; only the principals that it names as dropped are
\* missing (execute.go:107-173, execute.go:236-256).  A user of a backup is
\* reported with its body and its default key; once its job is over its other
\* keys and its ACL are there too, unless the report names it as failed
\* (restore.go:134-188).  What the purge reports as purged may be left
\* (restore.go:220-229) and is not covered.
Complete(j) ==
    LET o == j[2]
        kept(all) == {p \in all : <<j, p>> \notin dropped}
    IN  CASE j[1] = "item" /\ o[1] = "policygroup" -> Assigned[o] \subseteq server.assigned[o]
          [] j[1] = "item" /\ o[1] \in {"client", "user"} ->
                /\ server.body[o] = "ours"
                /\ \A n \in SourceKeys[o] \union {"default"} : server.keys[o][n] = "ours"
          [] j[1] = "item" /\ o[1] \in {"container", "databag", "policy"} -> Present(server, o)
          [] j[1] = "item" /\ o[1] \notin {"policygroup", "client", "user", "container", "databag", "policy"} ->
                o = DefaultEnv \/ server.body[o] = "ours"
          [] j[1] = "membership" -> server.members[o] = kept(Members[o] \ USAGs)
          [] j[1] = "acl" -> \A p \in ToSet(Perms) : server.acl[o][p] = kept(Actors[o])
          [] j[1] = "member" -> o \in server.users
          [] j[1] = "user" ->
                /\ server.body[o] = "ours" /\ server.keys[o]["default"] = "ours"
                /\ \/ j \in Active \union failed
                   \/ /\ \A n \in SourceKeys[o] : server.keys[o][n] = "ours"
                      /\ \A p \in ToSet(Perms) : server.acl[o][p] = Actors[o]
          [] OTHER -> TRUE
ReportIsTrue == \A j \in written : Complete(j)

\* A plan without gaps of its own: items come with their bag, policy groups
\* assign policies and, when their ACL is planned, at least one; the default
\* environment is there when its ACL is planned; and a planned user,
\* whom a transfer makes no member, is in no group and no ACL.  CleanRun is
\* about such plans; without any one of these it fails.
PlanIsWhole ==
    /\ \A i \in Of("item") : <<"databag", i[2], None>> \in Plan
    /\ \A g \in Of("policygroup") : \A p \in Assigned[g] : p[1] = "policy"
    /\ \A g \in Of("policygroup") \intersect PlanACLs : Assigned[g] # {}
    /\ DefaultEnv \in Plan \intersect PlanACLs => \A there \in Existing : DefaultEnv \in there
    /\ \A g \in Of("group") : Members[g] \intersect Of("user") = {}
    /\ \A o \in PlanACLs : Actors[o] \intersect Of("user") = {}

\* The order of the stages is right: as long as no request goes wrong, what
\* fails has a reason in the source, in what others did or in a frozen
\* cookbook, and nobody is dropped whom the transfer itself brings along, with
\* the plan or as a member of the organisation that is restored
\* (execute.go:84-130, objects.go:16-32, restore.go:191-218).
Reason(o) == o \notin source \union Users \union {OrgACL} \/ o \in appeared
             \/ (o \in Frozen /\ ~opts.force)
Needed(o) ==
    {o} \union {b \in Plan : InBag(o, b)}
        \union (IF o[1] = "policygroup" THEN Assigned[o] ELSE {})
Brought == Plan \union (IF opts.restore /\ opts.superuser THEN OrgMembers ELSE {})
CleanRun ==
    faults = 0 =>
        /\ \A j \in failed : \/ j[1] = "purge" \/ (j[1] = "member" /\ ~opts.superuser)
                             \/ \E o \in Needed(j[2]) : Reason(o)
        /\ \A d \in dropped : d[2] \notin Brought \/ d[2] \in USAGs \/ Reason(d[2])

\* Nothing disappears from the destination but in the purge, and then only
\* of a kind that the plan has (an item goes with its bag too), nothing of the
\* plan itself, no user, no container, not the default environment, not the
\* client that does the transfer, and none of the groups that a server makes
\* itself, the built-in ones and those of single users (restore.go:326-384,
\* docs/backup-and-restore.md:77-80).  The pool starts the deletions in the
\* order of the list but does not wait between kinds.
PurgeSpares ==
    [][\A o \in Objects : Present(server, o) /\ server.body'[o] = "absent" =>
            /\ Stages[stage] = "purge" /\ opts.purge
            /\ o \notin Plan /\ \E p \in Plan : p[1] = o[1] \/ (o[1] = "item" /\ p[1] = "databag")
            /\ o \notin {Self, DefaultEnv} /\ o[1] \notin {"container", "user"}
            /\ o[1] = "group" => o \notin USAGs /\ o[2] \notin {"admins", "billing-admins", "clients",
                                                              "users", "public_key_read_access"}]_vars

\* "users are checked in dest and dropped with a warning if absent"
\* (docs/copy-and-dependencies.md:18): who is dropped is absent.
OnlyAbsentAreDropped ==
    [][\A d \in dropped' \ dropped :
          d[2] \notin Listing(d[2][1])]_vars
=============================================================================
