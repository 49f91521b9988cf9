# A verification of gnife in TLA+

gnife is a command line tool for Chef Infra Server and, with `gnife serve`, a
Chef server itself, whose whole state is a directory in the layout of a
backup. This directory holds TLA+ modules translated from its source, TLC
configurations that check them, and proofs that TLAPS checks. `PROJECT.json`
lists the runs, the lines every definition stands for, the hazards and the
findings.

    tlasany M.tla                          parse a module
    tlc -workers 2 -config X.cfg M.tla     a run (module and cfg in PROJECT.json)
    tlapm M_proofs.tla                     the proofs of a module

## 1. The system

| part | state | operations | hard because |
|---|---|---|---|
| `internal/chefserver` server and routes | organisations, users, bookshelf, sandboxes, all in memory behind one mutex | one handler per request; memory first, then the store call | the store call can fail or the process die with memory already changed |
| `internal/serve` DirStore | one file per object, ACL, member list; one directory per cookbook version | Put/Delete of objects, cookbooks, ACLs, users, organisations; Load | several file operations per call, none atomic |
| `internal/serve` Run | files of the first start | load, make the superuser, the organisation with its validator and the certificate, serve | first start interrupted |
| keys (`server.go`, `routes.go`) | several public keys per user or client, in a body and a sidecar file | add, change, delete a key, verify a request | two files for one thing, keys left by a predecessor |
| `internal/cookbook` | uploader's progress | sandbox, file PUTs in parallel, commit, manifest | uploaders interleave, the server may restart between requests |
| `internal/cli` ForEach | slots, wait group, mutex, errors | bounded parallel calls | the only concurrency of the client side |
| `internal/transfer` | queue, what was seen, plan; report, principals cache | plan the closure of what to copy, execute it in stages of parallel jobs | cycles, the order of the queue; objects and principals that appear during the run, lost answers, partial failure |
| `internal/backup` | backup directory | backup, restore, purge | repeated into the same directory, order of deletions |
| `internal/deps`, depsolver of `routes.go` | - | versions, constraints, run-list expansion, solving | cyclic roles, a greedy solver whose answer depends on the order of a map |
| `internal/chef` client | - | signed requests with retries | lost answers of requests that are not idempotent |
| `internal/kinds`, `internal/acl` | - | per-kind paths and write rules | - |
| `internal/config`, `credentials`, `cmd`, search | local files | flags, profiles, queries | not modelled: no protocol |

How they interact: a request comes in over HTTP and takes the server's mutex
(`Server.handle`); the handler changes the maps of `Org`; it calls the `Store`;
the answer goes out when the store call is over. So no two handlers interleave,
but a crash or an I/O error can fall between any two file operations of one,
and other clients' requests fall between any two requests of a protocol of
several requests (upload). A start reads the directory back: that is the only
way state survives. On the client side `backup`, `restore`, `copy` and the
cookbook commands call the API through `chef.Client` from goroutines of
`cli.ForEach`.

What makes each part correct:

- store and handlers: between requests the directory, if it were loaded, gives
  exactly what is being served, except for changes answered with an error; a
  crash costs at most the object being written; the directory can be loaded;
- members and groups: no restart adds to or takes from a group;
- cookbooks: what a manifest lists can be downloaded; frozen versions and
  artifacts keep their content; an upload is only refused for its own reasons;
- ForEach: no more goroutines than asked for, none left at the return, every
  error in the result, and it returns;
- keys: a start finds the keys that were in force, and a crash in the middle of a
  change the keys before it or after it;
- planning: it ends; a plan has what its items need, and nothing in it changes
  which cookbook versions a node gets;
- transfer, restore, purge: what is reported as written is there; without
  `--overwrite` the bodies and the keys of what others made stay (the members
  of a planned group, the assignments of its policies and planned ACLs are
  replaced all the same); the order of the stages brings everything along
  before it is named; a purge spares what it must.

## 2. Modules

| module | models | abstract data |
|---|---|---|
| `DirStore` | the directory, the file operations a handler still has to do, their failure, the crash and the start | a path is a tuple of model values, content a model value; `Torn` is a file cut short |
| `DurableMap` | abstract: what `docs/serve.md` promises of a served directory | keys and values |
| `OrgObjects` | nodes, roles, environments, data bags, items, containers and their ACLs | a body is a model value; a malformed one is one that is not JSON |
| `OrgMembers` | users, members, invitations, clients, groups | sets of names |
| `Policies` | policy revisions, policy groups, their ACLs; the two handlers that make several store calls | a revision is a model value with a policy, a file name and what that name is read back as |
| `Cookbooks` | bookshelf, sandboxes, versions, frozen marks, the directories of versions, uploaders | a file is its checksum |
| `Keys` | the start of a server, the keys of users and clients, their sidecar files, the ACLs of users, the creation and deletion of the organisation | a key is a model value; of a body only its key |
| `Deps` | versions, constraints, run-list expansion, the server's depsolver, as recursive functions of what is left to look at | a version is three numbers, a run-list entry a role or a cookbook |
| `Planner` | `transfer.BuildPlan` and `InUsePlan` against a source organisation | an organisation is a record of what depends on what |
| `Transfer` | `transfer.Execute` and the restore around it, `chef.Client.Do`, the destination server and its other users | an object of the destination is absent, somebody else's or what the source has |
| `WorkerPool` | `cli.ForEach` | an item is its index |
| `MC*` | the constants of the runs | |
| `*_proofs` | theorems and their proofs | |

`OrgObjects`, `OrgMembers`, `Policies`, `Cookbooks` and `Keys` extend
`DirStore`: each handler is an action guarded by `Idle` (the mutex is free: no
file operation is left over) that changes memory and puts the file operations
of its store call into `todo`; `Persist` does them one at a time, `Fault`
makes one fail (the handler answers 500 and drops the rest), `Crash` ends the
process, perhaps in the middle of one, `Start` loads the directory. Requests
that are refused change nothing and have no action. A file operation that is
cut short leaves `Torn` where it wrote and any part of the removed files where
it removed. `DirStore` removes some files with `_ = os.Remove`: there
(`ErrorIgnored`) an error is not a `Fault` but a `StoreFaultIgnored`, after
which the handler goes on and answers 200 with the file still in place
(`ACLStays` in `OrgObjects` and `Policies`).

Two handlers of `Policies` make one store call after another. `handler` says
what such a handler still has to do (`AssignNext`, `DeleteNext`, `DeleteLast`);
a request is let in only when it is empty (`Free`). Assigning a revision that
the server does not have stores the revision, then the group; deleting a policy
removes the files of its revisions one by one, in the order of a Go map, and
changes memory after the last. The path of a revision is NAME-REVISION.json and
is split at the last hyphen when it is read (`FileName`, `ReadAs`), so two
revisions can share a file, and a revision that ends in a hyphen makes a
directory that cannot be loaded; `RevisionsAreOnDisk` speaks of the others.

The store call of an upload is a sequence of operations (`PutCookbook`): the
directory of the version is emptied (`Emptied`), its files are written in the
order of their names (`Listings`, `Writes`) up to one whose path cannot be one, and
then come the generated metadata and the frozen mark (`Extras`). What a start
reads back is less: `LoadDir` passes over some names (`Skipped`), takes a file
named .frozen for the mark (`Mark`), whoever wrote it, and refuses a
metadata.json that is not JSON (`NotJSON`, `Readable`), which the upload did not.

`Keys` begins before the first start, in an empty directory. `Start` loads what
is there and queues the files that are missing: superuser, organisation with its
validator, certificate; `Listen` follows when they are all written, and a crash
at any file leads to the next start. `KeysIn` is what a start makes of the body
and the sidecar of one actor: a sidecar replaces the key of the body, a torn one
is passed over. `Verifiers` are the keys that `publicKeyFor` may pick, and no
request is let in when there are none; a `Keys` state without a usable pivotal
is a server nobody administers. `before` is a history variable: the keys before
the request that is being handled.

In `Deps` one turn of a loop is an operator of its own (`Expanded`, `Solved`): it
takes the first entry of what is left and says what is left then. `Walk` and
`Solve` are the functions that repeat it until nothing is. A turn of the
depsolver has a set of results, one for each order in which the dependencies of
the chosen version can come out of their map. A recipe of a run list may pin a
version (`pin`), which a client hands to the depsolver (`Pinned`) and the
planner cuts off.

`Planner` extends `Deps`. `queue` is a sequence of sets, because what the code
appends while it ranges over a map has no order; `Add` takes one item of the
first set, and `ItemBrings` is what `planner.add` returns for it by kind, as a
set of possible answers where the depsolver leaves several. Any request to it
may also fail (`Solutions`): then the plan has the newest versions, nothing of
what these depend on, and a warning. The planned items are
keyed as in the code (`Key`, `Seen`), so the first item with a key decides.

`Transfer` starts from a plan and goes through `Stages`: users and members one
by one, then one stage per kind in restore order, memberships, ACLs, purge. A job
is a sequence of requests (`Write`, `KeyRequests`, `ACLRequests`); `Start` makes
it active when a worker is free, `Answered` takes one request to the server
(`Serve`) and goes on, `Lost` loses the request or its answer, `Refused` is any
other error. Group members and ACL actors are looked up in the cache one by one
(`Check`, `Has`), a failed listing counts as an empty one, as in the code.
`Appears` is somebody else's creation. A policy group of the server has one
revision of a policy (`ServeAssign`), and a group or policy group of somebody
else begins with members or assignments of its own (`Held`). A user of a backup
is reported as soon as its body and its default key are written (`GoOn`); an
error before that ends it, one of a later key goes on to its ACL (`Fails`).
`Transfer` abstracts `Cookbooks` (an upload
is one request that a frozen version, or an artifact that is there already, may
refuse: `routes.go:1300`) and `WorkerPool` (at most
`Limit` jobs are active, a stage ends when all its jobs have), and its plan has
the shape that `Planner` gives a plan.

`stale` is a history variable: paths whose last store call returned an error.
The properties exempt them, since the client was told. `leftover`
(`OrgObjects`, `Policies`) is another: ACL files that outlived their object
because the error of their removal was ignored or a crash came before it. The
client was told nothing of these, the code does leave them, and `ACLsAreOnDisk` and
`GroupACLsAreOnDisk` say that it leaves no others: any other ACL of an object that
is gone is gone from disk, and a later object of the name starts with its own.
`Keys` counts in `stale` also files that outlived a deleted user and that its
successor does not look at. Nothing else is exempt.

The `Bug:` definitions are plausible bugs. PROJECT.json says which definition
each replaces, and the property that then fails.

## 3. Runs

| run | configuration | shows |
|---|---|---|
| `objects` | 1 node, 1 data bag with 1 item, 1 built-in container, 2 bodies and a malformed one, 2 grants; the ACLs of the node and the bag are followed (`Guarded`), their removal may fail unseen; at most one path out of step when an I/O error occurs | type invariant; `ObjectsAreOnDisk`, `ACLsAreOnDisk`, `ItemsHaveBags`; refinement `ImplementsMap` of `DurableMap` |
| `members` | the user pivotal, 1 client, groups clients and admins, 1 invitation | `PrincipalsAreOnDisk`, `RestartDropsNobody` |
| `cookbooks` | 2 uploaders (symmetric), a cookbook version and an artifact, manifests with no file, with a file that a start passes over, with a .frozen and a metadata.json that is not JSON, and with a path that cannot be written | `ContentIsServed`, `FrozenAgrees`, `VersionsAreOnDisk`, `FrozenContentStays`, `UploadsGoThrough` |
| `policies` | 1 group, 2 policies, 4 revisions, of which two share a file and one cannot be a file name; the ACL of the group is followed (`Guarded`), at most one failed request not made good | `RevisionsAreOnDisk`, `GroupsAreOnDisk`, `GroupACLsAreOnDisk`, `AssignmentsFollowRevisions` |
| `workerpool` | 4 items, 2 slots | `AtMostWorkers`, `ResultIsComplete`, `AllDone`, `AtMostOneLate`, `Termination` |
| `keys` | the superuser, a user and one client (the validator), two names of keys, one key brought by callers and one made by a start; `--org` and `--tls`; I/O errors at the user's sidecar and ACL | `KeysAreOnDisk`, `CrashKeepsKeys` |
| `planner` | 96 organisations (cyclic roles, cookbooks and groups, missing roles and cookbooks, pins of an environment that can and cannot be met, a run list that pins a version, two policies of one group), 8 requests each, among them what is in use; the depsolver may fail | type invariant; `Closed`, `SameVersions`, `Terminates` |
| `transfer` | 10 planned or restored objects of 9 kinds, 8 others, built-in and single users' groups among them; 3 initial destinations, with members and assignments of their own, 3 sets of options (copy; overwriting restore with purge; restore with purge as no superuser); 2 workers, 2 tries, 1 fault; a policy that the source may have lost, a client and an artifact that others may create | `ReportIsTrue`, `CleanRun`, `OthersStay`, `PurgeSpares` |
| `members_restart` | as `members`, no I/O errors | violation: a deleted member is back in its groups |
| `cookbook_load` | as `cookbooks`, no I/O errors | violation: a refused upload leaves a directory that cannot be loaded |
| `plan_assignments` | as `planner` | violation: of two policies of one group, used by two nodes, only one is assigned by the plan |
| `transfer_dropped` | as `transfer` | violation: a failed listing of members drops users that are there |

Bounds. Requests, crashes and restarts are not bounded: the state spaces are
finite because the sets of names and contents are. `MaxStale` bounds I/O
errors: none happens while that many paths are already out of step, which
keeps the combinations of two independent failures out; refused requests are
not bounded. The theorems of section 4 have none of these bounds. Handlers
treat all objects of a kind alike and touch a constant number of others (a bag
and its items, a client and its groups, a version and those of its name), so
one object of each role together with what it touches shows the interplay.
`Names` (Cookbooks) bounds whose ACLs are followed, `Nested` (OrgMembers)
which groups are nested in others, `Guarded` (Policies) the same as `Names`:
the ACLs of a policy and of a group are read and written alike. In `keys` one
key of each origin suffices for what the two files of an actor may disagree
about: whether a key is there, and whether it is the one of the body. In
`planner` the family is a product of five choices, each with a case in which
the planner warns or follows a cycle; a longer chain of dependencies would
only repeat a step. `Managed` and `Guarded` (Keys) bound whose keys are
handled by name and whose ACL is read and written: the user's; the superuser
and the client change by their own requests only, since `routeKeys` and the
store treat all actors alike. `MaxFaults` (Transfer) is one because the jobs
of a stage touch different objects, and one lost answer is enough to repeat
any request; with `Retries` two the repetition is the last try. Jobs that fail
are those the server refuses. The plan of `transfer` has one object for every
way in which an object is written. Symmetry is used for the two uploaders of
`cookbooks` only, and no liveness is checked there.

Deadlock is not checked for the five served modules: a directory that Load
refuses really stops the server for good. Nor for `planner` and `transfer`,
which end. It is checked for `workerpool`.

Fairness is assumed in `WorkerPool` and `Planner`. In `Planner` it is the loop
over the queue that goes on by itself, every request to the source being answered
or failing in the end. In `WorkerPool` the caller's goroutine is scheduled
(weak fairness); the goroutines are given strong fairness, because one that waits
for the mutex can be overtaken: Go's mutex hands itself to a waiter that has
starved for a millisecond. That `fn` returns is the assumption that requests
have timeouts. Nobody has to cancel.

## 4. Proofs

The theorems hold for every value of the constants that satisfies the named
assumptions (`PoolAssumption`; `MaxStaleIsNat`, `MarksDiffer`,
`ObjectsAssumption`; `MembersAssumption`; `CookbooksAssumption`;
`PoliciesAssumption`; `KeysAssumption`; `DepsAssumption`, `PlannerAssumption`;
`TransferAssumption`), which the runs evaluate on their instances: the sets of
objects, users, bodies, paths, uploaders, versions and items may be of any
size, `MaxStale`, `MaxFaults` and `Workers` any number. `CleanRunHolds` has
one hypothesis more, `PlanIsWhole`, which `MCTransfer` assumes, so that TLC
evaluates it too. The assumptions say that model values of different meaning
differ, that kinds of objects do not overlap, and of an organisation or a plan
that its parts have the shape the code gives them.

| module | theorem | property |
|---|---|---|
| `WorkerPool_proofs` | `TypeCorrect`, `BoundedConcurrency`, `CompleteResult`, `NothingLeftOut`, `OneLate` | `TypeOK`, `AtMostWorkers`, `ResultIsComplete`, `AllDone`, `AtMostOneLate` |
| `OrgObjects_proofs` | `TypeCorrect`, `ObjectsDurable`, `ACLsDurable`, `NoOrphans`, `MapImplemented` | `TypeOK`, `ObjectsAreOnDisk`, `ACLsAreOnDisk`, `ItemsHaveBags`, `ImplementsMap` |
| `OrgMembers_proofs` | `TypeCorrect`, `PrincipalsDurable`, `NobodyDropped` | `TypeOK`, `PrincipalsAreOnDisk`, `RestartDropsNobody` |
| `Cookbooks_proofs` | `TypeCorrect`, `ManifestsAreServed`, `NobodyIsDisturbed`, `FrozenIsFinal`, `FrozenInStep`, `VersionsDurable` | `TypeOK`, `ContentIsServed`, `UploadsGoThrough`, `FrozenContentStays`, `FrozenAgrees`, `VersionsAreOnDisk` |
| `Policies_proofs` | `TypeCorrect`, `RevisionsDurable`, `GroupsDurable`, `GroupACLsDurable`, `AssignmentsBacked` | `TypeOK`, `RevisionsAreOnDisk`, `GroupsAreOnDisk`, `GroupACLsAreOnDisk`, `AssignmentsFollowRevisions` |
| `Keys_proofs` | `TypeCorrect`, `KeysDurable`, `CrashSafe` | `TypeOK`, `KeysAreOnDisk`, `CrashKeepsKeys` |
| `Planner_proofs` | `TypeCorrect`, `PlansAreClosed`, `PlansSuffice` | `TypeOK`, `Closed`, `SameVersions` |
| | `ExpansionIsClosed`, `ExpansionIsKept`, `AnswersAreComplete`, `AnswerIsKept` | of the algorithms of `Deps` |
| `Transfer_proofs` | `TypeCorrect`, `ReportHolds`, `CleanRunHolds`, `OthersUntouched`, `PurgeIsSafe` | `TypeOK`, `ReportIsTrue`, `CleanRun`, `OthersStay`, `PurgeSpares` |

Each module has an inductive invariant, one lemma per action (or per store call
that actions share) that it is kept, and the theorems as consequences.

`WorkerPool`. "At most `workers` calls" is not inductive: nothing in it says
that the semaphore counts the goroutines. `SlotsAreCounted` and
`LivingAreCounted` say that `sem` is the number of goroutines that have not given
their slot back and `wg` the number that have not ended; the proof is about how
these cardinalities change by one. That no error is lost needs mutual exclusion
between `Lock` and `Unlock`, and that what a goroutine read of `errs` is still
there when it appends.

`OrgObjects`. The properties speak of the moments when no request is being
handled, so the invariant has to say what becomes of a half-written change.
`OnDisk` does that path by path: what the handler has still to write is what
memory says, and what it need not write is on disk already, unless an error
was answered. `InTurn` says that every operation that is left fits the
directory its predecessors leave; without it an operation could write an item
into a bag that is not there or remove a bag that is not empty, and the next
start would serve an item without a bag. `DiskOK` also says that nothing is
stored under a name `SafeName` rejects: such an object can be deleted in memory
only, and still its ACL and its items are not left on disk. The run `objects` has
no such names (`Unsafe`) and no dot names (`Hidden`): there the theorems go
further than the runs.

`ACLsDurable` also says that an object that is gone has no ACL on disk, so that a
later one does not inherit it. `Agrees` has that clause for a running server;
across a crash `Settled` says of a directory that no process runs over that an
ACL without its object is in `leftover`. What the crash step has to show for it is
that an object whose file is gone and whose ACL file is not was being deleted.
`Policies` has the same argument.

`MapImplemented` is the refinement: initial states map to initial states, and
every step to a step of `DurableMap` or to none. `Separate` is what it needs
besides: a handler writes no path twice, so that a committed key is no longer
pending, and never removes the environment that `newOrg` would bring back.
`PendingAgrees` says that what is pending is what memory says; with it every
request is an `Accept` or a `Refuse`, every file operation a `Commit`. The proof
also settled what a `Refuse` is: the deletion of a data bag whose name cannot be a
file name is answered with an error and takes its items out of memory with it,
several keys at once, all of them owed already (`DeleteObjectMaps`).

`OrgMembers`. The same argument, but a restart may leave a group larger than it
was (the run `members_restart`), so what is compared is not equality: `Agrees` says
of a group's content that what a start reads has everybody who is in the group
(`Within`), of the other files that they are there exactly when their object
is. `RestartDropsNobody` follows from it at the step of a start.

`Cookbooks`. `UploadsInOrder` follows an upload from its sandbox on: what the
sandbox lacked is on the bookshelf or still to be sent, and what it did not
lack is on the bookshelf. That the bookshelf never shrinks while a server
lives is what makes it inductive, and what the bug `CookbookDeleteCollecting`
breaks. `FrozenIsFinal` is an action property: a step that replaces the
content of a version that is frozen is a forced upload. The directory has an
invariant of its own (`DInv`, theorem `DirectoryInvariance`), since an upload
leaves a sequence of file writes whose length has no bound: `HoldsAt` says of a
version that for each of its paths either the last operation that is left for it
makes it what memory says, or none is left and it is so on disk (`Settles`,
`Leaves`). One file operation moves a path from the first case to the second
(`StepSettles`). What a start finds is then computed from the files: those
that `LoadDir` does not pass over, and the mark from either of its two places.

`Policies`. A handler may stand between two store calls, and then memory is not
yet what the request will leave: while a policy is deleted, memory still has the
revisions whose files are gone. `Meant` is what memory says of a revision once
the handler is through, and `OnDiskInv` compares the directory with that: what
is still to be written agrees with it (`Coming`), and so does every other file
that was not answered with an error (`Right`). `InTurn` says of the write of a
group that is next that each revision it newly names is on disk (`Backed`).
That carries `AssignmentsFollowRevisions` over the two store calls of an
assignment; `HandlerOK` carries the revision from the first to the second.

`Keys`. An actor's keys are in two files, so the invariant speaks of what both
will hold when the handler is done (`Coming`): `BodyTells` and `FilesTell` say
that they make up the keys in memory, provided no error was answered about them
(`Sure`). `Halfway` says what a crash would leave now, and what it would leave with
the body in place but not the sidecar: the keys before the request or those
after it. It needs `Order`: the sidecar of somebody who stays is the last thing a
handler writes, and a handler that writes the body goes on to it.

`Deps`. The library's induction theorems take an operator as a parameter, which
the provers cannot instantiate, and a recursive function of TLA+ is a `CHOOSE`:
that there is a function with the equation has to be proved first. `Fixpoint`
takes the least one, what the walks from a place lead to. What holds along a
walk is then proved by a minimal counterexample (`WalkInduction`,
`SolverInduction`): of the states where a statement fails take one with the
fewest roles or cookbooks left, and of those one with the shortest list
(`LowestPlace`); its next turn is a smaller one. So for any roles and cookbooks,
cyclic ones included, the expansion and the depsolver get to an end, and have
what `ExpansionIsClosed` and `AnswersAreComplete` say.

`Planner`. `Closed` speaks of the finished plan; on the way to it `Owed` says
that whatever an item of the plan needs has its key in the plan or is in the
queue (`Due`). An item that came in as resolved is not followed, so what it
needs must have come along with it: `Promised` says so of the resolved items
of the queue, and a warning is what releases the promise. That an object that
was asked for is not shadowed by a resolved one is `RootsFirst`: what was
asked for stands in the queue before anything that it led to. `Settled` says
that of a planned node all the versions of one and the same answer of the
depsolver are. `SameVersions` is not a consequence of closure: the planned
cookbooks are fewer than the source's, and a greedy depsolver could find
another way among fewer versions. `AnswerIsKept` says that it does not: if all
orders of the map give one answer, each turn takes the newest version that is
allowed, that one is planned, and it is still the newest among fewer
(`SolveKept`); `ExpansionIsKept` is the same of run lists.

`Transfer`. `TInv` says which requests a job may have left in its stage, and of a
transfer that does not overwrite that a job which has a replacing request
left has made the object itself or makes it first (`Careful`, `Mine`): from that come
`PurgeSpares` and what `OthersStay` says of bodies and keys. What it says of
members and assignments is about one request at a time (`GroupsSame`): it is
about a group or policy group of the plan, and puts in only what is planned
for it. `RInv` is about the report: `Pends` says of a job
that everything that makes it `Complete` is on the server or in the requests it
has left, in an order that a tolerated conflict, a lost answer or somebody else's
object cannot spoil; when no request is left, all is there (`NothingPends`). A
restored user is reported while requests are left, which is `UInv`: how far it is
can be told from what is left to send (`Shape`), and the rest is there or still
to come (`RestPends`) unless it has failed.

`CleanRunHolds` is about the order of the stages, and `CInv` is what it needs:
the jobs of a stage are the ones planned for it (`CrewOK`), so when it is over
each of them is written, skipped or failed; what has been dealt with has
arrived, or there is a reason why not (`ArrivedOK`); and of what a job has
left the first request fits the server and none of the later ones can fail
(`FeasibleOK`), again unless there is a reason. A request of another job
leaves the object of this one alone (`Only`, `OtherFeasible`), and what others
create only adds reasons (`ReasonStays`). That the policies of a group are
there when it is written, and the group when its ACL is, comes from the report
(`TInv`, `RInv`, `AssignedOK`). The members of a restored organisation are not
in the plan, and have an invariant of their own, `EInv`: each of them has been
made a member when the stage is over (`JoinedOK`), users are listed only after
that (`ListedOK`), and so none of them is missed when a group or an ACL is
written (`MissedOK`). TLC checked `CInv` on the instance of `transfer` before
it was proved, except `SourceOK`, which says that the source loses objects
only.

Its hypothesis `PlanIsWhole` says which plans have an order that works. An
item comes with its bag: the planner sees to that when it follows dependencies
(`PlansAreClosed`). What a policy group assigns are policies, by the shape of
a plan. A policy group whose ACL is planned has at least one policy: nothing
else creates it on the destination. The ACLs of the users of a backup go with
the users and are no ACLs of the plan. The ACL of the default environment
needs that environment, which is never written: a server has it from the start
(`Existing`). No planned user is in a group or an ACL: a transfer makes users,
but no members, and drops them from both. TLC finds `CleanRun` violated when
any of these but the one about the shape is dropped and the plan changed
accordingly: without them a transfer fails, or drops somebody, though no
request goes wrong.

Only model-checked: `Termination` and `Terminates`, which are liveness. Every other
property of a passing run is stated by a theorem. The runs that expect a
violation have none.

## 5. Not modelled, and the plan

Left out, and why:

- search: a query evaluator over text; parsing and matching without state;
- configuration and credentials: local files read and written by one process;
- the command line: flags, output and wiring; the test server;
- the writing of a backup and of an archive: a sequence of file writes into a
  directory that nobody reads meanwhile. A second backup into the same
  directory keeps the files of objects that are gone, which the hazards list
  names;
- of a restore: the creation of the organisation, the filters by kind and the
  dry run;
- signatures, clock skew, TLS, and the URLs of requests;
- within the modelled parts: JSON formatting, wording of errors, listing
  requests, and `org.json`, which repeats the organisation's name.

What the models show besides the findings, without a run of its own:

- an ACL file can outlive its object, though `store.go:51` says of it that it must
  go: the error of its removal is ignored (`store.go:53`) and the request answered
  200, and a crash may come between the two removals; the next object of the name
  has the old permissions after a restart (`leftover`);
- a file of an upload whose name `LoadDir` passes over (`cookbook.go:256-272`) is
  served until the next start only, an uploaded .frozen freezes the version
  there, and a metadata.json that is not JSON is accepted and makes the start
  refuse the organisation;
- a cookbook name's ACL file outlives its last version (`store.go:51` excludes
  every kind with files), so the ACL returns with a restart;
- a policy revision whose write failed stays in memory (`routes.go:1638`), and a
  later assignment of it is answered 200 and persists only the group;
- one item is started after a cancellation when the caller was waiting for a
  slot (`AtMostOneLate` bounds it by one);
- the roles that a run list leads to are added as resolved (`plan.go:338`) and a
  role's lists are expanded in the environment of the request (`plan.go:180`):
  their lists for other environments are not followed, where
  `docs/copy-and-dependencies.md:12` says "every env_run_lists (recursive)".
  `Closed` counts what the code follows;
- versions that a run list pins are cut off before the depsolver is asked
  (`deps.go:34`), so the plan has another version than a client gets, where line
  21 of that document promises the same; `SameVersions` excepts such run lists;
- any error of the depsolver, a timeout included, counts as a refusal
  (`plan.go:343-361`): the plan is finished with the newest versions, without
  what they depend on, and a warning; both properties except what is warned about;
- without `--overwrite` the members of an existing group (`execute.go:92-141`),
  the assignments of planned policies (`execute.go:225-231`) and planned ACLs are
  replaced, where lines 34-35 of that document say that what exists is skipped.
  `OthersStay` says what is spared;
- a restored user is reported before its other keys and its ACL are written
  (`restore.go:171`); an error there is in the list of failures besides;
- the deletions of a purge start in dependency order, but the pool does not wait
  between kinds, and an object whose deletion failed is reported as purged;
- the id of a sandbox is the time in nanoseconds (`routes.go:1460`); the model takes
  two of them to differ, which on a coarse clock they need not;
- a policy group that is planned by itself is planned with all its assignments,
  one that comes with a node with that node's only;
- a crash between `tls.crt` and `tls.key` keeps `--tls` from starting, one
  before `pivotal.pem` leaves a superuser without a usable private key.
