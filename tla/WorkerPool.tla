----------------------------- MODULE WorkerPool -----------------------------
(***************************************************************************)
(* cli.ForEach, the one place where gnife runs things in parallel: every   *)
(* bulk operation of backup, restore, copy, cookbook upload and download   *)
(* goes through it.  The caller's goroutine hands out the items in order,  *)
(* holding a slot of the channel sem for each, and waits for all of them;  *)
(* one goroutine per item calls fn and notes its error under the mutex mu. *)
(* The context may be cancelled at any moment.                             *)
(***************************************************************************)
EXTENDS Integers, FiniteSets

CONSTANTS
    Count,       \* number of items
    Workers,     \* the parameter workers, whatever the user gave
    Nobody       \* the mutex is free

Items == 1..Count
Slots == IF Workers < 1 THEN 1 ELSE Workers

ASSUME PoolAssumption == Count \in Nat /\ Workers \in Int /\ Nobody \notin Items

VARIABLES
    pc,          \* the caller: at the check, at sem <-, in Wait, or returned
    next,        \* the item it is about to hand out
    state,       \* goroutine of each item
    sem,         \* slots taken
    wg,          \* the wait group's counter
    mu,          \* holder of the mutex
    seen,        \* goroutine -> errs as it read them, for its append
    errs,        \* items whose error was noted
    failed,      \* history: items whose fn returned an error
    cancelled,
    late         \* history: items handed out after the cancellation

vars == <<pc, next, state, sem, wg, mu, seen, errs, failed, cancelled, late>>

\* A goroutine that has been started and has not given its slot back.
Holding == {"fn", "lock", "append", "unlock", "release"}
Alive == Holding \union {"done"}

TypeOK ==
    /\ pc \in {"check", "acquire", "wait", "returned"}
    /\ next \in 1..(Count + 1)
    /\ state \in [Items -> Alive \union {"none", "gone"}]
    /\ sem \in 0..Slots
    /\ wg \in 0..Count
    /\ mu \in Items \union {Nobody}
    /\ seen \in [Items -> SUBSET Items]
    /\ errs \subseteq Items /\ failed \subseteq Items /\ late \subseteq Items
    /\ cancelled \in BOOLEAN

Init ==
    /\ pc = "check" /\ next = 1
    /\ state = [i \in Items |-> "none"]
    /\ sem = 0 /\ wg = 0 /\ mu = Nobody
    /\ seen = [i \in Items |-> {}]
    /\ errs = {} /\ failed = {} /\ late = {}
    /\ cancelled \in BOOLEAN

-----------------------------------------------------------------------------
(* The caller.                                                             *)

\* Bug: the last item is left out.
CheckOffByOne ==
    /\ pc = "check"
    /\ pc' = IF next >= Count \/ cancelled THEN "wait" ELSE "acquire"
    /\ UNCHANGED <<next, state, sem, wg, mu, seen, errs, failed, cancelled, late>>

\* Bug: the context is not looked at.
CheckNoContext ==
    /\ pc = "check"
    /\ pc' = IF next > Count THEN "wait" ELSE "acquire"
    /\ UNCHANGED <<next, state, sem, wg, mu, seen, errs, failed, cancelled, late>>

Check ==
    /\ pc = "check"
    /\ pc' = IF next > Count \/ cancelled THEN "wait" ELSE "acquire"
    /\ UNCHANGED <<next, state, sem, wg, mu, seen, errs, failed, cancelled, late>>

\* Bug: a goroutine is not counted, so that Wait may not wait for it.
StartUncounted ==
    /\ pc = "acquire" /\ sem < Slots
    /\ sem' = sem + 1
    /\ state' = [state EXCEPT ![next] = "fn"]
    /\ late' = IF cancelled THEN late \union {next} ELSE late
    /\ next' = next + 1
    /\ pc' = "check"
    /\ UNCHANGED <<wg, mu, seen, errs, failed, cancelled>>

\* Bug: the slot is taken by the goroutine, when the caller has gone on.
StartUnlimited ==
    /\ pc = "acquire"
    /\ sem' = sem + 1
    /\ wg' = wg + 1
    /\ state' = [state EXCEPT ![next] = "fn"]
    /\ late' = IF cancelled THEN late \union {next} ELSE late
    /\ next' = next + 1
    /\ pc' = "check"
    /\ UNCHANGED <<mu, seen, errs, failed, cancelled>>

\* It may block here for long: the context is not looked at again.
Start ==
    /\ pc = "acquire" /\ sem < Slots
    /\ sem' = sem + 1
    /\ wg' = wg + 1
    /\ state' = [state EXCEPT ![next] = "fn"]
    /\ late' = IF cancelled THEN late \union {next} ELSE late
    /\ next' = next + 1
    /\ pc' = "check"
    /\ UNCHANGED <<mu, seen, errs, failed, cancelled>>

Return ==
    /\ pc = "wait" /\ wg = 0
    /\ pc' = "returned"
    /\ UNCHANGED <<next, state, sem, wg, mu, seen, errs, failed, cancelled, late>>

-----------------------------------------------------------------------------
(* The goroutine of item i.                                                *)

Go(i, from, to) ==
    /\ state[i] = from
    /\ state' = [state EXCEPT ![i] = to]
    /\ UNCHANGED <<pc, next, cancelled, late>>

FnSucceeds(i) ==
    /\ Go(i, "fn", "release")
    /\ UNCHANGED <<sem, wg, mu, seen, errs, failed>>

FnFails(i) ==
    /\ Go(i, "fn", "lock")
    /\ failed' = failed \union {i}
    /\ UNCHANGED <<sem, wg, mu, seen, errs>>

\* Bug: errs is appended to without the mutex.
LockNothing(i) ==
    /\ Go(i, "lock", "append")
    /\ seen' = [seen EXCEPT ![i] = errs]
    /\ UNCHANGED <<sem, wg, mu, errs, failed>>

Lock(i) ==
    /\ Go(i, "lock", "append")
    /\ mu = Nobody
    /\ mu' = i
    /\ seen' = [seen EXCEPT ![i] = errs]
    /\ UNCHANGED <<sem, wg, errs, failed>>

AppendError(i) ==
    /\ Go(i, "append", "unlock")
    /\ errs' = seen[i] \union {i}
    /\ UNCHANGED <<sem, wg, mu, seen, failed>>

\* Bug: the mutex is not given back.
UnlockForgotten(i) ==
    /\ Go(i, "unlock", "release")
    /\ UNCHANGED <<sem, wg, mu, seen, errs, failed>>

Unlock(i) ==
    /\ Go(i, "unlock", "release")
    /\ mu' = Nobody
    /\ UNCHANGED <<sem, wg, seen, errs, failed>>

\* The deferred calls run last to first: the slot is free before wg.Done.
Release(i) ==
    /\ Go(i, "release", "done")
    /\ sem' = sem - 1
    /\ UNCHANGED <<wg, mu, seen, errs, failed>>

Done(i) ==
    /\ Go(i, "done", "gone")
    /\ wg' = wg - 1
    /\ UNCHANGED <<sem, mu, seen, errs, failed>>

Goroutine(i) ==
    \/ FnSucceeds(i) \/ FnFails(i) \/ Lock(i) \/ AppendError(i)
    \/ Unlock(i) \/ Release(i) \/ Done(i)

Cancel ==
    /\ ~cancelled
    /\ cancelled' = TRUE
    /\ UNCHANGED <<pc, next, state, sem, wg, mu, seen, errs, failed, late>>

Caller == Check \/ Start \/ Return

Finished == pc = "returned" /\ UNCHANGED vars

Next == Caller \/ (\E i \in Items : Goroutine(i)) \/ Cancel \/ Finished

Spec == Init /\ [][Next]_vars

\* fn returns: what it calls has timeouts.  A goroutine that waits for the
\* mutex gets it in the end, though others may come before it; nobody has
\* to cancel.
Fairness == WF_vars(Caller) /\ \A i \in Items : SF_vars(Goroutine(i))

FairSpec == Spec /\ Fairness
-----------------------------------------------------------------------------
(* Properties.                                                             *)

\* "at most workers goroutines": no more calls of fn at a time than that,
\* and one when the parameter is zero or negative.
AtMostWorkers == Cardinality({i \in Items : state[i] = "fn"}) <= Slots

\* When ForEach returns, no goroutine is left that could still call fn or
\* note an error, and the errors it returns are those of exactly the items
\* that failed.
NobodyLeft == \A i \in Items : state[i] \in {"none", "gone"}
ResultIsComplete == pc = "returned" => NobodyLeft /\ errs = failed

\* Without a cancellation an item that is not among the errors was done.
AllDone == pc = "returned" /\ ~cancelled => \A i \in Items : state[i] = "gone"

\* A cancellation lets at most one more item through.
AtMostOneLate == Cardinality(late) <= 1

\* ForEach returns in the end, whether or not it is cancelled.
Termination == <>(pc = "returned")
=============================================================================
