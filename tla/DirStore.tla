------------------------------ MODULE DirStore ------------------------------
(***************************************************************************)
(* The directory behind `gnife serve` (internal/serve/store.go) and the    *)
(* discipline every handler of internal/chefserver follows with it: under  *)
(* the server's one mutex a handler first changes memory, then performs    *)
(* the file operations of its store calls one after the other, then        *)
(* answers.  No other request runs meanwhile, but the process may die      *)
(* between any two of them, or in the middle of a file write.              *)
(*                                                                         *)
(* A file operation names the paths it changes and what they hold          *)
(* afterwards: one path and its content for a write, several for the       *)
(* removal of a directory.  `todo' is what the handler that holds the      *)
(* mutex has still to do to the disk; the modules that extend this one add *)
(* the memory and the handlers.                                            *)
(***************************************************************************)
EXTENDS Naturals, Sequences, FiniteSets

CONSTANTS
    Absent,      \* content of a path where there is no file
    Torn,        \* content of a file whose write was cut short: not JSON
    Dir,         \* content of a path that is a directory
    MaxStale     \* bound: no I/O error while so many paths are out of step

ASSUME MaxStaleIsNat == MaxStale \in Nat
ASSUME MarksDiffer == Absent # Torn /\ Torn # Dir /\ Absent # Dir

VARIABLES
    disk,        \* path -> content
    todo,        \* file operations left to the handler holding the mutex
    up,          \* TRUE while a server process runs over the directory
    stale        \* history: paths whose last store call returned an error

storeVars == <<disk, todo, up, stale>>

Idle == up /\ todo = <<>>

-----------------------------------------------------------------------------
(* File operations.                                                        *)

Write(p, content) == [at |-> {p}, holds |-> content]
RemoveAll(S) == [at |-> S, holds |-> Absent]
RemoveFile(p) == RemoveAll({p})

Apply(op, d) == [p \in DOMAIN d |-> IF p \in op.at THEN op.holds ELSE d[p]]

\* What an operation leaves behind when it is cut short: os.WriteFile
\* truncates the file before it writes; a directory is there or it is not.
CutShort(op, done) ==
    [at |-> done, holds |-> IF op.holds \in {Absent, Dir} THEN op.holds ELSE Torn]

Touched(ops) == UNION {ops[i].at : i \in DOMAIN ops}

-----------------------------------------------------------------------------
(* A handler leaves the operations of its store call behind it.  A call    *)
(* that was about path p can also return an error: at once, when a name    *)
(* cannot be a file name or a body is not JSON, or after some operations.  *)

StoreCallFails(p, ops) ==
    /\ todo' = ops
    /\ stale' = stale \union {p}
    /\ UNCHANGED <<disk, up>>

StoreCall(p, ops, accepted) ==
    IF accepted THEN todo' = ops /\ UNCHANGED <<disk, up, stale>>
                ELSE StoreCallFails(p, <<>>)

\* A handler that makes no store call, or an answer without effect.
NoStoreCall == UNCHANGED storeVars

StoreStep ==
    /\ up /\ todo # <<>>
    /\ disk' = Apply(Head(todo), disk)
    /\ todo' = Tail(todo)
    /\ stale' = stale \ Head(todo).at
    /\ UNCHANGED up

\* DirStore removes some files with `_ = os.Remove(...)': those of lax.
ErrorIgnored(lax) == \E p \in lax : Head(todo) = RemoveFile(p)

\* An I/O error that is seen: the handler answers 500 at once and drops the
\* rest.  The paths of S are no longer known to hold what memory says.
StoreFaultOn(S, lax) ==
    /\ up /\ todo # <<>> /\ ~ErrorIgnored(lax)
    /\ Cardinality(stale) < MaxStale
    /\ \E done \in SUBSET Head(todo).at :
          disk' = Apply(CutShort(Head(todo), done), disk)
    /\ stale' = stale \union S
    /\ todo' = <<>>
    /\ UNCHANGED up

StoreFault == StoreFaultOn(Touched(todo), {})

\* An I/O error that nobody sees: the file stays and the handler goes on, to
\* answer as if it were gone.
StoreFaultIgnored(lax) ==
    /\ up /\ todo # <<>> /\ ErrorIgnored(lax)
    /\ todo' = Tail(todo)
    /\ UNCHANGED <<disk, up, stale>>

\* The process dies, perhaps in the middle of a file operation.
ProcessDies ==
    /\ up
    /\ \/ disk' = disk
       \/ /\ todo # <<>>
          /\ \E done \in SUBSET Head(todo).at :
                disk' = Apply(CutShort(Head(todo), done), disk)
    /\ todo' = <<>>
    /\ up' = FALSE
    /\ stale' = {}

\* DirStore.Load gives up when a file it insists on is not JSON.
Loadable(S) == \A p \in S : disk[p] # Torn

\* Bug: a file that is not JSON is taken as it is.
ProcessStartsAnyhow(S) ==
    /\ ~up
    /\ up' = TRUE
    /\ UNCHANGED <<disk, todo, stale>>

ProcessStarts(S) ==
    /\ ~up
    /\ Loadable(S)
    /\ up' = TRUE
    /\ UNCHANGED <<disk, todo, stale>>

=============================================================================
