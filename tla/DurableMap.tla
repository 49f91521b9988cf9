----------------------------- MODULE DurableMap -----------------------------
(***************************************************************************)
(* What docs/serve.md promises of `gnife serve', for the objects of one    *)
(* organisation, without saying how: a map that is served from `view' and  *)
(* kept in `store'.  A request changes some keys of the view; the same     *)
(* change then reaches the store, key by key; a crash loses what has not   *)
(* reached it and nothing else; a restart serves exactly what is stored.   *)
(* A request that is answered with an error owes the store its keys until  *)
(* the next change of them reaches it.                                     *)
(***************************************************************************)
CONSTANTS Keys, Values, Nothing, Ruined

VARIABLES
    view,        \* key -> value served, Nothing when the key is not there
    store,       \* key -> value kept, or Ruined
    pending,     \* the accepted change that has not reached the store yet
    owed,        \* keys whose last change was answered with an error
    serving      \* FALSE between a crash and the next start

mapVars == <<view, store, pending, owed, serving>>

NoChange == [k \in {} |-> Nothing]

\* A write that is cut short: it reached the keys of S and ruined those of T.
Interrupted(S, T) ==
    /\ \A k \in T : pending[k] # Nothing
    /\ store' = [k \in Keys |-> IF k \in T THEN Ruined
                                ELSE IF k \in S THEN pending[k] ELSE store[k]]

Init ==
    /\ view \in [Keys -> Values \union {Nothing}]
    /\ store = view
    /\ pending = NoChange /\ owed = {} /\ serving = TRUE

\* The accepted change becomes what is pending.
Accept ==
    /\ serving /\ pending = NoChange
    /\ UNCHANGED <<serving, owed, store>>
    /\ view' = [k \in Keys |-> IF k \in DOMAIN pending' THEN pending'[k] ELSE view[k]]
    /\ DOMAIN pending' \subseteq Keys

\* A change of the keys of S that is answered with an error is served all the
\* same.
Refuse(S) ==
    /\ serving /\ pending = NoChange
    /\ view' = [k \in Keys |-> IF k \in S THEN view'[k] ELSE view[k]]
    /\ owed' = owed \union S
    /\ UNCHANGED <<store, pending, serving>>

Commit(S) ==
    /\ serving
    /\ store' = [k \in Keys |-> IF k \in S THEN pending[k] ELSE store[k]]
    /\ pending' = [k \in DOMAIN pending \ S |-> pending[k]]
    /\ owed' = owed \ S
    /\ UNCHANGED <<view, serving>>

\* Answered with an error halfway.
Fail(S, T) ==
    /\ serving
    /\ Interrupted(S, T)
    /\ pending' = NoChange
    /\ owed' = owed \union DOMAIN pending
    /\ UNCHANGED <<view, serving>>

Crash(S, T) ==
    /\ serving
    /\ Interrupted(S, T)
    /\ pending' = NoChange
    /\ serving' = FALSE
    /\ owed' = {}
    /\ view' = [k \in Keys |-> Nothing]

Restart ==
    /\ ~serving
    /\ \A k \in Keys : store[k] # Ruined
    /\ serving' = TRUE
    /\ view' = store
    /\ UNCHANGED <<store, pending, owed>>

Next ==
    \/ Accept
    \/ \E S \in SUBSET Keys : Refuse(S)
    \/ \E S \in SUBSET DOMAIN pending :
          Commit(S) \/ \E T \in SUBSET S : Fail(S, T) \/ Crash(S, T)
    \/ Restart

Spec == Init /\ [][Next]_mapVars
=============================================================================
