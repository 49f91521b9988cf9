------------------------- MODULE WorkerPool_proofs --------------------------
(***************************************************************************)
(* The safety properties of WorkerPool for every number of items and every *)
(* value of the parameter workers.  The inductive invariant counts: the    *)
(* semaphore holds one slot for each goroutine that has not given its own  *)
(* back, and the wait group one for each that has not ended.               *)
(***************************************************************************)
EXTENDS WorkerPool, FiniteSetTheorems, TLAPS

Holders == {i \in Items : state[i] \in Holding}
Living == {i \in Items : state[i] \in Alive}

SlotsAreCounted == sem = Cardinality(Holders)
LivingAreCounted == wg = Cardinality(Living)

\* Items are handed out in order, and all of them unless cancelled.
InOrder ==
    /\ \A i \in Items : state[i] = "none" <=> next <= i
    /\ pc = "acquire" => next <= Count
    /\ pc \in {"wait", "returned"} => next = Count + 1 \/ cancelled
    /\ pc = "returned" => \A i \in Items : state[i] \notin Alive

\* One goroutine at a time is between Lock and Unlock, and what it read of
\* errs is still there.
MutualExclusion ==
    \A i \in Items :
      /\ state[i] \in {"append", "unlock"} <=> mu = i
      /\ state[i] = "append" => seen[i] = errs

ErrorsNoted ==
    \A i \in Items :
      /\ i \in errs <=> i \in failed /\ state[i] \notin {"lock", "append"}
      /\ i \in failed => state[i] \notin {"none", "fn"}
      /\ state[i] \in {"lock", "append"} => i \in failed

LateCancel ==
    /\ ~cancelled \/ pc = "acquire" => late = {}
    /\ late = {} \/ \E i \in Items : late = {i}

IInv ==
    /\ TypeOK /\ SlotsAreCounted /\ LivingAreCounted /\ InOrder
    /\ MutualExclusion /\ ErrorsNoted /\ LateCancel

-----------------------------------------------------------------------------

LEMMA ItemsFinite == IsFiniteSet(Items) /\ Cardinality(Items) = Count
  BY PoolAssumption, FS_Interval DEF Items

LEMMA SlotsPositive == Slots \in Nat /\ Slots >= 1
  BY PoolAssumption DEF Slots

\* A set of items can be counted, and has at most Count members.
LEMMA ItemsCounted ==
  ASSUME NEW S \in SUBSET Items
  PROVE  IsFiniteSet(S) /\ Cardinality(S) \in 0..Count
<1>1. IsFiniteSet(S) /\ Cardinality(S) <= Count
  BY ItemsFinite, FS_Subset
<1>2. Cardinality(S) \in Nat
  BY <1>1, FS_CardinalityType
<1> QED
  BY <1>1, <1>2, PoolAssumption

\* The initial states satisfy the invariant.
LEMMA InitInv == Init => IInv
<1> SUFFICES ASSUME Init PROVE IInv
  OBVIOUS
<1> USE PoolAssumption, SlotsPositive
<1>1. TypeOK
  BY DEF Init, TypeOK, Items, Alive, Holding
<1>2. Holders = {} /\ Living = {}
  BY DEF Init, Holders, Living, Alive, Holding
<1>3. SlotsAreCounted /\ LivingAreCounted
  BY <1>2, FS_EmptySet DEF Init, SlotsAreCounted, LivingAreCounted
<1>4. InOrder
  BY DEF Init, InOrder, Items
<1>5. MutualExclusion /\ ErrorsNoted /\ LateCancel
  BY DEF Init, MutualExclusion, ErrorsNoted, LateCancel
<1> QED
  BY <1>1, <1>3, <1>4, <1>5 DEF IInv

\* What one step of a goroutine does to the two sets that are counted.
LEMMA GoCounts ==
  ASSUME TypeOK, NEW i \in Items, NEW from, NEW to \in Alive \union {"gone"},
         Go(i, from, to)
  PROVE  /\ state' \in [Items -> Alive \union {"none", "gone"}]
         /\ state[i] = from /\ state'[i] = to
         /\ \A j \in Items \ {i} : state'[j] = state[j]
         /\ Holders' = IF to \in Holding THEN Holders \union {i} ELSE Holders \ {i}
         /\ Living' = IF to \in Alive THEN Living \union {i} ELSE Living \ {i}
  BY DEF TypeOK, Go, Holders, Living

\* The counts stay right when one goroutine moves on: it keeps its slot, or
\* gives it back and lives, or ends.
LEMMA SameCounts ==
  ASSUME IInv, NEW i \in Items, NEW from \in Holding, NEW to \in Holding,
         Go(i, from, to), UNCHANGED <<sem, wg>>
  PROVE  SlotsAreCounted' /\ LivingAreCounted'
<1>1. /\ state[i] = from
      /\ Holders' = Holders \union {i}
      /\ Living' = Living \union {i}
  BY GoCounts DEF IInv, Alive
<1>2. i \in Holders /\ i \in Living
  BY <1>1 DEF Holders, Living, Alive
<1>3. Holders' = Holders /\ Living' = Living
  BY <1>1, <1>2
<1> QED
  BY <1>3 DEF IInv, SlotsAreCounted, LivingAreCounted

-----------------------------------------------------------------------------
(* Every action keeps the invariant.                                       *)

LEMMA CallerInv == IInv /\ Caller => IInv'
<1> SUFFICES ASSUME IInv, Caller PROVE IInv'
  OBVIOUS
<1> USE PoolAssumption, SlotsPositive
<1>1. CASE Check
  <2>1. TypeOK'
    BY <1>1 DEF IInv, TypeOK, Check
  <2>2. SlotsAreCounted' /\ LivingAreCounted'
    BY <1>1 DEF IInv, SlotsAreCounted, LivingAreCounted, Holders, Living, Check
  <2>3. InOrder'
    BY <1>1 DEF IInv, TypeOK, InOrder, Check, Items
  <2>4. MutualExclusion' /\ ErrorsNoted' /\ LateCancel'
    BY <1>1 DEF IInv, MutualExclusion, ErrorsNoted, LateCancel, Check
  <2> QED
    BY <2>1, <2>2, <2>3, <2>4 DEF IInv
<1>2. CASE Start
  <2> USE <1>2
  <2>1. next \in Items /\ next' = next + 1 /\ state[next] = "none"
    BY DEF IInv, TypeOK, InOrder, Start, Items
  <2>2. /\ state' \in [Items -> Alive \union {"none", "gone"}]
        /\ state'[next] = "fn"
        /\ \A j \in Items \ {next} : state'[j] = state[j]
    BY <2>1 DEF IInv, TypeOK, Start, Alive, Holding
  <2>3. /\ Holders' = Holders \union {next} /\ next \notin Holders
        /\ Living' = Living \union {next} /\ next \notin Living
    BY <2>1, <2>2 DEF Holders, Living, Alive, Holding
  <2>4. IsFiniteSet(Holders) /\ IsFiniteSet(Living) /\ Living' \in SUBSET Items
    BY <2>3, <2>1, ItemsCounted DEF Holders, Living
  <2>5. /\ Cardinality(Holders') = Cardinality(Holders) + 1
        /\ Cardinality(Living') = Cardinality(Living) + 1
    BY <2>3, <2>4, FS_AddElement
  <2>6. SlotsAreCounted' /\ LivingAreCounted'
    BY <2>5 DEF IInv, SlotsAreCounted, LivingAreCounted, Start
  <2>7. sem' \in 0..Slots /\ wg' \in 0..Count
    <3>1. sem' \in 0..Slots
      BY DEF IInv, TypeOK, Start
    <3>2. Cardinality(Living') \in 0..Count
      BY <2>4, ItemsCounted
    <3> QED
      BY <3>1, <3>2, <2>6 DEF LivingAreCounted
  <2>8. TypeOK'
    BY <2>1, <2>2, <2>7 DEF IInv, TypeOK, Start, Items
  <2>9. InOrder'
    BY <2>1, <2>2 DEF IInv, TypeOK, InOrder, Start, Items
  <2>10. MutualExclusion' /\ ErrorsNoted'
    BY <2>1, <2>2 DEF IInv, TypeOK, MutualExclusion, ErrorsNoted, Start
  <2>11. LateCancel'
    BY <2>1 DEF IInv, LateCancel, Start
  <2> QED
    BY <2>6, <2>8, <2>9, <2>10, <2>11 DEF IInv
<1>3. CASE Return
  <2>1. Living = {}
    <3>1. IsFiniteSet(Living)
      BY ItemsCounted DEF Living
    <3> QED
      BY <1>3, <3>1, FS_EmptySet DEF IInv, LivingAreCounted, Return
  <2>2. TypeOK'
    BY <1>3 DEF IInv, TypeOK, Return
  <2>3. SlotsAreCounted' /\ LivingAreCounted'
    BY <1>3 DEF IInv, SlotsAreCounted, LivingAreCounted, Holders, Living, Return
  <2>4. InOrder'
    BY <1>3, <2>1 DEF IInv, InOrder, Living, Return
  <2>5. MutualExclusion' /\ ErrorsNoted' /\ LateCancel'
    BY <1>3 DEF IInv, MutualExclusion, ErrorsNoted, LateCancel, Return
  <2> QED
    BY <2>2, <2>3, <2>4, <2>5 DEF IInv
<1> QED
  BY <1>1, <1>2, <1>3 DEF Caller

\* The steps in which a goroutine keeps its slot.
LEMMA KeepingInv ==
  ASSUME IInv, NEW i \in Items,
         FnSucceeds(i) \/ FnFails(i) \/ Lock(i) \/ AppendError(i) \/ Unlock(i)
  PROVE  IInv'
<1>1. \E from, to \in Holding : Go(i, from, to)
  BY DEF FnSucceeds, FnFails, Lock, AppendError, Unlock, Holding
<1>2. PICK from \in Holding, to \in Holding : Go(i, from, to)
  BY <1>1
<1>3. UNCHANGED <<sem, wg, pc, next, cancelled, late>>
  BY <1>2 DEF FnSucceeds, FnFails, Lock, AppendError, Unlock, Go
<1>4. SlotsAreCounted' /\ LivingAreCounted'
  BY <1>2, <1>3, SameCounts
<1>5. /\ state' \in [Items -> Alive \union {"none", "gone"}]
      /\ state[i] = from /\ state'[i] = to
      /\ \A j \in Items \ {i} : state'[j] = state[j]
  BY <1>2, GoCounts DEF IInv, Alive
<1>6. TypeOK'
  BY <1>3, <1>5 DEF IInv, TypeOK, FnSucceeds, FnFails, Lock, AppendError, Unlock
<1>7. InOrder'
  BY <1>3, <1>5 DEF IInv, TypeOK, InOrder, Holding, Alive
<1>8. MutualExclusion' /\ ErrorsNoted'
  <2>1. CASE FnSucceeds(i)
    BY <2>1, <1>5 DEF IInv, TypeOK, MutualExclusion, ErrorsNoted, FnSucceeds, Go
  <2>2. CASE FnFails(i)
    BY <2>2, <1>5 DEF IInv, TypeOK, MutualExclusion, ErrorsNoted, FnFails, Go
  <2>3. CASE Lock(i)
    BY <2>3, <1>5, PoolAssumption
    DEF IInv, TypeOK, MutualExclusion, ErrorsNoted, Lock, Go
  <2>4. CASE AppendError(i)
    BY <2>4, <1>5 DEF IInv, TypeOK, MutualExclusion, ErrorsNoted, AppendError, Go
  <2>5. CASE Unlock(i)
    BY <2>5, <1>5, PoolAssumption
    DEF IInv, TypeOK, MutualExclusion, ErrorsNoted, Unlock, Go
  <2> QED
    BY <2>1, <2>2, <2>3, <2>4, <2>5
<1>9. LateCancel'
  BY <1>3 DEF IInv, LateCancel
<1> QED
  BY <1>4, <1>6, <1>7, <1>8, <1>9 DEF IInv

LEMMA ReleaseInv ==
  ASSUME IInv, NEW i \in Items, Release(i)
  PROVE  IInv'
<1>1. /\ state' \in [Items -> Alive \union {"none", "gone"}]
      /\ state[i] = "release" /\ state'[i] = "done"
      /\ \A j \in Items \ {i} : state'[j] = state[j]
      /\ Holders' = Holders \ {i} /\ Living' = Living \union {i}
  BY GoCounts DEF IInv, Release, Alive, Holding
<1>2. i \in Holders /\ i \in Living /\ IsFiniteSet(Holders)
  BY <1>1, ItemsCounted DEF Holders, Living, Alive, Holding
<1>3. Living' = Living /\ Cardinality(Holders') = Cardinality(Holders) - 1
  BY <1>1, <1>2, FS_RemoveElement
<1>4. SlotsAreCounted' /\ LivingAreCounted'
  BY <1>3 DEF IInv, SlotsAreCounted, LivingAreCounted, Release
<1>5. sem' \in 0..Slots
  <2>1. Cardinality(Holders') \in Nat
    BY <1>1, ItemsCounted DEF Holders
  <2> QED
    BY <2>1, <1>4, SlotsPositive DEF IInv, TypeOK, SlotsAreCounted, Release
<1>6. TypeOK'
  BY <1>1, <1>5 DEF IInv, TypeOK, Release, Go
<1>7. InOrder' /\ MutualExclusion' /\ ErrorsNoted' /\ LateCancel'
  BY <1>1 DEF IInv, TypeOK, InOrder, MutualExclusion, ErrorsNoted, LateCancel,
              Release, Go, Alive, Holding
<1> QED
  BY <1>4, <1>6, <1>7 DEF IInv

LEMMA DoneInv ==
  ASSUME IInv, NEW i \in Items, Done(i)
  PROVE  IInv'
<1>1. /\ state' \in [Items -> Alive \union {"none", "gone"}]
      /\ state[i] = "done" /\ state'[i] = "gone"
      /\ \A j \in Items \ {i} : state'[j] = state[j]
      /\ Holders' = Holders \ {i} /\ Living' = Living \ {i}
  BY GoCounts DEF IInv, Done, Alive, Holding
<1>2. i \notin Holders /\ i \in Living /\ IsFiniteSet(Living)
  BY <1>1, ItemsCounted DEF Holders, Living, Alive, Holding
<1>3. Holders' = Holders /\ Cardinality(Living') = Cardinality(Living) - 1
  BY <1>1, <1>2, FS_RemoveElement
<1>4. SlotsAreCounted' /\ LivingAreCounted'
  BY <1>3 DEF IInv, SlotsAreCounted, LivingAreCounted, Done
<1>5. wg' \in 0..Count
  <2>1. Cardinality(Living') \in 0..Count
    BY <1>1, ItemsCounted DEF Living
  <2> QED
    BY <2>1, <1>4 DEF LivingAreCounted
<1>6. TypeOK'
  BY <1>1, <1>5 DEF IInv, TypeOK, Done, Go
<1>7. InOrder' /\ MutualExclusion' /\ ErrorsNoted' /\ LateCancel'
  BY <1>1 DEF IInv, TypeOK, InOrder, MutualExclusion, ErrorsNoted, LateCancel,
              Done, Go, Alive, Holding
<1> QED
  BY <1>4, <1>6, <1>7 DEF IInv

LEMMA CancelInv == IInv /\ Cancel => IInv'
  BY DEF IInv, Cancel, TypeOK, SlotsAreCounted, LivingAreCounted, Holders, Living,
         InOrder, MutualExclusion, ErrorsNoted, LateCancel

LEMMA NextInv == IInv /\ [Next]_vars => IInv'
<1> SUFFICES ASSUME IInv, [Next]_vars PROVE IInv'
  OBVIOUS
<1>1. CASE Caller
  BY <1>1, CallerInv
<1>2. ASSUME NEW i \in Items, Goroutine(i) PROVE IInv'
  BY <1>2, KeepingInv, ReleaseInv, DoneInv DEF Goroutine
<1>3. CASE Cancel
  BY <1>3, CancelInv
<1>4. CASE Finished \/ UNCHANGED vars
  BY <1>4 DEF Finished, vars, IInv, TypeOK, SlotsAreCounted, LivingAreCounted,
              Holders, Living, InOrder, MutualExclusion, ErrorsNoted, LateCancel
<1> QED
  BY <1>1, <1>2, <1>3, <1>4 DEF Next

\* The inductive invariant holds in every reachable state.
THEOREM Invariant == Spec => []IInv
  BY InitInv, NextInv, PTL DEF Spec

-----------------------------------------------------------------------------
(* The properties.                                                         *)

\* TypeOK holds for every Count and Workers.
THEOREM TypeCorrect == Spec => []TypeOK
<1>1. IInv => TypeOK
  BY DEF IInv
<1> QED
  BY <1>1, Invariant, PTL

\* ForEach never has more calls of fn under way than workers, or than one
\* when workers is zero or negative.
THEOREM BoundedConcurrency == Spec => []AtMostWorkers
<1>1. IInv => AtMostWorkers
  <2> SUFFICES ASSUME IInv PROVE AtMostWorkers
    OBVIOUS
  <2> DEFINE Calling == {i \in Items : state[i] = "fn"}
  <2>1. Calling \in SUBSET Holders /\ IsFiniteSet(Holders) /\ Cardinality(Holders) \in Nat
    BY ItemsCounted DEF Holders, Holding
  <2>2. IsFiniteSet(Calling) /\ Cardinality(Calling) <= Cardinality(Holders)
    BY <2>1, FS_Subset
  <2>3. Cardinality(Calling) \in Nat
    BY <2>2, FS_CardinalityType
  <2>4. Cardinality(Holders) <= Slots
    BY SlotsPositive DEF IInv, SlotsAreCounted, TypeOK
  <2> QED
    BY <2>1, <2>2, <2>3, <2>4, SlotsPositive DEF AtMostWorkers
<1> QED
  BY <1>1, Invariant, PTL

\* When ForEach has returned, no goroutine is left and its errors are those
\* of exactly the items that failed.
THEOREM CompleteResult == Spec => []ResultIsComplete
<1>1. IInv => ResultIsComplete
  BY DEF IInv, TypeOK, InOrder, ErrorsNoted, ResultIsComplete, NobodyLeft, Alive, Holding
<1> QED
  BY <1>1, Invariant, PTL

\* Without a cancellation every item was done when ForEach returns.
THEOREM NothingLeftOut == Spec => []AllDone
<1>1. IInv => AllDone
  BY PoolAssumption DEF IInv, TypeOK, InOrder, AllDone, Items
<1> QED
  BY <1>1, Invariant, PTL

\* A cancellation lets at most one more item through.
THEOREM OneLate == Spec => []AtMostOneLate
<1>1. IInv => AtMostOneLate
  <2> SUFFICES ASSUME IInv PROVE AtMostOneLate
    OBVIOUS
  <2>1. CASE late = {}
    BY <2>1, FS_EmptySet DEF AtMostOneLate
  <2>2. CASE \E i \in Items : late = {i}
    <3>1. PICK i \in Items : late = {i}
      BY <2>2
    <3>2. Cardinality({i}) = 1
      BY FS_Singleton
    <3> QED
      BY <3>1, <3>2 DEF AtMostOneLate
  <2> QED
    BY <2>1, <2>2 DEF IInv, LateCancel
<1> QED
  BY <1>1, Invariant, PTL
=============================================================================
