------------------------- MODULE WorkerPoolProofs -------------------------
(***************************************************************************)
(* The slots of WorkerPool add up, for any number of threads, and dispatch *)
(* never meets an executor that is shut down.                              *)
(***************************************************************************)
EXTENDS WorkerPool, FiniteSetTheorems, TLAPS

\* What synchronized gives: one method at a time, and a slot in hand only in dispatch;
\* the flag is set before the executor is shut down.
MonitorInv ==
  /\ ~ ("dispatch" \in monitor /\ "shutdown" \in monitor)
  /\ turn.slot = 1 => "dispatch" \in monitor
  /\ "shutdown" \in monitor => stopping /\ ~down
  /\ down => stopping

PoolInv == PoolTypeOK /\ MonitorInv /\ SlotsAddUp /\ NothingIsRejected

-----------------------------------------------------------------------------

\* The threads with a slot are finitely many.
LEMMA WithSlotFinite == IsFiniteSet(WithSlot) /\ Cardinality(WithSlot) \in Nat
<1>1. WithSlot \subseteq Threads
  BY DEF WithSlot
<1> QED
  BY <1>1, FS_Subset, FS_CardinalityType, PoolAssumption

\* One thread more has a slot once it takes a task.
LEMMA OneMore ==
  ASSUME PoolTypeOK, NEW t \in Threads, thread[t] \notin Busy,
         thread' = [thread EXCEPT ![t] = "draining"]
  PROVE Cardinality(WithSlot)' = Cardinality(WithSlot) + 1
<1>1. WithSlot' = WithSlot \cup {t} /\ t \notin WithSlot
  BY DEF WithSlot, Busy, PoolTypeOK
<1> QED
  BY <1>1, WithSlotFinite, FS_AddElement

\* One thread fewer has a slot once it is released.
LEMMA OneFewer ==
  ASSUME PoolTypeOK, NEW t \in Threads, thread[t] \in Busy,
         thread' = [thread EXCEPT ![t] = "leaving"]
  PROVE Cardinality(WithSlot) = Cardinality(WithSlot)' + 1
<1>1. WithSlot' = WithSlot \ {t} /\ t \in WithSlot
  BY DEF WithSlot, Busy, PoolTypeOK
<1>2. Cardinality(WithSlot \ {t}) = Cardinality(WithSlot) - 1
  BY <1>1, WithSlotFinite, FS_RemoveElement
<1> QED
  BY <1>1, <1>2, WithSlotFinite

\* A thread that keeps its slot, or stays without one, changes nothing.
LEMMA AsMany ==
  ASSUME PoolTypeOK, NEW t \in Threads, NEW state,
         thread[t] \in Busy <=> state \in Busy,
         thread' = [thread EXCEPT ![t] = state]
  PROVE Cardinality(WithSlot)' = Cardinality(WithSlot)
<1>1. WithSlot' = WithSlot
  BY DEF WithSlot, PoolTypeOK
<1> QED
  BY <1>1

-----------------------------------------------------------------------------

\* At first every slot is free.
LEMMA InitPool == PoolInit => PoolInv
<1> SUFFICES ASSUME PoolInit PROVE PoolInv
  OBVIOUS
<1>1. Concurrency \in Nat
  BY PoolAssumption, FS_CardinalityType DEF Concurrency
<1>2. WithSlot = {}
  BY DEF PoolInit, WithSlot, Busy
<1>3. Cardinality(WithSlot) = 0
  BY <1>2, FS_EmptySet
<1>4. PoolTypeOK
  BY <1>1 DEF PoolInit, PoolTypeOK
<1>5. MonitorInv /\ NothingIsRejected
  BY DEF PoolInit, MonitorInv, NothingIsRejected
<1>6. slots + turn.slot + tasks + Cardinality(WithSlot) = Concurrency
  BY <1>1, <1>3 DEF PoolInit
<1>7. SlotsAddUp
  BY <1>6 DEF PoolInit, SlotsAddUp
<1> QED
  BY <1>4, <1>5, <1>7 DEF PoolInv

\* Every step keeps the types and what the monitor gives.
LEMMA PoolTypeNext ==
  PoolInv /\ [PoolNext]_poolVars => (PoolTypeOK /\ MonitorInv /\ NothingIsRejected)'
<1> DEFINE Kept == PoolTypeOK /\ MonitorInv /\ NothingIsRejected
<1> SUFFICES ASSUME PoolInv, [PoolNext]_poolVars PROVE Kept'
  OBVIOUS
<1> USE DEF PoolInv, PoolTypeOK, MonitorInv, NothingIsRejected
<1>1. CASE Dispatch
  BY <1>1 DEF Dispatch, DispatchBegins, MonitorFree, TryAcquire, Execute, DispatchEnds, GoesOn
<1>2. CASE Shutdown
  <2>1. CASE ShutdownBegins
    <3>1. PoolTypeOK'
      BY <2>1 DEF ShutdownBegins
    <3>2. MonitorInv'
      BY <2>1 DEF ShutdownBegins, MonitorFree
    <3> QED
      BY <2>1, <3>1, <3>2 DEF ShutdownBegins
  <2>2. CASE ShutdownNow
    <3>1. PoolTypeOK'
      BY <2>2 DEF ShutdownNow
    <3>2. MonitorInv'
      BY <2>2 DEF ShutdownNow
    <3> QED
      BY <2>2, <3>1, <3>2 DEF ShutdownNow
  <2> QED
    BY <1>2, <2>1, <2>2 DEF Shutdown
<1>3. CASE JobComes
  BY <1>3 DEF JobComes
<1>4. ASSUME NEW t \in Threads, Drain(t) PROVE Kept'
  <2>1. UNCHANGED <<monitor, turn, stopping, down>>
    BY <1>4 DEF Drain, TakeTask, Check, Claims, JobDone, Release, Idles, Becomes
  <2>2. thread' \in [Threads -> Busy \cup {"idle", "leaving"}]
    BY <1>4 DEF Drain, TakeTask, Check, Claims, JobDone, Release, Idles, Becomes, Busy
  <2>3. slots' \in Nat /\ tasks' \in Nat /\ due' \in Nat
    BY <1>4 DEF Drain, TakeTask, Check, Claims, JobDone, Release, Idles
  <2> QED
    BY <2>1, <2>2, <2>3
<1>5. ASSUME NEW t \in Threads, Throws(t) PROVE Kept'
  BY <1>5 DEF Throws, Becomes, Caught, Busy
<1>6. CASE UNCHANGED poolVars
  BY <1>6 DEF poolVars
<1> HIDE DEF Kept
<1> QED
  BY <1>1, <1>2, <1>3, <1>4, <1>5, <1>6 DEF PoolNext

\* Every step hands a slot on, or leaves it where it is.
LEMMA SlotsNext ==
  PoolInv /\ [PoolNext]_poolVars => SlotsAddUp'
<1> SUFFICES ASSUME PoolInv, [PoolNext]_poolVars PROVE SlotsAddUp'
  OBVIOUS
<1> DEFINE n == Cardinality(WithSlot)
<1>1. n \in Nat /\ n' \in Nat
  <2>1. WithSlot' \subseteq Threads
    BY DEF WithSlot
  <2> QED
    BY <2>1, WithSlotFinite, FS_Subset, FS_CardinalityType, PoolAssumption
<1>2. Concurrency \in Nat
  BY PoolAssumption, FS_CardinalityType DEF Concurrency
<1>3. PoolTypeOK /\ SlotsAddUp /\ MonitorInv
  BY DEF PoolInv
<1>4. PoolTypeOK'
  BY PoolTypeNext
<1>5. ASSUME UNCHANGED thread PROVE n' = n
  BY <1>5 DEF WithSlot
<1> HIDE DEF n
<1>6. CASE Dispatch
  <2>1. n' = n
    BY <1>5, <1>6 DEF Dispatch, DispatchBegins, TryAcquire, Execute, DispatchEnds
  <2> QED
    BY <1>1, <1>2, <1>3, <1>4, <1>6, <2>1
    DEF n, Dispatch, DispatchBegins, MonitorFree, TryAcquire, Execute, DispatchEnds, GoesOn,
        SlotsAddUp, PoolTypeOK, MonitorInv
<1>7. CASE Shutdown
  <2>1. n' = n
    BY <1>5, <1>7 DEF Shutdown, ShutdownBegins, ShutdownNow
  <2> QED
    BY <1>1, <1>2, <1>3, <1>4, <1>7, <2>1
    DEF n, Shutdown, ShutdownBegins, ShutdownNow, SlotsAddUp, PoolTypeOK, MonitorInv
<1>8. CASE JobComes
  <2>1. n' = n
    BY <1>5, <1>8 DEF JobComes
  <2> QED
    BY <1>3, <1>8, <2>1 DEF n, JobComes, SlotsAddUp
<1>9. ASSUME NEW t \in Threads, Drain(t) PROVE SlotsAddUp'
  <2>1. CASE TakeTask(t)
    <3>1. n' = n + 1
      BY <1>3, <2>1, OneMore DEF TakeTask, Becomes, Busy, n
    <3> QED
      BY <1>1, <1>2, <1>3, <2>1, <3>1 DEF n, TakeTask, Becomes, SlotsAddUp, PoolTypeOK
  <2>2. CASE Release(t)
    <3>1. n = n' + 1
      BY <1>3, <2>2, OneFewer DEF Release, Becomes, Busy, n
    <3> QED
      BY <1>1, <1>2, <1>3, <2>2, <3>1 DEF n, Release, Becomes, SlotsAddUp, PoolTypeOK
  <2>3. CASE Check(t) \/ Claims(t) \/ JobDone(t) \/ Idles(t)
    <3>1. PICK state : /\ thread[t] \in Busy <=> state \in Busy
                       /\ thread' = [thread EXCEPT ![t] = state]
                       /\ UNCHANGED <<slots, tasks, turn, down>>
      BY <2>3 DEF Check, Claims, JobDone, Idles, Becomes, Busy
    <3>2. n' = n
      BY <1>3, <3>1, AsMany DEF n
    <3> QED
      BY <1>3, <3>1, <3>2 DEF n, SlotsAddUp
  <2> QED
    BY <1>9, <2>1, <2>2, <2>3 DEF Drain
<1>10. ASSUME NEW t \in Threads, Throws(t) PROVE SlotsAddUp'
  <2>1. /\ thread[t] \in Busy
        /\ thread' = [thread EXCEPT ![t] = "ending"]
        /\ UNCHANGED <<slots, tasks, turn, down>>
    BY <1>10 DEF Throws, Becomes, Caught, Busy
  <2>2. n' = n
    BY <1>3, <2>1, AsMany DEF n, Busy
  <2> QED
    BY <1>3, <2>1, <2>2 DEF n, SlotsAddUp
<1>11. CASE UNCHANGED poolVars
  BY <1>3, <1>5, <1>11 DEF n, poolVars, SlotsAddUp
<1> QED
  BY <1>6, <1>7, <1>8, <1>9, <1>10, <1>11 DEF PoolNext

\* The invariant holds always.
THEOREM PoolInvariance == PoolSpec => []PoolInv
<1>1. PoolInv /\ [PoolNext]_poolVars => PoolInv'
  BY PoolTypeNext, SlotsNext DEF PoolInv
<1> QED
  BY <1>1, InitPool, PTL DEF PoolSpec

\* The variables keep their types; the semaphore never goes below zero.
THEOREM PoolTyped == PoolSpec => []PoolTypeOK
<1>1. PoolInv => PoolTypeOK
  BY DEF PoolInv
<1> QED
  BY <1>1, PoolInvariance, PTL

\* No slot of Worker is lost or given twice, for any concurrency.
THEOREM SlotsAreKept == PoolSpec => []SlotsAddUp
<1>1. PoolInv => SlotsAddUp
  BY DEF PoolInv
<1> QED
  BY <1>1, PoolInvariance, PTL

\* Worker.dispatch never hands a drain to an executor that is shut down.
THEOREM NeverRejected == PoolSpec => []NothingIsRejected
<1>1. PoolInv => NothingIsRejected
  BY DEF PoolInv
<1> QED
  BY <1>1, PoolInvariance, PTL
=============================================================================
