---------------------------- MODULE WorkerPool ----------------------------
(***************************************************************************)
(* How Worker keeps its threads busy: a timer dispatches drains into a     *)
(* fixed pool as long as the semaphore has slots, each drain takes jobs    *)
(* until none is due, and gives its slot back when it ends, however it     *)
(* ends.  What a job does is in PaymentFlow; here it ends well, or throws. *)
(***************************************************************************)
EXTENDS Naturals, FiniteSets

CONSTANTS
  Threads,   \* of the pool, as many as there are slots (app.worker.concurrency)
  MaxJobs    \* bound: jobs due or in work

ASSUME PoolAssumption == IsFiniteSet(Threads) /\ Threads # {} /\ MaxJobs \in Nat

Concurrency == Cardinality(Threads)

VARIABLES
  slots,     \* permits of the semaphore
  tasks,     \* drains in the executor's queue
  thread,    \* thread -> what it does
  monitor,   \* the synchronized methods being run
  turn,      \* the dispatch loop's i, and the slot (or none) it has to hand on
  stopping,  \* the flag
  down,      \* the executor has been shut down
  due        \* jobs to be claimed

poolVars == <<slots, tasks, thread, monitor, turn, stopping, down, due>>

\* A drain is "checked" between its look at the flag and its claim.  A "leaving"
\* thread has given its slot back and is not yet waiting for a task.
Busy == {"draining", "checked", "job", "ending"}

PoolTypeOK ==
  /\ slots \in Nat /\ tasks \in Nat
  /\ thread \in [Threads -> Busy \cup {"idle", "leaving"}]
  /\ monitor \subseteq {"dispatch", "shutdown"}
  /\ turn \in [i : Nat, slot : {0, 1}]
  /\ stopping \in BOOLEAN /\ down \in BOOLEAN
  /\ due \in Nat

PoolInit ==
  /\ slots = Concurrency /\ tasks = 0
  /\ thread = [t \in Threads |-> "idle"]
  /\ monitor = {}
  /\ turn = [i |-> 0, slot |-> 0]
  /\ stopping = FALSE /\ down = FALSE
  /\ due = 0

-----------------------------------------------------------------------------
(* dispatch *)

MonitorFree == monitor = {}

DispatchBegins ==
  /\ "dispatch" \notin monitor /\ MonitorFree
  /\ monitor' = monitor \cup {"dispatch"}
  /\ turn' = [i |-> 0, slot |-> 0]
  /\ UNCHANGED <<slots, tasks, thread, stopping, down, due>>

GoesOn == ~stopping /\ turn.i < Concurrency /\ slots > 0

TryAcquire ==
  /\ "dispatch" \in monitor /\ turn.slot = 0
  /\ GoesOn
  /\ slots' = slots - 1
  /\ turn' = [turn EXCEPT !.slot = 1]
  /\ UNCHANGED <<tasks, thread, monitor, stopping, down, due>>

\* The queue has no limit, so only an executor that is shut down would reject.
Execute ==
  /\ "dispatch" \in monitor /\ turn.slot = 1
  /\ tasks' = tasks + 1
  /\ turn' = [i |-> turn.i + 1, slot |-> 0]
  /\ UNCHANGED <<slots, thread, monitor, stopping, down, due>>

DispatchEnds ==
  /\ "dispatch" \in monitor /\ turn.slot = 0
  /\ ~GoesOn
  /\ monitor' = monitor \ {"dispatch"}
  /\ UNCHANGED <<slots, tasks, thread, turn, stopping, down, due>>

-----------------------------------------------------------------------------
(* drain, on thread t *)

Becomes(t, state) ==
  /\ thread' = [thread EXCEPT ![t] = state]
  /\ UNCHANGED <<monitor, turn, stopping, down>>

TakeTask(t) ==
  /\ thread[t] = "idle" /\ tasks > 0
  /\ tasks' = tasks - 1
  /\ Becomes(t, "draining")
  /\ UNCHANGED <<slots, due>>

\* shutdownNow also interrupts, after the flag is set: both end the loop here.
NeverStops == FALSE  \* mutant
StopSeen == stopping

Check(t) ==
  /\ thread[t] = "draining"
  /\ Becomes(t, IF StopSeen THEN "ending" ELSE "checked")
  /\ UNCHANGED <<slots, tasks, due>>

Claims(t) ==
  /\ thread[t] = "checked"
  /\ \/ due > 0 /\ due' = due - 1 /\ Becomes(t, "job")
     \/ due = 0 /\ UNCHANGED due /\ Becomes(t, "ending")
  /\ UNCHANGED <<slots, tasks>>

JobDone(t) ==
  /\ thread[t] = "job"
  /\ Becomes(t, "draining")
  /\ UNCHANGED <<slots, tasks, due>>

\* What an exception leads to: the finally clause, which releases the slot.
SkipsRelease == "leaving"  \* mutant
Caught == "ending"

\* The claim or the job throws; the job is due again when its lease lapses.
Throws(t) ==
  /\ \/ thread[t] = "checked" /\ UNCHANGED due
     \/ thread[t] = "job" /\ due' = due + 1
  /\ Becomes(t, Caught)
  /\ UNCHANGED <<slots, tasks>>

Release(t) ==
  /\ thread[t] = "ending"
  /\ slots' = slots + 1
  /\ Becomes(t, "leaving")
  /\ UNCHANGED <<tasks, due>>

Idles(t) ==
  /\ thread[t] = "leaving"
  /\ Becomes(t, "idle")
  /\ UNCHANGED <<slots, tasks, due>>

-----------------------------------------------------------------------------
(* shutdown *)

ShutdownBegins ==
  /\ ~stopping
  /\ MonitorFree
  /\ monitor' = monitor \cup {"shutdown"}
  /\ stopping' = TRUE
  /\ UNCHANGED <<slots, tasks, thread, turn, down, due>>

\* shutdownNow forgets the queue: the slots of those drains are never released.
ShutdownNow ==
  /\ "shutdown" \in monitor
  /\ down' = TRUE
  /\ tasks' = 0
  /\ monitor' = monitor \ {"shutdown"}
  /\ UNCHANGED <<slots, thread, turn, stopping, due>>

-----------------------------------------------------------------------------

InWork == {t \in Threads : thread[t] = "job"}

JobComes ==
  /\ due + Cardinality(InWork) < MaxJobs
  /\ due' = due + 1
  /\ UNCHANGED <<slots, tasks, thread, monitor, turn, stopping, down>>

Dispatch == DispatchBegins \/ TryAcquire \/ Execute \/ DispatchEnds
Drain(t) == TakeTask(t) \/ Check(t) \/ Claims(t) \/ JobDone(t) \/ Release(t) \/ Idles(t)
Shutdown == ShutdownBegins \/ ShutdownNow

PoolNext ==
  \/ Dispatch \/ Shutdown \/ JobComes
  \/ \E t \in Threads : Drain(t) \/ Throws(t)

PoolSpec == PoolInit /\ [][PoolNext]_poolVars

\* The timer calls dispatch again and again, threads run, a job ends (its calls have
\* timeouts), and in the end none throws any more.
FairPool ==
  /\ PoolSpec
  /\ WF_poolVars(Dispatch)
  /\ WF_poolVars(ShutdownNow)
  /\ \A t \in Threads : WF_poolVars(Drain(t))
  /\ <>[][~ \E t \in Threads : Throws(t)]_poolVars

-----------------------------------------------------------------------------
(* Properties *)

WithSlot == {t \in Threads : thread[t] \in Busy}

\* No slot is lost or given twice: each is free, in the hand of the dispatch loop, with
\* a waiting drain or with one that runs, whatever threw and whoever raced.  Only a
\* shutdown drops slots.
SlotsAddUp ==
  LET used == slots + turn.slot + tasks + Cardinality(WithSlot) IN
  IF down THEN used <= Concurrency ELSE used = Concurrency

\* dispatch never hands a drain to an executor that is shut down: its catch of
\* RejectedExecutionException is never needed, thanks to the monitor.
NothingIsRejected == turn.slot = 1 => ~down

\* A job that is due is taken up as long as the worker runs: no exception, empty queue or
\* race of a drain that ends with a job that comes leaves the pool asleep.
JobsAreTaken == due > 0 ~> (due = 0 \/ InWork # {} \/ stopping)

\* After a shutdown every thread comes to rest, though jobs keep coming.
Rests == stopping ~> (down /\ \A t \in Threads : thread[t] = "idle")
=============================================================================
