---------------------------- MODULE PaymentFlow ----------------------------
(***************************************************************************)
(* How payments reach their result: workers claim due attempts under a     *)
(* lease, ask the payment provider over HTTP and apply what they heard,    *)
(* while callbacks, the expiry sweep and new payments run beside them.     *)
(* The transactions are those of Checkout; this module adds the steps      *)
(* between them, and what may happen there: a lease runs out under a slow  *)
(* worker, an answer is lost or comes too late, a request reaches the      *)
(* provider after its sender gave up, a worker dies, a sweep breaks off.   *)
(*                                                                         *)
(* The provider is the mock one.  Two forgotten requests that are alike    *)
(* count as one.                                                           *)
(***************************************************************************)
EXTENDS Checkout

CONSTANTS
  Workers, Nobody,
  LeaseSeconds,    \* how long a claim keeps others from an attempt
  RecheckSeconds,  \* when an attempt without a final result is due again
  SettleSeconds,   \* when the provider decides on a DELAYED_SUCCESS
  SweepLimit       \* how many due orders one sweep takes

ASSUME FlowAssumption ==
  /\ {LeaseSeconds, RecheckSeconds, SettleSeconds, SweepLimit} \subseteq Nat
  /\ Nobody \notin Workers

VARIABLES
  jobs,      \* attempt id -> when it is due and until when it is leased
  receipts,  \* attempt id -> the provider's record of it
  workers,   \* worker -> where its drain loop is
  calls,     \* requests on their way to the provider
  sweep      \* ids the running sweep found due and has not come to yet

flow == <<jobs, receipts, workers, calls, sweep>>
flowVars == <<vars, flow>>

Idle == [pc |-> "idle"]

FlowInit ==
  /\ Init
  /\ jobs = <<>>
  /\ receipts = <<>>
  /\ workers = [w \in Workers |-> Idle]
  /\ calls = {}
  /\ sweep = {}

-----------------------------------------------------------------------------
(* The API and the sweep *)

\* Transactions of the API that need nothing of this module.
Shop ==
  /\ \/ \E s \in Sales, opensAt \in 0..MaxOpensIn : CreateSale(s, opensAt)
     \/ \E u \in Users, k \in Keys, s \in Sales, request \in Requests, o \in OrderIds :
          Purchase(u, k, s, request, o)
  /\ UNCHANGED flow

StartPayment(o, k, scenario, a) ==
  /\ Start(o, k, scenario, a)
  /\ jobs' = Insert(jobs, a, [nextCheckAt |-> 0, leaseUntil |-> Null])
  /\ UNCHANGED <<receipts, workers, calls, sweep>>

\* PaymentService.apply, with the columns only the workers read.
ApplyAndReschedule(a, result) ==
  /\ Apply(a, result)
  /\ jobs' = [jobs EXCEPT ![a] = [nextCheckAt |-> RecheckSeconds, leaseUntil |-> Null]]

\* The provider reports what it has recorded, or an older UNKNOWN.
Callback(a) ==
  /\ a \in DOMAIN receipts
  /\ \E result \in {receipts[a].result, "UNKNOWN"} : ApplyAndReschedule(a, result)
  /\ UNCHANGED <<receipts, workers, calls, sweep>>

\* The query takes those whose holds lapsed first, which is not told apart here.
FindDue ==
  LET due == {o \in DOMAIN orders : Due(o)} IN
  /\ sweep = {}
  /\ sweep' \in {batch \in SUBSET due :
                  batch = due \/ Cardinality(batch) = SweepLimit}
  /\ Cardinality(sweep') <= SweepLimit
  /\ UNCHANGED <<vars, jobs, receipts, workers, calls>>

ExpireNext(o) ==
  /\ o \in sweep
  /\ sweep' = sweep \ {o}
  /\ IF Due(o) THEN Expire(o) ELSE UNCHANGED vars
  /\ UNCHANGED <<jobs, receipts, workers, calls>>

\* An exception out of expire() ends this sweep; the next one starts afresh.
SweepFails ==
  /\ sweep # {}
  /\ sweep' = {}
  /\ UNCHANGED <<vars, jobs, receipts, workers, calls>>

-----------------------------------------------------------------------------
(* A worker's drain loop *)

FirstTryOnly(a) == attempts[a].status = "CREATED" /\ jobs[a].leaseUntil \in {Null, 0}  \* mutant
NeverLeased(a) == ~Terminal(a) /\ jobs[a] = [nextCheckAt |-> 0, leaseUntil |-> Null]  \* mutant
Claimable(a) ==
  /\ ~Terminal(a)
  /\ jobs[a].nextCheckAt = 0
  /\ jobs[a].leaseUntil \in {Null, 0}

\* PaymentJobs.claim
Claim(w, a) ==
  /\ workers[w] = Idle
  /\ a \in DOMAIN attempts
  /\ Claimable(a)
  /\ jobs' = [jobs EXCEPT ![a].leaseUntil = LeaseSeconds]
  /\ workers' = [workers EXCEPT ![w] = [pc |-> "claimed", attempt |-> a]]
  /\ UNCHANGED <<vars, receipts, calls, sweep>>

\* PaymentService.work reads the attempt, then, in a second query, its hold.
ReadAttempt(w) ==
  /\ workers[w].pc = "claimed"
  /\ workers' = [workers EXCEPT ![w] =
                   IF Terminal(@.attempt) THEN Idle ELSE [@ EXCEPT !.pc = "read"]]
  /\ UNCHANGED <<vars, jobs, receipts, calls, sweep>>

ReadDeadlineAndSend(w) ==
  LET a == workers[w].attempt IN
  /\ workers[w].pc = "read"
  /\ workers' = [workers EXCEPT ![w].pc = "calling"]
  /\ calls' = calls \cup
       {[attempt |-> a, from |-> w,
         deadline |-> reservations[attempts[a].order].confirmationDeadline]}
  /\ UNCHANGED <<vars, jobs, receipts, sweep>>

Answered(w, a, result) ==
  workers' = [workers EXCEPT ![w] = [pc |-> "answered", attempt |-> a, result |-> result]]

\* Nobody waits for the calls of w any more.
Forsaken(w) == {IF c.from = w THEN [c EXCEPT !.from = Nobody] ELSE c : c \in calls}

NoAnswerIsFailure == "FAILED"  \* mutant
NoAnswer == "UNKNOWN"

\* A timeout, an I/O error or a status other than 200.
GiveUp(w) ==
  /\ workers[w].pc = "calling"
  /\ Answered(w, workers[w].attempt, NoAnswer)
  /\ calls' = Forsaken(w)
  /\ UNCHANGED <<vars, jobs, receipts, sweep>>

\* apply() of the answer.  When the attempt is final already it does nothing, or
\* throws if the answer contradicts it; either way the worker is done with it.
ApplyAnswer(w) ==
  LET a == workers[w].attempt IN
  /\ workers[w].pc = "answered"
  /\ \/ ApplyAndReschedule(a, workers[w].result)
     \/ (Terminal(a) /\ UNCHANGED <<vars, jobs>>)
  /\ workers' = [workers EXCEPT ![w] = Idle]
  /\ UNCHANGED <<receipts, calls, sweep>>

\* The process dies, or an exception ends this drain.
Crash(w) ==
  /\ workers[w] # Idle
  /\ workers' = [workers EXCEPT ![w] = Idle]
  /\ calls' = Forsaken(w)
  /\ UNCHANGED <<vars, jobs, receipts, sweep>>

-----------------------------------------------------------------------------
(* The provider and the network *)

FirstResultAnyTime(c) ==  \* mutant
  CASE attempts[c.attempt].scenario = "FAILURE" -> "FAILED"
    [] attempts[c.attempt].scenario \in {"UNKNOWN", "DELAYED_SUCCESS"} -> "UNKNOWN"
    [] OTHER -> "SUCCEEDED"
FirstResultPending(c) == IF c.deadline = 0 THEN "FAILED" ELSE "PROCESSING"  \* mutant
FirstResult(c) ==
  CASE c.deadline = 0 \/ attempts[c.attempt].scenario = "FAILURE" -> "FAILED"
    [] c.deadline > 0 /\ attempts[c.attempt].scenario \in {"UNKNOWN", "DELAYED_SUCCESS"} -> "UNKNOWN"
    [] OTHER -> "SUCCEEDED"

\* The provider's record of the call's attempt once it accepts the call: the
\* first call makes it, a later one may find a delayed success settled.
DecideAgain(c) == [result |-> FirstResult(c), settlesIn |-> 0]  \* mutant
Receipt(c) ==
  LET row == IF c.attempt \in DOMAIN receipts THEN receipts[c.attempt]
             ELSE [result |-> FirstResult(c), settlesIn |-> SettleSeconds]
      settled == /\ attempts[c.attempt].scenario = "DELAYED_SUCCESS"
                 /\ row.result = "UNKNOWN"
                 /\ row.settlesIn = 0
  IN IF settled THEN [row EXCEPT !.result = "SUCCEEDED"] ELSE row

\* The sender still waits, and this is not the answer a LOST_RESPONSE withholds.
Hears(c) ==
  /\ c.from # Nobody
  /\ attempts[c.attempt].scenario = "LOST_RESPONSE" => c.attempt \in DOMAIN receipts

\* The provider commits its record; the answer arrives, or it does not.
Accept(c, heard) ==
  /\ c \in calls
  /\ heard => Hears(c)
  /\ receipts' = Insert(receipts, c.attempt, Receipt(c))
  /\ calls' = calls \ {c}
  /\ IF heard THEN Answered(c.from, c.attempt, Receipt(c).result) ELSE UNCHANGED workers
  /\ UNCHANGED <<vars, jobs, sweep>>

\* A request is lost on its way.
Lose(c) ==
  /\ c \in calls
  /\ calls' = calls \ {c}
  /\ UNCHANGED <<vars, jobs, receipts, workers, sweep>>

FlowTick ==
  /\ Tick
  /\ jobs' = [a \in DOMAIN jobs |-> [nextCheckAt |-> Sooner(jobs[a].nextCheckAt),
                                     leaseUntil |-> Sooner(jobs[a].leaseUntil)]]
  /\ receipts' = [a \in DOMAIN receipts |->
                    [receipts[a] EXCEPT !.settlesIn = Sooner(@)]]
  /\ calls' = {[c EXCEPT !.deadline = Sooner(@)] : c \in calls}
  /\ UNCHANGED <<workers, sweep>>

-----------------------------------------------------------------------------

Work(w) ==
  \/ \E a \in AttemptIds : Claim(w, a)
  \/ ReadAttempt(w) \/ ReadDeadlineAndSend(w) \/ GiveUp(w) \/ ApplyAnswer(w) \/ Crash(w)

FlowNext ==
  \/ Shop
  \/ \E o \in OrderIds, k \in Keys, scenario \in Scenarios, a \in AttemptIds :
       StartPayment(o, k, scenario, a)
  \/ \E a \in AttemptIds : Callback(a)
  \/ FindDue \/ (\E o \in OrderIds : ExpireNext(o)) \/ SweepFails
  \/ \E w \in Workers : Work(w)
  \/ \E c \in calls : (\E heard \in BOOLEAN : Accept(c, heard)) \/ Lose(c)
  \/ FlowTick

FlowSpec == FlowInit /\ [][FlowNext]_flowVars

\* What cuts a try short, or puts the next one off.
Fault ==
  \/ \E w \in Workers : Crash(w) \/ (GiveUp(w) /\ \E c \in calls : c.from = w)
  \/ \E c \in calls : Lose(c) \/ (Hears(c) /\ Accept(c, FALSE))
  \/ \E a \in AttemptIds : Callback(a) /\ attempts'[a].status = "UNKNOWN"
  \/ SweepFails

\* Time passes and the scheduled sweep keeps running.  A worker goes on with what
\* it claimed, gives up a call that times out, and claims are taken in the order
\* of next_check_at, so each attempt that stays due has its turn.  Faults do not
\* go on for ever.
Fairness ==
  /\ <>[][~Fault]_flowVars
  /\ WF_flowVars(FlowTick)
  /\ WF_flowVars(FindDue)
  /\ \A o \in OrderIds : WF_flowVars(ExpireNext(o))
  /\ \A w \in Workers :
       /\ WF_flowVars(ReadAttempt(w) \/ ReadDeadlineAndSend(w) \/ GiveUp(w) \/ ApplyAnswer(w))
       /\ WF_flowVars(\E c \in calls : c.from = w /\ Accept(c, Hears(c)))
  /\ \A a \in AttemptIds : SF_flowVars(\E w \in Workers : Claim(w, a))
FairFlow == FlowSpec /\ Fairness

-----------------------------------------------------------------------------
(* Properties *)

FlowTypeOK ==
  /\ TypeOK
  /\ DOMAIN jobs = DOMAIN attempts
  /\ IsTable(jobs, AttemptIds, [nextCheckAt : 0..RecheckSeconds,
                                leaseUntil : {Null} \cup 0..LeaseSeconds])
  /\ DOMAIN receipts \subseteq DOMAIN attempts
  /\ IsTable(receipts, AttemptIds, [result : Results, settlesIn : 0..SettleSeconds])
  /\ workers \in [Workers ->
       {Idle} \cup [pc : {"claimed", "read", "calling"}, attempt : DOMAIN attempts]
              \cup [pc : {"answered"}, attempt : DOMAIN attempts, result : Results]]
  /\ calls \subseteq [attempt : DOMAIN attempts, from : Workers \cup {Nobody},
                      deadline : 0..PaymentWindow]
  /\ sweep \subseteq DOMAIN orders

Charged(a) == a \in DOMAIN receipts /\ receipts[a].result = "SUCCEEDED"

\* However often an attempt is retried, timed out or taken up by two workers,
\* the provider takes the money for an order once at most.
NoDoubleCharge ==
  \A a, b \in AttemptIds :
    Charged(a) /\ Charged(b) /\ attempts[a].order = attempts[b].order => a = b

\* From the moment the provider has taken the money, before anyone here knows
\* of it, the order's stock stays with the order.
ChargedKeepsStock ==
  \A a \in AttemptIds : Charged(a) => reservations[attempts[a].order].status # "EXPIRED"
                                      /\ orders[attempts[a].order].status # "PAYMENT_PENDING"

\* A final result is the provider's own, and so is every answer a worker is
\* about to apply: PAYMENT_RESULT_CONFLICT is never thrown.
ResultIsTheProviders ==
  /\ \A a \in DOMAIN attempts :
       Terminal(a) => a \in DOMAIN receipts /\ receipts[a].result = attempts[a].status
  /\ \A w \in Workers :
       workers[w].pc = "answered" /\ workers[w].result # "UNKNOWN" =>
         receipts[workers[w].attempt].result = workers[w].result

\* The provider takes up an attempt for the first time only before that
\* attempt's own deadline, even though the deadline it is sent was read apart
\* from the attempt; later it only refuses.
TakenUpInTime ==
  [][\A a \in DOMAIN receipts' \ DOMAIN receipts :
       receipts'[a].result # "FAILED" =>
         ~Terminal(a) /\ reservations[attempts[a].order].confirmationDeadline > 0]_flowVars

\* What the provider has taken in ends as a confirmed order, whatever is lost
\* or dies on the way.
ChargedIsConfirmed ==
  \A a \in AttemptIds :
    Charged(a) ~> (a \in DOMAIN attempts /\ orders[attempts[a].order].status = "CONFIRMED")

\* An attempt the provider will ever decide on gets its final result.
AttemptsEnd ==
  \A a \in AttemptIds :
    (a \in DOMAIN attempts /\ attempts[a].scenario # "UNKNOWN")
      ~> (a \in DOMAIN attempts /\ Terminal(a))

\* Every order is finished in the end, if the provider decides on its attempts:
\* it is bought, or its stock is on sale again.
OrdersEnd ==
  \A o \in OrderIds :
    (o \in DOMAIN orders)
      ~> (o \in OrdersIn({"CONFIRMED", "EXPIRED"})
          \/ \E a \in AttemptsOf(o) : attempts[a].scenario = "UNKNOWN")

\* No attempt and no order is left open for ever.
EverythingEnds == AttemptsEnd /\ OrdersEnd
=============================================================================
