-------------------------- MODULE PaymentFlowProofs --------------------------
(***************************************************************************)
(* PaymentFlow, with any number of workers, orders and attempts: its steps *)
(* are those of Checkout or leave the tables alone; what is applied to an  *)
(* attempt is what the provider recorded; money is taken once at most for  *)
(* an order, and only while its stock is kept.                             *)
(***************************************************************************)
EXTENDS PaymentFlow, CheckoutProofs

-----------------------------------------------------------------------------
(* The inductive invariant *)

JobRow == [nextCheckAt : 0..RecheckSeconds, leaseUntil : {Null} \cup 0..LeaseSeconds]
ReceiptRow == [result : Results, settlesIn : 0..SettleSeconds]
WorkerRow ==
  {Idle} \cup [pc : {"claimed", "read", "calling"}, attempt : DOMAIN attempts]
         \cup [pc : {"answered"}, attempt : DOMAIN attempts, result : Results]
CallRow ==
  [attempt : DOMAIN attempts, from : Workers \cup {Nobody}, deadline : 0..PaymentWindow]

\* What workers, provider and sweep keep is of its type and refers to rows that exist.
FlowTables ==
  /\ DOMAIN jobs = DOMAIN attempts /\ jobs \in [DOMAIN jobs -> JobRow]
  /\ DOMAIN receipts \subseteq DOMAIN attempts /\ receipts \in [DOMAIN receipts -> ReceiptRow]
  /\ workers \in [Workers -> WorkerRow]
  /\ calls \subseteq CallRow
  /\ sweep \subseteq DOMAIN orders

\* A result that was applied, and one a worker is about to apply, is the one the
\* provider recorded.
AppliedIsRecorded ==
  \A a \in DOMAIN attempts :
    Terminal(a) => a \in DOMAIN receipts /\ receipts[a].result = attempts[a].status
HeardIsRecorded ==
  \A w \in Workers :
    workers[w].pc = "answered" /\ workers[w].result # "UNKNOWN" =>
      /\ workers[w].attempt \in DOMAIN receipts
      /\ receipts[workers[w].attempt].result = workers[w].result
Answers == AppliedIsRecorded /\ HeardIsRecorded

DeadlineOf(a) == reservations[attempts[a].order].confirmationDeadline

\* The deadline a call carries is its attempt's own as long as the attempt is open: the
\* order's deadline is written anew only when all of its attempts have failed.
Deadlines ==
  /\ \A a \in DOMAIN attempts : DeadlineOf(a) # Null
  /\ \A c \in calls : ~Terminal(c.attempt) => c.deadline = DeadlineOf(c.attempt)

FlowInv == TypeInv /\ FlowTables /\ Answers /\ Deadlines

-----------------------------------------------------------------------------
(* Steps of Checkout, as the flow sees them *)

\* What a result does to its attempt.
LEMMA ApplySets ==
  ASSUME TypeInv, NEW a \in AttemptIds, NEW result \in Results, Apply(a, result)
  PROVE  /\ a \in DOMAIN attempts /\ DOMAIN attempts' = DOMAIN attempts
         /\ \A b \in DOMAIN attempts :
              attempts'[b].status = IF b = a THEN result ELSE attempts[b].status
BY DEF Apply, TypeInv, Tables, IsTable, AttemptRow

\* A step of Checkout that is not the passing of time.
Transaction ==
  \/ \E s \in Sales, opensAt \in 0..MaxOpensIn : CreateSale(s, opensAt)
  \/ \E u \in Users, k \in Keys, s \in Sales, request \in Requests, o \in OrderIds :
       Purchase(u, k, s, request, o)
  \/ \E o \in OrderIds, k \in Keys, scenario \in Scenarios, a \in AttemptIds :
       Start(o, k, scenario, a)
  \/ \E a \in AttemptIds, result \in Results : Apply(a, result)
  \/ \E o \in OrderIds : Expire(o)

\* The deadline of an attempt is written by the start of another attempt only once it is
\* final itself, and else only runs down.
LEMMA DeadlineStays ==
  ASSUME TypeInv, [Next]_vars, NEW a \in DOMAIN attempts, ~Terminal(a)'
  PROVE  /\ Transaction \/ UNCHANGED vars => DeadlineOf(a)' = DeadlineOf(a)
         /\ Tick => DeadlineOf(a)' = Sooner(DeadlineOf(a))
<1> DEFINE o == attempts[a].order
<1>0. /\ Tables /\ o \in DOMAIN reservations /\ DOMAIN reservations = DOMAIN orders
      /\ attempts'[a].order = o /\ ~Terminal(a)
  BY RowsStay DEF TypeInv, References, Terminal
<1> HIDE DEF o
<1>1. ASSUME Transaction \/ UNCHANGED vars
      PROVE  reservations'[o].confirmationDeadline = reservations[o].confirmationDeadline
  <2>1. CASE reservations' = reservations
    BY <2>1
  <2>2. ASSUME NEW u \in Users, NEW k \in Keys, NEW s \in Sales, NEW request \in Requests,
               NEW p \in OrderIds, Purchase(u, k, s, request, p)
        PROVE  reservations'[o] = reservations[o]
    BY <1>0, <2>2 DEF Purchase, Place, Insert
  <2>3. ASSUME NEW p \in OrderIds, NEW k \in Keys, NEW scenario \in Scenarios,
               NEW b \in AttemptIds, Start(p, k, scenario, b)
        PROVE  reservations'[o] = reservations[o]
    <3>1. p # o
      BY <1>0, <2>3 DEF Start, AttemptsOf, Terminal, o
    <3> QED BY <1>0, <2>3, <3>1 DEF Start
  <2>4. ASSUME NEW p \in DOMAIN reservations, NEW status,
               reservations' = [reservations EXCEPT ![p].status = status]
        PROVE  reservations'[o].confirmationDeadline = reservations[o].confirmationDeadline
    BY <1>0, <2>4 DEF Tables, IsTable, ReservationRow
  <2>5. ASSUME NEW b \in AttemptIds, NEW result \in Results, Apply(b, result)
        PROVE  reservations'[o].confirmationDeadline = reservations[o].confirmationDeadline
    <3>1. attempts[b].order \in DOMAIN reservations
      BY <2>5 DEF Apply, TypeInv, References
    <3> QED BY <2>1, <2>4, <2>5, <3>1 DEF Apply, Confirm, Release
  <2>6. ASSUME NEW p \in OrderIds, Expire(p)
        PROVE  reservations'[o].confirmationDeadline = reservations[o].confirmationDeadline
    BY <1>0, <2>4, <2>6 DEF Expire, Release
  <2>7. CASE \E s \in Sales, opensAt \in 0..MaxOpensIn : CreateSale(s, opensAt)
    BY <2>1, <2>7 DEF CreateSale
  <2>8. CASE UNCHANGED vars
    BY <2>1, <2>8 DEF vars
  <2> QED BY <1>1, <2>2, <2>3, <2>5, <2>6, <2>7, <2>8 DEF Transaction
<1>2. ASSUME Tick
      PROVE  reservations'[o].confirmationDeadline = Sooner(reservations[o].confirmationDeadline)
  BY <1>0, <1>2 DEF Tick, Tables, IsTable, ReservationRow
<1> QED BY <1>0, <1>1, <1>2 DEF DeadlineOf, o

-----------------------------------------------------------------------------
(* The flow implements Checkout *)

\* What a worker in each place of its loop has at hand.
LEMMA WorkerAt ==
  ASSUME FlowTables, NEW w \in Workers
  PROVE  /\ workers[w].pc \in {"claimed", "read", "calling", "answered"} =>
              workers[w].attempt \in DOMAIN attempts
         /\ workers[w].pc = "answered" => workers[w].result \in Results
BY DEF FlowTables, WorkerRow, Idle

\* A result that is applied is one the provider may give.
LEMMA CallbackApplies ==
  ASSUME TypeInv, FlowTables, NEW a \in AttemptIds, Callback(a)
  PROVE  \E result \in {receipts[a].result, "UNKNOWN"} :
           result \in Results /\ ApplyAndReschedule(a, result)
BY DEF Callback, FlowTables, ReceiptRow, Results

\* Each step takes one of Checkout's, or leaves its tables alone.
LEMMA StepMaps ==
  ASSUME TypeInv, FlowTables, [FlowNext]_flowVars
  PROVE  /\ [Next]_vars
         /\ ~FlowTick => Transaction \/ UNCHANGED vars
<1>0. DOMAIN attempts \subseteq AttemptIds
  BY DEF TypeInv, Tables, IsTable
<1>1. ASSUME Shop
      PROVE  Transaction
  BY <1>1 DEF Shop, Transaction
<1>2. ASSUME NEW o \in OrderIds, NEW k \in Keys, NEW scenario \in Scenarios,
             NEW a \in AttemptIds, StartPayment(o, k, scenario, a)
      PROVE  Transaction
  BY <1>2 DEF StartPayment, Transaction
<1>3. ASSUME NEW a \in AttemptIds, NEW result \in Results, ApplyAndReschedule(a, result)
      PROVE  Transaction
  BY <1>3 DEF ApplyAndReschedule, Transaction
<1>4. ASSUME NEW a \in AttemptIds, Callback(a)
      PROVE  Transaction
  BY <1>3, <1>4, CallbackApplies
<1>5. ASSUME NEW o \in OrderIds, ExpireNext(o)
      PROVE  Transaction \/ UNCHANGED vars
  BY <1>5 DEF ExpireNext, Transaction
<1>6. ASSUME NEW w \in Workers, Work(w)
      PROVE  Transaction \/ UNCHANGED vars
  <2>1. CASE ApplyAnswer(w)
    BY <1>0, <1>3, <2>1, WorkerAt DEF ApplyAnswer
  <2> QED BY <1>6, <2>1 DEF Work, Claim, ReadAttempt, ReadDeadlineAndSend, GiveUp, Crash
<1>7. CASE FindDue \/ SweepFails
  BY <1>7 DEF FindDue, SweepFails
<1>8. ASSUME NEW c \in calls, (\E heard \in BOOLEAN : Accept(c, heard)) \/ Lose(c)
      PROVE  UNCHANGED vars
  BY <1>8 DEF Accept, Lose
<1>9. CASE FlowTick
  BY <1>9 DEF FlowTick, Next
<1>10. CASE UNCHANGED flowVars
  BY <1>10 DEF flowVars
<1>11. Transaction => Next
  BY DEF Transaction, Next
<1> QED BY <1>1, <1>2, <1>4, <1>5, <1>6, <1>7, <1>8, <1>9, <1>10, <1>11 DEF FlowNext

-----------------------------------------------------------------------------
(* Types *)

\* At first there is nothing but idle workers.
LEMMA FlowInvInit ==
  FlowInit => FlowInv
<1> SUFFICES ASSUME FlowInit PROVE FlowInv
  OBVIOUS
<1>1. TypeInv
  BY TypeInvInit DEF FlowInit
<1>2. DOMAIN attempts = {} /\ DOMAIN jobs = {} /\ DOMAIN receipts = {} /\ DOMAIN orders = {}
  BY DEF FlowInit, Init
<1>3. FlowTables
  BY <1>2 DEF FlowInit, FlowTables, WorkerRow
<1>4. Answers /\ Deadlines
  BY <1>2 DEF FlowInit, Answers, AppliedIsRecorded, HeardIsRecorded, Deadlines, Idle
<1> QED BY <1>1, <1>3, <1>4 DEF FlowInv

\* Rows that are only referred to stay good references.
LEMMA RowsStayGood ==
  ASSUME TypeInv, FlowTables, [Next]_vars
  PROVE  /\ WorkerRow \subseteq WorkerRow' /\ CallRow \subseteq CallRow'
         /\ workers \in [Workers -> WorkerRow'] /\ calls \subseteq CallRow'
         /\ sweep \subseteq DOMAIN orders' /\ DOMAIN receipts \subseteq DOMAIN attempts'
<1>1. DOMAIN attempts \subseteq DOMAIN attempts' /\ DOMAIN orders \subseteq DOMAIN orders'
  BY RowsStay
<1>2. WorkerRow \subseteq WorkerRow' /\ CallRow \subseteq CallRow'
  BY <1>1 DEF WorkerRow, CallRow
<1> QED BY <1>1, <1>2 DEF FlowTables

\* A rescheduled attempt is due after a while and leased to nobody.
LEMMA Rescheduled ==
  ASSUME TypeInv, FlowTables, NEW a \in AttemptIds, NEW result \in Results,
         ApplyAndReschedule(a, result)
  PROVE  DOMAIN jobs' = DOMAIN attempts' /\ jobs' \in [DOMAIN jobs' -> JobRow]
<1>1. [nextCheckAt |-> RecheckSeconds, leaseUntil |-> Null] \in JobRow
  BY FlowAssumption DEF JobRow
<1>2. DOMAIN attempts' = DOMAIN attempts
  BY ApplySets DEF ApplyAndReschedule
<1> QED BY <1>1, <1>2 DEF ApplyAndReschedule, FlowTables

\* A call that nobody waits for any more is a call still.
LEMMA ForsakenCalls ==
  ASSUME FlowTables, NEW w \in Workers
  PROVE  /\ Forsaken(w) \subseteq CallRow
         /\ \A c \in Forsaken(w) : \E d \in calls : c.attempt = d.attempt /\ c.deadline = d.deadline
BY DEF Forsaken, FlowTables, CallRow

\* What the provider records is a receipt, and keeps a final result it had recorded.
LEMMA ReceiptType ==
  ASSUME FlowTables, NEW c \in calls
  PROVE  /\ Receipt(c) \in ReceiptRow
         /\ c.attempt \in DOMAIN receipts /\ receipts[c.attempt].result # "UNKNOWN" =>
              Receipt(c).result = receipts[c.attempt].result
<1>1. FirstResult(c) \in Results
  BY DEF FirstResult, Results
<1>2. [result |-> FirstResult(c), settlesIn |-> SettleSeconds] \in ReceiptRow
  BY <1>1, FlowAssumption DEF ReceiptRow
<1>3. c.attempt \in DOMAIN receipts => receipts[c.attempt] \in ReceiptRow
  BY DEF FlowTables
<1> QED BY <1>2, <1>3 DEF Receipt, ReceiptRow, Results

\* No step leaves a row of the wrong type or a reference to a row that is not there.
LEMMA FlowTablesNext ==
  ASSUME FlowInv, [FlowNext]_flowVars
  PROVE  FlowTables'
<1>0. TypeInv /\ FlowTables /\ [Next]_vars /\ DOMAIN attempts \subseteq AttemptIds
  BY StepMaps DEF FlowInv, TypeInv, Tables, IsTable
<1>1. /\ WorkerRow \subseteq WorkerRow' /\ CallRow \subseteq CallRow'
      /\ workers \in [Workers -> WorkerRow'] /\ calls \subseteq CallRow'
      /\ sweep \subseteq DOMAIN orders' /\ DOMAIN receipts \subseteq DOMAIN attempts'
  BY <1>0, RowsStayGood
<1>2. JobRow' = JobRow /\ ReceiptRow' = ReceiptRow
  BY DEF JobRow, ReceiptRow
<1>3. CASE UNCHANGED <<vars, jobs>> /\ UNCHANGED receipts
           /\ workers' \in [Workers -> WorkerRow] /\ calls' \subseteq CallRow
           /\ sweep' \subseteq DOMAIN orders
  BY <1>0, <1>1, <1>3 DEF FlowTables, vars, JobRow, ReceiptRow
<1>4. CASE DOMAIN jobs' = DOMAIN attempts' /\ jobs' \in [DOMAIN jobs' -> JobRow]
           /\ UNCHANGED <<receipts, calls>> /\ sweep' \subseteq sweep
           /\ workers' \in [Workers -> WorkerRow']
  BY <1>0, <1>1, <1>4 DEF FlowTables, JobRow, ReceiptRow
<1>5. CASE Shop
  <2>1. attempts' = attempts
    BY <1>5 DEF Shop, CreateSale, Purchase
  <2> QED BY <1>0, <1>1, <1>4, <1>5, <2>1 DEF Shop, flow, FlowTables
<1>6. ASSUME NEW o \in OrderIds, NEW k \in Keys, NEW scenario \in Scenarios,
             NEW a \in AttemptIds, StartPayment(o, k, scenario, a)
      PROVE  FlowTables'
  <2>1. [nextCheckAt |-> 0, leaseUntil |-> Null] \in JobRow
    BY FlowAssumption DEF JobRow
  <2>2. DOMAIN attempts' = DOMAIN attempts \cup {a}
    BY <1>6 DEF StartPayment, Start, Insert
  <2>3. DOMAIN jobs' = DOMAIN attempts' /\ jobs' \in [DOMAIN jobs' -> JobRow]
    BY <1>0, <1>6, <2>1, <2>2 DEF StartPayment, Insert, FlowTables
  <2> QED BY <1>1, <1>4, <1>6, <2>3 DEF StartPayment
<1>7. ASSUME NEW a \in AttemptIds, Callback(a)
      PROVE  FlowTables'
  <2>1. DOMAIN jobs' = DOMAIN attempts' /\ jobs' \in [DOMAIN jobs' -> JobRow]
    BY <1>0, <1>7, CallbackApplies, Rescheduled
  <2> QED BY <1>1, <1>4, <1>7, <2>1 DEF Callback
<1>8. CASE FindDue
  BY <1>0, <1>3, <1>8 DEF FindDue, FlowTables
<1>9. ASSUME NEW o \in OrderIds, ExpireNext(o)
      PROVE  FlowTables'
  <2>1. attempts' = attempts
    BY <1>9 DEF ExpireNext, Expire, vars
  <2> QED BY <1>0, <1>1, <1>4, <1>9, <2>1 DEF ExpireNext, FlowTables
<1>10. CASE SweepFails
  BY <1>0, <1>3, <1>10 DEF SweepFails, FlowTables
<1>11. ASSUME NEW w \in Workers, Work(w)
       PROVE  FlowTables'
  <2>1. ASSUME NEW a \in AttemptIds, Claim(w, a)
        PROVE  FlowTables'
    <3>1. workers' \in [Workers -> WorkerRow'] /\ attempts' = attempts
      BY <1>0, <1>1, <2>1 DEF Claim, WorkerRow, vars
    <3>2. DOMAIN jobs' = DOMAIN jobs /\ jobs' \in [DOMAIN jobs -> JobRow]
      BY <1>0, <2>1, FlowAssumption DEF Claim, FlowTables, JobRow
    <3> QED BY <1>0, <1>4, <2>1, <3>1, <3>2 DEF Claim, FlowTables
  <2>2. CASE ReadAttempt(w)
    <3>1. workers[w].attempt \in DOMAIN attempts /\ workers[w] \in WorkerRow
      BY <1>0, <2>2, WorkerAt DEF ReadAttempt, FlowTables
    <3>2. [workers[w] EXCEPT !.pc = "read"] \in WorkerRow
      BY <2>2, <3>1 DEF ReadAttempt, WorkerRow, Idle
    <3>3. workers' \in [Workers -> WorkerRow]
      BY <1>0, <2>2, <3>2 DEF ReadAttempt, FlowTables, WorkerRow
    <3> QED BY <1>0, <1>3, <2>2, <3>3 DEF ReadAttempt, FlowTables
  <2>3. CASE ReadDeadlineAndSend(w)
    <3> DEFINE a == workers[w].attempt
               c == [attempt |-> a, from |-> w,
                     deadline |-> reservations[attempts[a].order].confirmationDeadline]
    <3>1. a \in DOMAIN attempts /\ workers[w] \in WorkerRow
      BY <1>0, <2>3, WorkerAt DEF ReadDeadlineAndSend, FlowTables
    <3>2. [workers[w] EXCEPT !.pc = "calling"] \in WorkerRow
      BY <2>3, <3>1 DEF ReadDeadlineAndSend, WorkerRow, Idle
    <3>3. reservations[attempts[a].order].confirmationDeadline \in 0..PaymentWindow
      BY <3>1 DEF FlowInv, TypeInv, Tables, References, IsTable, ReservationRow, Deadlines,
                  DeadlineOf
    <3>4. c \in CallRow
      BY <3>1, <3>3 DEF CallRow
    <3>5. workers' \in [Workers -> WorkerRow] /\ calls' \subseteq CallRow
      BY <1>0, <2>3, <3>2, <3>4 DEF ReadDeadlineAndSend, FlowTables
    <3> QED BY <1>0, <1>3, <2>3, <3>5 DEF ReadDeadlineAndSend, FlowTables
  <2>4. CASE GiveUp(w)
    <3>1. [pc |-> "answered", attempt |-> workers[w].attempt, result |-> NoAnswer] \in WorkerRow
      BY <1>0, <2>4, WorkerAt DEF GiveUp, WorkerRow, NoAnswer, Results
    <3>2. workers' \in [Workers -> WorkerRow] /\ calls' \subseteq CallRow
      BY <1>0, <2>4, <3>1, ForsakenCalls DEF GiveUp, Answered, FlowTables
    <3> QED BY <1>0, <1>3, <2>4, <3>2 DEF GiveUp, FlowTables
  <2>5. CASE ApplyAnswer(w)
    <3>1. workers' \in [Workers -> WorkerRow']
      BY <1>1, <2>5 DEF ApplyAnswer, WorkerRow
    <3>2. DOMAIN jobs' = DOMAIN attempts' /\ jobs' \in [DOMAIN jobs' -> JobRow]
      <4>1. workers[w].attempt \in AttemptIds /\ workers[w].result \in Results
        BY <1>0, <2>5, WorkerAt DEF ApplyAnswer
      <4>2. CASE ApplyAndReschedule(workers[w].attempt, workers[w].result)
        BY <1>0, <4>1, <4>2, Rescheduled
      <4>3. CASE UNCHANGED <<vars, jobs>>
        BY <1>0, <4>3 DEF vars, FlowTables
      <4> QED BY <2>5, <4>2, <4>3 DEF ApplyAnswer
    <3> QED BY <1>4, <2>5, <3>1, <3>2 DEF ApplyAnswer
  <2>6. CASE Crash(w)
    <3>1. workers' \in [Workers -> WorkerRow] /\ calls' \subseteq CallRow
      BY <1>0, <2>6, ForsakenCalls DEF Crash, FlowTables, WorkerRow
    <3> QED BY <1>0, <1>3, <2>6, <3>1 DEF Crash, FlowTables
  <2> QED BY <1>11, <2>1, <2>2, <2>3, <2>4, <2>5, <2>6 DEF Work
<1>12. ASSUME NEW c \in calls, NEW heard \in BOOLEAN, Accept(c, heard)
       PROVE  FlowTables'
  <2>1. Receipt(c) \in ReceiptRow /\ c.attempt \in DOMAIN attempts /\ UNCHANGED <<vars, jobs>>
    BY <1>0, <1>12, ReceiptType DEF Accept, FlowTables, CallRow
  <2>2. DOMAIN receipts' \subseteq DOMAIN attempts /\ receipts' \in [DOMAIN receipts' -> ReceiptRow]
    BY <1>0, <1>12, <2>1 DEF Accept, Insert, FlowTables
  <2>3. workers' \in [Workers -> WorkerRow]
    <3>1. heard => c.from \in Workers
      BY <1>0, <1>12 DEF Accept, Hears, FlowTables, CallRow
    <3>2. [pc |-> "answered", attempt |-> c.attempt, result |-> Receipt(c).result] \in WorkerRow
      BY <2>1 DEF WorkerRow, ReceiptRow
    <3>3. workers \in [Workers -> WorkerRow]
      BY <1>0 DEF FlowTables
    <3>4. heard \/ UNCHANGED workers
      BY <1>12 DEF Accept
    <3>5. heard => Answered(c.from, c.attempt, Receipt(c).result)
      BY <1>12 DEF Accept
    <3> QED BY <3>1, <3>2, <3>3, <3>4, <3>5 DEF Answered
  <2>4. calls' \subseteq CallRow /\ sweep' \subseteq DOMAIN orders
    BY <1>0, <1>12 DEF Accept, FlowTables
  <2> QED BY <1>0, <1>1, <2>1, <2>2, <2>3, <2>4 DEF FlowTables, vars, JobRow, ReceiptRow
<1>13. ASSUME NEW c \in calls, Lose(c)
       PROVE  FlowTables'
  BY <1>0, <1>3, <1>13 DEF Lose, FlowTables
<1>14. CASE FlowTick
  <2>1. \A n \in Nat : \A left \in 0..n : Sooner(left) \in 0..n
    BY DEF Sooner
  <2>2. Sooner(Null) = Null
    BY DEF Sooner, Null
  <2>3. attempts' = attempts /\ orders' = orders /\ UNCHANGED <<workers, sweep>>
    BY <1>14 DEF FlowTick, Tick
  <2>4. DOMAIN jobs' = DOMAIN jobs /\ jobs' \in [DOMAIN jobs -> JobRow]
    BY <1>0, <1>14, <2>1, <2>2, FlowAssumption DEF FlowTick, FlowTables, JobRow
  <2>5. DOMAIN receipts' = DOMAIN receipts /\ receipts' \in [DOMAIN receipts -> ReceiptRow]
    BY <1>0, <1>14, <2>1, FlowAssumption DEF FlowTick, FlowTables, ReceiptRow
  <2>6. calls' \subseteq CallRow
    <3>1. \A left \in 0..PaymentWindow : Sooner(left) \in 0..PaymentWindow
      BY <2>1, TimesAssumption
    <3>2. \A c \in calls : [c EXCEPT !.deadline = Sooner(@)] \in CallRow
      BY <1>0, <3>1 DEF FlowTables, CallRow
    <3> QED BY <1>14, <3>2 DEF FlowTick
  <2> QED BY <1>0, <1>1, <2>3, <2>4, <2>5, <2>6 DEF FlowTables, JobRow, ReceiptRow
<1>15. CASE UNCHANGED flowVars
  BY <1>0, <1>3, <1>15 DEF flowVars, flow, FlowTables
<1> QED BY <1>5, <1>6, <1>7, <1>8, <1>9, <1>10, <1>11, <1>12, <1>13, <1>14, <1>15 DEF FlowNext

-----------------------------------------------------------------------------
(* Answers *)

\* The provider forgets nothing and never takes back a final result.
LEMMA ReceiptsStay ==
  ASSUME FlowTables, [FlowNext]_flowVars
  PROVE  /\ DOMAIN receipts \subseteq DOMAIN receipts'
         /\ \A a \in DOMAIN receipts : receipts[a].result # "UNKNOWN" =>
              receipts'[a].result = receipts[a].result
<1>1. CASE UNCHANGED receipts
  BY <1>1
<1>2. ASSUME NEW c \in calls, NEW heard \in BOOLEAN, Accept(c, heard)
      PROVE  /\ DOMAIN receipts \subseteq DOMAIN receipts'
             /\ \A a \in DOMAIN receipts : receipts[a].result # "UNKNOWN" =>
                  receipts'[a].result = receipts[a].result
  BY <1>2, ReceiptType DEF Accept, Insert
<1>3. CASE FlowTick
  BY <1>3 DEF FlowTick, FlowTables, ReceiptRow
<1>4. CASE FlowNext /\ ~FlowTick /\ \A c \in calls, heard \in BOOLEAN : ~Accept(c, heard)
  BY <1>1, <1>4 DEF FlowNext, Shop, flow, StartPayment, Callback, FindDue, ExpireNext, SweepFails,
     Work, Claim, ReadAttempt, ReadDeadlineAndSend, GiveUp, ApplyAnswer, Crash, Lose
<1> QED BY <1>1, <1>2, <1>3, <1>4 DEF flowVars, flow

\* A worker has an answer only from the provider, or UNKNOWN when it gave up.
LEMMA HeardNext ==
  ASSUME FlowTables, HeardIsRecorded, [FlowNext]_flowVars
  PROVE  HeardIsRecorded'
<1>0. /\ DOMAIN receipts \subseteq DOMAIN receipts'
      /\ \A a \in DOMAIN receipts : receipts[a].result # "UNKNOWN" =>
           receipts'[a].result = receipts[a].result
  BY ReceiptsStay
<1>1. ASSUME \A w \in Workers : workers'[w] = workers[w] \/ workers'[w].pc # "answered"
      PROVE  HeardIsRecorded'
  BY <1>0, <1>1 DEF HeardIsRecorded
<1>2. CASE UNCHANGED workers
  BY <1>1, <1>2
<1>3. ASSUME NEW w \in Workers, NEW row, workers' = [workers EXCEPT ![w] = row],
             row.pc # "answered"
      PROVE  HeardIsRecorded'
  BY <1>1, <1>3 DEF FlowTables
<1>4. ASSUME NEW w \in Workers, Work(w)
      PROVE  HeardIsRecorded'
  <2>1. ASSUME NEW a \in AttemptIds, Claim(w, a)
        PROVE  HeardIsRecorded'
    <3>1. workers' = [workers EXCEPT ![w] = [pc |-> "claimed", attempt |-> a]]
      BY <2>1 DEF Claim
    <3> QED BY <1>1, <3>1 DEF FlowTables
  <2>2. CASE ReadAttempt(w) \/ ReadDeadlineAndSend(w)
    <3>1. /\ \A v \in Workers : v # w => workers'[v] = workers[v]
          /\ workers'[w] \in {Idle, [workers[w] EXCEPT !.pc = "read"],
                              [workers[w] EXCEPT !.pc = "calling"]}
      BY <2>2 DEF ReadAttempt, ReadDeadlineAndSend, FlowTables
    <3>2. workers[w] \in [pc : {"claimed", "read", "calling"}, attempt : DOMAIN attempts]
      BY <2>2 DEF ReadAttempt, ReadDeadlineAndSend, FlowTables, WorkerRow, Idle
    <3>3. workers'[w].pc # "answered"
      BY <3>1, <3>2 DEF Idle
    <3> QED BY <1>1, <3>1, <3>3
  <2>3. CASE GiveUp(w)
    BY <1>0, <2>3 DEF GiveUp, Answered, NoAnswer, FlowTables, HeardIsRecorded
  <2>4. CASE ApplyAnswer(w) \/ Crash(w)
    BY <1>3, <2>4 DEF ApplyAnswer, Crash, Idle
  <2> QED BY <1>4, <2>1, <2>2, <2>3, <2>4 DEF Work
<1>5. ASSUME NEW c \in calls, NEW heard \in BOOLEAN, Accept(c, heard)
      PROVE  HeardIsRecorded'
  <2>1. c.attempt \in DOMAIN receipts' /\ receipts'[c.attempt] = Receipt(c)
    BY <1>5 DEF Accept, Insert
  <2>2. CASE heard
    <3>1. c.from \in Workers
      BY <1>5, <2>2 DEF Accept, Hears, FlowTables, CallRow
    <3>2. workers' = [workers EXCEPT ![c.from] = [pc |-> "answered", attempt |-> c.attempt,
                                                  result |-> Receipt(c).result]]
      BY <1>5, <2>2 DEF Accept, Answered
    <3> QED BY <1>0, <2>1, <3>1, <3>2 DEF FlowTables, HeardIsRecorded
  <2>3. CASE ~heard
    BY <1>2, <1>5, <2>3 DEF Accept
  <2> QED BY <2>2, <2>3
<1>6. CASE FlowNext /\ (\A w \in Workers : ~Work(w))
           /\ \A c \in calls, heard \in BOOLEAN : ~Accept(c, heard)
  BY <1>2, <1>6 DEF FlowNext, Shop, flow, StartPayment, Callback, FindDue, ExpireNext, SweepFails,
     Lose, FlowTick
<1> QED BY <1>2, <1>4, <1>5, <1>6 DEF flowVars, flow

\* An attempt gets a final result only from a callback or a worker's answer, and both
\* bring what the provider recorded.
LEMMA AppliedNext ==
  ASSUME FlowInv, [FlowNext]_flowVars
  PROVE  AppliedIsRecorded'
<1>0. /\ TypeInv /\ FlowTables /\ [Next]_vars /\ DOMAIN attempts \subseteq AttemptIds
      /\ DOMAIN receipts \subseteq DOMAIN receipts'
      /\ \A a \in DOMAIN receipts : receipts[a].result # "UNKNOWN" =>
           receipts'[a].result = receipts[a].result
      /\ AppliedIsRecorded /\ HeardIsRecorded
  BY StepMaps, ReceiptsStay DEF FlowInv, TypeInv, Tables, IsTable, Answers
<1>1. ASSUME NEW a \in DOMAIN attempts, Terminal(a)
      PROVE  a \in DOMAIN receipts' /\ receipts'[a].result = attempts'[a].status
  <2>1. attempts'[a].status = attempts[a].status
    BY <1>0, <1>1, RowsStay
  <2> QED BY <1>0, <1>1, <2>1 DEF AppliedIsRecorded, Terminal
<1>2. ASSUME \A a \in DOMAIN attempts' : Terminal(a)' => a \in DOMAIN attempts /\ Terminal(a)
      PROVE  AppliedIsRecorded'
  BY <1>1, <1>2 DEF AppliedIsRecorded
<1>3. CASE UNCHANGED attempts
  BY <1>2, <1>3 DEF Terminal
<1>4. ASSUME NEW a \in AttemptIds, NEW result \in Results, ApplyAndReschedule(a, result),
             result # "UNKNOWN" => a \in DOMAIN receipts /\ receipts[a].result = result
      PROVE  AppliedIsRecorded'
  <2>1. /\ a \in DOMAIN attempts /\ DOMAIN attempts' = DOMAIN attempts
        /\ \A b \in DOMAIN attempts :
             attempts'[b].status = IF b = a THEN result ELSE attempts[b].status
    BY <1>0, <1>4, ApplySets DEF ApplyAndReschedule
  <2> QED BY <1>0, <1>1, <1>4, <2>1 DEF AppliedIsRecorded, Terminal
<1>5. ASSUME NEW a \in AttemptIds, Callback(a)
      PROVE  AppliedIsRecorded'
  <2>1. PICK result \in {receipts[a].result, "UNKNOWN"} :
          result \in Results /\ ApplyAndReschedule(a, result)
    BY <1>0, <1>5, CallbackApplies
  <2> QED BY <1>4, <1>5, <2>1 DEF Callback
<1>6. ASSUME NEW w \in Workers, ApplyAnswer(w)
      PROVE  AppliedIsRecorded'
  <2>1. workers[w].attempt \in AttemptIds /\ workers[w].result \in Results
    BY <1>0, <1>6, WorkerAt DEF ApplyAnswer
  <2> QED BY <1>0, <1>3, <1>4, <1>6, <2>1 DEF ApplyAnswer, HeardIsRecorded, vars
<1>7. ASSUME NEW o \in OrderIds, NEW k \in Keys, NEW scenario \in Scenarios,
             NEW a \in AttemptIds, StartPayment(o, k, scenario, a)
      PROVE  AppliedIsRecorded'
  BY <1>2, <1>7 DEF StartPayment, Start, Insert, Terminal
<1>8. CASE FlowNext /\ (\A a \in AttemptIds : ~Callback(a))
           /\ (\A w \in Workers : ~ApplyAnswer(w))
           /\ \A o \in OrderIds, k \in Keys, scenario \in Scenarios, a \in AttemptIds :
                ~StartPayment(o, k, scenario, a)
  BY <1>3, <1>8 DEF FlowNext, Shop, CreateSale, Purchase, FindDue, ExpireNext, Expire, SweepFails,
     Work, Claim, ReadAttempt, ReadDeadlineAndSend, GiveUp, Crash, Accept, Lose, FlowTick, Tick, vars
<1> QED BY <1>3, <1>5, <1>6, <1>7, <1>8 DEF flowVars, vars

-----------------------------------------------------------------------------
(* Deadlines *)

\* A new attempt comes with a deadline, and none is ever taken away.
LEMMA DeadlinesStaySet ==
  ASSUME TypeInv, [Next]_vars, \A a \in DOMAIN attempts : DeadlineOf(a) # Null
  PROVE  \A a \in DOMAIN attempts' : DeadlineOf(a)' # Null
<1>0. /\ Tables /\ TypeInv'
      /\ \A a \in DOMAIN attempts : attempts'[a].order = attempts[a].order
                                    /\ attempts[a].order \in DOMAIN reservations
  BY TypeInvNext, RowsStay DEF TypeInv, References
<1>1. ASSUME DOMAIN attempts' = DOMAIN attempts,
             \A o \in DOMAIN reservations :
               reservations[o].confirmationDeadline # Null =>
                 reservations'[o].confirmationDeadline # Null
      PROVE  \A a \in DOMAIN attempts' : DeadlineOf(a)' # Null
  BY <1>0, <1>1 DEF DeadlineOf
<1>2. CASE UNCHANGED <<reservations, attempts>>
  BY <1>1, <1>2
<1>3. ASSUME NEW u \in Users, NEW k \in Keys, NEW s \in Sales, NEW request \in Requests,
             NEW o \in OrderIds, Purchase(u, k, s, request, o)
      PROVE  \A a \in DOMAIN attempts' : DeadlineOf(a)' # Null
  <2>1. \A x \in DOMAIN reservations : reservations'[x] = reservations[x]
    BY <1>0, <1>3 DEF Purchase, Place, Insert, TypeInv, References
  <2> QED BY <1>1, <1>3, <2>1 DEF Purchase
<1>4. ASSUME NEW o \in OrderIds, NEW k \in Keys, NEW scenario \in Scenarios,
             NEW a \in AttemptIds, Start(o, k, scenario, a)
      PROVE  \A b \in DOMAIN attempts' : DeadlineOf(b)' # Null
  <2>1. /\ DOMAIN attempts' = DOMAIN attempts \cup {a} /\ attempts'[a].order = o
        /\ o \in DOMAIN reservations
        /\ reservations' = [reservations EXCEPT ![o].confirmationDeadline = PaymentWindow]
    BY <1>4 DEF Start, Insert, TypeInv, References
  <2>2. PaymentWindow # Null
    BY TimesAssumption DEF Null
  <2>3. \A x \in DOMAIN reservations :
          reservations'[x].confirmationDeadline =
            IF x = o THEN PaymentWindow ELSE reservations[x].confirmationDeadline
    BY <1>0, <2>1 DEF Tables, IsTable, ReservationRow
  <2> QED BY <1>0, <2>1, <2>2, <2>3 DEF DeadlineOf
<1>5. ASSUME NEW o \in DOMAIN reservations, NEW status, DOMAIN attempts' = DOMAIN attempts,
             reservations' = [reservations EXCEPT ![o].status = status]
      PROVE  \A a \in DOMAIN attempts' : DeadlineOf(a)' # Null
  BY <1>0, <1>1, <1>5 DEF Tables, IsTable, ReservationRow
<1>6. ASSUME NEW a \in AttemptIds, NEW result \in Results, Apply(a, result)
      PROVE  \A b \in DOMAIN attempts' : DeadlineOf(b)' # Null
  <2>1. DOMAIN attempts' = DOMAIN attempts /\ attempts[a].order \in DOMAIN reservations
    BY <1>0, <1>6, ApplySets DEF Apply
  <2> QED BY <1>1, <1>5, <1>6, <2>1 DEF Apply, Confirm, Release
<1>7. ASSUME NEW o \in OrderIds, Expire(o)
      PROVE  \A a \in DOMAIN attempts' : DeadlineOf(a)' # Null
  BY <1>5, <1>7 DEF Expire, Release, TypeInv, References
<1>8. CASE Tick
  <2>1. \A o \in DOMAIN reservations :
          reservations'[o].confirmationDeadline = Sooner(reservations[o].confirmationDeadline)
    BY <1>0, <1>8 DEF Tick, Tables, IsTable, ReservationRow
  <2>2. \A left \in {Null} \cup 0..PaymentWindow : left # Null => Sooner(left) # Null
    BY TimesAssumption DEF Sooner, Null
  <2>3. \A o \in DOMAIN reservations :
          reservations[o].confirmationDeadline \in {Null} \cup 0..PaymentWindow
    BY <1>0 DEF Tables, IsTable, ReservationRow
  <2> QED BY <1>1, <1>8, <2>1, <2>2, <2>3 DEF Tick
<1>9. CASE \E s \in Sales, opensAt \in 0..MaxOpensIn : CreateSale(s, opensAt)
  BY <1>2, <1>9 DEF CreateSale
<1> QED BY <1>2, <1>3, <1>4, <1>6, <1>7, <1>8, <1>9 DEF Next, vars

\* What a call carries runs down with the deadline it was read from.
LEMMA DeadlinesNext ==
  ASSUME FlowInv, [FlowNext]_flowVars
  PROVE  Deadlines'
<1>0. TypeInv /\ FlowTables /\ Deadlines /\ [Next]_vars
  BY StepMaps DEF FlowInv
<1>1. \A a \in DOMAIN attempts' : DeadlineOf(a)' # Null
  BY <1>0, DeadlinesStaySet DEF Deadlines
<1>2. ASSUME NEW c \in calls, ~Terminal(c.attempt)'
      PROVE  /\ c.attempt \in DOMAIN attempts /\ c.deadline = DeadlineOf(c.attempt)
             /\ Transaction \/ UNCHANGED vars => c.deadline = DeadlineOf(c.attempt)'
             /\ Tick => Sooner(c.deadline) = DeadlineOf(c.attempt)'
  <2>1. c.attempt \in DOMAIN attempts
    BY <1>0 DEF FlowTables, CallRow
  <2>2. ~Terminal(c.attempt)
    BY <1>0, <1>2, <2>1, RowsStay DEF Terminal
  <2> QED BY <1>0, <1>2, <2>1, <2>2, DeadlineStays DEF Deadlines
<1>3. ASSUME Transaction \/ UNCHANGED vars,
             \A c \in calls' : \E d \in calls :
               c.attempt = d.attempt /\ c.deadline = d.deadline
      PROVE  Deadlines'
  <2>1. ASSUME NEW c \in calls', ~Terminal(c.attempt)'
        PROVE  c.deadline = DeadlineOf(c.attempt)'
    <3>1. PICK d \in calls : c.attempt = d.attempt /\ c.deadline = d.deadline
      BY <1>3
    <3> QED BY <1>2, <1>3, <2>1, <3>1 DEF DeadlineOf, Terminal
  <2> QED BY <1>1, <2>1 DEF Deadlines
<1>4. ASSUME NEW w \in Workers, ReadDeadlineAndSend(w)
      PROVE  Deadlines'
  <2>1. /\ \A c \in calls' : c \in calls \/ c.deadline = DeadlineOf(c.attempt)
        /\ UNCHANGED vars
    BY <1>4 DEF ReadDeadlineAndSend, DeadlineOf
  <2>2. \A c \in calls : ~Terminal(c.attempt) => c.deadline = DeadlineOf(c.attempt)
    BY <1>0 DEF Deadlines
  <2>3. \A a : Terminal(a)' = Terminal(a) /\ DeadlineOf(a)' = DeadlineOf(a)
    BY <2>1 DEF vars, Terminal, DeadlineOf
  <2> QED BY <1>1, <2>1, <2>2, <2>3 DEF Deadlines
<1>5. CASE FlowTick
  <2>1. Tick /\ calls' = {[c EXCEPT !.deadline = Sooner(@)] : c \in calls}
    BY <1>5 DEF FlowTick
  <2>2. ASSUME NEW c \in calls', ~Terminal(c.attempt)'
        PROVE  c.deadline = DeadlineOf(c.attempt)'
    <3>1. PICK d \in calls : c = [d EXCEPT !.deadline = Sooner(@)]
      BY <2>1, <2>2
    <3>2. c.attempt = d.attempt /\ c.deadline = Sooner(d.deadline)
      BY <1>0, <3>1 DEF FlowTables, CallRow
    <3> QED BY <1>2, <2>1, <2>2, <3>2 DEF DeadlineOf, Terminal
  <2> QED BY <1>1, <2>2 DEF Deadlines
<1>6. ASSUME NEW w \in Workers, Work(w), ~ReadDeadlineAndSend(w)
      PROVE  \A c \in calls' : \E d \in calls : c.attempt = d.attempt /\ c.deadline = d.deadline
  BY <1>0, <1>6, ForsakenCalls DEF Work, Claim, ReadAttempt, GiveUp, ApplyAnswer, Crash
<1>7. ASSUME NEW c \in calls, (\E heard \in BOOLEAN : Accept(c, heard)) \/ Lose(c)
      PROVE  calls' \subseteq calls
  BY <1>7 DEF Accept, Lose
<1>8. ASSUME FlowNext, \A w \in Workers : ~Work(w), ~FlowTick
      PROVE  calls' \subseteq calls
  BY <1>7, <1>8 DEF FlowNext, Shop, flow, StartPayment, Callback, FindDue, ExpireNext, SweepFails
<1>9. Transaction \/ UNCHANGED vars \/ FlowTick
  BY <1>0, StepMaps
<1>10. CASE \E w \in Workers : Work(w)
  BY <1>3, <1>4, <1>5, <1>6, <1>9, <1>10
<1>11. CASE UNCHANGED flowVars
  BY <1>3, <1>5, <1>9, <1>11 DEF flowVars, flow
<1> QED BY <1>3, <1>5, <1>8, <1>9, <1>10, <1>11

-----------------------------------------------------------------------------
(* Theorems *)

\* Every reachable state of the flow satisfies its inductive invariant: whatever is
\* late, lost, sent twice or dies, only the provider's own results are applied.
THEOREM FlowInvariance == FlowSpec => []FlowInv
<1>1. FlowInv /\ [FlowNext]_flowVars => FlowInv'
  <2> SUFFICES ASSUME FlowInv, [FlowNext]_flowVars PROVE FlowInv'
    OBVIOUS
  <2>1. TypeInv'
    BY StepMaps, TypeInvNext DEF FlowInv
  <2>2. FlowTables' /\ Deadlines'
    BY FlowTablesNext, DeadlinesNext
  <2>3. Answers'
    BY AppliedNext, HeardNext DEF FlowInv, Answers
  <2> QED BY <2>1, <2>2, <2>3 DEF FlowInv
<1> QED BY <1>1, FlowInvInit, PTL DEF FlowSpec

\* Workers, provider, callbacks and the sweep do to the order database only what its
\* transactions may do in some order, so all that holds of Checkout holds here.
THEOREM FlowImplementsCheckout == FlowSpec => Spec
<1>1. FlowInv /\ [FlowNext]_flowVars => [Next]_vars
  BY StepMaps DEF FlowInv
<1> QED BY <1>1, FlowInvariance, PTL DEF FlowSpec, FlowInit, Spec

\* The flow keeps the promises of the allocation of limited stock as well.
THEOREM FlowAllocatesStock == FlowSpec => AllocatesStock
BY FlowImplementsCheckout, Refinement, PTL

\* What the invariants of the flow and of the order database say together.
LEMMA FlowBoth == FlowSpec => [](FlowInv /\ Inv /\ TypeOK)
BY FlowInvariance, FlowImplementsCheckout, Invariance, TypeCorrect, PTL

\* Jobs, receipts, workers, calls and the sweep refer only to rows that exist.
THEOREM FlowTyped == FlowSpec => []FlowTypeOK
<1>1. FlowInv /\ TypeOK => FlowTypeOK
  BY DEF FlowInv, FlowTables, FlowTypeOK, TypeOK, IsTable, JobRow, ReceiptRow, WorkerRow, CallRow
<1> QED BY <1>1, FlowBoth, PTL

\* The money for an order is taken once at most: an attempt that is charged is not
\* failed, and an order has one attempt that is not.
THEOREM ChargedOnce == FlowSpec => []NoDoubleCharge
<1>1. FlowInv /\ Inv => NoDoubleCharge
  <2> SUFFICES ASSUME FlowInv, Inv, NEW a \in AttemptIds, NEW b \in AttemptIds,
                      Charged(a), Charged(b), attempts[a].order = attempts[b].order
               PROVE  a = b
    BY DEF NoDoubleCharge
  <2>1. ASSUME NEW x \in {a, b}
        PROVE  x \in DOMAIN attempts /\ attempts[x].status # "FAILED"
    BY DEF FlowInv, FlowTables, Answers, AppliedIsRecorded, Charged, Terminal
  <2> QED BY <2>1 DEF Inv, StateInv, OneBlockingAttempt
<1> QED BY <1>1, FlowBoth, PTL

\* Stock is not given back once the provider has taken the money for it, although
\* nobody here may know that yet.
THEOREM ChargedStaysStocked == FlowSpec => []ChargedKeepsStock
<1>1. FlowInv /\ Inv => ChargedKeepsStock
  <2> SUFFICES ASSUME FlowInv, Inv, NEW a \in AttemptIds, Charged(a)
               PROVE  /\ reservations[attempts[a].order].status # "EXPIRED"
                      /\ orders[attempts[a].order].status # "PAYMENT_PENDING"
    BY DEF ChargedKeepsStock
  <2> DEFINE o == attempts[a].order
  <2>1. a \in DOMAIN attempts /\ (Terminal(a) => attempts[a].status = "SUCCEEDED")
    BY DEF FlowInv, FlowTables, Answers, AppliedIsRecorded, Charged
  <2>2. o \in DOMAIN orders /\ AttemptInv /\ HoldFollowsOrder
    BY <2>1, AttemptInvSame DEF Inv, StateInv, TypeInv, References
  <2>3. orders[o].status \in {"PAYMENT_PROCESSING", "CONFIRMED"}
    BY <2>1, <2>2 DEF AttemptInv
  <2> QED BY <2>2, <2>3 DEF HoldFollowsOrder
<1> QED BY <1>1, FlowBoth, PTL

\* A final result, and every one a worker is about to apply, is the provider's own:
\* apply() never meets a result that contradicts the one it has.
THEOREM ResultsAgree == FlowSpec => []ResultIsTheProviders
<1>1. FlowInv => ResultIsTheProviders
  BY DEF FlowInv, Answers, AppliedIsRecorded, HeardIsRecorded, ResultIsTheProviders
<1> QED BY <1>1, FlowInvariance, PTL

\* The provider takes up an attempt only while its deadline lies ahead here too,
\* however long the call that carries the deadline was on its way.
LEMMA TakenUp ==
  ASSUME FlowInv, [FlowNext]_flowVars, NEW a \in DOMAIN receipts' \ DOMAIN receipts,
         receipts'[a].result # "FAILED"
  PROVE  ~Terminal(a) /\ reservations[attempts[a].order].confirmationDeadline > 0
<1>1. ~ UNCHANGED receipts /\ ~FlowTick
  BY DEF FlowTick
<1>2. PICK c \in calls, heard \in BOOLEAN : Accept(c, heard)
  BY <1>1 DEF FlowNext, Shop, flow, flowVars, StartPayment, Callback, FindDue, ExpireNext,
     SweepFails, Work, Claim, ReadAttempt, ReadDeadlineAndSend, GiveUp, ApplyAnswer, Crash, Lose
<1>3. c.attempt = a /\ receipts'[a] = Receipt(c) /\ c \in CallRow
  BY <1>2 DEF Accept, Insert, FlowInv, FlowTables
<1>4. FirstResult(c) # "FAILED"
  BY <1>3 DEF Receipt
<1>5. c.deadline > 0
  BY <1>3, <1>4, TimesAssumption DEF FirstResult, CallRow
<1>6. ~Terminal(a)
  BY <1>3 DEF FlowInv, Answers, AppliedIsRecorded, CallRow
<1> QED BY <1>3, <1>5, <1>6 DEF FlowInv, Deadlines, DeadlineOf

\* The provider never takes money for an attempt whose deadline is over.
THEOREM TakenInTime == FlowSpec => TakenUpInTime
<1>1. FlowInv /\ [FlowNext]_flowVars =>
        [\A a \in DOMAIN receipts' \ DOMAIN receipts :
           receipts'[a].result # "FAILED" =>
             ~Terminal(a) /\ reservations[attempts[a].order].confirmationDeadline > 0]_flowVars
  BY TakenUp
<1> QED BY <1>1, FlowInvariance, PTL DEF FlowSpec, TakenUpInTime
=============================================================================
