----------------------------- MODULE TargetRun -----------------------------
(***************************************************************************)
(* An experiment on the target (target.ps1): a warm-up trial, its review,  *)
(* the clean-up of its sale, and the measured trial with its review.  A    *)
(* trial runs the iterations of a k6 script against the service, drains,   *)
(* and is judged by what the script counted and what the database says.    *)
(*                                                                         *)
(* Of the database a row per order is kept: how the payment for it stands, *)
(* and whether that was meant to succeed.  Latencies are not looked at.    *)
(***************************************************************************)
EXTENDS Iterations, Naturals, Sequences, FiniteSets

CONSTANTS
  Kinds,  \* what may be measured: worker, waiting, reservation, business
  Count   \* arrivals of a trial; one more may come at the end of the window

Trials == {"warmup", "measured"}

VARIABLES
  measured,  \* what is measured, and in which variant
  trial,     \* the trial under way
  phase,     \* how far it is
  its,       \* trial -> its iterations, in the order of their arrival
  rows,      \* <<trial, index>> -> the order of that iteration in the database
  dropped,   \* arrivals without a free VU
  bad,       \* kinds of requests that were answered unexpectedly, or not
  settled,   \* trials whose requests have all ended in the service
  exit,      \* whether k6 was content
  verdict    \* trial -> of its review

runVars == <<measured, trial, phase, its, rows, dropped, bad, settled, exit, verdict>>

Kind == IF trial = "warmup" THEN "warmup" ELSE measured.kind
Variant == IF trial = "warmup" THEN "normal" ELSE measured.variant
Buys == Kind \in {"warmup", "reservation", "business"}
PaysFor == Kind \in {"warmup", "worker", "business"}

\* The worker's orders are in the database before.
Unpaid == [status |-> "unpaid", success |-> TRUE]
Seeded(t, kind) == IF kind = "worker" THEN [k \in {t} \X (1..Count + 1) |-> Unpaid] ELSE <<>>

RunInit ==
  /\ measured \in [kind : Kinds, variant : {"normal"}]
                  \cup [kind : Kinds \cap {"business"}, variant : {"late-payment", "pg-failure"}]
  /\ trial = "warmup" /\ phase = "load"
  /\ its = [t \in Trials |-> <<>>]
  /\ rows = <<>>
  /\ dropped = 0 /\ bad = {} /\ settled = {}
  /\ exit = FALSE
  /\ verdict = [t \in Trials |-> "none"]

-----------------------------------------------------------------------------
(* The load *)

MoreArrive == Len(its[trial]) + dropped <= Count

Arrive ==
  /\ phase = "load" /\ MoreArrive
  /\ \/ /\ its' = [its EXCEPT ![trial] = Append(@, Fresh(IF Kind = "worker" THEN "heard" ELSE "none"))]
        /\ UNCHANGED dropped
     \/ dropped' = dropped + 1 /\ UNCHANGED its
  /\ UNCHANGED <<measured, trial, phase, rows, bad, settled, exit, verdict>>

Made(stage) == stage \in {"made", "heard"}
WithRow(k, row) == [x \in DOMAIN rows \cup {k} |-> IF x = k THEN row ELSE rows[x]]

\* What the service does when iteration i of trial t goes from a to b.  Under pg-failure the
\* provider is asked not to succeed at once.
Serves(t, i, a, b) ==
  \/ /\ ~Made(a.order) /\ Made(b.order)
     /\ rows' = WithRow(<<t, i>>, Unpaid)
  \/ /\ ~Made(a.payment) /\ Made(b.payment)
     /\ \E success \in IF Variant = "pg-failure" THEN BOOLEAN ELSE {TRUE} :
          rows' = WithRow(<<t, i>>, [status |-> "pending", success |-> success])
  \/ Made(a.order) = Made(b.order) /\ Made(a.payment) = Made(b.payment) /\ UNCHANGED rows

Iterate(i) ==
  LET a == its[trial][i] IN
  /\ phase = "load" /\ ~a.ended
  /\ \E b \in IterationRecords \ {a} :
       /\ Moves(a, b)
       /\ b.order # a.order => Buys
       /\ b.payment # a.payment => PaysFor
       /\ Serves(trial, i, a, b)
       /\ its' = [its EXCEPT ![trial][i] = b]
  /\ UNCHANGED <<measured, trial, phase, dropped, bad, settled, exit, verdict>>

\* A request is not answered, or by an error; the script asks again, or goes on.
Misses(i) ==
  LET a == its[trial][i] IN
  /\ phase = "load" /\ ~a.ended
  /\ bad' = bad \cup {IF a.payment \in {"asked", "made"} THEN "payment" ELSE "other"}
  /\ UNCHANGED <<measured, trial, phase, its, rows, dropped, settled, exit, verdict>>

\* A request that the script waits for no more is still served.
ServeLate(t, i) ==
  LET a == its[t][i] IN
  /\ t \notin settled /\ (a.ended \/ t # trial \/ phase # "load")
  /\ \E b \in IterationRecords :
       /\ b.ended = a.ended /\ Moves([a EXCEPT !.ended = TRUE], [b EXCEPT !.ended = TRUE])
       /\ b # a
       /\ Serves(t, i, a, b)
       /\ its' = [its EXCEPT ![t][i] = b]
  /\ UNCHANGED <<measured, trial, phase, dropped, bad, settled, exit, verdict>>

Work(k) ==
  /\ k \in DOMAIN rows /\ rows[k].status = "pending"
  /\ \E status \in {"succeeded", "failed"} :
       /\ status = "failed" => Variant = "pg-failure" \/ phase # "load"
       /\ rows' = [rows EXCEPT ![k].status = status]
  /\ UNCHANGED <<measured, trial, phase, its, dropped, bad, settled, exit, verdict>>

-----------------------------------------------------------------------------
(* What is counted *)

Counted(states) == Cardinality({i \in DOMAIN its[trial] : its[trial][i] \in states})
Started == Len(its[trial])
Finished == Counted({a \in IterationRecords : a.ended})
HeldCount == IF Buys THEN Counted({a \in IterationRecords : a.order = "heard"}) ELSE 0
Accepted == Counted({a \in IterationRecords : a.payment = "heard"})

\* A payment that ended without an acceptance.
Rejected == Counted({a \in IterationRecords : a.ended /\ a.payment \in {"asked", "made"}})

InDb(states) == Cardinality({k \in DOMAIN rows : rows[k].status \in states})
SuccessInDb(states) ==
  Cardinality({k \in DOMAIN rows : rows[k].success /\ rows[k].status \in states})
Orders == Cardinality(DOMAIN rows)
Attempts == InDb({"pending", "succeeded", "failed"})
Confirmed == InDb({"succeeded"})
Pending == InDb({"pending"})
Failed == InDb({"failed"})
SuccessPending == SuccessInDb({"pending"})
SuccessAccepted == SuccessInDb({"pending", "succeeded", "failed"})
SuccessConfirmed == SuccessInDb({"succeeded"})

-----------------------------------------------------------------------------
(* The thresholds, the drain and the review *)

\* Up to one request in a thousand may be answered unexpectedly, payments in no case.
ThresholdsMet ==
  /\ dropped = 0
  /\ Kind = "warmup" => bad = {}
  /\ Kind \in {"worker", "business"} /\ Variant = "normal" => "payment" \notin bad
  /\ Kind \in {"warmup", "worker"} => Rejected = 0
  /\ Kind = "business" /\ Variant # "late-payment" => Rejected = 0

\* Iterations that the graceful stop cuts off do not end.
EndLoad ==
  /\ phase = "load" /\ Started + dropped >= Count
  /\ exit' = ThresholdsMet
  /\ phase' = "drain"
  /\ UNCHANGED <<measured, trial, its, rows, dropped, bad, settled, verdict>>

\* Wait-TargetSuccessDrain: 30 seconds, in which every request ends, and then until no
\* payment that is to succeed is pending, or the last deadline is over.
Settling == settled \cup {trial}
Drain ==
  /\ phase = "drain"
  /\ settled' = Settling
  /\ phase' = "drained"
  /\ UNCHANGED <<measured, trial, its, rows, dropped, bad, exit, verdict>>

OrdersMatchAnyway == Buys => HeldCount > 0  \* mutant
OrdersMatch == Buys => HeldCount > 0 /\ Orders = HeldCount

PaymentsMatch ==
  Kind \in {"warmup", "worker"} =>
    Accepted > 0 /\ Confirmed = Accepted /\ Pending = 0 /\ Failed = 0

WarmupMatches ==
  Kind = "warmup" =>
    /\ HeldCount = Started /\ Accepted = Started
    /\ Orders = Started /\ Attempts = Started /\ Confirmed = Started

Passes ==
  /\ exit
  /\ Started > 0 /\ Started = Finished
  /\ Started \in Count..Count + 1
  /\ OrdersMatch /\ PaymentsMatch /\ WarmupMatches
  /\ SuccessPending = 0 /\ SuccessAccepted = SuccessConfirmed
  /\ Kind = "waiting" => Orders = 0 /\ Attempts = 0

\* The database is read when the drain is over.
Review ==
  /\ phase = "drained"
  /\ verdict' = [verdict EXCEPT ![trial] = IF Passes THEN "good" ELSE "failed"]
  /\ phase' = "over"
  /\ UNCHANGED <<measured, trial, its, rows, dropped, bad, settled, exit>>

\* Remove-TargetWarmup, whose guard looks once more, and then the measured trial.
WithoutWarmup == [k \in {x \in DOMAIN rows : x[1] # "warmup"} |-> rows[k]]
CleanUpAndMeasure ==
  /\ trial = "warmup" /\ phase = "over" /\ verdict["warmup"] = "good"
  /\ Orders = Started /\ Attempts = Started /\ Confirmed = Started
  /\ trial' = "measured" /\ phase' = "load"
  /\ rows' = LET left == WithoutWarmup
                 seeded == Seeded("measured", measured.kind)
             IN [k \in DOMAIN left \cup DOMAIN seeded |-> IF k \in DOMAIN seeded THEN seeded[k] ELSE left[k]]
  /\ dropped' = 0 /\ bad' = {} /\ exit' = FALSE
  /\ UNCHANGED <<measured, its, settled, verdict>>

-----------------------------------------------------------------------------

RunNext ==
  \/ Arrive
  \/ \E i \in DOMAIN its[trial] : Iterate(i) \/ Misses(i)
  \/ \E t \in Trials : \E i \in DOMAIN its[t] : ServeLate(t, i)
  \/ \E k \in DOMAIN rows : Work(k)
  \/ EndLoad \/ Drain \/ Review \/ CleanUpAndMeasure

RunSpec == RunInit /\ [][RunNext]_runVars

-----------------------------------------------------------------------------
(* Properties *)

Good(kind) == trial = "measured" /\ verdict["measured"] = "good" /\ measured.kind \in kind
Heard(k, what) == k[2] \in DOMAIN its[k[1]] /\ its[k[1]][k[2]][what] = "heard"

\* A verdict compares counts, and still is about each order: after a good one no order is in
\* the database that its buyer has not heard of, not even later.
NoOrderUnheard ==
  Good({"reservation", "business"}) => \A k \in DOMAIN rows : Heard(k, "order")

\* Nor a payment: each is one whose payer was told of its acceptance (where rejections
\* count), and where success was meant it is confirmed.
NoPaymentUnheard ==
  Good({"worker", "business"}) =>
    \A k \in DOMAIN rows : rows[k].status # "unpaid" =>
      /\ measured.variant # "late-payment" => Heard(k, "payment")
      /\ rows[k].success => rows[k].status = "succeeded"

\* The measured trial counts its own orders alone ("perf is empty before each trial"): from
\* the clean-up on nothing of the warm-up is in the database, nor comes back.
MeasuresItsOwn == trial = "measured" => \A k \in DOMAIN rows : k[1] = "measured"

\* What a verdict says is so.
VerdictsAreRight == NoOrderUnheard /\ NoPaymentUnheard /\ MeasuresItsOwn
=============================================================================
