----------------------------- MODULE TargetPlan -----------------------------
(***************************************************************************)
(* What is agreed on before a load trial of the target: the arrival windows *)
(* and the thresholds of the k6 scripts (k6/target), what target.ps1 lets   *)
(* through, and what target-review.ps1 asks of the results.  An experiment   *)
(* is a trial of the warm-up's configuration, then one of its own.          *)
(***************************************************************************)
EXTENDS Integers, FiniteSets, FiniteSetsExt

CONSTANTS
  Rates,      \* arrivals per second, of the script and of its payments
  Durations,  \* seconds
  Stocks,
  Users

ASSUME RatesAssumption == Rates \subseteq Nat

Stages == {"warmup", "worker", "waiting", "reservation", "isolation", "business"}
TrialVariants == {"normal", "burst", "late-payment", "abandon", "retry", "pg-failure"}

VARIABLES
  asked,   \* the configuration of the experiment
  config   \* that of the trial under way

planVars == <<asked, config>>

-----------------------------------------------------------------------------
(* target.ps1: the configurations it takes, and that of the warm-up *)

EnoughStock(c) == c.scenario = "reservation" => c.stock >= c.rps * c.seconds

MostStock == 1000000
MostUsers == 50000
MostRps == 100000

Allowed(c) ==
  /\ c.seconds \in 1..180
  /\ c.stock \in 1..MostStock
  /\ c.users \in 10..MostUsers /\ c.users % 10 = 0
  /\ c.paymentRps >= 1 /\ (c.scenario \notin {"business", "warmup"} => c.rps \in 1..MostRps)
  /\ c.scenario # "business" =>
       c.variant = "normal" \/ (c.scenario \in {"waiting", "isolation"} /\ c.variant = "abandon")
  /\ EnoughStock(c)

Warmup(c) == [c EXCEPT !.scenario = "warmup", !.variant = "normal", !.stock = 400,
                       !.users = 270, !.seconds = 40, !.rps = 10]

Configs ==
  {c \in [scenario : Stages, variant : TrialVariants, delay : {0, 200}, rps : Rates,
          paymentRps : Rates, seconds : Durations, stock : Stocks, users : Users] : Allowed(c)}

PlanInit == asked \in Configs /\ config = Warmup(asked)

\* An experiment of the warm-up ends with it.
Measure ==
  /\ config = Warmup(asked) /\ asked.scenario # "warmup"
  /\ config' = asked /\ UNCHANGED asked

PlanSpec == PlanInit /\ [][Measure]_planVars

-----------------------------------------------------------------------------
(* The scripts: windows of arrivals, each "rate" per "unit" seconds *)

Window(name, rate, seconds, start, unit) ==
  [name |-> name, rate |-> rate, seconds |-> seconds, start |-> start, unit |-> unit]

BusinessWindows(c) ==
  {Window("opening", (c.users * 6) \div 10, 5, 0, 5),
   Window("middle", (c.users * 3) \div 10, 10, 5, 10),
   Window("tail", c.users \div 10, 45, 15, 45)}
  \cup (IF c.variant = "abandon" THEN {Window("returning", c.stock, 60, 300, 60)} ELSE {})

WarmupRates == [warmup_1 |-> 2, warmup_2 |-> 5, warmup_3 |-> 10, warmup_4 |-> 10]
WarmupStarts == [warmup_1 |-> 0, warmup_2 |-> 10, warmup_3 |-> 20, warmup_4 |-> 30]
WarmupWindows ==
  {Window(name, WarmupRates[name], 10, WarmupStarts[name], 1) : name \in DOMAIN WarmupRates}

Steady(name, rate, c) == Window(name, rate, c.seconds, 0, 1)
IsolationWindows(c) == {Steady("browsers", c.rps, c), Steady("payments", c.paymentRps, c)}
ReservationWindows(c) == {Steady("buyers", c.rps, c)}
WaitingWindows(c) == {Steady("browsers", c.rps, c)}
WorkerWindows(c) == {Steady("payments", c.rps, c)}

Windows(c) ==
  CASE c.scenario = "business" -> BusinessWindows(c)
    [] c.scenario = "warmup" -> WarmupWindows
    [] c.scenario = "isolation" -> IsolationWindows(c)
    [] c.scenario = "reservation" -> ReservationWindows(c)
    [] c.scenario = "waiting" -> WaitingWindows(c)
    [] c.scenario = "worker" -> WorkerWindows(c)

\* constant-arrival-rate, without the one that may come at the end of a window.
ArrivalsOf(w) == (w.rate * w.seconds) \div w.unit
Arrivals(c) == MapThenSumSet(ArrivalsOf, Windows(c))

PaymentArrivals(c) == IF c.scenario = "isolation" THEN c.paymentRps * c.seconds ELSE c.rps * c.seconds

-----------------------------------------------------------------------------
(* The scripts: thresholds, as pairs of a metric and its limit *)

PrimaryNormal(c) == c.variant = "normal" /\ c.delay = 0

WaitingThresholds ==
  UNION {{<<"target_latency", endpoint, "p(99)<=1000">>, <<"target_unexpected", endpoint, "rate==0">>}
         : endpoint \in {"waiting_join", "waiting_poll"}}
PaymentThresholds ==
  {<<"target_payment_accepted_ms", "", "p(95)<=1000">>,
   <<"target_unexpected", "payment_accept", "rate==0">>}
PurchaseIsFast == {<<"target_purchase_accepted_ms", "", "p(99)<=1000">>}
NoRejection == {<<"target_payment_rejected", "", "rate==0">>}

Unless(condition, set) == IF condition THEN {} ELSE set

CommonThresholds(c, extra) ==
  {<<"dropped_iterations", "", "count==0">>}
  \cup Unless(~PrimaryNormal(c), {<<"target_unexpected", "", "rate<=0.001">>})
  \cup extra

WarmupThresholds ==
  {<<"dropped_iterations", "", "count==0">>, <<"target_unexpected", "", "rate==0">>} \cup NoRejection

BusinessThresholds(c) ==
  CommonThresholds(c,
    Unless(c.variant = "late-payment", NoRejection)
    \cup Unless(~PrimaryNormal(c), PurchaseIsFast \cup PaymentThresholds \cup WaitingThresholds))

Thresholds(c) ==
  CASE c.scenario = "business" -> BusinessThresholds(c)
    [] c.scenario = "warmup" -> WarmupThresholds
    [] c.scenario \in {"worker", "isolation"} ->
         CommonThresholds(c, NoRejection \cup Unless(~PrimaryNormal(c), PaymentThresholds))
    [] c.scenario = "waiting" -> CommonThresholds(c, Unless(~PrimaryNormal(c), WaitingThresholds))
    [] c.scenario = "reservation" -> CommonThresholds(c, Unless(~PrimaryNormal(c), PurchaseIsFast))

IsTimed(t) ==
  t[1] \in {"target_latency", "target_payment_ms", "target_payment_accepted_ms", "target_purchase_accepted_ms"}
PaymentsAreTimed(c) == \E t \in Thresholds(c) : t[1] = "target_payment_accepted_ms"

-----------------------------------------------------------------------------
(* target-trial.ps1 and target-review.ps1 *)

\* The held orders made before a trial of payments.
PaymentFixture(c) == PaymentArrivals(c) + 1

Normal(c) == c.variant = "normal" /\ c.delay = 0

Required(c) ==
  {<<"dropped_iterations", "", "count==0">>}
  \cup Unless(c.scenario # "warmup", {<<"target_unexpected", "", "rate==0">>})
  \cup Unless(c.scenario = "warmup" \/ ~Normal(c),
         {<<"target_unexpected", "", "rate<=0.001">>}
         \cup Unless(c.scenario \notin {"worker", "isolation", "business"}, PaymentThresholds)
         \cup Unless(c.scenario \notin {"reservation", "business"}, PurchaseIsFast)
         \cup Unless(c.scenario \notin {"waiting", "business"}, WaitingThresholds))
  \cup Unless(c.scenario \notin {"warmup", "worker", "isolation"}, NoRejection)
  \cup Unless(c.scenario # "business" \/ c.variant = "late-payment", NoRejection)

NoReturning(c) == IF c.scenario = "warmup" THEN 270 ELSE c.users  \* mutant
Expected(c) ==
  IF c.scenario = "warmup" THEN 270
  ELSE IF c.scenario = "business" THEN c.users + (IF c.variant = "abandon" THEN c.stock ELSE 0)
  ELSE IF c.scenario = "isolation" THEN (c.rps + c.paymentRps) * c.seconds
  ELSE c.rps * c.seconds

Tolerance(c) ==
  IF c.scenario = "warmup" THEN 4
  ELSE IF c.scenario = "business" THEN IF c.variant = "abandon" THEN 4 ELSE 3
  ELSE IF c.scenario = "isolation" THEN 2 ELSE 1

-----------------------------------------------------------------------------
(* Properties *)

\* The review and the scripts, written apart, agree on the criteria: every threshold the
\* review requires is one that the script of that configuration sets, or no trial of it
\* could pass.
CriteriaAgree == Required(config) \subseteq Thresholds(config)

\* Latencies are judged in normal trials alone: some in each, the warm-up excepted, and of
\* payments only those accepted; in a trial that is delayed or disturbed on purpose neither
\* they nor the rate of errors are (target-static-test.mjs:212,225-232,240-246).
OnlyNormalIsTimed ==
  /\ (\E t \in Thresholds(config) : IsTimed(t)) = (PrimaryNormal(config) /\ config.scenario # "warmup")
  /\ config.scenario = "business" => PaymentsAreTimed(config) = PrimaryNormal(config)
  /\ \A t \in Thresholds(config) : t[1] # "target_payment_ms"
  /\ ~PrimaryNormal(config) /\ config.scenario # "warmup" =>
       \A t \in Thresholds(config) : t[1] # "target_unexpected"

\* The review counts the arrivals that the windows bring, and allows for one more at the
\* end of each.
ArrivalsAgree ==
  /\ Arrivals(config) = Expected(config)
  /\ Cardinality(Windows(config)) = Tolerance(config)

\* The windows of a sale follow each other without a gap (the returning buyers come when
\* the first holds lapse), so that the load is the one that was asked for.
WindowsFollow ==
  \A w \in Windows(config) :
    \/ w.start = 0 \/ (w.name = "returning" /\ w.start = 300)
    \/ \E v \in Windows(config) : v.start + v.seconds = w.start

\* Every arrival of a trial of payments finds an order of its own to pay for, the one more
\* included ("Payment fixture exhausted" fails the iteration unnoticed by any threshold).
FixtureLasts ==
  config.scenario \in {"worker", "isolation"} =>
    \A w \in Windows(config) : w.name = "payments" => ArrivalsOf(w) + 1 <= PaymentFixture(config)
=============================================================================
