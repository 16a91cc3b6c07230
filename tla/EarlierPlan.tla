---------------------------- MODULE EarlierPlan ----------------------------
(***************************************************************************)
(* The criteria of 2026-09-11, as the scripts and the review kept with the *)
(* first recorded trials of the target have them (artifacts/performance/   *)
(* 20260911-232830-531-target-worker-normal), beside those of today.       *)
(***************************************************************************)
EXTENDS TargetPlan

PaymentsAreFast == {<<"target_payment_ms", "", "p(95)<=1000">>}

EarlierCommon(extra) ==
  {<<"dropped_iterations", "", "count==0">>, <<"target_unexpected", "", "rate<=0.001">>} \cup extra

EarlierBusiness == EarlierCommon(PurchaseIsFast \cup PaymentsAreFast)
EarlierIsolation == EarlierCommon(NoRejection \cup PaymentsAreFast)
EarlierReservation == EarlierCommon(PurchaseIsFast)
EarlierWaiting == EarlierCommon({})
EarlierWorker == EarlierCommon(NoRejection \cup PaymentsAreFast)

EarlierThresholds(c) ==
  CASE c.scenario = "business" -> EarlierBusiness
    [] c.scenario = "isolation" -> EarlierIsolation
    [] c.scenario = "reservation" -> EarlierReservation
    [] c.scenario = "waiting" -> EarlierWaiting
    [] c.scenario = "worker" -> EarlierWorker

\* The windows were those of today.
EarlierBusinessWindows(c) == BusinessWindows(c)
EarlierIsolationWindows(c) == {Steady("browsers", c.rps, c), Steady("payments", c.paymentRps, c)}
EarlierSteadyWindows(c) ==
  {Steady(IF c.scenario = "worker" THEN "payments"
          ELSE IF c.scenario = "reservation" THEN "buyers" ELSE "browsers", c.rps, c)}

EarlierWindows(c) ==
  IF c.scenario = "business" THEN EarlierBusinessWindows(c)
  ELSE IF c.scenario = "isolation" THEN EarlierIsolationWindows(c) ELSE EarlierSteadyWindows(c)

EarlierRequired(c) ==
  {<<"dropped_iterations", "", "count==0">>, <<"target_unexpected", "", "rate<=0.001">>}
  \cup Unless(c.scenario \notin {"worker", "isolation", "business"}, PaymentsAreFast)
  \cup Unless(c.scenario \notin {"worker", "isolation"}, NoRejection)
  \cup Unless(c.scenario \notin {"reservation", "business"}, PurchaseIsFast)

EarlierExpected(c) ==
  IF c.scenario = "business" THEN c.users + (IF c.variant = "abandon" THEN c.stock ELSE 0)
  ELSE IF c.scenario = "isolation" THEN (c.rps + c.paymentRps) * c.seconds
  ELSE c.rps * c.seconds

-----------------------------------------------------------------------------

\* There was no warm-up yet.
HadTrial == config.scenario # "warmup"

\* The earlier review and the earlier scripts agreed on the criteria, so that a verdict kept
\* in the records was not refused for want of a threshold.
EarlierCriteriaAgree == HadTrial => EarlierRequired(config) \subseteq EarlierThresholds(config)

\* The earlier review counted the arrivals that its scripts brought, and today's counts as
\* many, so that the kept verdicts are about the same load.
EarlierArrivalsAgree ==
  HadTrial =>
    /\ MapThenSumSet(ArrivalsOf, EarlierWindows(config)) = EarlierExpected(config)
    /\ EarlierExpected(config) = Expected(config)

\* A normal trial is judged no more kindly than it was: every earlier criterion is still one,
\* but that of payments the latency of the accepted alone is judged, while none may be
\* unexpected.  (Of disturbed trials fewer things are asked, on purpose.)
NormalIsJudgedNoLess ==
  HadTrial /\ PrimaryNormal(config) =>
    /\ EarlierThresholds(config) \ PaymentsAreFast \subseteq Thresholds(config)
    /\ PaymentsAreFast \subseteq EarlierThresholds(config) => PaymentThresholds \subseteq Thresholds(config)

\* What is asked for before a trial fits together, then and now.
ReviewsAgree ==
  /\ CriteriaAgree /\ OnlyNormalIsTimed
  /\ ArrivalsAgree /\ WindowsFollow /\ FixtureLasts
  /\ EarlierCriteriaAgree /\ EarlierArrivalsAgree /\ NormalIsJudgedNoLess
=============================================================================
