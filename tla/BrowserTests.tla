---------------------------- MODULE BrowserTests ----------------------------
(***************************************************************************)
(* The offline contract tests of the browser scripts (target-static-       *)
(* test.mjs): a script runs against a list of mocked responses and a clock *)
(* that moves by its sleeps alone, and the test then looks at the requests *)
(* it made, its sleeps and its metrics.  A tick is a second.               *)
(***************************************************************************)
EXTENDS Browser, Sequences, FiniteSets, FiniteSetsExt, SequencesExt

VARIABLES
  test,       \* the name of the test that runs
  tenth,      \* of behaviors, that the index of the iteration falls into
  responses,  \* still to be given
  calls,      \* names of the requests made, with the outcome of each
  sleeps      \* in order

testVars == <<browserVars, test, tenth, responses, calls, sleeps>>

-----------------------------------------------------------------------------
(* request(): what the script makes of a response *)

Response(status, code) == [status |-> status, code |-> code]

Known409 == {"SOLD_OUT", "TEMPORARILY_UNAVAILABLE", "ADMISSION_EXPIRED", "HOLD_EXPIRED",
             "USER_LIMIT_EXCEEDED"}

Unexpected(name, r) ==
  \/ r.status = 0 \/ r.status >= 500
  \/ /\ r.status >= 400 /\ r.status # 429
     /\ ~(r.status = 404 /\ name = "poll")
     /\ ~(r.status = 409 /\ r.code \in Known409)

Good == [join |-> 202, poll |-> 200, buy |-> 201, replay |-> 201, pay |-> 202]

OnlyServerErrors == {0, 503}  \* mutant
Repeatable == {0, 429, 503}

AnswerTo(name, r) ==
  IF name = "poll" /\ (r.status = 404 \/ r.code = "EXPIRED") THEN "gone"
  ELSE IF r.status \in Repeatable THEN "later"
  ELSE IF r.status # Good[name] THEN "other"
  ELSE IF name # "poll" THEN "ok"
  ELSE CASE r.code = "READY" -> "ready" [] r.code = "SOLD_OUT" -> "sold out" [] OTHER -> "waiting"

-----------------------------------------------------------------------------
(* The tests *)

Joined == Response(202, "WAITING")
ReadyNow == Response(200, "READY")
Held == Response(201, "ok")
Paid == Response(202, "ok")

\* What a test runs, with which behaviors, on which responses, and the requests it expects.
Case(script, variant, tenths, mocked, requests) ==
  [plan |-> [script |-> script, variant |-> variant, since |-> 0],
   tenths |-> tenths, mocked |-> mocked, requests |-> requests]

AnyTenth == 0..9
Buying == <<Joined, ReadyNow, Held, Paid>>
Buys == <<"join", "poll", "buy", "pay">>

Tests ==
  [worker |-> Case("worker", "normal", AnyTenth, <<Paid>>, <<"pay">>),
   workerRepeats |-> Case("worker", "normal", AnyTenth,
     <<Response(503, ""), Response(429, ""), Paid>>, <<"pay", "pay", "pay">>),
   workerRefused |-> Case("worker", "normal", AnyTenth, <<Response(400, "")>>, <<"pay">>),
   waiting |-> Case("waiting", "normal", AnyTenth, <<Joined, ReadyNow>>, <<"join", "poll">>),
   reservation |-> Case("reservation", "normal", AnyTenth,
     <<Joined, ReadyNow, Response(429, "PURCHASE_BUSY"), Held>>, <<"join", "poll", "buy", "buy">>),
   retry |-> Case("business", "retry", AnyTenth,
     <<Joined, ReadyNow, Held, Held, Paid>>, <<"join", "poll", "buy", "replay", "pay">>),
   late |-> Case("business", "late-payment", AnyTenth, Buying, Buys),
   burst |-> Case("business", "burst", AnyTenth, Buying, Buys),
   abandon |-> Case("business", "abandon", {0, 1}, <<Joined, ReadyNow, Held>>, <<"join", "poll", "buy">>),
   failure |-> Case("business", "pg-failure", {0}, Buying, Buys),
   warmup |-> Case("warmup", "normal", AnyTenth, Buying, Buys)]

\* setup() waits for the sale to open, which here it has.
SetupSleeps(script) == IF script = "business" THEN <<0>> ELSE <<>>

TestInit ==
  /\ BrowserInit
  /\ test \in DOMAIN Tests
  /\ plan = Tests[test].plan
  /\ tenth \in Tests[test].tenths
  /\ responses = Tests[test].mocked
  /\ calls = <<>>
  /\ sleeps = SetupSleeps(plan.script)

\* The metrics that a request adds to; started, finished and rejected payments are added to
\* by the iteration.
Metrics ==
  {"target_outcomes", "target_ready", "target_held", "target_payment_accepted", "target_unexpected",
   "target_purchase_rejected", "target_latency", "target_purchase_accepted_ms", "target_payment_ms",
   "target_payment_accepted_ms"}

Adds(name, r) ==
  {"target_outcomes", "target_latency", "target_unexpected"}
  \cup (IF name = "poll" /\ AnswerTo(name, r) = "ready" THEN {"target_ready"} ELSE {})
  \cup (IF name = "buy" THEN {"target_purchase_rejected"} ELSE {})
  \cup (IF name = "buy" /\ r.status = 201 THEN {"target_held", "target_purchase_accepted_ms"} ELSE {})
  \cup (IF name = "pay" THEN {"target_payment_ms"} ELSE {})
  \cup (IF name = "pay" /\ r.status = 202
         THEN {"target_payment_accepted", "target_payment_accepted_ms"} ELSE {})

Note(name, outcome) ==
  calls' = Append(calls, [name |-> name, bad |-> Unexpected(name, outcome), adds |-> Adds(name, outcome),
                          asks |-> IF name = "pay" THEN PgScenario(tenth) ELSE ""])

\* The mocked response comes at once, and without one the test fails.
MockedRequest ==
  /\ step \in Requests /\ responses # <<>>
  /\ LET r == Head(responses)
         answer == AnswerTo(step, r)
     IN /\ Note(step, r)
        /\ \/ Join(0, answer, 1)
           \/ Poll(0, answer, 1, TicketFor)
           \/ Buy(0, answer, 0)
           \/ step = "replay" /\ Replay(0)
           \/ Pay(0, IF answer = "other" THEN "refused" ELSE answer, 0)
  /\ responses' = Tail(responses)
  /\ UNCHANGED <<test, tenth, sleeps>>

\* One in five, by its behavior, abandons its hold.
Leaves == plan.variant = "abandon" /\ tenth < 2

FakeSleep ==
  /\ step \in Sleeps /\ ~(step = "think" /\ Leaves)
  /\ Waits
  /\ sleeps' = IF step = "think" /\ plan.script \in {"returning", "warmup"} THEN sleeps
               ELSE Append(sleeps, clock' - clock)
  /\ UNCHANGED <<test, tenth, responses, calls>>

LeavesHold ==
  /\ Leaves /\ Abandon
  /\ UNCHANGED <<test, tenth, responses, calls, sleeps>>

TestNext == MockedRequest \/ FakeSleep \/ LeavesHold
TestSpec == TestInit /\ [][TestNext]_testVars

-----------------------------------------------------------------------------
(* The assertions *)

Named(name) == SelectSeq(calls, LAMBDA c : c.name = name)
Total == FoldLeft(LAMBDA a, b : a + b, 0, sleeps)

RequestsMade == [i \in DOMAIN calls |-> calls[i].name] = Tests[test].requests

Count(metric) == Cardinality({i \in DOMAIN calls : metric \in calls[i].adds})

\* One acceptance is counted, or none where there is none, however often the script asked.
PaymentsCounted ==
  /\ Count("target_payment_ms") = Len(Named("pay"))
  /\ \A metric \in {"target_payment_accepted", "target_payment_accepted_ms"} :
       Count(metric) = IF test \in {"workerRefused", "waiting", "reservation", "abandon"} THEN 0 ELSE 1
  /\ (paid = "accepted") = (Count("target_payment_accepted") = 1)

\* The purchase asked for again is not another hold.
HoldsCounted == Count("target_held") = IF order /\ plan.script # "worker" THEN 1 ELSE 0

\* Nothing is added to that the summary does not know.
MetricsKnown == \A i \in DOMAIN calls : calls[i].adds \subseteq Metrics

WaitsForPoll == test = "waiting" => sleeps = <<1>>
BusyIsExpected == test = "reservation" => \A i \in DOMAIN calls : ~calls[i].bad
LateAtTheEnd == test = "late" => HoldFor - 1 \in ToSet(sleeps)
BurstTogether == test = "burst" => Total = BurstAt
UnknownIsAsked == test = "failure" => calls[Len(calls)].asks = "UNKNOWN"
NoThinkTime == test = "warmup" => Len(sleeps) = 1

\* No test meets a request it has no response for ("Unexpected mocked request"), whatever
\* the index of the iteration.
NoUnexpectedRequest == step \in Requests => responses # <<>>

\* Every contract test passes: when the script has ended, it has made the requests the test
\* expects in their order, its payments are counted, and its sleeps and outcomes are those
\* of the test (target-static-test.mjs, one block each).
Asserted ==
  /\ NoUnexpectedRequest
  /\ step = "done" =>
       /\ RequestsMade /\ PaymentsCounted /\ HoldsCounted /\ MetricsKnown
       /\ WaitsForPoll /\ BusyIsExpected /\ LateAtTheEnd
       /\ BurstTogether /\ UnknownIsAsked /\ NoThinkTime
=============================================================================
