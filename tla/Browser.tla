------------------------------ MODULE Browser ------------------------------
(***************************************************************************)
(* One iteration of the browser scripts of k6/target: a user joins the     *)
(* waiting room, polls until READY, buys with the ticket, and pays, with   *)
(* retries at every request (common.js).  The service answers as it likes, *)
(* but for what it promises: a purchase that was made is answered with its *)
(* order, and a payment is refused when the hold has lapsed.               *)
(*                                                                         *)
(* Time is in ticks of some seconds.  A step takes some ticks, and the      *)
(* clocks of the browser and of the service move by them; what a step lasts *)
(* is rounded up, and what it must be done within is rounded down.          *)
(***************************************************************************)
EXTENDS Integers

CONSTANTS
  Plans,        \* what is run: script, variant, and how long after setup (or, for the
                \* worker script, after its order was made)
  Latencies,    \* how long a request may take, 0 up to the timeout (5 s)
  BrowserFor,   \* no round begins later (180 s)
  MaxJoins,     \* 5
  MaxTries,     \* of one purchase or payment, 5
  LongestThink, \* before a payment (45 s)
  OneSecond,    \* in ticks, rounded down and up
  BurstAt,      \* when the payments of a burst come, from setup on (60 s)
  RetryAfters,  \* what the waiting room asks for
  TicketFor,    \* how long a ticket lasts (10 s)
  GracefulStop, \* of an arrival window (420 s)
  HoldFor       \* how long the stock is held (300 s)

Scripts == {"business", "returning", "warmup", "reservation", "waiting", "worker"}
Variants == {"normal", "burst", "late-payment", "abandon", "retry", "pg-failure"}

ASSUME BrowserAssumption ==
  /\ Plans \subseteq [script : Scripts, variant : Variants, since : Nat]
  /\ OneSecond \cup Latencies \subseteq Nat /\ RetryAfters \subseteq Nat
  /\ {BrowserFor, MaxJoins, MaxTries, LongestThink, BurstAt, TicketFor,
        GracefulStop, HoldFor} \subseteq Nat \ {0}

VARIABLES
  plan,        \* the plan of this iteration; "returning" and "business" share a script
  step,        \* where the script is
  clock,       \* since the iteration began
  rejoins,     \* joins so far
  attempt,     \* of the purchase or payment under way
  retryAfter,  \* of the last answer of the waiting room, 0 when of no use
  expires,     \* time left on the ticket, 0 when there is none of use
  order,       \* whether the browser has its order
  server,      \* whether the service has it, for how long it is held, and paid for
  paid         \* how the payment went

browserVars ==
  <<plan, step, clock, rejoins, attempt, retryAfter, expires, order, server, paid>>

Requests == {"join", "poll", "buy", "replay", "pay"}
Sleeps == {"rejoin", "pause", "backoff", "think", "payBackoff"}

Purchases == plan.script \in {"business", "returning", "warmup", "reservation"}
Pays == plan.script \in {"business", "returning", "warmup"}

After(time, d) == IF time > d THEN time - d ELSE 0

\* The worker script pays for orders made before (existingPayment).
BrowserInit ==
  /\ plan \in Plans
  /\ step = IF plan.script = "worker" THEN "pay" ELSE "join"
  /\ clock = 0 /\ rejoins = 0 /\ attempt = 0
  /\ retryAfter = 0
  /\ expires = 0
  /\ order = (plan.script = "worker")
  /\ server = [held |-> order, left |-> IF order THEN After(HoldFor, plan.since) ELSE 0, paid |-> FALSE]
  /\ paid = "none"

-----------------------------------------------------------------------------

\* d seconds pass, and the ticket and the hold with them.
Passes(d) == clock' = clock + d
TicketAfter(d) == After(expires, d)
ServerAfter(d) == [server EXCEPT !.left = After(@, d)]

\* It takes the payment within the d seconds.
PaidAfter(d) == [ServerAfter(d) EXCEPT !.paid = TRUE]

\* The service makes the order once it has been asked for "x" of the d seconds.
HeldAfter(x, d) == [server EXCEPT !.held = TRUE, !.left = HoldFor - (d - x)]

\* The loop's condition, when d seconds have passed.
Again(d, joins) == clock + d < BrowserFor /\ joins < MaxJoins

To(next, d, joins) == step' = IF Again(d, joins) THEN next ELSE "done"

LeastPause(r) == IF r > 1 THEN r ELSE 1

\* Math.pow(2, attempt) * 0.1 + up to 0.25: all of them together last less than a tick, which
\* is counted before the last try.
BackoffTimes(a) == IF a + 2 < MaxTries THEN {0} ELSE {0, 1}

-----------------------------------------------------------------------------
(* The waiting room *)

\* "ok" is 202, "later" is 429, 503 or no answer, "other" the rest.
Join(d, answer, r) ==
  /\ step = "join"
  /\ Passes(d) /\ server' = ServerAfter(d) /\ expires' = 0
  /\ rejoins' = rejoins + 1
  /\ retryAfter' = IF answer = "other" THEN 0 ELSE r
  /\ \/ /\ answer = "ok"
        /\ \/ step' = "pause"
           \/ ~Purchases /\ plan.variant = "abandon" /\ step' = "done"
     \/ answer = "later" /\ step' = "rejoin"
     \/ answer = "other" /\ step' = "done"
  /\ UNCHANGED <<plan, attempt, order, paid>>

\* pause(): the jitter of a quarter of a second is in the rounding.
Pause ==
  LET d == LeastPause(retryAfter) IN
  /\ step \in {"pause", "rejoin"}
  /\ Passes(d) /\ server' = ServerAfter(d) /\ expires' = TicketAfter(d)
  /\ IF step = "pause" THEN step' = "poll" ELSE To("join", d, rejoins)
  /\ UNCHANGED <<plan, rejoins, attempt, retryAfter, order, paid>>

\* "gone" is 404 or EXPIRED; "ready" brings a ticket good for e more seconds.
Poll(d, answer, r, e) ==
  /\ step = "poll"
  /\ Passes(d) /\ server' = ServerAfter(d)
  /\ retryAfter' = IF answer = "waiting" THEN r ELSE IF answer = "later" THEN retryAfter ELSE 0
  /\ expires' = IF answer = "ready" THEN e ELSE 0
  /\ \/ answer = "gone" /\ To("join", d, rejoins) /\ UNCHANGED attempt
     \/ answer \in {"later", "waiting"} /\ To("pause", d, rejoins) /\ UNCHANGED attempt
     \/ answer \in {"other", "sold out"} /\ step' = "done" /\ UNCHANGED attempt
     \/ /\ answer = "ready"
        /\ attempt' = 0
        /\ \/ ~Purchases /\ step' = "done"
           \/ Purchases /\ e > 0 /\ step' = "buy"
           \/ Purchases /\ e = 0 /\ To("join", d, rejoins)
  /\ UNCHANGED <<plan, rejoins, order, paid>>

-----------------------------------------------------------------------------
(* The purchase *)

ForgetsOrder == UNCHANGED order /\ attempt' = 0 /\ step' = IF Pays THEN "think" ELSE "done"  \* mutant
Bought ==
  /\ order' = TRUE
  /\ attempt' = 0
  /\ \/ plan.variant = "retry" /\ step' = "replay"
     \/ plan.variant # "retry" /\ Pays /\ step' = "think"
     \/ plan.variant # "retry" /\ ~Pays /\ step' = "done"

\* "ok" is 201 and "later" as above; the service may have made the order and not be heard
\* ("later").  "other" refuses, which it does not do once there is an order.
Buy(d, answer, x) ==
  /\ step = "buy"
  /\ Passes(d) /\ expires' = IF answer = "later" THEN TicketAfter(d) ELSE 0
  /\ \/ server.held /\ answer # "other" /\ server' = ServerAfter(d)
     \/ ~server.held /\ answer # "ok" /\ server' = server
     \/ ~server.held /\ answer # "other" /\ x < expires /\ server' = HeldAfter(x, d)
  /\ \/ answer = "ok" /\ Bought
     \/ answer = "later" /\ step' = "backoff" /\ UNCHANGED <<order, attempt>>
     \/ answer = "other" /\ To("join", d, rejoins) /\ UNCHANGED <<order, attempt>>
  /\ UNCHANGED <<plan, rejoins, retryAfter, paid>>

\* The attempts end with the ticket; the user then joins again with the same key.
Backoff(d) ==
  /\ step = "backoff"
  /\ Passes(d) /\ server' = ServerAfter(d)
  /\ attempt' = attempt + 1
  /\ IF attempt' < MaxTries /\ TicketAfter(d) > 0
     THEN step' = "buy" /\ expires' = TicketAfter(d)
     ELSE To("join", d, rejoins) /\ expires' = 0
  /\ UNCHANGED <<plan, rejoins, retryAfter, order, paid>>

\* The retry variant asks once more; whatever the answer, it has its order.
Replay(d) ==
  /\ step = "replay"
  /\ Passes(d) /\ server' = ServerAfter(d)
  /\ step' = IF Pays THEN "think" ELSE "done"
  /\ UNCHANGED <<plan, rejoins, attempt, retryAfter, expires, order, paid>>

-----------------------------------------------------------------------------
(* The payment *)

EveryoneIsLate == {server.left}  \* mutant
\* A late payment is sent a second before the hold lapses.
ThinkTimes ==
  IF plan.variant = "late-payment" THEN {After(server.left, second) : second \in OneSecond}
  ELSE IF plan.variant = "burst" THEN {After(BurstAt, plan.since + clock)}
  ELSE IF plan.script \in {"returning", "warmup"} THEN {0} ELSE {1, LongestThink}

Think(d) ==
  /\ step = "think"
  /\ d \in ThinkTimes
  /\ Passes(d) /\ server' = ServerAfter(d)
  /\ step' = "pay"
  /\ UNCHANGED <<plan, rejoins, attempt, retryAfter, expires, order, paid>>

\* One in five leaves without a word.
Abandon ==
  /\ step = "think" /\ plan.variant = "abandon" /\ plan.script # "returning"
  /\ step' = "done"
  /\ UNCHANGED <<plan, clock, rejoins, attempt, retryAfter, expires, order, server, paid>>

\* The service takes the payment if it gets to it in time, at once the first time and again
\* for the same key; "ok" is 202.
Pay(d, answer, x) ==
  LET inTime == server.paid \/ After(server.left, x) > 0 IN
  /\ step = "pay"
  /\ Passes(d)
  /\ \/ /\ answer = "ok" /\ inTime
        /\ server' = PaidAfter(d)
        /\ paid' = "accepted" /\ step' = "done"
     \/ /\ answer = "other" /\ ~inTime
        /\ server' = ServerAfter(d)
        /\ paid' = "late" /\ step' = "done"
     \/ /\ answer = "refused" /\ plan.script = "worker" /\ ~server.paid
        /\ server' = ServerAfter(d)
        /\ paid' = "refused" /\ step' = "done"
     \/ /\ answer = "later"
        /\ \/ server' = ServerAfter(d)
           \/ inTime /\ server' = PaidAfter(d)
        /\ step' = "payBackoff" /\ UNCHANGED paid
  /\ UNCHANGED <<plan, rejoins, attempt, retryAfter, expires, order>>

\* What the payment asks the mock provider for; "tenth" is the user's tenth of behaviors.
PgScenario(tenth) ==
  IF plan.variant # "pg-failure" \/ tenth > 3 THEN "SUCCESS"
  ELSE <<"UNKNOWN", "FAILURE", "LOST_RESPONSE", "DELAYED_SUCCESS">>[tenth + 1]

PayBackoff(d) ==
  /\ step = "payBackoff"
  /\ Passes(d) /\ server' = ServerAfter(d)
  /\ attempt' = attempt + 1
  /\ IF attempt' < MaxTries THEN step' = "pay" /\ UNCHANGED paid
     ELSE step' = "done" /\ paid' = "unanswered"
  /\ UNCHANGED <<plan, rejoins, retryAfter, expires, order>>

-----------------------------------------------------------------------------

Asks(d) ==
  \/ \E answer \in {"ok", "later", "other"}, r \in RetryAfters : Join(d, answer, r)
  \/ \E answer \in {"gone", "later", "waiting", "other", "sold out", "ready"},
        r \in RetryAfters, e \in 0..TicketFor : Poll(d, answer, r, e)
  \/ \E answer \in {"ok", "later", "other"}, x \in {0, d} : Buy(d, answer, x)
  \/ Replay(d)
  \/ \E answer \in {"ok", "later", "other", "refused"}, x \in {0, d} : Pay(d, answer, x)

Waits ==
  \/ Pause
  \/ \E d \in BackoffTimes(attempt) : Backoff(d) \/ PayBackoff(d)
  \/ \E d \in ThinkTimes : Think(d)

BrowserNext == (\E d \in Latencies : Asks(d)) \/ Waits \/ Abandon
BrowserSpec == BrowserInit /\ [][BrowserNext]_browserVars

-----------------------------------------------------------------------------
(* Times: how long a script may take if it repeats all it can *)

LongestRequest == CHOOSE d \in Latencies : \A e \in Latencies : e <= d
LongestRetry == CHOOSE r \in RetryAfters : \A q \in RetryAfters : q <= r

\* A round that begins in time ends with a ticket, the ticket with a purchase (made once
\* more by the retry variant), and the user then thinks.
ReadyBy == BrowserFor - 1 + 2 * LongestRequest + LeastPause(LongestRetry)
BoughtBy == ReadyBy + TicketFor - 1 + LongestRequest
PaysBy == BoughtBy + LongestRequest + LongestThink
PayTime == MaxTries * LongestRequest + 2
PaidBy == PaysBy + PayTime

\* The script's arrival window and the service's hold are longer than that; those of
\* common.js leave seconds only.
ASSUME TimesAssumption ==
  /\ \E d \in Latencies : \A e \in Latencies : e <= d
  /\ \E r \in RetryAfters : \A q \in RetryAfters : q <= r
  /\ BurstAt <= PaysBy
  /\ PaidBy <= GracefulStop /\ PaidBy <= HoldFor
  /\ \A p \in Plans : p.script = "worker" => p.since + PayTime <= HoldFor

-----------------------------------------------------------------------------
(* Properties *)

\* Nobody pays too late without meaning to: whatever the purchase and the payment had to
\* wait and be repeated, the hold outlasts them (business.js: target_payment_rejected,
\* rate==0, except for the late-payment variant).
PaymentsAreInTime == paid = "late" => plan.variant = "late-payment"

\* An iteration ends within the graceful stop of its arrival window (arrival: 420s), or k6
\* would cut it off with its hold unpaid and its payment not counted.
EndsGracefully == plan.variant # "late-payment" => clock <= GracefulStop

\* The times given to a script suffice, whatever it has to repeat.
KeepsItsTimes == PaymentsAreInTime /\ EndsGracefully

\* An iteration as those who count see it: what is made and heard of.
Seen ==
  [order |-> IF order THEN "heard" ELSE IF server.held THEN "made" ELSE "none",
   payment |-> IF paid = "accepted" THEN "heard" ELSE IF server.paid THEN "made" ELSE "none",
   ended |-> step = "done"]

Counted == INSTANCE Iteration WITH it <- Seen

\* Seen from outside, a script hears only of what was made, and pays only for an order it
\* has heard of: it implements an iteration of those that the load trials count.
ImplementsIteration == Counted!IterationSpec
=============================================================================
