-------------------------- MODULE ExperimentProofs --------------------------
(***************************************************************************)
(* What the browser scripts promise for any times, numbers of tries and     *)
(* rounds that TimesAssumption allows: they pay in time and end in time,    *)
(* and seen from outside they are iterations as they are counted (Browser). *)
(* And what the recorded experiments show, for any rate, stock and number   *)
(* of servers and connections (Baseline, FirstSpike).                       *)
(***************************************************************************)
EXTENDS Browser, MCBaseline, FiniteSetTheorems, TLAPS

-----------------------------------------------------------------------------
(* The inductive invariant *)

ServerRow == [held : BOOLEAN, left : Int, paid : BOOLEAN]
Payments == {"none", "accepted", "late", "refused", "unanswered"}
Paying == {"pay", "payBackoff"}

BrowserTyped ==
  /\ plan \in Plans /\ step \in Requests \cup Sleeps \cup {"done"}
  /\ clock \in Nat /\ attempt \in Nat
  /\ retryAfter \in 0..LongestRetry /\ expires \in 0..TicketFor
  /\ order \in BOOLEAN /\ server \in ServerRow /\ paid \in Payments

\* What the script has heard of is so, and it pays once it has heard of its order.
HearsOfTruth ==
  /\ order => server.held /\ step \in Paying \cup {"replay", "think", "done"}
  /\ step \in Paying \cup {"replay", "think"} => order
  /\ plan.script = "worker" => step \in Paying \cup {"done"}
  /\ server.paid => order
  /\ paid # "none" => step = "done"
  /\ paid = "accepted" => server.paid

\* How long n requests may take.
For(n) == n * LongestRequest

\* By when the script is where it is, if it does not mean to be late.
PaymentEnd == IF plan.script = "worker" THEN PayTime ELSE PaidBy
BackoffsLeft == IF attempt < MaxTries - 1 THEN 2 ELSE 1

ComesInTime ==
  /\ step = "join" => clock < BrowserFor
  /\ step \in {"pause", "rejoin"} => clock <= BrowserFor - 1 + LongestRequest
  /\ step = "poll" => clock <= BrowserFor - 1 + LongestRequest + LeastPause(LongestRetry)
  /\ step = "buy" => expires > 0
  /\ step \in {"buy", "backoff"} /\ expires > 0 => clock <= ReadyBy + TicketFor - expires
  /\ step \in {"backoff", "replay"} => clock <= BoughtBy
  /\ step = "think" => clock <= BoughtBy + LongestRequest

PaysInTime ==
  /\ step \in {"replay", "think"} => attempt = 0
  /\ step \in Paying => attempt < MaxTries
  /\ plan.variant # "late-payment" =>
       /\ step = "pay" => clock <= PaymentEnd - For(MaxTries - attempt) - BackoffsLeft
       /\ step = "payBackoff" => clock <= PaymentEnd - For(MaxTries - attempt - 1) - BackoffsLeft
       /\ step = "done" => clock <= PaidBy
       /\ paid # "late"

\* The hold lasts since the order was made, which was not before the script began, or,
\* for the worker script, not before the time its plan tells.
HeldSince == IF plan.script = "worker" THEN plan.since ELSE 0
HoldLasts == server.held => HoldFor - HeldSince - server.left <= clock

BrowserInv == BrowserTyped /\ HearsOfTruth /\ ComesInTime /\ PaysInTime /\ HoldLasts

-----------------------------------------------------------------------------
(* Times *)

\* What is left of a time.
LEMMA AfterThat ==
  ASSUME NEW t \in Int, NEW d \in Nat
  PROVE  /\ After(t, d) \in Int /\ After(t, d) >= 0 /\ After(t, d) >= t - d
         /\ After(t, d) > 0 => After(t, d) = t - d
         /\ \A n \in Nat : t \in 0..n => After(t, d) \in 0..n
BY DEF After

\* A pause is no longer than the longest, and never none.
LEMMA PauseIsShort ==
  ASSUME NEW r \in Nat, NEW q \in 0..r
  PROVE  /\ LeastPause(q) \in Nat /\ LeastPause(q) >= 1
         /\ LeastPause(r) \in Nat /\ LeastPause(q) <= LeastPause(r)
BY DEF LeastPause

\* One request more takes the time of one request more.
LEMMA OneMore ==
  ASSUME NEW n \in Nat
  PROVE  LongestRequest \in Nat => /\ For(n) \in Nat /\ For(n + 1) = For(n) + LongestRequest
                                   /\ For(0) = 0 /\ For(1) = LongestRequest
BY DEF For

\* The constants and what is made from them.
LEMMA TimesAdd ==
  /\ LongestRequest \in Nat /\ LongestRetry \in Nat /\ LeastPause(LongestRetry) \in Nat
  /\ LeastPause(LongestRetry) >= 1
  /\ \A d \in Latencies : d \in Nat /\ d <= LongestRequest
  /\ \A r \in RetryAfters : r \in 0..LongestRetry
  /\ \A n \in {BrowserFor, MaxTries, TicketFor, LongestThink, HoldFor, BurstAt, GracefulStop} :
       n \in Nat /\ n >= 1
  /\ ReadyBy = BrowserFor - 1 + LongestRequest + LongestRequest + LeastPause(LongestRetry)
  /\ BoughtBy = ReadyBy + TicketFor - 1 + LongestRequest
  /\ PaysBy = BoughtBy + LongestRequest + LongestThink
  /\ PayTime = For(MaxTries) + 2 /\ For(MaxTries) \in Nat
  /\ PaidBy = PaysBy + PayTime
  /\ PaidBy <= HoldFor /\ BurstAt <= PaysBy
  /\ \A p \in Plans : p.since \in Nat /\ (p.script = "worker" => p.since + PayTime <= HoldFor)
<1>1. /\ LongestRequest \in Latencies /\ \A d \in Latencies : d <= LongestRequest
      /\ LongestRetry \in RetryAfters /\ \A r \in RetryAfters : r <= LongestRetry
  BY TimesAssumption DEF LongestRequest, LongestRetry
<1>2. Latencies \subseteq Nat /\ RetryAfters \subseteq Nat
  BY BrowserAssumption
<1>3. LeastPause(LongestRetry) \in Nat /\ LeastPause(LongestRetry) >= 1
  BY <1>1, <1>2 DEF LeastPause
<1>4. \A n \in {BrowserFor, MaxTries, TicketFor, LongestThink, HoldFor, BurstAt, GracefulStop} :
        n \in Nat /\ n >= 1
  BY BrowserAssumption
<1>5. LongestRequest \in Nat /\ LongestRetry \in Nat
  BY <1>1, <1>2
<1>6. ReadyBy = BrowserFor - 1 + LongestRequest + LongestRequest + LeastPause(LongestRetry)
  BY <1>3, <1>4, <1>5 DEF ReadyBy
<1>7. PayTime = For(MaxTries) + 2 /\ For(MaxTries) \in Nat
  BY <1>4, <1>5, OneMore DEF PayTime, For
<1>8. \A p \in Plans : p.since \in Nat /\ (p.script = "worker" => p.since + PayTime <= HoldFor)
  BY BrowserAssumption, TimesAssumption
<1>9. \A r \in RetryAfters : r \in 0..LongestRetry
  BY <1>1, <1>2, <1>5
<1> QED BY <1>1, <1>2, <1>3, <1>4, <1>5, <1>6, <1>7, <1>8, <1>9, TimesAssumption
        DEF BoughtBy, PaysBy, PaidBy

\* The service's view, by field, after a time, and paid for.
LEMMA ServerFields ==
  ASSUME server \in ServerRow, NEW d \in Nat
  PROVE  /\ ServerAfter(d) \in ServerRow /\ ServerAfter(d).held = server.held
         /\ ServerAfter(d).paid = server.paid /\ ServerAfter(d).left = After(server.left, d)
         /\ PaidAfter(d) \in ServerRow
         /\ PaidAfter(d).held = server.held
         /\ PaidAfter(d).paid = TRUE
         /\ PaidAfter(d).left = After(server.left, d)
<1>1. server.left \in Int /\ After(server.left, d) \in Int
  BY AfterThat DEF ServerRow
<1>2. /\ ServerAfter(d) \in ServerRow /\ ServerAfter(d).held = server.held
      /\ ServerAfter(d).paid = server.paid /\ ServerAfter(d).left = After(server.left, d)
  BY <1>1 DEF ServerAfter, ServerRow
<1>3. /\ PaidAfter(d) \in ServerRow
      /\ PaidAfter(d).held = ServerAfter(d).held
      /\ PaidAfter(d).paid = TRUE
      /\ PaidAfter(d).left = ServerAfter(d).left
  BY <1>2 DEF ServerRow, PaidAfter
<1> QED BY <1>2, <1>3

\* What is left of a ticket.
LEMMA TicketLeft ==
  ASSUME NEW e \in 0..TicketFor, NEW d \in Nat
  PROVE  /\ After(e, d) \in 0..TicketFor /\ (After(e, d) > 0 => After(e, d) = e - d)
<1>1. TicketFor \in Nat
  BY TimesAdd
<1>2. e \in Int
  BY <1>1
<1> QED BY <1>1, <1>2, AfterThat

\* The service's view, by field, once it has made the order.
LEMMA MadeFields ==
  ASSUME server \in ServerRow, NEW d \in Nat, NEW x \in {0, d}
  PROVE  /\ HeldAfter(x, d) \in ServerRow /\ HeldAfter(x, d).held = TRUE
         /\ HeldAfter(x, d).paid = server.paid /\ HeldAfter(x, d).left >= HoldFor - d
<1>1. HoldFor - (d - x) \in Int /\ HoldFor - (d - x) >= HoldFor - d
  BY TimesAdd
<1>2. /\ HeldAfter(x, d) \in ServerRow /\ HeldAfter(x, d).held = TRUE
      /\ HeldAfter(x, d).paid = server.paid /\ HeldAfter(x, d).left = HoldFor - (d - x)
  BY <1>1 DEF HeldAfter, ServerRow
<1> QED BY <1>1, <1>2

-----------------------------------------------------------------------------
(* The steps of a round *)

Round == {"join", "rejoin", "pause", "poll", "buy", "backoff"}

\* Time passes for browser and service alike, so a hold lasts as long as it did.
LEMMA TimePasses ==
  ASSUME BrowserTyped, HoldLasts, NEW d \in Nat, Passes(d), plan' = plan,
         \/ server' = ServerAfter(d) \/ server' = PaidAfter(d)
  PROVE  /\ clock' = clock + d /\ clock' \in Nat /\ server' \in ServerRow
         /\ server'.held = server.held /\ server'.left = After(server.left, d) /\ HoldLasts'
<1>1. /\ clock \in Nat /\ server \in ServerRow /\ server.left \in Int /\ HeldSince \in Nat
      /\ HoldFor \in Nat
  <2>1. plan.since \in Nat /\ HoldFor \in Nat
    BY TimesAdd DEF BrowserTyped
  <2> QED BY <2>1 DEF BrowserTyped, ServerRow, HeldSince
<1>2. /\ clock' = clock + d /\ clock' \in Nat /\ server' \in ServerRow
      /\ server'.held = server.held /\ server'.left = After(server.left, d)
  <2>1. clock' = clock + d /\ clock' \in Nat
    BY <1>1 DEF Passes
  <2>2. CASE server' = ServerAfter(d)
    BY <1>1, <2>1, <2>2, ServerFields
  <2>3. CASE server' = PaidAfter(d)
    BY <1>1, <2>1, <2>3, ServerFields
  <2> QED BY <2>2, <2>3
<1>3. After(server.left, d) \in Int /\ After(server.left, d) >= server.left - d
  BY <1>1, AfterThat
<1>4. server.held => HoldFor - HeldSince - After(server.left, d) <= clock + d
  BY <1>1, <1>3 DEF HoldLasts
<1>5. HeldSince' = HeldSince
  BY DEF HeldSince
<1> QED BY <1>2, <1>4, <1>5 DEF HoldLasts

\* A round is of a script that buys; it has heard of no order and pays nothing.
LEMMA InRound ==
  ASSUME BrowserInv, step \in Round
  PROVE  /\ ~order /\ ~server.paid /\ paid = "none" /\ plan.script # "worker"
         /\ BrowserTyped /\ HoldLasts /\ HearsOfTruth /\ ComesInTime /\ clock \in Nat
         /\ server \in ServerRow /\ attempt \in Nat /\ expires \in 0..TicketFor
         /\ retryAfter \in 0..LongestRetry
<1>1. server.paid \in BOOLEAN
  BY DEF BrowserInv, BrowserTyped, ServerRow
<1> QED BY <1>1 DEF BrowserInv, HearsOfTruth, BrowserTyped, Round, Paying

\* It goes on as a round, or ends, as long as the service makes no more of it than it is.
LEMMA RoundGoesOn ==
  ASSUME BrowserInv, step \in Round, step' \in Round \cup {"done"},
         NEW d \in Nat, Passes(d), UNCHANGED <<plan, order, paid>>,
         server' \in ServerRow, server'.paid = server.paid, HoldLasts',
         retryAfter' \in 0..LongestRetry, expires' \in 0..TicketFor, attempt' \in Nat,
         ComesInTime', step' = "done" => clock + d <= PaidBy
  PROVE  BrowserInv'
<1>1. /\ ~order /\ ~server.paid /\ paid = "none" /\ plan.script # "worker"
      /\ BrowserTyped /\ HoldLasts /\ clock \in Nat
  BY InRound
<1>2. clock' = clock + d /\ clock' \in Nat
  BY <1>1 DEF Passes
<1>3. BrowserTyped'
  BY <1>1, <1>2 DEF BrowserTyped, Round, Requests, Sleeps
<1>4. HearsOfTruth'
  BY <1>1, <1>2 DEF HearsOfTruth, Round, Paying
<1>5. PaysInTime'
  BY <1>1, <1>2 DEF PaysInTime, Round, Paying
<1> QED BY <1>2, <1>3, <1>4, <1>5 DEF BrowserInv

\* While nothing is bought, the service's clock only runs.
LEMMA RoundKeeps ==
  ASSUME BrowserInv, step \in Round, step' \in Round \cup {"done"},
         NEW d \in Nat, Passes(d), server' = ServerAfter(d), UNCHANGED <<plan, order, paid>>,
         retryAfter' \in 0..LongestRetry, expires' \in 0..TicketFor, attempt' \in Nat,
         ComesInTime', step' = "done" => clock + d <= PaidBy
  PROVE  BrowserInv'
<1>1. BrowserTyped /\ HoldLasts /\ server \in ServerRow
  BY InRound
<1>2. server' \in ServerRow /\ server'.paid = server.paid /\ HoldLasts'
  BY <1>1, TimePasses, ServerFields
<1> QED BY <1>2, RoundGoesOn

\* The limits of a round, in order.
LEMMA RoundEnds ==
  /\ BrowserFor - 1 + LongestRequest + LeastPause(LongestRetry) <= PaidBy
  /\ ReadyBy <= PaidBy /\ BoughtBy + 1 <= PaidBy /\ BoughtBy + LongestRequest + 1 <= PaidBy
  /\ BrowserFor - 1 + LongestRequest <= PaidBy /\ BrowserFor <= PaidBy
  /\ ReadyBy \in Nat /\ BoughtBy \in Nat /\ PaysBy \in Nat /\ PayTime \in Nat /\ PaidBy \in Nat
BY TimesAdd

\* Another join is asked for while the round has time left.
LEMMA JoinKeeps ==
  ASSUME BrowserInv, NEW d \in Latencies, NEW answer, NEW r \in RetryAfters, Join(d, answer, r)
  PROVE  BrowserInv'
<1>1. /\ step = "join" /\ Passes(d) /\ server' = ServerAfter(d) /\ UNCHANGED <<plan, order, paid>>
      /\ expires' = 0 /\ attempt' = attempt /\ step' \in {"pause", "rejoin", "done"}
      /\ retryAfter' \in {0, r}
  BY DEF Join
<1>2. /\ d \in Nat /\ d <= LongestRequest /\ LongestRequest \in Nat /\ BrowserFor \in Nat
      /\ retryAfter' \in 0..LongestRetry /\ 0 \in 0..TicketFor
  BY <1>1, TimesAdd
<1>3. clock \in Nat /\ clock < BrowserFor /\ attempt \in Nat
  BY <1>1, InRound DEF Round, ComesInTime
<1>4. clock' = clock + d /\ clock + d <= BrowserFor - 1 + LongestRequest
  BY <1>1, <1>2, <1>3 DEF Passes
<1>5. ComesInTime'
  BY <1>1, <1>4 DEF ComesInTime
<1>6. clock + d <= PaidBy
  BY <1>2, <1>3, <1>4, RoundEnds
<1> QED BY <1>1, <1>2, <1>3, <1>5, <1>6, RoundKeeps DEF Round

\* A pause is short, and after it there is a poll or, in time, a join.
LEMMA PauseKeeps ==
  ASSUME BrowserInv, Pause
  PROVE  BrowserInv'
<1> DEFINE d == LeastPause(retryAfter)
<1>1. /\ step \in {"pause", "rejoin"} /\ Passes(d) /\ server' = ServerAfter(d)
      /\ UNCHANGED <<plan, order, paid, attempt, retryAfter>> /\ expires' = After(expires, d)
      /\ \/ step = "pause" /\ step' = "poll"
         \/ step' = "join" /\ clock + d < BrowserFor
         \/ step = "rejoin" /\ step' = "done"
  BY DEF Pause, To, Again, TicketAfter
<1>2. /\ clock \in Nat /\ clock <= BrowserFor - 1 + LongestRequest /\ attempt \in Nat
      /\ retryAfter \in 0..LongestRetry /\ expires \in 0..TicketFor
  BY <1>1, InRound DEF Round, ComesInTime
<1>3. /\ d \in Nat /\ d <= LeastPause(LongestRetry) /\ LeastPause(LongestRetry) \in Nat
      /\ LongestRequest \in Nat /\ BrowserFor \in Nat
  BY <1>2, PauseIsShort, TimesAdd
<1> HIDE DEF d
<1>a. expires' \in 0..TicketFor
  BY <1>1, <1>2, <1>3, TicketLeft
<1>4. clock' = clock + d /\ clock + d <= BrowserFor - 1 + LongestRequest + LeastPause(LongestRetry)
  BY <1>1, <1>2, <1>3 DEF Passes
<1>5. ComesInTime'
  BY <1>1, <1>4 DEF ComesInTime
<1>6. clock + d <= PaidBy
  BY <1>2, <1>3, <1>4, RoundEnds
<1> QED BY <1>1, <1>2, <1>3, <1>a, <1>5, <1>6, RoundKeeps DEF Round

\* A poll brings a ticket, another pause, or another join while there is time.
LEMMA PollKeeps ==
  ASSUME BrowserInv, NEW d \in Latencies, NEW answer, NEW r \in RetryAfters,
         NEW e \in 0..TicketFor, Poll(d, answer, r, e)
  PROVE  BrowserInv'
<1>1. /\ step = "poll" /\ Passes(d) /\ server' = ServerAfter(d) /\ UNCHANGED <<plan, order, paid>>
      /\ expires' \in {0, e} /\ attempt' \in {0, attempt} /\ retryAfter' \in {0, r, retryAfter}
      /\ \/ step' = "done"
         \/ step' \in {"join", "pause"} /\ clock + d < BrowserFor
         \/ step' = "buy" /\ e > 0 /\ expires' = e
  BY DEF Poll, To, Again
<1>2. /\ clock \in Nat /\ clock <= BrowserFor - 1 + LongestRequest + LeastPause(LongestRetry)
      /\ attempt \in Nat /\ retryAfter \in 0..LongestRetry
  BY <1>1, InRound DEF Round, ComesInTime
<1>3. /\ d \in Nat /\ d <= LongestRequest /\ LongestRequest \in Nat /\ LongestRetry \in Nat
      /\ BrowserFor \in Nat /\ TicketFor \in Nat /\ r \in 0..LongestRetry /\ LeastPause(LongestRetry) \in Nat
  BY TimesAdd
<1>4. expires' \in 0..TicketFor /\ attempt' \in Nat /\ retryAfter' \in 0..LongestRetry
  BY <1>1, <1>2, <1>3
<1>5. clock' = clock + d /\ clock + d <= ReadyBy
  BY <1>1, <1>2, <1>3, TimesAdd DEF Passes
<1>6. clock + d <= ReadyBy + TicketFor - e
  BY <1>2, <1>3, <1>5, RoundEnds
<1>7. ComesInTime'
  BY <1>1, <1>2, <1>3, <1>5, <1>6 DEF ComesInTime
<1>8. clock + d <= PaidBy
  BY <1>2, <1>3, <1>5, RoundEnds
<1> QED BY <1>1, <1>3, <1>4, <1>7, <1>8, RoundKeeps DEF Round

\* The tries of a purchase end with its ticket.
LEMMA BackoffKeeps ==
  ASSUME BrowserInv, NEW d \in {0, 1}, Backoff(d)
  PROVE  BrowserInv'
<1>1. /\ step = "backoff" /\ Passes(d) /\ server' = ServerAfter(d)
      /\ UNCHANGED <<plan, order, paid, retryAfter>> /\ attempt' = attempt + 1
      /\ \/ step' = "buy" /\ After(expires, d) > 0 /\ expires' = After(expires, d)
         \/ step' = "join" /\ clock + d < BrowserFor /\ expires' = 0
         \/ step' = "done" /\ expires' = 0
  BY DEF Backoff, To, Again, TicketAfter
<1>2. /\ clock \in Nat /\ clock <= BoughtBy /\ attempt \in Nat /\ expires \in 0..TicketFor
      /\ retryAfter \in 0..LongestRetry
      /\ expires > 0 => clock <= ReadyBy + TicketFor - expires
  BY <1>1, InRound DEF Round, ComesInTime
<1>3. d \in Nat /\ d <= 1 /\ TicketFor \in Nat
  BY TimesAdd
<1>4. /\ After(expires, d) \in 0..TicketFor /\ (After(expires, d) > 0 => After(expires, d) = expires - d)
  BY <1>2, <1>3, TicketLeft
<1>5. clock' = clock + d /\ expires' \in 0..TicketFor /\ attempt' \in Nat
  BY <1>1, <1>2, <1>3, <1>4 DEF Passes
<1>6. step' = "buy" => expires' > 0 /\ clock + d <= ReadyBy + TicketFor - expires'
  BY <1>1, <1>2, <1>3, <1>4, RoundEnds
<1>7. ComesInTime'
  BY <1>1, <1>5, <1>6 DEF ComesInTime
<1>8. clock + d <= PaidBy
  BY <1>2, <1>3, RoundEnds
<1> QED BY <1>1, <1>2, <1>3, <1>5, <1>7, <1>8, RoundKeeps DEF Round

\* A purchase may be made without being heard of; who hears of it has it.
LEMMA BuyKeeps ==
  ASSUME BrowserInv, NEW d \in Latencies, NEW answer \in {"ok", "later", "other"},
         NEW x \in {0, d}, Buy(d, answer, x)
  PROVE  BrowserInv'
<1>1. /\ step = "buy" /\ Passes(d) /\ UNCHANGED <<plan, paid, rejoins, retryAfter>>
      /\ answer = "later" => expires' = After(expires, d)
      /\ answer # "later" => expires' = 0
      /\ \/ server.held /\ server' = ServerAfter(d)
         \/ ~server.held /\ answer # "ok" /\ server' = server
         \/ server' = HeldAfter(x, d)
      /\ \/ answer = "ok" /\ Bought
         \/ answer = "later" /\ step' = "backoff" /\ UNCHANGED <<order, attempt>>
         \/ answer = "other" /\ To("join", d, rejoins) /\ UNCHANGED <<order, attempt>>
  BY DEF Buy, TicketAfter
<1>2. /\ clock \in Nat /\ expires \in 0..TicketFor /\ expires > 0 /\ attempt \in Nat
      /\ clock <= ReadyBy + TicketFor - expires /\ retryAfter \in 0..LongestRetry
      /\ server \in ServerRow /\ BrowserTyped /\ HoldLasts
  BY <1>1, InRound DEF Round, ComesInTime
<1>3. plan.script # "worker" /\ ~order /\ ~server.paid /\ paid = "none"
  BY <1>1, InRound DEF Round
<1>4. /\ d \in Nat /\ d <= LongestRequest /\ LongestRequest \in Nat /\ TicketFor \in Nat
      /\ HoldFor \in Nat
  BY TimesAdd
<1>5. /\ After(expires, d) \in 0..TicketFor /\ (After(expires, d) > 0 => After(expires, d) = expires - d)
  BY <1>2, <1>4, TicketLeft
<1>6. clock' = clock + d /\ clock + d \in Nat /\ clock + d <= BoughtBy
  BY <1>1, <1>2, <1>4, TimesAdd, RoundEnds DEF Passes
<1>7. /\ server' \in ServerRow /\ server'.paid = server.paid /\ HoldLasts'
      /\ answer = "ok" => server'.held
  <2>1. CASE server.held /\ server' = ServerAfter(d)
    BY <1>1, <1>2, <1>4, <2>1, TimePasses, ServerFields
  <2>2. CASE ~server.held /\ answer # "ok" /\ server' = server
    BY <1>2, <2>2 DEF HoldLasts
  <2>3. CASE server' = HeldAfter(x, d)
    <3>1. /\ server' \in ServerRow /\ server'.held = TRUE /\ server'.paid = server.paid
          /\ server'.left \in Int /\ server'.left >= HoldFor - d
      BY <1>2, <1>4, <2>3, MadeFields DEF ServerRow
    <3>2. HeldSince' = 0
      BY <1>1, <1>3 DEF HeldSince
    <3>3. HoldFor - 0 - server'.left <= clock + d
      BY <1>2, <1>4, <3>1
    <3> QED BY <1>6, <3>1, <3>2, <3>3 DEF HoldLasts
  <2> QED BY <1>1, <2>1, <2>2, <2>3
<1>8. CASE answer = "ok" /\ Bought
  <2>1. /\ order' = TRUE /\ attempt' = 0 /\ step' \in {"replay", "think", "done"} /\ expires' = 0
    BY <1>1, <1>8 DEF Bought
  <2>2. BrowserTyped'
    BY <1>1, <1>2, <1>4, <1>6, <1>7, <2>1 DEF BrowserTyped, Requests, Sleeps
  <2>3. HearsOfTruth'
    BY <1>1, <1>3, <1>7, <1>8, <2>1 DEF HearsOfTruth, Paying
  <2>4. clock + d <= BoughtBy + LongestRequest /\ clock + d <= PaidBy
    BY <1>4, <1>6, RoundEnds
  <2>5. ComesInTime'
    BY <1>6, <2>1, <2>4 DEF ComesInTime
  <2>6. PaysInTime'
    BY <1>1, <1>3, <1>6, <2>1, <2>4 DEF PaysInTime, Paying
  <2> QED BY <1>7, <2>2, <2>3, <2>5, <2>6 DEF BrowserInv
<1>9. CASE answer = "later" /\ step' = "backoff" /\ UNCHANGED <<order, attempt>>
  <2>1. expires' = After(expires, d)
    BY <1>1, <1>9
  <2>2. expires' > 0 => clock + d <= ReadyBy + TicketFor - expires'
    BY <1>2, <1>4, <1>5, <2>1, RoundEnds
  <2>3. ComesInTime'
    BY <1>6, <1>9, <2>2 DEF ComesInTime
  <2> QED BY <1>1, <1>2, <1>4, <1>5, <1>7, <1>9, <2>1, <2>3, RoundGoesOn DEF Round
<1>10. CASE answer = "other" /\ To("join", d, rejoins) /\ UNCHANGED <<order, attempt>>
  <2>1. expires' = 0 /\ 0 \in 0..TicketFor
    <3>1. answer # "later"
      BY <1>10
    <3> QED BY <1>1, <1>4, <3>1
  <2>2. step' \in {"join", "done"} /\ (step' = "join" => clock + d < BrowserFor)
    BY <1>10 DEF To, Again
  <2>3. ComesInTime'
    BY <1>6, <2>2 DEF ComesInTime
  <2>4. clock + d <= PaidBy
    BY <1>6, RoundEnds
  <2> QED BY <1>1, <1>2, <1>4, <1>7, <1>10, <2>1, <2>2, <2>3, <2>4, RoundGoesOn DEF Round
<1> QED BY <1>1, <1>8, <1>9, <1>10

-----------------------------------------------------------------------------
(* The payment *)

\* Who has an order, and is not the worker script, has joined and is done with it.
LEMMA AfterRound ==
  ASSUME BrowserInv, step \in {"replay", "think"}
  PROVE  /\ BrowserTyped /\ HearsOfTruth /\ HoldLasts /\ clock \in Nat /\ attempt = 0
         /\ server \in ServerRow /\ server.held /\ order /\ paid = "none"
         /\ plan.script # "worker" /\ clock <= BoughtBy + LongestRequest
         /\ step = "replay" => clock <= BoughtBy
<1>1. LongestRequest \in Nat /\ BoughtBy \in Nat
  BY TimesAdd, RoundEnds
<1> QED BY <1>1 DEF BrowserInv, BrowserTyped, HearsOfTruth, ComesInTime, PaysInTime, Paying

\* Asked once more, the user has its order still.
LEMMA ReplayKeeps ==
  ASSUME BrowserInv, NEW d \in Latencies, Replay(d)
  PROVE  BrowserInv'
<1>1. /\ step = "replay" /\ step' \in {"think", "done"} /\ Passes(d) /\ server' = ServerAfter(d)
      /\ UNCHANGED <<plan, attempt, retryAfter, expires, order, paid>>
  BY DEF Replay
<1>2. /\ BrowserTyped /\ HearsOfTruth /\ HoldLasts /\ clock \in Nat /\ attempt = 0
      /\ server \in ServerRow /\ server.held /\ order /\ paid = "none"
      /\ plan.script # "worker" /\ clock <= BoughtBy
  BY <1>1, AfterRound
<1>3. d \in Nat /\ d <= LongestRequest /\ LongestRequest \in Nat
  BY TimesAdd
<1>4. /\ clock' = clock + d /\ clock' \in Nat /\ server' \in ServerRow
      /\ server'.held = server.held /\ server'.paid = server.paid /\ HoldLasts'
  BY <1>1, <1>2, <1>3, TimePasses, ServerFields
<1>5. clock + d <= BoughtBy + LongestRequest /\ clock + d <= PaidBy
  BY <1>2, <1>3, RoundEnds
<1>6. BrowserTyped'
  BY <1>1, <1>2, <1>4 DEF BrowserTyped, Requests, Sleeps
<1>7. HearsOfTruth'
  BY <1>1, <1>2, <1>4 DEF HearsOfTruth, Paying
<1>8. ComesInTime' /\ PaysInTime'
  BY <1>1, <1>2, <1>4, <1>5 DEF ComesInTime, PaysInTime, Paying
<1> QED BY <1>4, <1>6, <1>7, <1>8 DEF BrowserInv

\* Who does not mean to be late thinks no longer than it may.
LEMMA ThinksInTime ==
  ASSUME BrowserInv, step = "think", NEW d \in ThinkTimes
  PROVE  d \in Nat /\ (plan.variant # "late-payment" => clock + d <= PaysBy)
<1>1. /\ server.left \in Int /\ clock \in Nat /\ clock <= BoughtBy + LongestRequest
      /\ plan.since \in Nat
  BY AfterRound, TimesAdd DEF BrowserTyped, ServerRow
<1>2. /\ OneSecond \subseteq Nat /\ BurstAt \in Nat /\ LongestThink \in Nat /\ LongestThink >= 1
      /\ LongestRequest \in Nat /\ BoughtBy \in Nat /\ PaysBy \in Nat
      /\ PaysBy = BoughtBy + LongestRequest + LongestThink /\ BurstAt <= PaysBy
  BY BrowserAssumption, TimesAdd, RoundEnds
<1>3. CASE plan.variant = "late-payment"
  <2>1. PICK second \in OneSecond : d = After(server.left, second)
    BY <1>3 DEF ThinkTimes
  <2>2. second \in Nat
    BY <1>2
  <2>3. d \in Int /\ d >= 0
    BY <1>1, <2>1, <2>2, AfterThat
  <2> QED BY <1>3, <2>3
<1>4. CASE plan.variant = "burst"
  <2>1. d = After(BurstAt, plan.since + clock)
    BY <1>4 DEF ThinkTimes
  <2>2. plan.since + clock \in Nat
    BY <1>1
  <2>3. d \in Int /\ d >= 0 /\ (d > 0 => d = BurstAt - (plan.since + clock))
    <3>1. BurstAt \in Int
      BY <1>2
    <3> QED BY <2>1, <2>2, <3>1, AfterThat
  <2>4. clock + d <= PaysBy
    <3>1. CASE d = 0
      BY <1>1, <1>2, <3>1
    <3>2. CASE d > 0
      BY <1>1, <1>2, <2>3, <3>2
    <3> QED BY <2>3, <3>1, <3>2
  <2> QED BY <2>3, <2>4
<1>5. CASE plan.variant \notin {"late-payment", "burst"}
  <2>1. d \in {0, 1, LongestThink}
    BY <1>5 DEF ThinkTimes
  <2> QED BY <1>1, <1>2, <2>1
<1> QED BY <1>3, <1>4, <1>5

\* The payment begins with all its tries ahead.
LEMMA ThinkKeeps ==
  ASSUME BrowserInv, NEW d \in ThinkTimes, Think(d)
  PROVE  BrowserInv'
<1>1. /\ step = "think" /\ step' = "pay" /\ Passes(d) /\ server' = ServerAfter(d)
      /\ UNCHANGED <<plan, attempt, retryAfter, expires, order, paid>>
  BY DEF Think
<1>2. /\ BrowserTyped /\ HearsOfTruth /\ HoldLasts /\ clock \in Nat /\ attempt = 0
      /\ server \in ServerRow /\ server.held /\ order /\ paid = "none"
      /\ plan.script # "worker"
  BY <1>1, AfterRound
<1>3. d \in Nat /\ (plan.variant # "late-payment" => clock + d <= PaysBy)
  BY <1>1, ThinksInTime
<1>4. /\ clock' = clock + d /\ clock' \in Nat /\ server' \in ServerRow
      /\ server'.held = server.held /\ server'.paid = server.paid /\ HoldLasts'
  BY <1>1, <1>2, <1>3, TimePasses, ServerFields
<1>5. BrowserTyped'
  BY <1>1, <1>2, <1>4 DEF BrowserTyped, Requests, Sleeps
<1>6. HearsOfTruth'
  BY <1>1, <1>2, <1>4 DEF HearsOfTruth, Paying
<1>7. ComesInTime'
  BY <1>1 DEF ComesInTime
<1>8. PaysInTime'
  <2>1. PaymentEnd' = PaidBy /\ BackoffsLeft' \in {1, 2} /\ MaxTries - attempt' = MaxTries
        /\ attempt' < MaxTries
    BY <1>1, <1>2, TimesAdd DEF PaymentEnd, BackoffsLeft
  <2>2. PaidBy = PaysBy + For(MaxTries) + 2 /\ For(MaxTries) \in Nat /\ PaysBy \in Nat
    BY TimesAdd, RoundEnds
  <2>3. plan.variant # "late-payment" => clock + d <= PaidBy - For(MaxTries) - 2
    BY <1>2, <1>3, <2>2
  <2>4. plan.variant # "late-payment" => clock + d <= PaidBy - For(MaxTries) - BackoffsLeft'
    BY <1>2, <1>3, <2>1, <2>2, <2>3
  <2> QED BY <1>1, <1>2, <1>4, <2>1, <2>4 DEF PaysInTime, Paying
<1> QED BY <1>4, <1>5, <1>6, <1>7, <1>8 DEF BrowserInv

\* Who leaves without a word leaves in time.
LEMMA AbandonKeeps ==
  ASSUME BrowserInv, Abandon
  PROVE  BrowserInv'
<1>1. /\ step = "think" /\ step' = "done"
      /\ UNCHANGED <<plan, clock, rejoins, attempt, retryAfter, expires, order, server, paid>>
  BY DEF Abandon
<1>2. clock \in Nat /\ clock <= PaidBy /\ paid = "none"
  <2>1. clock \in Nat /\ clock <= BoughtBy + LongestRequest /\ LongestRequest \in Nat /\ paid = "none"
    BY <1>1, AfterRound, TimesAdd
  <2> QED BY <2>1, RoundEnds
<1>3. BrowserTyped' /\ HearsOfTruth' /\ ComesInTime' /\ HoldLasts'
  BY <1>1 DEF BrowserInv, BrowserTyped, HearsOfTruth, ComesInTime, HoldLasts, HeldSince, Paying
<1>4. PaysInTime'
  BY <1>1, <1>2 DEF PaysInTime, Paying
<1> QED BY <1>3, <1>4 DEF BrowserInv

\* What is known while a payment is under way.
LEMMA WhilePaying ==
  ASSUME BrowserInv, step \in Paying
  PROVE  /\ BrowserTyped /\ HearsOfTruth /\ HoldLasts /\ clock \in Nat /\ attempt \in Nat
         /\ attempt < MaxTries /\ server \in ServerRow /\ server.held /\ order /\ paid = "none"
         /\ PaymentEnd \in Nat /\ PaymentEnd <= PaidBy /\ PaymentEnd <= HoldFor - HeldSince
         /\ HeldSince \in Nat /\ BackoffsLeft \in {1, 2}
         /\ For(MaxTries - attempt - 1) \in Nat
         /\ For(MaxTries - attempt) = For(MaxTries - attempt - 1) + LongestRequest
<1>1. /\ BrowserTyped /\ HearsOfTruth /\ HoldLasts /\ clock \in Nat /\ attempt \in Nat
      /\ attempt < MaxTries /\ server \in ServerRow /\ server.held /\ order /\ paid = "none"
  BY DEF BrowserInv, BrowserTyped, HearsOfTruth, PaysInTime, Paying
<1>2. /\ PaymentEnd \in Nat /\ PaymentEnd <= PaidBy /\ PaymentEnd <= HoldFor - HeldSince
      /\ HeldSince \in Nat
  <2>1. /\ plan.since \in Nat /\ (plan.script = "worker" => plan.since + PayTime <= HoldFor)
        /\ PayTime \in Nat /\ PaidBy \in Nat /\ PaysBy \in Nat /\ PaidBy = PaysBy + PayTime
        /\ HoldFor \in Nat /\ PaidBy <= HoldFor
    BY <1>1, TimesAdd, RoundEnds DEF BrowserTyped
  <2> QED BY <2>1 DEF PaymentEnd, HeldSince
<1>3. /\ For(MaxTries - attempt - 1) \in Nat
      /\ For(MaxTries - attempt) = For(MaxTries - attempt - 1) + LongestRequest
  <2>1. LongestRequest \in Nat /\ MaxTries \in Nat
    BY TimesAdd
  <2> DEFINE n == MaxTries - attempt - 1
  <2>2. n \in Nat /\ MaxTries - attempt = n + 1
    BY <1>1, <2>1
  <2> HIDE DEF n
  <2>3. For(n) \in Nat /\ For(n + 1) = For(n) + LongestRequest
    BY <2>1, <2>2, OneMore
  <2> QED BY <2>2, <2>3 DEF n
<1> QED BY <1>1, <1>2, <1>3 DEF BackoffsLeft

\* As long as there is a try left, it comes while the stock is held.
LEMMA HoldOutlasts ==
  ASSUME BrowserInv, step = "pay", plan.variant # "late-payment", NEW x \in Nat, x <= LongestRequest
  PROVE  After(server.left, x) > 0
<1>1. /\ clock \in Nat /\ server.held /\ server.left \in Int /\ HoldLasts /\ HeldSince \in Nat
      /\ PaymentEnd \in Nat /\ PaymentEnd <= HoldFor - HeldSince /\ BackoffsLeft \in {1, 2}
      /\ For(MaxTries - attempt - 1) \in Nat
      /\ For(MaxTries - attempt) = For(MaxTries - attempt - 1) + LongestRequest
  BY WhilePaying DEF Paying, ServerRow
<1>2. clock <= PaymentEnd - For(MaxTries - attempt) - BackoffsLeft
  BY DEF BrowserInv, PaysInTime
<1>3. LongestRequest \in Nat /\ HoldFor \in Nat
  BY TimesAdd
<1>4. clock + x < HoldFor - HeldSince
  BY <1>1, <1>2, <1>3
<1>5. HoldFor - HeldSince - server.left <= clock
  BY <1>1 DEF HoldLasts
<1>6. server.left - x > 0
  BY <1>1, <1>3, <1>4, <1>5
<1> QED BY <1>1, <1>6 DEF After

\* A try takes its time, and what is refused was not in time.
LEMMA PayKeeps ==
  ASSUME BrowserInv, NEW d \in Latencies, NEW answer \in {"ok", "later", "other", "refused"},
         NEW x \in {0, d}, Pay(d, answer, x)
  PROVE  BrowserInv'
<1>1. /\ step = "pay" /\ Passes(d) /\ UNCHANGED <<plan, attempt, retryAfter, expires, order>>
      /\ server' = ServerAfter(d) \/ server' = PaidAfter(d)
      /\ \/ step' = "payBackoff" /\ paid' = paid
         \/ step' = "done" /\ paid' \in {"accepted", "late", "refused"}
      /\ paid' = "accepted" => paid = "accepted" \/ server' = PaidAfter(d)
      /\ paid' = "late" => paid = "late" \/ ~(After(server.left, x) > 0)
  BY DEF Pay
<1>2. /\ BrowserTyped /\ HearsOfTruth /\ HoldLasts /\ clock \in Nat /\ attempt \in Nat
      /\ attempt < MaxTries /\ server \in ServerRow /\ server.held /\ order /\ paid = "none"
      /\ PaymentEnd \in Nat /\ PaymentEnd <= PaidBy /\ BackoffsLeft \in {1, 2}
      /\ For(MaxTries - attempt - 1) \in Nat
      /\ For(MaxTries - attempt) = For(MaxTries - attempt - 1) + LongestRequest
  BY <1>1, WhilePaying DEF Paying
<1>3. d \in Nat /\ d <= LongestRequest /\ LongestRequest \in Nat /\ x \in Nat /\ x <= LongestRequest
  BY TimesAdd
<1>4. /\ clock' = clock + d /\ clock' \in Nat /\ server' \in ServerRow
      /\ server'.held = server.held /\ HoldLasts'
  BY <1>1, <1>2, <1>3, TimePasses
<1>5. paid' = "accepted" => server'.paid
  BY <1>1, <1>2, <1>3, ServerFields
<1>6. BrowserTyped'
  BY <1>1, <1>2, <1>4 DEF BrowserTyped, Sleeps, Payments
<1>7. HearsOfTruth'
  BY <1>1, <1>2, <1>4, <1>5 DEF HearsOfTruth, Paying
<1>8. ComesInTime'
  BY <1>1 DEF ComesInTime
<1>9. PaysInTime'
  <2>1. plan.variant # "late-payment" =>
          /\ clock + d <= PaymentEnd - For(MaxTries - attempt - 1) - BackoffsLeft
          /\ clock + d <= PaidBy
    <3>1. plan.variant # "late-payment" =>
            clock <= PaymentEnd - For(MaxTries - attempt) - BackoffsLeft
      BY <1>1 DEF BrowserInv, PaysInTime
    <3>2. PaidBy \in Nat
      BY RoundEnds
    <3> QED BY <1>2, <1>3, <3>1, <3>2
  <2>2. plan.variant # "late-payment" => paid' # "late"
    BY <1>1, <1>2, <1>3, HoldOutlasts
  <2>3. PaymentEnd' = PaymentEnd /\ BackoffsLeft' = BackoffsLeft
    BY <1>1 DEF PaymentEnd, BackoffsLeft
  <2> QED BY <1>1, <1>2, <1>4, <2>1, <2>2, <2>3 DEF PaysInTime, Paying
<1> QED BY <1>4, <1>6, <1>7, <1>8, <1>9 DEF BrowserInv

\* The backoffs of a payment take up the two ticks that are kept for them.
LEMMA PayBackoffKeeps ==
  ASSUME BrowserInv, NEW d \in BackoffTimes(attempt), PayBackoff(d)
  PROVE  BrowserInv'
<1>1. /\ step = "payBackoff" /\ Passes(d) /\ server' = ServerAfter(d) /\ attempt' = attempt + 1
      /\ UNCHANGED <<plan, retryAfter, expires, order>>
      /\ \/ attempt + 1 < MaxTries /\ step' = "pay" /\ paid' = paid
         \/ ~(attempt + 1 < MaxTries) /\ step' = "done" /\ paid' = "unanswered"
  BY DEF PayBackoff
<1>2. /\ BrowserTyped /\ HearsOfTruth /\ HoldLasts /\ clock \in Nat /\ attempt \in Nat
      /\ attempt < MaxTries /\ server \in ServerRow /\ server.held /\ order /\ paid = "none"
      /\ PaymentEnd \in Nat /\ PaymentEnd <= PaidBy
      /\ For(MaxTries - attempt - 1) \in Nat
  BY <1>1, WhilePaying DEF Paying
<1>3. MaxTries \in Nat /\ PaidBy \in Nat
  BY TimesAdd, RoundEnds
<1>4. d \in {0, 1} /\ (attempt + 2 < MaxTries => d = 0)
  BY <1>2, <1>3 DEF BackoffTimes
<1>5. /\ clock' = clock + d /\ clock' \in Nat /\ server' \in ServerRow
      /\ server'.held = server.held /\ server'.paid = server.paid /\ HoldLasts'
  <2>1. d \in Nat
    BY <1>4
  <2> QED BY <1>1, <1>2, <2>1, TimePasses, ServerFields
<1>6. BrowserTyped'
  BY <1>1, <1>2, <1>5 DEF BrowserTyped, Requests, Payments
<1>7. HearsOfTruth'
  BY <1>1, <1>2, <1>5 DEF HearsOfTruth, Paying
<1>8. ComesInTime'
  BY <1>1 DEF ComesInTime
<1>9. PaysInTime'
  <2>1. plan.variant # "late-payment" =>
          clock <= PaymentEnd - For(MaxTries - attempt - 1) - BackoffsLeft
    BY <1>1 DEF BrowserInv, PaysInTime
  <2>2. attempt' < MaxTries - 1 <=> attempt + 2 < MaxTries
    BY <1>1, <1>2, <1>3
  <2>3. BackoffsLeft' = IF attempt + 2 < MaxTries THEN 2 ELSE 1
    BY <1>1, <2>2 DEF BackoffsLeft
  <2>4. BackoffsLeft = IF attempt + 1 < MaxTries THEN 2 ELSE 1
    BY <1>2, <1>3 DEF BackoffsLeft
  <2>5. plan.variant # "late-payment" =>
          /\ attempt + 1 < MaxTries =>
               clock + d <= PaymentEnd - For(MaxTries - attempt - 1) - BackoffsLeft'
          /\ clock + d <= PaidBy
    BY <1>2, <1>3, <1>4, <2>1, <2>3, <2>4
  <2>6. PaymentEnd' = PaymentEnd /\ MaxTries - attempt' = MaxTries - attempt - 1
    BY <1>1, <1>2, <1>3 DEF PaymentEnd
  <2> QED BY <1>1, <1>2, <1>5, <2>5, <2>6 DEF PaysInTime, Paying
<1> QED BY <1>5, <1>6, <1>7, <1>8, <1>9 DEF BrowserInv

-----------------------------------------------------------------------------
(* Theorems *)

\* A worker's order is as old as its plan says; others begin with nothing.
LEMMA BrowserStarts == BrowserInit => BrowserInv
<1> SUFFICES ASSUME BrowserInit
             PROVE  BrowserInv
  OBVIOUS
<1>1. /\ plan \in Plans /\ clock = 0 /\ attempt = 0 /\ retryAfter = 0 /\ expires = 0 /\ paid = "none"
      /\ step = IF plan.script = "worker" THEN "pay" ELSE "join"
      /\ order = (plan.script = "worker")
      /\ server = [held |-> order, left |-> IF order THEN After(HoldFor, plan.since) ELSE 0,
                   paid |-> FALSE]
  BY DEF BrowserInit
<1>2. /\ plan.since \in Nat /\ HoldFor \in Nat /\ LongestRetry \in Nat /\ TicketFor \in Nat
      /\ BrowserFor \in Nat /\ BrowserFor >= 1 /\ MaxTries \in Nat /\ MaxTries >= 1
      /\ PayTime = For(MaxTries) + 2 /\ For(MaxTries) \in Nat
  BY <1>1, TimesAdd
<1>3. After(HoldFor, plan.since) \in Int /\ After(HoldFor, plan.since) >= HoldFor - plan.since
  <2>1. HoldFor \in Int
    BY <1>2
  <2> QED BY <1>2, <2>1, AfterThat
<1>4. /\ server \in ServerRow /\ server.held = order /\ server.paid = FALSE
      /\ server.left = IF order THEN After(HoldFor, plan.since) ELSE 0
  BY <1>1, <1>3 DEF ServerRow
<1>5. BrowserTyped
  <2>1. step \in {"pay", "join"} /\ order \in BOOLEAN
    BY Zenon DEF BrowserInit
  <2>2. step \in Requests \cup Sleeps \cup {"done"} /\ "none" \in Payments
    BY <2>1 DEF Requests, Payments
  <2>3. 0 \in 0..LongestRetry /\ 0 \in 0..TicketFor
    BY <1>2
  <2> QED BY <1>1, <1>4, <2>1, <2>2, <2>3 DEF BrowserTyped
<1>6. HearsOfTruth
  BY <1>1, <1>4 DEF HearsOfTruth, Paying
<1>7. ComesInTime
  BY <1>1, <1>2 DEF ComesInTime
<1>8. PaysInTime
  <2>1. plan.script = "worker" => PaymentEnd = For(MaxTries) + 2 /\ MaxTries - attempt = MaxTries
    BY <1>1, <1>2 DEF PaymentEnd
  <2>2. BackoffsLeft \in {1, 2}
    BY DEF BackoffsLeft
  <2>3. plan.script = "worker" => clock <= PaymentEnd - For(MaxTries - attempt) - BackoffsLeft
    BY <1>1, <1>2, <2>1, <2>2
  <2> QED BY <1>1, <1>2, <2>3 DEF PaysInTime, Paying
<1>9. HoldLasts
  <2>1. CASE order
    <3>1. HeldSince = plan.since /\ server.left = After(HoldFor, plan.since)
      BY <1>1, <1>4, <2>1 DEF HeldSince
    <3>2. HoldFor - plan.since - After(HoldFor, plan.since) <= 0
      BY <1>2, <1>3
    <3> QED BY <1>1, <3>1, <3>2 DEF HoldLasts
  <2>2. CASE ~order
    BY <1>4, <2>2 DEF HoldLasts
  <2> QED BY <2>1, <2>2
<1> QED BY <1>5, <1>6, <1>7, <1>8, <1>9 DEF BrowserInv

\* Every step keeps the invariant.
LEMMA BrowserStep ==
  ASSUME BrowserInv, [BrowserNext]_browserVars
  PROVE  BrowserInv'
<1>1. ASSUME NEW d \in Latencies, Asks(d)
      PROVE  BrowserInv'
  BY <1>1, JoinKeeps, PollKeeps, BuyKeeps, ReplayKeeps, PayKeeps DEF Asks
<1>2. ASSUME Waits
      PROVE  BrowserInv'
  <2>1. BackoffTimes(attempt) \subseteq {0, 1}
    BY DEF BackoffTimes
  <2> QED BY <1>2, <2>1, PauseKeeps, BackoffKeeps, PayBackoffKeeps, ThinkKeeps DEF Waits
<1>3. CASE UNCHANGED browserVars
  BY <1>3 DEF browserVars, BrowserInv, BrowserTyped, HearsOfTruth, ComesInTime, PaysInTime,
     HoldLasts, PaymentEnd, BackoffsLeft, HeldSince
<1> QED BY <1>1, <1>2, <1>3, AbandonKeeps DEF BrowserNext

\* The invariant holds from the start on.
THEOREM BrowserInvariance == BrowserSpec => []BrowserInv
<1>1. BrowserInv /\ [BrowserNext]_browserVars => BrowserInv'
  BY BrowserStep
<1> QED BY <1>1, BrowserStarts, PTL DEF BrowserSpec

\* In every state, whatever it has to repeat, the script is in time.
THEOREM TimesSuffice == BrowserSpec => []KeepsItsTimes
<1>1. BrowserInv => KeepsItsTimes
  <2> SUFFICES ASSUME BrowserInv, plan.variant # "late-payment"
               PROVE  paid # "late" /\ clock <= GracefulStop
    BY DEF KeepsItsTimes, PaymentsAreInTime, EndsGracefully
  <2>1. clock \in Nat /\ step \in Requests \cup Sleeps \cup {"done"}
    BY DEF BrowserInv, BrowserTyped
  <2>2. CASE step \in Paying
    <3>1. clock <= PaymentEnd - For(MaxTries - attempt - 1) - BackoffsLeft
      <4>1. LongestRequest \in Nat
        BY TimesAdd
      <4> QED BY <2>1, <2>2, <4>1, WhilePaying DEF BrowserInv, PaysInTime, Paying
    <3> QED BY <2>1, <2>2, <3>1, WhilePaying, RoundEnds, TimesAssumption, BrowserAssumption
            DEF BrowserInv, PaysInTime
  <2>3. CASE step \in {"replay", "think"}
    <3>1. clock <= BoughtBy + LongestRequest /\ LongestRequest \in Nat /\ paid = "none"
      BY <2>3, AfterRound, TimesAdd
    <3> QED BY <2>1, <3>1, RoundEnds, TimesAssumption, BrowserAssumption
  <2>4. CASE step = "done"
    BY <2>1, <2>4, RoundEnds, TimesAssumption, BrowserAssumption DEF BrowserInv, PaysInTime
  <2>5. CASE step \in Round
    <3>1. /\ ComesInTime /\ paid = "none" /\ expires \in 0..TicketFor /\ TicketFor \in Nat
          /\ BrowserFor \in Nat /\ LongestRequest \in Nat /\ LeastPause(LongestRetry) \in Nat
      BY <2>5, InRound, TimesAdd
    <3>2. CASE step # "buy"
      BY <2>1, <2>5, <3>1, <3>2, RoundEnds, TimesAssumption, BrowserAssumption DEF ComesInTime, Round
    <3>3. CASE step = "buy"
      <4>1. clock <= ReadyBy + TicketFor - expires /\ expires > 0
        BY <3>1, <3>3 DEF ComesInTime
      <4>2. clock <= BoughtBy
        BY <2>1, <3>1, <4>1, TimesAdd, RoundEnds
      <4> QED BY <2>1, <3>1, <4>2, RoundEnds, TimesAssumption, BrowserAssumption
    <3> QED BY <3>2, <3>3
  <2> QED BY <2>1, <2>2, <2>3, <2>4, <2>5 DEF Requests, Sleeps, Paying, Round
<1> QED BY <1>1, BrowserInvariance, PTL

-----------------------------------------------------------------------------
(* Refinement *)

\* A request other than a purchase or a payment makes nothing.
LEMMA MakesNothing ==
  ASSUME BrowserInv, NEW d \in Nat, server' = ServerAfter(d), order' = order,
         paid' = paid \/ paid' = "unanswered", step # "done"
  PROVE  Counted!Moves(Seen, Seen')
<1>1. server'.held = server.held /\ server'.paid = server.paid /\ paid = "none"
  BY ServerFields DEF BrowserInv, BrowserTyped, HearsOfTruth
<1>2. /\ Seen'.order = Seen.order /\ Seen'.payment = Seen.payment /\ Seen.ended = FALSE
      /\ Seen.order \in {"none", "made", "heard"} /\ Seen.payment \in {"none", "made", "heard"}
  BY <1>1 DEF Seen
<1> QED BY <1>2 DEF Counted!Moves, Counted!Advances

\* A purchase makes an order, and a payment is made for one that is heard of.
LEMMA MakesOne ==
  ASSUME BrowserInv, NEW d \in Latencies, NEW x \in {0, d},
         NEW answer \in {"ok", "later", "other", "refused"},
         Buy(d, answer, x) \/ Pay(d, answer, x)
  PROVE  Counted!Moves(Seen, Seen')
<1>1. /\ d \in Nat /\ x \in Nat
  BY TimesAdd
<1>2. /\ step # "done" /\ paid = "none" /\ server \in ServerRow /\ (server.paid => order)
  BY DEF Buy, Pay, BrowserInv, BrowserTyped, HearsOfTruth
<1>3. CASE Buy(d, answer, x)
  <2>1. ~order /\ ~server.paid
    BY <1>3, InRound DEF Buy, Round
  <2>2. /\ paid' = paid /\ server'.paid = server.paid /\ (server.held => server'.held)
    <3>1. \/ server' = ServerAfter(d)
          \/ server' = server
          \/ server' = HeldAfter(x, d)
      BY <1>3 DEF Buy
    <3>2. paid' = paid
      BY <1>3 DEF Buy
    <3>3. CASE server' = ServerAfter(d)
      BY <1>1, <1>2, <3>2, <3>3, ServerFields
    <3>4. CASE server' = server
      BY <3>2, <3>4
    <3>5. CASE server' = HeldAfter(x, d)
      BY <1>1, <1>2, <3>2, <3>5, MadeFields
    <3> QED BY <3>1, <3>3, <3>4, <3>5
  <2>3. /\ Seen'.payment = "none" /\ Seen.payment = "none" /\ Seen.ended = FALSE
        /\ Seen.order \in {"none", "made"} /\ Seen'.order \in {"none", "made", "heard"}
        /\ Seen.order = "made" => Seen'.order # "none"
    BY <1>2, <2>1, <2>2 DEF Seen
  <2> QED BY <2>3 DEF Counted!Moves, Counted!Advances
<1>4. CASE Pay(d, answer, x)
  <2>1. order /\ server.held
    BY <1>4, WhilePaying DEF Pay, Paying
  <2>2. /\ order' = order /\ (server.paid => server'.paid) /\ server'.held = server.held
    BY <1>1, <1>2, <1>4, ServerFields DEF Pay
  <2>3. /\ Seen.order = "heard" /\ Seen'.order = "heard" /\ Seen.ended = FALSE
        /\ Seen.payment \in {"none", "made"} /\ Seen'.payment \in {"none", "made", "heard"}
        /\ Seen.payment = "made" => Seen'.payment # "none"
    BY <1>2, <2>1, <2>2 DEF Seen
  <2> QED BY <2>3 DEF Counted!Moves, Counted!Advances
<1> QED BY <1>3, <1>4

\* Every step is one of an iteration as it is counted, or none.
LEMMA StepIsCounted ==
  ASSUME BrowserInv, [BrowserNext]_browserVars
  PROVE  [Counted!Moves(Seen, Seen')]_Seen
<1>1. ASSUME NEW d \in Latencies, Asks(d)
      PROVE  Counted!Moves(Seen, Seen')
  <2>1. d \in Nat
    BY TimesAdd
  <2>2. ASSUME NEW answer \in {"ok", "later", "other"}, NEW r \in RetryAfters, Join(d, answer, r)
        PROVE  Counted!Moves(Seen, Seen')
    <3>1. step # "done" /\ server' = ServerAfter(d) /\ order' = order /\ paid' = paid
      BY <2>2 DEF Join
    <3> QED BY <2>1, <3>1, MakesNothing
  <2>3. ASSUME NEW answer \in {"gone", "later", "waiting", "other", "sold out", "ready"},
               NEW r \in RetryAfters, NEW e \in 0..TicketFor, Poll(d, answer, r, e)
        PROVE  Counted!Moves(Seen, Seen')
    <3>1. step # "done" /\ server' = ServerAfter(d) /\ order' = order /\ paid' = paid
      BY <2>3 DEF Poll
    <3> QED BY <2>1, <3>1, MakesNothing
  <2>4. ASSUME Replay(d)
        PROVE  Counted!Moves(Seen, Seen')
    <3>1. step # "done" /\ server' = ServerAfter(d) /\ order' = order /\ paid' = paid
      BY <2>4 DEF Replay
    <3> QED BY <2>1, <3>1, MakesNothing
  <2> QED BY <1>1, <2>2, <2>3, <2>4, MakesOne DEF Asks
<1>2. ASSUME NEW d \in Nat, Backoff(d) \/ PayBackoff(d) \/ Think(d)
      PROVE  Counted!Moves(Seen, Seen')
  <2>1. /\ step # "done" /\ server' = ServerAfter(d) /\ order' = order
        /\ paid' = paid \/ paid' = "unanswered"
    BY <1>2 DEF Backoff, PayBackoff, Think
  <2> QED BY <2>1, MakesNothing
<1>3. ASSUME Pause
      PROVE  Counted!Moves(Seen, Seen')
  <2>1. LeastPause(retryAfter) \in Nat
    BY TimesAdd, PauseIsShort DEF BrowserInv, BrowserTyped
  <2>2. /\ step # "done" /\ server' = ServerAfter(LeastPause(retryAfter))
        /\ order' = order /\ paid' = paid
    BY <1>3 DEF Pause
  <2> QED BY <2>1, <2>2, MakesNothing
<1>4. ASSUME Waits
      PROVE  Counted!Moves(Seen, Seen')
  <2>1. \A d \in BackoffTimes(attempt) : d \in Nat
    BY DEF BackoffTimes
  <2>2. \A d \in ThinkTimes : Think(d) => d \in Nat
    BY ThinksInTime DEF Think
  <2> QED BY <1>2, <1>3, <1>4, <2>1, <2>2 DEF Waits
<1>5. ASSUME Abandon
      PROVE  Counted!Moves(Seen, Seen')
  <2>1. /\ Seen'.order = Seen.order /\ Seen'.payment = Seen.payment /\ Seen.ended = FALSE
        /\ Seen.order \in {"none", "made", "heard"} /\ Seen.payment \in {"none", "made", "heard"}
    BY <1>5 DEF Abandon, Seen
  <2> QED BY <2>1 DEF Counted!Moves, Counted!Advances
<1>6. CASE UNCHANGED browserVars
  BY <1>6 DEF browserVars, Seen
<1> QED BY <1>1, <1>4, <1>5, <1>6 DEF BrowserNext

\* A script is an iteration as it is counted: it hears only of what was made, and pays only
\* for an order it has heard of.
THEOREM ImplementsIterations == BrowserSpec => ImplementsIteration
<1>1. BrowserInit => Seen \in {Counted!Fresh("none"), Counted!Fresh("heard")}
  <2> SUFFICES ASSUME BrowserInit
               PROVE  Seen = Counted!Fresh("none") \/ Seen = Counted!Fresh("heard")
    OBVIOUS
  <2>1. /\ paid = "none" /\ step # "done" /\ server.held = order /\ server.paid = FALSE
        /\ order \in BOOLEAN
    BY Zenon DEF BrowserInit
  <2>2. CASE order
    BY <2>1, <2>2 DEF Seen, Counted!Fresh
  <2>3. CASE ~order
    BY <2>1, <2>3 DEF Seen, Counted!Fresh
  <2> QED BY <2>1, <2>2, <2>3
<1>2. BrowserInv /\ [BrowserNext]_browserVars => [Counted!Moves(Seen, Seen')]_Seen
  BY StepIsCounted
<1> QED BY <1>1, <1>2, BrowserInvariance, PTL DEF BrowserSpec, ImplementsIteration, Counted!IterationSpec

-----------------------------------------------------------------------------
(* Baseline *)

Statuses == {"held", "paying", "confirmed", "expired"}
ItRow == [stage : {"buying", "paying", "ended"},
          outcome : {"none", "held", "business_rejected", "limited", "unexpected"},
          payment : {"none", "accepted", "unexpected"}]
OrderRow == [sale : Sales, status : Statuses]

\* The iterations of a scenario are numbered as they come.
Numbered ==
  /\ measured \in Measured
  /\ DOMAIN its \subseteq AllIterations /\ IsFiniteSet(DOMAIN its)
  /\ \A i \in DOMAIN its : its[i] \in ItRow /\ i[2] < Started(i[1])

\* Nothing more is heard of an iteration that has ended well.
Done(i) == its[i].stage = "ended" /\ its[i].outcome # "unexpected" /\ its[i].payment # "unexpected"

\* A request is that of an iteration that waits for it, or did not hear of it.
RequestsAreOwn ==
  /\ \A r \in asked : \E i \in DOMAIN its : r = <<"purchase", i>> \/ r = <<"payment", i>>
  /\ \A i \in DOMAIN its :
       /\ its[i].stage = "buying" => its[i].outcome = "none"
       /\ its[i].stage = "paying" => its[i].outcome = "held"
       /\ <<"purchase", i>> \in asked => its[i].stage = "buying" \/ its[i].outcome = "unexpected"
       /\ <<"payment", i>> \in asked =>
            /\ its[i].outcome = "held"
            /\ its[i].stage = "paying" \/ its[i].payment = "unexpected"

\* An order is that of an iteration, on its sale; who heard of an order has it.
OrdersAreOwn ==
  /\ \A k \in DOMAIN orders : orders[k] \in OrderRow
  /\ \A k \in DOMAIN orders : \E i \in DOMAIN its : k = KeyOf(i) /\ orders[k].sale = SaleOf(i)
  /\ \A i \in DOMAIN its : its[i].outcome = "held" => KeyOf(i) \in DOMAIN orders

\* An order took one unit at most, and there is one for each that may arrive.
StockCovers ==
  /\ left \in [Sales -> Int] /\ stock \in Nat /\ dropped \in Nat
  /\ measured = "capacity" =>
       /\ EnoughStock(stock)
       /\ left["measured"] + Cardinality(OrdersOf("measured")) >= stock
       /\ Started("capacity") <= Rate + 1
       /\ StockLasts

\* What the checks between the loads have made sure of stays so.
ChecksHold ==
  /\ phase \in {"check", "measured", "drain", "collected"} => \A i \in Of("warmup") : Done(i)
  /\ phase \in {"measured", "drain", "collected"} =>
       \A k \in OrdersOf("warmup") : orders[k].status = "confirmed"
  /\ measured = "capacity" /\ phase \in {"drain", "collected"} =>
       \A i \in Of("measured") : Done(i) /\ its[i].outcome = "held"
  /\ measured = "capacity" /\ phase = "collected" =>
       \A k \in OrdersOf("measured") : orders[k].status = "confirmed"

Records == Numbered /\ RequestsAreOwn /\ OrdersAreOwn

BaselineInv == Records /\ StockCovers /\ ChecksHold

-----------------------------------------------------------------------------
(* Iterations, orders and their number *)

\* An iteration is on the sale of its scenario.
LEMMA SaleOfIs ==
  ASSUME NEW i \in AllIterations
  PROVE  SaleOf(i) = IF i[1] = "warmup" THEN "warmup" ELSE "measured"
<1> DEFINE own == IF i[1] = "warmup" THEN "warmup" ELSE "measured"
<1>1. i[1] \in Scenarios("warmup") \cup Scenarios("measured")
  BY DEF AllIterations, Sales
<1>2. own \in Sales /\ i[1] \in Scenarios(own)
  BY <1>1 DEF Sales, Scenarios, WarmupScenarios, CapacityScenarios, SpikeScenarios
<1>3. \A sale \in Sales : i[1] \in Scenarios(sale) => sale = own
  BY DEF Sales, Scenarios, WarmupScenarios, CapacityScenarios, SpikeScenarios
<1> HIDE DEF own
<1>4. SaleOf(i) = own
  BY <1>2, <1>3 DEF SaleOf
<1> QED BY <1>4 DEF own

\* It stays there.
LEMMA SaleOfStays ==
  ASSUME measured' = measured, NEW i
  PROVE  SaleOf(i)' = SaleOf(i) /\ AllIterations' = AllIterations
BY DEF SaleOf, Scenarios, AllIterations

\* The iterations of a sale can be counted.
LEMMA OfFinite ==
  ASSUME Numbered, NEW sale
  PROVE  IsFiniteSet(Of(sale)) /\ Cardinality(Of(sale)) \in Nat
<1>1. Of(sale) \in SUBSET DOMAIN its
  BY DEF Of
<1> QED BY <1>1, FS_Subset, FS_CardinalityType DEF Numbered

\* No sale has more orders than iterations.
LEMMA OrdersFinite ==
  ASSUME Records, NEW sale \in Sales
  PROVE  /\ IsFiniteSet(OrdersOf(sale)) /\ Cardinality(OrdersOf(sale)) \in Nat
         /\ Cardinality(OrdersOf(sale)) <= Cardinality(Of(sale))
<1> DEFINE f == [k \in OrdersOf(sale) |-> k[1]]
<1>1. \A k \in OrdersOf(sale) : k[1] \in Of(sale) /\ k = KeyOf(k[1])
  BY DEF Records, OrdersAreOwn, OrdersOf, Of, KeyOf, User
<1>2. f \in Injection(OrdersOf(sale), Of(sale))
  BY <1>1 DEF Injection, IsInjective
<1>3. IsFiniteSet(Of(sale))
  BY OfFinite DEF Records
<1> HIDE DEF f
<1> QED BY <1>2, <1>3, FS_Injection, FS_CardinalityType

\* All that was bought is there.
LEMMA AcceptedHaveOrders ==
  ASSUME Records, NEW sale \in Sales
  PROVE  Accepted(sale) <= Cardinality(OrdersOf(sale))
<1> DEFINE bought == {i \in Of(sale) : its[i].outcome = "held"}
           f == [i \in bought |-> KeyOf(i)]
<1>1. \A i \in bought : KeyOf(i) \in OrdersOf(sale)
  <2>1. ASSUME NEW i \in bought
        PROVE  KeyOf(i) \in OrdersOf(sale)
    <3>1. i \in DOMAIN its /\ KeyOf(i) \in DOMAIN orders /\ SaleOf(i) = sale
      BY DEF Of, Records, OrdersAreOwn
    <3>2. PICK j \in DOMAIN its : KeyOf(i) = KeyOf(j) /\ orders[KeyOf(i)].sale = SaleOf(j)
      BY <3>1 DEF Records, OrdersAreOwn
    <3> QED BY <3>1, <3>2 DEF KeyOf, User, OrdersOf
  <2> QED BY <2>1
<1>2. f \in Injection(bought, OrdersOf(sale))
  BY <1>1 DEF Injection, IsInjective, KeyOf, User
<1>3. IsFiniteSet(OrdersOf(sale))
  BY OrdersFinite
<1>4. Cardinality(bought) <= Cardinality(OrdersOf(sale))
  <2> HIDE DEF f, bought
  <2> QED BY <1>2, <1>3, FS_Injection
<1> QED BY <1>4 DEF Accepted

\* A unit for each that may arrive, and one more.
LEMMA EnoughIsMore ==
  ASSUME NEW s \in Nat, EnoughStock(s)
  PROVE  s >= Rate + 2
<1>1. (11 * Rate + 9) \div 10 >= Rate + 1
  BY BaselineAssumption
<1> QED BY <1>1, BaselineAssumption DEF EnoughStock

\* The orders that were made are those of iterations on their sale.
LEMMA OrderHasIteration ==
  ASSUME Records, NEW k \in DOMAIN orders
  PROVE  k[1] \in DOMAIN its /\ k = KeyOf(k[1]) /\ orders[k].sale = SaleOf(k[1])
BY DEF Records, OrdersAreOwn, KeyOf, User

\* The invariant gives what an experiment promises.
LEMMA InvIsFair ==
  ASSUME BaselineInv
  PROVE  MeasuresFairly
<1>0. Records /\ StockCovers /\ ChecksHold
  BY DEF BaselineInv
<1>1. BuysItsOwn
  <2>1. ASSUME NEW i \in DOMAIN its, KeyOf(i) \in DOMAIN orders
        PROVE  orders[KeyOf(i)].sale = SaleOf(i)
    BY <1>0, <2>1, OrderHasIteration DEF KeyOf, User
  <2>2. \A sale \in Sales : Accepted(sale) <= Cardinality(OrdersOf(sale))
    BY <1>0, AcceptedHaveOrders
  <2> QED BY <2>1, <2>2 DEF BuysItsOwn
<1>2. ASSUME NEW r \in asked, NEW i \in DOMAIN its, r = <<"purchase", i>> \/ r = <<"payment", i>>
      PROVE  ~Done(i)
  BY <1>0, <1>2 DEF Records, RequestsAreOwn, Done
<1>3. StartsClean
  <2>1. SUFFICES ASSUME phase \in {"measured", "drain", "collected"}
                 PROVE  /\ \A r \in asked : SaleOf(r[2]) # "warmup"
                        /\ OrdersOf("warmup") = ConfirmedOf("warmup")
    BY DEF StartsClean
  <2>2. (\A i \in Of("warmup") : Done(i)) /\ \A k \in OrdersOf("warmup") : orders[k].status = "confirmed"
    BY <1>0, <2>1 DEF ChecksHold
  <2>3. ASSUME NEW r \in asked
        PROVE  SaleOf(r[2]) # "warmup"
    <3>1. PICK i \in DOMAIN its : r = <<"purchase", i>> \/ r = <<"payment", i>>
      BY <1>0 DEF Records, RequestsAreOwn
    <3>2. ~Done(i) /\ r[2] = i
      BY <1>2, <3>1
    <3> QED BY <2>2, <3>2 DEF Of
  <2> QED BY <2>2, <2>3 DEF ConfirmedOf
<1>4. CollectedIsComplete
  <2>1. SUFFICES ASSUME measured = "capacity", phase = "collected"
                 PROVE  /\ OrdersOf("measured") = ConfirmedOf("measured")
                        /\ OrdersOf("measured") = {KeyOf(i) : i \in Of("measured")}
                        /\ asked = {}
    BY DEF CollectedIsComplete
  <2>2. /\ \A i \in Of("warmup") : Done(i)
        /\ \A i \in Of("measured") : Done(i) /\ its[i].outcome = "held"
        /\ \A k \in OrdersOf("measured") : orders[k].status = "confirmed"
    BY <1>0, <2>1 DEF ChecksHold
  <2>3. OrdersOf("measured") = ConfirmedOf("measured")
    BY <2>2 DEF ConfirmedOf
  <2>4. ASSUME NEW i \in Of("measured")
        PROVE  KeyOf(i) \in OrdersOf("measured")
    <3>1. i \in DOMAIN its /\ SaleOf(i) = "measured" /\ KeyOf(i) \in DOMAIN orders
      BY <1>0, <2>2 DEF Of, Records, OrdersAreOwn
    <3> QED BY <1>1, <3>1 DEF OrdersOf, BuysItsOwn
  <2>5. \A k \in OrdersOf("measured") : k[1] \in Of("measured") /\ k = KeyOf(k[1])
    BY <1>0, OrderHasIteration DEF OrdersOf, Of
  <2>6. asked = {}
    <3>1. \A i \in DOMAIN its : i \in AllIterations
      BY <1>0 DEF Records, Numbered
    <3>2. \A i \in DOMAIN its : SaleOf(i) \in Sales
      BY <3>1, SaleOfIs DEF Sales
    <3>3. \A i \in DOMAIN its : Done(i)
      BY <2>2, <3>2 DEF Of, Sales
    <3> QED BY <1>0, <1>2, <3>3 DEF Records, RequestsAreOwn
  <2> QED BY <2>3, <2>4, <2>5, <2>6
<1>5. StockLasts
  BY <1>0 DEF StockCovers, StockLasts
<1> QED BY <1>1, <1>3, <1>4, <1>5 DEF MeasuresFairly

-----------------------------------------------------------------------------
(* What no step undoes *)

\* What the checks rest on stays, as long as nobody who is done is changed, nobody comes
\* but on the sale of the load, and no order that is confirmed or of somebody done changes.
LEMMA ChecksStay ==
  ASSUME Records, Records', ChecksHold, UNCHANGED <<measured, phase>>,
         \A i \in DOMAIN its : Done(i) => i \in DOMAIN its' /\ its'[i] = its[i],
         \A i \in DOMAIN its' : i \in DOMAIN its \/ (phase \in Sales /\ SaleOf(i) = phase),
         \A k \in DOMAIN orders' :
           \/ k \in DOMAIN orders /\ orders'[k] = orders[k]
           \/ k \in DOMAIN orders /\ orders[k].status # "confirmed" /\ orders'[k].sale = orders[k].sale
           \/ \E i \in DOMAIN its : k = KeyOf(i) /\ ~Done(i)
  PROVE  ChecksHold'
<1>1. \A i : SaleOf(i)' = SaleOf(i)
  BY SaleOfStays
<1>2. ASSUME NEW sale \in Sales, phase # sale, \A i \in Of(sale) : Done(i)
      PROVE  \A i \in Of(sale)' : i \in Of(sale) /\ its'[i] = its[i]
  BY <1>1, <1>2 DEF Of
<1>3. ASSUME NEW sale \in Sales, phase # sale, \A i \in Of(sale) : Done(i),
             \A k \in OrdersOf(sale) : orders[k].status = "confirmed",
             NEW k \in OrdersOf(sale)'
      PROVE  orders'[k].status = "confirmed"
  <2>1. /\ k[1] \in DOMAIN its' /\ k = KeyOf(k[1])' /\ orders'[k].sale = SaleOf(k[1])'
        /\ k \in DOMAIN orders' /\ orders'[k].sale = sale
    <3>1. Records' /\ k \in DOMAIN orders' /\ orders'[k].sale = sale
      BY <1>3 DEF OrdersOf
    <3> QED BY <3>1 DEF Records, OrdersAreOwn, KeyOf, User
  <2>2. k[1] \in Of(sale)'
    BY <2>1 DEF Of
  <2>3. k[1] \in DOMAIN its /\ Done(k[1])
    BY <1>2, <1>3, <2>2 DEF Of
  <2>4. ~ \E i \in DOMAIN its : k = KeyOf(i) /\ ~Done(i)
    BY <2>1, <2>3 DEF KeyOf, User
  <2>5. k \in DOMAIN orders /\ orders'[k].sale = orders[k].sale
    BY <2>1, <2>4
  <2>6. orders[k].status = "confirmed"
    BY <1>3, <2>1, <2>5 DEF OrdersOf
  <2> QED BY <2>1, <2>4, <2>6
<1>4. "warmup" \in Sales /\ "measured" \in Sales
  BY DEF Sales
<1>5. phase \in {"check", "measured", "drain", "collected"} => \A i \in Of("warmup")' : Done(i)'
  BY <1>2, <1>4 DEF ChecksHold, Done
<1>6. phase \in {"measured", "drain", "collected"} =>
        \A k \in OrdersOf("warmup")' : orders'[k].status = "confirmed"
  BY <1>3, <1>4 DEF ChecksHold
<1>7. measured = "capacity" /\ phase \in {"drain", "collected"} =>
        \A i \in Of("measured")' : Done(i)' /\ its'[i].outcome = "held"
  BY <1>2, <1>4 DEF ChecksHold, Done
<1>8. measured = "capacity" /\ phase = "collected" =>
        \A k \in OrdersOf("measured")' : orders'[k].status = "confirmed"
  BY <1>3, <1>4 DEF ChecksHold
<1> QED BY <1>5, <1>6, <1>7, <1>8 DEF ChecksHold

\* Nobody new: the iterations are counted as before.
LEMMA SameIterations ==
  ASSUME Numbered, measured' = measured, DOMAIN its' = DOMAIN its,
         \A i \in DOMAIN its : its'[i] \in ItRow
  PROVE  /\ Numbered' /\ \A i : SaleOf(i)' = SaleOf(i)
         /\ \A name : Started(name)' = Started(name)
         /\ \A sale : Of(sale)' = Of(sale)
<1>1. \A i : SaleOf(i)' = SaleOf(i) /\ AllIterations' = AllIterations
  BY SaleOfStays
<1>2. \A name : Started(name)' = Started(name)
  BY DEF Started
<1> QED BY <1>1, <1>2 DEF Numbered, Of

\* No new order: the orders of a sale are as before.
LEMMA SameOrders ==
  ASSUME OrdersAreOwn, DOMAIN its' = DOMAIN its, DOMAIN orders' = DOMAIN orders,
         \A i : SaleOf(i)' = SaleOf(i),
         \A k \in DOMAIN orders : orders'[k] \in OrderRow /\ orders'[k].sale = orders[k].sale,
         \A i \in DOMAIN its : its'[i].outcome = "held" =>
           its[i].outcome = "held" \/ KeyOf(i) \in DOMAIN orders
  PROVE  OrdersAreOwn' /\ \A sale : OrdersOf(sale)' = OrdersOf(sale)
BY DEF OrdersAreOwn, OrdersOf, OrderRow, Sales, KeyOf, User

\* A sale that has lost no unit and got no order, and in which nobody new is rejected.
LEMMA StockStays ==
  ASSUME StockCovers, UNCHANGED <<measured, stock>>, left' \in [Sales -> Int],
         left'["measured"] >= left["measured"], dropped' \in Nat,
         OrdersOf("measured")' = OrdersOf("measured"),
         measured = "capacity" => StockLasts' /\ Started("capacity")' <= Rate + 1,
         Cardinality(OrdersOf("measured")) \in Nat
  PROVE  StockCovers'
<1>1. left["measured"] \in Int /\ left'["measured"] \in Int
  BY DEF StockCovers, Sales
<1>2. measured = "capacity" =>
        left'["measured"] + Cardinality(OrdersOf("measured")) >= stock
  <2> DEFINE m == Cardinality(OrdersOf("measured"))
             x == left["measured"]
             y == left'["measured"]
  <2>1. measured = "capacity" => x + m >= stock
    BY DEF StockCovers
  <2>2. stock \in Nat /\ m \in Nat /\ x \in Int /\ y \in Int /\ y >= x
    BY <1>1 DEF StockCovers
  <2> HIDE DEF m, x, y
  <2>3. measured = "capacity" => y + m >= stock
    BY <2>1, <2>2
  <2> QED BY <2>3 DEF m, y
<1> QED BY <1>2 DEF StockCovers, EnoughStock

\* An arrival has a number that nobody had.
LEMMA ArriveKeeps ==
  ASSUME BaselineInv, NEW name \in {"warmup", "capacity", "opening", "tail"}, Arrive(name)
  PROVE  BaselineInv'
<1>0. /\ Records /\ StockCovers /\ ChecksHold /\ Numbered /\ RequestsAreOwn /\ OrdersAreOwn
      /\ UNCHANGED <<measured, phase, stock, left, orders>>
      /\ phase \in Sales /\ name \in Scenarios(phase) /\ Started(name) + dropped <= Rate
  BY DEF BaselineInv, Records, Arrive, Loading
<1>1. \A other : Started(other) \in Nat /\ IsFiniteSet({i \in DOMAIN its : i[1] = other})
  <2>1. ASSUME NEW other
        PROVE  IsFiniteSet({i \in DOMAIN its : i[1] = other})
    <3>1. {i \in DOMAIN its : i[1] = other} \in SUBSET DOMAIN its
      OBVIOUS
    <3> QED BY <1>0, <3>1, FS_Subset DEF Numbered
  <2> QED BY <2>1, FS_CardinalityType DEF Started
<1> PICK n \in Nat : n = Started(name)
  BY <1>1
<1> PICK new : new = <<name, n>>
  OBVIOUS
<1>2. \A i : SaleOf(i)' = SaleOf(i) /\ AllIterations' = AllIterations
  BY <1>0, SaleOfStays
<1>3. CASE dropped' = dropped + 1 /\ UNCHANGED <<its, asked>>
  <2>1. Numbered' /\ RequestsAreOwn' /\ OrdersAreOwn' /\ ChecksHold'
    BY <1>0, <1>2, <1>3, SameIterations, SameOrders
       DEF Numbered, Started, RequestsAreOwn, OrdersAreOwn, ChecksHold, Of, Done, OrdersOf, KeyOf, User
  <2>2. StockCovers'
    BY <1>0, <1>2, <1>3 DEF StockCovers, EnoughStock, OrdersOf, Started, StockLasts, Of
  <2> QED BY <2>1, <2>2 DEF BaselineInv, Records
<1>4. CASE /\ Set(new, [stage |-> "buying", outcome |-> "none", payment |-> "none"])
           /\ asked' = asked \cup {<<"purchase", new>>} /\ UNCHANGED dropped
  <2>1. dropped \in Nat /\ n \in Nat
    BY <1>0, <1>1 DEF StockCovers
  <2>2. n \in 0..Rate
    <3> QED BY <1>0, <2>1, BaselineAssumption
  <2>3. new[1] = name /\ new[2] = n /\ new \in AllIterations /\ SaleOf(new) = phase
    <3>1. new \in AllIterations
      <4> QED BY <1>0, <2>2 DEF AllIterations
    <3> QED BY <1>0, <3>1, SaleOfIs
            DEF Sales, Scenarios, WarmupScenarios, CapacityScenarios, SpikeScenarios
  <2>4. new \notin DOMAIN its
    <3>1. \A i \in DOMAIN its : i[1] = name => i[2] < n
      BY <1>0 DEF Numbered
    <3> QED BY <2>1, <2>3, <3>1
  <2>5. /\ DOMAIN its' = DOMAIN its \cup {new} /\ \A i \in DOMAIN its : its'[i] = its[i]
        /\ its'[new] = [stage |-> "buying", outcome |-> "none", payment |-> "none"]
    BY <1>4, <2>4 DEF Set, With
  <2>6. /\ Started(name)' = n + 1
        /\ \A other : other # name => Started(other)' = Started(other)
    <3> DEFINE own == {i \in DOMAIN its : i[1] = name}
    <3>1. {i \in DOMAIN its' : i[1] = name} = own \cup {new} /\ new \notin own
      BY <2>3, <2>4, <2>5
    <3>2. \A other : other # name =>
            {i \in DOMAIN its' : i[1] = other} = {i \in DOMAIN its : i[1] = other}
      BY <2>3, <2>5
    <3>3. IsFiniteSet(own)
      BY <1>1
    <3>4. Cardinality(own \cup {new}) = Cardinality(own) + 1
      <4> HIDE DEF own
      <4> QED BY <3>1, <3>3, FS_AddElement
    <3> QED BY <3>1, <3>2, <3>4 DEF Started
  <2>7. Numbered'
    <3>1. IsFiniteSet(DOMAIN its')
      BY <1>0, <2>5, FS_AddElement DEF Numbered
    <3>2. its'[new] \in ItRow /\ new[2] < Started(name)'
      BY <2>1, <2>3, <2>5, <2>6 DEF ItRow
    <3>3. ASSUME NEW i \in DOMAIN its
          PROVE  i[2] < Started(i[1])'
      <4>1. i[2] < Started(i[1]) /\ i[2] \in 0..Rate
        BY <1>0 DEF Numbered, AllIterations
      <4>2. CASE i[1] = name
        <5>1. i[2] < n /\ Started(i[1])' = n + 1
          BY <2>6, <4>1, <4>2
        <5> QED BY <2>1, <4>1, <5>1
      <4>3. CASE i[1] # name
        BY <2>6, <4>1, <4>3
      <4> QED BY <4>2, <4>3
    <3> QED BY <1>0, <1>2, <2>3, <2>5, <3>1, <3>2, <3>3 DEF Numbered
  <2>8. RequestsAreOwn'
    <3>1. \A r \in asked' : \E i \in DOMAIN its' : r = <<"purchase", i>> \/ r = <<"payment", i>>
      BY <1>0, <1>4, <2>5 DEF RequestsAreOwn
    <3>2. its'[new].stage = "buying" /\ its'[new].outcome = "none" /\ <<"payment", new>> \notin asked'
      BY <1>0, <1>4, <2>4, <2>5 DEF RequestsAreOwn
    <3>3. \A i \in DOMAIN its : /\ its'[i] = its[i] /\ i # new
                                /\ <<"purchase", i>> \in asked' => <<"purchase", i>> \in asked
                                /\ <<"payment", i>> \in asked' => <<"payment", i>> \in asked
      BY <1>4, <2>4, <2>5
    <3> QED BY <1>0, <2>5, <3>1, <3>2, <3>3 DEF RequestsAreOwn
  <2>9. OrdersAreOwn' /\ OrdersOf("measured")' = OrdersOf("measured")
    BY <1>0, <1>2, <2>5 DEF OrdersAreOwn, OrderRow, Sales, KeyOf, User, OrdersOf
  <2>10. Records'
    BY <2>7, <2>8, <2>9 DEF Records
  <2>11. measured = "capacity" => StockLasts'
    BY <1>0, <1>2, <2>5 DEF StockCovers, StockLasts, Of
  <2>12. measured = "capacity" => Started("capacity")' <= Rate + 1
    <3>1. n + 1 <= Rate + 1
      <4> QED BY <2>2, BaselineAssumption
    <3> QED BY <1>0, <2>6, <3>1 DEF StockCovers
  <2>13. StockCovers'
    <3>1. Cardinality(OrdersOf("measured")) \in Nat
      BY <1>0, OrdersFinite DEF Sales
    <3>2. left' \in [Sales -> Int] /\ dropped' \in Nat /\ left'["measured"] >= left["measured"]
      BY <1>0, <1>4 DEF StockCovers, Sales
    <3> QED BY <1>0, <2>9, <2>11, <2>12, <3>1, <3>2, StockStays
  <2>14. ChecksHold'
    <3>1. \A i \in DOMAIN its : Done(i) => i \in DOMAIN its' /\ its'[i] = its[i]
      BY <2>5
    <3>2. \A i \in DOMAIN its' : i \in DOMAIN its \/ (phase \in Sales /\ SaleOf(i) = phase)
      BY <1>0, <2>3, <2>5
    <3>3. \A k \in DOMAIN orders' :
            \/ k \in DOMAIN orders /\ orders'[k] = orders[k]
            \/ k \in DOMAIN orders /\ orders[k].status # "confirmed" /\ orders'[k].sale = orders[k].sale
            \/ \E i \in DOMAIN its : k = KeyOf(i) /\ ~Done(i)
      BY <1>0
    <3>4. Records /\ ChecksHold /\ UNCHANGED <<measured, phase>>
      BY <1>0
    <3> QED BY <2>10, <3>1, <3>2, <3>3, <3>4, ChecksStay
  <2> QED BY <2>10, <2>13, <2>14 DEF BaselineInv
<1> QED BY <1>3, <1>4 DEF Arrive

-----------------------------------------------------------------------------
(* Answers *)

\* What the script does with an answer, or without: only one who waits for it hears of it.
LEMMA AnswerKeeps ==
  ASSUME Records, measured' = measured, NEW i \in DOMAIN its,
         NEW kind \in {"purchase", "payment"}, <<kind, i>> \in asked, NEW outcome,
         Answer(kind, i, outcome),
         kind = "purchase" => outcome \in {"held", "business_rejected", "limited", "unexpected"},
         kind = "payment" => outcome \in {"accepted", "unexpected"}
  PROVE  /\ Numbered' /\ RequestsAreOwn' /\ DOMAIN its' = DOMAIN its /\ ~Done(i)
         /\ \A j \in DOMAIN its : j # i => its'[j] = its[j]
         /\ its'[i].outcome = its[i].outcome \/ (kind = "purchase" /\ its'[i].outcome = outcome)
<1>0. Numbered /\ RequestsAreOwn /\ its[i] \in ItRow
  BY DEF Records, Numbered
<1>1. ~Done(i)
  BY <1>0 DEF RequestsAreOwn, Done
<1>2. /\ \A j \in DOMAIN its : j # i => its'[j] = its[j]
      /\ DOMAIN its' = DOMAIN its /\ its'[i] \in ItRow
      /\ its'[i].outcome = its[i].outcome \/ (kind = "purchase" /\ its'[i].outcome = outcome)
      /\ asked' \subseteq (asked \ {<<kind, i>>}) \cup {<<"payment", i>>}
      /\ its'[i].stage = "buying" => its'[i].outcome = "none"
      /\ its'[i].stage = "paying" => its'[i].outcome = "held"
      /\ <<"purchase", i>> \in asked' => its'[i].outcome = "unexpected"
      /\ <<"payment", i>> \in asked' =>
           its'[i].outcome = "held" /\ (its'[i].stage = "paying" \/ its'[i].payment = "unexpected")
  <2>1. CASE kind = "purchase" /\ its[i].stage = "buying"
    <3>1. its' = With(its, i, Heard(i, outcome))
          /\ asked' = (asked \ {<<kind, i>>}) \cup IF outcome = "held" THEN {<<"payment", i>>} ELSE {}
      BY <2>1 DEF Answer, Set
    <3>2. DOMAIN its' = DOMAIN its /\ its'[i] = Heard(i, outcome)
          /\ \A j \in DOMAIN its : j # i => its'[j] = its[j]
      BY <3>1 DEF With
    <3>3. /\ Heard(i, outcome) \in ItRow /\ Heard(i, outcome).outcome = outcome
          /\ Heard(i, outcome).stage = IF outcome = "held" THEN "paying" ELSE "ended"
      BY <1>0, <2>1 DEF Heard, ItRow
    <3>4. <<"payment", i>> \notin asked
      BY <1>0, <2>1 DEF RequestsAreOwn
    <3> QED BY <2>1, <3>1, <3>2, <3>3, <3>4
  <2>2. CASE kind = "payment" /\ its[i].stage = "paying"
    <3> DEFINE after == [its[i] EXCEPT !.stage = "ended", !.payment = outcome]
    <3>1. its' = With(its, i, after) /\ asked' = asked \ {<<kind, i>>}
      BY <2>2 DEF Answer, Set
    <3>2. after \in ItRow /\ after.outcome = its[i].outcome /\ after.stage = "ended"
      BY <1>0, <2>2 DEF ItRow
    <3> HIDE DEF after
    <3>3. DOMAIN its' = DOMAIN its /\ its'[i] = after /\ \A j \in DOMAIN its : j # i => its'[j] = its[j]
      BY <3>1 DEF With
    <3>4. its[i].outcome = "held" /\ <<"purchase", i>> \notin asked
      BY <1>0, <2>2 DEF RequestsAreOwn
    <3> QED BY <2>2, <3>1, <3>2, <3>3, <3>4
  <2>3. CASE /\ ~(kind = "purchase" /\ its[i].stage = "buying")
             /\ ~(kind = "payment" /\ its[i].stage = "paying")
    <3>1. its' = its /\ asked' = asked \ {<<kind, i>>}
      BY <2>3 DEF Answer
    <3> QED BY <1>0, <2>3, <3>1 DEF RequestsAreOwn
  <2> QED BY <2>1, <2>2, <2>3
<1>3. Numbered'
  BY <1>0, <1>2, SameIterations DEF Numbered
<1>4. RequestsAreOwn'
  <2>1. \A r \in asked' : \E j \in DOMAIN its' : r = <<"purchase", j>> \/ r = <<"payment", j>>
    BY <1>0, <1>2 DEF RequestsAreOwn
  <2>2. ASSUME NEW j \in DOMAIN its, j # i
        PROVE  /\ its'[j] = its[j] /\ <<"purchase", j>> \in asked' => <<"purchase", j>> \in asked
               /\ <<"payment", j>> \in asked' => <<"payment", j>> \in asked
    BY <1>2, <2>2
  <2> QED BY <1>0, <1>2, <2>1, <2>2 DEF RequestsAreOwn
<1> QED BY <1>1, <1>2, <1>3, <1>4

\* In a capacity trial there is a unit for whoever asks.
LEMMA InStockStays ==
  ASSUME BaselineInv, measured = "capacity"
  PROVE  left["measured"] > 0
<1> DEFINE m == Cardinality(OrdersOf("measured"))
           x == left["measured"]
<1>1. Of("measured") = {i \in DOMAIN its : i[1] = "capacity"}
  <2>1. ASSUME NEW i \in DOMAIN its
        PROVE  i[1] \in {"warmup", "capacity"} /\ SaleOf(i) = IF i[1] = "warmup" THEN "warmup" ELSE "measured"
    <3>1. i \in AllIterations
      BY DEF BaselineInv, Records, Numbered
    <3>2. i[1] \in {"warmup", "capacity"}
      BY <3>1 DEF AllIterations, Sales, Scenarios, WarmupScenarios, CapacityScenarios
    <3> QED BY <3>1, <3>2, SaleOfIs
  <2> QED BY <2>1 DEF Of
<1>2. m <= Started("capacity") /\ m \in Nat /\ Started("capacity") \in Nat
  BY <1>1, OrdersFinite, OfFinite DEF BaselineInv, Records, Started, Sales
<1>3. x + m >= stock /\ Started("capacity") <= Rate + 1 /\ x \in Int /\ stock \in Nat
  BY DEF BaselineInv, StockCovers, Sales
<1>4. stock >= Rate + 2
  BY EnoughIsMore DEF BaselineInv, StockCovers
<1> HIDE DEF m, x
<1>5. x > 0
  BY <1>2, <1>3, <1>4, BaselineAssumption
<1> QED BY <1>5 DEF x

\* And so nobody is refused.
LEMMA NobodyIsRefused ==
  ASSUME BaselineInv, measured = "capacity", NEW i \in Of("measured")
  PROVE  ~Refuses(i)
<1>1. i \in DOMAIN its /\ SaleOf(i) = "measured"
  BY DEF Of
<1>2. KeyOf(i) \in DOMAIN orders => orders[KeyOf(i)].sale = SaleOf(i)
  BY OrderHasIteration DEF BaselineInv, KeyOf, User
<1> QED BY <1>1, <1>2, InStockStays DEF Refuses, InStock

\* An iteration that stays, and what becomes of the invariant when it alone has changed
\* and no order was made.
LEMMA OneChanges ==
  ASSUME BaselineInv, UNCHANGED <<measured, phase, stock, dropped>>, NEW i \in DOMAIN its, ~Done(i),
         Numbered', RequestsAreOwn', DOMAIN its' = DOMAIN its,
         \A j \in DOMAIN its : j # i => its'[j] = its[j],
         its'[i].outcome = "held" => KeyOf(i) \in DOMAIN orders,
         its'[i].outcome = "business_rejected" =>
           its[i].outcome = "business_rejected" \/ Refuses(i),
         DOMAIN orders' = DOMAIN orders, left' = left,
         \A k \in DOMAIN orders : orders'[k] \in OrderRow /\ orders'[k].sale = orders[k].sale,
         \A k \in DOMAIN orders : k # KeyOf(i) => orders'[k] = orders[k]
  PROVE  BaselineInv'
<1>0. Records /\ StockCovers /\ ChecksHold /\ Numbered /\ OrdersAreOwn
  BY DEF BaselineInv, Records
<1>1. /\ \A j : SaleOf(j)' = SaleOf(j)
      /\ Started("capacity")' = Started("capacity") /\ Of("measured")' = Of("measured")
  <2>1. \A j \in DOMAIN its : its'[j] \in ItRow
    BY DEF Numbered
  <2> QED BY <1>0, <2>1, SameIterations
<1>2. OrdersAreOwn' /\ OrdersOf("measured")' = OrdersOf("measured")
  <2>1. \A j \in DOMAIN its : its'[j].outcome = "held" =>
          its[j].outcome = "held" \/ KeyOf(j) \in DOMAIN orders
    OBVIOUS
  <2> QED BY <1>0, <1>1, <2>1, SameOrders
<1>3. Records'
  BY <1>2 DEF Records
<1>4. measured = "capacity" => StockLasts'
  <2>1. ASSUME measured = "capacity", NEW j \in Of("measured")
        PROVE  its'[j].outcome # "business_rejected"
    <3>1. its[j].outcome # "business_rejected" /\ j \in DOMAIN its
      BY <1>0, <2>1 DEF StockCovers, StockLasts, Of
    <3>2. ~Refuses(j)
      BY <2>1, NobodyIsRefused
    <3> QED BY <3>1, <3>2
  <2> QED BY <1>1, <2>1 DEF StockLasts
<1>5. StockCovers'
  <2>1. measured = "capacity" => StockLasts' /\ Started("capacity")' <= Rate + 1
    BY <1>0, <1>1, <1>4 DEF StockCovers
  <2>2. Cardinality(OrdersOf("measured")) \in Nat
    BY <1>0, OrdersFinite DEF Sales
  <2>3. left' \in [Sales -> Int] /\ dropped' \in Nat /\ left'["measured"] >= left["measured"]
    BY <1>0 DEF StockCovers, Sales
  <2> QED BY <1>0, <1>2, <2>1, <2>2, <2>3, StockStays
<1>6. ChecksHold'
  <2>1. \A j \in DOMAIN its : Done(j) => j \in DOMAIN its' /\ its'[j] = its[j]
    OBVIOUS
  <2>2. \A j \in DOMAIN its' : j \in DOMAIN its \/ (phase \in Sales /\ SaleOf(j) = phase)
    OBVIOUS
  <2>3. \A k \in DOMAIN orders' :
          \/ k \in DOMAIN orders /\ orders'[k] = orders[k]
          \/ k \in DOMAIN orders /\ orders[k].status # "confirmed" /\ orders'[k].sale = orders[k].sale
          \/ \E j \in DOMAIN its : k = KeyOf(j) /\ ~Done(j)
    OBVIOUS
  <2> QED BY <1>0, <1>3, <2>1, <2>2, <2>3, ChecksStay
<1> QED BY <1>3, <1>5, <1>6 DEF BaselineInv

\* A new order is on the sale of its iteration, and takes a unit of it.
LEMMA OrderIsMade ==
  ASSUME BaselineInv, UNCHANGED <<measured, phase, stock, dropped>>, NEW i \in DOMAIN its, ~Done(i),
         Numbered', RequestsAreOwn', DOMAIN its' = DOMAIN its,
         \A j \in DOMAIN its : j # i => its'[j] = its[j],
         its'[i].outcome # "business_rejected" \/ its'[i].outcome = its[i].outcome,
         KeyOf(i) \notin DOMAIN orders,
         orders' = With(orders, KeyOf(i), [sale |-> SaleOf(i), status |-> "held"]),
         left' = [left EXCEPT ![SaleOf(i)] = @ - 1]
  PROVE  BaselineInv'
<1>0. Records /\ StockCovers /\ ChecksHold /\ Numbered /\ OrdersAreOwn
  BY DEF BaselineInv, Records
<1>1. /\ \A j : SaleOf(j)' = SaleOf(j)
      /\ Started("capacity")' = Started("capacity") /\ Of("measured")' = Of("measured")
  <2>1. \A j \in DOMAIN its : its'[j] \in ItRow
    BY DEF Numbered
  <2> QED BY <1>0, <2>1, SameIterations
<1>2. SaleOf(i) \in Sales /\ i \in AllIterations
  BY <1>0, SaleOfIs DEF Numbered, Sales
<1>3. /\ DOMAIN orders' = DOMAIN orders \cup {KeyOf(i)}
      /\ orders'[KeyOf(i)] = [sale |-> SaleOf(i), status |-> "held"]
      /\ \A k \in DOMAIN orders : orders'[k] = orders[k]
  BY DEF With
<1>4. OrdersAreOwn'
  <2>1. orders'[KeyOf(i)] \in OrderRow /\ orders'[KeyOf(i)].sale = SaleOf(i)
    BY <1>2, <1>3 DEF OrderRow, Statuses
  <2>2. \A k \in DOMAIN orders' : orders'[k] \in OrderRow'
    BY <1>0, <1>3, <2>1 DEF OrdersAreOwn, OrderRow, Sales
  <2>3. \A k \in DOMAIN orders' : \E j \in DOMAIN its' : k = KeyOf(j) /\ orders'[k].sale = SaleOf(j)'
    BY <1>0, <1>1, <1>3, <2>1 DEF OrdersAreOwn
  <2>4. \A j \in DOMAIN its' : its'[j].outcome = "held" => KeyOf(j) \in DOMAIN orders'
    BY <1>0, <1>3 DEF OrdersAreOwn
  <2> QED BY <2>2, <2>3, <2>4 DEF OrdersAreOwn, KeyOf, User
<1>5. Records'
  BY <1>4 DEF Records
<1>6. measured = "capacity" => StockLasts'
  BY <1>0, <1>1 DEF StockCovers, StockLasts, Of
<1>7. IsFiniteSet(OrdersOf("measured")) /\ Cardinality(OrdersOf("measured")) \in Nat
  BY <1>0, OrdersFinite DEF Sales
<1>8. StockCovers'
  <2>1. measured = "capacity" => StockLasts' /\ Started("capacity")' <= Rate + 1
    BY <1>0, <1>1, <1>6 DEF StockCovers
  <2>2. left' \in [Sales -> Int]
    BY <1>0, <1>2 DEF StockCovers
  <2>3. CASE SaleOf(i) = "warmup"
    <3>1. OrdersOf("measured")' = OrdersOf("measured")
      BY <1>3, <2>3 DEF OrdersOf
    <3>2. left'["measured"] >= left["measured"]
      BY <1>0, <2>3 DEF StockCovers, Sales
    <3> QED BY <1>0, <1>7, <2>1, <2>2, <3>1, <3>2, StockStays DEF StockCovers
  <2>4. CASE SaleOf(i) = "measured"
    <3> DEFINE m == Cardinality(OrdersOf("measured"))
               x == left["measured"]
    <3>1. OrdersOf("measured")' = OrdersOf("measured") \cup {KeyOf(i)}
          /\ KeyOf(i) \notin OrdersOf("measured")
      BY <1>3, <2>4 DEF OrdersOf
    <3>2. Cardinality(OrdersOf("measured"))' = m + 1
      BY <1>7, <3>1, FS_AddElement
    <3>3. left'["measured"] = x - 1 /\ x \in Int /\ stock \in Nat /\ m \in Nat
      BY <1>0, <1>7, <2>4 DEF StockCovers, Sales
    <3>4. measured = "capacity" => x + m >= stock
      BY <1>0 DEF StockCovers
    <3> HIDE DEF m, x
    <3>5. measured = "capacity" => (x - 1) + (m + 1) >= stock
      BY <3>3, <3>4
    <3>6. measured = "capacity" => left'["measured"] + Cardinality(OrdersOf("measured"))' >= stock
      BY <3>2, <3>3, <3>5
    <3> QED BY <1>0, <2>1, <2>2, <3>6 DEF StockCovers, EnoughStock
  <2> QED BY <1>2, <2>3, <2>4 DEF Sales
<1>9. ChecksHold'
  <2>1. \A j \in DOMAIN its : Done(j) => j \in DOMAIN its' /\ its'[j] = its[j]
    OBVIOUS
  <2>2. \A j \in DOMAIN its' : j \in DOMAIN its \/ (phase \in Sales /\ SaleOf(j) = phase)
    OBVIOUS
  <2>3. \A k \in DOMAIN orders' :
          \/ k \in DOMAIN orders /\ orders'[k] = orders[k]
          \/ k \in DOMAIN orders /\ orders[k].status # "confirmed" /\ orders'[k].sale = orders[k].sale
          \/ \E j \in DOMAIN its : k = KeyOf(j) /\ ~Done(j)
    BY <1>3
  <2> QED BY <1>0, <1>5, <2>1, <2>2, <2>3, ChecksStay
<1> QED BY <1>5, <1>8, <1>9 DEF BaselineInv

-----------------------------------------------------------------------------
(* The service and the script *)

\* A request is that of an iteration that has come.
LEMMA AskedIsThere ==
  ASSUME Records, NEW i, NEW kind, <<kind, i>> \in asked
  PROVE  i \in DOMAIN its /\ its[i] \in ItRow
BY DEF Records, RequestsAreOwn, Numbered

\* A purchase answers with the order of its key, makes one, or fails.
LEMMA ServePurchaseKeeps ==
  ASSUME BaselineInv, NEW i, ServePurchase(i)
  PROVE  BaselineInv'
<1>0. /\ Records /\ <<"purchase", i>> \in asked /\ i \in DOMAIN its
      /\ UNCHANGED <<measured, phase, stock, dropped>>
  BY AskedIsThere DEF BaselineInv, ServePurchase
<1>1. ASSUME NEW outcome \in {"held", "business_rejected", "limited", "unexpected"},
             Answer("purchase", i, outcome)
      PROVE  /\ Numbered' /\ RequestsAreOwn' /\ DOMAIN its' = DOMAIN its /\ ~Done(i)
             /\ \A j \in DOMAIN its : j # i => its'[j] = its[j]
             /\ its'[i].outcome \in {its[i].outcome, outcome}
  BY <1>0, <1>1, AnswerKeeps
<1>2. ASSUME NEW outcome \in {"held", "business_rejected", "limited", "unexpected"},
             Answer("purchase", i, outcome), UNCHANGED <<left, orders>>,
             outcome = "held" => KeyOf(i) \in DOMAIN orders,
             outcome = "business_rejected" => Refuses(i)
      PROVE  BaselineInv'
  <2>1. its[i].outcome = "held" => KeyOf(i) \in DOMAIN orders
    BY <1>0 DEF Records, OrdersAreOwn
  <2>2. \A k \in DOMAIN orders : orders[k] \in OrderRow
    BY <1>0 DEF Records, OrdersAreOwn
  <2>3. /\ its'[i].outcome = "held" => KeyOf(i) \in DOMAIN orders
        /\ its'[i].outcome = "business_rejected" => its[i].outcome = "business_rejected" \/ Refuses(i)
    BY <1>1, <1>2, <2>1
  <2>4. /\ Numbered' /\ RequestsAreOwn' /\ DOMAIN its' = DOMAIN its /\ ~Done(i)
        /\ \A j \in DOMAIN its : j # i => its'[j] = its[j]
    BY <1>1, <1>2
  <2> QED BY <1>0, <1>2, <2>2, <2>3, <2>4, OneChanges
<1>3. ASSUME Answer("purchase", i, "held"), KeyOf(i) \notin DOMAIN orders,
             orders' = With(orders, KeyOf(i), [sale |-> SaleOf(i), status |-> "held"]),
             left' = [left EXCEPT ![SaleOf(i)] = @ - 1]
      PROVE  BaselineInv'
  <2>1. /\ Numbered' /\ RequestsAreOwn' /\ DOMAIN its' = DOMAIN its /\ ~Done(i)
        /\ \A j \in DOMAIN its : j # i => its'[j] = its[j]
        /\ its'[i].outcome \in {its[i].outcome, "held"}
    BY <1>1, <1>3
  <2> QED BY <1>0, <1>3, <2>1, OrderIsMade
<1>4. CASE /\ Answer("purchase", i, IF Refuses(i) THEN "business_rejected" ELSE "held")
           /\ IF Refuses(i) \/ KeyOf(i) \in DOMAIN orders THEN UNCHANGED <<left, orders>>
              ELSE /\ orders' = With(orders, KeyOf(i), [sale |-> SaleOf(i), status |-> "held"])
                   /\ left' = [left EXCEPT ![SaleOf(i)] = @ - 1]
  <2>1. CASE Refuses(i)
    BY <1>2, <1>4, <2>1
  <2>2. CASE ~Refuses(i) /\ KeyOf(i) \in DOMAIN orders
    BY <1>2, <1>4, <2>2
  <2>3. CASE ~Refuses(i) /\ KeyOf(i) \notin DOMAIN orders
    BY <1>3, <1>4, <2>3
  <2> QED BY <2>1, <2>2, <2>3
<1>5. CASE \E outcome \in {"limited", "unexpected"} :
             Answer("purchase", i, outcome) /\ UNCHANGED <<left, orders>>
  BY <1>2, <1>5
<1> QED BY <1>4, <1>5 DEF ServePurchase

\* A payment is for the order that was bought.
LEMMA ServePaymentKeeps ==
  ASSUME BaselineInv, NEW i, ServePayment(i)
  PROVE  BaselineInv'
<1>0. /\ Records /\ <<"payment", i>> \in asked /\ i \in DOMAIN its
      /\ UNCHANGED <<measured, phase, stock, left, dropped>>
  BY AskedIsThere DEF BaselineInv, ServePayment
<1>1. its[i].outcome = "held" /\ KeyOf(i) \in DOMAIN orders /\ orders[KeyOf(i)] \in OrderRow
      /\ \A k \in DOMAIN orders : orders[k] \in OrderRow
  BY <1>0 DEF Records, RequestsAreOwn, OrdersAreOwn
<1>2. ASSUME NEW outcome \in {"accepted", "unexpected"}, Answer("payment", i, outcome)
      PROVE  /\ Numbered' /\ RequestsAreOwn' /\ DOMAIN its' = DOMAIN its /\ ~Done(i)
             /\ \A j \in DOMAIN its : j # i => its'[j] = its[j]
             /\ its'[i].outcome = its[i].outcome
  BY <1>0, <1>2, AnswerKeeps
<1>3. ASSUME NEW outcome \in {"accepted", "unexpected"}, Answer("payment", i, outcome),
             DOMAIN orders' = DOMAIN orders,
             \A k \in DOMAIN orders : orders'[k] \in OrderRow /\ orders'[k].sale = orders[k].sale,
             \A k \in DOMAIN orders : k # KeyOf(i) => orders'[k] = orders[k]
      PROVE  BaselineInv'
  <2>1. /\ Numbered' /\ RequestsAreOwn' /\ DOMAIN its' = DOMAIN its /\ ~Done(i)
        /\ \A j \in DOMAIN its : j # i => its'[j] = its[j]
        /\ its'[i].outcome = "held"
    BY <1>1, <1>2, <1>3
  <2> QED BY <1>0, <1>1, <1>3, <2>1, OneChanges
<1>4. CASE /\ orders' = [orders EXCEPT ![KeyOf(i)].status = "paying"]
           /\ Answer("payment", i, "accepted")
  <2>1. /\ DOMAIN orders' = DOMAIN orders
        /\ \A k \in DOMAIN orders : k # KeyOf(i) => orders'[k] = orders[k]
        /\ orders'[KeyOf(i)] \in OrderRow /\ orders'[KeyOf(i)].sale = orders[KeyOf(i)].sale
    BY <1>1, <1>4 DEF OrderRow, Statuses
  <2>2. \A k \in DOMAIN orders : orders'[k] \in OrderRow /\ orders'[k].sale = orders[k].sale
    BY <1>1, <2>1
  <2> QED BY <1>3, <1>4, <2>1, <2>2
<1>5. CASE Answer("payment", i, "unexpected") /\ UNCHANGED orders
  BY <1>1, <1>3, <1>5
<1> QED BY <1>4, <1>5 DEF ServePayment

\* Who hears nothing is not done, as the check of the load will see.
LEMMA TimeOutKeeps ==
  ASSUME BaselineInv, NEW i, TimeOut(i)
  PROVE  BaselineInv'
<1>0. /\ Records /\ i \in DOMAIN its /\ its[i].stage # "ended" /\ its[i] \in ItRow
      /\ UNCHANGED <<measured, phase, stock, left, dropped, asked, orders>>
  BY DEF BaselineInv, Records, Numbered, TimeOut
<1> DEFINE after == IF its[i].stage = "buying"
                    THEN [its[i] EXCEPT !.outcome = "unexpected", !.stage = "ended"]
                    ELSE [its[i] EXCEPT !.payment = "unexpected", !.stage = "ended"]
<1>1. its' = With(its, i, after)
  BY DEF TimeOut, Set
<1>2. /\ after \in ItRow /\ after.stage = "ended"
      /\ its[i].stage = "buying" => after.outcome = "unexpected"
      /\ its[i].stage # "buying" => after.outcome = its[i].outcome /\ after.payment = "unexpected"
  BY <1>0 DEF ItRow
<1> HIDE DEF after
<1>3. /\ DOMAIN its' = DOMAIN its /\ its'[i] = after
      /\ \A j \in DOMAIN its : j # i => its'[j] = its[j]
  BY <1>0, <1>1 DEF With
<1>4. Numbered'
  <2>1. \A j \in DOMAIN its : its'[j] \in ItRow
    BY <1>0, <1>2, <1>3 DEF Records, Numbered
  <2> QED BY <1>0, <1>3, <2>1, SameIterations DEF Records
<1>5. RequestsAreOwn'
  <2>1. /\ <<"purchase", i>> \in asked => its'[i].outcome = "unexpected"
        /\ <<"payment", i>> \in asked => its'[i].outcome = "held" /\ its'[i].payment = "unexpected"
    BY <1>0, <1>2, <1>3 DEF Records, RequestsAreOwn
  <2> QED BY <1>0, <1>2, <1>3, <2>1 DEF Records, RequestsAreOwn
<1>6. /\ its'[i].outcome = "held" => KeyOf(i) \in DOMAIN orders
      /\ its'[i].outcome = "business_rejected" => its[i].outcome = "business_rejected" \/ Refuses(i)
  BY <1>0, <1>2, <1>3 DEF Records, OrdersAreOwn
<1>7. ~Done(i) /\ \A k \in DOMAIN orders : orders[k] \in OrderRow
  BY <1>0 DEF Done, Records, OrdersAreOwn
<1> QED BY <1>0, <1>3, <1>4, <1>5, <1>6, <1>7, OneChanges

\* An order that is not confirmed yet moves on.
LEMMA OrderMoves ==
  ASSUME BaselineInv, UNCHANGED <<measured, phase, stock, its, dropped, asked>>,
         NEW k \in DOMAIN orders, orders[k].status # "confirmed", NEW status \in Statuses,
         orders' = [orders EXCEPT ![k].status = status],
         left' \in [Sales -> Int], left'["measured"] >= left["measured"]
  PROVE  BaselineInv'
<1>0. Records /\ StockCovers /\ ChecksHold /\ Numbered /\ OrdersAreOwn /\ RequestsAreOwn
  BY DEF BaselineInv, Records
<1>1. /\ Numbered' /\ \A j : SaleOf(j)' = SaleOf(j)
      /\ Started("capacity")' = Started("capacity") /\ Of("measured")' = Of("measured")
  <2>1. \A j \in DOMAIN its : its'[j] \in ItRow
    BY <1>0 DEF Numbered
  <2> QED BY <1>0, <2>1, SameIterations
<1>2. /\ DOMAIN orders' = DOMAIN orders
      /\ \A x \in DOMAIN orders : orders'[x] \in OrderRow /\ orders'[x].sale = orders[x].sale
      /\ \A x \in DOMAIN orders : x # k => orders'[x] = orders[x]
  <2>1. \A x \in DOMAIN orders : orders[x] \in OrderRow
    BY <1>0 DEF OrdersAreOwn
  <2>2. orders'[k] \in OrderRow /\ orders'[k].sale = orders[k].sale
    BY <2>1 DEF OrderRow
  <2> QED BY <2>1, <2>2
<1>3. OrdersAreOwn' /\ OrdersOf("measured")' = OrdersOf("measured")
  BY <1>0, <1>1, <1>2, SameOrders
<1>4. RequestsAreOwn'
  BY <1>0 DEF RequestsAreOwn
<1>5. Records'
  BY <1>1, <1>3, <1>4 DEF Records
<1>6. StockCovers'
  <2>1. measured = "capacity" => StockLasts' /\ Started("capacity")' <= Rate + 1
    BY <1>0, <1>1 DEF StockCovers, StockLasts
  <2>2. Cardinality(OrdersOf("measured")) \in Nat /\ dropped' \in Nat
    BY <1>0, OrdersFinite DEF Sales, StockCovers
  <2> QED BY <1>0, <1>3, <2>1, <2>2, StockStays
<1>7. ChecksHold'
  <2>1. \A j \in DOMAIN its : Done(j) => j \in DOMAIN its' /\ its'[j] = its[j]
    OBVIOUS
  <2>2. \A j \in DOMAIN its' : j \in DOMAIN its \/ (phase \in Sales /\ SaleOf(j) = phase)
    OBVIOUS
  <2>3. \A x \in DOMAIN orders' :
          \/ x \in DOMAIN orders /\ orders'[x] = orders[x]
          \/ x \in DOMAIN orders /\ orders[x].status # "confirmed" /\ orders'[x].sale = orders[x].sale
          \/ \E j \in DOMAIN its : x = KeyOf(j) /\ ~Done(j)
    BY <1>2
  <2> QED BY <1>0, <1>5, <2>1, <2>2, <2>3, ChecksStay
<1> QED BY <1>5, <1>6, <1>7 DEF BaselineInv

\* A payment that succeeds or comes too late, and a hold that lapses.
LEMMA OrderKeeps ==
  ASSUME BaselineInv,
         \/ \E k \in DOMAIN orders : Confirm(k) \/ FailPayment(k)
         \/ \E i \in AllIterations : Lapse(i)
  PROVE  BaselineInv'
<1>0. left \in [Sales -> Int] /\ left["measured"] \in Int
  BY DEF BaselineInv, StockCovers, Sales
<1>1. ASSUME NEW k \in DOMAIN orders, Confirm(k)
      PROVE  BaselineInv'
  <2>1. /\ UNCHANGED <<measured, phase, stock, its, dropped, asked>> /\ left' = left
        /\ orders[k].status # "confirmed" /\ orders' = [orders EXCEPT ![k].status = "confirmed"]
    BY <1>1 DEF Confirm
  <2>2. "confirmed" \in Statuses /\ left' \in [Sales -> Int] /\ left'["measured"] >= left["measured"]
    BY <1>0, <2>1 DEF Statuses
  <2> QED BY <2>1, <2>2, OrderMoves
<1>2. ASSUME NEW i \in AllIterations, Lapse(i)
      PROVE  BaselineInv'
  <2>1. /\ UNCHANGED <<measured, phase, stock, its, dropped, asked>>
        /\ KeyOf(i) \in DOMAIN orders /\ orders[KeyOf(i)].status # "confirmed"
        /\ orders' = [orders EXCEPT ![KeyOf(i)].status = "expired"]
        /\ left' = [left EXCEPT ![SaleOf(i)] = @ + 1]
    BY <1>2 DEF Lapse
  <2>2. "expired" \in Statuses /\ SaleOf(i) \in Sales
    BY SaleOfIs DEF Statuses, Sales
  <2>3. left' \in [Sales -> Int] /\ left'["measured"] >= left["measured"]
    BY <1>0, <2>1, <2>2 DEF Sales
  <2> QED BY <2>1, <2>2, <2>3, OrderMoves
<1>3. ASSUME NEW k \in DOMAIN orders, FailPayment(k)
      PROVE  BaselineInv'
  <2>1. orders[k].status # "confirmed" /\ UNCHANGED <<measured, phase, stock, its, dropped, asked>>
    BY <1>3 DEF FailPayment
  <2>2. CASE orders' = [orders EXCEPT ![k].status = "held"] /\ left' = left
    <3>1. "held" \in Statuses /\ left' \in [Sales -> Int] /\ left'["measured"] >= left["measured"]
      BY <1>0, <2>2 DEF Statuses
    <3> QED BY <2>1, <2>2, <3>1, OrderMoves
  <2>3. CASE /\ orders' = [orders EXCEPT ![k].status = "expired"]
             /\ left' = [left EXCEPT ![orders[k].sale] = @ + 1]
    <3>1. "expired" \in Statuses /\ orders[k].sale \in Sales
      BY DEF BaselineInv, Records, OrdersAreOwn, OrderRow, Statuses
    <3>2. left' \in [Sales -> Int] /\ left'["measured"] >= left["measured"]
      BY <1>0, <2>3, <3>1 DEF Sales
    <3> QED BY <2>1, <2>3, <3>1, <3>2, OrderMoves
  <2> QED BY <1>3, <2>2, <2>3 DEF FailPayment
<1> QED BY <1>1, <1>2, <1>3

-----------------------------------------------------------------------------
(* The checks *)

\* As many orders, and as many confirmed, as were heard of: then all of them are confirmed.
LEMMA AllAreConfirmed ==
  ASSUME Records, NEW sale \in Sales, StateMatches(sale)
  PROVE  \A k \in OrdersOf(sale) : orders[k].status = "confirmed"
<1>1. IsFiniteSet(OrdersOf(sale)) /\ ConfirmedOf(sale) \in SUBSET OrdersOf(sale)
  BY OrdersFinite DEF ConfirmedOf
<1>2. Cardinality(OrdersOf(sale)) = Cardinality(ConfirmedOf(sale))
  BY DEF StateMatches
<1>3. OrdersOf(sale) = ConfirmedOf(sale)
  BY <1>1, <1>2, FS_Subset
<1> QED BY <1>3 DEF ConfirmedOf

\* Nothing but the phase, and what was dropped in a load that is over, has changed.
LEMMA RecordsStay ==
  ASSUME Records, StockCovers, UNCHANGED <<measured, stock, left, its, asked, orders>>, dropped' \in Nat
  PROVE  /\ Records' /\ StockCovers'
         /\ \A sale : Of(sale)' = Of(sale) /\ OrdersOf(sale)' = OrdersOf(sale)
<1>1. /\ \A i : SaleOf(i)' = SaleOf(i) /\ AllIterations' = AllIterations
      /\ \A name : Started(name)' = Started(name)
  BY SaleOfStays DEF Started
<1>2. \A sale : Of(sale)' = Of(sale) /\ OrdersOf(sale)' = OrdersOf(sale)
  BY <1>1 DEF Of, OrdersOf
<1>3. Records'
  BY <1>1 DEF Records, Numbered, RequestsAreOwn, OrdersAreOwn, KeyOf, User, OrderRow, Sales
<1>4. StockCovers'
  BY <1>1, <1>2 DEF StockCovers, EnoughStock, StockLasts, Sales
<1> QED BY <1>2, <1>3, <1>4

\* What the experiment goes on from.
LEMMA PhaseKeeps ==
  ASSUME BaselineInv, EndWarmup \/ CheckWarmup \/ EndMeasured \/ Judge
  PROVE  BaselineInv'
<1>0. /\ Records /\ StockCovers /\ ChecksHold /\ dropped' \in Nat
      /\ UNCHANGED <<measured, stock, left, its, asked, orders>>
  BY DEF BaselineInv, StockCovers, EndWarmup, CheckWarmup, EndMeasured, Judge
<1>1. /\ Records' /\ StockCovers'
      /\ \A sale : Of(sale)' = Of(sale) /\ OrdersOf(sale)' = OrdersOf(sale)
  BY <1>0, RecordsStay
<1>4. "warmup" \in Sales /\ "measured" \in Sales
  BY DEF Sales
<1>5. ChecksHold'
  <2>1. CASE EndWarmup
    <3>1. phase' = "failed" \/ (phase' = "check" /\ \A i \in Of("warmup") : Done(i))
      BY <2>1 DEF EndWarmup, AllEnded, WarmupThresholds, Unexpected, Done
    <3> QED BY <1>0, <1>1, <3>1 DEF ChecksHold, Done
  <2>2. CASE CheckWarmup
    <3>1. phase = "check" /\ (phase' = "failed" \/ (phase' = "measured" /\ StateMatches("warmup")))
      BY <2>2 DEF CheckWarmup
    <3>2. phase' = "measured" => \A k \in OrdersOf("warmup") : orders[k].status = "confirmed"
      BY <1>0, <1>4, <3>1, AllAreConfirmed
    <3> QED BY <1>0, <1>1, <3>1, <3>2 DEF ChecksHold, Done
  <2>3. CASE EndMeasured
    <3>1. /\ phase = "measured" /\ phase' \in {"drain", "failed"}
          /\ phase' = "drain" /\ measured = "capacity" =>
               \A i \in Of("measured") : Done(i) /\ its[i].outcome = "held"
      BY <2>3 DEF EndMeasured, AllEnded, CapacityThresholds, Unexpected, Rejections, Done
    <3> QED BY <1>0, <1>1, <3>1 DEF ChecksHold, Done
  <2>4. CASE Judge
    <3>1. /\ phase = "drain" /\ phase' \in {"collected", "failed"}
          /\ phase' = "collected" /\ measured = "capacity" => StateMatches("measured")
      BY <2>4 DEF Judge
    <3>2. phase' = "collected" /\ measured = "capacity" =>
            \A k \in OrdersOf("measured") : orders[k].status = "confirmed"
      BY <1>0, <1>4, <3>1, AllAreConfirmed
    <3> QED BY <1>0, <1>1, <3>1, <3>2 DEF ChecksHold, Done
  <2> QED BY <2>1, <2>2, <2>3, <2>4
<1> QED BY <1>1, <1>5 DEF BaselineInv

-----------------------------------------------------------------------------
(* Every step *)

\* An empty database, and stock for all that come.
LEMMA BaselineStarts == BaselineInit => BaselineInv
<1> SUFFICES ASSUME BaselineInit PROVE BaselineInv
  OBVIOUS
<1>1. /\ measured \in Measured /\ phase = "warmup" /\ dropped = 0
      /\ stock \in Nat /\ (measured = "capacity" => EnoughStock(stock))
      /\ asked = {} /\ DOMAIN its = {} /\ DOMAIN orders = {}
  BY BaselineAssumption DEF BaselineInit
<1>2. left \in [Sales -> Int] /\ (measured = "capacity" => left["measured"] = stock)
  BY <1>1, BaselineAssumption DEF BaselineInit, CreateSale, Sales
<1>3. /\ \A name : Started(name) = 0
      /\ \A sale : Of(sale) = {} /\ OrdersOf(sale) = {}
  <2>1. \A name : {i \in DOMAIN its : i[1] = name} = {}
    BY <1>1
  <2> QED BY <1>1, <2>1, FS_EmptySet DEF Started, Of, OrdersOf
<1>4. Records
  BY <1>1, FS_EmptySet DEF Records, Numbered, RequestsAreOwn, OrdersAreOwn
<1>5. StockCovers
  <2>1. Cardinality(OrdersOf("measured")) = 0
    BY <1>3, FS_EmptySet
  <2> QED BY <1>1, <1>2, <1>3, <2>1, BaselineAssumption DEF StockCovers, StockLasts
<1>6. ChecksHold
  BY <1>1 DEF ChecksHold
<1> QED BY <1>4, <1>5, <1>6 DEF BaselineInv

\* Every step keeps the invariant.
LEMMA BaselineStep ==
  ASSUME BaselineInv, [BaselineNext]_baselineVars
  PROVE  BaselineInv'
<1>1. CASE BaselineNext
  BY <1>1, ArriveKeeps, ServePurchaseKeeps, ServePaymentKeeps, TimeOutKeeps, OrderKeeps, PhaseKeeps
     DEF BaselineNext
<1>2. CASE UNCHANGED baselineVars
  <2>1. Records /\ StockCovers /\ ChecksHold /\ UNCHANGED baselineVars /\ dropped' \in Nat
    BY <1>2 DEF BaselineInv, StockCovers, baselineVars
  <2>2. /\ Records' /\ StockCovers'
        /\ \A sale : Of(sale)' = Of(sale) /\ OrdersOf(sale)' = OrdersOf(sale)
    BY <2>1, RecordsStay DEF baselineVars
  <2>3. ChecksHold'
    BY <2>1, <2>2 DEF ChecksHold, Done, baselineVars
  <2> QED BY <2>2, <2>3 DEF BaselineInv
<1> QED BY <1>1, <1>2

\* The inductive invariant of an experiment on the baseline.
THEOREM BaselineInvariance == BaselineSpec => []BaselineInv
<1>1. BaselineInv /\ [BaselineNext]_baselineVars => BaselineInv'
  BY BaselineStep
<1> QED BY <1>1, BaselineStarts, PTL DEF BaselineSpec

\* An experiment measures what it says, for any rate and stock.
THEOREM ExperimentsMeasureFairly == BaselineSpec => []MeasuresFairly
<1>1. BaselineInv => MeasuresFairly
  BY InvIsFair
<1> QED BY <1>1, BaselineInvariance, PTL

-----------------------------------------------------------------------------
(* The first spike *)

SpikeRow == [stage : {"buying", "paying", "ended"},
             purchase : {"none", "held", "unexpected"}, payment : {"none", "held", "unexpected"}]
ServedRow == [at : Servers, step : {"queued", "locking", "working"}]

HasError(i) == "unexpected" \in {its[i].purchase, its[i].payment}
Finished(i) == its[i].stage = "ended" /\ ~HasError(i)

\* The iterations of a scenario are numbered as they come.
SpikeNumbered ==
  /\ IsFiniteSet(DOMAIN its)
  /\ \A i \in DOMAIN its :
       /\ its[i] \in SpikeRow
       /\ i = <<i[1], i[2]>> /\ i[1] \in {"warmup", "opening", "tail"}
       /\ i[2] \in Nat /\ i[2] < Cardinality(F!Started(i[1]))
       /\ load = "warmup" => i[1] = "warmup"

\* What an iteration knows of its order, and what the servers still have to do for it.
Agrees(i) ==
  /\ its[i].stage = "buying" => i \notin DOMAIN orders /\ <<"payment", i>> \notin DOMAIN served
  /\ its[i].stage = "paying" => i \in DOMAIN orders /\ orders[i] = "held"
  /\ its[i].stage = "ended" =>
       \/ HasError(i) \/ i \in failed
       \/ i \in DOMAIN orders /\ orders[i] \in {"paying", "confirmed"}
  /\ <<"purchase", i>> \in DOMAIN served =>
       i \notin DOMAIN orders /\ (its[i].stage = "buying" \/ its[i].purchase = "unexpected")
  /\ <<"payment", i>> \in DOMAIN served =>
       /\ i \in DOMAIN orders /\ orders[i] = "held"
       /\ its[i].stage = "paying" \/ its[i].payment = "unexpected"
  /\ i \in DOMAIN orders /\ orders[i] = "expired" =>
       its[i].stage = "ended" /\ (HasError(i) \/ i \in failed)

ServersAgree ==
  /\ \A r \in DOMAIN served :
       /\ served[r] \in ServedRow
       /\ \E i \in DOMAIN its : r = <<"purchase", i>> \/ r = <<"payment", i>>
  /\ DOMAIN orders \subseteq DOMAIN its
  /\ confirms # F!Nobody => confirms \in DOMAIN orders /\ orders[confirms] = "paying"

\* What the end of the load, and then the check of the warm-up, have found out.
SpikeChecksHold ==
  load = "warmup" =>
    /\ phase \in {"check", "passed"} => \A i \in DOMAIN its : Finished(i)
    /\ phase = "passed" => \A i \in DOMAIN orders : orders[i] = "confirmed"

SpikeInv ==
  /\ SpikeNumbered /\ ServersAgree /\ SpikeChecksHold
  /\ \A i \in DOMAIN its : Agrees(i)

-----------------------------------------------------------------------------

\* The instance counts as this module does.
LEMMA SpikeCounts == \A S : F!Cardinality(S) = Cardinality(S)
  BY DEF F!Cardinality, Cardinality

\* The one who has the row is not kept from its end, by the connections the others have or
\* by anything else.
LEMMA InvGetsOn ==
  ASSUME ServersAgree
  PROVE  F!SomeoneGetsOn
<1>1. SUFFICES ASSUME NEW r \in DOMAIN served, confirms = F!Nobody,
                      \A q \in DOMAIN served : ~F!Complete(q)
               PROVE  \E q \in DOMAIN served :
                        \/ served[q].step = "queued" /\ F!Free(served[q].at)
                        \/ served[q].step = "locking" /\ F!RowIsFree
  BY DEF F!SomeoneGetsOn
<1>2. F!RowIsFree
  BY <1>1 DEF F!RowIsFree, F!Complete
<1>3. \A q \in DOMAIN served : served[q].step \in {"queued", "locking"}
  BY <1>1 DEF ServersAgree, ServedRow, F!Complete
<1>4. CASE \E q \in DOMAIN served : served[q].step = "locking"
  BY <1>2, <1>4
<1>5. CASE \A q \in DOMAIN served : served[q].step = "queued"
  <2>1. F!Connected(served[r].at) = {}
    BY <1>5 DEF F!Connected
  <2>2. F!Free(served[r].at)
    BY <2>1, FS_EmptySet, SpikeAssumption, SpikeCounts DEF F!Free
  <2> QED BY <1>1, <1>5, <2>2
<1> QED BY <1>3, <1>4, <1>5

\* The invariant gives what the records should show.
LEMMA InvAgrees ==
  ASSUME SpikeInv
  PROVE  F!RecordsAgree
<1>1. F!ErrorsExplainExpiries
  BY DEF SpikeInv, ServersAgree, Agrees, HasError, F!ErrorsExplainExpiries
<1>2. F!PassedIsQuiet
  <2>1. SUFFICES ASSUME phase = "passed", load = "warmup"
                 PROVE  DOMAIN served = {} /\ \A i \in DOMAIN orders : orders[i] = "confirmed"
    BY DEF F!PassedIsQuiet
  <2>2. (\A i \in DOMAIN its : Finished(i)) /\ \A i \in DOMAIN orders : orders[i] = "confirmed"
    BY <2>1 DEF SpikeInv, SpikeChecksHold
  <2>3. ASSUME NEW i \in DOMAIN its
        PROVE  <<"purchase", i>> \notin DOMAIN served /\ <<"payment", i>> \notin DOMAIN served
    BY <2>2 DEF SpikeInv, Agrees, Finished, HasError
  <2> QED BY <2>2, <2>3 DEF SpikeInv, ServersAgree
<1> QED BY <1>1, <1>2, InvGetsOn DEF SpikeInv, F!RecordsAgree

\* What becomes of the invariant when one iteration, its requests and its order change.
LEMMA OneMoves ==
  ASSUME SpikeInv, UNCHANGED <<load, phase, confirms, failed>>, NEW i \in DOMAIN its, ~Finished(i),
         DOMAIN its' = DOMAIN its, its'[i] \in SpikeRow,
         \A j \in DOMAIN its : j # i => its'[j] = its[j],
         \A r \in DOMAIN served' : served'[r] \in ServedRow,
         \A r \in DOMAIN served' : r \in DOMAIN served \/ r = <<"payment", i>>,
         DOMAIN orders \subseteq DOMAIN orders', DOMAIN orders' \subseteq DOMAIN orders \cup {i},
         \A j \in DOMAIN orders : j # i => orders'[j] = orders[j],
         confirms = i => orders'[i] = "paying",
         Agrees(i)'
  PROVE  SpikeInv'
<1>0. SpikeNumbered /\ ServersAgree /\ SpikeChecksHold
  BY DEF SpikeInv
<1>1. SpikeNumbered'
  <2>1. \A name : F!Started(name)' = F!Started(name)
    BY DEF F!Started
  <2>2. \A j \in DOMAIN its : its'[j] \in SpikeRow
    BY <1>0 DEF SpikeNumbered
  <2> QED BY <1>0, <2>1, <2>2 DEF SpikeNumbered
<1>2. ServersAgree'
  <2>1. \A r \in DOMAIN served' : \E j \in DOMAIN its : r = <<"purchase", j>> \/ r = <<"payment", j>>
    BY <1>0 DEF ServersAgree
  <2>2. confirms # F!Nobody => confirms \in DOMAIN orders' /\ orders'[confirms] = "paying"
    BY <1>0 DEF ServersAgree
  <2>3. DOMAIN orders' \subseteq DOMAIN its
    BY <1>0 DEF ServersAgree
  <2> QED BY <2>1, <2>2, <2>3 DEF ServersAgree, F!Nobody
<1>3. SpikeChecksHold'
  BY <1>0 DEF SpikeChecksHold
<1>4. ASSUME NEW j \in DOMAIN its, j # i
      PROVE  Agrees(j)'
  <2>1. /\ Agrees(j) /\ its'[j] = its[j]
        /\ <<"purchase", j>> \in DOMAIN served' => <<"purchase", j>> \in DOMAIN served
        /\ <<"payment", j>> \in DOMAIN served' => <<"payment", j>> \in DOMAIN served
        /\ j \in DOMAIN orders' <=> j \in DOMAIN orders
        /\ j \in DOMAIN orders => orders'[j] = orders[j]
    BY <1>4 DEF SpikeInv
  <2> QED BY <2>1 DEF Agrees, HasError
<1> QED BY <1>1, <1>2, <1>3, <1>4 DEF SpikeInv

\* What an answer does: to the iteration, if it still waits, and to the requests.
LEMMA AnswerMoves ==
  ASSUME SpikeInv, NEW i \in DOMAIN its, NEW r \in DOMAIN served,
         r = <<"purchase", i>> \/ r = <<"payment", i>>,
         NEW outcome \in {"held", "unexpected"}, F!Answer(r, outcome)
  PROVE  /\ DOMAIN its' = DOMAIN its /\ its'[i] \in SpikeRow
         /\ \A j \in DOMAIN its : j # i => its'[j] = its[j]
         /\ \A q \in DOMAIN served' :
              served'[q] \in ServedRow /\ (q \in DOMAIN served \/ q = <<"payment", i>>)
         /\ <<"purchase", i>> \notin DOMAIN served' \/ r # <<"purchase", i>>
         /\ <<"payment", i>> \notin DOMAIN served' \/ r # <<"payment", i>>
         /\ \/ /\ r = <<"purchase", i>> /\ its[i].stage = "buying" /\ outcome = "held"
               /\ its'[i].stage = "paying"
            \/ /\ r = <<"purchase", i>> /\ its[i].stage = "buying" /\ outcome # "held"
               /\ its'[i].stage = "ended" /\ its'[i].purchase = outcome
               /\ DOMAIN served' \subseteq DOMAIN served
            \/ /\ r = <<"payment", i>> /\ its[i].stage = "paying" /\ its'[i].stage = "ended"
               /\ its'[i].payment = outcome /\ DOMAIN served' \subseteq DOMAIN served
            \/ /\ its[i].stage = "ended" /\ its'[i] = its[i]
               /\ DOMAIN served' \subseteq DOMAIN served
<1> DEFINE row == its[i]
<1>0. /\ row \in SpikeRow /\ r[2] = i /\ (r[1] = "purchase" <=> r = <<"purchase", i>>)
      /\ (r[1] = "payment" <=> r = <<"payment", i>>)
      /\ \A q \in DOMAIN served : served[q] \in ServedRow
  BY DEF SpikeInv, SpikeNumbered, ServersAgree
<1>1. CASE /\ r[1] = "purchase" /\ its[i].stage = "buying" /\ outcome = "held"
           /\ F!Ask("payment", i)
           /\ its' = [its EXCEPT ![i].purchase = outcome, ![i].stage = "paying"]
  <2>1. PICK api \in Servers :
          served' = F!With(F!Without(served, <<"purchase", i>>), <<"payment", i>>,
                         [at |-> api, step |-> "queued"])
    BY <1>1 DEF F!Ask
  <2>2. \A q \in DOMAIN served' :
          /\ served'[q] \in ServedRow /\ (q \in DOMAIN served \/ q = <<"payment", i>>)
          /\ q # <<"purchase", i>>
    BY <1>0, <2>1 DEF F!With, F!Without, ServedRow
  <2>3. /\ DOMAIN its' = DOMAIN its /\ (\A j \in DOMAIN its : j # i => its'[j] = its[j])
        /\ its'[i].stage = "paying" /\ its'[i] \in SpikeRow
    BY <1>0, <1>1 DEF SpikeRow
  <2> QED BY <1>0, <1>1, <2>2, <2>3
<1>2. CASE /\ r[1] = "purchase" /\ its[i].stage = "buying"
           /\ outcome # "held" /\ served' = F!Without(served, r)
           /\ its' = [its EXCEPT ![i].purchase = outcome, ![i].stage = "ended"]
  <2>1. \A q \in DOMAIN served' : served'[q] \in ServedRow /\ q \in DOMAIN served /\ q # r
    BY <1>0, <1>2 DEF F!Without
  <2>2. /\ DOMAIN its' = DOMAIN its /\ (\A j \in DOMAIN its : j # i => its'[j] = its[j])
        /\ its'[i].stage = "ended" /\ its'[i].purchase = outcome /\ its'[i] \in SpikeRow
    BY <1>0, <1>2 DEF SpikeRow
  <2> QED BY <1>0, <1>2, <2>1, <2>2
<1>3. CASE /\ r[1] = "payment" /\ its[i].stage = "paying" /\ served' = F!Without(served, r)
           /\ its' = [its EXCEPT ![i].payment = outcome, ![i].stage = "ended"]
  <2>1. \A q \in DOMAIN served' : served'[q] \in ServedRow /\ q \in DOMAIN served /\ q # r
    BY <1>0, <1>3 DEF F!Without
  <2>2. /\ DOMAIN its' = DOMAIN its /\ (\A j \in DOMAIN its : j # i => its'[j] = its[j])
        /\ its'[i].stage = "ended" /\ its'[i].payment = outcome /\ its'[i] \in SpikeRow
    BY <1>0, <1>3 DEF SpikeRow
  <2> QED BY <1>0, <1>3, <2>1, <2>2
<1>4. CASE its[i].stage = "ended" /\ served' = F!Without(served, r) /\ UNCHANGED its
  <2>1. \A q \in DOMAIN served' : served'[q] \in ServedRow /\ q \in DOMAIN served /\ q # r
    BY <1>0, <1>4 DEF F!Without
  <2> QED BY <1>0, <1>4, <2>1
<1> QED BY <1>0, <1>1, <1>2, <1>3, <1>4 DEF F!Answer

\* A request at a server is for an iteration that is not known to be well.
LEMMA RequestsOpen ==
  ASSUME SpikeInv, NEW r \in DOMAIN served
  PROVE  \E i \in DOMAIN its :
           /\ r = <<"purchase", i>> \/ r = <<"payment", i>>
           /\ r[2] = i /\ (r[1] = "purchase" <=> r = <<"purchase", i>>)
           /\ ~Finished(i) /\ confirms # i
<1>1. PICK i \in DOMAIN its : r = <<"purchase", i>> \/ r = <<"payment", i>>
  BY DEF SpikeInv, ServersAgree
<1>2. Agrees(i) /\ ServersAgree /\ i[1] # ""
  BY DEF SpikeInv, SpikeNumbered
<1>3. ~Finished(i)
  BY <1>1, <1>2 DEF Agrees, Finished, HasError
<1>4. confirms # i
  <2>1. F!Nobody[1] = ""
    BY DEF F!Nobody
  <2>2. i # F!Nobody
    BY <1>2, <2>1
  <2> QED BY <1>1, <1>2, <2>2 DEF Agrees, ServersAgree
<1> QED BY <1>1, <1>3, <1>4

\* A transaction that commits makes the order that its request asked for, and no other.
LEMMA CommitKeeps ==
  ASSUME SpikeInv, NEW r \in DOMAIN served, F!Commit(r)
  PROVE  SpikeInv'
<1>1. PICK i \in DOMAIN its :
        /\ r = <<"purchase", i>> \/ r = <<"payment", i>>
        /\ r[2] = i /\ (r[1] = "purchase" <=> r = <<"purchase", i>>)
        /\ ~Finished(i) /\ confirms # i
  BY RequestsOpen
<1>2. F!Answer(r, "held") /\ UNCHANGED <<load, phase, confirms, failed>>
  BY DEF F!Commit
<1>3. /\ DOMAIN orders' = DOMAIN orders \cup {i}
      /\ \A j \in DOMAIN orders : j # i => orders'[j] = orders[j]
      /\ r = <<"purchase", i>> => orders'[i] = "held"
      /\ r = <<"payment", i>> => orders'[i] = "paying"
  BY <1>1 DEF F!Commit, F!Made, F!With
<1>4. Agrees(i) /\ its[i] \in SpikeRow
  BY DEF SpikeInv, SpikeNumbered
<1>5. /\ DOMAIN its' = DOMAIN its /\ its'[i] \in SpikeRow
      /\ \A j \in DOMAIN its : j # i => its'[j] = its[j]
      /\ \A q \in DOMAIN served' :
           served'[q] \in ServedRow /\ (q \in DOMAIN served \/ q = <<"payment", i>>)
      /\ <<"purchase", i>> \notin DOMAIN served' \/ r # <<"purchase", i>>
      /\ <<"payment", i>> \notin DOMAIN served' \/ r # <<"payment", i>>
      /\ \/ /\ r = <<"purchase", i>> /\ its[i].stage = "buying" /\ its'[i].stage = "paying"
         \/ /\ r = <<"payment", i>> /\ its[i].stage = "paying" /\ its'[i].stage = "ended"
            /\ DOMAIN served' \subseteq DOMAIN served
         \/ /\ its[i].stage = "ended" /\ its'[i] = its[i]
            /\ DOMAIN served' \subseteq DOMAIN served
  BY <1>1, <1>2, AnswerMoves
<1>6. Agrees(i)'
  <2>1. CASE r = <<"purchase", i>> /\ its[i].stage = "buying" /\ its'[i].stage = "paying"
    <3>1. <<"purchase", i>> \notin DOMAIN served'
      BY <1>5, <2>1
    <3> QED BY <1>3, <2>1, <3>1 DEF Agrees
  <2>2. CASE /\ r = <<"payment", i>> /\ its[i].stage = "paying" /\ its'[i].stage = "ended"
             /\ DOMAIN served' \subseteq DOMAIN served
    <3>1. <<"payment", i>> \notin DOMAIN served' /\ <<"purchase", i>> \notin DOMAIN served'
      BY <1>4, <1>5, <2>2 DEF Agrees
    <3> QED BY <1>3, <2>2, <3>1 DEF Agrees
  <2>3. CASE its[i].stage = "ended" /\ its'[i] = its[i] /\ DOMAIN served' \subseteq DOMAIN served
    <3>1. HasError(i) /\ HasError(i)'
      BY <1>1, <2>3 DEF Finished, HasError
    <3>2. <<"payment", i>> \notin DOMAIN served' /\ <<"purchase", i>> \notin DOMAIN served'
      BY <1>1, <1>4, <1>5, <2>3 DEF Agrees
    <3> QED BY <1>3, <2>3, <3>1, <3>2 DEF Agrees
  <2> QED BY <1>5, <2>1, <2>2, <2>3
<1> QED BY <1>1, <1>2, <1>3, <1>5, <1>6, OneMoves

\* A request that is given up leaves the order as it is; who waits for it meets an error.
LEMMA GiveUpKeeps ==
  ASSUME SpikeInv, NEW r \in DOMAIN served, F!GiveUp(r)
  PROVE  SpikeInv'
<1>1. PICK i \in DOMAIN its :
        /\ r = <<"purchase", i>> \/ r = <<"payment", i>>
        /\ r[2] = i /\ (r[1] = "purchase" <=> r = <<"purchase", i>>)
        /\ ~Finished(i) /\ confirms # i
  BY RequestsOpen
<1>2. F!Answer(r, "unexpected") /\ UNCHANGED <<load, phase, confirms, orders, failed>>
  BY DEF F!GiveUp, F!RolledBack
<1>3. Agrees(i) /\ its[i] \in SpikeRow
  BY DEF SpikeInv, SpikeNumbered
<1>4. /\ DOMAIN its' = DOMAIN its /\ its'[i] \in SpikeRow
      /\ \A j \in DOMAIN its : j # i => its'[j] = its[j]
      /\ \A q \in DOMAIN served' :
           served'[q] \in ServedRow /\ (q \in DOMAIN served \/ q = <<"payment", i>>)
      /\ <<"purchase", i>> \notin DOMAIN served' \/ r # <<"purchase", i>>
      /\ <<"payment", i>> \notin DOMAIN served' \/ r # <<"payment", i>>
      /\ DOMAIN served' \subseteq DOMAIN served
      /\ \/ /\ r = <<"purchase", i>> /\ its[i].stage = "buying" /\ its'[i].stage = "ended"
            /\ its'[i].purchase = "unexpected"
         \/ /\ r = <<"payment", i>> /\ its[i].stage = "paying" /\ its'[i].stage = "ended"
            /\ its'[i].payment = "unexpected"
         \/ its[i].stage = "ended" /\ its'[i] = its[i]
  BY <1>1, <1>2, AnswerMoves
<1>5. Agrees(i)'
  <2>1. CASE /\ r = <<"purchase", i>> /\ its[i].stage = "buying" /\ its'[i].stage = "ended"
             /\ its'[i].purchase = "unexpected"
    <3>1. <<"payment", i>> \notin DOMAIN served' /\ i \notin DOMAIN orders
      BY <1>3, <1>4, <2>1 DEF Agrees
    <3> QED BY <1>2, <2>1, <3>1 DEF Agrees, HasError
  <2>2. CASE /\ r = <<"payment", i>> /\ its[i].stage = "paying" /\ its'[i].stage = "ended"
             /\ its'[i].payment = "unexpected"
    <3>1. /\ <<"payment", i>> \notin DOMAIN served' /\ <<"purchase", i>> \notin DOMAIN served'
          /\ i \in DOMAIN orders /\ orders[i] = "held"
      BY <1>3, <1>4, <2>2 DEF Agrees
    <3> QED BY <1>2, <2>2, <3>1 DEF Agrees, HasError
  <2>3. CASE its[i].stage = "ended" /\ its'[i] = its[i]
    BY <1>2, <1>3, <1>4, <2>3 DEF Agrees, HasError
  <2> QED BY <1>4, <2>1, <2>2, <2>3
<1> QED BY <1>1, <1>2, <1>4, <1>5, OneMoves

\* A script that hears nothing within five seconds has met an error; its request goes on.
LEMMA HearsNothingKeeps ==
  ASSUME SpikeInv, NEW i, F!HearsNothing(i)
  PROVE  SpikeInv'
<1>1. /\ i \in DOMAIN its /\ its[i].stage # "ended" /\ Agrees(i) /\ its[i] \in SpikeRow
      /\ UNCHANGED <<load, phase, served, orders, confirms, failed>> /\ ServersAgree
  BY DEF F!HearsNothing, SpikeInv, SpikeNumbered
<1>2. /\ DOMAIN its' = DOMAIN its /\ (\A j \in DOMAIN its : j # i => its'[j] = its[j])
      /\ its'[i] \in SpikeRow /\ its'[i].stage = "ended"
      /\ \/ its[i].stage = "buying" /\ its'[i].purchase = "unexpected"
         \/ its[i].stage = "paying" /\ its'[i].payment = "unexpected"
  <2>1. CASE its[i].stage = "buying"
    BY <1>1, <2>1 DEF F!HearsNothing, SpikeRow
  <2>2. CASE its[i].stage = "paying"
    BY <1>1, <2>2 DEF F!HearsNothing, SpikeRow
  <2> QED BY <1>1, <2>1, <2>2 DEF SpikeRow
<1>3. Agrees(i)'
  BY <1>1, <1>2 DEF Agrees, HasError
<1>4. ~Finished(i) /\ confirms # i
  <2>1. its[i].stage \in {"buying", "paying"}
    BY <1>1 DEF SpikeRow
  <2>2. i # F!Nobody
    <3>1. F!Nobody[1] = "" /\ i[1] # ""
      BY <1>1 DEF SpikeInv, SpikeNumbered, F!Nobody
    <3> QED BY <3>1
  <2> QED BY <1>1, <2>1, <2>2 DEF Agrees, ServersAgree, Finished
<1>5. \A r \in DOMAIN served : served[r] \in ServedRow
  BY <1>1 DEF ServersAgree
<1> QED BY <1>1, <1>2, <1>3, <1>4, <1>5, OneMoves

\* An arrival that finds a virtual user begins an iteration with a number that none had.
LEMMA SpikeArriveKeeps ==
  ASSUME SpikeInv, NEW name \in {"warmup", "opening", "tail"}, F!Arrive(name)
  PROVE  SpikeInv'
<1>0. /\ phase = "load" /\ name \in F!Scenarios /\ UNCHANGED <<load, phase, orders, confirms, failed>>
      /\ SpikeNumbered /\ ServersAgree
  BY DEF F!Arrive, SpikeInv
<1>1. CASE UNCHANGED <<its, served>>
  <2>1. \A n : F!Started(n)' = F!Started(n)
    BY <1>1 DEF F!Started
  <2>2. \A i \in DOMAIN its : Agrees(i)'
    BY <1>0, <1>1 DEF SpikeInv, Agrees, HasError
  <2>3. SpikeNumbered' /\ ServersAgree' /\ SpikeChecksHold'
    BY <1>0, <1>1, <2>1 DEF SpikeNumbered, ServersAgree, SpikeChecksHold, F!Nobody
  <2> QED BY <1>1, <2>2, <2>3 DEF SpikeInv
<1>2. ASSUME NEW n, n = Cardinality(F!Started(name)), NEW i, i = <<name, n>>,
             its' = F!With(its, i, [stage |-> "buying", purchase |-> "none", payment |-> "none"]),
             F!Ask("purchase", i)
      PROVE  SpikeInv'
  <2>1. IsFiniteSet(F!Started(name)) /\ n \in Nat
    <3>1. F!Started(name) \in SUBSET DOMAIN its
      BY DEF F!Started
    <3> QED BY <1>0, <1>2, <3>1, FS_Subset, FS_CardinalityType DEF SpikeNumbered
  <2>2. i[1] = name /\ i[2] = n /\ i \notin DOMAIN its
    <3>1. i[1] = name /\ i[2] = n
      BY <1>2
    <3>2. i \in DOMAIN its => i[2] < n
      BY <1>0, <1>2, <3>1 DEF SpikeNumbered
    <3>3. ~(n < n)
      BY <2>1
    <3> QED BY <3>1, <3>2, <3>3
  <2>3. /\ DOMAIN its' = DOMAIN its \cup {i} /\ its'[i] \in SpikeRow /\ its'[i].stage = "buying"
        /\ \A j \in DOMAIN its : its'[j] = its[j]
    BY <1>2, <2>2 DEF F!With, SpikeRow
  <2>4. F!Started(name)' = F!Started(name) \cup {i} /\ i \notin F!Started(name)
    BY <2>2, <2>3 DEF F!Started
  <2>5. Cardinality(F!Started(name)') = n + 1
    BY <1>2, <2>1, <2>4, FS_AddElement
  <2>6. \A other : other # name => F!Started(other)' = F!Started(other)
    BY <2>2, <2>3 DEF F!Started
  <2>7. SpikeNumbered'
    <3>1. IsFiniteSet(DOMAIN its')
      BY <1>0, <2>3, FS_AddElement DEF SpikeNumbered
    <3>2. /\ i = <<i[1], i[2]>> /\ i[2] \in Nat /\ i[2] < Cardinality(F!Started(i[1])')
          /\ load = "warmup" => i[1] = "warmup"
      <4>1. n < n + 1
        BY <2>1
      <4>2. load = "warmup" => name = "warmup"
        BY <1>0 DEF F!Scenarios
      <4> QED BY <1>2, <2>1, <2>2, <2>5, <4>1, <4>2
    <3>3. ASSUME NEW j \in DOMAIN its
          PROVE  j[2] < Cardinality(F!Started(j[1])')
      <4>1. j[2] \in Nat /\ j[2] < Cardinality(F!Started(j[1]))
        BY <1>0 DEF SpikeNumbered
      <4>2. CASE j[1] = name
        <5>1. j[2] < n
          BY <1>2, <4>1, <4>2
        <5>2. j[2] < n + 1
          BY <2>1, <4>1, <5>1
        <5> QED BY <2>5, <4>2, <5>2
      <4>3. CASE j[1] # name
        BY <2>6, <4>1, <4>3
      <4> QED BY <4>2, <4>3
    <3>4. \A j \in DOMAIN its :
            /\ its'[j] \in SpikeRow
            /\ j = <<j[1], j[2]>> /\ j[1] \in {"warmup", "opening", "tail"} /\ j[2] \in Nat
            /\ load = "warmup" => j[1] = "warmup"
      BY <1>0, <2>3 DEF SpikeNumbered
    <3>5. \A j \in DOMAIN its' :
            /\ its'[j] \in SpikeRow
            /\ j = <<j[1], j[2]>> /\ j[1] \in {"warmup", "opening", "tail"}
            /\ j[2] \in Nat /\ j[2] < Cardinality(F!Started(j[1])')
            /\ load' = "warmup" => j[1] = "warmup"
      BY <1>0, <2>2, <2>3, <3>2, <3>3, <3>4
    <3> QED BY <3>1, <3>5 DEF SpikeNumbered, SpikeRow
  <2>8. /\ \A r \in DOMAIN served' : served'[r] \in ServedRow
        /\ \A r \in DOMAIN served' : r \in DOMAIN served \/ r = <<"purchase", i>>
    BY <1>0, <1>2 DEF F!Ask, F!With, F!Without, ServersAgree, ServedRow
  <2>9. ServersAgree'
    <3>1. \A r \in DOMAIN served' : \E j \in DOMAIN its' : r = <<"purchase", j>> \/ r = <<"payment", j>>
      BY <1>0, <2>3, <2>8 DEF ServersAgree
    <3>2. DOMAIN orders \subseteq DOMAIN its'
      BY <1>0, <2>3 DEF ServersAgree
    <3> QED BY <1>0, <2>8, <3>1, <3>2 DEF ServersAgree, ServedRow, F!Nobody
  <2>10. Agrees(i)'
    <3>1. i \notin DOMAIN orders /\ <<"payment", i>> \notin DOMAIN served
      BY <1>0, <2>2 DEF ServersAgree
    <3> QED BY <1>0, <2>3, <2>8, <3>1 DEF Agrees
  <2>11. ASSUME NEW j \in DOMAIN its
         PROVE  Agrees(j)'
    <3>1. /\ Agrees(j) /\ its'[j] = its[j] /\ j # i
          /\ <<"purchase", j>> \in DOMAIN served' => <<"purchase", j>> \in DOMAIN served
          /\ <<"payment", j>> \in DOMAIN served' => <<"payment", j>> \in DOMAIN served
      BY <2>2, <2>3, <2>8 DEF SpikeInv
    <3> QED BY <1>0, <3>1 DEF Agrees, HasError
  <2>12. SpikeChecksHold'
    BY <1>0 DEF SpikeChecksHold
  <2> QED BY <2>3, <2>7, <2>9, <2>10, <2>11, <2>12 DEF SpikeInv
<1> QED BY <1>1, <1>2, SpikeCounts DEF F!Arrive

\* What becomes of the invariant when iterations and the places of the requests stay, and
\* what else is asked of the orders and of the phase is kept.
LEMMA OrdersMove ==
  ASSUME SpikeInv, UNCHANGED <<load, its>>,
         failed \subseteq failed', failed' \subseteq failed \cup DOMAIN orders,
         DOMAIN served' = DOMAIN served,
         \A r \in DOMAIN served : served'[r] \in ServedRow,
         DOMAIN orders' = DOMAIN orders,
         \A i \in DOMAIN orders : Agrees(i)',
         confirms' # F!Nobody => confirms' \in DOMAIN orders /\ orders'[confirms'] = "paying",
         SpikeChecksHold'
  PROVE  SpikeInv'
<1>0. SpikeNumbered /\ ServersAgree
  BY DEF SpikeInv
<1>1. SpikeNumbered'
  <2>1. \A name : F!Started(name)' = F!Started(name)
    BY DEF F!Started
  <2> QED BY <1>0, <2>1 DEF SpikeNumbered
<1>2. ServersAgree'
  BY <1>0 DEF ServersAgree, ServedRow, F!Nobody
<1>3. ASSUME NEW i \in DOMAIN its, i \notin DOMAIN orders
      PROVE  Agrees(i)'
  <2>1. Agrees(i)
    BY DEF SpikeInv
  <2> QED BY <1>3, <2>1 DEF Agrees, HasError
<1> QED BY <1>1, <1>2, <1>3 DEF SpikeInv

\* Steps of the servers, of the worker, of the sweep and of the judgement.
LEMMA OthersKeep ==
  ASSUME SpikeInv
  PROVE  /\ \A r : F!Connect(r) \/ F!LockRow(r) => SpikeInv'
         /\ \A i \in F!AllIterations :
              F!ConfirmBegins(i) \/ F!FailPayment(i) \/ F!Expire(i) => SpikeInv'
         /\ F!ConfirmEnds \/ F!EndLoad \/ F!CheckOrders \/ UNCHANGED F!spikeVars => SpikeInv'
<1>0. SpikeNumbered /\ ServersAgree /\ SpikeChecksHold /\ (\A i \in DOMAIN its : Agrees(i))
  BY DEF SpikeInv
<1>1. ASSUME UNCHANGED <<its, orders, failed>>, DOMAIN served' = DOMAIN served
      PROVE  \A i \in DOMAIN orders : Agrees(i)'
  BY <1>0, <1>1 DEF Agrees, HasError, ServersAgree
<1>2. ASSUME NEW r, F!Connect(r) \/ F!LockRow(r)
      PROVE  SpikeInv'
  <2>1. /\ r \in DOMAIN served /\ UNCHANGED <<load, phase, its, orders, confirms, failed>>
        /\ DOMAIN served' = DOMAIN served
        /\ \A q \in DOMAIN served : served'[q] \in ServedRow
    <3>1. CASE F!Connect(r)
      BY <1>0, <3>1 DEF F!Connect, ServersAgree, ServedRow
    <3>2. CASE F!LockRow(r)
      BY <1>0, <3>2 DEF F!LockRow, ServersAgree, ServedRow
    <3> QED BY <1>2, <3>1, <3>2
  <2>2. SpikeChecksHold'
    BY <1>0, <2>1 DEF SpikeChecksHold, Finished, HasError
  <2>3. confirms' # F!Nobody => confirms' \in DOMAIN orders /\ orders'[confirms'] = "paying"
    BY <1>0, <2>1 DEF ServersAgree
  <2>4. \A i \in DOMAIN orders : Agrees(i)'
    BY <1>1, <2>1
  <2> QED BY <2>1, <2>2, <2>3, <2>4, OrdersMove
<1>3. ASSUME NEW i \in F!AllIterations, F!ConfirmBegins(i)
      PROVE  SpikeInv'
  <2>1. /\ i \in DOMAIN orders /\ orders[i] = "paying" /\ confirms' = i
        /\ UNCHANGED <<load, phase, its, served, orders, failed>>
    BY <1>3 DEF F!ConfirmBegins
  <2>2. SpikeChecksHold'
    BY <1>0, <2>1 DEF SpikeChecksHold, Finished, HasError
  <2>3. \A j \in DOMAIN orders : Agrees(j)'
    BY <1>1, <2>1
  <2>4. \A q \in DOMAIN served : served'[q] \in ServedRow
    BY <1>0, <2>1 DEF ServersAgree
  <2> QED BY <2>1, <2>2, <2>3, <2>4, OrdersMove
<1>4. ASSUME NEW i \in F!AllIterations, F!Expire(i)
      PROVE  SpikeInv'
  <2>1. /\ i \in DOMAIN orders /\ orders[i] = "held" /\ its[i].stage = "ended"
        /\ <<"payment", i>> \notin DOMAIN served /\ confirms = F!Nobody
        /\ UNCHANGED <<load, phase, its, served, confirms, failed>>
        /\ DOMAIN orders' = DOMAIN orders /\ orders'[i] = "expired"
        /\ \A j \in DOMAIN orders : j # i => orders'[j] = orders[j]
    BY <1>4 DEF F!Expire, F!RowIsFree
  <2>2. i \in DOMAIN its /\ (HasError(i) \/ i \in failed)
    BY <1>0, <2>1 DEF ServersAgree, Agrees
  <2>3. SpikeChecksHold'
    BY <1>0, <2>1, <2>2 DEF SpikeChecksHold, Finished, HasError
  <2>4. ASSUME NEW j \in DOMAIN orders
        PROVE  Agrees(j)'
    <3>1. Agrees(j)
      BY <1>0 DEF ServersAgree
    <3>2. CASE j = i
      BY <2>1, <2>2, <3>1, <3>2 DEF Agrees, HasError
    <3>3. CASE j # i
      BY <2>1, <3>1, <3>3 DEF Agrees, HasError
    <3> QED BY <3>2, <3>3
  <2>5. \A q \in DOMAIN served : served'[q] \in ServedRow
    BY <1>0, <2>1 DEF ServersAgree
  <2> QED BY <2>1, <2>3, <2>4, <2>5, OrdersMove
<1>5. ASSUME F!ConfirmEnds
      PROVE  SpikeInv'
  <2>1. /\ confirms \in DOMAIN orders /\ orders[confirms] = "paying"
        /\ confirms' = F!Nobody /\ UNCHANGED <<load, phase, its, served, failed>>
        /\ DOMAIN orders' = DOMAIN orders /\ orders'[confirms] = "confirmed"
        /\ \A j \in DOMAIN orders : j # confirms => orders'[j] = orders[j]
    BY <1>0, <1>5 DEF F!ConfirmEnds, ServersAgree
  <2>2. SpikeChecksHold'
    BY <1>0, <2>1 DEF SpikeChecksHold, Finished, HasError
  <2>3. ASSUME NEW j \in DOMAIN orders
        PROVE  Agrees(j)'
    <3>1. Agrees(j)
      BY <1>0 DEF ServersAgree
    <3>2. CASE j = confirms
      BY <2>1, <3>1, <3>2 DEF Agrees, HasError
    <3>3. CASE j # confirms
      BY <2>1, <3>1, <3>3 DEF Agrees, HasError
    <3> QED BY <3>2, <3>3
  <2>4. \A q \in DOMAIN served : served'[q] \in ServedRow
    BY <1>0, <2>1 DEF ServersAgree
  <2> QED BY <2>1, <2>2, <2>3, <2>4, OrdersMove
<1>10. ASSUME NEW i \in F!AllIterations, F!FailPayment(i)
       PROVE  SpikeInv'
  <2>1. /\ i \in DOMAIN orders /\ orders[i] = "paying" /\ confirms # i
        /\ UNCHANGED <<load, phase, its, served, confirms>> /\ failed' = failed \cup {i}
        /\ DOMAIN orders' = DOMAIN orders /\ orders'[i] \in {"held", "expired"}
        /\ \A j \in DOMAIN orders : j # i => orders'[j] = orders[j]
    BY <1>10 DEF F!FailPayment
  <2>2. i \in DOMAIN its /\ its[i] \in SpikeRow /\ Agrees(i)
    BY <1>0, <2>1 DEF ServersAgree, SpikeNumbered
  <2>3. /\ its[i].stage = "ended"
        /\ <<"purchase", i>> \notin DOMAIN served /\ <<"payment", i>> \notin DOMAIN served
    BY <2>1, <2>2 DEF Agrees, SpikeRow
  <2>4. SpikeChecksHold'
    BY <1>0, <2>1 DEF SpikeChecksHold, Finished, HasError
  <2>5. ASSUME NEW j \in DOMAIN orders
        PROVE  Agrees(j)'
    <3>1. Agrees(j)
      BY <1>0 DEF ServersAgree
    <3>2. CASE j = i
      BY <2>1, <2>3, <3>2 DEF Agrees, HasError
    <3>3. CASE j # i
      BY <2>1, <3>1, <3>3 DEF Agrees, HasError
    <3> QED BY <3>2, <3>3
  <2>6. \A q \in DOMAIN served : served'[q] \in ServedRow
    BY <1>0, <2>1 DEF ServersAgree
  <2>7. confirms' # F!Nobody => confirms' \in DOMAIN orders /\ orders'[confirms'] = "paying"
    BY <1>0, <2>1 DEF ServersAgree
  <2> QED BY <2>1, <2>4, <2>5, <2>6, <2>7, OrdersMove
<1>6. ASSUME UNCHANGED <<load, its, served, orders, confirms, failed>>, SpikeChecksHold'
      PROVE  SpikeInv'
  <2>1. \A i \in DOMAIN orders : Agrees(i)'
    BY <1>1, <1>6
  <2>2. \A q \in DOMAIN served : served'[q] \in ServedRow
    BY <1>0, <1>6 DEF ServersAgree
  <2>3. confirms' # F!Nobody => confirms' \in DOMAIN orders /\ orders'[confirms'] = "paying"
    BY <1>0, <1>6 DEF ServersAgree
  <2> QED BY <1>6, <2>1, <2>2, <2>3, OrdersMove
<1>7. ASSUME F!EndLoad
      PROVE  SpikeInv'
  <2>1. /\ UNCHANGED <<load, its, served, orders, confirms, failed>>
        /\ phase' \in {"check", "passed", "failed"}
        /\ load = "warmup" => phase' \in {"check", "failed"}
        /\ load = "warmup" /\ phase' = "check" => F!NoErrors
        /\ \A name \in F!Scenarios : F!Running(name) = {}
    BY <1>7 DEF F!EndLoad
  <2>2. ASSUME load = "warmup", phase' = "check", NEW i \in DOMAIN its
        PROVE  Finished(i)
    <3>1. i[1] = "warmup" /\ "warmup" \in F!Scenarios
      BY <1>0, <2>2 DEF SpikeNumbered, F!Scenarios
    <3>2. i \in F!Started("warmup") /\ F!Running("warmup") = {}
      BY <2>1, <3>1 DEF F!Started
    <3>3. its[i].stage = "ended"
      BY <3>2 DEF F!Running
    <3> QED BY <2>1, <2>2, <3>3 DEF Finished, HasError, F!NoErrors
  <2>3. SpikeChecksHold'
    BY <2>1, <2>2 DEF SpikeChecksHold, Finished, HasError
  <2> QED BY <1>6, <2>1, <2>3
<1>8. ASSUME F!CheckOrders
      PROVE  SpikeInv'
  <2>1. /\ UNCHANGED <<load, its, served, orders, confirms, failed>> /\ phase = "check"
        /\ phase' = "passed" => \A i \in DOMAIN orders : orders[i] = "confirmed"
    BY <1>8 DEF F!CheckOrders, F!AllConfirmed
  <2>2. SpikeChecksHold'
    BY <1>0, <2>1 DEF SpikeChecksHold, Finished, HasError
  <2> QED BY <1>6, <2>1, <2>2
<1>9. ASSUME UNCHANGED F!spikeVars
      PROVE  SpikeInv'
  <2>1. SpikeChecksHold'
    BY <1>0, <1>9 DEF F!spikeVars, SpikeChecksHold, Finished, HasError
  <2> QED BY <1>6, <1>9, <2>1 DEF F!spikeVars
<1> QED BY <1>2, <1>3, <1>4, <1>5, <1>7, <1>8, <1>9, <1>10

\* Every step keeps the invariant.
LEMMA SpikeStep ==
  ASSUME SpikeInv, [F!SpikeNext]_F!spikeVars
  PROVE  SpikeInv'
<1>1. ASSUME NEW r \in {"purchase", "payment"} \X F!AllIterations, F!Commit(r) \/ F!GiveUp(r)
      PROVE  SpikeInv'
  <2>1. r \in DOMAIN served
    BY <1>1 DEF F!Commit, F!GiveUp
  <2> QED BY <1>1, <2>1, CommitKeeps, GiveUpKeeps
<1>2. ASSUME NEW name \in {"warmup", "opening", "tail"}, F!Arrive(name)
      PROVE  SpikeInv'
  BY <1>2, SpikeArriveKeeps
<1>3. ASSUME NEW i \in F!AllIterations, F!HearsNothing(i)
      PROVE  SpikeInv'
  BY <1>3, HearsNothingKeeps
<1> QED BY <1>1, <1>2, <1>3, OthersKeep DEF F!SpikeNext

\* It holds when the experiment begins.
LEMMA SpikeStarts ==
  ASSUME F!SpikeInit
  PROVE  SpikeInv
<1>1. /\ DOMAIN its = {} /\ DOMAIN served = {} /\ DOMAIN orders = {}
      /\ phase = "load" /\ confirms = F!Nobody
  BY DEF F!SpikeInit
<1>2. SpikeNumbered /\ ServersAgree /\ SpikeChecksHold
  BY <1>1, FS_EmptySet DEF SpikeNumbered, ServersAgree, SpikeChecksHold
<1> QED BY <1>1, <1>2 DEF SpikeInv

\* The inductive invariant.
THEOREM SpikeInvariance == F!SpikeSpec => []SpikeInv
<1>1. F!SpikeInit => SpikeInv
  BY SpikeStarts
<1>2. SpikeInv /\ [F!SpikeNext]_F!spikeVars => SpikeInv'
  BY SpikeStep
<1> QED BY <1>1, <1>2, PTL DEF F!SpikeSpec

\* The records.
THEOREM SpikeRecordsAgree == F!SpikeSpec => []F!RecordsAgree
<1>1. SpikeInv => F!RecordsAgree
  BY InvAgrees
<1> QED BY <1>1, SpikeInvariance, PTL

-----------------------------------------------------------------------------
(* Side by side *)

\* The first experiment stays what it is.
LEMMA LoadStays ==
  ASSUME F!SpikeNext
  PROVE  load' = load
<1>1. ASSUME NEW name, F!Arrive(name)
      PROVE  load' = load
  BY <1>1 DEF F!Arrive
<1>2. ASSUME NEW i, F!HearsNothing(i) \/ F!ConfirmBegins(i) \/ F!FailPayment(i) \/ F!Expire(i)
      PROVE  load' = load
  BY <1>2 DEF F!HearsNothing, F!ConfirmBegins, F!FailPayment, F!Expire
<1>3. ASSUME NEW r, F!Connect(r) \/ F!LockRow(r) \/ F!Commit(r) \/ F!GiveUp(r)
      PROVE  load' = load
  BY <1>3 DEF F!Connect, F!LockRow, F!Commit, F!GiveUp
<1>4. CASE F!ConfirmEnds \/ F!EndLoad \/ F!CheckOrders
  BY <1>4 DEF F!ConfirmEnds, F!EndLoad, F!CheckOrders
<1> QED BY <1>1, <1>2, <1>3, <1>4 DEF F!SpikeNext

\* The invariants of both, each while its experiment runs.
EachInv == (load = NoLoad => BaselineInv) /\ (load # NoLoad => SpikeInv)

\* Whichever of them runs, its invariant holds.
THEOREM EachInvariance == MCSpec => []EachInv
<1>1. MCInit => EachInv
  <2>1. ASSUME F!SpikeInit
        PROVE  load # NoLoad /\ SpikeInv
    BY <2>1, SpikeStarts DEF F!SpikeInit, NoLoad
  <2> QED BY <2>1, BaselineStarts DEF MCInit, EachInv
<1>2. EachInv /\ [MCNext]_<<baselineVars, load, served, confirms, failed>> => EachInv'
  <2>1. SUFFICES ASSUME EachInv, [MCNext]_<<baselineVars, load, served, confirms, failed>>
                 PROVE  EachInv'
    OBVIOUS
  <2>2. CASE load = NoLoad /\ BaselineNext /\ UNCHANGED <<load, served, confirms, failed>>
    BY <2>1, <2>2, BaselineStep DEF EachInv
  <2>3. CASE load # NoLoad /\ F!SpikeNext
    BY <2>1, <2>3, LoadStays, SpikeStep DEF EachInv
  <2>4. CASE UNCHANGED <<baselineVars, load, served, confirms, failed>>
    <3>1. UNCHANGED F!spikeVars
      BY <2>4 DEF baselineVars, F!spikeVars
    <3> QED BY <2>1, <2>4, <3>1, BaselineStep, SpikeStep DEF EachInv
  <2> QED BY <2>1, <2>2, <2>3, <2>4 DEF MCNext
<1> QED BY <1>1, <1>2, PTL DEF MCSpec

\* Every experiment on the baseline measures what it says.
THEOREM FairExperiments == MCSpec => []ExperimentsAreFair
<1>1. EachInv => ExperimentsAreFair
  BY InvIsFair DEF EachInv, ExperimentsAreFair
<1> QED BY <1>1, EachInvariance, PTL

\* The records of the first experiment explain themselves.
THEOREM FirstRecords == MCSpec => []FirstRecordsAgree
<1>1. EachInv => FirstRecordsAgree
  BY InvAgrees DEF EachInv, FirstRecordsAgree
<1> QED BY <1>1, EachInvariance, PTL
=============================================================================
