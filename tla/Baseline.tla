------------------------------ MODULE Baseline ------------------------------
(***************************************************************************)
(* An experiment on the baseline (performance.ps1): with an empty database *)
(* a warm-up buys and pays on a sale of its own and is checked; then the   *)
(* measured script, a purchase spike or a capacity trial, does the same on *)
(* another sale and is judged.  The service may answer late, not at all or *)
(* with an error, and does what it was asked all the same.                 *)
(*                                                                         *)
(* Each iteration is a user that wants one unit.  Latencies, connection    *)
(* pools and the choice of the API server are not looked at.               *)
(***************************************************************************)
EXTENDS Naturals, FiniteSets

CONSTANTS
  Measured,   \* the scripts that may be measured
  Rate,       \* arrivals of a k6 scenario (rate times duration), but for the one more at its end
  FlowStock,  \* the stock of the warm-up's and the spike's sale
  Stocks      \* stocks that may be asked for in a capacity trial

ASSUME BaselineAssumption ==
  /\ Measured \subseteq {"purchase-spike", "capacity"}
  /\ Rate \in Nat \ {0} /\ FlowStock \in Nat /\ Stocks \subseteq Nat

VARIABLES
  measured, \* the measured script
  phase,    \* of the experiment
  stock,    \* that of the capacity trial
  left,     \* sale -> units left
  its,      \* the iterations that were started
  dropped,  \* arrivals without a free VU in this load
  asked,    \* requests that the service has not done with
  orders    \* <<user, key>> -> the order in the database

baselineVars == <<measured, phase, stock, left, its, dropped, asked, orders>>

Sales == {"warmup", "measured"}
WarmupScenarios == {"warmup"}
CapacityScenarios == {"capacity"}
SpikeScenarios == {"opening", "tail"}
Scenarios(sale) ==
  IF sale = "warmup" THEN WarmupScenarios
  ELSE IF measured = "capacity" THEN CapacityScenarios ELSE SpikeScenarios
AllIterations == (UNION {Scenarios(sale) : sale \in Sales}) \X (0..Rate)
SaleOf(i) == CHOOSE sale \in Sales : i[1] \in Scenarios(sale)

User(i) == i
KeyOf(i) == <<User(i), "purchase">>

-----------------------------------------------------------------------------
(* Set-up *)

\* At least ceil(RPS * seconds * 1.1) + 1.
EnoughStock(s) == s >= (11 * Rate + 9) \div 10 + 1

CreateSale(units) == [s \in Sales |-> IF s = "warmup" THEN FlowStock ELSE units]

\* The database is empty (reset-db.ps1).
BaselineInit ==
  /\ measured \in Measured /\ phase = "warmup"
  /\ stock \in {s \in Stocks : measured = "capacity" => EnoughStock(s)}
  /\ left = CreateSale(IF measured = "capacity" THEN stock ELSE FlowStock)
  /\ its = <<>> /\ dropped = 0 /\ asked = {} /\ orders = <<>>

-----------------------------------------------------------------------------
(* The load *)

Loading == phase \in Sales
Of(sale) == {i \in DOMAIN its : SaleOf(i) = sale}
Started(name) == Cardinality({i \in DOMAIN its : i[1] = name})
With(f, k, value) == [x \in DOMAIN f \cup {k} |-> IF x = k THEN value ELSE f[x]]
Set(i, record) == its' = With(its, i, record)

\* The tail begins when the opening has arrived.
Arrive(name) ==
  /\ Loading /\ name \in Scenarios(phase)
  /\ name = "tail" => Started("opening") + dropped >= Rate
  /\ Started(name) + dropped <= Rate
  /\ \/ LET i == <<name, Started(name)>> IN
        /\ Set(i, [stage |-> "buying", outcome |-> "none", payment |-> "none"])
        /\ asked' = asked \cup {<<"purchase", i>>}
        /\ UNCHANGED dropped
     \/ dropped' = dropped + 1 /\ UNCHANGED <<its, asked>>
  /\ UNCHANGED <<measured, phase, stock, left, orders>>

\* What the script does with the answer to a purchase: one that bought, pays.
Heard(i, outcome) ==
  IF outcome = "held"
  THEN [its[i] EXCEPT !.outcome = outcome, !.stage = "paying"]
  ELSE [its[i] EXCEPT !.outcome = outcome, !.stage = "ended"]

\* An iteration that waits no more hears nothing.
Answer(kind, i, outcome) ==
  IF kind = "purchase" /\ its[i].stage = "buying"
  THEN /\ Set(i, Heard(i, outcome))
       /\ asked' = (asked \ {<<kind, i>>})
                   \cup IF outcome = "held" THEN {<<"payment", i>>} ELSE {}
  ELSE IF kind = "payment" /\ its[i].stage = "paying"
  THEN /\ Set(i, [its[i] EXCEPT !.stage = "ended", !.payment = outcome])
       /\ asked' = asked \ {<<kind, i>>}
  ELSE asked' = asked \ {<<kind, i>>} /\ UNCHANGED its

\* An answer does not come within five seconds, or is lost.
TimeOut(i) ==
  /\ i \in DOMAIN its /\ its[i].stage # "ended"
  /\ Set(i, IF its[i].stage = "buying"
            THEN [its[i] EXCEPT !.outcome = "unexpected", !.stage = "ended"]
            ELSE [its[i] EXCEPT !.payment = "unexpected", !.stage = "ended"])
  /\ UNCHANGED <<measured, phase, stock, left, dropped, asked, orders>>

-----------------------------------------------------------------------------
(* The service, as the scripts use it *)

InStock(sale) == left[sale] > 0

\* A key's order is answered again, for the same sale only; a new one takes a unit.
Refuses(i) ==
  IF KeyOf(i) \in DOMAIN orders THEN orders[KeyOf(i)].sale # SaleOf(i) ELSE ~InStock(SaleOf(i))

ServePurchase(i) ==
  /\ <<"purchase", i>> \in asked
  /\ \/ /\ Answer("purchase", i, IF Refuses(i) THEN "business_rejected" ELSE "held")
        /\ IF Refuses(i) \/ KeyOf(i) \in DOMAIN orders THEN UNCHANGED <<left, orders>>
           ELSE /\ orders' = With(orders, KeyOf(i), [sale |-> SaleOf(i), status |-> "held"])
                /\ left' = [left EXCEPT ![SaleOf(i)] = @ - 1]
     \/ \E outcome \in {"limited", "unexpected"} :
          Answer("purchase", i, outcome) /\ UNCHANGED <<left, orders>>
  /\ UNCHANGED <<measured, phase, stock, dropped>>

ServePayment(i) ==
  /\ <<"payment", i>> \in asked
  /\ \/ /\ orders[KeyOf(i)].status = "held"
        /\ orders' = [orders EXCEPT ![KeyOf(i)].status = "paying"]
        /\ Answer("payment", i, "accepted")
     \/ Answer("payment", i, "unexpected") /\ UNCHANGED orders
  /\ UNCHANGED <<measured, phase, stock, left, dropped>>

\* The provider takes the payment in time, and so it succeeds.
Confirm(k) ==
  /\ k \in DOMAIN orders /\ orders[k].status = "paying"
  /\ orders' = [orders EXCEPT ![k].status = "confirmed"]
  /\ UNCHANGED <<measured, phase, stock, left, its, dropped, asked>>

\* It comes to the provider after its deadline and is refused: the order may be paid again,
\* which no script does, or expires at once with a hold that is over.
FailPayment(k) ==
  /\ k \in DOMAIN orders /\ orders[k].status = "paying"
  /\ \/ orders' = [orders EXCEPT ![k].status = "held"] /\ UNCHANGED left
     \/ /\ orders' = [orders EXCEPT ![k].status = "expired"]
        /\ left' = [left EXCEPT ![orders[k].sale] = @ + 1]
  /\ UNCHANGED <<measured, phase, stock, its, dropped, asked>>

\* A hold lapses after minutes; no iteration is that long.
Lapse(i) ==
  /\ i \in DOMAIN its /\ its[i].stage = "ended"
  /\ KeyOf(i) \in DOMAIN orders /\ orders[KeyOf(i)].status = "held"
  /\ orders' = [orders EXCEPT ![KeyOf(i)].status = "expired"]
  /\ left' = [left EXCEPT ![SaleOf(i)] = @ + 1]
  /\ UNCHANGED <<measured, phase, stock, its, dropped, asked>>

-----------------------------------------------------------------------------
(* What is counted and judged *)

AllEnded ==
  /\ \A i \in Of(phase) : its[i].stage = "ended"
  /\ \A name \in Scenarios(phase) : Started(name) + dropped >= Rate

Unexpected(sale) ==
  \E i \in Of(sale) : its[i].outcome = "unexpected" \/ its[i].payment = "unexpected"
Rejections(sale) == \E i \in Of(sale) : its[i].outcome # "held"

WarmupThresholds == ~Unexpected("warmup") /\ dropped = 0
CapacityThresholds == ~Unexpected("measured") /\ ~Rejections("measured") /\ dropped = 0
\* One request in a thousand may be answered unexpectedly.
SpikeThresholds == dropped = 0

EndWarmup ==
  /\ phase = "warmup" /\ AllEnded
  /\ phase' = IF WarmupThresholds THEN "check" ELSE "failed"
  /\ UNCHANGED <<measured, stock, left, its, dropped, asked, orders>>

EndMeasured ==
  /\ phase = "measured" /\ AllEnded
  /\ phase' = IF IF measured = "capacity" THEN CapacityThresholds ELSE SpikeThresholds
              THEN "drain" ELSE "failed"
  /\ UNCHANGED <<measured, stock, left, its, dropped, asked, orders>>

Accepted(sale) == Cardinality({i \in Of(sale) : its[i].outcome = "held"})
OrdersOf(sale) == {k \in DOMAIN orders : orders[k].sale = sale}
ConfirmedOf(sale) == {k \in OrdersOf(sale) : orders[k].status = "confirmed"}

OrdersAlone(sale) == Cardinality(OrdersOf(sale)) = Accepted(sale)  \* mutant
\* Orders, confirmed orders, reservations and succeeded attempts, counted in the database.
StateMatches(sale) ==
  /\ Cardinality(OrdersOf(sale)) = Accepted(sale)
  /\ Cardinality(ConfirmedOf(sale)) = Accepted(sale)

\* Wait-PurchaseWarmup looks fifteen times within half a minute.
CheckWarmup ==
  /\ phase = "check"
  /\ \/ Accepted("warmup") > 0 /\ StateMatches("warmup") /\ phase' = "measured"
     \/ (Accepted("warmup") = 0 \/ ~StateMatches("warmup")) /\ phase' = "failed"
  /\ dropped' = 0
  /\ UNCHANGED <<measured, stock, left, its, asked, orders>>

\* After half a minute; of a spike only what k6 says counts.
Judge ==
  /\ phase = "drain"
  /\ phase' = IF measured = "capacity" => Accepted("measured") > 0 /\ StateMatches("measured")
              THEN "collected" ELSE "failed"
  /\ UNCHANGED <<measured, stock, left, its, dropped, asked, orders>>

BaselineNext ==
  \/ \E name \in {"warmup", "capacity", "opening", "tail"} : Arrive(name)
  \/ \E i \in AllIterations : ServePurchase(i) \/ ServePayment(i) \/ TimeOut(i) \/ Lapse(i)
  \/ \E k \in DOMAIN orders : Confirm(k) \/ FailPayment(k)
  \/ EndWarmup \/ CheckWarmup \/ EndMeasured \/ Judge

BaselineSpec == BaselineInit /\ [][BaselineNext]_baselineVars

-----------------------------------------------------------------------------
(* Properties *)

\* The key is the word "purchase" in every run, so that only the name of the scenario keeps
\* the users apart: no iteration is refused for an order of the other sale, and those that
\* bought have an order each, of their own sale.
BuysItsOwn ==
  /\ \A i \in DOMAIN its : KeyOf(i) \in DOMAIN orders => orders[KeyOf(i)].sale = SaleOf(i)
  /\ \A sale \in Sales : Accepted(sale) <= Cardinality(OrdersOf(sale))

\* Nothing of the warm-up is left over when the measurement begins: no request of it is in
\* flight and no payment is in the worker's queue.
StartsClean ==
  phase \in {"measured", "drain", "collected"} =>
    /\ \A request \in asked : SaleOf(request[2]) # "warmup"
    /\ OrdersOf("warmup") = ConfirmedOf("warmup")

\* A capacity trial that was collected sold and confirmed all it was asked for, nobody was
\* refused, and no request of it is in flight, so that nothing can change afterwards.
CollectedIsComplete ==
  measured = "capacity" /\ phase = "collected" =>
    /\ OrdersOf("measured") = ConfirmedOf("measured")
    /\ OrdersOf("measured") = {KeyOf(i) : i \in Of("measured")}
    /\ asked = {}

\* "Sufficient stock": in a capacity trial nobody is refused for want of it.
StockLasts ==
  measured = "capacity" => \A i \in Of("measured") : its[i].outcome # "business_rejected"

\* An experiment measures what it says.
MeasuresFairly == BuysItsOwn /\ StartsClean /\ CollectedIsComplete /\ StockLasts
=============================================================================
