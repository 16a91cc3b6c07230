----------------------------- MODULE FirstSpike -----------------------------
(***************************************************************************)
(* The first recorded experiment (20260909-011321-469), on the two API     *)
(* servers with their connection pools.  A purchase holds a connection     *)
(* while it waits for the row of the item, as each confirmation by the     *)
(* worker does for its turn; who finds no connection within a second is    *)
(* answered 500, as three payments of that experiment were.                *)
(*                                                                         *)
(* The stock (1000) is more than all that arrive.                          *)
(***************************************************************************)
EXTENDS Naturals, FiniteSets

CONSTANTS
  Loads,    \* the scripts that may be run: "warmup", "spike"
  Rate,     \* arrivals of a k6 scenario, but for the one more at its end; the 300 of the check
  Vus,      \* virtual users of a scenario
  Servers,
  Conns     \* in the pool of a server

VARIABLES
  load,     \* the script that runs
  phase,    \* of the experiment
  its,      \* the iterations that were started
  dropped,  \* arrivals, by scenario, for which there was no virtual user
  served,   \* requests at the servers: where each is, and how far
  orders,   \* iteration -> status of its order
  confirms, \* the order that the worker confirms, holding the row
  failed    \* iterations whose payment the provider refused, as its deadline was over

spikeVars == <<load, phase, its, dropped, served, orders, confirms, failed>>

Scenarios == IF load = "warmup" THEN {"warmup"} ELSE {"opening", "tail"}
AllIterations == {"warmup", "opening", "tail"} \X (0..Rate)
Nobody == <<"", 0>>

With(f, k, value) == [x \in DOMAIN f \cup {k} |-> IF x = k THEN value ELSE f[x]]
Without(f, k) == [x \in DOMAIN f \ {k} |-> f[x]]

SpikeInit ==
  /\ load \in Loads /\ phase = "load"
  /\ its = <<>> /\ dropped = [name \in {"warmup", "opening", "tail"} |-> 0]
  /\ served = <<>> /\ orders = <<>> /\ confirms = Nobody /\ failed = {}

-----------------------------------------------------------------------------
(* The script *)

Started(name) == {i \in DOMAIN its : i[1] = name}
Running(name) == {i \in Started(name) : its[i].stage # "ended"}
Arrived(name) == Cardinality(Started(name)) + dropped[name]

Ask(kind, i) == \E server \in Servers :
  served' = With(Without(served, <<"purchase", i>>), <<kind, i>>, [at |-> server, step |-> "queued"])

\* The tail begins after the opening.
Arrive(name) ==
  /\ phase = "load" /\ name \in Scenarios
  /\ name = "tail" => Arrived("opening") >= Rate
  /\ Arrived(name) <= Rate
  /\ \/ /\ Cardinality(Running(name)) < Vus
        /\ LET i == <<name, Cardinality(Started(name))>> IN
           /\ its' = With(its, i, [stage |-> "buying", purchase |-> "none", payment |-> "none"])
           /\ Ask("purchase", i)
        /\ UNCHANGED dropped
     \/ /\ Cardinality(Running(name)) = Vus
        /\ dropped' = [dropped EXCEPT ![name] = @ + 1]
        /\ UNCHANGED <<its, served>>
  /\ UNCHANGED <<load, phase, orders, confirms, failed>>

\* The request is done with; the script hears of it if it still waits, and pays if it bought.
Answer(r, outcome) ==
  LET i == r[2] IN
  \/ /\ r[1] = "purchase" /\ its[i].stage = "buying"
     /\ \/ /\ outcome = "held" /\ Ask("payment", i)
           /\ its' = [its EXCEPT ![i].purchase = outcome, ![i].stage = "paying"]
        \/ /\ outcome # "held" /\ served' = Without(served, r)
           /\ its' = [its EXCEPT ![i].purchase = outcome, ![i].stage = "ended"]
  \/ /\ r[1] = "payment" /\ its[i].stage = "paying"
     /\ its' = [its EXCEPT ![i].payment = outcome, ![i].stage = "ended"]
     /\ served' = Without(served, r)
  \/ /\ its[i].stage = "ended"
     /\ served' = Without(served, r) /\ UNCHANGED its

\* After five seconds.
HearsNothing(i) ==
  /\ i \in DOMAIN its /\ its[i].stage # "ended"
  /\ its' = IF its[i].stage = "buying"
            THEN [its EXCEPT ![i].purchase = "unexpected", ![i].stage = "ended"]
            ELSE [its EXCEPT ![i].payment = "unexpected", ![i].stage = "ended"]
  /\ UNCHANGED <<load, phase, dropped, served, orders, confirms, failed>>

-----------------------------------------------------------------------------
(* The servers *)

Connected(server) == {r \in DOMAIN served : served[r].at = server /\ served[r].step # "queued"}
Free(server) == Cardinality(Connected(server)) < Conns
RowIsFree ==
  confirms = Nobody /\ \A r \in DOMAIN served : r[1] = "purchase" => served[r].step # "working"

Connect(r) ==
  /\ r \in DOMAIN served /\ served[r].step = "queued" /\ Free(served[r].at)
  /\ served' = [served EXCEPT ![r].step = IF r[1] = "purchase" THEN "locking" ELSE "working"]
  /\ UNCHANGED <<load, phase, its, dropped, orders, confirms, failed>>

LockRow(r) ==
  /\ r \in DOMAIN served /\ served[r].step = "locking" /\ RowIsFree
  /\ served' = [served EXCEPT ![r].step = "working"]
  /\ UNCHANGED <<load, phase, its, dropped, orders, confirms, failed>>

\* A transaction has all it needs in its one connection.
Complete(r) == served[r].step = "working"

OnlyHeld(r) == With(orders, r[2], "held")  \* mutant
\* A purchase makes the order, a payment accepts it.
Made(r) == With(orders, r[2], IF r[1] = "purchase" THEN "held" ELSE "paying")
Commit(r) ==
  /\ r \in DOMAIN served /\ Complete(r)
  /\ orders' = Made(r)
  /\ Answer(r, "held")
  /\ UNCHANGED <<load, phase, dropped, confirms, failed>>

RolledBack(r) == UNCHANGED orders

\* No connection within a second, or the row not within five.
GiveUp(r) ==
  /\ r \in DOMAIN served
  /\ \/ served[r].step = "queued" /\ ~Free(served[r].at)
     \/ served[r].step = "locking" /\ ~RowIsFree
  /\ RolledBack(r)
  /\ Answer(r, "unexpected")
  /\ UNCHANGED <<load, phase, dropped, confirms, failed>>

\* The provider took the payment in time.
ConfirmBegins(i) ==
  /\ i \in DOMAIN orders /\ orders[i] = "paying" /\ RowIsFree
  /\ confirms' = i
  /\ UNCHANGED <<load, phase, its, dropped, served, orders, failed>>

ConfirmEnds ==
  /\ confirms # Nobody
  /\ orders' = [orders EXCEPT ![confirms] = "confirmed"]
  /\ confirms' = Nobody
  /\ UNCHANGED <<load, phase, its, dropped, served, failed>>

\* The worker was so late that the provider refuses the payment for its deadline: the order
\* waits to be paid again, which no script does, or expires at once with a hold that is over.
FailPayment(i) ==
  /\ i \in DOMAIN orders /\ orders[i] = "paying" /\ confirms # i
  /\ \/ orders' = [orders EXCEPT ![i] = "held"]
     \/ RowIsFree /\ orders' = [orders EXCEPT ![i] = "expired"]
  /\ failed' = failed \cup {i}
  /\ UNCHANGED <<load, phase, its, dropped, served, confirms>>

\* The sweep, five minutes after; no request lasts as long.
Expire(i) ==
  /\ i \in DOMAIN orders /\ orders[i] = "held" /\ its[i].stage = "ended"
  /\ <<"payment", i>> \notin DOMAIN served /\ RowIsFree
  /\ orders' = [orders EXCEPT ![i] = "expired"]
  /\ UNCHANGED <<load, phase, its, dropped, served, confirms, failed>>

-----------------------------------------------------------------------------
(* The judgement *)

NoErrors == \A i \in DOMAIN its : "unexpected" \notin {its[i].purchase, its[i].payment}
NothingDropped == \A name \in Scenarios : dropped[name] = 0

\* One error in a thousand is let through in a spike.
EndLoad ==
  /\ phase = "load"
  /\ \A name \in Scenarios : Arrived(name) >= Rate /\ Running(name) = {}
  /\ phase' = IF NothingDropped /\ (load = "warmup" => NoErrors)
              THEN IF load = "warmup" THEN "check" ELSE "passed"
              ELSE "failed"
  /\ UNCHANGED <<load, its, dropped, served, orders, confirms, failed>>

\* "300/300": confirmed orders of all orders.
AllConfirmed ==
  /\ Cardinality(DOMAIN orders) = Rate
  /\ \A i \in DOMAIN orders : orders[i] = "confirmed"

\* Fifteen times within half a minute.
CheckOrders ==
  /\ phase = "check"
  /\ phase' = IF AllConfirmed THEN "passed" ELSE "failed"
  /\ UNCHANGED <<load, its, dropped, served, orders, confirms, failed>>

SpikeNext ==
  \/ \E name \in {"warmup", "opening", "tail"} : Arrive(name)
  \/ \E i \in AllIterations : HearsNothing(i) \/ ConfirmBegins(i) \/ FailPayment(i) \/ Expire(i)
  \/ \E r \in {"purchase", "payment"} \X AllIterations :
       Connect(r) \/ LockRow(r) \/ Commit(r) \/ GiveUp(r)
  \/ ConfirmEnds \/ EndLoad \/ CheckOrders

SpikeSpec == SpikeInit /\ [][SpikeNext]_spikeVars

-----------------------------------------------------------------------------
(* Properties *)

\* However many purchases hold connections and wait for the row, someone gets on without a
\* timeout: the one who has the row needs nothing that those who wait for it hold.
SomeoneGetsOn ==
  DOMAIN served # {} =>
    \/ confirms # Nobody
    \/ \E r \in DOMAIN served :
         \/ served[r].step = "queued" /\ Free(served[r].at)
         \/ served[r].step = "locking" /\ RowIsFree
         \/ Complete(r)

\* The errors that the script counted account for the orders that the database shows as
\* expired: each is of an iteration that met one (review.md: 3 errors, 3 of 300 expired), or
\* was accepted and then not taken by the provider in time, of which the script hears nothing.
ErrorsExplainExpiries ==
  \A i \in DOMAIN orders : orders[i] = "expired" =>
    i \in failed \/ "unexpected" \in {its[i].purchase, its[i].payment}

\* A warm-up that passes has left nothing to do: no request at a server, no payment to confirm.
PassedIsQuiet ==
  phase = "passed" /\ load = "warmup" =>
    DOMAIN served = {} /\ \A i \in DOMAIN orders : orders[i] = "confirmed"

\* The records of the first experiment explain themselves.
RecordsAgree == SomeoneGetsOn /\ ErrorsExplainExpiries /\ PassedIsQuiet
=============================================================================
