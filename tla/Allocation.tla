----------------------------- MODULE Allocation -----------------------------
(***************************************************************************)
(* What the reservation system promises of a limited stock, with no        *)
(* counters, payments or clocks: an order is granted all it asks for or    *)
(* nothing, out of what nobody holds or has bought and within its user's   *)
(* limit; what it holds it then either buys or returns, once.              *)
(***************************************************************************)
EXTENDS Quantities

CONSTANTS Users, OrderIds, Total, PerUserLimit

VARIABLES
  offered,   \* the items on sale
  holdings   \* order id -> its user, what it asked for and what became of it

vars == <<offered, holdings>>

Asked == [o \in DOMAIN holdings |-> holdings[o].items]
Kept == {o \in DOMAIN holdings : holdings[o].state # "returned"}
Taken(i) == Sum(Asked, Kept, i)
TakenBy(u, i) == Sum(Asked, {o \in Kept : holdings[o].user = u}, i)

Init == offered = {} /\ holdings = <<>>

Offer(items) ==
  /\ offered' = offered \cup items
  /\ UNCHANGED holdings

Hold(o, u, request) ==
  /\ o \notin DOMAIN holdings
  /\ \A i \in DOMAIN request :
       /\ i \in offered
       /\ Taken(i) + request[i] <= Total[i]
       /\ TakenBy(u, i) + request[i] <= PerUserLimit[i]
  /\ holdings' = [x \in DOMAIN holdings \cup {o} |->
                    IF x = o THEN [user |-> u, items |-> request, state |-> "held"]
                    ELSE holdings[x]]
  /\ UNCHANGED offered

Settle(o, state) ==
  /\ o \in DOMAIN holdings
  /\ holdings[o].state = "held"
  /\ holdings' = [holdings EXCEPT ![o].state = state]
  /\ UNCHANGED offered

Next ==
  \/ \E items \in SUBSET Items : Offer(items)
  \/ \E o \in OrderIds, u \in Users, request \in Requests : Hold(o, u, request)
  \/ \E o \in OrderIds, state \in {"bought", "returned"} : Settle(o, state)

Spec == Init /\ [][Next]_vars
=============================================================================
