----------------------------- MODULE Quantities -----------------------------
(***************************************************************************)
(* Requests for quantities of items, and the SQL sum(quantity) over a set  *)
(* of orders.  A sum is the number of pieces asked for: the pieces of item *)
(* i in order o are the pairs <<o, 1>>, ..., <<o, quantity>>.              *)
(***************************************************************************)
EXTENDS Integers, FiniteSets

CONSTANTS
  Items,
  MaxQuantity   \* the largest quantity a request may ask of an item

ASSUME QuantityAssumption == MaxQuantity \in Nat

\* What a purchase asks for: distinct items, a positive quantity of each.
Requests == UNION {[S -> 1..MaxQuantity] : S \in (SUBSET Items) \ {{}}}

Qty(request, i) == IF i \in DOMAIN request THEN request[i] ELSE 0

\* sum(quantity) of item i over the orders in S, requests being what each asked for.
Units(requests, S, i) == {u \in S \X (1..MaxQuantity) : u[2] <= Qty(requests[u[1]], i)}
Sum(requests, S, i) == Cardinality(Units(requests, S, i))
=============================================================================
