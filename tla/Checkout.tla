------------------------------ MODULE Checkout ------------------------------
(***************************************************************************)
(* The order database: sales and their stock counters, orders, the stock   *)
(* reservation of each order and its payment attempts, with one action per *)
(* transaction of the services that write them.                            *)
(*                                                                         *)
(* Every transaction is atomic here: it holds the advisory lock of its key *)
(* or the row lock of its order before it reads what it decides on, and    *)
(* the rows of its items before it moves stock.  A request that is refused *)
(* (every ApiError, every early return) changes no table and is no step.   *)
(*                                                                         *)
(* A table is a function whose domain is the set of the ids in use.  A     *)
(* stored instant is represented by the time left until it, never below 0, *)
(* and Tick is the passing of one unit of time; Null is an SQL null.  A    *)
(* request's total price is left out: start copies it to the attempt and   *)
(* apply refuses a result that carries another amount.                     *)
(***************************************************************************)
EXTENDS Quantities

CONSTANTS
  Users, Keys,        \* callers and the idempotency keys they send
  Sales,              \* ids of sales
  SaleOf,             \* the sale of each item,
  Total,              \*   its quantity,
  PerUserLimit,       \*   and how much of it one user may have
  MaxOpensIn,         \* bound: how far ahead a sale is announced
  OrderIds, AttemptIds,
  Scenarios,          \* the provider behaviours a payment may ask for
  HoldSeconds,        \* app.hold-seconds
  PaymentWindow       \* app.payment-window-seconds

ASSUME ItemsAssumption ==
  /\ SaleOf \in [Items -> Sales]
  /\ Total \in [Items -> Nat]
  /\ PerUserLimit \in [Items -> Nat]
ASSUME TimesAssumption ==
  {MaxOpensIn, HoldSeconds, PaymentWindow} \subseteq Nat
\* An id is a 128-bit UUID.
ASSUME IdsAssumption == IsFiniteSet(OrderIds)

VARIABLES
  sales,         \* sale id    -> time left until it opens
  stock,         \* item id    -> its available, held and sold counters
  orders,        \* order id   -> its owner, key, request and status
  reservations,  \* order id   -> the hold on its stock
  attempts       \* attempt id -> a payment attempt and its status

vars == <<sales, stock, orders, reservations, attempts>>

Null == -1

OrderStatus == {"PAYMENT_PENDING", "PAYMENT_PROCESSING", "CONFIRMED", "EXPIRED"}
Results == {"SUCCEEDED", "FAILED", "UNKNOWN"}

StockRow == [available : Nat, held : Nat, sold : Nat]
OrderRow == [user : Users, key : Keys, sale : Sales, items : Requests, status : OrderStatus]
ReservationRow == [status : {"ACTIVE", "CONFIRMED", "EXPIRED"},
                   holdExpiresAt : 0..HoldSeconds,
                   confirmationDeadline : {Null} \cup 0..PaymentWindow]
AttemptRow == [order : OrderIds, key : Keys, scenario : Scenarios,
               status : {"CREATED"} \cup Results]

IsTable(table, Ids, Row) == DOMAIN table \subseteq Ids /\ table \in [DOMAIN table -> Row]

Insert(table, id, row) ==
  [x \in DOMAIN table \cup {id} |-> IF x = id THEN row ELSE table[x]]

-----------------------------------------------------------------------------
(* Reads *)

OrdersIn(Status) == {o \in DOMAIN orders : orders[o].status \in Status}
BoughtOnly(u) == {o \in OrdersIn({"CONFIRMED"}) : orders[o].user = u}  \* mutant
Unexpired(u) == {o \in OrdersIn(OrderStatus \ {"EXPIRED"}) : orders[o].user = u}

\* The order_items of every order, and OrderRepository.used: what the user has
\* of an item, held or bought.
Lines == [o \in DOMAIN orders |-> orders[o].items]
Used(u, i) == Sum(Lines, Unexpired(u), i)

AttemptsOf(o) == {a \in DOMAIN attempts : attempts[a].order = o}
FinalWhenPaid(a) == attempts[a].status = "SUCCEEDED"  \* mutant
Terminal(a) == attempts[a].status \in {"SUCCEEDED", "FAILED"}
OpenAttempts(o) == {a \in AttemptsOf(o) : ~Terminal(a)}

Lapsed(o) == reservations[o].holdExpiresAt = 0

\* The orders the expiry sweep looks for.
DueByHold(o) == reservations[o].status = "ACTIVE" /\ Lapsed(o)  \* mutant
Due(o) ==
  /\ orders[o].status = "PAYMENT_PENDING"
  /\ reservations[o].status = "ACTIVE"
  /\ Lapsed(o)

KeyFreeAgain(u, k) ==  \* mutant
  \A p \in OrdersIn(OrderStatus \ {"EXPIRED"}) : ~(orders[p].user = u /\ orders[p].key = k)
KeyUnused(u, k) ==
  \A p \in DOMAIN orders : ~(orders[p].user = u /\ orders[p].key = k)

AnyLeft(i, n) == stock[i].available > 0  \* mutant
InStock(i, n) == stock[i].available >= n
WithinLimit(u, i, n) == Used(u, i) + n <= PerUserLimit[i]

-----------------------------------------------------------------------------
(* Transactions *)

Init ==
  /\ sales = <<>>
  /\ stock = <<>>
  /\ orders = <<>>
  /\ reservations = <<>>
  /\ attempts = <<>>

CreateSale(s, opensAt) ==
  LET items == {i \in Items : SaleOf[i] = s} IN
  /\ s \notin DOMAIN sales
  /\ items # {}
  /\ sales' = Insert(sales, s, opensAt)
  /\ stock' = [i \in DOMAIN stock \cup items |->
                 IF i \in items THEN [available |-> Total[i], held |-> 0, sold |-> 0]
                 ELSE stock[i]]
  /\ UNCHANGED <<orders, reservations, attempts>>

Hold(row, n) ==
  [available |-> row.available - n, held |-> row.held + n, sold |-> row.sold]

\* The rows of a new order and of its hold.
Place(u, k, s, request, o) ==
  /\ orders' = Insert(orders, o, [user |-> u, key |-> k, sale |-> s,
                                  items |-> request, status |-> "PAYMENT_PENDING"])
  /\ reservations' = Insert(reservations, o, [status |-> "ACTIVE",
                                              holdExpiresAt |-> HoldSeconds,
                                              confirmationDeadline |-> Null])

\* The user's key is unused, the sale is open, every item belongs to it, is in
\* stock and within the user's limit: the stock is held for the new order.
Purchase(u, k, s, request, o) ==
  /\ o \notin DOMAIN orders
  /\ KeyUnused(u, k)
  /\ s \in DOMAIN sales /\ sales[s] = 0
  /\ \A i \in DOMAIN request :
       /\ SaleOf[i] = s
       /\ InStock(i, request[i])
       /\ WithinLimit(u, i, request[i])
  /\ Place(u, k, s, request, o)
  /\ stock' = [i \in DOMAIN stock |-> Hold(stock[i], Qty(request, i))]
  /\ UNCHANGED <<sales, attempts>>

\* ReservationService.moveStock: what the order held is sold, or available again.
SellFromShelf(row, n, confirm) ==  \* mutant
  [available |-> IF confirm THEN row.available - n ELSE row.available + n,
   held |-> IF confirm THEN row.held ELSE row.held - n,
   sold |-> IF confirm THEN row.sold + n ELSE row.sold]
Settle(row, n, confirm) ==
  [available |-> IF confirm THEN row.available ELSE row.available + n,
   held |-> row.held - n,
   sold |-> IF confirm THEN row.sold + n ELSE row.sold]
MoveStock(o, confirm) ==
  stock' = [i \in DOMAIN stock |-> Settle(stock[i], Qty(orders[o].items, i), confirm)]

\* ReservationService.confirm throws when the hold is not ACTIVE, which undoes
\* the caller's transaction.
ConfirmOrderOnly(o) ==  \* mutant
  /\ reservations[o].status = "ACTIVE"
  /\ MoveStock(o, TRUE)
  /\ UNCHANGED reservations
  /\ orders' = [orders EXCEPT ![o].status = "CONFIRMED"]
Confirm(o) ==
  /\ reservations[o].status = "ACTIVE"
  /\ MoveStock(o, TRUE)
  /\ reservations' = [reservations EXCEPT ![o].status = "CONFIRMED"]
  /\ orders' = [orders EXCEPT ![o].status = "CONFIRMED"]

\* ReservationService.release of an ACTIVE hold.
Release(o) ==
  /\ reservations[o].status = "ACTIVE"
  /\ MoveStock(o, FALSE)
  /\ reservations' = [reservations EXCEPT ![o].status = "EXPIRED"]
  /\ orders' = [orders EXCEPT ![o].status = "EXPIRED"]

\* PaymentService.start, called by the owner of the order.
Start(o, k, scenario, a) ==
  /\ o \in DOMAIN orders
  /\ a \notin DOMAIN attempts
  /\ \A b \in AttemptsOf(o) : attempts[b].key # k /\ attempts[b].status = "FAILED"
  /\ orders[o].status = "PAYMENT_PENDING"
  /\ ~Lapsed(o)
  /\ attempts' = Insert(attempts, a, [order |-> o, key |-> k,
                                      scenario |-> scenario, status |-> "CREATED"])
  /\ orders' = [orders EXCEPT ![o].status = "PAYMENT_PROCESSING"]
  /\ reservations' = [reservations EXCEPT ![o].confirmationDeadline = PaymentWindow]
  /\ UNCHANGED <<sales, stock>>

\* PaymentService.apply of a result to an attempt that has no final one yet.
Apply(a, result) ==
  LET o == attempts[a].order IN
  /\ a \in DOMAIN attempts
  /\ ~Terminal(a)
  /\ attempts' = [attempts EXCEPT ![a].status = result]
  /\ \/ result = "SUCCEEDED" /\ Confirm(o)
     \/ result = "FAILED" /\ Lapsed(o) /\ Release(o)
     \/ /\ result = "FAILED"
        /\ ~(Lapsed(o) /\ reservations[o].status = "ACTIVE")
        /\ orders' = [orders EXCEPT ![o].status = "PAYMENT_PENDING"]
        /\ UNCHANGED <<stock, reservations>>
     \/ result = "UNKNOWN" /\ UNCHANGED <<stock, orders, reservations>>
  /\ UNCHANGED sales

\* ReservationService.expire, for an id the sweep found due.
Expire(o) ==
  /\ o \in DOMAIN orders
  /\ Due(o)
  /\ Release(o)
  /\ UNCHANGED <<sales, attempts>>

Sooner(left) == IF left > 0 THEN left - 1 ELSE left

\* One unit of time passes for every stored instant.
Tick ==
  /\ sales' = [s \in DOMAIN sales |-> Sooner(sales[s])]
  /\ reservations' = [o \in DOMAIN reservations |->
       [reservations[o] EXCEPT !.holdExpiresAt = Sooner(@),
                               !.confirmationDeadline = Sooner(@)]]
  /\ UNCHANGED <<stock, orders, attempts>>

Next ==
  \/ \E s \in Sales, opensAt \in 0..MaxOpensIn : CreateSale(s, opensAt)
  \/ \E u \in Users, k \in Keys, s \in Sales, request \in Requests, o \in OrderIds :
       Purchase(u, k, s, request, o)
  \/ \E o \in OrderIds, k \in Keys, scenario \in Scenarios, a \in AttemptIds :
       Start(o, k, scenario, a)
  \/ \E a \in AttemptIds, result \in Results : Apply(a, result)
  \/ \E o \in OrderIds : Expire(o)
  \/ Tick

Spec == Init /\ [][Next]_vars

-----------------------------------------------------------------------------
(* Properties *)

TypeOK ==
  /\ IsTable(sales, Sales, 0..MaxOpensIn)
  /\ IsTable(stock, Items, StockRow)
  /\ IsTable(orders, OrderIds, OrderRow)
  /\ IsTable(reservations, OrderIds, ReservationRow)
  /\ IsTable(attempts, AttemptIds, AttemptRow)

\* The counters agree with the orders: an item's held and sold pieces are those
\* of the orders that hold and that bought it, and with the available ones they
\* are all there is (the CHECK of sale_items, which therefore never fires, and
\* the first two queries of ops/invariants.sql).  Purchases, results and the
\* expiry sweep all move these counters.
StockMatchesOrders ==
  \A i \in DOMAIN stock :
    /\ stock[i].held = Sum(Lines, OrdersIn({"PAYMENT_PENDING", "PAYMENT_PROCESSING"}), i)
    /\ stock[i].sold = Sum(Lines, OrdersIn({"CONFIRMED"}), i)
    /\ stock[i].available + stock[i].held + stock[i].sold = Total[i]

\* No user has more of an item than its limit, over all of the user's orders:
\* what an expired order gives back may be bought again, what is held or bought
\* stays counted.
WithinUserLimit ==
  \A u \in Users, i \in DOMAIN stock : Used(u, i) <= PerUserLimit[i]

\* A key that is sent again never makes a second order of its user.
OneOrderPerKey ==
  \A o, p \in DOMAIN orders :
    orders[o].user = orders[p].user /\ orders[o].key = orders[p].key => o = p

\* Each order has its reservation, in the state its own status calls for
\* (holdViolations of ops/performance/target-state.sql).
HoldFollowsOrder ==
  /\ DOMAIN reservations = DOMAIN orders
  /\ \A o \in DOMAIN orders :
       reservations[o].status = IF orders[o].status \in {"CONFIRMED", "EXPIRED"}
                                THEN orders[o].status ELSE "ACTIVE"

\* An order is in payment exactly while one of its attempts has no final result,
\* so none is stranded where neither the sweep nor a worker looks, and confirmed
\* exactly when one succeeded, so nobody gets stock without payment or pays for
\* none.  With HoldFollowsOrder: confirm() never meets released stock.
PaymentFollowsOrder ==
  \A o \in DOMAIN orders :
    /\ orders[o].status = "PAYMENT_PROCESSING" <=> OpenAttempts(o) # {}
    /\ orders[o].status = "CONFIRMED" <=>
         \E a \in AttemptsOf(o) : attempts[a].status = "SUCCEEDED"

\* At most one attempt of an order is in flight or succeeded (the partial unique
\* index payment_one_blocking, which therefore never fires).
OneBlockingAttempt ==
  \A a, b \in DOMAIN attempts :
    /\ attempts[a].order = attempts[b].order
    /\ "FAILED" \notin {attempts[a].status, attempts[b].status}
    => a = b

\* Orders, holds and attempts agree after every step, so that none of the transactions
\* meets a state that another one left half done.
OrdersAgree == HoldFollowsOrder /\ PaymentFollowsOrder /\ OneBlockingAttempt

\* A confirmed or expired order is finished: no late result, retry or sweep
\* changes it, its hold or its attempts.
FinishedIsFinal ==
  [][\A o \in DOMAIN orders :
       orders[o].status \in {"CONFIRMED", "EXPIRED"} =>
         /\ orders'[o] = orders[o]
         /\ reservations'[o].status = reservations[o].status
         /\ AttemptsOf(o)' = AttemptsOf(o)
         /\ \A a \in AttemptsOf(o) : attempts'[a] = attempts[a]]_vars

\* Stock is taken back from an order only after its hold lapsed, and only when
\* each payment it ever started has failed for good.
ReleasedOnlyUnpaid ==
  [][\A o \in DOMAIN orders :
       reservations[o].status = "ACTIVE" /\ reservations'[o].status = "EXPIRED" =>
         Lapsed(o) /\ \A a \in AttemptsOf(o) : attempts'[a].status = "FAILED"]_vars

\* The whole is an allocation of limited stock.  What is on sale are the rows of
\* stock; an order holds its request until it is CONFIRMED or EXPIRED.
Outcome(status) ==
  CASE status = "CONFIRMED" -> "bought" [] status = "EXPIRED" -> "returned" [] OTHER -> "held"
Holdings == [o \in DOMAIN orders |-> [user |-> orders[o].user, items |-> orders[o].items,
                                     state |-> Outcome(orders[o].status)]]
A == INSTANCE Allocation WITH offered <- DOMAIN stock, holdings <- Holdings
AllocatesStock == A!Spec
=============================================================================
