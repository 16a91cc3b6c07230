--------------------------- MODULE CheckoutProofs ---------------------------
(***************************************************************************)
(* What holds of every execution of Checkout, whatever its users, sales,   *)
(* limits and times are.  First, what a sum of quantities does when an     *)
(* order is added to those it is taken over, when the orders outside them  *)
(* change, and when some are left out.  Then, layer by layer: every table  *)
(* has rows of its type that refer to rows that exist; the statuses of an  *)
(* order, its hold and its payment attempts agree; the counters are sums   *)
(* over the orders, no user is over a limit and a key makes one order.     *)
(***************************************************************************)
EXTENDS Checkout, FiniteSetTheorems, TLAPS

-----------------------------------------------------------------------------
(* Sums of quantities *)

\* A quantity a request asks for is at most MaxQuantity, and 0 for other items.
LEMMA QtyRange ==
  ASSUME NEW request \in Requests, NEW i
  PROVE  Qty(request, i) \in 0..MaxQuantity
<1>1. PICK S \in (SUBSET Items) \ {{}} : request \in [S -> 1..MaxQuantity]
  BY DEF Requests
<1>2. CASE i \in DOMAIN request
  BY <1>1, <1>2, QuantityAssumption DEF Qty
<1>3. CASE i \notin DOMAIN request
  BY <1>3, QuantityAssumption DEF Qty
<1> QED BY <1>2, <1>3

\* A sum over finitely many orders is a natural number.
LEMMA SumType ==
  ASSUME NEW requests, NEW S, IsFiniteSet(S), NEW i
  PROVE  IsFiniteSet(Units(requests, S, i)) /\ Sum(requests, S, i) \in Nat
<1>1. IsFiniteSet(1..MaxQuantity)
  BY FS_Interval, QuantityAssumption
<1>2. IsFiniteSet(S \X (1..MaxQuantity))
  BY <1>1, FS_Product
<1>3. Units(requests, S, i) \in SUBSET (S \X (1..MaxQuantity))
  BY DEF Units
<1>4. IsFiniteSet(Units(requests, S, i))
  BY <1>2, <1>3, FS_Subset
<1> QED BY <1>4, FS_CardinalityType DEF Sum

\* A sum depends only on what the orders it is taken over ask for.
LEMMA SumSame ==
  ASSUME NEW q, NEW r, NEW S, NEW i, \A o \in S : Qty(q[o], i) = Qty(r[o], i)
  PROVE  Sum(q, S, i) = Sum(r, S, i)
<1>1. Units(q, S, i) = Units(r, S, i)
  BY DEF Units
<1> QED BY <1>1 DEF Sum

\* The sum over orders that ask for none of an item is 0.
LEMMA SumZero ==
  ASSUME NEW requests, NEW S, NEW i, \A o \in S : Qty(requests[o], i) = 0
  PROVE  Sum(requests, S, i) = 0
<1>1. Units(requests, S, i) = {}
  BY QuantityAssumption DEF Units
<1> QED BY <1>1, FS_EmptySet DEF Sum

\* One more order adds its own quantity.
LEMMA SumAdd ==
  ASSUME NEW requests, NEW S, IsFiniteSet(S), NEW o, o \notin S, NEW i,
         Qty(requests[o], i) \in 0..MaxQuantity
  PROVE  Sum(requests, S \cup {o}, i) = Sum(requests, S, i) + Qty(requests[o], i)
<1> DEFINE n == Qty(requests[o], i)
           U == Units(requests, S, i)
           V == {o} \X (1..n)
<1>1. Units(requests, S \cup {o}, i) = U \cup V
  <2> SUFFICES ASSUME NEW u
               PROVE  u \in Units(requests, S \cup {o}, i) <=> u \in U \cup V
    OBVIOUS
  <2>1. ASSUME u \in Units(requests, S \cup {o}, i) PROVE u \in U \cup V
    BY <2>1 DEF Units
  <2>2. ASSUME u \in U PROVE u \in Units(requests, S \cup {o}, i)
    BY <2>2 DEF Units
  <2>3. ASSUME u \in V PROVE u \in Units(requests, S \cup {o}, i)
    BY <2>3, QuantityAssumption DEF Units
  <2> QED BY <2>1, <2>2, <2>3
<1>2. U \cap V = {}
  BY DEF Units
<1>3. IsFiniteSet(V) /\ Cardinality(V) = n
  <2>1. IsFiniteSet({o}) /\ Cardinality({o}) = 1
    BY FS_Singleton
  <2>2. n \in Nat
    BY QuantityAssumption
  <2>3. IsFiniteSet(1..n) /\ Cardinality(1..n) = n
    BY <2>2, FS_Interval
  <2>4. IsFiniteSet(V) /\ Cardinality(V) = Cardinality({o}) * Cardinality(1..n)
    BY <2>1, <2>3, FS_Product
  <2> QED BY <2>1, <2>2, <2>3, <2>4
<1>4. IsFiniteSet(U) /\ Cardinality(U) \in Nat
  BY SumType DEF Sum
<1>5. Cardinality(U \cup V) = Cardinality(U) + Cardinality(V) - Cardinality(U \cap V)
  BY <1>3, <1>4, FS_Union
<1>6. Cardinality(U \cap V) = 0
  BY <1>2, FS_EmptySet
<1>7. n \in Nat
  BY QuantityAssumption
<1>8. Cardinality(U \cup V) = Cardinality(U) + n
  <2> HIDE DEF n, U, V
  <2> QED BY <1>3, <1>4, <1>5, <1>6, <1>7
<1> QED BY <1>1, <1>8 DEF Sum

\* The sum over two disjoint sets of orders is the sum of their sums.
LEMMA SumUnion ==
  ASSUME NEW requests, NEW S, NEW T, IsFiniteSet(S), IsFiniteSet(T), S \cap T = {}, NEW i
  PROVE  Sum(requests, S \cup T, i) = Sum(requests, S, i) + Sum(requests, T, i)
<1> DEFINE U == Units(requests, S, i)
           V == Units(requests, T, i)
<1>1. Units(requests, S \cup T, i) = U \cup V /\ U \cap V = {}
  BY DEF Units
<1>2. IsFiniteSet(U) /\ Cardinality(U) \in Nat /\ IsFiniteSet(V) /\ Cardinality(V) \in Nat
  BY SumType DEF Sum
<1>3. Cardinality(U \cup V) = Cardinality(U) + Cardinality(V) - Cardinality(U \cap V)
  BY <1>2, FS_Union
<1>4. Cardinality(U \cap V) = 0
  BY <1>1, FS_EmptySet
<1> HIDE DEF U, V
<1>5. Cardinality(U \cup V) = Cardinality(U) + Cardinality(V)
  BY <1>2, <1>3, <1>4
<1> QED BY <1>1, <1>5 DEF Sum, U, V

\* Taking an order out takes its quantity out.
LEMMA SumRemove ==
  ASSUME NEW requests, NEW S, IsFiniteSet(S), NEW o \in S, NEW i,
         Qty(requests[o], i) \in 0..MaxQuantity
  PROVE  Sum(requests, S \ {o}, i) = Sum(requests, S, i) - Qty(requests[o], i)
<1> DEFINE T == S \ {o}
<1>1. IsFiniteSet(T) /\ o \notin T /\ S = T \cup {o}
  BY FS_RemoveElement
<1>2. Sum(requests, T, i) \in Nat
  BY <1>1, SumType
<1>3. Qty(requests[o], i) \in Nat
  BY QuantityAssumption
<1> HIDE DEF T
<1>4. Sum(requests, T \cup {o}, i) = Sum(requests, T, i) + Qty(requests[o], i)
  BY <1>1, SumAdd
<1> QED BY <1>1, <1>2, <1>3, <1>4 DEF T

\* A sum over fewer orders is no larger.
LEMMA SumSubset ==
  ASSUME NEW requests, NEW T, IsFiniteSet(T), NEW S \in SUBSET T, NEW i
  PROVE  Sum(requests, S, i) <= Sum(requests, T, i)
<1>1. IsFiniteSet(Units(requests, T, i))
  BY SumType
<1>2. Units(requests, S, i) \in SUBSET Units(requests, T, i)
  BY DEF Units
<1> QED BY <1>1, <1>2, FS_Subset DEF Sum

-----------------------------------------------------------------------------
(* Types and references *)

\* The counters are only integers here: that none gets below 0 is part of what
\* the stock invariant says.
StockInt == [available : Int, held : Int, sold : Int]

Tables ==
  /\ IsTable(sales, Sales, 0..MaxOpensIn)
  /\ IsTable(stock, Items, StockInt)
  /\ IsTable(orders, OrderIds, OrderRow)
  /\ IsTable(reservations, OrderIds, ReservationRow)
  /\ IsTable(attempts, AttemptIds, AttemptRow)

\* The foreign keys.
References ==
  /\ DOMAIN reservations = DOMAIN orders
  /\ \A a \in DOMAIN attempts : attempts[a].order \in DOMAIN orders
  /\ \A i \in Items : i \in DOMAIN stock <=> SaleOf[i] \in DOMAIN sales
  /\ \A o \in DOMAIN orders : DOMAIN orders[o].items \subseteq DOMAIN stock

TypeInv == Tables /\ References

\* What a request may be.
LEMMA RequestType ==
  ASSUME NEW request \in Requests
  PROVE  /\ DOMAIN request \subseteq Items
         /\ \A i \in DOMAIN request : request[i] \in 1..MaxQuantity
BY DEF Requests

\* What holding n pieces does to the counters of an item.
LEMMA HoldRow ==
  ASSUME NEW row \in StockInt, NEW n \in Int
  PROVE  /\ Hold(row, n) \in StockInt
         /\ Hold(row, n).available = row.available - n
         /\ Hold(row, n).held = row.held + n
         /\ Hold(row, n).sold = row.sold
BY DEF Hold, StockInt

\* What settling n held pieces does to the counters of an item.
LEMMA SettleRow ==
  ASSUME NEW row \in StockInt, NEW n \in Int, NEW confirm \in BOOLEAN
  PROVE  /\ Settle(row, n, confirm) \in StockInt
         /\ Settle(row, n, confirm).available = IF confirm THEN row.available ELSE row.available + n
         /\ Settle(row, n, confirm).held = row.held - n
         /\ Settle(row, n, confirm).sold = IF confirm THEN row.sold + n ELSE row.sold
BY DEF Settle, StockInt

\* The tables are empty at first.
LEMMA TypeInvInit ==
  Init => TypeInv
<1> SUFFICES ASSUME Init PROVE TypeInv
  OBVIOUS
<1>1. DOMAIN sales = {} /\ DOMAIN stock = {} /\ DOMAIN orders = {}
      /\ DOMAIN reservations = {} /\ DOMAIN attempts = {}
  BY DEF Init
<1>2. Tables
  BY <1>1 DEF Tables, IsTable, Init
<1>3. References
  BY <1>1, ItemsAssumption DEF References
<1> QED BY <1>2, <1>3 DEF TypeInv

\* A sale puts its items, and no others, on offer.
LEMMA TypeInvCreateSale ==
  ASSUME TypeInv, NEW s \in Sales, NEW opensAt \in 0..MaxOpensIn, CreateSale(s, opensAt)
  PROVE  TypeInv'
<1> DEFINE items == {i \in Items : SaleOf[i] = s}
<1>1. /\ IsTable(sales', Sales, 0..MaxOpensIn)
      /\ DOMAIN sales' = DOMAIN sales \cup {s}
  <2>1. IsTable(sales, Sales, 0..MaxOpensIn)
    BY DEF TypeInv, Tables
  <2>2. sales' = Insert(sales, s, opensAt)
    BY DEF CreateSale
  <2> QED BY <2>1, <2>2 DEF IsTable, Insert
<1>2. DOMAIN stock' = DOMAIN stock \cup items
  BY DEF CreateSale
<1>3. IsTable(stock', Items, StockInt)
  <2>1. \A i \in Items : [available |-> Total[i], held |-> 0, sold |-> 0] \in StockInt
    BY ItemsAssumption DEF StockInt
  <2> QED BY <2>1 DEF TypeInv, Tables, IsTable, CreateSale
<1>4. Tables'
  BY <1>1, <1>3 DEF TypeInv, Tables, CreateSale
<1>5. References'
  BY <1>1, <1>2 DEF TypeInv, References, CreateSale
<1> QED BY <1>4, <1>5 DEF TypeInv

\* The new order and its hold are rows of their types, for items on sale.
LEMMA TypeInvPurchase ==
  ASSUME TypeInv, NEW u \in Users, NEW k \in Keys, NEW s \in Sales,
         NEW request \in Requests, NEW o \in OrderIds, Purchase(u, k, s, request, o)
  PROVE  TypeInv'
<1> DEFINE order == [user |-> u, key |-> k, sale |-> s, items |-> request,
                     status |-> "PAYMENT_PENDING"]
           hold == [status |-> "ACTIVE", holdExpiresAt |-> HoldSeconds,
                    confirmationDeadline |-> Null]
<1>1. order \in OrderRow
  BY DEF OrderRow, OrderStatus
<1>2. hold \in ReservationRow
  BY TimesAssumption DEF ReservationRow
<1>3. /\ orders' = Insert(orders, o, order)
      /\ reservations' = Insert(reservations, o, hold)
  BY DEF Purchase, Place
<1> HIDE DEF order, hold
<1>4. /\ IsTable(orders', OrderIds, OrderRow)
      /\ DOMAIN orders' = DOMAIN orders \cup {o}
      /\ orders'[o] = order
      /\ \A x \in DOMAIN orders : x # o => orders'[x] = orders[x]
  <2>1. IsTable(orders, OrderIds, OrderRow)
    BY DEF TypeInv, Tables
  <2> QED BY <1>1, <1>3, <2>1 DEF IsTable, Insert
<1>5. /\ IsTable(reservations', OrderIds, ReservationRow)
      /\ DOMAIN reservations' = DOMAIN reservations \cup {o}
  <2>1. IsTable(reservations, OrderIds, ReservationRow)
    BY DEF TypeInv, Tables
  <2> QED BY <1>2, <1>3, <2>1 DEF IsTable, Insert
<1>6. IsTable(stock', Items, StockInt) /\ DOMAIN stock' = DOMAIN stock
  <2>1. \A i \in DOMAIN stock : Hold(stock[i], Qty(request, i)) \in StockInt
    BY QtyRange, HoldRow DEF TypeInv, Tables, IsTable
  <2> QED BY <2>1 DEF TypeInv, Tables, IsTable, Purchase
<1>7. Tables'
  BY <1>4, <1>5, <1>6 DEF TypeInv, Tables, Purchase
<1>8. DOMAIN request \subseteq DOMAIN stock
  BY RequestType DEF Purchase, TypeInv, References
<1>9. References'
  <2>1. order.items = request
    BY DEF order
  <2> QED BY <1>4, <1>5, <1>6, <1>8, <2>1 DEF TypeInv, References, Purchase
<1> QED BY <1>7, <1>9 DEF TypeInv

\* moveStock changes counters only.
LEMMA TypeMoveStock ==
  ASSUME TypeInv, NEW o \in DOMAIN orders, NEW confirm \in BOOLEAN, MoveStock(o, confirm)
  PROVE  IsTable(stock', Items, StockInt) /\ DOMAIN stock' = DOMAIN stock
<1>1. orders[o].items \in Requests
  BY DEF TypeInv, Tables, IsTable, OrderRow
<1>2. \A i \in DOMAIN stock :
        Settle(stock[i], Qty(orders[o].items, i), confirm) \in StockInt
  BY <1>1, QtyRange, SettleRow DEF TypeInv, Tables, IsTable
<1> QED BY <1>2 DEF MoveStock, TypeInv, Tables, IsTable

\* A new status of an order or of its hold changes nothing else of the row.
LEMMA SetOrderStatus ==
  ASSUME Tables, NEW o \in DOMAIN orders, NEW status \in OrderStatus,
         orders' = [orders EXCEPT ![o].status = status]
  PROVE  /\ IsTable(orders', OrderIds, OrderRow)
         /\ DOMAIN orders' = DOMAIN orders
         /\ \A x \in DOMAIN orders :
              /\ orders'[x].items = orders[x].items
              /\ orders'[x].user = orders[x].user
              /\ orders'[x].key = orders[x].key
              /\ orders'[x].status = IF x = o THEN status ELSE orders[x].status
BY DEF Tables, IsTable, OrderRow

\* The same of a hold.
LEMMA SetHoldStatus ==
  ASSUME Tables, NEW o \in DOMAIN reservations, NEW status \in {"ACTIVE", "CONFIRMED", "EXPIRED"},
         reservations' = [reservations EXCEPT ![o].status = status]
  PROVE  /\ IsTable(reservations', OrderIds, ReservationRow)
         /\ DOMAIN reservations' = DOMAIN reservations
         /\ \A x \in DOMAIN reservations :
              reservations'[x].status = IF x = o THEN status ELSE reservations[x].status
BY DEF Tables, IsTable, ReservationRow

\* Confirming keeps the tables it writes well typed, and every request.
LEMMA TypeInvConfirm ==
  ASSUME TypeInv, NEW o \in DOMAIN orders, Confirm(o)
  PROVE  /\ IsTable(stock', Items, StockInt) /\ DOMAIN stock' = DOMAIN stock
         /\ IsTable(orders', OrderIds, OrderRow) /\ DOMAIN orders' = DOMAIN orders
         /\ IsTable(reservations', OrderIds, ReservationRow)
         /\ DOMAIN reservations' = DOMAIN orders
         /\ \A x \in DOMAIN orders : orders'[x].items = orders[x].items
<1>1. Tables /\ o \in DOMAIN reservations /\ DOMAIN reservations = DOMAIN orders
  BY DEF TypeInv, References
<1>2. IsTable(stock', Items, StockInt) /\ DOMAIN stock' = DOMAIN stock
  BY TypeMoveStock DEF Confirm
<1>3. /\ IsTable(orders', OrderIds, OrderRow) /\ DOMAIN orders' = DOMAIN orders
      /\ \A x \in DOMAIN orders : orders'[x].items = orders[x].items
  BY <1>1, SetOrderStatus DEF Confirm, OrderStatus
<1>4. IsTable(reservations', OrderIds, ReservationRow) /\ DOMAIN reservations' = DOMAIN reservations
  BY <1>1, SetHoldStatus DEF Confirm
<1> QED BY <1>1, <1>2, <1>3, <1>4

\* Releasing does the same.
LEMMA TypeInvRelease ==
  ASSUME TypeInv, NEW o \in DOMAIN orders, Release(o)
  PROVE  /\ IsTable(stock', Items, StockInt) /\ DOMAIN stock' = DOMAIN stock
         /\ IsTable(orders', OrderIds, OrderRow) /\ DOMAIN orders' = DOMAIN orders
         /\ IsTable(reservations', OrderIds, ReservationRow)
         /\ DOMAIN reservations' = DOMAIN orders
         /\ \A x \in DOMAIN orders : orders'[x].items = orders[x].items
<1>1. Tables /\ o \in DOMAIN reservations /\ DOMAIN reservations = DOMAIN orders
  BY DEF TypeInv, References
<1>2. IsTable(stock', Items, StockInt) /\ DOMAIN stock' = DOMAIN stock
  BY TypeMoveStock DEF Release
<1>3. /\ IsTable(orders', OrderIds, OrderRow) /\ DOMAIN orders' = DOMAIN orders
      /\ \A x \in DOMAIN orders : orders'[x].items = orders[x].items
  BY <1>1, SetOrderStatus DEF Release, OrderStatus
<1>4. IsTable(reservations', OrderIds, ReservationRow) /\ DOMAIN reservations' = DOMAIN reservations
  BY <1>1, SetHoldStatus DEF Release
<1> QED BY <1>1, <1>2, <1>3, <1>4

\* The new attempt refers to an order that exists.
LEMMA TypeInvStart ==
  ASSUME TypeInv, NEW o \in OrderIds, NEW k \in Keys, NEW scenario \in Scenarios,
         NEW a \in AttemptIds, Start(o, k, scenario, a)
  PROVE  TypeInv'
<1>1. o \in DOMAIN orders /\ o \in DOMAIN reservations /\ Tables
  BY DEF TypeInv, References, Start
<1>2. /\ IsTable(orders', OrderIds, OrderRow) /\ DOMAIN orders' = DOMAIN orders
      /\ \A x \in DOMAIN orders : orders'[x].items = orders[x].items
  BY <1>1, SetOrderStatus DEF Start, OrderStatus
<1>3. /\ IsTable(attempts', AttemptIds, AttemptRow)
      /\ \A b \in DOMAIN attempts' :
           attempts'[b].order = IF b = a THEN o ELSE attempts[b].order
      /\ DOMAIN attempts' = DOMAIN attempts \cup {a}
  BY <1>1 DEF Start, Tables, IsTable, Insert, AttemptRow
<1>4. IsTable(reservations', OrderIds, ReservationRow) /\ DOMAIN reservations' = DOMAIN reservations
  BY <1>1, TimesAssumption DEF Start, Tables, IsTable, ReservationRow
<1>5. UNCHANGED <<sales, stock>>
  BY DEF Start
<1>6. Tables'
  BY <1>1, <1>2, <1>3, <1>4, <1>5 DEF Tables
<1>7. References'
  BY <1>1, <1>2, <1>3, <1>4, <1>5 DEF TypeInv, References
<1> QED BY <1>6, <1>7 DEF TypeInv

\* Whatever a result does to its order, attempts keep their orders.
LEMMA TypeInvApply ==
  ASSUME TypeInv, NEW a \in AttemptIds, NEW result \in Results, Apply(a, result)
  PROVE  TypeInv'
<1> DEFINE o == attempts[a].order
<1>1. a \in DOMAIN attempts /\ o \in DOMAIN orders /\ Tables
  BY DEF TypeInv, References, Apply
<1>2. /\ IsTable(attempts', AttemptIds, AttemptRow)
      /\ DOMAIN attempts' = DOMAIN attempts
      /\ \A b \in DOMAIN attempts : attempts'[b].order = attempts[b].order
  BY <1>1 DEF Apply, Tables, IsTable, AttemptRow
<1>3. /\ IsTable(stock', Items, StockInt) /\ DOMAIN stock' = DOMAIN stock
      /\ IsTable(orders', OrderIds, OrderRow) /\ DOMAIN orders' = DOMAIN orders
      /\ IsTable(reservations', OrderIds, ReservationRow)
      /\ DOMAIN reservations' = DOMAIN orders
      /\ \A x \in DOMAIN orders : orders'[x].items = orders[x].items
  <2>1. CASE Confirm(o)
    BY <1>1, <2>1, TypeInvConfirm
  <2>2. CASE Release(o)
    BY <1>1, <2>2, TypeInvRelease
  <2>3. CASE /\ orders' = [orders EXCEPT ![o].status = "PAYMENT_PENDING"]
             /\ UNCHANGED <<stock, reservations>>
    BY <1>1, <2>3, SetOrderStatus DEF OrderStatus, TypeInv, Tables, References
  <2>4. CASE UNCHANGED <<stock, orders, reservations>>
    BY <2>4 DEF TypeInv, Tables, References
  <2> QED BY <2>1, <2>2, <2>3, <2>4 DEF Apply
<1>4. sales' = sales
  BY DEF Apply
<1> HIDE DEF o
<1>5. Tables'
  BY <1>1, <1>2, <1>3, <1>4 DEF Tables
<1>6. References'
  BY <1>2, <1>3, <1>4 DEF TypeInv, References
<1> QED BY <1>5, <1>6 DEF TypeInv

\* The sweep writes what a release writes.
LEMMA TypeInvExpire ==
  ASSUME TypeInv, NEW o \in OrderIds, Expire(o)
  PROVE  TypeInv'
<1>1. o \in DOMAIN orders /\ Release(o) /\ UNCHANGED <<sales, attempts>>
  BY DEF Expire
<1>2. /\ IsTable(stock', Items, StockInt) /\ DOMAIN stock' = DOMAIN stock
      /\ IsTable(orders', OrderIds, OrderRow) /\ DOMAIN orders' = DOMAIN orders
      /\ IsTable(reservations', OrderIds, ReservationRow)
      /\ DOMAIN reservations' = DOMAIN orders
      /\ \A x \in DOMAIN orders : orders'[x].items = orders[x].items
  BY <1>1, TypeInvRelease
<1> QED BY <1>1, <1>2 DEF TypeInv, Tables, References

\* Time left never gets below 0, and null stays null.
LEMMA TypeInvTick ==
  ASSUME TypeInv, Tick
  PROVE  TypeInv'
<1>1. \A n \in Nat : \A left \in 0..n : Sooner(left) \in 0..n
  BY DEF Sooner
<1>2. Sooner(Null) = Null
  BY DEF Sooner, Null
<1>3. IsTable(sales', Sales, 0..MaxOpensIn) /\ DOMAIN sales' = DOMAIN sales
  BY <1>1, TimesAssumption DEF Tick, TypeInv, Tables, IsTable
<1>4. IsTable(reservations', OrderIds, ReservationRow) /\ DOMAIN reservations' = DOMAIN reservations
  <2>1. \A x \in DOMAIN reservations :
          [reservations[x] EXCEPT !.holdExpiresAt = Sooner(@),
                                  !.confirmationDeadline = Sooner(@)] \in ReservationRow
    BY <1>1, <1>2, TimesAssumption DEF TypeInv, Tables, IsTable, ReservationRow
  <2> QED BY <2>1 DEF Tick, TypeInv, Tables, IsTable
<1>5. UNCHANGED <<stock, orders, attempts>>
  BY DEF Tick
<1> QED BY <1>3, <1>4, <1>5 DEF TypeInv, Tables, References

\* Every step keeps the types and references.
LEMMA TypeInvNext ==
  TypeInv /\ [Next]_vars => TypeInv'
<1> SUFFICES ASSUME TypeInv, [Next]_vars PROVE TypeInv'
  OBVIOUS
<1>1. CASE UNCHANGED vars
  BY <1>1 DEF vars, TypeInv, Tables, References
<1>2. CASE Next
  BY <1>2, TypeInvCreateSale, TypeInvPurchase, TypeInvStart, TypeInvApply, TypeInvExpire,
     TypeInvTick DEF Next
<1> QED BY <1>1, <1>2

-----------------------------------------------------------------------------
(* Orders, holds and payments agree *)

StateInv == HoldFollowsOrder /\ PaymentFollowsOrder /\ OneBlockingAttempt

\* The same, said of each attempt: what an attempt's status says of its order.
AttemptInv ==
  /\ \A a \in DOMAIN attempts :
       LET status == orders[attempts[a].order].status IN
       /\ ~Terminal(a) => status = "PAYMENT_PROCESSING"
       /\ attempts[a].status = "SUCCEEDED" => status = "CONFIRMED"
  /\ \A o \in DOMAIN orders :
       /\ orders[o].status = "PAYMENT_PROCESSING" =>
            \E a \in DOMAIN attempts : attempts[a].order = o /\ ~Terminal(a)
       /\ orders[o].status = "CONFIRMED" =>
            \E a \in DOMAIN attempts : attempts[a].order = o /\ attempts[a].status = "SUCCEEDED"

\* With references intact the two say the same.
LEMMA AttemptInvSame ==
  ASSUME TypeInv
  PROVE  PaymentFollowsOrder <=> AttemptInv
BY DEF PaymentFollowsOrder, AttemptInv, TypeInv, References, OpenAttempts, AttemptsOf

\* There is nothing to disagree at first.
LEMMA StateInvInit ==
  Init => StateInv
<1> SUFFICES ASSUME Init PROVE StateInv
  OBVIOUS
<1>1. DOMAIN orders = {} /\ DOMAIN reservations = {} /\ DOMAIN attempts = {}
  BY DEF Init
<1> QED BY <1>1 DEF StateInv, HoldFollowsOrder, PaymentFollowsOrder, OneBlockingAttempt

\* A new order has no attempts.
LEMMA StateInvPurchase ==
  ASSUME TypeInv, StateInv, NEW u \in Users, NEW k \in Keys, NEW s \in Sales,
         NEW request \in Requests, NEW o \in OrderIds, Purchase(u, k, s, request, o)
  PROVE  StateInv'
<1>1. /\ DOMAIN orders' = DOMAIN orders \cup {o} /\ o \notin DOMAIN orders
      /\ orders'[o].status = "PAYMENT_PENDING"
      /\ \A x \in DOMAIN orders : orders'[x] = orders[x]
  BY DEF Purchase, Place, Insert
<1>2. /\ DOMAIN reservations' = DOMAIN reservations \cup {o}
      /\ reservations'[o].status = "ACTIVE"
      /\ \A x \in DOMAIN reservations : x # o => reservations'[x] = reservations[x]
  BY DEF Purchase, Place, Insert
<1>3. attempts' = attempts
  BY DEF Purchase
<1>4. HoldFollowsOrder'
  BY <1>1, <1>2 DEF StateInv, HoldFollowsOrder
<1>5. PaymentFollowsOrder'
  BY <1>1, <1>3 DEF StateInv, PaymentFollowsOrder, OpenAttempts, AttemptsOf, Terminal,
                    TypeInv, References
<1>6. OneBlockingAttempt'
  BY <1>3 DEF StateInv, OneBlockingAttempt
<1> QED BY <1>4, <1>5, <1>6 DEF StateInv

\* All earlier attempts of the order have failed.
LEMMA StateInvStart ==
  ASSUME TypeInv, StateInv, NEW o \in OrderIds, NEW k \in Keys, NEW scenario \in Scenarios,
         NEW a \in AttemptIds, Start(o, k, scenario, a)
  PROVE  StateInv'
<1>1. o \in DOMAIN orders /\ Tables /\ AttemptInv /\ o \in DOMAIN reservations
  BY AttemptInvSame DEF TypeInv, Start, StateInv, References
<1>2. /\ DOMAIN orders' = DOMAIN orders
      /\ \A x \in DOMAIN orders : orders'[x].status =
           IF x = o THEN "PAYMENT_PROCESSING" ELSE orders[x].status
  BY <1>1, SetOrderStatus DEF Start, OrderStatus
<1>3. /\ DOMAIN attempts' = DOMAIN attempts \cup {a} /\ a \notin DOMAIN attempts
      /\ attempts'[a].order = o /\ attempts'[a].status = "CREATED"
      /\ \A b \in DOMAIN attempts : attempts'[b] = attempts[b]
  BY DEF Start, Insert
<1>4. \A b \in DOMAIN attempts : attempts[b].order = o => attempts[b].status = "FAILED"
  BY DEF Start, AttemptsOf
<1>5. /\ DOMAIN reservations' = DOMAIN reservations
      /\ \A x \in DOMAIN reservations : reservations'[x].status = reservations[x].status
  BY <1>1 DEF Start, Tables, IsTable, ReservationRow
<1>6. HoldFollowsOrder'
  BY <1>1, <1>2, <1>5 DEF StateInv, HoldFollowsOrder, Start
<1>7. AttemptInv'
  <2>1. orders[o].status = "PAYMENT_PENDING"
    BY DEF Start
  <2>2. \A b \in DOMAIN attempts' :
          LET status == orders'[attempts'[b].order].status IN
          /\ ~Terminal(b)' => status = "PAYMENT_PROCESSING"
          /\ attempts'[b].status = "SUCCEEDED" => status = "CONFIRMED"
    BY <1>1, <1>2, <1>3, <1>4 DEF AttemptInv, Terminal, TypeInv, References
  <2>3. \A x \in DOMAIN orders' :
          /\ orders'[x].status = "PAYMENT_PROCESSING" =>
               \E b \in DOMAIN attempts' : attempts'[b].order = x /\ ~Terminal(b)'
          /\ orders'[x].status = "CONFIRMED" =>
               \E b \in DOMAIN attempts' : attempts'[b].order = x /\ attempts'[b].status = "SUCCEEDED"
    BY <1>1, <1>2, <1>3, <2>1 DEF AttemptInv, Terminal
  <2> QED BY <2>2, <2>3 DEF AttemptInv
<1>8. OneBlockingAttempt'
  BY <1>3, <1>4 DEF StateInv, OneBlockingAttempt
<1>9. TypeInv'
  BY TypeInvStart
<1>10. PaymentFollowsOrder'
  BY <1>7, <1>9, AttemptInvSame, PTL
<1> QED BY <1>6, <1>8, <1>10 DEF StateInv

\* Confirm and Release move the order and its hold to the same final status.
LEMMA SettleStatus ==
  ASSUME TypeInv, NEW o \in DOMAIN orders, NEW status \in {"CONFIRMED", "EXPIRED"},
         orders' = [orders EXCEPT ![o].status = status],
         reservations' = [reservations EXCEPT ![o].status = status]
  PROVE  /\ DOMAIN orders' = DOMAIN orders
         /\ \A x \in DOMAIN orders :
              orders'[x].status = IF x = o THEN status ELSE orders[x].status
         /\ HoldFollowsOrder => HoldFollowsOrder'
<1>1. Tables /\ o \in DOMAIN reservations /\ DOMAIN reservations = DOMAIN orders
  BY DEF TypeInv, References
<1>2. /\ DOMAIN orders' = DOMAIN orders
      /\ \A x \in DOMAIN orders :
           orders'[x].status = IF x = o THEN status ELSE orders[x].status
  BY <1>1, SetOrderStatus DEF OrderStatus
<1>3. /\ DOMAIN reservations' = DOMAIN reservations
      /\ \A x \in DOMAIN reservations :
           reservations'[x].status = IF x = o THEN status ELSE reservations[x].status
  BY <1>1, SetHoldStatus
<1> QED BY <1>1, <1>2, <1>3 DEF HoldFollowsOrder

\* An attempt without a final result is the only one that is not FAILED; its
\* order is in payment, and its new status decides what becomes of the order.
LEMMA StateInvApply ==
  ASSUME TypeInv, StateInv, NEW a \in AttemptIds, NEW result \in Results, Apply(a, result)
  PROVE  StateInv'
<1> DEFINE o == attempts[a].order
<1>1. /\ a \in DOMAIN attempts /\ o \in DOMAIN orders /\ ~Terminal(a)
      /\ Tables /\ AttemptInv
  BY AttemptInvSame DEF TypeInv, References, Apply, StateInv
<1>2. /\ DOMAIN attempts' = DOMAIN attempts
      /\ \A b \in DOMAIN attempts :
           /\ attempts'[b].order = attempts[b].order
           /\ attempts'[b].status = IF b = a THEN result ELSE attempts[b].status
  BY <1>1 DEF Apply, Tables, IsTable, AttemptRow
<1>3. /\ orders[o].status = "PAYMENT_PROCESSING"
      /\ reservations[o].status = "ACTIVE"
      /\ \A b \in DOMAIN attempts : b # a /\ attempts[b].order = o => attempts[b].status = "FAILED"
  BY <1>1 DEF AttemptInv, StateInv, HoldFollowsOrder, OneBlockingAttempt, Terminal
<1>4. /\ DOMAIN orders' = DOMAIN orders
      /\ \A x \in DOMAIN orders : x # o => orders'[x].status = orders[x].status
      /\ result = "SUCCEEDED" => orders'[o].status = "CONFIRMED"
      /\ result = "FAILED" => orders'[o].status \in {"PAYMENT_PENDING", "EXPIRED"}
      /\ result = "UNKNOWN" => orders'[o].status = "PAYMENT_PROCESSING"
      /\ HoldFollowsOrder'
  <2>0. HoldFollowsOrder /\ o \in DOMAIN orders
    BY <1>1 DEF StateInv
  <2>1. CASE result = "SUCCEEDED" /\ Confirm(o)
    <3>1. /\ orders' = [orders EXCEPT ![o].status = "CONFIRMED"]
          /\ reservations' = [reservations EXCEPT ![o].status = "CONFIRMED"]
      BY <2>1 DEF Confirm
    <3> HIDE DEF o
    <3>2. /\ DOMAIN orders' = DOMAIN orders
          /\ \A x \in DOMAIN orders :
               orders'[x].status = IF x = o THEN "CONFIRMED" ELSE orders[x].status
          /\ HoldFollowsOrder'
      BY <2>0, <3>1, SettleStatus
    <3> QED BY <2>0, <2>1, <3>2
  <2>2. CASE result = "FAILED" /\ Release(o)
    <3>1. /\ orders' = [orders EXCEPT ![o].status = "EXPIRED"]
          /\ reservations' = [reservations EXCEPT ![o].status = "EXPIRED"]
      BY <2>2 DEF Release
    <3> HIDE DEF o
    <3>2. /\ DOMAIN orders' = DOMAIN orders
          /\ \A x \in DOMAIN orders :
               orders'[x].status = IF x = o THEN "EXPIRED" ELSE orders[x].status
          /\ HoldFollowsOrder'
      BY <2>0, <3>1, SettleStatus
    <3> QED BY <2>0, <2>2, <3>2
  <2>3. CASE /\ result = "FAILED"
             /\ orders' = [orders EXCEPT ![o].status = "PAYMENT_PENDING"]
             /\ UNCHANGED <<stock, reservations>>
    <3>1. /\ DOMAIN orders' = DOMAIN orders
          /\ \A x \in DOMAIN orders :
               orders'[x].status = IF x = o THEN "PAYMENT_PENDING" ELSE orders[x].status
      BY <1>1, <2>3, SetOrderStatus DEF OrderStatus
    <3>2. reservations' = reservations /\ reservations[o].status = "ACTIVE"
      BY <1>3, <2>3
    <3> HIDE DEF o
    <3>3. HoldFollowsOrder'
      BY <2>0, <3>1, <3>2 DEF HoldFollowsOrder
    <3> QED BY <2>0, <2>3, <3>1, <3>3
  <2>4. CASE result = "UNKNOWN" /\ UNCHANGED <<stock, orders, reservations>>
    BY <1>3, <2>4 DEF StateInv, HoldFollowsOrder
  <2> QED BY <2>1, <2>2, <2>3, <2>4 DEF Apply
<1> HIDE DEF o
<1>5. attempts[a].order = o
  BY DEF o
<1>6. AttemptInv'
  <2>1. \A b \in DOMAIN attempts' :
          LET status == orders'[attempts'[b].order].status IN
          /\ ~Terminal(b)' => status = "PAYMENT_PROCESSING"
          /\ attempts'[b].status = "SUCCEEDED" => status = "CONFIRMED"
    BY <1>1, <1>2, <1>3, <1>4, <1>5 DEF AttemptInv, Terminal, TypeInv, References, Results
  <2>2. ASSUME NEW x \in DOMAIN orders', x # o
        PROVE  /\ orders'[x].status = "PAYMENT_PROCESSING" =>
                    \E b \in DOMAIN attempts' : attempts'[b].order = x /\ ~Terminal(b)'
               /\ orders'[x].status = "CONFIRMED" =>
                    \E b \in DOMAIN attempts' : attempts'[b].order = x /\ attempts'[b].status = "SUCCEEDED"
    BY <1>1, <1>2, <1>4, <1>5, <2>2 DEF AttemptInv, Terminal
  <2>3. /\ orders'[o].status = "PAYMENT_PROCESSING" =>
             \E b \in DOMAIN attempts' : attempts'[b].order = o /\ ~Terminal(b)'
        /\ orders'[o].status = "CONFIRMED" =>
             \E b \in DOMAIN attempts' : attempts'[b].order = o /\ attempts'[b].status = "SUCCEEDED"
    BY <1>1, <1>2, <1>4, <1>5 DEF Terminal, Results
  <2> QED BY <2>1, <2>2, <2>3 DEF AttemptInv
<1>7. OneBlockingAttempt'
  BY <1>1, <1>2, <1>3, <1>5 DEF StateInv, OneBlockingAttempt
<1>8. TypeInv'
  BY TypeInvApply
<1>9. PaymentFollowsOrder'
  BY <1>6, <1>8, AttemptInvSame, PTL
<1> QED BY <1>4, <1>7, <1>9 DEF StateInv

\* An order the sweep takes is not in payment, so no attempt of it is open.
LEMMA StateInvExpire ==
  ASSUME TypeInv, StateInv, NEW o \in OrderIds, Expire(o)
  PROVE  StateInv'
<1>1. /\ o \in DOMAIN orders /\ orders[o].status = "PAYMENT_PENDING"
      /\ AttemptInv /\ attempts' = attempts
  BY AttemptInvSame DEF Expire, Due, StateInv
<1>2. /\ DOMAIN orders' = DOMAIN orders
      /\ \A x \in DOMAIN orders :
           orders'[x].status = IF x = o THEN "EXPIRED" ELSE orders[x].status
      /\ HoldFollowsOrder'
  BY <1>1, SettleStatus DEF Expire, Release, StateInv
<1>3. AttemptInv'
  BY <1>1, <1>2 DEF AttemptInv, Terminal, TypeInv, References
<1>4. TypeInv'
  BY TypeInvExpire
<1>5. PaymentFollowsOrder'
  BY <1>3, <1>4, AttemptInvSame, PTL
<1>6. OneBlockingAttempt'
  BY <1>1 DEF StateInv, OneBlockingAttempt
<1> QED BY <1>2, <1>5, <1>6 DEF StateInv

\* Time changes no status.
LEMMA StateInvTick ==
  ASSUME TypeInv, StateInv, Tick
  PROVE  StateInv'
<1>1. UNCHANGED <<stock, orders, attempts>>
  BY DEF Tick
<1>2. /\ DOMAIN reservations' = DOMAIN reservations
      /\ \A x \in DOMAIN reservations : reservations'[x].status = reservations[x].status
  BY DEF Tick, TypeInv, Tables, IsTable, ReservationRow
<1> QED BY <1>1, <1>2 DEF StateInv, HoldFollowsOrder, PaymentFollowsOrder, OneBlockingAttempt,
                          OpenAttempts, AttemptsOf, Terminal

\* Every step keeps orders, holds and payments in agreement.
LEMMA StateInvNext ==
  TypeInv /\ StateInv /\ [Next]_vars => StateInv'
<1> SUFFICES ASSUME TypeInv, StateInv, [Next]_vars PROVE StateInv'
  OBVIOUS
<1>1. CASE UNCHANGED <<orders, reservations, attempts>>
  BY <1>1 DEF StateInv, HoldFollowsOrder, PaymentFollowsOrder, OneBlockingAttempt,
              OpenAttempts, AttemptsOf, Terminal
<1>2. ASSUME NEW s \in Sales, NEW opensAt \in 0..MaxOpensIn, CreateSale(s, opensAt)
      PROVE  StateInv'
  BY <1>1, <1>2 DEF CreateSale
<1>3. CASE UNCHANGED vars
  BY <1>1, <1>3 DEF vars
<1> QED BY <1>2, <1>3, StateInvPurchase, StateInvStart, StateInvApply, StateInvExpire,
           StateInvTick DEF Next

-----------------------------------------------------------------------------
(* The kinds of step *)

HoldsStock == {"PAYMENT_PENDING", "PAYMENT_PROCESSING"}

\* No order is made, and none changes its owner, its key or its request.
SameRequests ==
  /\ DOMAIN orders' = DOMAIN orders
  /\ \A x \in DOMAIN orders :
       /\ orders'[x].items = orders[x].items
       /\ orders'[x].user = orders[x].user
       /\ orders'[x].key = orders[x].key

\* Order o, which held stock, gets its final status.
SettleStep(o, confirm) ==
  /\ orders[o].status \in HoldsStock
  /\ MoveStock(o, confirm)
  /\ SameRequests
  /\ \A x \in DOMAIN orders :
       orders'[x].status = IF x # o THEN orders[x].status
                           ELSE IF confirm THEN "CONFIRMED" ELSE "EXPIRED"

\* No order gains or loses its stock.
KeepStep ==
  /\ stock' = stock
  /\ SameRequests
  /\ \A x \in DOMAIN orders :
       orders'[x].status = orders[x].status \/ {orders[x].status, orders'[x].status} \subseteq HoldsStock

\* Confirm and Release settle an order that holds stock.
LEMMA ConfirmSettles ==
  ASSUME TypeInv, StateInv, NEW o \in DOMAIN orders, orders[o].status \in HoldsStock, Confirm(o)
  PROVE  SettleStep(o, TRUE)
<1>1. orders' = [orders EXCEPT ![o].status = "CONFIRMED"] /\ MoveStock(o, TRUE)
  BY DEF Confirm
<1>2. SameRequests /\ \A x \in DOMAIN orders :
        orders'[x].status = IF x = o THEN "CONFIRMED" ELSE orders[x].status
  BY <1>1, SetOrderStatus DEF SameRequests, TypeInv, OrderStatus
<1> QED BY <1>1, <1>2 DEF SettleStep

\* Releasing settles it the other way.
LEMMA ReleaseSettles ==
  ASSUME TypeInv, StateInv, NEW o \in DOMAIN orders, orders[o].status \in HoldsStock, Release(o)
  PROVE  SettleStep(o, FALSE)
<1>1. orders' = [orders EXCEPT ![o].status = "EXPIRED"] /\ MoveStock(o, FALSE)
  BY DEF Release
<1>2. SameRequests /\ \A x \in DOMAIN orders :
        orders'[x].status = IF x = o THEN "EXPIRED" ELSE orders[x].status
  BY <1>1, SetOrderStatus DEF SameRequests, TypeInv, OrderStatus
<1> QED BY <1>1, <1>2 DEF SettleStep

\* A result is for an order in payment: it settles the order or leaves it its stock.
LEMMA ApplyKind ==
  ASSUME TypeInv, StateInv, NEW a \in AttemptIds, NEW result \in Results, Apply(a, result)
  PROVE  KeepStep \/ \E o \in DOMAIN orders, confirm \in BOOLEAN : SettleStep(o, confirm)
<1> DEFINE o == attempts[a].order
<1>1. o \in DOMAIN orders /\ Tables
  BY DEF TypeInv, References, Apply
<1>2. orders[o].status = "PAYMENT_PROCESSING"
  BY AttemptInvSame DEF AttemptInv, StateInv, Apply
<1>3. orders[o].status \in HoldsStock
  BY <1>2 DEF HoldsStock
<1>4. CASE Confirm(o)
  BY <1>1, <1>3, <1>4, ConfirmSettles
<1>5. CASE Release(o)
  BY <1>1, <1>3, <1>5, ReleaseSettles
<1>6. CASE /\ orders' = [orders EXCEPT ![o].status = "PAYMENT_PENDING"]
           /\ UNCHANGED <<stock, reservations>>
  <2>1. orders' = [orders EXCEPT ![o].status = "PAYMENT_PENDING"] /\ stock' = stock
    BY <1>6
  <2> HIDE DEF o
  <2> QED BY <1>1, <1>2, <2>1, SetOrderStatus DEF KeepStep, SameRequests, HoldsStock, OrderStatus
<1>7. CASE UNCHANGED <<stock, orders, reservations>>
  BY <1>7 DEF KeepStep, SameRequests
<1> QED BY <1>4, <1>5, <1>6, <1>7 DEF Apply

\* Every step is of one of four kinds.
LEMMA StepKind ==
  ASSUME TypeInv, StateInv, [Next]_vars
  PROVE  \/ \E s \in Sales, opensAt \in 0..MaxOpensIn : CreateSale(s, opensAt)
         \/ \E u \in Users, k \in Keys, s \in Sales, request \in Requests, o \in OrderIds :
              Purchase(u, k, s, request, o)
         \/ \E o \in DOMAIN orders, confirm \in BOOLEAN : SettleStep(o, confirm)
         \/ KeepStep
<1>1. ASSUME NEW o \in OrderIds, NEW k \in Keys, NEW scenario \in Scenarios,
             NEW a \in AttemptIds, Start(o, k, scenario, a)
      PROVE  KeepStep
  <2>1. o \in DOMAIN orders /\ orders[o].status = "PAYMENT_PENDING" /\ stock' = stock
        /\ orders' = [orders EXCEPT ![o].status = "PAYMENT_PROCESSING"] /\ Tables
    BY <1>1 DEF Start, TypeInv
  <2> QED BY <2>1, SetOrderStatus DEF KeepStep, SameRequests, HoldsStock, OrderStatus
<1>2. ASSUME NEW o \in OrderIds, Expire(o)
      PROVE  \E p \in DOMAIN orders, confirm \in BOOLEAN : SettleStep(p, confirm)
  <2>1. o \in DOMAIN orders /\ orders[o].status \in HoldsStock /\ Release(o)
    BY <1>2 DEF Expire, Due, HoldsStock
  <2> QED BY <2>1, ReleaseSettles
<1>3. CASE UNCHANGED <<stock, orders>>
  BY <1>3 DEF KeepStep, SameRequests
<1>4. CASE Tick
  BY <1>3, <1>4 DEF Tick
<1>5. CASE UNCHANGED vars
  BY <1>3, <1>5 DEF vars
<1> QED BY <1>1, <1>2, <1>4, <1>5, ApplyKind DEF Next

-----------------------------------------------------------------------------
(* Sums *)

\* There are finitely many orders, and each asks for a bounded quantity.
LEMMA OrdersFinite ==
  ASSUME TypeInv, NEW Status
  PROVE  /\ IsFiniteSet(OrdersIn(Status))
         /\ \A u : IsFiniteSet(Unexpired(u))
         /\ \A o \in DOMAIN orders, i \in Items : Qty(Lines[o], i) \in 0..MaxQuantity
<1>1. DOMAIN orders \subseteq OrderIds
  BY DEF TypeInv, Tables, IsTable
<1>2. OrdersIn(Status) \in SUBSET OrderIds /\ \A u : Unexpired(u) \in SUBSET OrderIds
  BY <1>1 DEF OrdersIn, Unexpired
<1>3. \A o \in DOMAIN orders : Lines[o] \in Requests
  BY DEF Lines, TypeInv, Tables, IsTable, OrderRow
<1> QED BY <1>2, <1>3, FS_Subset, IdsAssumption, QtyRange

\* An item that is not on sale yet is in no order.
LEMMA NotYetOrdered ==
  ASSUME TypeInv, NEW i \in Items, i \notin DOMAIN stock, NEW S \in SUBSET DOMAIN orders
  PROVE  Sum(Lines, S, i) = 0
<1>1. \A o \in S : Qty(Lines[o], i) = 0
  BY DEF TypeInv, References, Lines, Qty
<1> QED BY <1>1, SumZero

\* A purchase adds one order, and what it asks for, to a sum.
LEMMA SumPurchase ==
  ASSUME TypeInv, NEW u \in Users, NEW k \in Keys, NEW s \in Sales,
         NEW request \in Requests, NEW o \in OrderIds, Purchase(u, k, s, request, o),
         NEW S \in SUBSET DOMAIN orders, NEW i \in Items
  PROVE  /\ Sum(Lines', S, i) = Sum(Lines, S, i)
         /\ Sum(Lines', S \cup {o}, i) = Sum(Lines, S, i) + Qty(request, i)
<1>1. /\ DOMAIN orders' = DOMAIN orders \cup {o} /\ o \notin DOMAIN orders
      /\ orders'[o].items = request
      /\ \A x \in DOMAIN orders : orders'[x] = orders[x]
  BY DEF Purchase, Place, Insert
<1>2. Lines'[o] = request /\ \A x \in S : Lines'[x] = Lines[x]
  BY <1>1 DEF Lines
<1>3. Sum(Lines', S, i) = Sum(Lines, S, i)
  BY <1>2, SumSame
<1>4. IsFiniteSet(S) /\ o \notin S
  BY <1>1, IdsAssumption, FS_Subset DEF TypeInv, Tables, IsTable
<1>5. Qty(Lines'[o], i) \in 0..MaxQuantity
  BY <1>2, QtyRange
<1>6. Sum(Lines', S \cup {o}, i) = Sum(Lines', S, i) + Qty(Lines'[o], i)
  BY <1>4, <1>5, SumAdd
<1> QED BY <1>2, <1>3, <1>6

\* Other steps change which orders a sum is taken over, never their requests.
LEMMA SumKept ==
  ASSUME SameRequests, NEW S \in SUBSET DOMAIN orders, NEW i
  PROVE  Sum(Lines', S, i) = Sum(Lines, S, i)
<1>1. \A x \in S : Lines'[x] = Lines[x]
  BY DEF SameRequests, Lines
<1> QED BY <1>1, SumSame

-----------------------------------------------------------------------------
(* The stock counters *)

Bought == {"CONFIRMED"}

\* StockMatchesOrders says nothing of the sign of available: InStock does that.
StockInv == StockMatchesOrders /\ \A i \in DOMAIN stock : stock[i].available >= 0

\* There are no counters and no orders at first.
LEMMA StockInvInit ==
  Init => StockInv
<1> SUFFICES ASSUME Init PROVE StockInv
  OBVIOUS
<1>1. DOMAIN stock = {}
  BY DEF Init
<1> QED BY <1>1 DEF StockInv, StockMatchesOrders

\* New counters start with nothing held or sold, and no order asks for them.
LEMMA StockInvCreateSale ==
  ASSUME TypeInv, StockInv, NEW s \in Sales, NEW opensAt \in 0..MaxOpensIn,
         CreateSale(s, opensAt)
  PROVE  StockInv'
<1> DEFINE items == {i \in Items : SaleOf[i] = s}
<1>1. UNCHANGED <<Lines, OrdersIn(HoldsStock), OrdersIn(Bought)>>
  BY DEF CreateSale, Lines, OrdersIn, HoldsStock, Bought
<1>2. /\ DOMAIN stock' = DOMAIN stock \cup items
      /\ \A i \in items : stock'[i] = [available |-> Total[i], held |-> 0, sold |-> 0]
      /\ \A i \in DOMAIN stock \ items : stock'[i] = stock[i]
  BY DEF CreateSale
<1>3. ASSUME NEW i \in items
      PROVE  Sum(Lines, OrdersIn(HoldsStock), i) = 0 /\ Sum(Lines, OrdersIn(Bought), i) = 0
  <2>1. i \notin DOMAIN stock
    BY DEF TypeInv, References, CreateSale
  <2>2. OrdersIn(HoldsStock) \in SUBSET DOMAIN orders /\ OrdersIn(Bought) \in SUBSET DOMAIN orders
    BY DEF OrdersIn
  <2> QED BY <2>1, <2>2, NotYetOrdered
<1>4. ASSUME NEW i \in DOMAIN stock'
      PROVE  /\ stock'[i].held = Sum(Lines', OrdersIn(HoldsStock)', i)
             /\ stock'[i].sold = Sum(Lines', OrdersIn(Bought)', i)
             /\ stock'[i].available + stock'[i].held + stock'[i].sold = Total[i]
             /\ stock'[i].available >= 0
  <2>1. CASE i \in items
    <3>1. Total[i] \in Nat
      BY <2>1, ItemsAssumption
    <3>2. stock'[i] = [available |-> Total[i], held |-> 0, sold |-> 0]
      BY <1>2, <2>1
    <3>3. Sum(Lines', OrdersIn(HoldsStock)', i) = 0 /\ Sum(Lines', OrdersIn(Bought)', i) = 0
      BY <1>1, <1>3, <2>1
    <3> HIDE DEF items
    <3>4. stock'[i].available = Total[i] /\ stock'[i].held = 0 /\ stock'[i].sold = 0
      BY <3>2
    <3> QED BY <3>1, <3>3, <3>4
  <2>2. CASE i \notin items
    BY <1>1, <1>2, <2>2 DEF StockInv, StockMatchesOrders, HoldsStock, Bought
  <2> QED BY <2>1, <2>2
<1> QED BY <1>4 DEF StockInv, StockMatchesOrders, HoldsStock, Bought

\* What is taken from the available pieces is what the new order holds.
LEMMA StockInvPurchase ==
  ASSUME TypeInv, StockInv, NEW u \in Users, NEW k \in Keys, NEW s \in Sales,
         NEW request \in Requests, NEW o \in OrderIds, Purchase(u, k, s, request, o)
  PROVE  StockInv'
<1>1. /\ DOMAIN orders' = DOMAIN orders \cup {o} /\ o \notin DOMAIN orders
      /\ orders'[o].status = "PAYMENT_PENDING"
      /\ \A x \in DOMAIN orders : orders'[x] = orders[x]
  BY DEF Purchase, Place, Insert
<1>2. /\ OrdersIn(HoldsStock)' = OrdersIn(HoldsStock) \cup {o}
      /\ OrdersIn(Bought)' = OrdersIn(Bought)
  BY <1>1 DEF OrdersIn, HoldsStock, Bought
<1>3. OrdersIn(HoldsStock) \in SUBSET DOMAIN orders /\ OrdersIn(Bought) \in SUBSET DOMAIN orders
  BY DEF OrdersIn
<1>4. ASSUME NEW i \in DOMAIN stock'
      PROVE  /\ stock'[i].held = Sum(Lines', OrdersIn(HoldsStock)', i)
             /\ stock'[i].sold = Sum(Lines', OrdersIn(Bought)', i)
             /\ stock'[i].available + stock'[i].held + stock'[i].sold = Total[i]
             /\ stock'[i].available >= 0
  <2> DEFINE n == Qty(request, i)
  <2>1. i \in DOMAIN stock /\ stock'[i] = Hold(stock[i], n)
    BY DEF Purchase
  <2>2. i \in Items /\ stock[i] \in StockInt /\ n \in Nat
    BY <2>1, QtyRange, QuantityAssumption DEF TypeInv, Tables, IsTable
  <2>3. /\ stock'[i].available = stock[i].available - n
        /\ stock'[i].held = stock[i].held + n
        /\ stock'[i].sold = stock[i].sold
    BY <2>1, <2>2, HoldRow
  <2>4. stock[i].available >= n
    BY <2>1 DEF Purchase, InStock, StockInv, Qty
  <2>5. /\ Sum(Lines', OrdersIn(HoldsStock) \cup {o}, i) = Sum(Lines, OrdersIn(HoldsStock), i) + n
        /\ Sum(Lines', OrdersIn(Bought), i) = Sum(Lines, OrdersIn(Bought), i)
    <3>1. ASSUME NEW S \in SUBSET DOMAIN orders
          PROVE  /\ Sum(Lines', S, i) = Sum(Lines, S, i)
                 /\ Sum(Lines', S \cup {o}, i) = Sum(Lines, S, i) + Qty(request, i)
      <4>1. i \in Items
        BY <2>2
      <4> QED BY <4>1, SumPurchase
    <3> QED BY <1>3, <3>1
  <2>6. /\ stock[i].held = Sum(Lines, OrdersIn(HoldsStock), i)
        /\ stock[i].sold = Sum(Lines, OrdersIn(Bought), i)
        /\ stock[i].available + stock[i].held + stock[i].sold = Total[i]
    BY <2>1 DEF StockInv, StockMatchesOrders, HoldsStock, Bought
  <2>7. stock[i].available \in Int /\ stock[i].held \in Int /\ stock[i].sold \in Int
    BY <2>2 DEF StockInt
  <2> HIDE DEF n
  <2> QED BY <1>2, <2>2, <2>3, <2>4, <2>5, <2>6, <2>7
<1> QED BY <1>4 DEF StockInv, StockMatchesOrders, HoldsStock, Bought

\* What an order stops holding is sold or available again.
LEMMA StockInvSettle ==
  ASSUME TypeInv, StockInv, NEW o \in DOMAIN orders, NEW confirm \in BOOLEAN,
         SettleStep(o, confirm)
  PROVE  StockInv'
<1>1. /\ OrdersIn(HoldsStock)' = OrdersIn(HoldsStock) \ {o}
      /\ OrdersIn(Bought)' = IF confirm THEN OrdersIn(Bought) \cup {o} ELSE OrdersIn(Bought)
      /\ o \in OrdersIn(HoldsStock) /\ o \notin OrdersIn(Bought)
  BY DEF SettleStep, SameRequests, OrdersIn, HoldsStock, Bought
<1>2. /\ OrdersIn(HoldsStock) \in SUBSET DOMAIN orders
      /\ OrdersIn(HoldsStock)' \in SUBSET DOMAIN orders
      /\ OrdersIn(Bought)' \in SUBSET DOMAIN orders
  BY <1>1 DEF OrdersIn
<1>3. IsFiniteSet(OrdersIn(HoldsStock)) /\ IsFiniteSet(OrdersIn(Bought))
  BY OrdersFinite
<1>4. ASSUME NEW i \in DOMAIN stock'
      PROVE  /\ stock'[i].held = Sum(Lines', OrdersIn(HoldsStock)', i)
             /\ stock'[i].sold = Sum(Lines', OrdersIn(Bought)', i)
             /\ stock'[i].available + stock'[i].held + stock'[i].sold = Total[i]
             /\ stock'[i].available >= 0
  <2> DEFINE n == Qty(orders[o].items, i)
  <2>1. i \in DOMAIN stock /\ stock'[i] = Settle(stock[i], n, confirm)
    BY DEF SettleStep, MoveStock
  <2>2. i \in Items /\ stock[i] \in StockInt
    BY <2>1 DEF TypeInv, Tables, IsTable
  <2>3. n = Qty(Lines[o], i)
    BY DEF Lines
  <2>4. Qty(Lines[o], i) \in 0..MaxQuantity
    BY <2>2, OrdersFinite
  <2>5. n \in Nat
    BY <2>3, <2>4, QuantityAssumption
  <2>6. /\ stock'[i].available = IF confirm THEN stock[i].available ELSE stock[i].available + n
        /\ stock'[i].held = stock[i].held - n
        /\ stock'[i].sold = IF confirm THEN stock[i].sold + n ELSE stock[i].sold
    BY <2>1, <2>2, <2>5, SettleRow
  <2>7. /\ stock[i].held = Sum(Lines, OrdersIn(HoldsStock), i)
        /\ stock[i].sold = Sum(Lines, OrdersIn(Bought), i)
        /\ stock[i].available + stock[i].held + stock[i].sold = Total[i]
        /\ stock[i].available >= 0
    BY <2>1 DEF StockInv, StockMatchesOrders, HoldsStock, Bought
  <2>8. Sum(Lines, OrdersIn(HoldsStock) \ {o}, i) = Sum(Lines, OrdersIn(HoldsStock), i) - n
    BY <1>1, <1>3, <2>3, <2>4, SumRemove
  <2>9. Sum(Lines, OrdersIn(Bought) \cup {o}, i) = Sum(Lines, OrdersIn(Bought), i) + n
    BY <1>1, <1>3, <2>3, <2>4, SumAdd
  <2>10. /\ Sum(Lines', OrdersIn(HoldsStock)', i) = Sum(Lines, OrdersIn(HoldsStock)', i)
         /\ Sum(Lines', OrdersIn(Bought)', i) = Sum(Lines, OrdersIn(Bought)', i)
    BY <1>2, SumKept DEF SettleStep
  <2>11. stock[i].available \in Int /\ stock[i].held \in Int /\ stock[i].sold \in Int
    BY <2>2 DEF StockInt
  <2> HIDE DEF n
  <2>12. CASE confirm
    BY <1>1, <2>5, <2>6, <2>7, <2>8, <2>9, <2>10, <2>11, <2>12
  <2>13. CASE ~confirm
    BY <1>1, <2>5, <2>6, <2>7, <2>8, <2>10, <2>11, <2>13
  <2> QED BY <2>12, <2>13
<1> QED BY <1>4 DEF StockInv, StockMatchesOrders, HoldsStock, Bought

\* Neither the counters nor the sets they are sums over change.
LEMMA StockInvKeep ==
  ASSUME TypeInv, StockInv, KeepStep
  PROVE  StockInv'
<1>1. /\ OrdersIn(HoldsStock)' = OrdersIn(HoldsStock)
      /\ OrdersIn(Bought)' = OrdersIn(Bought)
      /\ OrdersIn(HoldsStock) \in SUBSET DOMAIN orders
      /\ OrdersIn(Bought) \in SUBSET DOMAIN orders
  BY DEF KeepStep, SameRequests, OrdersIn, HoldsStock, Bought
<1>2. stock' = stock /\ SameRequests
  BY DEF KeepStep
<1>3. \A i : /\ Sum(Lines', OrdersIn(HoldsStock), i) = Sum(Lines, OrdersIn(HoldsStock), i)
             /\ Sum(Lines', OrdersIn(Bought), i) = Sum(Lines, OrdersIn(Bought), i)
  BY <1>1, <1>2, SumKept
<1> QED BY <1>1, <1>2, <1>3 DEF StockInv, StockMatchesOrders, HoldsStock, Bought

\* Every step keeps the counters equal to the sums.
LEMMA StockInvNext ==
  TypeInv /\ StateInv /\ StockInv /\ [Next]_vars => StockInv'
BY StepKind, StockInvCreateSale, StockInvPurchase, StockInvSettle, StockInvKeep

-----------------------------------------------------------------------------
(* Limits and keys *)

\* Orders that are no longer counted stay so, and the others do not grow.
LEMMA UsedShrinks ==
  ASSUME TypeInv, SameRequests, NEW u, NEW i,
         \A x \in DOMAIN orders : orders[x].status = "EXPIRED" => orders'[x].status = "EXPIRED"
  PROVE  Used(u, i)' <= Used(u, i) /\ Used(u, i) \in Nat /\ Used(u, i)' \in Nat
<1>1. Unexpired(u)' \in SUBSET Unexpired(u)
  BY DEF SameRequests, Unexpired, OrdersIn, TypeInv, Tables, IsTable, OrderRow
<1>2. IsFiniteSet(Unexpired(u)) /\ Unexpired(u) \in SUBSET DOMAIN orders
  BY OrdersFinite DEF Unexpired, OrdersIn
<1>3. Sum(Lines', Unexpired(u)', i) = Sum(Lines, Unexpired(u)', i)
  BY <1>1, <1>2, SumKept
<1>4. Sum(Lines, Unexpired(u)', i) <= Sum(Lines, Unexpired(u), i)
  BY <1>1, <1>2, SumSubset
<1>5. IsFiniteSet(Unexpired(u)')
  BY <1>1, <1>2, FS_Subset
<1> QED BY <1>2, <1>3, <1>4, <1>5, SumType DEF Used

\* A new item is in no order.
LEMMA LimitCreateSale ==
  ASSUME TypeInv, WithinUserLimit, NEW s \in Sales, NEW opensAt \in 0..MaxOpensIn,
         CreateSale(s, opensAt)
  PROVE  WithinUserLimit'
<1>1. \A u, i : Used(u, i)' = Used(u, i)
  BY DEF CreateSale, Used, Lines, Unexpired, OrdersIn
<1>2. ASSUME NEW u \in Users, NEW i \in DOMAIN stock'
      PROVE  Used(u, i) <= PerUserLimit[i]
  <2>1. i \in Items
    BY DEF CreateSale, TypeInv, Tables, IsTable
  <2>2. CASE i \in DOMAIN stock
    BY <2>2 DEF WithinUserLimit
  <2>3. CASE i \notin DOMAIN stock
    <3>1. Unexpired(u) \in SUBSET DOMAIN orders
      BY DEF Unexpired, OrdersIn
    <3>2. Used(u, i) = 0
      BY <2>1, <2>3, <3>1, NotYetOrdered DEF Used
    <3>3. PerUserLimit[i] \in Nat
      BY <2>1, ItemsAssumption
    <3> QED BY <3>2, <3>3
  <2> QED BY <2>2, <2>3
<1> QED BY <1>1, <1>2 DEF WithinUserLimit

\* The buyer's total was checked against the limit, under the lock of the buyer's
\* orders of the item; nobody else's total changes.
LEMMA LimitPurchase ==
  ASSUME TypeInv, WithinUserLimit, NEW u \in Users, NEW k \in Keys, NEW s \in Sales,
         NEW request \in Requests, NEW o \in OrderIds, Purchase(u, k, s, request, o)
  PROVE  WithinUserLimit'
<1>1. /\ DOMAIN orders' = DOMAIN orders \cup {o} /\ o \notin DOMAIN orders
      /\ orders'[o].status = "PAYMENT_PENDING" /\ orders'[o].user = u
      /\ \A x \in DOMAIN orders : orders'[x] = orders[x]
  BY DEF Purchase, Place, Insert
<1>2. ASSUME NEW v \in Users, NEW i \in DOMAIN stock'
      PROVE  Used(v, i)' <= PerUserLimit[i]
  <2>1. i \in DOMAIN stock /\ i \in Items
    BY DEF Purchase, TypeInv, Tables, IsTable
  <2>2. Unexpired(v) \in SUBSET DOMAIN orders
    BY DEF Unexpired, OrdersIn
  <2>3. Used(v, i) <= PerUserLimit[i]
    BY <2>1 DEF WithinUserLimit
  <2>4. CASE v # u
    <3>1. Unexpired(v)' = Unexpired(v)
      BY <1>1, <2>4 DEF Unexpired, OrdersIn
    <3>2. Sum(Lines', Unexpired(v), i) = Sum(Lines, Unexpired(v), i)
      BY <2>1, <2>2, SumPurchase
    <3>3. Used(v, i)' = Used(v, i)
      BY <3>1, <3>2 DEF Used
    <3> QED BY <2>3, <3>3
  <2>5. CASE v = u
    <3>1. Unexpired(v)' = Unexpired(v) \cup {o}
      BY <1>1, <2>5 DEF Unexpired, OrdersIn, OrderStatus
    <3>2. Used(v, i)' = Used(v, i) + Qty(request, i)
      BY <2>1, <2>2, <3>1, SumPurchase DEF Used
    <3>3. CASE i \in DOMAIN request
      BY <2>5, <3>2, <3>3 DEF Purchase, WithinLimit, Qty
    <3>4. CASE i \notin DOMAIN request
      <4>1. IsFiniteSet(Unexpired(v))
        BY OrdersFinite
      <4>2. Used(v, i) \in Nat
        BY <4>1, SumType DEF Used
      <4>3. Used(v, i)' = Used(v, i)
        BY <3>2, <3>4, <4>2 DEF Qty
      <4> QED BY <2>3, <4>3
    <3> QED BY <3>3, <3>4
  <2> QED BY <2>4, <2>5
<1> QED BY <1>2 DEF WithinUserLimit

\* Every step keeps each user within the limits.
LEMMA LimitNext ==
  TypeInv /\ StateInv /\ WithinUserLimit /\ [Next]_vars => WithinUserLimit'
<1> SUFFICES ASSUME TypeInv, StateInv, WithinUserLimit, [Next]_vars
             PROVE  WithinUserLimit'
  OBVIOUS
<1>1. ASSUME SameRequests, DOMAIN stock' = DOMAIN stock,
             \A x \in DOMAIN orders : orders[x].status = "EXPIRED" => orders'[x].status = "EXPIRED"
      PROVE  WithinUserLimit'
  <2>1. ASSUME NEW u \in Users, NEW i \in DOMAIN stock PROVE Used(u, i)' <= PerUserLimit[i]
    <3>1. Used(u, i)' <= Used(u, i) /\ Used(u, i) \in Nat /\ Used(u, i)' \in Nat
      BY <1>1, UsedShrinks
    <3>2. Used(u, i) <= PerUserLimit[i] /\ PerUserLimit[i] \in Nat
      BY ItemsAssumption DEF WithinUserLimit, TypeInv, Tables, IsTable
    <3> QED BY <3>1, <3>2
  <2> QED BY <1>1, <2>1 DEF WithinUserLimit
<1>2. ASSUME NEW o \in DOMAIN orders, NEW confirm \in BOOLEAN, SettleStep(o, confirm)
      PROVE  WithinUserLimit'
  <2>1. \A x \in DOMAIN orders : orders[x].status = "EXPIRED" => orders'[x].status = "EXPIRED"
    BY <1>2 DEF SettleStep, HoldsStock
  <2> QED BY <1>1, <1>2, <2>1 DEF SettleStep, MoveStock
<1>3. CASE KeepStep
  BY <1>1, <1>3 DEF KeepStep, HoldsStock
<1> QED BY <1>2, <1>3, StepKind, LimitCreateSale, LimitPurchase

\* Only a purchase makes an order, and it found no order with its key.
LEMMA KeysNext ==
  TypeInv /\ StateInv /\ OneOrderPerKey /\ [Next]_vars => OneOrderPerKey'
<1> SUFFICES ASSUME TypeInv, StateInv, OneOrderPerKey, [Next]_vars
             PROVE  OneOrderPerKey'
  OBVIOUS
<1>1. CASE SameRequests
  BY <1>1 DEF SameRequests, OneOrderPerKey
<1>2. ASSUME NEW u \in Users, NEW k \in Keys, NEW s \in Sales, NEW request \in Requests,
             NEW o \in OrderIds, Purchase(u, k, s, request, o)
      PROVE  OneOrderPerKey'
  <2>1. /\ DOMAIN orders' = DOMAIN orders \cup {o}
        /\ orders'[o].user = u /\ orders'[o].key = k
        /\ \A x \in DOMAIN orders : x # o => orders'[x] = orders[x]
        /\ \A x \in DOMAIN orders : ~(orders[x].user = u /\ orders[x].key = k)
    BY <1>2 DEF Purchase, Place, Insert, KeyUnused
  <2> QED BY <2>1 DEF OneOrderPerKey
<1>3. CASE UNCHANGED orders
  BY <1>3 DEF OneOrderPerKey
<1> QED BY <1>1, <1>2, <1>3, StepKind DEF CreateSale, SettleStep, KeepStep

-----------------------------------------------------------------------------
(* Invariants *)

\* The inductive invariant.  Each part needs the ones before it: a sum is over
\* rows of the right type, and an order that a result settles holds its stock
\* because it is in payment.
Inv == TypeInv /\ StateInv /\ StockInv /\ WithinUserLimit /\ OneOrderPerKey

\* Every reachable state of the database satisfies the inductive invariant.
THEOREM Invariance == Spec => []Inv
<1>1. Init => Inv
  <2>1. Init => WithinUserLimit /\ OneOrderPerKey
    <3>1. Init => DOMAIN stock = {} /\ DOMAIN orders = {}
      BY DEF Init
    <3> QED BY <3>1 DEF WithinUserLimit, OneOrderPerKey
  <2> QED BY <2>1, TypeInvInit, StateInvInit, StockInvInit DEF Inv
<1>2. Inv /\ [Next]_vars => Inv'
  BY TypeInvNext, StateInvNext, StockInvNext, LimitNext, KeysNext DEF Inv
<1> QED BY <1>1, <1>2, PTL DEF Spec

\* No column ever holds a value outside its type, so none of the columns'
\* nonnegative CHECKs fires.
THEOREM TypeCorrect == Spec => []TypeOK
<1>1. Inv => TypeOK
  <2> SUFFICES ASSUME Inv PROVE IsTable(stock, Items, StockRow)
    BY DEF Inv, TypeInv, Tables, TypeOK
  <2>1. ASSUME NEW i \in DOMAIN stock PROVE stock[i] \in StockRow
    <3>1. stock[i] \in StockInt
      BY DEF Inv, TypeInv, Tables, IsTable
    <3>2. stock[i].held \in Nat /\ stock[i].sold \in Nat
      BY OrdersFinite, SumType DEF Inv, StockInv, StockMatchesOrders
    <3>3. stock[i].available >= 0
      BY DEF Inv, StockInv
    <3> QED BY <3>1, <3>2, <3>3 DEF StockInt, StockRow
  <2> QED BY <2>1 DEF Inv, TypeInv, Tables, IsTable
<1> QED BY <1>1, Invariance, PTL

\* Stock is neither oversold nor lost: the counters are the sums over the orders.
THEOREM StockIsRight == Spec => []StockMatchesOrders
<1>1. Inv => StockMatchesOrders
  BY DEF Inv, StockInv
<1> QED BY <1>1, Invariance, PTL

\* No sequence of purchases, expiries and retries gets a user past a limit.
THEOREM LimitIsKept == Spec => []WithinUserLimit
<1>1. Inv => WithinUserLimit
  BY DEF Inv
<1> QED BY <1>1, Invariance, PTL

\* A repeated request makes no second order.
THEOREM KeysAreUnique == Spec => []OneOrderPerKey
<1>1. Inv => OneOrderPerKey
  BY DEF Inv
<1> QED BY <1>1, Invariance, PTL

\* Orders, holds and payment attempts never disagree, so confirm() never throws.
THEOREM StatesAgree == Spec => []OrdersAgree
<1>1. Inv => OrdersAgree
  BY DEF Inv, StateInv, OrdersAgree
<1> QED BY <1>1, Invariance, PTL

-----------------------------------------------------------------------------
(* Steps *)

\* Attempts and orders are never deleted, and a final result is never changed.
LEMMA RowsStay ==
  ASSUME TypeInv, [Next]_vars
  PROVE  /\ DOMAIN orders \subseteq DOMAIN orders'
         /\ DOMAIN attempts \subseteq DOMAIN attempts'
         /\ \A a \in DOMAIN attempts :
              /\ attempts'[a].order = attempts[a].order
              /\ Terminal(a) => attempts'[a].status = attempts[a].status
<1>0. Tables /\ \A a \in DOMAIN attempts : attempts[a].order \in DOMAIN orders
  BY DEF TypeInv, References
<1>1. CASE UNCHANGED <<orders, attempts>>
  BY <1>1
<1>2. ASSUME NEW u \in Users, NEW k \in Keys, NEW s \in Sales, NEW request \in Requests,
             NEW o \in OrderIds, Purchase(u, k, s, request, o)
      PROVE  DOMAIN orders \subseteq DOMAIN orders' /\ attempts' = attempts
  BY <1>2 DEF Purchase, Place, Insert
<1>3. ASSUME NEW o \in OrderIds, NEW k \in Keys, NEW scenario \in Scenarios,
             NEW a \in AttemptIds, Start(o, k, scenario, a)
      PROVE  /\ DOMAIN orders' = DOMAIN orders
             /\ DOMAIN attempts \subseteq DOMAIN attempts'
             /\ \A b \in DOMAIN attempts : attempts'[b] = attempts[b]
  BY <1>3 DEF Start, Insert
<1>4. ASSUME NEW a \in AttemptIds, NEW result \in Results, Apply(a, result)
      PROVE  /\ DOMAIN orders' = DOMAIN orders /\ DOMAIN attempts' = DOMAIN attempts
             /\ \A b \in DOMAIN attempts :
                  /\ attempts'[b].order = attempts[b].order
                  /\ Terminal(b) => attempts'[b] = attempts[b]
  <2>1. DOMAIN orders' = DOMAIN orders
    BY <1>4 DEF Apply, Confirm, Release
  <2>2. attempts' = [attempts EXCEPT ![a].status = result] /\ ~Terminal(a)
    BY <1>4 DEF Apply
  <2> QED BY <1>0, <2>1, <2>2 DEF Tables, IsTable, AttemptRow
<1>5. ASSUME NEW o \in OrderIds, Expire(o)
      PROVE  DOMAIN orders' = DOMAIN orders /\ attempts' = attempts
  BY <1>5 DEF Expire, Release
<1>6. CASE Tick
  BY <1>1, <1>6 DEF Tick
<1>7. CASE \E s \in Sales, opensAt \in 0..MaxOpensIn : CreateSale(s, opensAt)
  BY <1>1, <1>7 DEF CreateSale
<1>8. CASE UNCHANGED vars
  BY <1>1, <1>8 DEF vars
<1> QED BY <1>2, <1>3, <1>4, <1>5, <1>6, <1>7, <1>8 DEF Next

\* What a result finds: its attempt is the only one of the order that has not
\* failed, and the order is in payment.
LEMMA ApplyFinds ==
  ASSUME Inv, NEW a \in AttemptIds, NEW result, Apply(a, result)
  PROVE  /\ a \in DOMAIN attempts /\ attempts[a].order \in DOMAIN orders
         /\ orders[attempts[a].order].status = "PAYMENT_PROCESSING"
         /\ \A b \in DOMAIN attempts :
              b # a /\ attempts[b].order = attempts[a].order => attempts[b].status = "FAILED"
<1>1. TypeInv /\ StateInv /\ AttemptInv
  BY AttemptInvSame DEF Inv, StateInv
<1>2. a \in DOMAIN attempts /\ ~Terminal(a)
  BY DEF Apply
<1> QED BY <1>1, <1>2 DEF AttemptInv, TypeInv, References, StateInv, OneBlockingAttempt, Terminal

\* A step leaves a finished order, its hold and its attempts alone.
LEMMA FinishedStep ==
  ASSUME Inv, [Next]_vars, NEW o \in DOMAIN orders, orders[o].status \in {"CONFIRMED", "EXPIRED"}
  PROVE  /\ orders'[o] = orders[o]
         /\ reservations'[o].status = reservations[o].status
         /\ AttemptsOf(o)' = AttemptsOf(o)
         /\ \A a \in AttemptsOf(o) : attempts'[a] = attempts[a]
<1>0. TypeInv /\ o \in DOMAIN reservations /\ Tables
  BY DEF Inv, TypeInv, References
<1>1. CASE UNCHANGED <<orders, reservations, attempts>>
  BY <1>1 DEF AttemptsOf
<1>2. ASSUME NEW u \in Users, NEW k \in Keys, NEW s \in Sales, NEW request \in Requests,
             NEW p \in OrderIds, Purchase(u, k, s, request, p)
      PROVE  orders'[o] = orders[o] /\ reservations'[o] = reservations[o] /\ attempts' = attempts
  BY <1>0, <1>2 DEF Purchase, Place, Insert
<1>3. ASSUME NEW p \in OrderIds, NEW k \in Keys, NEW scenario \in Scenarios,
             NEW a \in AttemptIds, Start(p, k, scenario, a)
      PROVE  /\ orders'[o] = orders[o] /\ reservations'[o] = reservations[o]
             /\ AttemptsOf(o)' = AttemptsOf(o)
             /\ \A b \in AttemptsOf(o) : attempts'[b] = attempts[b]
  <2>1. p # o /\ p \in DOMAIN orders /\ a \notin DOMAIN attempts
    BY <1>3 DEF Start
  <2>2. orders'[o] = orders[o] /\ reservations'[o] = reservations[o]
    BY <1>0, <1>3, <2>1 DEF Start, Tables, IsTable
  <2>3. /\ DOMAIN attempts' = DOMAIN attempts \cup {a} /\ attempts'[a].order = p
        /\ \A b \in DOMAIN attempts : attempts'[b] = attempts[b]
    BY <1>3, <2>1 DEF Start, Insert
  <2> QED BY <2>1, <2>2, <2>3 DEF AttemptsOf
<1>4. ASSUME NEW p \in DOMAIN orders, p # o, Confirm(p) \/ Release(p)
      PROVE  orders'[o] = orders[o] /\ reservations'[o] = reservations[o]
  BY <1>0, <1>4 DEF Confirm, Release, Tables, IsTable
<1>5. ASSUME NEW a \in AttemptIds, NEW result \in Results, Apply(a, result)
      PROVE  /\ orders'[o] = orders[o] /\ reservations'[o] = reservations[o]
             /\ AttemptsOf(o)' = AttemptsOf(o)
             /\ \A b \in AttemptsOf(o) : attempts'[b] = attempts[b]
  <2> DEFINE p == attempts[a].order
  <2>1. a \in DOMAIN attempts /\ p \in DOMAIN orders /\ p # o
    BY <1>5, ApplyFinds
  <2>2. orders'[o] = orders[o] /\ reservations'[o] = reservations[o]
    <3>1. CASE Confirm(p) \/ Release(p)
      BY <1>4, <2>1, <3>1
    <3>2. CASE orders' = [orders EXCEPT ![p].status = "PAYMENT_PENDING"] /\ reservations' = reservations
      BY <1>0, <2>1, <3>2 DEF Tables, IsTable
    <3> QED BY <1>5, <3>1, <3>2 DEF Apply
  <2>3. /\ DOMAIN attempts' = DOMAIN attempts
        /\ \A b \in DOMAIN attempts : attempts'[b].order = attempts[b].order
        /\ \A b \in DOMAIN attempts : b # a => attempts'[b] = attempts[b]
    BY <1>0, <1>5, <2>1 DEF Apply, Tables, IsTable, AttemptRow
  <2> QED BY <2>1, <2>2, <2>3 DEF AttemptsOf
<1>6. ASSUME NEW p \in OrderIds, Expire(p)
      PROVE  orders'[o] = orders[o] /\ reservations'[o] = reservations[o] /\ attempts' = attempts
  <2>1. p \in DOMAIN orders /\ p # o /\ Release(p) /\ attempts' = attempts
    BY <1>6 DEF Expire, Due
  <2> QED BY <1>4, <2>1
<1>7. CASE Tick
  <2>1. orders' = orders /\ attempts' = attempts
    BY <1>7 DEF Tick
  <2>2. reservations'[o].status = reservations[o].status
    BY <1>0, <1>7 DEF Tick, Tables, IsTable, ReservationRow
  <2> QED BY <2>1, <2>2 DEF AttemptsOf
<1>8. CASE \E s \in Sales, opensAt \in 0..MaxOpensIn : CreateSale(s, opensAt)
  BY <1>1, <1>8 DEF CreateSale
<1>9. CASE UNCHANGED vars
  BY <1>1, <1>9 DEF vars
<1>10. CASE \E u \in Users, k \in Keys, s \in Sales, request \in Requests, p \in OrderIds :
              Purchase(u, k, s, request, p)
  BY <1>2, <1>10 DEF AttemptsOf
<1>11. CASE \E p \in OrderIds : Expire(p)
  BY <1>6, <1>11 DEF AttemptsOf
<1> QED BY <1>3, <1>5, <1>7, <1>8, <1>9, <1>10, <1>11 DEF Next

\* A confirmed or expired order is never touched again.
THEOREM FinishedStays == Spec => FinishedIsFinal
<1>1. Inv /\ [Next]_vars =>
        [\A o \in DOMAIN orders :
           orders[o].status \in {"CONFIRMED", "EXPIRED"} =>
             /\ orders'[o] = orders[o]
             /\ reservations'[o].status = reservations[o].status
             /\ AttemptsOf(o)' = AttemptsOf(o)
             /\ \A a \in AttemptsOf(o) : attempts'[a] = attempts[a]]_vars
  BY FinishedStep
<1> QED BY <1>1, Invariance, PTL DEF Spec, FinishedIsFinal

\* A hold expires only when it lapsed, and only with every attempt FAILED.
LEMMA ReleaseStep ==
  ASSUME Inv, [Next]_vars, NEW o \in DOMAIN orders,
         reservations[o].status = "ACTIVE", reservations'[o].status = "EXPIRED"
  PROVE  Lapsed(o) /\ \A a \in AttemptsOf(o) : attempts'[a].status = "FAILED"
<1>0. TypeInv /\ o \in DOMAIN reservations /\ Tables /\ AttemptInv
  BY AttemptInvSame DEF Inv, StateInv, TypeInv, References
<1>1. ~ UNCHANGED reservations
  OBVIOUS
<1>2. ASSUME NEW u \in Users, NEW k \in Keys, NEW s \in Sales, NEW request \in Requests,
             NEW p \in OrderIds, Purchase(u, k, s, request, p)
      PROVE  FALSE
  BY <1>0, <1>2 DEF Purchase, Place, Insert
<1>3. ASSUME NEW p \in OrderIds, NEW k \in Keys, NEW scenario \in Scenarios,
             NEW a \in AttemptIds, Start(p, k, scenario, a)
      PROVE  FALSE
  BY <1>0, <1>3 DEF Start, Tables, IsTable, ReservationRow
<1>4. ASSUME NEW p \in DOMAIN orders, p # o, Confirm(p) \/ Release(p)
      PROVE  FALSE
  BY <1>0, <1>4 DEF Confirm, Release, Tables, IsTable
<1>5. ~ Confirm(o)
  BY <1>0, SetHoldStatus DEF Confirm
<1>6. ASSUME NEW a \in AttemptIds, NEW result \in Results, Apply(a, result)
      PROVE  Lapsed(o) /\ \A b \in AttemptsOf(o) : attempts'[b].status = "FAILED"
  <2> DEFINE p == attempts[a].order
  <2>1. /\ a \in DOMAIN attempts /\ p \in DOMAIN orders
        /\ \A b \in DOMAIN attempts : b # a /\ attempts[b].order = p => attempts[b].status = "FAILED"
    BY <1>6, ApplyFinds
  <2>2. result = "FAILED" /\ Lapsed(p) /\ Release(p) /\ p = o
    BY <1>1, <1>4, <1>5, <1>6, <2>1 DEF Apply
  <2>3. \A b \in DOMAIN attempts :
          attempts'[b].status = IF b = a THEN "FAILED" ELSE attempts[b].status
    BY <1>0, <1>6, <2>1, <2>2 DEF Apply, Tables, IsTable, AttemptRow
  <2> QED BY <2>1, <2>2, <2>3 DEF AttemptsOf
<1>7. ASSUME NEW p \in OrderIds, Expire(p)
      PROVE  Lapsed(o) /\ \A b \in AttemptsOf(o) : attempts'[b].status = "FAILED"
  <2>1. /\ p = o /\ Lapsed(p) /\ orders[p].status = "PAYMENT_PENDING"
        /\ attempts' = attempts
    BY <1>4, <1>7 DEF Expire, Due
  <2>2. \A b \in DOMAIN attempts : attempts[b].order = o => attempts[b].status = "FAILED"
    BY <1>0, <2>1 DEF AttemptInv, Terminal
  <2> QED BY <2>1, <2>2 DEF AttemptsOf
<1>8. ~ Tick
  BY <1>0 DEF Tick, Tables, IsTable, ReservationRow
<1>9. ~ \E s \in Sales, opensAt \in 0..MaxOpensIn : CreateSale(s, opensAt)
  BY <1>1 DEF CreateSale
<1>10. ~ UNCHANGED vars
  BY <1>1 DEF vars
<1> QED BY <1>2, <1>3, <1>6, <1>7, <1>8, <1>9, <1>10 DEF Next

\* Stock is never taken back from an order that paid or may still pay.
THEOREM ReleasesAreSafe == Spec => ReleasedOnlyUnpaid
<1>1. Inv /\ [Next]_vars =>
        [\A o \in DOMAIN orders :
           reservations[o].status = "ACTIVE" /\ reservations'[o].status = "EXPIRED" =>
             Lapsed(o) /\ \A a \in AttemptsOf(o) : attempts'[a].status = "FAILED"]_vars
  BY ReleaseStep
<1> QED BY <1>1, Invariance, PTL DEF Spec, ReleasedOnlyUnpaid

-----------------------------------------------------------------------------
(* Checkout implements Allocation *)

\* What the mapping makes of the statuses.
LEMMA Outcomes ==
  /\ Outcome("CONFIRMED") = "bought"
  /\ Outcome("EXPIRED") = "returned"
  /\ \A status \in HoldsStock : Outcome(status) = "held"
BY DEF Outcome, HoldsStock

\* Allocation's requests and sums are those of Checkout.
LEMMA SameQuantities ==
  A!Requests = Requests /\ \A requests, S, i : A!Sum(requests, S, i) = Sum(requests, S, i)
<1>1. \A request, i : A!Qty(request, i) = Qty(request, i)
  BY DEF A!Qty, Qty
<1>2. \A requests, S, i : A!Units(requests, S, i) = Units(requests, S, i)
  BY <1>1 DEF A!Units, Units
<1>3. \A S : A!Cardinality(S) = Cardinality(S)
  BY Zenon DEF A!Cardinality, Cardinality
<1>4. A!Requests = Requests
  BY DEF A!Requests, Requests
<1> QED BY <1>2, <1>3, <1>4 DEF A!Sum, Sum

\* What the mapping makes of the sums: what is taken of an item is held or sold,
\* what a user took is what OrderRepository.used counts.
LEMMA MappedSums ==
  ASSUME Inv, NEW i \in DOMAIN stock
  PROVE  /\ A!Taken(i) = stock[i].held + stock[i].sold
         /\ \A u : A!TakenBy(u, i) = Used(u, i)
<1>0. TypeInv
  BY DEF Inv
<1>1. A!Asked = Lines
  BY DEF A!Asked, Holdings, Lines
<1>2. \A o \in DOMAIN orders : orders[o].status \in OrderStatus
  BY <1>0 DEF TypeInv, Tables, IsTable, OrderRow
<1>3. /\ A!Kept = OrdersIn(OrderStatus \ {"EXPIRED"})
      /\ A!Kept = OrdersIn(HoldsStock) \cup OrdersIn(Bought)
  BY <1>2, Outcomes DEF A!Kept, Holdings, OrdersIn, OrderStatus, HoldsStock, Bought
<1>4. \A u : {o \in A!Kept : Holdings[o].user = u} = Unexpired(u)
  BY <1>3 DEF Unexpired, Holdings, OrdersIn
<1>5. /\ IsFiniteSet(OrdersIn(HoldsStock)) /\ IsFiniteSet(OrdersIn(Bought))
      /\ OrdersIn(HoldsStock) \cap OrdersIn(Bought) = {}
  BY <1>0, OrdersFinite DEF OrdersIn, HoldsStock, Bought
<1>6. A!Taken(i) = stock[i].held + stock[i].sold
  <2>1. Sum(Lines, OrdersIn(HoldsStock) \cup OrdersIn(Bought), i)
          = Sum(Lines, OrdersIn(HoldsStock), i) + Sum(Lines, OrdersIn(Bought), i)
    BY <1>5, SumUnion
  <2>2. A!Taken(i) = Sum(Lines, OrdersIn(HoldsStock) \cup OrdersIn(Bought), i)
    BY <1>1, <1>3, SameQuantities DEF A!Taken
  <2> QED BY <2>1, <2>2 DEF Inv, StockInv, StockMatchesOrders, HoldsStock, Bought
<1>7. ASSUME NEW u PROVE A!TakenBy(u, i) = Used(u, i)
  BY <1>1, <1>4, SameQuantities DEF A!TakenBy, Used
<1> QED BY <1>6, <1>7

\* Creating a sale offers its items.
LEMMA MapsCreateSale ==
  ASSUME Inv, NEW s \in Sales, NEW opensAt \in 0..MaxOpensIn, CreateSale(s, opensAt)
  PROVE  A!Next
<1> DEFINE items == {i \in Items : SaleOf[i] = s}
<1>1. A!Offer(items)
  BY DEF A!Offer, CreateSale, Holdings
<1>2. items \in SUBSET Items
  OBVIOUS
<1> QED BY <1>1, <1>2 DEF A!Next

\* A purchase is granted only what is left, within the limit.
LEMMA MapsPurchase ==
  ASSUME Inv, NEW u \in Users, NEW k \in Keys, NEW s \in Sales,
         NEW request \in Requests, NEW o \in OrderIds, Purchase(u, k, s, request, o)
  PROVE  A!Next
<1>1. ASSUME NEW i \in DOMAIN request
      PROVE  /\ i \in DOMAIN stock
             /\ A!Taken(i) + request[i] <= Total[i]
             /\ A!TakenBy(u, i) + request[i] <= PerUserLimit[i]
  <2>1. i \in DOMAIN stock /\ i \in Items
    BY RequestType DEF Purchase, Inv, TypeInv, References
  <2>2. /\ stock[i].available \in Int /\ stock[i].held \in Int /\ stock[i].sold \in Int
        /\ request[i] \in Int
    BY <2>1, RequestType, QuantityAssumption DEF Inv, TypeInv, Tables, IsTable, StockInt
  <2>3. stock[i].available >= request[i] /\ Used(u, i) + request[i] <= PerUserLimit[i]
    BY DEF Purchase, InStock, WithinLimit
  <2>4. stock[i].available + stock[i].held + stock[i].sold = Total[i]
    BY <2>1 DEF Inv, StockInv, StockMatchesOrders
  <2> QED BY <2>1, <2>2, <2>3, <2>4, MappedSums
<1>2. /\ DOMAIN orders' = DOMAIN orders \cup {o} /\ o \notin DOMAIN orders
      /\ orders'[o].user = u /\ orders'[o].items = request
      /\ orders'[o].status \in HoldsStock
      /\ \A x \in DOMAIN orders : orders'[x] = orders[x]
  BY DEF Purchase, Place, Insert, HoldsStock
<1>3. Holdings' = [x \in DOMAIN Holdings \cup {o} |->
                     IF x = o THEN [user |-> u, items |-> request, state |-> "held"]
                     ELSE Holdings[x]]
  BY <1>2, Outcomes DEF Holdings
<1>4. o \notin DOMAIN Holdings /\ DOMAIN stock' = DOMAIN stock
  BY <1>2 DEF Holdings, Purchase
<1>5. A!Hold(o, u, request)
  BY <1>1, <1>3, <1>4 DEF A!Hold
<1> QED BY <1>5, SameQuantities DEF A!Next

\* An order that gets its final status settles its holding.
LEMMA MapsSettle ==
  ASSUME Inv, NEW o \in DOMAIN orders, NEW confirm \in BOOLEAN, SettleStep(o, confirm)
  PROVE  A!Next
<1> DEFINE state == IF confirm THEN "bought" ELSE "returned"
<1>1. o \in DOMAIN Holdings /\ Holdings[o].state = "held" /\ o \in OrderIds
  BY Outcomes DEF Holdings, SettleStep, Inv, TypeInv, Tables, IsTable
<1>2. Outcome(orders'[o].status) = state
  BY Outcomes DEF SettleStep
<1>3. /\ DOMAIN orders' = DOMAIN orders
      /\ \A x \in DOMAIN orders : orders'[x].items = orders[x].items /\ orders'[x].user = orders[x].user
      /\ \A x \in DOMAIN orders : x # o => orders'[x].status = orders[x].status
  BY DEF SettleStep, SameRequests
<1>4. Holdings' = [Holdings EXCEPT ![o].state = state]
  <2> HIDE DEF state
  <2> QED BY <1>2, <1>3 DEF Holdings
<1>5. DOMAIN stock' = DOMAIN stock
  BY DEF SettleStep, MoveStock
<1>6. A!Settle(o, state)
  BY <1>1, <1>4, <1>5 DEF A!Settle
<1> QED BY <1>1, <1>6 DEF A!Next

\* Moving between the two statuses that hold stock is no step of the allocation.
LEMMA MapsKeep ==
  ASSUME Inv, KeepStep
  PROVE  UNCHANGED A!vars
<1>1. \A x \in DOMAIN orders : Outcome(orders'[x].status) = Outcome(orders[x].status)
  BY Outcomes DEF KeepStep
<1> QED BY <1>1 DEF KeepStep, SameRequests, Holdings, A!vars

\* The order database never does anything an allocation of limited stock may not.
THEOREM Refinement == Spec => AllocatesStock
<1>1. Init => A!Init
  <2> SUFFICES ASSUME Init PROVE A!Init
    OBVIOUS
  <2>1. orders = <<>> /\ DOMAIN orders = {} /\ DOMAIN stock = {}
    BY DEF Init
  <2> QED BY <2>1 DEF A!Init, Holdings
<1>2. Inv /\ [Next]_vars => [A!Next]_(A!vars)
  <2> SUFFICES ASSUME Inv, [Next]_vars PROVE A!Next \/ UNCHANGED A!vars
    OBVIOUS
  <2> QED BY StepKind, MapsCreateSale, MapsPurchase, MapsSettle, MapsKeep DEF Inv
<1> QED BY <1>1, <1>2, Invariance, PTL DEF Spec, AllocatesStock, A!Spec
=============================================================================
