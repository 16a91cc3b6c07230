---------------------------- MODULE TxLocksProofs ----------------------------
(***************************************************************************)
(* TxLocks, with any number of connections: what a transaction read under  *)
(* its locks is what is still committed when it writes, so each commit is  *)
(* one of Checkout's actions; and no circle of transactions waits for each *)
(* other's locks.                                                          *)
(***************************************************************************)
EXTENDS TxLocks, CheckoutProofs, WellFoundedInduction

-----------------------------------------------------------------------------
(* The inductive invariant *)

PurchaseJobs ==
  {[kind |-> "purchase", user |-> u, key |-> k, sale |-> s, items |-> request] :
     u \in Users, k \in Keys, s \in Sales, request \in Requests}
OrderJobs ==
  {[kind |-> "start", order |-> o, key |-> k, scenario |-> scenario] :
     o \in DOMAIN orders, k \in Keys, scenario \in Scenarios}
  \cup {[kind |-> "apply", attempt |-> a, result |-> result] :
          a \in DOMAIN attempts, result \in Results}
  \cup {[kind |-> "expire", order |-> o] : o \in DOMAIN orders}

KeyLock(job) == <<"key", job.user, job.key>>
OrderLock(job) == <<"order", OrderOf(job)>>
ItemLocks(S) == {<<"item", i>> : i \in S}
Paid(o) == [a \in AttemptsOf(o) |-> attempts[a]]

\* The items of a sale a purchase is for exist.
OnSale(job) == job.sale \in DOMAIN sales /\ \A i \in DOMAIN job.items : SaleOf[i] = job.sale

\* A transaction in each place of its way.
BasicFields == {"pc", "job", "held", "rows"}
Started(t) ==
  /\ t.pc = "begin"
  /\ t.job \in OrderJobs \/ (t.job \in PurchaseJobs /\ OnSale(t.job))
  /\ DOMAIN t = BasicFields /\ t.held = {} /\ t.rows = <<>>
HoldsKey(t) ==
  /\ t.pc = "key" /\ t.job \in PurchaseJobs /\ OnSale(t.job)
  /\ DOMAIN t = BasicFields /\ t.held = {KeyLock(t.job)} /\ t.rows = <<>>
HoldsOrder(t) ==
  /\ t.pc = "order" /\ t.job \in OrderJobs
  /\ DOMAIN t = BasicFields \cup {"order"} /\ t.held = {OrderLock(t.job)} /\ t.rows = <<>>
  /\ t.order = orders[OrderOf(t.job)]

\* The item rows it has are those it locked, the first ones by id, and are still
\* what is committed.
RowsLocked(t, first) ==
  /\ t.held = {first} \cup ItemLocks(DOMAIN t.rows)
  /\ \A i \in DOMAIN t.rows : t.rows[i] = stock[i]
  /\ \A i \in DOMAIN t.rows, j \in ToLock(t) : Position[i] < Position[j]

\* What a purchase found when it looked is so still.
MayBuy(t) ==
  /\ OnSale(t.job)
  /\ RowsLocked(t, KeyLock(t.job))
  /\ DOMAIN t.rows \subseteq DOMAIN t.job.items
  /\ KeyUnused(t.job.user, t.job.key)
  /\ sales[t.job.sale] = 0
LocksItems(t) ==
  /\ t.pc = "items" /\ t.job \in PurchaseJobs
  /\ DOMAIN t = BasicFields
  /\ MayBuy(t)
ChecksItems(t) ==
  /\ t.pc = "check" /\ t.job \in PurchaseJobs
  /\ DOMAIN t = BasicFields \cup {"unchecked"}
  /\ MayBuy(t)
  /\ DOMAIN t.rows = DOMAIN t.job.items
  /\ \A i \in DOMAIN t.rows \ t.unchecked :
       InStock(i, t.job.items[i]) /\ WithinLimit(t.job.user, i, t.job.items[i])

\* What a transaction read of its order is so still, and lets it go on.
MovesStock(t) ==
  LET o == OrderOf(t.job) IN
  /\ t.pc = "items" /\ t.job \in OrderJobs
  /\ DOMAIN t = BasicFields \cup {"order", "hold", "paid"}
  /\ t.order = orders[o] /\ t.hold = reservations[o] /\ t.paid = Paid(o)
  /\ ~Refuses(t)
  /\ RowsLocked(t, OrderLock(t.job))
  /\ DOMAIN t.rows \subseteq DOMAIN orders[o].items
  /\ Move(t) = "none" => DOMAIN t.rows = {}

Valid(t) ==
  \/ t = NoTx \/ Started(t)
  \/ HoldsKey(t) \/ LocksItems(t) \/ ChecksItems(t)
  \/ HoldsOrder(t) \/ MovesStock(t)

\* No lock is held twice.
Exclusive == \A s, r \in Sessions : s # r => tx[s].held \cap tx[r].held = {}

Transactions ==
  /\ DOMAIN tx = Sessions
  /\ \A s \in Sessions : Valid(tx[s])
  /\ Exclusive

\* The transactions, and what Checkout keeps of types and statuses.
LocksInv == TypeInv /\ StateInv /\ Transactions

-----------------------------------------------------------------------------
(* Jobs and places *)

\* What each kind of job carries.
LEMMA PurchaseJob ==
  ASSUME NEW job \in PurchaseJobs
  PROVE  /\ job.kind = "purchase"
         /\ job.user \in Users /\ job.key \in Keys /\ job.sale \in Sales
         /\ job.items \in Requests /\ DOMAIN job.items \subseteq Items
BY RequestType DEF PurchaseJobs

\* The order a job is about exists.
LEMMA OrderJob ==
  ASSUME TypeInv, NEW job \in OrderJobs
  PROVE  /\ OrderOf(job) \in DOMAIN orders
         /\ \/ job.kind = "start" /\ job.key \in Keys /\ job.scenario \in Scenarios
            \/ job.kind = "apply" /\ job.attempt \in DOMAIN attempts /\ job.result \in Results
            \/ job.kind = "expire"
BY DEF OrderJobs, OrderOf, TypeInv, References

\* There are no other jobs.
LEMMA JobsAre ==
  Jobs = PurchaseJobs \cup OrderJobs
BY DEF Jobs, PurchaseJobs, OrderJobs

\* The place of a transaction and its kind tell what holds of it.
LEMMA AtPlace ==
  ASSUME TypeInv, NEW t, Valid(t)
  PROVE  /\ t.pc = "none" => t = NoTx
         /\ t.pc = "begin" => Started(t)
         /\ t.pc = "key" => HoldsKey(t)
         /\ t.pc = "order" => HoldsOrder(t)
         /\ t.pc = "items" /\ t.job.kind = "purchase" => LocksItems(t)
         /\ t.pc = "items" /\ t.job.kind # "purchase" => MovesStock(t)
         /\ t.pc = "check" => ChecksItems(t)
<1>1. NoTx.pc = "none"
  BY DEF NoTx
<1>2. LocksItems(t) => t.job.kind = "purchase"
  BY PurchaseJob DEF LocksItems
<1>3. MovesStock(t) => t.job.kind # "purchase"
  BY OrderJob DEF MovesStock
<1> QED BY <1>1, <1>2, <1>3 DEF Valid, Started, HoldsKey, HoldsOrder, LocksItems, ChecksItems, MovesStock

\* Locks of different things are different.
LEMMA LocksDiffer ==
  /\ \A o, i : <<"order", o>> # <<"item", i>>
  /\ \A u, k, o : <<"key", u, k>> # <<"order", o>>
  /\ \A u, k, i : <<"key", u, k>> # <<"item", i>>
OBVIOUS

-----------------------------------------------------------------------------
(* What locks protect *)

\* What the locks in held stand for is as it was; rows that others write are not.
Undisturbed(held) ==
  /\ \A x \in DOMAIN sales : x \in DOMAIN sales' /\ sales'[x] = sales[x]
  /\ \A o \in DOMAIN orders : <<"order", o>> \in held =>
       orders'[o] = orders[o] /\ reservations'[o] = reservations[o] /\ Paid(o)' = Paid(o)
  /\ \A i \in DOMAIN stock : <<"item", i>> \in held =>
       stock'[i] = stock[i] /\ \A u \in Users : Used(u, i)' <= Used(u, i)
  /\ \A u \in Users, k \in Keys : <<"key", u, k>> \in held /\ KeyUnused(u, k) => KeyUnused(u, k)'

\* A user who has no more of an item than before may buy as much as before.
LEMMA LimitStays ==
  ASSUME TypeInv, TypeInv', NEW u \in Users, NEW i \in Items, NEW n \in Nat,
         Used(u, i)' <= Used(u, i), WithinLimit(u, i, n)
  PROVE  WithinLimit(u, i, n)'
<1>1. Used(u, i) \in Nat
  BY OrdersFinite, SumType DEF Used
<1>2. Used(u, i)' \in Nat
  <2>1. Unexpired(u)' \in SUBSET OrderIds
    BY DEF Unexpired, OrdersIn, TypeInv, Tables, IsTable
  <2> QED BY <2>1, FS_Subset, IdsAssumption, SumType DEF Used
<1> QED BY <1>1, <1>2, ItemsAssumption DEF WithinLimit

\* What a request asks for is a number of items.
LEMMA AsksFor ==
  ASSUME NEW job \in PurchaseJobs, NEW i \in DOMAIN job.items
  PROVE  i \in Items /\ job.items[i] \in Nat
BY PurchaseJob, RequestType, QuantityAssumption

\* A transaction that does not move stays where it was, if nobody wrote what its locks
\* stand for.
LEMMA StaysValid ==
  ASSUME TypeInv, TypeInv', [Next]_vars, NEW s \in Sessions, tx'[s] = tx[s],
         Valid(tx[s]), Undisturbed(tx[s].held)
  PROVE  Valid(tx[s])'
<1> DEFINE t == tx[s]
<1>0. /\ OrderJobs \subseteq OrderJobs' /\ PurchaseJobs' = PurchaseJobs
      /\ \A job \in OrderJobs : OrderOf(job)' = OrderOf(job)
      /\ DOMAIN orders \subseteq DOMAIN orders'
  <2>1. /\ DOMAIN orders \subseteq DOMAIN orders' /\ DOMAIN attempts \subseteq DOMAIN attempts'
        /\ \A a \in DOMAIN attempts : attempts'[a].order = attempts[a].order
    BY RowsStay
  <2> QED BY <2>1 DEF OrderJobs, PurchaseJobs, OrderOf
<1>1. CASE t = NoTx
  BY <1>1 DEF Valid
<1>2. ASSUME NEW job, OnSale(job)
      PROVE  OnSale(job)'
  BY <1>2 DEF OnSale, Undisturbed
<1>3. CASE Started(t)
  BY <1>0, <1>2, <1>3 DEF Started, Valid
<1>4. CASE HoldsKey(t)
  BY <1>0, <1>2, <1>4 DEF HoldsKey, KeyLock, Valid
<1>5. CASE HoldsOrder(t)
  <2>1. OrderOf(t.job) \in DOMAIN orders /\ <<"order", OrderOf(t.job)>> \in t.held
    BY <1>5, OrderJob DEF HoldsOrder, OrderLock
  <2>2. orders'[OrderOf(t.job)] = orders[OrderOf(t.job)]
    BY <2>1 DEF Undisturbed
  <2> QED BY <1>0, <1>5, <2>2 DEF HoldsOrder, OrderLock, Valid
<1>6. ASSUME NEW first, RowsLocked(t, first), DOMAIN t.rows \subseteq DOMAIN stock
      PROVE  \A i \in DOMAIN t.rows : t.rows[i] = stock'[i] /\ <<"item", i>> \in t.held
  BY <1>6 DEF RowsLocked, ItemLocks, Undisturbed
<1>7. ASSUME MayBuy(t), t.job \in PurchaseJobs
      PROVE  /\ MayBuy(t)' /\ DOMAIN t.rows \subseteq DOMAIN stock
             /\ \A i \in DOMAIN t.rows : t.rows[i] = stock'[i] /\ <<"item", i>> \in t.held
  <2>1. DOMAIN t.rows \subseteq DOMAIN stock
    BY <1>7, AsksFor DEF MayBuy, OnSale, TypeInv, References
  <2>2. KeyLock(t.job) \in t.held /\ t.job.user \in Users /\ t.job.key \in Keys
    BY <1>7, PurchaseJob DEF MayBuy, RowsLocked
  <2>3. KeyUnused(t.job.user, t.job.key)'
    BY <1>7, <2>2 DEF Undisturbed, MayBuy, KeyLock
  <2>4. \A i \in DOMAIN t.rows : t.rows[i] = stock'[i] /\ <<"item", i>> \in t.held
    BY <1>6, <1>7, <2>1 DEF MayBuy
  <2>5. OnSale(t.job)' /\ sales'[t.job.sale] = 0
    BY <1>2, <1>7 DEF MayBuy, OnSale, Undisturbed
  <2> QED BY <1>7, <2>1, <2>3, <2>4, <2>5 DEF MayBuy, RowsLocked, KeyLock, ToLock, Move
<1>8. CASE LocksItems(t)
  BY <1>0, <1>7, <1>8 DEF LocksItems, Valid
<1>9. CASE ChecksItems(t)
  <2>1. t.job \in PurchaseJobs /\ MayBuy(t)
    BY <1>9 DEF ChecksItems
  <2>2. ASSUME NEW i \in DOMAIN t.rows \ t.unchecked
        PROVE  InStock(i, t.job.items[i])' /\ WithinLimit(t.job.user, i, t.job.items[i])'
    <3>1. /\ i \in Items /\ t.job.items[i] \in Nat /\ t.job.user \in Users
          /\ InStock(i, t.job.items[i]) /\ WithinLimit(t.job.user, i, t.job.items[i])
      BY <1>9, <2>1, AsksFor, PurchaseJob DEF ChecksItems
    <3>2. stock'[i] = stock[i] /\ Used(t.job.user, i)' <= Used(t.job.user, i)
      BY <1>7, <2>1, <3>1 DEF Undisturbed
    <3> QED BY <3>1, <3>2, LimitStays DEF InStock
  <2>3. MayBuy(t)'
    BY <1>7, <2>1
  <2> QED BY <1>0, <1>9, <2>2, <2>3 DEF ChecksItems, Valid
<1>10. CASE MovesStock(t)
  <2> DEFINE o == OrderOf(t.job)
  <2>1. t.job \in OrderJobs /\ RowsLocked(t, OrderLock(t.job)) /\ o \in DOMAIN orders
    BY <1>10, OrderJob DEF MovesStock
  <2>2. o' = o /\ <<"order", o>> \in t.held
    BY <1>0, <2>1 DEF RowsLocked, OrderLock
  <2>3. orders'[o] = orders[o] /\ reservations'[o] = reservations[o] /\ Paid(o)' = Paid(o)
    BY <2>1, <2>2 DEF Undisturbed
  <2>4. DOMAIN t.rows \subseteq DOMAIN stock
    BY <1>10, <2>1 DEF MovesStock, TypeInv, References
  <2>5. \A i \in DOMAIN t.rows : t.rows[i] = stock'[i]
    BY <1>6, <2>1, <2>4
  <2>6. /\ t.pc = "items" /\ DOMAIN t = BasicFields \cup {"order", "hold", "paid"}
        /\ t.order = orders[o] /\ t.hold = reservations[o] /\ t.paid = Paid(o) /\ ~Refuses(t)
        /\ DOMAIN t.rows \subseteq DOMAIN orders[o].items
        /\ Move(t) = "none" => DOMAIN t.rows = {}
    BY <1>10 DEF MovesStock
  <2>7. /\ (t.order = orders[o])' /\ (t.hold = reservations[o])' /\ (t.paid = Paid(o))'
        /\ (DOMAIN t.rows \subseteq DOMAIN orders[o].items)'
    BY <2>2, <2>3, <2>6
  <2>8. Refuses(t)' = Refuses(t) /\ Move(t)' = Move(t) /\ ToLock(t)' = ToLock(t)
    BY DEF Refuses, Move, ToLock
  <2>9. RowsLocked(t, OrderLock(t.job))'
    BY <2>1, <2>2, <2>5, <2>8 DEF RowsLocked, OrderLock
  <2> QED BY <1>0, <2>1, <2>6, <2>7, <2>8, <2>9 DEF MovesStock, Valid
<1> QED BY <1>1, <1>3, <1>4, <1>5, <1>8, <1>9, <1>10 DEF Valid

-----------------------------------------------------------------------------
(* Commits are steps of Checkout *)

\* Writing a row as it was read, and moving nothing, changes nothing.
LEMMA NoMove ==
  ASSUME NEW row \in StockInt, NEW confirm \in BOOLEAN
  PROVE  Hold(row, 0) = row /\ Settle(row, 0, confirm) = row
BY DEF Hold, Settle, StockInt

\* A purchase that has checked all its items is Checkout's.
LEMMA MapsCommitPurchase ==
  ASSUME TypeInv, NEW s \in Sessions, Valid(tx[s]), NEW o \in OrderIds, CommitPurchase(s, o)
  PROVE  LET job == tx[s].job IN
         /\ job \in PurchaseJobs /\ KeyLock(job) \in tx[s].held
         /\ ItemLocks(DOMAIN job.items) \subseteq tx[s].held
         /\ Purchase(job.user, job.key, job.sale, job.items, o)
<1> DEFINE t == tx[s]
           job == t.job
<1>1. ChecksItems(t) /\ t.unchecked = {}
  BY AtPlace DEF CommitPurchase
<1>2. /\ job \in PurchaseJobs /\ OnSale(job) /\ KeyUnused(job.user, job.key)
      /\ sales[job.sale] = 0 /\ RowsLocked(t, KeyLock(job)) /\ DOMAIN t.rows = DOMAIN job.items
      /\ \A i \in DOMAIN job.items :
           InStock(i, job.items[i]) /\ WithinLimit(job.user, i, job.items[i])
  BY <1>1 DEF ChecksItems, MayBuy
<1>3. ASSUME NEW i \in DOMAIN stock
      PROVE  stock'[i] = Hold(stock[i], Qty(job.items, i))
  <2>1. stock[i] \in StockInt
    BY DEF TypeInv, Tables, IsTable
  <2> QED BY <1>2, <2>1, NoMove DEF CommitPurchase, RowsLocked, Qty
<1>4. stock' = [i \in DOMAIN stock |-> Hold(stock[i], Qty(job.items, i))]
  BY <1>3 DEF CommitPurchase
<1>5. Purchase(job.user, job.key, job.sale, job.items, o)
  BY <1>2, <1>4 DEF CommitPurchase, Purchase, OnSale
<1> QED BY <1>2, <1>5 DEF RowsLocked

\* What a transaction about an order knows when it has all its locks.
LEMMA Knows ==
  ASSUME TypeInv, NEW s \in Sessions, Valid(tx[s]), tx[s].pc = "items",
         tx[s].job.kind # "purchase"
  PROVE  LET t == tx[s]
             o == OrderOf(t.job) IN
         /\ t.job \in OrderJobs /\ o \in DOMAIN orders /\ o \in DOMAIN reservations
         /\ OrderLock(t.job) \in t.held /\ ItemLocks(DOMAIN t.rows) \subseteq t.held
         /\ t.order = orders[o] /\ t.hold = reservations[o] /\ t.paid = Paid(o)
         /\ ~Refuses(t)
         /\ \A i \in DOMAIN t.rows : t.rows[i] = stock[i]
         /\ DOMAIN t.rows \subseteq DOMAIN orders[o].items
         /\ Move(t) # "none" /\ ToLock(t) = {} => DOMAIN t.rows = DOMAIN orders[o].items
         /\ Move(t) = "none" => DOMAIN t.rows = {}
<1>1. MovesStock(tx[s])
  BY AtPlace
<1>2. tx[s].job \in OrderJobs /\ RowsLocked(tx[s], OrderLock(tx[s].job))
  BY <1>1 DEF MovesStock
<1> DEFINE t == tx[s]
           o == OrderOf(t.job)
<1>3. /\ t.order = orders[o] /\ t.hold = reservations[o] /\ t.paid = Paid(o) /\ ~Refuses(t)
      /\ DOMAIN t.rows \subseteq DOMAIN orders[o].items
      /\ Move(t) = "none" => DOMAIN t.rows = {}
  BY <1>1 DEF MovesStock
<1>4. Move(t) # "none" => ToLock(t) = DOMAIN orders[o].items \ DOMAIN t.rows
  BY <1>3 DEF ToLock
<1>5. Move(t) # "none" /\ ToLock(t) = {} => DOMAIN t.rows = DOMAIN orders[o].items
  BY <1>3, <1>4
<1>6. o \in DOMAIN orders /\ o \in DOMAIN reservations
  BY <1>2, OrderJob DEF TypeInv, References
<1>7. /\ OrderLock(t.job) \in t.held /\ ItemLocks(DOMAIN t.rows) \subseteq t.held
      /\ \A i \in DOMAIN t.rows : t.rows[i] = stock[i]
  BY <1>2 DEF RowsLocked
<1> QED BY <1>2, <1>3, <1>5, <1>6, <1>7

\* Writing back whole rows that are still current settles the order.
LEMMA SettlesOrder ==
  ASSUME TypeInv, NEW s \in Sessions, Valid(tx[s]), tx[s].pc = "items",
         tx[s].job.kind # "purchase", Move(tx[s]) # "none", ToLock(tx[s]) = {},
         NEW status \in {"CONFIRMED", "EXPIRED"}, Settles(tx[s], status)
  PROVE  LET o == OrderOf(tx[s].job) IN
         /\ orders' = [orders EXCEPT ![o].status = status]
         /\ reservations' = [reservations EXCEPT ![o].status = status]
         /\ MoveStock(o, status = "CONFIRMED")
<1> DEFINE t == tx[s]
           o == OrderOf(t.job)
<1>1. /\ o \in DOMAIN orders /\ t.order = orders[o] /\ t.hold = reservations[o]
      /\ DOMAIN t.rows = DOMAIN orders[o].items
      /\ \A i \in DOMAIN t.rows : t.rows[i] = stock[i]
  BY Knows
<1>2. orders' = [orders EXCEPT ![o].status = status]
      /\ reservations' = [reservations EXCEPT ![o].status = status]
  BY <1>1 DEF Settles
<1>3. ASSUME NEW i \in DOMAIN stock
      PROVE  stock'[i] = Settle(stock[i], Qty(orders[o].items, i), status = "CONFIRMED")
  <2>1. stock[i] \in StockInt /\ (status = "CONFIRMED") \in BOOLEAN
    BY DEF TypeInv, Tables, IsTable
  <2> QED BY <1>1, <2>1, NoMove DEF Settles, Qty
<1>4. MoveStock(o, status = "CONFIRMED")
  BY <1>3 DEF Settles, MoveStock
<1> QED BY <1>2, <1>4

\* An expiry is Checkout's.
LEMMA MapsCommitExpire ==
  ASSUME TypeInv, NEW s \in Sessions, Valid(tx[s]), CommitExpire(s)
  PROVE  Expire(OrderOf(tx[s].job))
<1> DEFINE t == tx[s]
           o == OrderOf(t.job)
<1>1. t.pc = "items" /\ t.job.kind # "purchase" /\ t.job.kind = "expire" /\ ToLock(t) = {}
      /\ Settles(t, "EXPIRED") /\ UNCHANGED <<sales, attempts>>
  BY DEF CommitExpire
<1>2. Move(t) # "none"
  BY <1>1 DEF Move
<1>3. /\ orders' = [orders EXCEPT ![o].status = "EXPIRED"]
      /\ reservations' = [reservations EXCEPT ![o].status = "EXPIRED"]
      /\ MoveStock(o, FALSE)
  BY <1>1, <1>2, SettlesOrder
<1>4. /\ o \in DOMAIN orders /\ o \in DOMAIN reservations
      /\ t.order = orders[o] /\ t.hold = reservations[o] /\ ~Refuses(t)
  BY <1>1, Knows
<1>5. reservations[o].holdExpiresAt \in Nat
  BY <1>4, TimesAssumption DEF TypeInv, Tables, IsTable, ReservationRow
<1>6. Due(o)
  BY <1>1, <1>4, <1>5 DEF Refuses, Due, Lapsed
<1> QED BY <1>1, <1>3, <1>4, <1>6 DEF Expire, Release, Due

\* A payment is started as Checkout does.
LEMMA MapsCommitStart ==
  ASSUME TypeInv, NEW s \in Sessions, Valid(tx[s]), NEW a \in AttemptIds, CommitStart(s, a)
  PROVE  LET job == tx[s].job IN
         /\ OrderOf(job) \in OrderIds /\ job.key \in Keys /\ job.scenario \in Scenarios
         /\ Start(OrderOf(job), job.key, job.scenario, a)
<1> DEFINE t == tx[s]
           o == OrderOf(t.job)
<1>1. t.pc = "items" /\ t.job.kind # "purchase" /\ t.job.kind = "start"
  BY DEF CommitStart
<1>2. /\ t.job \in OrderJobs /\ o \in DOMAIN orders /\ o \in DOMAIN reservations
      /\ t.order = orders[o] /\ t.hold = reservations[o] /\ t.paid = Paid(o) /\ ~Refuses(t)
  BY <1>1, Knows
<1>3. t.job.key \in Keys /\ t.job.scenario \in Scenarios /\ o \in OrderIds
  BY <1>1, <1>2, OrderJob DEF TypeInv, Tables, IsTable
<1>4. \A b \in AttemptsOf(o) : t.paid[b] = attempts[b] /\ b \in DOMAIN t.paid
  BY <1>2 DEF Paid
<1>5. /\ \A b \in AttemptsOf(o) : attempts[b].key # t.job.key /\ attempts[b].status = "FAILED"
      /\ orders[o].status = "PAYMENT_PENDING" /\ ~Lapsed(o)
  BY <1>1, <1>2, <1>4 DEF Refuses, Lapsed
<1>6. orders' = [orders EXCEPT ![o].status = "PAYMENT_PROCESSING"]
      /\ reservations' = [reservations EXCEPT ![o].confirmationDeadline = PaymentWindow]
  BY <1>2 DEF CommitStart
<1> QED BY <1>2, <1>3, <1>5, <1>6 DEF CommitStart, Start

\* A result is applied as Checkout does.
LEMMA MapsCommitApply ==
  ASSUME TypeInv, NEW s \in Sessions, Valid(tx[s]), CommitApply(s)
  PROVE  LET job == tx[s].job IN
         /\ job.attempt \in AttemptIds /\ job.result \in Results
         /\ Apply(job.attempt, job.result)
<1> DEFINE t == tx[s]
           a == t.job.attempt
           o == OrderOf(t.job)
<1>1. t.pc = "items" /\ t.job.kind # "purchase" /\ t.job.kind = "apply" /\ ToLock(t) = {}
  BY DEF CommitApply
<1>2. /\ t.job \in OrderJobs /\ o \in DOMAIN orders
      /\ t.order = orders[o] /\ t.hold = reservations[o] /\ t.paid = Paid(o) /\ ~Refuses(t)
  BY <1>1, Knows
<1>3. /\ a \in DOMAIN attempts /\ a \in AttemptIds /\ t.job.result \in Results
      /\ o = attempts[a].order
  BY <1>1, <1>2, OrderJob DEF OrderOf, TypeInv, Tables, IsTable
<1>4. t.paid[a] = attempts[a]
  BY <1>2, <1>3 DEF Paid, AttemptsOf
<1>5. /\ ~Terminal(a) /\ (t.job.result = "SUCCEEDED" => reservations[o].status = "ACTIVE")
      /\ attempts' = [attempts EXCEPT ![a].status = t.job.result]
  BY <1>1, <1>2, <1>3, <1>4 DEF Refuses, Terminal, CommitApply
<1>6. /\ t.job.result = "SUCCEEDED" => Move(t) = "confirm"
      /\ t.job.result = "FAILED" /\ Lapsed(o) /\ reservations[o].status = "ACTIVE" => Move(t) = "release"
      /\ t.job.result = "FAILED" /\ ~(Lapsed(o) /\ reservations[o].status = "ACTIVE") =>
           Move(t) = "none"
      /\ t.job.result = "UNKNOWN" => Move(t) = "none"
  BY <1>1, <1>2 DEF Move, Lapsed
<1>7. CASE t.job.result = "SUCCEEDED"
  <2>1. Settles(t, "CONFIRMED") /\ UNCHANGED sales
    BY <1>6, <1>7 DEF CommitApply
  <2>2. Confirm(o)
    BY <1>1, <1>5, <1>6, <1>7, <2>1, SettlesOrder DEF Confirm
  <2> QED BY <1>3, <1>5, <1>7, <2>1, <2>2 DEF Apply
<1>8. CASE t.job.result = "FAILED" /\ Lapsed(o) /\ reservations[o].status = "ACTIVE"
  <2>1. Settles(t, "EXPIRED") /\ UNCHANGED sales
    BY <1>6, <1>8 DEF CommitApply
  <2>2. Release(o)
    BY <1>1, <1>6, <1>8, <2>1, SettlesOrder DEF Release
  <2> QED BY <1>3, <1>5, <1>8, <2>1, <2>2 DEF Apply
<1>9. CASE t.job.result = "FAILED" /\ ~(Lapsed(o) /\ reservations[o].status = "ACTIVE")
  <2>1. /\ orders' = [orders EXCEPT ![o] = [t.order EXCEPT !.status = "PAYMENT_PENDING"]]
        /\ UNCHANGED <<stock, reservations, sales>>
    BY <1>6, <1>9 DEF CommitApply
  <2>2. orders' = [orders EXCEPT ![o].status = "PAYMENT_PENDING"]
    BY <1>2, <2>1
  <2> QED BY <1>3, <1>5, <1>9, <2>1, <2>2 DEF Apply
<1>10. CASE t.job.result = "UNKNOWN"
  <2>1. UNCHANGED <<stock, orders, reservations, sales>>
    BY <1>6, <1>10 DEF CommitApply
  <2> QED BY <1>3, <1>5, <1>10, <2>1 DEF Apply
<1> QED BY <1>3, <1>7, <1>8, <1>9, <1>10 DEF Results

-----------------------------------------------------------------------------
(* A commit writes nothing that another transaction's locks stand for *)

\* Only what the locks in held stand for is written, but for rows that are new.
WritesOnly(held) ==
  /\ sales' = sales
  /\ \A o \in DOMAIN orders : <<"order", o>> \notin held =>
       orders'[o] = orders[o] /\ reservations'[o] = reservations[o] /\ Paid(o)' = Paid(o)
  /\ \A i \in DOMAIN stock : <<"item", i>> \notin held =>
       stock'[i] = stock[i] /\ \A u \in Users : Used(u, i)' <= Used(u, i)
  /\ \A u \in Users, k \in Keys : <<"key", u, k>> \notin held /\ KeyUnused(u, k) => KeyUnused(u, k)'

\* The locks of two transactions are apart.
LEMMA OthersUndisturbed ==
  ASSUME Exclusive, NEW s \in Sessions, NEW r \in Sessions, r # s, WritesOnly(tx[s].held)
  PROVE  Undisturbed(tx[r].held)
<1>1. tx[r].held \cap tx[s].held = {}
  BY DEF Exclusive
<1> QED BY <1>1 DEF WritesOnly, Undisturbed

\* A step that makes no order and changes no sale gives nobody more of an item and
\* uses no key.
LEMMA MakesNoOrder ==
  ASSUME TypeInv, StateInv, [Next]_vars, DOMAIN orders' = DOMAIN orders, sales' = sales
  PROVE  /\ \A u, k : KeyUnused(u, k) => KeyUnused(u, k)'
         /\ \A u, i : Used(u, i)' <= Used(u, i)
<1>1. ASSUME NEW u \in Users, NEW k \in Keys, NEW s \in Sales, NEW request \in Requests,
             NEW o \in OrderIds
      PROVE  ~Purchase(u, k, s, request, o)
  BY DEF Purchase, Place, Insert
<1>2. ASSUME NEW s \in Sales, NEW opensAt \in 0..MaxOpensIn
      PROVE  ~CreateSale(s, opensAt)
  BY DEF CreateSale, Insert
<1>3. KeepStep \/ \E o \in DOMAIN orders, confirm \in BOOLEAN : SettleStep(o, confirm)
  BY <1>1, <1>2, StepKind
<1>4. SameRequests
  BY <1>3 DEF KeepStep, SettleStep
<1>5. \A x \in DOMAIN orders : orders[x].status = "EXPIRED" => orders'[x].status = "EXPIRED"
  BY <1>3 DEF KeepStep, SettleStep, HoldsStock
<1>6. \A u, i : Used(u, i)' <= Used(u, i)
  BY <1>4, <1>5, UsedShrinks
<1> QED BY <1>4, <1>6 DEF SameRequests, KeyUnused

\* A purchase uses its own key and takes only of the items it asked for.
LEMMA PurchaseWrites ==
  ASSUME TypeInv, NEW s \in Sessions, Valid(tx[s]), NEW o \in OrderIds, CommitPurchase(s, o)
  PROVE  WritesOnly(tx[s].held)
<1> DEFINE job == tx[s].job
           held == tx[s].held
<1>1. /\ job \in PurchaseJobs /\ KeyLock(job) \in held /\ ItemLocks(DOMAIN job.items) \subseteq held
      /\ Purchase(job.user, job.key, job.sale, job.items, o)
  BY MapsCommitPurchase
<1>2. /\ DOMAIN orders' = DOMAIN orders \cup {o} /\ o \notin DOMAIN orders
      /\ orders'[o].user = job.user /\ orders'[o].key = job.key /\ orders'[o].items = job.items
      /\ orders'[o].status = "PAYMENT_PENDING"
      /\ \A x \in DOMAIN orders : orders'[x] = orders[x] /\ reservations'[x] = reservations[x]
      /\ UNCHANGED <<sales, attempts>>
  BY <1>1 DEF Purchase, Place, Insert, TypeInv, References
<1>3. \A x \in DOMAIN orders : Paid(x)' = Paid(x)
  BY <1>2 DEF Paid, AttemptsOf
<1>4. ASSUME NEW i \in DOMAIN stock, <<"item", i>> \notin held
      PROVE  /\ i \in Items /\ Qty(job.items, i) = 0
             /\ stock'[i] = stock[i]
  <2>1. i \notin DOMAIN job.items /\ Qty(job.items, i) = 0
    BY <1>1, <1>4 DEF ItemLocks, Qty
  <2>2. stock[i] \in StockInt /\ i \in Items
    BY DEF TypeInv, Tables, IsTable
  <2> QED BY <1>1, <2>1, <2>2, NoMove DEF Purchase
<1>5. ASSUME NEW i \in Items, Qty(job.items, i) = 0, NEW u \in Users
      PROVE  Used(u, i)' <= Used(u, i)
  <2>1. Unexpired(u)' = IF u = job.user THEN Unexpired(u) \cup {o} ELSE Unexpired(u)
    BY <1>2 DEF Unexpired, OrdersIn, OrderStatus
  <2>2. Unexpired(u) \in SUBSET DOMAIN orders /\ IsFiniteSet(Unexpired(u))
    BY OrdersFinite DEF Unexpired, OrdersIn
  <2>3. job.user \in Users /\ job.key \in Keys /\ job.sale \in Sales /\ job.items \in Requests
    BY <1>1, PurchaseJob
  <2>4. /\ Sum(Lines', Unexpired(u), i) = Sum(Lines, Unexpired(u), i)
        /\ Sum(Lines', Unexpired(u) \cup {o}, i) = Sum(Lines, Unexpired(u), i) + Qty(job.items, i)
    <3>1. ASSUME NEW S \in SUBSET DOMAIN orders
          PROVE  /\ Sum(Lines', S, i) = Sum(Lines, S, i)
                 /\ Sum(Lines', S \cup {o}, i) = Sum(Lines, S, i) + Qty(job.items, i)
      <4> HIDE DEF job
      <4> QED BY <1>1, <2>3, SumPurchase
    <3> QED BY <2>2, <3>1
  <2>5. Sum(Lines, Unexpired(u), i) \in Nat
    BY <2>2, SumType
  <2> QED BY <1>5, <2>1, <2>4, <2>5 DEF Used
<1>6. ASSUME NEW u \in Users, NEW k \in Keys, <<"key", u, k>> \notin held, KeyUnused(u, k)
      PROVE  KeyUnused(u, k)'
  <2>1. ~(u = job.user /\ k = job.key)
    BY <1>1, <1>6 DEF KeyLock
  <2> QED BY <1>2, <1>6, <2>1 DEF KeyUnused
<1> QED BY <1>2, <1>3, <1>4, <1>5, <1>6 DEF WritesOnly

\* The other commits write their order and the items they locked.
LEMMA OrderWrites ==
  ASSUME TypeInv, StateInv, NEW s \in Sessions, Valid(tx[s]),
         CommitExpire(s) \/ CommitApply(s) \/ \E a \in AttemptIds : CommitStart(s, a)
  PROVE  [Next]_vars /\ WritesOnly(tx[s].held)
<1> DEFINE t == tx[s]
           o == OrderOf(t.job)
<1>1. t.pc = "items" /\ t.job.kind # "purchase"
  BY DEF CommitExpire, CommitApply, CommitStart
<1>2. /\ o \in DOMAIN orders /\ o \in OrderIds /\ <<"order", o>> \in t.held
      /\ ItemLocks(DOMAIN t.rows) \subseteq t.held
      /\ t.paid = Paid(o) /\ t.job \in OrderJobs
  BY <1>1, Knows DEF OrderLock, TypeInv, Tables, IsTable
<1>3. Next
  BY <1>2, MapsCommitExpire, MapsCommitApply, MapsCommitStart DEF Next
<1>4. /\ DOMAIN orders' = DOMAIN orders /\ sales' = sales
      /\ \A x \in DOMAIN orders : x # o => orders'[x] = orders[x]
      /\ \A x \in DOMAIN reservations : x # o => reservations'[x] = reservations[x]
      /\ \A i \in DOMAIN stock : i \notin DOMAIN t.rows => stock'[i] = stock[i]
  BY DEF CommitExpire, CommitApply, CommitStart, Settles
<1>5. ASSUME NEW x \in DOMAIN orders, x # o
      PROVE  Paid(x)' = Paid(x)
  <2>1. CASE CommitExpire(s)
    BY <2>1 DEF CommitExpire, Paid, AttemptsOf
  <2>2. ASSUME NEW a \in AttemptIds, CommitStart(s, a)
        PROVE  Paid(x)' = Paid(x)
    <3>1. /\ a \notin DOMAIN attempts /\ DOMAIN attempts' = DOMAIN attempts \cup {a}
          /\ attempts'[a].order = o
          /\ \A b \in DOMAIN attempts : attempts'[b] = attempts[b]
      BY <2>2 DEF CommitStart, Insert
    <3>2. AttemptsOf(x)' = AttemptsOf(x)
      BY <1>5, <3>1 DEF AttemptsOf
    <3> QED BY <3>1, <3>2 DEF Paid, AttemptsOf
  <2>3. CASE CommitApply(s)
    <3>1. Apply(t.job.attempt, t.job.result) /\ o = attempts[t.job.attempt].order
      BY <2>3, MapsCommitApply DEF CommitApply, OrderOf
    <3>2. /\ DOMAIN attempts' = DOMAIN attempts
          /\ \A b \in DOMAIN attempts : attempts'[b].order = attempts[b].order
          /\ \A b \in DOMAIN attempts : b # t.job.attempt => attempts'[b] = attempts[b]
      BY <1>3, <3>1, RowsStay DEF Apply
    <3> QED BY <1>5, <3>1, <3>2 DEF Paid, AttemptsOf
  <2> QED BY <2>1, <2>2, <2>3
<1>6. /\ \A u, k : KeyUnused(u, k) => KeyUnused(u, k)'
      /\ \A u, i : Used(u, i)' <= Used(u, i)
  BY <1>3, <1>4, MakesNoOrder
<1> QED BY <1>2, <1>3, <1>4, <1>5, <1>6 DEF WritesOnly, ItemLocks, TypeInv, References

-----------------------------------------------------------------------------
(* Moves that write nothing *)

\* Session s moves, the others stay.
Moves(s) ==
  DOMAIN tx' = Sessions /\ \A r \in Sessions : r # s => tx'[r] = tx[r]

\* Nothing is disturbed by a step that writes nothing.
LEMMA NoWrite ==
  ASSUME TypeInv, StateInv, UNCHANGED vars, NEW held
  PROVE  Undisturbed(held)
<1>1. DOMAIN orders' = DOMAIN orders /\ sales' = sales
  BY DEF vars
<1>2. \A u, i : Used(u, i)' <= Used(u, i)
  BY <1>1, MakesNoOrder
<1> QED BY <1>2 DEF Undisturbed, vars, Paid, AttemptsOf, KeyUnused

\* A transaction that ends lets go of all its locks.
LEMMA NothingHeld ==
  Valid(NoTx) /\ Valid(NoTx)' /\ NoTx.held = {}
BY DEF Valid, NoTx

\* It is enough to look at the session that moves: at its new place, and at locks
\* it did not have.
LEMMA MoveKeeps ==
  ASSUME LocksInv, UNCHANGED vars, NEW s \in Sessions, Moves(s), Valid(tx[s])',
         \A lock \in tx'[s].held : lock \in tx[s].held \/ Unlocked(lock)
  PROVE  Transactions'
<1>1. TypeInv /\ TypeInv' /\ StateInv /\ Exclusive /\ \A r \in Sessions : Valid(tx[r])
  BY TypeInvNext DEF LocksInv, Transactions
<1>2. ASSUME NEW r \in Sessions PROVE Valid(tx[r])'
  <2>1. CASE r # s
    BY <1>1, <2>1, NoWrite, StaysValid DEF Moves
  <2> QED BY <2>1
<1>3. Exclusive'
  BY <1>1 DEF Exclusive, Unlocked, Moves
<1> QED BY <1>2, <1>3 DEF Transactions, Moves

\* Ending is always possible.
LEMMA EndKeeps ==
  ASSUME LocksInv, UNCHANGED vars, NEW s \in Sessions, Ends(s)
  PROVE  Transactions'
<1>1. tx' = [tx EXCEPT ![s] = NoTx] /\ DOMAIN tx = Sessions
  BY DEF Ends, LocksInv, Transactions
<1>2. Moves(s) /\ tx'[s] = NoTx
  BY <1>1 DEF Moves
<1>3. Valid(tx[s])'
  BY <1>2, NothingHeld DEF Valid
<1> QED BY <1>2, <1>3, NothingHeld, MoveKeeps

\* Which jobs there are depends on the tables only.
LEMMA SameJobs ==
  ASSUME UNCHANGED vars
  PROVE  OrderJobs' = OrderJobs /\ PurchaseJobs' = PurchaseJobs
BY DEF OrderJobs, PurchaseJobs, vars

\* A transaction begins without a lock.
LEMMA KeepsBegin ==
  ASSUME LocksInv, NEW s \in Sessions, NEW job \in Jobs, Begin(s, job)
  PROVE  Transactions'
<1>1. /\ tx' = [tx EXCEPT ![s] = [pc |-> "begin", job |-> job, held |-> {}, rows |-> <<>>]]
      /\ DOMAIN tx = Sessions /\ UNCHANGED vars
  BY DEF Begin, LocksInv, Transactions
<1>2. Moves(s) /\ tx'[s] = [pc |-> "begin", job |-> job, held |-> {}, rows |-> <<>>]
  BY <1>1 DEF Moves
<1>3. job \in OrderJobs \/ (job \in PurchaseJobs /\ OnSale(job))
  BY JobsAre, PurchaseJob DEF Begin, OnSale
<1>4. Started(tx[s])'
  BY <1>1, <1>2, <1>3, SameJobs DEF Started, OnSale, BasicFields, vars
<1> QED BY <1>1, <1>2, <1>4, MoveKeeps DEF Valid

\* The lock of a key is had by one transaction.
LEMMA KeepsLockKey ==
  ASSUME LocksInv, NEW s \in Sessions, LockKey(s)
  PROVE  Transactions'
<1> DEFINE t == tx[s]
           lock == KeyLock(t.job)
<1>1. t.pc = "begin" /\ t.job.kind = "purchase" /\ Started(t) /\ UNCHANGED vars
      /\ DOMAIN tx = Sessions
  BY AtPlace DEF LockKey, LocksInv, Transactions
<1>2. t.job \in PurchaseJobs /\ OnSale(t.job)
      /\ DOMAIN t = BasicFields /\ t.held = {} /\ t.rows = <<>>
  BY <1>1, OrderJob DEF Started, LocksInv
<1>3. Unlocked(lock) /\ tx' = [tx EXCEPT ![s].held = {lock}, ![s].pc = "key"]
  BY <1>1 DEF LockKey, NextLocks, KeyLock
<1>4. Moves(s)
  BY <1>1, <1>3 DEF Moves
<1>5. /\ tx'[s].pc = "key" /\ tx'[s].job = t.job /\ tx'[s].held = {lock} /\ tx'[s].rows = <<>>
      /\ DOMAIN tx'[s] = BasicFields
  BY <1>1, <1>2, <1>3 DEF BasicFields
<1>6. HoldsKey(tx[s])'
  BY <1>1, <1>2, <1>5, SameJobs DEF HoldsKey, OnSale, KeyLock, vars
<1> QED BY <1>1, <1>3, <1>4, <1>5, <1>6, MoveKeeps DEF Valid

\* The key is unused and the sale is open, which the key's lock and the order of time keep so.
LEMMA KeepsLookUp ==
  ASSUME LocksInv, NEW s \in Sessions, LookUp(s)
  PROVE  Transactions'
<1> DEFINE t == tx[s]
<1>1. HoldsKey(t) /\ UNCHANGED vars /\ DOMAIN tx = Sessions
  BY AtPlace DEF LookUp, LocksInv, Transactions
<1>2. CASE Ends(s)
  BY <1>1, <1>2, EndKeeps
<1>3. CASE /\ KeyUnused(t.job.user, t.job.key) /\ sales[t.job.sale] = 0
           /\ tx' = [tx EXCEPT ![s].pc = "items"]
  <2>1. t.job \in PurchaseJobs /\ OnSale(t.job)
        /\ DOMAIN t = BasicFields /\ t.held = {KeyLock(t.job)} /\ t.rows = <<>>
    BY <1>1 DEF HoldsKey
  <2>2. Moves(s)
    BY <1>1, <1>3 DEF Moves
  <2>3. DOMAIN <<>> = {} /\ ItemLocks({}) = {}
    BY DEF ItemLocks
  <2>4. /\ tx'[s].pc = "items" /\ tx'[s].job = t.job /\ tx'[s].rows = <<>>
        /\ tx'[s].held = {KeyLock(t.job)} /\ DOMAIN tx'[s] = BasicFields
    BY <1>1, <1>3, <2>1 DEF BasicFields
  <2>5. LocksItems(tx[s])'
    BY <1>1, <1>3, <2>1, <2>3, <2>4, SameJobs
       DEF LocksItems, MayBuy, RowsLocked, OnSale, KeyLock, KeyUnused, vars
  <2>6. tx'[s].held = t.held
    BY <2>1, <2>4
  <2> QED BY <1>1, <2>2, <2>5, <2>6, MoveKeeps DEF Valid
<1> QED BY <1>2, <1>3 DEF LookUp

\* A row that is read once its lock is granted is current, and comes after those it has.
LEMMA KeepsLockItem ==
  ASSUME LocksInv, NEW s \in Sessions, LockItem(s)
  PROVE  Transactions'
<1> DEFINE t == tx[s]
<1>1. t.pc = "items" /\ UNCHANGED vars /\ DOMAIN tx = Sessions /\ Valid(t)
  BY DEF LockItem, LocksInv, Transactions
<1>2. PICK i \in FirstItem(ToLock(t)) :
        /\ Unlocked(<<"item", i>>)
        /\ tx' = [tx EXCEPT ![s].held = @ \cup {<<"item", i>>},
                            ![s].rows = Insert(@, i, stock[i])]
  BY DEF LockItem
<1>3. LocksItems(t) \/ MovesStock(t)
  BY <1>1, AtPlace DEF LocksInv
<1>4. /\ Moves(s) /\ tx'[s].held = t.held \cup {<<"item", i>>}
      /\ tx'[s].rows = Insert(t.rows, i, stock[i])
      /\ DOMAIN tx'[s] = DOMAIN t
      /\ \A field \in DOMAIN t : field \notin {"held", "rows"} => tx'[s][field] = t[field]
  BY <1>1, <1>2, <1>3 DEF Moves, LocksItems, MovesStock, BasicFields
<1>5. tx'[s].pc = "items" /\ tx'[s].job = t.job
  BY <1>1, <1>3, <1>4 DEF LocksItems, MovesStock, BasicFields
<1>6. DOMAIN tx'[s].rows = DOMAIN t.rows \cup {i} /\ i \in ToLock(t)
  BY <1>2, <1>4 DEF Insert, FirstItem
<1>7. ToLock(tx[s])' = ToLock(t) \ {i} /\ Move(tx[s])' = Move(t)
  <2>1. CASE LocksItems(t)
    <3>1. t.job.kind = "purchase"
      BY <2>1, PurchaseJob DEF LocksItems
    <3> QED BY <1>5, <1>6, <3>1 DEF ToLock, Move
  <2>2. CASE MovesStock(t)
    <3>1. tx'[s].order = t.order /\ tx'[s].hold = t.hold /\ t.job.kind # "purchase"
      BY <1>4, <2>2, OrderJob DEF MovesStock, LocksInv
    <3> QED BY <1>5, <1>6, <3>1 DEF ToLock, Move
  <2> QED BY <1>3, <2>1, <2>2
<1>8. ASSUME NEW first, RowsLocked(t, first), ToLock(t) \subseteq Items
      PROVE  /\ tx'[s].held = {first} \cup ItemLocks(DOMAIN tx'[s].rows)
             /\ \A j \in DOMAIN tx'[s].rows : tx'[s].rows[j] = stock'[j]
             /\ \A j \in DOMAIN tx'[s].rows, l \in ToLock(t) \ {i} : Position[j] < Position[l]
  <2>1. tx'[s].held = {first} \cup ItemLocks(DOMAIN tx'[s].rows)
    BY <1>4, <1>6, <1>8 DEF RowsLocked, ItemLocks
  <2>2. \A j \in DOMAIN tx'[s].rows : tx'[s].rows[j] = stock'[j]
    BY <1>1, <1>4, <1>6, <1>8 DEF RowsLocked, Insert, vars
  <2>3. ASSUME NEW j \in DOMAIN tx'[s].rows, NEW l \in ToLock(t) \ {i}
        PROVE  Position[j] < Position[l]
    <3>1. Position[i] <= Position[l] /\ i \in Items /\ l \in Items /\ i # l
      BY <1>2, <1>6, <1>8 DEF FirstItem
    <3>2. Position[i] < Position[l]
      BY <3>1, SessionsAssumption
    <3> QED BY <1>6, <1>8, <3>2 DEF RowsLocked
  <2> QED BY <2>1, <2>2, <2>3
<1>9. CASE LocksItems(t)
  <2>1. t.job \in PurchaseJobs /\ MayBuy(t) /\ t.job.kind = "purchase" /\ DOMAIN t.job.items \subseteq Items
    BY <1>9, PurchaseJob DEF LocksItems
  <2>2. ToLock(t) = DOMAIN t.job.items \ DOMAIN t.rows
    BY <2>1 DEF ToLock
  <2>3. RowsLocked(tx[s], KeyLock(tx[s].job))'
    BY <1>5, <1>7, <1>8, <2>1, <2>2 DEF MayBuy, RowsLocked, KeyLock
  <2>4. MayBuy(tx[s])'
    BY <1>1, <1>5, <1>6, <2>1, <2>2, <2>3, SameJobs DEF MayBuy, OnSale, KeyUnused, vars
  <2>5. LocksItems(tx[s])'
    BY <1>4, <1>5, <1>9, <2>1, <2>4, SameJobs, <1>1 DEF LocksItems
  <2> QED BY <1>1, <1>2, <1>4, <2>5, MoveKeeps DEF Valid
<1>10. CASE MovesStock(t)
  <2> DEFINE o == OrderOf(t.job)
  <2>1. /\ t.job \in OrderJobs /\ t.job.kind # "purchase" /\ o \in DOMAIN orders
        /\ RowsLocked(t, OrderLock(t.job)) /\ ~Refuses(t) /\ t.order = orders[o]
        /\ t.hold = reservations[o] /\ t.paid = Paid(o)
        /\ DOMAIN t.rows \subseteq DOMAIN orders[o].items
    BY <1>10, OrderJob DEF MovesStock, LocksInv
  <2>2. Move(t) # "none" /\ ToLock(t) = DOMAIN orders[o].items \ DOMAIN t.rows
    BY <1>6, <2>1 DEF ToLock
  <2>3. ToLock(t) \subseteq Items
    BY <2>1, <2>2 DEF LocksInv, TypeInv, References, Tables, IsTable
  <2>4. /\ tx'[s].order = t.order /\ tx'[s].hold = t.hold /\ tx'[s].paid = t.paid
        /\ OrderOf(tx[s].job)' = o /\ Paid(o)' = Paid(o)
    <3>1. {"order", "hold", "paid"} \subseteq DOMAIN t
      BY <1>10 DEF MovesStock
    <3>2. tx'[s].order = t.order /\ tx'[s].hold = t.hold /\ tx'[s].paid = t.paid
      BY <1>4, <3>1
    <3>3. OrderOf(tx[s].job)' = o
      BY <1>1, <1>5 DEF OrderOf, vars
    <3>4. Paid(o)' = Paid(o)
      BY <1>1, <3>3 DEF Paid, AttemptsOf, vars
    <3> QED BY <3>2, <3>3, <3>4
  <2>5. ~Refuses(tx[s])'
    BY <1>5, <2>1, <2>4 DEF Refuses
  <2>6. RowsLocked(tx[s], OrderLock(tx[s].job))'
    BY <1>5, <1>7, <1>8, <2>1, <2>3, <2>4 DEF RowsLocked, OrderLock
  <2>7. MovesStock(tx[s])'
    <3>1. (tx[s].order = orders[OrderOf(tx[s].job)])' /\ (tx[s].hold = reservations[OrderOf(tx[s].job)])'
          /\ (tx[s].paid = Paid(OrderOf(tx[s].job)))'
      BY <1>1, <1>5, <2>1, <2>4 DEF vars, Paid, AttemptsOf, OrderOf
    <3>2. (DOMAIN tx[s].rows \subseteq DOMAIN orders[OrderOf(tx[s].job)].items)'
      BY <1>1, <1>6, <2>1, <2>2, <2>4 DEF vars
    <3>3. DOMAIN tx'[s] = BasicFields \cup {"order", "hold", "paid"}
      BY <1>4, <1>10 DEF MovesStock
    <3>4. tx'[s].job \in OrderJobs'
      BY <1>1, <1>5, <2>1, SameJobs
    <3> QED BY <1>5, <1>7, <2>2, <2>5, <2>6, <3>1, <3>2, <3>3, <3>4 DEF MovesStock
  <2> QED BY <1>1, <1>2, <1>4, <2>7, MoveKeeps DEF Valid
<1> QED BY <1>3, <1>9, <1>10

\* With all its items locked a purchase has checked none of them.
LEMMA KeepsItemsLocked ==
  ASSUME LocksInv, NEW s \in Sessions, ItemsLocked(s)
  PROVE  Transactions'
<1> DEFINE t == tx[s]
<1>1. /\ t.pc = "items" /\ t.job.kind = "purchase" /\ ToLock(t) = {} /\ UNCHANGED vars
      /\ DOMAIN tx = Sessions /\ LocksItems(t)
  BY AtPlace DEF ItemsLocked, LocksInv, Transactions
<1>2. /\ Moves(s) /\ tx'[s].pc = "check" /\ tx'[s].job = t.job /\ tx'[s].held = t.held
      /\ tx'[s].rows = t.rows /\ tx'[s].unchecked = DOMAIN t.rows
      /\ DOMAIN tx'[s] = BasicFields \cup {"unchecked"}
  BY <1>1 DEF ItemsLocked, Moves, BasicFields
<1>3. t.job \in PurchaseJobs /\ MayBuy(t) /\ DOMAIN t.rows = DOMAIN t.job.items
  BY <1>1 DEF LocksItems, MayBuy, ToLock
<1>4. ToLock(tx[s])' = {}
  BY <1>1, <1>2 DEF ToLock
<1>5. MayBuy(tx[s])'
  BY <1>1, <1>2, <1>3, <1>4 DEF MayBuy, OnSale, RowsLocked, KeyLock, KeyUnused, vars
<1>6. ChecksItems(tx[s])'
  BY <1>1, <1>2, <1>3, <1>5, SameJobs DEF ChecksItems
<1> QED BY <1>1, <1>2, <1>6, MoveKeeps DEF Valid

\* An item is checked against the row that is locked.
LEMMA KeepsCheckItem ==
  ASSUME LocksInv, NEW s \in Sessions, CheckItem(s)
  PROVE  Transactions'
<1> DEFINE t == tx[s]
<1>1. t.pc = "check" /\ UNCHANGED vars /\ DOMAIN tx = Sessions /\ ChecksItems(t)
  BY AtPlace DEF CheckItem, LocksInv, Transactions
<1>2. CASE Ends(s)
  BY <1>1, <1>2, EndKeeps
<1>3. ASSUME NEW i \in t.unchecked, t.rows[i].available >= t.job.items[i],
             WithinLimit(t.job.user, i, t.job.items[i]),
             tx' = [tx EXCEPT ![s].unchecked = @ \ {i}]
      PROVE  Transactions'
  <2>1. /\ t.job \in PurchaseJobs /\ MayBuy(t) /\ DOMAIN t.rows = DOMAIN t.job.items
        /\ DOMAIN t = BasicFields \cup {"unchecked"}
        /\ \A j \in DOMAIN t.rows : t.rows[j] = stock[j]
        /\ \A j \in DOMAIN t.rows \ t.unchecked :
             InStock(j, t.job.items[j]) /\ WithinLimit(t.job.user, j, t.job.items[j])
    BY <1>1 DEF ChecksItems, MayBuy, RowsLocked
  <2>2. /\ Moves(s) /\ tx'[s].pc = "check" /\ tx'[s].job = t.job /\ tx'[s].held = t.held
        /\ tx'[s].rows = t.rows /\ tx'[s].unchecked = t.unchecked \ {i}
        /\ DOMAIN tx'[s] = BasicFields \cup {"unchecked"}
    BY <1>1, <1>3, <2>1 DEF Moves, BasicFields
  <2>3. ToLock(tx[s])' = ToLock(t)
    BY <2>1, <2>2, PurchaseJob DEF ToLock
  <2>4. MayBuy(tx[s])'
    BY <1>1, <2>1, <2>2, <2>3 DEF MayBuy, OnSale, RowsLocked, KeyLock, KeyUnused, vars
  <2>5. ASSUME NEW j \in DOMAIN t.rows \ (t.unchecked \ {i})
        PROVE  InStock(j, t.job.items[j]) /\ WithinLimit(t.job.user, j, t.job.items[j])
    BY <1>3, <2>1, <2>5 DEF InStock
  <2>6. ASSUME NEW u, NEW j, NEW n
        PROVE  InStock(j, n)' = InStock(j, n) /\ WithinLimit(u, j, n)' = WithinLimit(u, j, n)
    BY <1>1 DEF InStock, WithinLimit, Used, Unexpired, OrdersIn, Lines, vars
  <2>7. ChecksItems(tx[s])'
    BY <1>1, <2>1, <2>2, <2>4, <2>5, <2>6, SameJobs DEF ChecksItems
  <2> QED BY <1>1, <2>2, <2>7, MoveKeeps DEF Valid
<1> QED BY <1>2, <1>3 DEF CheckItem, FirstItem

\* The order is read with its lock.
LEMMA KeepsLockOrder ==
  ASSUME LocksInv, NEW s \in Sessions, LockOrder(s)
  PROVE  Transactions'
<1> DEFINE t == tx[s]
           lock == OrderLock(t.job)
<1>1. /\ t.pc = "begin" /\ t.job.kind # "purchase" /\ UNCHANGED vars
      /\ DOMAIN tx = Sessions /\ Started(t)
  BY AtPlace DEF LockOrder, LocksInv, Transactions
<1>2. t.job \in OrderJobs
  BY <1>1, PurchaseJob DEF Started
<1>3. /\ Unlocked(lock) /\ lock[2] = OrderOf(t.job)
      /\ tx' = [tx EXCEPT ![s] = [pc |-> "order", job |-> t.job, rows |-> <<>>,
                                  held |-> {lock}, order |-> orders[lock[2]]]]
  BY <1>1 DEF LockOrder, NextLocks, OrderLock
<1>4. /\ Moves(s) /\ tx'[s].pc = "order" /\ tx'[s].job = t.job /\ tx'[s].rows = <<>>
      /\ tx'[s].held = {lock} /\ tx'[s].order = orders[OrderOf(t.job)]
      /\ DOMAIN tx'[s] = BasicFields \cup {"order"}
  BY <1>1, <1>3 DEF Moves, BasicFields
<1>5. HoldsOrder(tx[s])'
  BY <1>1, <1>2, <1>4, SameJobs DEF HoldsOrder, OrderLock, OrderOf, vars
<1> QED BY <1>1, <1>3, <1>4, <1>5, MoveKeeps DEF Valid

\* What is read under the order's lock is current.
LEMMA KeepsReadOrder ==
  ASSUME LocksInv, NEW s \in Sessions, ReadOrder(s)
  PROVE  Transactions'
<1> DEFINE t == tx[s]
           o == OrderOf(t.job)
           read == [pc |-> "items", job |-> t.job, rows |-> t.rows, held |-> t.held,
                    order |-> t.order, hold |-> reservations[o],
                    paid |-> [a \in AttemptsOf(o) |-> attempts[a]]]
<1>1. t.pc = "order" /\ UNCHANGED vars /\ DOMAIN tx = Sessions /\ HoldsOrder(t)
  BY AtPlace DEF ReadOrder, LocksInv, Transactions
<1>2. CASE Ends(s)
  BY <1>1, <1>2, EndKeeps
<1>3. CASE ~Refuses(read) /\ tx' = [tx EXCEPT ![s] = read]
  <2>1. Moves(s) /\ tx'[s] = read
    BY <1>1, <1>3 DEF Moves
  <2>2. /\ tx'[s].pc = "items" /\ tx'[s].job = t.job /\ tx'[s].rows = t.rows
        /\ tx'[s].held = t.held /\ tx'[s].order = t.order /\ tx'[s].hold = reservations[o]
        /\ tx'[s].paid = Paid(o) /\ DOMAIN tx'[s] = BasicFields \cup {"order", "hold", "paid"}
    BY <2>1 DEF BasicFields, Paid
  <2>3. /\ t.job \in OrderJobs /\ t.held = {OrderLock(t.job)} /\ t.rows = <<>> /\ t.order = orders[o]
        /\ DOMAIN t.rows = {}
    BY <1>1 DEF HoldsOrder
  <2>4. ~Refuses(tx[s])'
    <3>1. ~Refuses(read) /\ tx'[s] = read
      BY <1>3, <2>1
    <3> HIDE DEF read
    <3> QED BY <3>1 DEF Refuses
  <2>5. OrderOf(tx[s].job)' = o /\ Paid(OrderOf(tx[s].job))' = Paid(o)
    <3>1. OrderOf(tx[s].job)' = o
      BY <1>1, <2>2 DEF OrderOf, vars
    <3> QED BY <1>1, <3>1 DEF Paid, AttemptsOf, vars
  <2>6. RowsLocked(tx[s], OrderLock(tx[s].job))'
    BY <2>2, <2>3, <2>5 DEF RowsLocked, OrderLock, ItemLocks
  <2>7. MovesStock(tx[s])'
    BY <1>1, <2>2, <2>3, <2>4, <2>5, <2>6, SameJobs DEF MovesStock, vars
  <2> QED BY <1>1, <2>1, <2>2, <2>7, MoveKeeps DEF Valid
<1> QED BY <1>2, <1>3 DEF ReadOrder

-----------------------------------------------------------------------------
(* Every step *)

\* A commit leaves the others where they are.
LEMMA CommitKeeps ==
  ASSUME LocksInv, NEW s \in Sessions, [Next]_vars, Ends(s), WritesOnly(tx[s].held)
  PROVE  LocksInv'
<1>1. /\ TypeInv /\ TypeInv' /\ StateInv' /\ Exclusive /\ DOMAIN tx = Sessions
      /\ \A r \in Sessions : Valid(tx[r])
  BY TypeInvNext, StateInvNext DEF LocksInv, Transactions
<1>2. Moves(s) /\ tx'[s] = NoTx
  BY <1>1 DEF Ends, Moves
<1>3. ASSUME NEW r \in Sessions PROVE Valid(tx[r])'
  <2>1. CASE r = s
    BY <1>2, <2>1, NothingHeld DEF Valid
  <2>2. CASE r # s
    BY <1>1, <1>2, <2>2, OthersUndisturbed, StaysValid DEF Moves
  <2> QED BY <2>1, <2>2
<1>4. Exclusive'
  BY <1>1, <1>2, NothingHeld DEF Exclusive, Moves
<1> QED BY <1>1, <1>2, <1>3, <1>4 DEF LocksInv, Transactions, Moves

\* A new sale disturbs nobody.
LEMMA CreateSaleDisturbsNone ==
  ASSUME TypeInv, StateInv, NEW s \in Sales, NEW opensAt \in 0..MaxOpensIn, CreateSale(s, opensAt),
         NEW held
  PROVE  Undisturbed(held)
<1>1. UNCHANGED <<orders, reservations, attempts>>
  BY DEF CreateSale
<1>2. \A x \in DOMAIN sales : x \in DOMAIN sales' /\ sales'[x] = sales[x]
  BY DEF CreateSale, Insert
<1>3. \A i \in DOMAIN stock : stock'[i] = stock[i]
  BY DEF CreateSale, TypeInv, Tables, References, IsTable
<1>4. ASSUME NEW u, NEW i
      PROVE  Used(u, i)' <= Used(u, i)
  <2>1. Used(u, i)' = Used(u, i)
    BY <1>1 DEF Used, Lines, Unexpired, OrdersIn
  <2>2. Used(u, i) \in Nat
    BY OrdersFinite, SumType DEF Used
  <2> QED BY <2>1, <2>2
<1> QED BY <1>1, <1>2, <1>3, <1>4 DEF Undisturbed, Paid, AttemptsOf, KeyUnused

\* Whatever step is taken, what the transactions read is current and each commit is one
\* of Checkout's actions.
LEMMA LocksStep ==
  ASSUME LocksInv, [LocksNext]_lockVars
  PROVE  LocksInv' /\ [Next]_vars
<1>0. TypeInv /\ StateInv /\ DOMAIN tx = Sessions /\ \A s \in Sessions : Valid(tx[s])
  BY DEF LocksInv, Transactions
<1>1. ASSUME UNCHANGED vars, Transactions'
      PROVE  LocksInv' /\ [Next]_vars
  BY <1>0, <1>1, TypeInvNext, StateInvNext DEF LocksInv
<1>2. ASSUME NEW s \in Sessions,
             \/ \E job \in Jobs : Begin(s, job)
             \/ LockKey(s) \/ LookUp(s) \/ LockItem(s) \/ ItemsLocked(s) \/ CheckItem(s)
             \/ LockOrder(s) \/ ReadOrder(s)
      PROVE  LocksInv' /\ [Next]_vars
  <2>1. UNCHANGED vars
    BY <1>2 DEF Begin, LockKey, LookUp, LockItem, ItemsLocked, CheckItem, LockOrder, ReadOrder
  <2>2. Transactions'
    BY <1>2, KeepsBegin, KeepsLockKey, KeepsLookUp, KeepsLockItem, KeepsItemsLocked,
       KeepsCheckItem, KeepsLockOrder, KeepsReadOrder
  <2> QED BY <1>1, <2>1, <2>2
<1>3. ASSUME NEW s \in Sessions, NEW o \in OrderIds, CommitPurchase(s, o)
      PROVE  LocksInv' /\ [Next]_vars
  <2>1. /\ tx[s].job \in PurchaseJobs
        /\ Purchase(tx[s].job.user, tx[s].job.key, tx[s].job.sale, tx[s].job.items, o)
    BY <1>0, <1>3, MapsCommitPurchase
  <2>2. Next
    BY <2>1, PurchaseJob DEF Next
  <2> QED BY <1>0, <1>3, <2>2, PurchaseWrites, CommitKeeps DEF CommitPurchase
<1>4. ASSUME NEW s \in Sessions,
             CommitExpire(s) \/ CommitApply(s) \/ \E a \in AttemptIds : CommitStart(s, a)
      PROVE  LocksInv' /\ [Next]_vars
  <2>1. Ends(s)
    BY <1>4 DEF CommitExpire, CommitApply, CommitStart
  <2> QED BY <1>0, <1>4, <2>1, OrderWrites, CommitKeeps
<1>5. ASSUME NEW s \in Sales, NEW opensAt \in 0..MaxOpensIn, CreateSale(s, opensAt), UNCHANGED tx
      PROVE  LocksInv' /\ [Next]_vars
  <2>1. Next
    BY <1>5 DEF Next
  <2>2. TypeInv' /\ StateInv'
    BY <1>0, <2>1, TypeInvNext, StateInvNext
  <2>3. \A r \in Sessions : Valid(tx[r])'
    BY <1>0, <1>5, <2>1, <2>2, CreateSaleDisturbsNone, StaysValid
  <2> QED BY <1>0, <1>5, <2>1, <2>2, <2>3 DEF LocksInv, Transactions, Exclusive
<1>6. CASE Tick /\ (\A s \in Sessions : tx[s] = NoTx) /\ UNCHANGED tx
  <2>1. Next
    BY <1>6 DEF Next
  <2>2. TypeInv' /\ StateInv'
    BY <1>0, <2>1, TypeInvNext, StateInvNext
  <2>3. \A r \in Sessions : Valid(tx[r])'
    BY <1>6 DEF Valid, NoTx
  <2> QED BY <1>0, <1>6, <2>1, <2>2, <2>3 DEF LocksInv, Transactions, Exclusive
<1>7. CASE UNCHANGED lockVars
  <2>1. UNCHANGED vars /\ UNCHANGED tx
    BY <1>7 DEF lockVars
  <2>2. TypeInv' /\ StateInv'
    BY <1>0, <2>1, TypeInvNext, StateInvNext
  <2>3. \A r \in Sessions : Valid(tx[r])'
    BY <1>0, <2>1, <2>2, NoWrite, StaysValid
  <2> QED BY <1>0, <2>1, <2>2, <2>3 DEF LocksInv, Transactions, Exclusive
<1> QED BY <1>2, <1>3, <1>4, <1>5, <1>6, <1>7 DEF LocksNext

\* A connection without a transaction is at no place to be wrong about.
LEMMA LocksInvInit == LocksInit => LocksInv
<1> SUFFICES ASSUME LocksInit PROVE LocksInv
  OBVIOUS
<1>1. DOMAIN tx = Sessions /\ \A s \in Sessions : tx[s] = NoTx
  BY DEF LocksInit
<1>2. Transactions
  BY <1>1, NothingHeld DEF Transactions, Exclusive
<1> QED BY <1>2, TypeInvInit, StateInvInit DEF LocksInv, LocksInit

\* In every state what a transaction has read under its locks is what is committed.
THEOREM LocksInvariance == LocksSpec => []LocksInv
<1>1. LocksInv /\ [LocksNext]_lockVars => LocksInv'
  BY LocksStep
<1> QED BY <1>1, LocksInvInit, PTL DEF LocksSpec

\* Lock by lock and statement by statement the transactions do what Checkout's
\* actions do in one step.
THEOREM CommitsAreSteps == LocksSpec => CommitsAreAtomic
<1>1. LocksInv /\ [LocksNext]_lockVars => [Next]_vars
  BY LocksStep
<1>2. LocksInit => Init
  BY DEF LocksInit
<1> QED BY <1>1, <1>2, LocksInvariance, PTL DEF LocksSpec, Spec, CommitsAreAtomic

\* So the promises of the allocation of limited stock are kept under READ COMMITTED.
THEOREM LocksAllocateStock == LocksSpec => AllocatesStock
BY CommitsAreSteps, Refinement, PTL DEF CommitsAreAtomic

-----------------------------------------------------------------------------
(* Waiting *)

\* Of finitely many numbers one is the greatest.
LEMMA GreatestExists ==
  ASSUME NEW W, IsFiniteSet(W), W # {}, NEW f \in [W -> Nat]
  PROVE  \E s \in W : \A r \in W : f[r] <= f[s]
<1> DEFINE Below(s) == {r \in W : f[r] < f[s]}
           Rest(s) == Cardinality(W) - Cardinality(Below(s))
           Rests == {Rest(s) : s \in W}
<1>1. ASSUME NEW s \in W
      PROVE  /\ IsFiniteSet(Below(s)) /\ Cardinality(Below(s)) \in Nat
             /\ Cardinality(W) \in Nat /\ Rest(s) \in Nat
  <2>1. Below(s) \in SUBSET W
    OBVIOUS
  <2>2. /\ IsFiniteSet(Below(s)) /\ Cardinality(Below(s)) <= Cardinality(W)
    BY <2>1, FS_Subset
  <2>3. Cardinality(Below(s)) \in Nat /\ Cardinality(W) \in Nat
    BY <2>2, FS_CardinalityType
  <2> QED BY <2>2, <2>3
<1>2. PICK n \in Rests : \A m \in Rests : ~(<<m, n>> \in OpToRel(<, Nat))
  <2>1. Rests \subseteq Nat /\ Rests # {}
    BY <1>1
  <2> HIDE DEF Rests
  <2> QED BY <2>1, NatLessThanWellFounded, WFMin
<1>3. PICK s \in W : n = Rest(s)
  OBVIOUS
<1>4. ASSUME NEW r \in W, f[s] < f[r]
      PROVE  FALSE
  <2>1. Below(s) \in SUBSET Below(r) /\ s \in Below(r) /\ s \notin Below(s)
    BY <1>4
  <2>2. Cardinality(Below(s)) <= Cardinality(Below(r)) /\ Cardinality(Below(s)) # Cardinality(Below(r))
    BY <1>1, <2>1, FS_Subset
  <2>3. Rest(r) < Rest(s) /\ Rest(r) \in Nat /\ Rest(s) \in Nat
    <3>1. /\ Cardinality(Below(s)) \in Nat /\ Cardinality(Below(r)) \in Nat
          /\ Cardinality(W) \in Nat /\ Rest(r) \in Nat /\ Rest(s) \in Nat
      BY <1>1
    <3> HIDE DEF Below
    <3> QED BY <2>2, <3>1
  <2>4. Rest(r) \in Rests /\ Rest(s) = n
    BY <1>3
  <2>5. ~(<<Rest(r), n>> \in OpToRel(<, Nat))
    BY <1>2, <2>4
  <2> HIDE DEF Rest
  <2> QED BY <2>3, <2>4, <2>5 DEF OpToRel
<1> QED BY <1>4

\* The item a transaction waits for, when it waits for one.
Wanted(s) == CHOOSE i \in FirstItem(ToLock(tx[s])) : TRUE

\* Who waits either has nothing yet, or waits for an item that comes after all those
\* it has.
LEMMA WaitsUpwards ==
  ASSUME LocksInv, NEW s \in Sessions, NextLocks(tx[s]) # {}
  PROVE  /\ tx[s].pc \in {"begin", "items"}
         /\ tx[s].pc = "begin" => tx[s].held = {}
         /\ tx[s].pc = "items" =>
              /\ Wanted(s) \in Items /\ <<"item", Wanted(s)>> \in NextLocks(tx[s])
              /\ \A i \in Items : <<"item", i>> \in tx[s].held => Position[i] < Position[Wanted(s)]
<1> DEFINE t == tx[s]
<1>1. TypeInv /\ Valid(t)
  BY DEF LocksInv, Transactions
<1>2. t.pc \in {"begin", "items"}
  BY DEF NextLocks
<1>3. t.pc = "begin" => t.held = {}
  BY <1>1, AtPlace DEF Started
<1>4. ASSUME t.pc = "items"
      PROVE  /\ Wanted(s) \in Items /\ <<"item", Wanted(s)>> \in NextLocks(t)
             /\ \A i \in Items : <<"item", i>> \in t.held => Position[i] < Position[Wanted(s)]
  <2>1. NextLocks(t) = {<<"item", i>> : i \in FirstItem(ToLock(t))}
    BY <1>4 DEF NextLocks
  <2>2. Wanted(s) \in FirstItem(ToLock(t)) /\ <<"item", Wanted(s)>> \in NextLocks(t)
    BY <2>1 DEF Wanted
  <2>3. \E first : RowsLocked(t, first) /\ \A i : first # <<"item", i>>
    <3>1. CASE t.job.kind = "purchase"
      <4>1. RowsLocked(t, KeyLock(t.job))
        BY <1>1, <1>4, <3>1, AtPlace DEF LocksItems, MayBuy
      <4>2. \A i : KeyLock(t.job) # <<"item", i>>
        BY LocksDiffer DEF KeyLock
      <4> QED BY <4>1, <4>2
    <3>2. CASE t.job.kind # "purchase"
      <4>1. RowsLocked(t, OrderLock(t.job))
        BY <1>1, <1>4, <3>2, AtPlace DEF MovesStock
      <4>2. \A i : OrderLock(t.job) # <<"item", i>>
        BY LocksDiffer DEF OrderLock
      <4> QED BY <4>1, <4>2
    <3> QED BY <3>1, <3>2
  <2>4. ToLock(t) \subseteq Items
    <3>1. CASE t.job.kind = "purchase"
      BY <1>1, <1>4, <3>1, AtPlace, PurchaseJob DEF LocksItems, ToLock
    <3>2. CASE t.job.kind # "purchase"
      <4>1. MovesStock(t)
        BY <1>1, <1>4, <3>2, AtPlace
      <4>2. t.order = orders[OrderOf(t.job)] /\ OrderOf(t.job) \in DOMAIN orders
        BY <1>1, <4>1, OrderJob DEF MovesStock
      <4> QED BY <1>1, <3>2, <4>2 DEF ToLock, TypeInv, References, Tables, IsTable
    <3> QED BY <3>1, <3>2
  <2>5. \A i : <<"item", i>> \in t.held => i \in DOMAIN t.rows
    BY <2>3 DEF RowsLocked, ItemLocks
  <2> QED BY <2>2, <2>3, <2>4, <2>5 DEF RowsLocked, FirstItem
<1> QED BY <1>2, <1>3, <1>4

\* Of transactions that wait, the one whose wanted item comes last waits for none of
\* the others, since they only hold items before it.
THEOREM NeverInCircles == LocksSpec => []NoCircularWait
<1>1. LocksInv => NoCircularWait
  <2> SUFFICES ASSUME LocksInv, NEW S \in SUBSET {s \in Sessions : NextLocks(tx[s]) # {}}, S # {}
               PROVE  \E s \in S : \E lock \in NextLocks(tx[s]) : \A t \in S : lock \notin tx[t].held
    BY DEF NoCircularWait
  <2> DEFINE W == {s \in S : tx[s].pc = "items"}
  <2>1. CASE W = {}
    <3>1. \A t \in S : tx[t].held = {}
      BY <2>1, WaitsUpwards
    <3> QED BY <3>1
  <2>2. CASE W # {}
    <3> DEFINE f == [s \in W |-> Position[Wanted(s)]]
    <3>1. IsFiniteSet(W)
      <4>1. W \in SUBSET Sessions
        OBVIOUS
      <4> QED BY <4>1, SessionsAssumption, FS_Subset
    <3>2. f \in [W -> Nat]
      BY WaitsUpwards, SessionsAssumption
    <3>3. PICK s \in W : \A r \in W : f[r] <= f[s]
      <4> HIDE DEF W, f
      <4> QED BY <2>2, <3>1, <3>2, GreatestExists
    <3>4. Wanted(s) \in Items /\ <<"item", Wanted(s)>> \in NextLocks(tx[s])
      BY WaitsUpwards
    <3>5. ASSUME NEW t \in S, <<"item", Wanted(s)>> \in tx[t].held
          PROVE  FALSE
      <4>1. t \in W /\ Position[Wanted(s)] < Position[Wanted(t)] /\ Wanted(t) \in Items
        BY <3>4, <3>5, WaitsUpwards
      <4>2. Position[Wanted(t)] <= Position[Wanted(s)]
        BY <3>3, <4>1
      <4> QED BY <3>4, <4>1, <4>2, SessionsAssumption
    <3> QED BY <3>4, <3>5
  <2> QED BY <2>1, <2>2
<1> QED BY <1>1, LocksInvariance, PTL
=============================================================================
