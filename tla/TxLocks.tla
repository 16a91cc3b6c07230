------------------------------ MODULE TxLocks ------------------------------
(***************************************************************************)
(* The transactions that Checkout takes as single steps, lock by lock and  *)
(* statement by statement, under READ COMMITTED: each statement sees what  *)
(* is committed when it runs, writes become visible at commit, and locks   *)
(* are kept until then.  A purchase locks its key and then its items; the  *)
(* others lock an order and then, when they move stock, its items.         *)
(*                                                                         *)
(* The variables of Checkout are the committed tables.  What a transaction *)
(* has read is in its row of tx, and a commit writes whole rows back, as   *)
(* the entity manager does.  Time passes between transactions only.        *)
(***************************************************************************)
EXTENDS Checkout

CONSTANTS
  Sessions,   \* database connections
  Position    \* where an item comes in the order of ids

ASSUME SessionsAssumption ==
  /\ IsFiniteSet(Sessions)
  /\ Position \in [Items -> Nat]
  /\ \A i, j \in Items : Position[i] = Position[j] => i = j

VARIABLE tx   \* session -> the transaction it runs

lockVars == <<vars, tx>>

NoTx == [pc |-> "none", held |-> {}]

LocksInit == Init /\ tx = [s \in Sessions |-> NoTx]

-----------------------------------------------------------------------------
(* What a transaction wants, and what it knows *)

\* The items whose rows a transaction writes, known once it has read its order.
Move(t) ==
  CASE t.job.kind = "purchase" -> "hold"
    [] t.job.kind = "start" -> "none"
    [] t.job.kind = "expire" -> "release"
    [] t.job.kind = "apply" ->
         IF t.job.result = "SUCCEEDED" THEN "confirm"
         ELSE IF t.job.result = "FAILED" /\ t.hold.holdExpiresAt = 0 /\ t.hold.status = "ACTIVE"
              THEN "release" ELSE "none"
ToLock(t) ==
  (IF t.job.kind = "purchase" THEN DOMAIN t.job.items
   ELSE IF Move(t) = "none" THEN {} ELSE DOMAIN t.order.items) \ DOMAIN t.rows

\* SaleRepository.lockItems goes by id.
AnyItem(S) == S  \* mutant
FirstItem(S) == {i \in S : \A j \in S : Position[i] <= Position[j]}

OrderOf(job) == IF job.kind = "apply" THEN attempts[job.attempt].order ELSE job.order

\* The locks one of which a transaction asks for next.
NextLocks(t) ==
  CASE t.pc = "begin" /\ t.job.kind = "purchase" -> {<<"key", t.job.user, t.job.key>>}
    [] t.pc = "begin" /\ t.job.kind # "purchase" -> {<<"order", OrderOf(t.job)>>}
    [] t.pc = "items" -> {<<"item", i>> : i \in FirstItem(ToLock(t))}
    [] OTHER -> {}

NotWaiting(lock) == TRUE  \* mutant
Unlocked(lock) == \A s \in Sessions : lock \notin tx[s].held

\* What makes payments start, apply and expire stop after they read the order.
Refuses(t) ==
  CASE t.job.kind = "start" ->
         \/ \E b \in DOMAIN t.paid : t.paid[b].key = t.job.key \/ t.paid[b].status # "FAILED"
         \/ t.order.status # "PAYMENT_PENDING"
         \/ t.hold.holdExpiresAt = 0
    [] t.job.kind = "apply" ->
         \/ t.paid[t.job.attempt].status \in {"SUCCEEDED", "FAILED"}
         \/ t.job.result = "SUCCEEDED" /\ t.hold.status # "ACTIVE"
    [] t.job.kind = "expire" ->
         \/ t.order.status # "PAYMENT_PENDING"
         \/ t.hold.status # "ACTIVE" \/ t.hold.holdExpiresAt > 0

-----------------------------------------------------------------------------
(* Steps *)

\* The kinds of transaction there are; an item of another sale is refused
\* without a write, and so left out.
Jobs ==
  {[kind |-> "purchase", user |-> u, key |-> k, sale |-> s, items |-> request] :
     u \in Users, k \in Keys, s \in Sales, request \in Requests}
  \cup {[kind |-> "start", order |-> o, key |-> k, scenario |-> scenario] :
          o \in DOMAIN orders, k \in Keys, scenario \in Scenarios}
  \cup {[kind |-> "apply", attempt |-> a, result |-> result] :
          a \in DOMAIN attempts, result \in Results}
  \cup {[kind |-> "expire", order |-> o] : o \in DOMAIN orders}

Begin(s, job) ==
  /\ tx[s] = NoTx
  /\ job.kind = "purchase" =>
       job.sale \in DOMAIN sales /\ \A i \in DOMAIN job.items : SaleOf[i] = job.sale
  /\ tx' = [tx EXCEPT ![s] = [pc |-> "begin", job |-> job, held |-> {}, rows |-> <<>>]]
  /\ UNCHANGED vars

\* A commit or a rollback.
Ends(s) == tx' = [tx EXCEPT ![s] = NoTx]

\* OrderRepository.serializeKey
LockKey(s) ==
  LET t == tx[s] IN
  /\ t.pc = "begin" /\ t.job.kind = "purchase"
  /\ \E lock \in NextLocks(t) :
       /\ Unlocked(lock)
       /\ tx' = [tx EXCEPT ![s].held = {lock}, ![s].pc = "key"]
  /\ UNCHANGED vars

\* byKey, and the sale's opening.
LookUp(s) ==
  LET t == tx[s] IN
  /\ t.pc = "key"
  /\ IF KeyUnused(t.job.user, t.job.key) /\ sales[t.job.sale] = 0
     THEN tx' = [tx EXCEPT ![s].pc = "items"]
     ELSE Ends(s)
  /\ UNCHANGED vars

\* The row is read anew once its lock is granted.
LockItem(s) ==
  LET t == tx[s] IN
  /\ t.pc = "items"
  /\ \E i \in FirstItem(ToLock(t)) :
       /\ Unlocked(<<"item", i>>)
       /\ tx' = [tx EXCEPT ![s].held = @ \cup {<<"item", i>>},
                           ![s].rows = Insert(@, i, stock[i])]
  /\ UNCHANGED vars

\* A purchase looks at its items one by one, with a query of the user's orders
\* for each.
ItemsLocked(s) ==
  /\ tx[s].pc = "items" /\ tx[s].job.kind = "purchase" /\ ToLock(tx[s]) = {}
  /\ tx' = [tx EXCEPT ![s] = [pc |-> "check", job |-> tx[s].job, held |-> tx[s].held,
                              rows |-> tx[s].rows, unchecked |-> DOMAIN tx[s].rows]]
  /\ UNCHANGED vars

CheckItem(s) ==
  LET t == tx[s] IN
  /\ t.pc = "check"
  /\ \E i \in FirstItem(t.unchecked) :
       IF t.rows[i].available >= t.job.items[i] /\ WithinLimit(t.job.user, i, t.job.items[i])
       THEN tx' = [tx EXCEPT ![s].unchecked = @ \ {i}]
       ELSE Ends(s)
  /\ UNCHANGED vars

CommitPurchase(s, o) ==
  LET t == tx[s] IN
  /\ t.pc = "check" /\ t.unchecked = {}
  /\ o \notin DOMAIN orders
  /\ Place(t.job.user, t.job.key, t.job.sale, t.job.items, o)
  /\ stock' = [i \in DOMAIN stock |->
                 IF i \in DOMAIN t.rows THEN Hold(t.rows[i], t.job.items[i]) ELSE stock[i]]
  /\ Ends(s)
  /\ UNCHANGED <<sales, attempts>>

\* OrderRepository.lock, which reads the order's row.
LockOrder(s) ==
  LET t == tx[s] IN
  /\ t.pc = "begin" /\ t.job.kind # "purchase"
  /\ \E lock \in NextLocks(t) :
       /\ Unlocked(lock)
       /\ tx' = [tx EXCEPT ![s] = [pc |-> "order", job |-> t.job, rows |-> <<>>,
                                   held |-> {lock}, order |-> orders[lock[2]]]]
  /\ UNCHANGED vars

\* The order's attempts and hold are read; the transaction stops or goes on.
ReadOrder(s) ==
  LET t == tx[s]
      o == OrderOf(t.job)
      read == [pc |-> "items", job |-> t.job, rows |-> t.rows, held |-> t.held,
               order |-> t.order, hold |-> reservations[o],
               paid |-> [a \in AttemptsOf(o) |-> attempts[a]]]
  IN /\ t.pc = "order"
     /\ IF Refuses(read) THEN Ends(s) ELSE tx' = [tx EXCEPT ![s] = read]
     /\ UNCHANGED vars

\* The rows of the order, its hold and its items, as this transaction read them
\* and with its own changes.
Settles(t, status) ==
  LET o == OrderOf(t.job) IN
  /\ orders' = [orders EXCEPT ![o] = [t.order EXCEPT !.status = status]]
  /\ reservations' = [reservations EXCEPT ![o] = [t.hold EXCEPT !.status = status]]
  /\ stock' = [i \in DOMAIN stock |->
                 IF i \in DOMAIN t.rows
                 THEN Settle(t.rows[i], t.order.items[i], status = "CONFIRMED") ELSE stock[i]]

CommitExpire(s) ==
  LET t == tx[s] IN
  /\ t.pc = "items" /\ t.job.kind = "expire" /\ ToLock(t) = {}
  /\ Settles(t, "EXPIRED")
  /\ Ends(s)
  /\ UNCHANGED <<sales, attempts>>

CommitStart(s, a) ==
  LET t == tx[s]
      o == OrderOf(t.job) IN
  /\ t.pc = "items" /\ t.job.kind = "start"
  /\ a \notin DOMAIN attempts
  /\ attempts' = Insert(attempts, a, [order |-> o, key |-> t.job.key,
                                      scenario |-> t.job.scenario, status |-> "CREATED"])
  /\ orders' = [orders EXCEPT ![o] = [t.order EXCEPT !.status = "PAYMENT_PROCESSING"]]
  /\ reservations' = [reservations EXCEPT ![o] =
                        [t.hold EXCEPT !.confirmationDeadline = PaymentWindow]]
  /\ Ends(s)
  /\ UNCHANGED <<sales, stock>>

CommitApply(s) ==
  LET t == tx[s]
      a == t.job.attempt IN
  /\ t.pc = "items" /\ t.job.kind = "apply" /\ ToLock(t) = {}
  /\ attempts' = [attempts EXCEPT ![a] = [t.paid[a] EXCEPT !.status = t.job.result]]
  /\ \/ Move(t) = "confirm" /\ Settles(t, "CONFIRMED")
     \/ Move(t) = "release" /\ Settles(t, "EXPIRED")
     \/ /\ Move(t) = "none" /\ t.job.result = "FAILED"
        /\ orders' = [orders EXCEPT ![OrderOf(t.job)] =
                        [t.order EXCEPT !.status = "PAYMENT_PENDING"]]
        /\ UNCHANGED <<stock, reservations>>
     \/ t.job.result = "UNKNOWN" /\ UNCHANGED <<stock, orders, reservations>>
  /\ Ends(s)
  /\ UNCHANGED sales

LocksNext ==
  \/ \E s \in Sessions :
       \/ \E job \in Jobs : Begin(s, job)
       \/ LockKey(s) \/ LookUp(s) \/ LockItem(s) \/ ItemsLocked(s) \/ CheckItem(s)
       \/ \E o \in OrderIds : CommitPurchase(s, o)
       \/ LockOrder(s) \/ ReadOrder(s) \/ CommitExpire(s) \/ CommitApply(s)
       \/ \E a \in AttemptIds : CommitStart(s, a)
  \/ /\ \/ \E s \in Sales, opensAt \in 0..MaxOpensIn : CreateSale(s, opensAt)
        \/ Tick /\ \A s \in Sessions : tx[s] = NoTx
     /\ UNCHANGED tx

LocksSpec == LocksInit /\ [][LocksNext]_lockVars

-----------------------------------------------------------------------------
(* Properties *)

\* Each commit does to the tables what one of Checkout's actions would do in that
\* very state, though it writes what it read some statements earlier: no lost
\* update, no limit or key checked against a state that is gone.
CommitsAreAtomic == Spec

\* Transactions never wait for each other in a circle, so one of them always
\* gets its lock (the id order that SaleRepository.lockItems insists on).
NoCircularWait ==
  \A S \in SUBSET {s \in Sessions : NextLocks(tx[s]) # {}} : S # {} =>
    \E s \in S : \E lock \in NextLocks(tx[s]) : \A t \in S : lock \notin tx[t].held
=============================================================================
