------------------------------ MODULE Waiting ------------------------------
(***************************************************************************)
(* The waiting room: waiting.lua, which Redis runs as one step per call,   *)
(* and the purchases made with the tickets it gives out.                   *)
(*                                                                         *)
(* Every key that ends at an instant keeps the time left, and a score in a *)
(* sorted set is the time left too; 0 is "at or before now".  An id is the *)
(* hash of a user and a key, so a poll with another user's id is refused.  *)
(* The body of a request is left out but for its sale: a body that differs *)
(* is refused without a change.                                            *)
(***************************************************************************)
EXTENDS Catalog

CONSTANTS
  Ids,           \* admission ids; their order is that of the hashes
  WaitFor,       \* from joining to the deadline
  ReadyFor,      \* how long a ticket lasts
  LiveFor,       \* without a poll for so long, a waiter loses its place
  SoonRetry,     \* when those near the front are asked to come back,
  LateRetry,     \* and the others
  Near,          \* ranks below this are near the front
  RateInterval,  \* at least so long between two tickets
  ReadyLimit,    \* unused tickets
  MaxWaiting,    \* waiters and unused tickets
  PurgeLimit     \* inactive waiters removed by one call

ASSUME WaitingAssumption ==
  /\ Ids \subseteq Nat /\ IsFiniteSet(Ids)
  /\ {WaitFor, ReadyFor, LiveFor, SoonRetry, LateRetry, RateInterval, ReadyLimit,
      MaxWaiting, PurgeLimit} \subseteq Nat \ {0}
  /\ Near \in Nat
  /\ SoonRetry <= LateRetry /\ LateRetry < LiveFor

VARIABLES
  items,   \* id -> its record (waiting:item), which lasts until its deadline
  queue,   \* id -> time left (waiting:queue)
  ready,   \* id -> time left (waiting:ready)
  live,    \* id -> time left (waiting:live)
  rate,    \* time left until the next ticket may be given (waiting:rate)
  bought   \* id -> whether its purchase still has to return its ticket

roomVars == <<items, queue, ready, live, rate, bought>>
waitingVars == <<catalogVars, roomVars>>

Put(table, id, row) == [x \in DOMAIN table \cup {id} |-> IF x = id THEN row ELSE table[x]]
Drop(table, ids) == [x \in DOMAIN table \ ids |-> table[x]]

WaitingTypeOK ==
  /\ CatalogTypeOK
  /\ DOMAIN items \subseteq Ids
  /\ \A id \in DOMAIN items :
       /\ items[id] \in [sale : Sales, deadline : 0..WaitFor, state : {"WAITING", "READY"},
                         next : 0..LateRetry, ready : 0..ReadyFor]
       /\ items[id].ready <= items[id].deadline
  /\ DOMAIN queue \subseteq Ids /\ \A id \in DOMAIN queue : queue[id] \in 0..WaitFor
  /\ DOMAIN ready \subseteq Ids /\ \A id \in DOMAIN ready : ready[id] \in 0..ReadyFor
  /\ DOMAIN live \subseteq Ids /\ \A id \in DOMAIN live : live[id] \in 0..LiveFor
  /\ rate \in 0..RateInterval
  /\ DOMAIN bought \subseteq Ids /\ \A id \in DOMAIN bought : bought[id] \in BOOLEAN

WaitingInit ==
  /\ CatalogInit
  /\ items = <<>> /\ queue = <<>> /\ ready = <<>> /\ live = <<>>
  /\ rate = 0
  /\ bought = <<>>

-----------------------------------------------------------------------------
(* What every call does first: lapsed entries of the queue and the ready set *)
(* go, and up to PurgeLimit waiters who have not polled.  "gone" is who they *)
(* are; those gone longest are first, which the time left does not tell.     *)

Lapsed(table) == {id \in DOMAIN table : table[id] = 0}
Inactive == {gone \in SUBSET Lapsed(live) :
               \/ gone = Lapsed(live) /\ Cardinality(gone) <= PurgeLimit
               \/ Cardinality(gone) = PurgeLimit}

Queue(gone) == Drop(queue, Lapsed(queue) \cup gone)
Live(gone) == Drop(live, gone)
Ready == Drop(ready, Lapsed(ready))

\* A call that is answered without any other change.
OnlyPurges(gone) ==
  /\ queue' = Queue(gone) /\ ready' = Ready /\ live' = Live(gone)
  /\ UNCHANGED <<items, rate>>

\* What the catalog says of a sale.
Says(s) ==
  IF s \notin DOMAIN catalog THEN "UNAVAILABLE"
  ELSE IF opensIn[s] > 0 THEN "NOT_OPEN" ELSE catalog[s].state

-----------------------------------------------------------------------------
(* Join *)

\* A record that is of no more use: its ticket has lapsed, or its place is lost.
AlwaysStale(id, gone) == TRUE  \* mutant
Stale(id, gone) ==
  \/ items[id].state = "READY" /\ items[id].ready = 0
  \/ items[id].state = "WAITING" /\ id \notin DOMAIN Queue(gone)

Full(gone) == Cardinality(DOMAIN Queue(gone)) + Cardinality(DOMAIN Ready) >= MaxWaiting

\* A record in use keeps its place, whatever the body.  A stale one goes before
\* the room is found to be full.
Join(id, s, gone) ==
  /\ IF \/ Says(s) \notin {"AVAILABLE", "FULLY_HELD"}
        \/ id \in DOMAIN items /\ (items[id].sale # s \/ ~Stale(id, gone))
     THEN OnlyPurges(gone)
     ELSE /\ ready' = Ready
          /\ UNCHANGED rate
          /\ \/ /\ Full(gone)
                /\ items' = Drop(items, {id})
                /\ queue' = Queue(gone) /\ live' = Live(gone)
             \/ /\ ~Full(gone)
                /\ items' = Put(items, id, [sale |-> s, deadline |-> WaitFor,
                                            state |-> "WAITING", next |-> 0, ready |-> 0])
                /\ queue' = Put(Queue(gone), id, WaitFor)
                /\ live' = Put(Live(gone), id, LiveFor)
  /\ UNCHANGED <<catalogVars, bought>>

-----------------------------------------------------------------------------
(* Poll *)

\* No record, a ticket given already, no place, or too early.
NothingToDecide(id, gone) ==
  IF id \notin DOMAIN items THEN TRUE
  ELSE items[id].state = "READY" \/ id \notin DOMAIN Queue(gone) \/ items[id].next > 0

Unseen(id, gone) == Live(gone)  \* mutant
Seen(id, gone) == Put(Live(gone), id, LiveFor)

Ahead(id, gone) ==
  {x \in DOMAIN Queue(gone) : queue[x] < queue[id] \/ (queue[x] = queue[id] /\ x < id)}

MayEnterByRank(rank) == rank < ReadyLimit /\ rate = 0  \* mutant
MayEnter(rank) == rank < ReadyLimit /\ Cardinality(DOMAIN Ready) < ReadyLimit /\ rate = 0

TicketTime(deadline) == IF deadline < ReadyFor THEN deadline ELSE ReadyFor

GiveTicket(id, gone) ==
  LET for == TicketTime(items[id].deadline) IN
  /\ items' = [items EXCEPT ![id].state = "READY", ![id].ready = for]
  /\ queue' = Drop(Queue(gone), {id})
  /\ live' = Drop(Live(gone), {id})
  /\ ready' = Put(Ready, id, for)
  /\ rate' = RateInterval

SendHome(id, gone) ==
  /\ queue' = Drop(Queue(gone), {id})
  /\ live' = Drop(Live(gone), {id})
  /\ ready' = Ready
  /\ UNCHANGED <<items, rate>>

AskAgain(id, gone, next) ==
  /\ items' = [items EXCEPT ![id].next = next]
  /\ queue' = Queue(gone) /\ ready' = Ready /\ live' = Seen(id, gone)
  /\ UNCHANGED rate

Poll(id, gone) ==
  /\ \/ NothingToDecide(id, gone) /\ OnlyPurges(gone)
     \/ /\ ~NothingToDecide(id, gone)
        /\ LET says == Says(items[id].sale)
               rank == Cardinality(Ahead(id, gone))
           IN \/ says = "UNAVAILABLE" /\ AskAgain(id, gone, 0)
              \/ says = "SOLD_OUT" /\ SendHome(id, gone)
              \/ says = "FULLY_HELD" /\ AskAgain(id, gone, SoonRetry)
              \/ says \in {"AVAILABLE", "NOT_OPEN"} /\ MayEnter(rank) /\ GiveTicket(id, gone)
              \/ /\ says \in {"AVAILABLE", "NOT_OPEN"} /\ ~MayEnter(rank)
                 /\ AskAgain(id, gone, IF rank < Near THEN SoonRetry ELSE LateRetry)
  /\ UNCHANGED <<catalogVars, bought>>

-----------------------------------------------------------------------------
(* Purchases with a ticket *)

\* A ticket is signed and shows when it lapses, as the record does, which outlives
\* it.  The purchase checks it last with its stock locked (ADMISSION_EXPIRED); one
\* whose order exists is answered with it.
Holds(id) == items[id].state = "READY" /\ items[id].ready > 0

Buy(id) ==
  /\ id \in DOMAIN items /\ id \notin DOMAIN bought
  /\ Holds(id)
  /\ HoldUnit(items[id].sale)
  /\ bought' = Put(bought, id, TRUE)
  /\ UNCHANGED <<items, queue, ready, live, rate>>

\* AdmissionGate.completeReady, at some time after the commit, or never.
CompleteReady(id) ==
  /\ id \in DOMAIN bought /\ bought[id]
  /\ ready' = Drop(ready, {id})
  /\ bought' = [bought EXCEPT ![id] = FALSE]
  /\ UNCHANGED <<catalogVars, items, queue, live, rate>>

NeverCompletes(id) ==
  /\ id \in DOMAIN bought /\ bought[id]
  /\ bought' = [bought EXCEPT ![id] = FALSE]
  /\ UNCHANGED <<catalogVars, items, queue, ready, live, rate>>

-----------------------------------------------------------------------------

Less(n) == IF n > 0 THEN n - 1 ELSE 0

\* A record ends after its deadline (PEXPIRE).
WaitingTick ==
  /\ CatalogTick
  /\ items' = [id \in {x \in DOMAIN items : items[x].deadline > 0} |->
                 [items[id] EXCEPT !.deadline = Less(@), !.next = Less(@), !.ready = Less(@)]]
  /\ queue' = [id \in DOMAIN queue |-> Less(queue[id])]
  /\ ready' = [id \in DOMAIN ready |-> Less(ready[id])]
  /\ live' = [id \in DOMAIN live |-> Less(live[id])]
  /\ rate' = Less(rate)
  /\ UNCHANGED bought

\* Every purchase needs a ticket here, so none of Catalog's own holds is taken, and
\* nobody waits while a warm-up is cleaned away.
WaitingNext ==
  \/ \E id \in Ids :
       \/ \E gone \in Inactive : Poll(id, gone) \/ \E s \in Sales : Join(id, s, gone)
       \/ Buy(id) \/ CompleteReady(id) \/ NeverCompletes(id)
  \/ /\ \/ \E s \in Sales, opensAt \in 0..MaxOpensIn : Create(s, opensAt)
        \/ \E s \in Sales : ReturnUnit(s) \/ SellUnit(s)
        \/ Publishing
     /\ UNCHANGED roomVars
  \/ WaitingTick

WaitingSpec == WaitingInit /\ [][WaitingNext]_waitingVars

-----------------------------------------------------------------------------
(* Properties *)

\* The four keys of the room hold what they should, and agree: whoever has a place has a
\* record that says so, with the same deadline, is watched for inactivity, and holds no ticket.
PlacesAgree ==
  /\ WaitingTypeOK
  /\ \A id \in DOMAIN queue \ Lapsed(queue) :
       /\ id \in DOMAIN items
       /\ items[id].state = "WAITING" /\ items[id].deadline = queue[id]
       /\ id \in DOMAIN live
       /\ id \notin DOMAIN ready \ Lapsed(ready)

\* No more than ReadyLimit tickets are about that could still make an order
\* (target-v1.md: 50 unused), though the ready set loses entries on expiry, on
\* purchases that answer late and on purchases whose answer is lost.
TicketsAreLimited ==
  Cardinality({id \in DOMAIN items \ DOMAIN bought : Holds(id)}) <= ReadyLimit

\* Waiters and tickets together stay within the room, which only join looks at.
RoomIsLimited == Cardinality(DOMAIN queue) + Cardinality(DOMAIN ready) <= MaxWaiting

\* What the configuration limits stays limited.
LimitsAreKept == TicketsAreLimited /\ RoomIsLimited

\* A waiter that comes back when told to is never taken for inactive: from any reply
\* on, its place outlasts the retry by what the longest retry leaves.
PolitenessPays ==
  \A id \in DOMAIN queue \ Lapsed(queue) :
    items[id].next > 0 => live[id] >= items[id].next + (LiveFor - LateRetry)

\* A waiter whose time is not over and who polls leaves the queue with a ticket, or
\* because nothing is left and nothing can come back.
DismissedForGood ==
  [][\A id \in DOMAIN queue \ DOMAIN queue' :
       queue[id] > 0 /\ live[id] > 0 =>
         id \in DOMAIN ready' \/ Over(items[id].sale)]_waitingVars
=============================================================================
