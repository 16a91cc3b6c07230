----------------------------- MODULE Admission -----------------------------
(***************************************************************************)
(* A purchase from the front door to the order: PurchaseService, the       *)
(* admission gate in Redis (permits, rate, negative cache) and the steps   *)
(* of the purchase transaction that depend on them, for the one item that  *)
(* everybody wants.  A buyer is a user with a key.                         *)
(*                                                                         *)
(* Redis may fail at every call, with or without having done what it was   *)
(* asked for; a process may die at every step.  Instants are kept as the   *)
(* time left.  A Redis command that its caller has given up on (200 ms) is *)
(* run at any time afterwards, or never.  For the cache that is Arrives; a *)
(* permit granted late is one of a call that dies, and one given back late *)
(* is given back by a slow Leave.                                          *)
(***************************************************************************)
EXTENDS Naturals, FiniteSets

CONSTANTS
  Buyers,
  Calls,      \* purchase requests that are served at a time
  Nobody,     \* not a call
  Tokens,     \* of permits
  Units,      \* of the item
  Permits,    \* purchases at a time (app.admission.permits)
  PermitFor,  \* how long a permit lasts
  RateGap,    \* from one permit to the next
  EmptyFor,   \* how long the negative cache lasts
  TicketFor,  \* how long a ticket lasts
  LateSets    \* bound: commands under way at a time that set the cache, given up on

ASSUME AdmissionAssumption ==
  /\ Nobody \notin Calls
  /\ IsFiniteSet(Tokens) /\ IsFiniteSet(Calls)
  /\ Cardinality(Tokens) >= Permits + Cardinality(Calls)
  /\ {Units, Permits, PermitFor, EmptyFor, TicketFor} \subseteq Nat \ {0}
  /\ {RateGap, LateSets} \subseteq Nat

VARIABLES
  ticket,     \* buyer -> time left on the ticket it was given last
  call,       \* call -> how far it is, and what it carries
  permits,    \* token -> time left (inflight)
  gap,        \* time left until the next permit (purchase:rate)
  empty,      \* time left of the negative cache (empty:item), 0 if it is not set
  late,       \* commands that set it, given up on and still under way
  free,       \* available units
  orders,     \* buyers whose order is committed
  holding,    \* buyers whose order still holds its unit
  keyLock,    \* buyer -> the call that has its advisory lock
  stockLock,  \* the call that has the item's row
  sinceCause  \* history: time since no unit was available, or a late command was run

gateVars == <<permits, gap>>
cacheVars == <<empty, late>>
stockVars == <<free, orders, holding>>
lockVars == <<keyLock, stockLock>>
admissionVars ==
  <<ticket, call, gateVars, cacheVars, stockVars, lockVars, sinceCause>>

Steps == {"idle", "replay", "fresh", "enter", "key", "look", "stock", "decide",
          "remember", "commit", "leave"}
Outcomes == {"none", "order", "refused", "failed"}

\* claim: time left on the ticket that came with the call.  left: time for which its
\* permit lasts.  known: the order existed when the call came.  inTime: the ticket was
\* good when the item was locked.
Idle == [step |-> "idle", buyer |-> Nobody, claim |-> 0, token |-> Nobody, left |-> 0,
         known |-> FALSE, inTime |-> FALSE, out |-> "none"]

AdmissionTypeOK ==
  /\ ticket \in [Buyers -> 0..TicketFor]
  /\ call \in [Calls -> [step : Steps, buyer : Buyers \cup {Nobody}, claim : 0..TicketFor,
                         token : Tokens \cup {Nobody}, left : 0..PermitFor,
                         known : BOOLEAN, inTime : BOOLEAN, out : Outcomes]]
  /\ DOMAIN permits \subseteq Tokens /\ \A k \in DOMAIN permits : permits[k] \in 0..PermitFor
  /\ gap \in 0..RateGap /\ empty \in 0..EmptyFor /\ late \in 0..LateSets
  /\ holding \subseteq orders /\ orders \subseteq Buyers
  /\ free \in 0..Units /\ free + Cardinality(holding) <= Units
  /\ keyLock \in [Buyers -> Calls \cup {Nobody}]
  /\ stockLock \in Calls \cup {Nobody}
  /\ sinceCause \in 0..EmptyFor

AdmissionInit ==
  /\ ticket = [b \in Buyers |-> TicketFor]
  /\ call = [c \in Calls |-> Idle]
  /\ permits = <<>> /\ gap = 0
  /\ empty = 0 /\ late = 0
  /\ free = Units /\ orders = {} /\ holding = {}
  /\ keyLock = [b \in Buyers |-> Nobody] /\ stockLock = Nobody
  /\ sinceCause = EmptyFor

-----------------------------------------------------------------------------
(* PurchaseService.purchase, up to the permit *)

At(c, step) == call[c].step = step
Buyer(c) == call[c].buyer
Goes(c, step) == call' = [call EXCEPT ![c].step = step]
Ends(c, out) == call' = [call EXCEPT ![c] = [Idle EXCEPT !.out = out]]

\* The ticket names its buyer and its request; another is refused without a change.
Arrive(c, b) ==
  /\ At(c, "idle")
  /\ call' = [call EXCEPT ![c] = [Idle EXCEPT !.step = "replay", !.buyer = b,
                                              !.claim = ticket[b], !.known = b \in orders]]
  /\ UNCHANGED <<ticket, gateVars, cacheVars, stockVars, lockVars, sinceCause>>

NothingKept(c) == FALSE  \* mutant
Kept(c) == Buyer(c) \in orders

\* PurchaseTransactionService.replay, a transaction of its own.
Replay(c) ==
  /\ At(c, "replay")
  /\ IF Kept(c) THEN Ends(c, "order") ELSE Goes(c, "fresh")
  /\ UNCHANGED <<ticket, gateVars, cacheVars, stockVars, lockVars, sinceCause>>

RequireFresh(c) ==
  /\ At(c, "fresh")
  /\ IF call[c].claim = 0 THEN Ends(c, "refused") ELSE Goes(c, "enter")
  /\ UNCHANGED <<ticket, gateVars, cacheVars, stockVars, lockVars, sinceCause>>

-----------------------------------------------------------------------------
(* AdmissionGate.enter *)

LapseEarly == {k \in DOMAIN permits : permits[k] <= 1}    \* mutant
LapsedPermits == {k \in DOMAIN permits : permits[k] = 0}
Valid == [k \in DOMAIN permits \ LapsedPermits |-> permits[k]]

CanEnter == Cardinality(DOMAIN Valid) < Permits /\ gap = 0

\* A token is new (a random UUID).
NewToken(k) == k \notin DOMAIN permits /\ \A c \in Calls : call[c].token # k

Grant(k) ==
  /\ permits' = [x \in DOMAIN Valid \cup {k} |-> IF x = k THEN PermitFor ELSE Valid[x]]
  /\ gap' = RateGap

Busy(c) ==
  /\ ~CanEnter
  /\ permits' = Valid
  /\ UNCHANGED gap
  /\ Ends(c, "refused")

Admitted(c, k) ==
  /\ CanEnter
  /\ Grant(k)
  /\ call' = [call EXCEPT ![c].step = "key", ![c].token = k, ![c].left = PermitFor]

\* ADMISSION_UNAVAILABLE: nobody knows the token, if it was granted.
EnterUnanswered(c, k) ==
  /\ \/ UNCHANGED gateVars
     \/ CanEnter /\ Grant(k)
  /\ Ends(c, "refused")

Enter(c) ==
  /\ At(c, "enter")
  /\ \/ Busy(c)
     \/ \E k \in Tokens : NewToken(k) /\ (Admitted(c, k) \/ EnterUnanswered(c, k))
  /\ UNCHANGED <<ticket, cacheVars, stockVars, lockVars, sinceCause>>

-----------------------------------------------------------------------------
(* PurchaseTransactionService.purchase *)

Unlock(c) ==
  /\ keyLock' = [b \in Buyers |-> IF keyLock[b] = c THEN Nobody ELSE keyLock[b]]
  /\ stockLock' = IF stockLock = c THEN Nobody ELSE stockLock

\* The transaction ends, by commit or rollback, and its connection is returned.
Leaves(c, out) ==
  /\ call' = [call EXCEPT ![c].step = "leave", ![c].out = out]
  /\ Unlock(c)

LockKey(c) ==
  /\ At(c, "key") /\ keyLock[Buyer(c)] = Nobody
  /\ keyLock' = [keyLock EXCEPT ![Buyer(c)] = c]
  /\ Goes(c, "look")
  /\ UNCHANGED <<ticket, gateVars, cacheVars, stockVars, stockLock, sinceCause>>

Found(c) == Buyer(c) \in orders

\* The order is looked up before the cache is asked; a cache that does not answer
\* refuses nobody.
Look(c) ==
  /\ At(c, "look")
  /\ \/ Found(c) /\ Leaves(c, "order")
     \/ ~Found(c) /\ empty > 0 /\ Leaves(c, "refused")
     \/ ~Found(c) /\ Goes(c, "stock") /\ UNCHANGED lockVars
  /\ UNCHANGED <<ticket, gateVars, cacheVars, stockVars, sinceCause>>

LockStock(c) ==
  /\ At(c, "stock") /\ stockLock = Nobody
  /\ stockLock' = c
  /\ call' = [call EXCEPT ![c].step = "decide", ![c].inTime = call[c].claim > 0]
  /\ UNCHANGED <<ticket, gateVars, cacheVars, stockVars, keyLock, sinceCause>>

CheckedBefore(c) == FALSE  \* mutant
Expired(c) == call[c].claim = 0

OneTooMany == TRUE  \* mutant
Enough == free > 0

RollsBackFirst(c) == Nobody  \* mutant
LockedBy(c) == stockLock

Decide(c) ==
  /\ At(c, "decide")
  /\ \/ Expired(c) /\ Leaves(c, "refused")
     \/ ~Expired(c) /\ Enough /\ Goes(c, "commit") /\ UNCHANGED lockVars
     \/ /\ ~Expired(c) /\ ~Enough /\ Goes(c, "remember")
        /\ stockLock' = LockedBy(c)
        /\ UNCHANGED keyLock
  /\ UNCHANGED <<ticket, gateVars, cacheVars, stockVars, sinceCause>>

\* rememberUnavailable, in the transaction: done, under way, or lost.
Remember(c) ==
  /\ At(c, "remember")
  /\ \/ empty' = EmptyFor /\ UNCHANGED late
     \/ late < LateSets /\ late' = late + 1 /\ UNCHANGED empty
     \/ UNCHANGED cacheVars
  /\ Leaves(c, "refused")
  /\ UNCHANGED <<ticket, gateVars, stockVars, sinceCause>>

Commit(c) ==
  /\ At(c, "commit")
  /\ free' = free - 1
  /\ orders' = orders \cup {Buyer(c)} /\ holding' = holding \cup {Buyer(c)}
  /\ sinceCause' = IF free' = 0 THEN 0 ELSE sinceCause
  /\ Leaves(c, "order")
  /\ UNCHANGED <<ticket, gateVars, cacheVars>>

\* A statement waits too long (5 s), or no connection is free (1 s).
Fails(c) ==
  /\ call[c].step \in {"key", "look", "stock", "decide", "commit"}
  /\ Leaves(c, "failed")
  /\ UNCHANGED <<ticket, gateVars, cacheVars, stockVars, sinceCause>>

-----------------------------------------------------------------------------

\* AdmissionGate.leave, which may fail, after the transaction has ended.  What follows
\* (completeReady) is in Waiting.
Leave(c) ==
  /\ At(c, "leave")
  /\ \/ permits' = [k \in DOMAIN permits \ {call[c].token} |-> permits[k]]
     \/ UNCHANGED permits
  /\ Ends(c, call[c].out)
  /\ UNCHANGED <<ticket, gap, cacheVars, stockVars, lockVars, sinceCause>>

\* The process dies: the database rolls back, Redis is told nothing.
Dies(c) ==
  /\ ~At(c, "idle")
  /\ Ends(c, "failed")
  /\ Unlock(c)
  /\ UNCHANGED <<ticket, gateVars, cacheVars, stockVars, sinceCause>>

\* The hold of an unpaid order lapses (ReservationService.expire locks the item's row).
GiveBack(b) ==
  /\ b \in holding /\ stockLock = Nobody
  /\ free' = free + 1 /\ holding' = holding \ {b}
  /\ UNCHANGED <<ticket, call, gateVars, cacheVars, orders, lockVars, sinceCause>>

\* The waiting room gives the buyer another ticket.
TicketAgain(b) ==
  /\ ticket[b] = 0
  /\ ticket' = [ticket EXCEPT ![b] = TicketFor]
  /\ UNCHANGED <<call, gateVars, cacheVars, stockVars, lockVars, sinceCause>>

\* A SET that rememberUnavailable gave up on is run: the row's lock has been released since,
\* and stock may be back.
Arrives ==
  /\ late > 0
  /\ late' = late - 1 /\ empty' = EmptyFor
  /\ sinceCause' = 0
  /\ UNCHANGED <<ticket, call, gateVars, stockVars, lockVars>>

Minus(n) == IF n > 0 THEN n - 1 ELSE 0

AdmissionTick ==
  /\ ticket' = [b \in Buyers |-> Minus(ticket[b])]
  /\ call' = [c \in Calls |-> [call[c] EXCEPT !.claim = Minus(@), !.left = Minus(@)]]
  /\ permits' = [k \in DOMAIN permits |-> Minus(permits[k])]
  /\ gap' = Minus(gap) /\ empty' = Minus(empty)
  /\ sinceCause' = IF free = 0 THEN 0
                  ELSE IF sinceCause < EmptyFor THEN sinceCause + 1 ELSE EmptyFor
  /\ UNCHANGED <<late, stockVars, lockVars>>

Serves(c) ==
  \/ Replay(c) \/ RequireFresh(c) \/ Enter(c) \/ LockKey(c) \/ Look(c) \/ LockStock(c)
  \/ Decide(c) \/ Remember(c) \/ Commit(c) \/ Leave(c)

AdmissionNext ==
  \/ \E c \in Calls : Serves(c) \/ Fails(c) \/ Dies(c) \/ \E b \in Buyers : Arrive(c, b)
  \/ \E b \in Buyers : GiveBack(b) \/ TicketAgain(b)
  \/ Arrives \/ AdmissionTick

AdmissionSpec == AdmissionInit /\ [][AdmissionNext]_admissionVars

-----------------------------------------------------------------------------
(* Properties *)

Inside(c) == call[c].step \in {"key", "look", "stock", "decide", "remember", "commit"}

\* As long as no purchase lasts longer than a permit, no more than Permits run at a time,
\* whatever else expires, is lost or is given back late; one that outlives its permit is
\* not counted (PermitFor is ten seconds, the waits of a purchase may be eleven).
PermitsAreKept ==
  Cardinality({c \in Calls : Inside(c) /\ call[c].left > 0}) <= Permits

\* Who has an order is answered with it and not refused: by a call that comes after the
\* commit, though its ticket has lapsed or Redis does not answer ("A committed order
\* survives both ticket expiry and Redis failure"), and by one that waited for the key
\* meanwhile, though the cache says there is nothing left.
OrdersAreReplayed ==
  [][\A c \in Calls :
       call'[c].out = "refused" /\ call[c].out # "refused" =>
         /\ ~call[c].known
         /\ Inside(c) => Buyer(c) \notin orders]_admissionVars

\* A ticket that lapses while its purchase waits for a permit, the key or the stock buys
\* nothing.
LateTicketsBuyNothing ==
  [][\A b \in orders' \ orders :
       \E c \in Calls : At(c, "commit") /\ Buyer(c) = b /\ call[c].inTime]_admissionVars

\* The cache refuses for no longer than EmptyFor after the last moment with no unit left,
\* however slow the purchase that wrote it was and whatever was given back meanwhile.  A command
\* that its purchase has given up on may be run when stock is long back: then it is EmptyFor
\* from there.
StaleForAMoment == empty > 0 => sinceCause + empty <= EmptyFor
=============================================================================
