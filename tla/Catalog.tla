------------------------------ MODULE Catalog ------------------------------
(***************************************************************************)
(* The sale catalog: a projection of each sale into Redis that the waiting *)
(* room reads in place of the database, the publishers that refresh it,    *)
(* and the clean-up that deletes a warm-up sale and every key.             *)
(*                                                                         *)
(* A refresh reads all sales in one statement and then writes one key per  *)
(* sale, while stock moves on.  It holds a shared advisory lock from before *)
(* its query until its transaction ends; the clean-up takes the same lock  *)
(* exclusively.  A SET that its publisher has given up on (200 ms) is run  *)
(* at any time afterwards, whoever has the lock by then, or never.  Of the *)
(* stock of a sale only the two sums that the query returns are kept.  A   *)
(* key lasts CatalogFor ticks.                                             *)
(***************************************************************************)
EXTENDS Naturals, FiniteSets

CONSTANTS
  Sales,       \* ids of sales
  Total,       \* sale -> units it is created with
  Publishers,  \* processes that refresh the catalog
  CatalogFor,  \* how long a key lasts
  LateSets,    \* bound: names of the commands under way at a time, given up on
  MaxOpensIn   \* bound: a sale opens at most this long after its creation

ASSUME CatalogAssumption ==
  /\ Total \in [Sales -> Nat \ {0}]
  /\ CatalogFor \in Nat \ {0} /\ MaxOpensIn \in Nat

VARIABLES
  shelf,       \* sale -> what the query sums up
  opensIn,     \* sale -> time left until it opens, which never changes
  catalog,     \* sale -> its key in Redis
  publishing,  \* publisher -> the states it has read and not yet written
  late,        \* the row of each command given up on and still under way
  cleanup      \* how far the clean-up is

catalogVars == <<shelf, opensIn, catalog, publishing, late, cleanup>>

States == {"AVAILABLE", "FULLY_HELD", "SOLD_OUT"}
NoCleanup == [phase |-> "none"]

CatalogTypeOK ==
  /\ DOMAIN shelf \subseteq Sales
  /\ \A s \in DOMAIN shelf : shelf[s] \in [available : Nat, held : Nat]
  /\ opensIn \in [Sales -> Nat]
  /\ DOMAIN catalog \subseteq Sales
  /\ \A s \in DOMAIN catalog : catalog[s] \in [state : States, for : 1..CatalogFor]
  /\ DOMAIN publishing = Publishers
  /\ \A p \in Publishers : /\ DOMAIN publishing[p] \subseteq Sales
                           /\ \A s \in DOMAIN publishing[p] : publishing[p][s] \in States
  /\ DOMAIN late \subseteq LateSets
  /\ \A l \in DOMAIN late : late[l] \in [sale : Sales, state : States]
  /\ cleanup \in [phase : {"deleted", "done"}, sale : Sales] \cup {NoCleanup}

CatalogInit ==
  /\ shelf = <<>> /\ catalog = <<>>
  /\ opensIn = [s \in Sales |-> 0]
  /\ publishing = [p \in Publishers |-> <<>>] /\ late = <<>>
  /\ cleanup = NoCleanup

-----------------------------------------------------------------------------
(* The stock, as the transactions of the database move it *)

\* The warm-up's sale is cleaned away before the next one is created.
Create(s, opensAt) ==
  /\ s \notin DOMAIN shelf
  /\ IF cleanup = NoCleanup THEN TRUE ELSE cleanup.phase = "done" /\ s # cleanup.sale
  /\ shelf' = [x \in DOMAIN shelf \cup {s} |->
                 IF x = s THEN [available |-> Total[s], held |-> 0] ELSE shelf[x]]
  /\ opensIn' = [opensIn EXCEPT ![s] = opensAt]
  /\ UNCHANGED <<catalog, publishing, late, cleanup>>

\* From one count to another, or out to a buyer.
HoldUnit(s) ==
  /\ s \in DOMAIN shelf /\ opensIn[s] = 0
  /\ shelf[s].available > 0
  /\ shelf' = [shelf EXCEPT ![s] = [available |-> @.available - 1, held |-> @.held + 1]]
  /\ UNCHANGED <<opensIn, catalog, publishing, late, cleanup>>

ReturnUnit(s) ==
  /\ s \in DOMAIN shelf
  /\ shelf[s].held > 0
  /\ shelf' = [shelf EXCEPT ![s] = [available |-> @.available + 1, held |-> @.held - 1]]
  /\ UNCHANGED <<opensIn, catalog, publishing, late, cleanup>>

SellUnit(s) ==
  /\ s \in DOMAIN shelf
  /\ shelf[s].held > 0
  /\ shelf' = [shelf EXCEPT ![s] = [available |-> @.available, held |-> @.held - 1]]
  /\ UNCHANGED <<opensIn, catalog, publishing, late, cleanup>>

-----------------------------------------------------------------------------
(* SaleCatalogPublisher.refresh *)

StateIgnoringHolds(sums) == IF sums.available > 0 THEN "AVAILABLE" ELSE "SOLD_OUT"  \* mutant
StateHeldFirst(sums) ==  \* mutant
  IF sums.held > 0 THEN "FULLY_HELD" ELSE IF sums.available > 0 THEN "AVAILABLE" ELSE "SOLD_OUT"
StateOf(sums) ==
  IF sums.available > 0 THEN "AVAILABLE" ELSE IF sums.held > 0 THEN "FULLY_HELD" ELSE "SOLD_OUT"

\* The shared lock and the query.
Read(p) ==
  /\ publishing[p] = <<>>
  /\ publishing' = [publishing EXCEPT ![p] = [s \in DOMAIN shelf |-> StateOf(shelf[s])]]
  /\ UNCHANGED <<shelf, opensIn, catalog, late, cleanup>>

Set(s, state) ==
  catalog' = [x \in DOMAIN catalog \cup {s} |->
                IF x = s THEN [state |-> state, for |-> CatalogFor] ELSE catalog[x]]

\* One SET.  After the last one the transaction ends and gives back the lock.
Write(p, s) ==
  /\ s \in DOMAIN publishing[p]
  /\ Set(s, publishing[p][s])
  /\ publishing' = [publishing EXCEPT ![p] = [x \in DOMAIN @ \ {s} |-> @[x]]]
  /\ UNCHANGED <<shelf, opensIn, late, cleanup>>

\* Redis or the process fails; what is not written waits for the next refresh, but for
\* the row whose command may be run yet.
RefreshFails(p) ==
  /\ publishing[p] # <<>>
  /\ publishing' = [publishing EXCEPT ![p] = <<>>]
  /\ \/ UNCHANGED late
     \/ \E s \in DOMAIN publishing[p], l \in LateSets \ DOMAIN late :
          late' = [x \in DOMAIN late \cup {l} |->
                     IF x = l THEN [sale |-> s, state |-> publishing[p][s]] ELSE late[x]]
  /\ UNCHANGED <<shelf, opensIn, catalog, cleanup>>

RunsLate(l) ==
  /\ l \in DOMAIN late
  /\ Set(late[l].sale, late[l].state)
  /\ late' = [x \in DOMAIN late \ {l} |-> late[x]]
  /\ UNCHANGED <<shelf, opensIn, publishing, cleanup>>

-----------------------------------------------------------------------------
(* Remove-TargetWarmup *)

LockIgnored == TRUE  \* mutant
LockIsFree == \A p \in Publishers : publishing[p] = <<>>

\* Its transaction: the one sale, all of whose orders are confirmed.
DeleteSale(s) ==
  /\ cleanup = NoCleanup
  /\ LockIsFree
  /\ DOMAIN shelf = {s} /\ shelf[s].held = 0
  /\ shelf' = <<>>
  /\ cleanup' = [phase |-> "deleted", sale |-> s]
  /\ UNCHANGED <<opensIn, catalog, publishing, late>>

DeleteKeys ==
  /\ cleanup # NoCleanup /\ cleanup.phase = "deleted"
  /\ catalog' = <<>>
  /\ cleanup' = [cleanup EXCEPT !.phase = "done"]
  /\ UNCHANGED <<shelf, opensIn, publishing, late>>

-----------------------------------------------------------------------------

Lasting == {s \in DOMAIN catalog : catalog[s].for > 1}

CatalogTick ==
  /\ opensIn' = [s \in Sales |-> IF opensIn[s] > 0 THEN opensIn[s] - 1 ELSE 0]
  /\ catalog' = [s \in Lasting |-> [catalog[s] EXCEPT !.for = @ - 1]]
  /\ UNCHANGED <<shelf, publishing, late, cleanup>>

Refresh(p) == Read(p) \/ \E s \in Sales : Write(p, s)
Publishing ==
  \/ \E p \in Publishers : Refresh(p) \/ RefreshFails(p)
  \/ \E l \in LateSets : RunsLate(l)

CatalogSteps ==
  \/ \E s \in Sales, opensAt \in 0..MaxOpensIn : Create(s, opensAt)
  \/ \E s \in Sales : HoldUnit(s) \/ ReturnUnit(s) \/ SellUnit(s) \/ DeleteSale(s)
  \/ Publishing
  \/ DeleteKeys

CatalogNext == CatalogSteps \/ CatalogTick
CatalogSpec == CatalogInit /\ [][CatalogNext]_catalogVars

\* The scheduler refreshes on and on, and failures stop.
FairCatalog ==
  /\ CatalogSpec
  /\ \A p \in Publishers : WF_catalogVars(Read(p))
  /\ \A p \in Publishers, s \in Sales : WF_catalogVars(Write(p, s))
  /\ <>[][~ \E p \in Publishers : RefreshFails(p)]_catalogVars

-----------------------------------------------------------------------------
(* Properties *)

Over(s) == shelf[s].available = 0 /\ shelf[s].held = 0

\* The waiting room sends people home for good on SOLD_OUT, so no key says it of a
\* sale whose stock may still come back, however old the key, the command or the query
\* behind it.
SoldOutIsFinal ==
  \A s \in DOMAIN shelf \cap DOMAIN catalog : catalog[s].state = "SOLD_OUT" => Over(s)

\* No publisher that had read a sale puts its key back once the sale is cleaned away
\* ("No stale publisher can write that sale back"), but for a command given up on
\* while the sale was there, which nobody waits for.
CleanedStaysClean ==
  [][\A s \in DOMAIN catalog' \ DOMAIN catalog :
       \/ cleanup = NoCleanup
       \/ s # cleanup.sale
       \/ \E l \in DOMAIN late \ DOMAIN late' : late[l].sale = s]_catalogVars

\* A sale that has stock from some point on is offered again: older answers end, and
\* AVAILABLE is published again and again.
CatchesUp ==
  \A s \in Sales :
    <>[](s \in DOMAIN shelf /\ shelf[s].available > 0) =>
      /\ <>[](s \in DOMAIN catalog => catalog[s].state = "AVAILABLE")
      /\ []<>(s \in DOMAIN catalog)
=============================================================================
