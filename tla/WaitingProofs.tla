---------------------------- MODULE WaitingProofs ----------------------------
(***************************************************************************)
(* What the catalog and the waiting room that reads it promise, for any    *)
(* number of sales, publishers and waiters and any times and limits:       *)
(* SOLD_OUT is final and a cleaned sale stays out of the catalog; the keys *)
(* of the room agree, its limits are kept, who comes back when told to     *)
(* keeps its place, and nobody is sent home while stock may come back.     *)
(***************************************************************************)
EXTENDS Waiting, FiniteSetTheorems, TLAPS

-----------------------------------------------------------------------------
(* The catalog *)

Cleaning == cleanup # NoCleanup

\* Rows that a publisher has read may be written at any later time, by itself or by a
\* command it has given up on, so what holds of the keys must hold of them too.
RowsAreFinal ==
  \A p \in Publishers : \A s \in DOMAIN publishing[p] \cap DOMAIN shelf :
    publishing[p][s] = "SOLD_OUT" => Over(s)
LateIsFinal ==
  \A l \in DOMAIN late :
    late[l].sale \in DOMAIN shelf /\ late[l].state = "SOLD_OUT" => Over(late[l].sale)

\* Keys and commands are of sales that exist, or of the one cleaned away: none waits for
\* a sale yet to be created.  The rows of a publisher, which has the lock, are of sales
\* that exist.
IsOrWas(s) == s \in DOMAIN shelf \/ (Cleaning /\ s = cleanup.sale)
KeysHaveSales ==
  /\ \A s \in DOMAIN catalog : IsOrWas(s)
  /\ \A l \in DOMAIN late : IsOrWas(late[l].sale)
  /\ \A p \in Publishers : DOMAIN publishing[p] \subseteq DOMAIN shelf

CleanedIsGone == Cleaning => cleanup.sale \notin DOMAIN shelf

CatalogInv ==
  /\ CatalogTypeOK
  /\ SoldOutIsFinal /\ RowsAreFinal /\ LateIsFinal
  /\ KeysHaveSales /\ CleanedIsGone

-----------------------------------------------------------------------------

\* The empty table has no rows.
LEMMA NoRows == DOMAIN <<>> = {}
OBVIOUS

\* Nothing is published at first.
LEMMA InitCatalog == CatalogInit => CatalogInv
BY NoRows DEF CatalogInit, CatalogInv, CatalogTypeOK, SoldOutIsFinal, RowsAreFinal,
  LateIsFinal, KeysHaveSales, IsOrWas, CleanedIsGone, Cleaning

\* A command under way after a refresh has failed was so before, or is the refresh's.
GaveUp(p, l) ==
  \/ l \in DOMAIN late /\ late'[l] = late[l]
  \/ l \in LateSets /\ \E s \in DOMAIN publishing[p] :
                         late'[l] = [sale |-> s, state |-> publishing[p][s]]

\* What SaleCatalogPublisher.refresh gives up on is one row of those it has read.
LEMMA LastCommand ==
  ASSUME NEW p \in Publishers, RefreshFails(p), NEW l \in DOMAIN late'
  PROVE  GaveUp(p, l)
<1>1. CASE UNCHANGED late
  BY <1>1 DEF GaveUp
<1>2. CASE \E s \in DOMAIN publishing[p], m \in LateSets \ DOMAIN late :
             late' = [x \in DOMAIN late \cup {m} |->
                        IF x = m THEN [sale |-> s, state |-> publishing[p][s]] ELSE late[x]]
  <2>1. PICK s \in DOMAIN publishing[p], m \in LateSets \ DOMAIN late :
          late' = [x \in DOMAIN late \cup {m} |->
                     IF x = m THEN [sale |-> s, state |-> publishing[p][s]] ELSE late[x]]
    BY <1>2
  <2>2. CASE l = m
    <3>1. late'[l] = [sale |-> s, state |-> publishing[p][s]]
      BY <2>1, <2>2
    <3> QED BY <2>2, <3>1 DEF GaveUp
  <2>3. CASE l # m
    <3>1. l \in DOMAIN late /\ late'[l] = late[l]
      BY <2>1, <2>3
    <3> QED BY <3>1 DEF GaveUp
  <2> QED BY <2>2, <2>3
<1> QED BY <1>1, <1>2 DEF RefreshFails

\* Every step keeps the types.
LEMMA CatalogTypeNext ==
  CatalogInv /\ [CatalogNext]_catalogVars => CatalogTypeOK'
<1> SUFFICES ASSUME CatalogInv, [CatalogNext]_catalogVars PROVE CatalogTypeOK'
  OBVIOUS
<1> USE CatalogAssumption, NoRows DEF CatalogInv, CatalogTypeOK
<1>1. ASSUME NEW s \in Sales, NEW opensAt \in 0..MaxOpensIn, Create(s, opensAt)
      PROVE CatalogTypeOK'
  BY <1>1 DEF Create
<1>2. ASSUME NEW s \in Sales, HoldUnit(s) PROVE CatalogTypeOK'
  BY <1>2 DEF HoldUnit
<1>3. ASSUME NEW s \in Sales, ReturnUnit(s) PROVE CatalogTypeOK'
  BY <1>3 DEF ReturnUnit
<1>4. ASSUME NEW s \in Sales, SellUnit(s) PROVE CatalogTypeOK'
  BY <1>4 DEF SellUnit
<1>5. ASSUME NEW p \in Publishers, Read(p) PROVE CatalogTypeOK'
  BY <1>5 DEF Read, StateOf, States
<1>6. ASSUME NEW p \in Publishers, NEW s \in Sales, Write(p, s) PROVE CatalogTypeOK'
  <2>1. [state |-> publishing[p][s], for |-> CatalogFor] \in [state : States, for : 1..CatalogFor]
    BY <1>6 DEF Write
  <2>2. /\ DOMAIN catalog' \subseteq Sales
        /\ \A x \in DOMAIN catalog' : catalog'[x] \in [state : States, for : 1..CatalogFor]
    BY <1>6, <2>1 DEF Write, Set
  <2>3. /\ DOMAIN publishing' = Publishers
        /\ \A q \in Publishers : /\ DOMAIN publishing'[q] \subseteq DOMAIN publishing[q]
                                 /\ \A x \in DOMAIN publishing'[q] :
                                      publishing'[q][x] = publishing[q][x]
    BY <1>6 DEF Write
  <2>4. \A q \in Publishers : /\ DOMAIN publishing'[q] \subseteq Sales
                              /\ \A x \in DOMAIN publishing'[q] : publishing'[q][x] \in States
    BY <2>3
  <2>5. UNCHANGED <<shelf, opensIn, late, cleanup>>
    BY <1>6 DEF Write
  <2> QED BY <2>2, <2>3, <2>4, <2>5
<1>7. ASSUME NEW p \in Publishers, RefreshFails(p) PROVE CatalogTypeOK'
  <2>1. /\ UNCHANGED <<shelf, opensIn, catalog, cleanup>>
        /\ \A q \in Publishers : publishing'[q] = publishing[q] \/ publishing'[q] = <<>>
    BY <1>7 DEF RefreshFails
  <2>2. \A l \in DOMAIN late' : GaveUp(p, l)
    BY <1>7, LastCommand
  <2>3. DOMAIN publishing' = Publishers
    BY <1>7 DEF RefreshFails
  <2>4. /\ DOMAIN late' \subseteq LateSets
        /\ \A l \in DOMAIN late' : late'[l] \in [sale : Sales, state : States]
    BY <2>2 DEF GaveUp
  <2>5. \A q \in Publishers : /\ DOMAIN publishing'[q] \subseteq Sales
                              /\ \A x \in DOMAIN publishing'[q] : publishing'[q][x] \in States
    BY <2>1
  <2> QED BY <2>1, <2>3, <2>4, <2>5
<1>8. ASSUME NEW l \in LateSets, RunsLate(l) PROVE CatalogTypeOK'
  BY <1>8 DEF RunsLate, Set
<1>9. ASSUME NEW s \in Sales, DeleteSale(s) PROVE CatalogTypeOK'
  BY <1>9 DEF DeleteSale
<1>10. CASE DeleteKeys
  BY <1>10 DEF DeleteKeys, NoCleanup
<1>11. CASE CatalogTick
  <2>1. UNCHANGED <<shelf, publishing, late, cleanup>>
    BY <1>11 DEF CatalogTick
  <2>2. opensIn' \in [Sales -> Nat]
    BY <1>11 DEF CatalogTick
  <2>3. /\ DOMAIN catalog' \subseteq DOMAIN catalog
        /\ \A x \in DOMAIN catalog' : /\ catalog[x].for > 1
                                     /\ catalog'[x] = [catalog[x] EXCEPT !.for = @ - 1]
    BY <1>11 DEF CatalogTick, Lasting
  <2>4. \A x \in DOMAIN catalog' : catalog'[x] \in [state : States, for : 1..CatalogFor]
    BY <2>3
  <2> QED BY <2>1, <2>2, <2>3, <2>4
<1>12. CASE UNCHANGED catalogVars
  BY <1>12 DEF catalogVars
<1> QED
  BY <1>1, <1>2, <1>3, <1>4, <1>5, <1>6, <1>7, <1>8, <1>9, <1>10, <1>11, <1>12
  DEF CatalogNext, CatalogSteps, Publishing, Refresh

\* Every step keeps the rest: stock returns only from held units, so a sale that is
\* over stays so, and the clean-up waits until no row is left to write.
LEMMA CatalogNextInv ==
  CatalogInv /\ [CatalogNext]_catalogVars => CatalogInv'
<1> DEFINE Rest == /\ SoldOutIsFinal /\ RowsAreFinal /\ LateIsFinal
                   /\ KeysHaveSales /\ CleanedIsGone
<1> SUFFICES ASSUME CatalogInv, [CatalogNext]_catalogVars PROVE Rest'
  BY CatalogTypeNext DEF CatalogInv
<1> USE CatalogAssumption, NoRows
    DEF CatalogInv, CatalogTypeOK, SoldOutIsFinal, RowsAreFinal, LateIsFinal, KeysHaveSales,
        IsOrWas, CleanedIsGone, Cleaning, Over
<1>1. ASSUME NEW s \in Sales, NEW opensAt \in 0..MaxOpensIn, Create(s, opensAt)
      PROVE Rest'
  <2>1. /\ UNCHANGED <<catalog, publishing, late, cleanup>>
        /\ s \notin DOMAIN shelf /\ (Cleaning => s # cleanup.sale)
        /\ DOMAIN shelf' = DOMAIN shelf \cup {s}
        /\ \A x \in DOMAIN shelf : shelf'[x] = shelf[x]
    BY <1>1 DEF Create
  <2>2. ~IsOrWas(s)
    BY <2>1
  <2>3. /\ s \notin DOMAIN catalog
        /\ \A p \in Publishers : s \notin DOMAIN publishing[p]
        /\ \A l \in DOMAIN late : late[l].sale # s
    BY <2>1, <2>2
  <2>4. SoldOutIsFinal' /\ RowsAreFinal'
    BY <2>1, <2>3
  <2>5. LateIsFinal'
    BY <2>1, <2>3
  <2>6. KeysHaveSales' /\ CleanedIsGone'
    BY <2>1
  <2> QED BY <2>4, <2>5, <2>6
<1>2. ASSUME NEW s \in Sales, HoldUnit(s) \/ ReturnUnit(s) \/ SellUnit(s) PROVE Rest'
  <2>1. /\ UNCHANGED <<catalog, publishing, late, cleanup>>
        /\ DOMAIN shelf' = DOMAIN shelf
        /\ ~Over(s)
        /\ \A x \in DOMAIN shelf \ {s} : shelf'[x] = shelf[x]
    BY <1>2 DEF HoldUnit, ReturnUnit, SellUnit
  <2> QED
    BY <2>1
<1>3. ASSUME NEW p \in Publishers, Read(p) PROVE Rest'
  BY <1>3 DEF Read, StateOf
<1>4. ASSUME NEW p \in Publishers, NEW s \in Sales, Write(p, s) PROVE Rest'
  <2>1. /\ UNCHANGED <<shelf, late, cleanup>>
        /\ DOMAIN catalog' = DOMAIN catalog \cup {s} /\ catalog'[s].state = publishing[p][s]
        /\ \A x \in DOMAIN catalog \ {s} : catalog'[x] = catalog[x]
    BY <1>4 DEF Write, Set
  <2>2. \A q \in Publishers : /\ DOMAIN publishing'[q] \subseteq DOMAIN publishing[q]
                              /\ \A x \in DOMAIN publishing'[q] :
                                   publishing'[q][x] = publishing[q][x]
    BY <1>4 DEF Write
  <2>3. s \in DOMAIN publishing[p]
    BY <1>4 DEF Write
  <2>4. SoldOutIsFinal'
    BY <2>1, <2>3
  <2>5. RowsAreFinal'
    BY <2>1, <2>2
  <2>6. LateIsFinal'
    BY <2>1
  <2>7. KeysHaveSales'
    BY <2>1, <2>2, <2>3
  <2> QED BY <2>1, <2>4, <2>5, <2>6, <2>7
<1>5. ASSUME NEW p \in Publishers, RefreshFails(p) PROVE Rest'
  <2>1. /\ UNCHANGED <<shelf, catalog, cleanup>>
        /\ \A q \in Publishers : publishing'[q] = publishing[q] \/ publishing'[q] = <<>>
    BY <1>5 DEF RefreshFails
  <2>2. \A l \in DOMAIN late' : GaveUp(p, l)
    BY <1>5, LastCommand
  <2>3. RowsAreFinal' /\ SoldOutIsFinal' /\ CleanedIsGone'
    BY <2>1
  <2>4. LateIsFinal'
    BY <2>1, <2>2 DEF GaveUp
  <2>5. KeysHaveSales'
    <3>1. \A l \in DOMAIN late' : IsOrWas(late'[l].sale)
      BY <2>2 DEF GaveUp
    <3>2. \A q \in Publishers : DOMAIN publishing'[q] \subseteq DOMAIN shelf
      BY <2>1
    <3> QED BY <2>1, <3>1, <3>2
  <2> QED BY <2>3, <2>4, <2>5
<1>6. ASSUME NEW l \in LateSets, RunsLate(l) PROVE Rest'
  <2>1. /\ UNCHANGED <<shelf, publishing, cleanup>>
        /\ DOMAIN catalog' = DOMAIN catalog \cup {late[l].sale}
        /\ catalog'[late[l].sale].state = late[l].state
        /\ \A x \in DOMAIN catalog \ {late[l].sale} : catalog'[x] = catalog[x]
    BY <1>6 DEF RunsLate, Set
  <2>2. /\ l \in DOMAIN late /\ DOMAIN late' \subseteq DOMAIN late
        /\ \A x \in DOMAIN late' : late'[x] = late[x]
    BY <1>6 DEF RunsLate
  <2>3. SoldOutIsFinal'
    BY <2>1, <2>2
  <2>4. RowsAreFinal' /\ CleanedIsGone'
    BY <2>1
  <2>5. LateIsFinal'
    BY <2>1, <2>2
  <2>6. KeysHaveSales'
    BY <2>1, <2>2
  <2> QED BY <2>3, <2>4, <2>5, <2>6
<1>7. ASSUME NEW s \in Sales, DeleteSale(s) PROVE Rest'
  BY <1>7 DEF DeleteSale, LockIsFree, NoCleanup
<1>8. CASE DeleteKeys
  BY <1>8 DEF DeleteKeys, NoCleanup
<1>9. CASE CatalogTick
  <2>1. /\ UNCHANGED <<shelf, publishing, late, cleanup>>
        /\ DOMAIN catalog' \subseteq DOMAIN catalog
        /\ \A x \in DOMAIN catalog' : catalog'[x].state = catalog[x].state
    BY <1>9 DEF CatalogTick, Lasting
  <2> QED
    BY <2>1
<1>10. CASE UNCHANGED catalogVars
  BY <1>10 DEF catalogVars
<1> HIDE DEF Rest, CatalogInv
<1> QED
  BY <1>1, <1>2, <1>3, <1>4, <1>5, <1>6, <1>7, <1>8, <1>9, <1>10
  DEF CatalogNext, CatalogSteps, Publishing, Refresh

\* The invariant holds always.
THEOREM CatalogInvariance == CatalogSpec => []CatalogInv
BY InitCatalog, CatalogNextInv, PTL DEF CatalogSpec

\* The tables keep their types.
THEOREM CatalogTyped == CatalogSpec => []CatalogTypeOK
<1>1. CatalogInv => CatalogTypeOK
  BY DEF CatalogInv
<1> QED
  BY <1>1, CatalogInvariance, PTL

\* No key says SOLD_OUT of a sale whose stock may come back, for any number of
\* publishers however slow (SaleCatalogPublisher.refresh).
THEOREM SoldOutIsRight == CatalogSpec => []SoldOutIsFinal
<1>1. CatalogInv => SoldOutIsFinal
  BY DEF CatalogInv
<1> QED
  BY <1>1, CatalogInvariance, PTL

\* The rows of a publisher, which has the shared lock, are of sales that exist, so none
\* puts the key of a cleaned sale back, unless by a command it has given up on.
THEOREM CleanedForGood == CatalogSpec => CleanedStaysClean
<1> DEFINE PutBack == \E s \in DOMAIN catalog' \ DOMAIN catalog :
                        /\ cleanup # NoCleanup /\ s = cleanup.sale
                        /\ \A l \in DOMAIN late \ DOMAIN late' : late[l].sale # s
<1>1. CatalogInv /\ [CatalogNext]_catalogVars => ~PutBack
  <2> SUFFICES ASSUME CatalogInv, [CatalogNext]_catalogVars, PutBack PROVE FALSE
    OBVIOUS
  <2>1. PICK s \in DOMAIN catalog' \ DOMAIN catalog :
          /\ s \notin DOMAIN shelf
          /\ \A l \in DOMAIN late \ DOMAIN late' : late[l].sale # s
    BY DEF CatalogInv, CleanedIsGone, Cleaning
  <2>2. ASSUME NEW p \in Publishers, NEW x \in Sales, Write(p, x) PROVE FALSE
    BY <2>1, <2>2 DEF Write, Set, CatalogInv, KeysHaveSales
  <2>3. ASSUME NEW l \in LateSets, RunsLate(l) PROVE FALSE
    BY <2>1, <2>3 DEF RunsLate, Set
  <2>4. DOMAIN catalog' \subseteq DOMAIN catalog => FALSE
    BY <2>1
  <2> QED
    BY <2>2, <2>3, <2>4, NoRows
    DEF CatalogNext, CatalogSteps, Publishing, Refresh, Create, HoldUnit, ReturnUnit, SellUnit, Read,
        RefreshFails, DeleteSale, DeleteKeys, CatalogTick, Lasting, catalogVars
<1>2. ~PutBack => [\A s \in DOMAIN catalog' \ DOMAIN catalog :
                    \/ cleanup = NoCleanup
                    \/ s # cleanup.sale
                    \/ \E l \in DOMAIN late \ DOMAIN late' : late[l].sale = s]_catalogVars
  OBVIOUS
<1> QED
  BY <1>1, <1>2, CatalogInvariance, PTL DEF CatalogSpec, CleanedStaysClean

-----------------------------------------------------------------------------
(* The inductive invariant of the room *)

ItemRows == [sale : Sales, deadline : 0..WaitFor, state : {"WAITING", "READY"},
             next : 0..LateRetry, ready : 0..ReadyFor]

RoomTypeOK ==
  /\ DOMAIN items \subseteq Ids
  /\ \A id \in DOMAIN items : items[id] \in ItemRows /\ items[id].ready <= items[id].deadline
  /\ DOMAIN queue \subseteq Ids /\ \A id \in DOMAIN queue : queue[id] \in 0..WaitFor
  /\ DOMAIN ready \subseteq Ids /\ \A id \in DOMAIN ready : ready[id] \in 0..ReadyFor
  /\ DOMAIN live \subseteq Ids /\ \A id \in DOMAIN live : live[id] \in 0..LiveFor
  /\ rate \in 0..RateInterval
  /\ DOMAIN bought \subseteq Ids /\ \A id \in DOMAIN bought : bought[id] \in BOOLEAN

\* Whoever has a place has a record that says so, and is watched.
PlacesHaveRecords ==
  \A id \in DOMAIN queue : queue[id] > 0 =>
    /\ id \in DOMAIN items
    /\ items[id].state = "WAITING" /\ items[id].deadline = queue[id]
    /\ id \in DOMAIN live

\* A ticket in the ready set is that of a record.
TicketsHaveRecords ==
  \A id \in DOMAIN ready : ready[id] > 0 =>
    /\ id \in DOMAIN items
    /\ items[id].state = "READY" /\ items[id].ready = ready[id]

\* A ticket leaves the ready set when it lapses or after its purchase, not before.
TicketsAreListed ==
  \A id \in DOMAIN items \ DOMAIN bought : Holds(id) =>
    id \in DOMAIN ready /\ ready[id] > 0

\* The ready set has no more than ReadyLimit members, lapsed ones included.
ReadyIsLimited == Cardinality(DOMAIN ready) <= ReadyLimit

\* No clean-up runs beside the room, and so every key is of a sale that exists.
NoneCleans == cleanup = NoCleanup

\* What relates the keys of the room.
KeysAgree ==
  /\ RoomTypeOK
  /\ PlacesHaveRecords /\ TicketsHaveRecords /\ TicketsAreListed
  /\ PolitenessPays

WaitingInv ==
  /\ CatalogInv /\ NoneCleans
  /\ KeysAgree
  /\ ReadyIsLimited /\ RoomIsLimited

-----------------------------------------------------------------------------
(* Tables *)

\* What a row put into a table, or rows taken from it, leave.
LEMMA Tables ==
  ASSUME NEW table, NEW id, NEW row, NEW ids
  PROVE  /\ DOMAIN Put(table, id, row) = DOMAIN table \cup {id}
         /\ Put(table, id, row)[id] = row
         /\ \A x \in DOMAIN table \ {id} : Put(table, id, row)[x] = table[x]
         /\ DOMAIN Drop(table, ids) = DOMAIN table \ ids
         /\ \A x \in DOMAIN table \ ids : Drop(table, ids)[x] = table[x]
BY DEF Put, Drop

\* The clean-up that begins each call leaves what has not lapsed, but for waiters
\* who did not poll.
LeftBy(gone) ==
  /\ gone \subseteq DOMAIN live /\ \A x \in gone : live[x] = 0
  /\ DOMAIN Queue(gone) = {x \in DOMAIN queue : queue[x] > 0 /\ x \notin gone}
  /\ \A x \in DOMAIN Queue(gone) : Queue(gone)[x] = queue[x]
  /\ DOMAIN Live(gone) = DOMAIN live \ gone
  /\ \A x \in DOMAIN Live(gone) : Live(gone)[x] = live[x]
  /\ DOMAIN Ready = {x \in DOMAIN ready : ready[x] > 0}
  /\ \A x \in DOMAIN Ready : Ready[x] = ready[x]

\* That is what it leaves.
LEMMA Purged ==
  ASSUME RoomTypeOK, NEW gone \in Inactive
  PROVE  LeftBy(gone)
<1>1. gone \subseteq DOMAIN live /\ \A x \in gone : live[x] = 0
  BY DEF Inactive, Lapsed
<1>2. \A x \in DOMAIN queue : queue[x] > 0 <=> queue[x] # 0
  BY WaitingAssumption DEF RoomTypeOK
<1>3. \A x \in DOMAIN ready : ready[x] > 0 <=> ready[x] # 0
  BY WaitingAssumption DEF RoomTypeOK
<1>4. /\ DOMAIN Queue(gone) = DOMAIN queue \ (Lapsed(queue) \cup gone)
      /\ \A x \in DOMAIN Queue(gone) : Queue(gone)[x] = queue[x]
  BY DEF Queue, Drop
<1>5. /\ DOMAIN Live(gone) = DOMAIN live \ gone
      /\ \A x \in DOMAIN Live(gone) : Live(gone)[x] = live[x]
  BY DEF Live, Drop
<1>6. /\ DOMAIN Ready = DOMAIN ready \ Lapsed(ready)
      /\ \A x \in DOMAIN Ready : Ready[x] = ready[x]
  BY DEF Ready, Drop
<1> QED BY <1>1, <1>2, <1>3, <1>4, <1>5, <1>6 DEF LeftBy, Lapsed

\* A call that only cleans up.
LEMMA PurgesKeep ==
  ASSUME KeysAgree, NEW gone \in Inactive, OnlyPurges(gone), UNCHANGED bought
  PROVE  KeysAgree'
<1>0. /\ LeftBy(gone) /\ RoomTypeOK /\ PlacesHaveRecords /\ TicketsHaveRecords
      /\ TicketsAreListed /\ PolitenessPays
  BY Purged DEF KeysAgree
<1>1. /\ queue' = Queue(gone) /\ ready' = Ready /\ live' = Live(gone)
      /\ UNCHANGED <<items, rate, bought>>
  BY DEF OnlyPurges
<1>2. RoomTypeOK'
  BY <1>0, <1>1 DEF LeftBy, RoomTypeOK
<1>3. PlacesHaveRecords'
  BY <1>0, <1>1 DEF LeftBy, PlacesHaveRecords
<1>4. TicketsHaveRecords' /\ TicketsAreListed'
  BY <1>0, <1>1 DEF LeftBy, TicketsHaveRecords, TicketsAreListed, Holds
<1>5. PolitenessPays'
  BY <1>0, <1>1 DEF LeftBy, PolitenessPays, Lapsed, PlacesHaveRecords
<1> QED BY <1>2, <1>3, <1>4, <1>5 DEF KeysAgree

\* A waiter that is asked to come back has all the time it takes.
LEMMA AskingKeeps ==
  ASSUME KeysAgree, NEW gone \in Inactive, NEW id \in DOMAIN items, id \in DOMAIN Queue(gone),
         NEW next \in 0..LateRetry, AskAgain(id, gone, next), UNCHANGED bought
  PROVE  KeysAgree'
<1>0. /\ LeftBy(gone) /\ RoomTypeOK /\ PlacesHaveRecords /\ TicketsHaveRecords
      /\ TicketsAreListed /\ PolitenessPays
  BY Purged DEF KeysAgree
<1>1. /\ queue' = Queue(gone) /\ ready' = Ready /\ rate' = rate /\ bought' = bought
      /\ items' = [items EXCEPT ![id].next = next]
      /\ DOMAIN live' = DOMAIN Live(gone) \cup {id} /\ live'[id] = LiveFor
      /\ \A x \in DOMAIN Live(gone) \ {id} : live'[x] = live[x]
  BY <1>0 DEF LeftBy, AskAgain, Seen, Put
<1>2. /\ DOMAIN items' = DOMAIN items /\ items'[id].next = next
      /\ \A x \in DOMAIN items :
           /\ items'[x] \in ItemRows
           /\ x # id => items'[x] = items[x]
           /\ items'[x].sale = items[x].sale /\ items'[x].deadline = items[x].deadline
           /\ items'[x].state = items[x].state /\ items'[x].ready = items[x].ready
  <2>1. items[id] \in ItemRows /\ \A x \in DOMAIN items : items[x] \in ItemRows
    BY <1>0 DEF RoomTypeOK
  <2>2. DOMAIN items' = DOMAIN items /\ items'[id] = [items[id] EXCEPT !.next = next]
    BY <1>1
  <2>3. /\ items'[id] \in ItemRows /\ items'[id].next = next
        /\ items'[id].sale = items[id].sale /\ items'[id].deadline = items[id].deadline
        /\ items'[id].state = items[id].state /\ items'[id].ready = items[id].ready
    BY <2>1, <2>2 DEF ItemRows
  <2> QED BY <1>1, <2>1, <2>2, <2>3
<1>3. RoomTypeOK'
  <2>1. id \in Ids /\ LiveFor \in 0..LiveFor
    BY <1>0, WaitingAssumption DEF RoomTypeOK
  <2> QED BY <1>0, <1>1, <1>2, <2>1 DEF LeftBy, RoomTypeOK
<1>4. PlacesHaveRecords'
  BY <1>0, <1>1, <1>2 DEF LeftBy, PlacesHaveRecords
<1>5. TicketsHaveRecords' /\ TicketsAreListed'
  BY <1>0, <1>1, <1>2 DEF LeftBy, TicketsHaveRecords, TicketsAreListed, Holds
<1>6. PolitenessPays'
  <2>1. live'[id] >= items'[id].next + (LiveFor - LateRetry)
    BY <1>1, <1>2, WaitingAssumption
  <2> QED BY <1>0, <1>1, <1>2, <2>1 DEF LeftBy, PolitenessPays, Lapsed, PlacesHaveRecords
<1> QED BY <1>3, <1>4, <1>5, <1>6 DEF KeysAgree

\* Who is sent home leaves the queue, and its record tells nothing more.
LEMMA SendingHomeKeeps ==
  ASSUME KeysAgree, NEW gone \in Inactive, NEW id, SendHome(id, gone), UNCHANGED bought
  PROVE  KeysAgree'
<1>0. /\ LeftBy(gone) /\ RoomTypeOK /\ PlacesHaveRecords /\ TicketsHaveRecords
      /\ TicketsAreListed /\ PolitenessPays
  BY Purged DEF KeysAgree
<1>1. /\ ready' = Ready /\ UNCHANGED <<items, rate, bought>>
      /\ DOMAIN queue' = DOMAIN Queue(gone) \ {id} /\ DOMAIN live' = DOMAIN Live(gone) \ {id}
      /\ \A x \in DOMAIN queue' : queue'[x] = queue[x]
      /\ \A x \in DOMAIN live' : live'[x] = live[x]
  BY <1>0 DEF LeftBy, SendHome, Drop
<1>2. RoomTypeOK'
  BY <1>0, <1>1 DEF LeftBy, RoomTypeOK
<1>3. PlacesHaveRecords'
  BY <1>0, <1>1 DEF LeftBy, PlacesHaveRecords
<1>4. TicketsHaveRecords' /\ TicketsAreListed'
  BY <1>0, <1>1 DEF LeftBy, TicketsHaveRecords, TicketsAreListed, Holds
<1>5. PolitenessPays'
  BY <1>0, <1>1 DEF LeftBy, PolitenessPays, PlacesHaveRecords, Lapsed
<1> QED BY <1>2, <1>3, <1>4, <1>5 DEF KeysAgree

\* Who gets a ticket leaves the queue for the ready set.
LEMMA TicketKeeps ==
  ASSUME KeysAgree, NEW gone \in Inactive, NEW id \in DOMAIN items, id \in DOMAIN Queue(gone),
         GiveTicket(id, gone), UNCHANGED bought
  PROVE  KeysAgree'
<1>0. /\ LeftBy(gone) /\ RoomTypeOK /\ PlacesHaveRecords /\ TicketsHaveRecords
      /\ TicketsAreListed /\ PolitenessPays
  BY Purged DEF KeysAgree
<1> DEFINE for == TicketTime(items[id].deadline)
<1>1. /\ rate' = RateInterval /\ bought' = bought
      /\ items' = [items EXCEPT ![id].state = "READY", ![id].ready = for]
      /\ DOMAIN queue' = DOMAIN Queue(gone) \ {id} /\ DOMAIN live' = DOMAIN Live(gone) \ {id}
      /\ \A x \in DOMAIN queue' : queue'[x] = queue[x]
      /\ \A x \in DOMAIN live' : live'[x] = live[x]
      /\ DOMAIN ready' = DOMAIN Ready \cup {id} /\ ready'[id] = for
      /\ \A x \in DOMAIN Ready \ {id} : ready'[x] = ready[x]
  BY <1>0 DEF LeftBy, GiveTicket, Put, Drop
<1>2. for \in 0..ReadyFor /\ for > 0 /\ for <= items[id].deadline
  <2>1. items[id].deadline \in 0..WaitFor /\ items[id].deadline > 0
    BY <1>0 DEF LeftBy, RoomTypeOK, ItemRows, PlacesHaveRecords
  <2> QED BY <2>1, WaitingAssumption DEF TicketTime
<1>3. /\ DOMAIN items' = DOMAIN items /\ \A x \in DOMAIN items : x # id => items'[x] = items[x]
      /\ items'[id] \in ItemRows /\ items'[id].deadline = items[id].deadline
      /\ items'[id].state = "READY" /\ items'[id].ready = for
  <2>1. items[id] \in ItemRows
    BY <1>0 DEF RoomTypeOK
  <2>2. items'[id] = [items[id] EXCEPT !.state = "READY", !.ready = for]
    BY <1>1
  <2> HIDE DEF for
  <2>3. /\ items'[id] \in ItemRows /\ items'[id].deadline = items[id].deadline
        /\ items'[id].state = "READY" /\ items'[id].ready = for
    BY <1>2, <2>1, <2>2 DEF ItemRows
  <2> QED BY <1>1, <2>3
<1> HIDE DEF for
<1>4. RoomTypeOK'
  <2>1. id \in Ids /\ RateInterval \in 0..RateInterval
    BY <1>0, WaitingAssumption DEF RoomTypeOK
  <2> QED BY <1>0, <1>1, <1>2, <1>3, <2>1 DEF LeftBy, RoomTypeOK
<1>5. PlacesHaveRecords'
  BY <1>0, <1>1, <1>3 DEF LeftBy, PlacesHaveRecords
<1>6. TicketsHaveRecords' /\ TicketsAreListed'
  BY <1>0, <1>1, <1>2, <1>3 DEF LeftBy, TicketsHaveRecords, TicketsAreListed, Holds
<1>7. PolitenessPays'
  BY <1>0, <1>1, <1>3 DEF LeftBy, PolitenessPays, PlacesHaveRecords, Lapsed
<1> QED BY <1>4, <1>5, <1>6, <1>7 DEF KeysAgree

\* Who joins had no place and no ticket any more.
LEMMA JoiningKeeps ==
  ASSUME KeysAgree, NEW gone \in Inactive, NEW id \in Ids, NEW s \in Sales,
         Join(id, s, gone)
  PROVE  KeysAgree'
<1>0. /\ LeftBy(gone) /\ RoomTypeOK /\ PlacesHaveRecords /\ TicketsHaveRecords
      /\ TicketsAreListed /\ PolitenessPays
  BY Purged DEF KeysAgree
<1>1. bought' = bought
  BY DEF Join
<1>2. CASE OnlyPurges(gone)
  BY <1>1, <1>2, PurgesKeep
<1>3. ASSUME id \in DOMAIN items => Stale(id, gone)
      PROVE  id \notin DOMAIN Ready /\ id \notin DOMAIN Queue(gone)
  BY <1>0, <1>3 DEF LeftBy, Stale, TicketsHaveRecords, PlacesHaveRecords
<1>4. ASSUME id \in DOMAIN items => Stale(id, gone), ready' = Ready, rate' = rate,
             items' = Drop(items, {id}), queue' = Queue(gone), live' = Live(gone)
      PROVE  KeysAgree'
  <2>1. /\ DOMAIN items' = DOMAIN items \ {id} /\ \A x \in DOMAIN items' : items'[x] = items[x]
    BY <1>4 DEF Drop
  <2>2. RoomTypeOK'
    BY <1>0, <1>1, <1>4, <2>1 DEF LeftBy, RoomTypeOK
  <2>3. PlacesHaveRecords'
    BY <1>0, <1>3, <1>4, <2>1 DEF LeftBy, PlacesHaveRecords
  <2>4. TicketsHaveRecords'
    <3>1. id \notin DOMAIN ready'
      BY <1>3, <1>4
    <3>2. /\ DOMAIN ready' = {x \in DOMAIN ready : ready[x] > 0}
          /\ \A x \in DOMAIN ready' : ready'[x] = ready[x]
      BY <1>0, <1>4 DEF LeftBy
    <3> QED BY <1>0, <2>1, <3>1, <3>2 DEF TicketsHaveRecords
  <2>5. TicketsAreListed'
    <3>1. /\ DOMAIN ready' = {x \in DOMAIN ready : ready[x] > 0}
          /\ \A x \in DOMAIN ready' : ready'[x] = ready[x]
      BY <1>0, <1>4 DEF LeftBy
    <3>2. \A x \in DOMAIN items' : Holds(x)' = Holds(x)
      BY <2>1 DEF Holds
    <3> QED BY <1>0, <1>1, <2>1, <3>1, <3>2 DEF TicketsAreListed
  <2>6. PolitenessPays'
    <3>1. SUFFICES ASSUME NEW x \in DOMAIN queue' \ Lapsed(queue)', items'[x].next > 0
                   PROVE  live'[x] >= items'[x].next + (LiveFor - LateRetry)
      BY DEF PolitenessPays
    <3>2. /\ x \in DOMAIN queue \ Lapsed(queue) /\ queue[x] > 0
          /\ x \in DOMAIN Queue(gone) /\ x \notin gone
      BY <1>0, <1>4, <3>1 DEF LeftBy, Lapsed
    <3>3. x # id /\ x \in DOMAIN items /\ x \in DOMAIN live
      BY <1>0, <1>3, <1>4, <3>2 DEF PlacesHaveRecords
    <3>4. items'[x] = items[x] /\ live'[x] = live[x]
      BY <1>0, <1>4, <2>1, <3>2, <3>3 DEF LeftBy
    <3> QED BY <1>0, <3>1, <3>2, <3>4 DEF PolitenessPays
  <2> QED BY <2>2, <2>3, <2>4, <2>5, <2>6 DEF KeysAgree
<1>5. ASSUME id \in DOMAIN items => Stale(id, gone), ready' = Ready, rate' = rate,
             items' = Put(items, id, [sale |-> s, deadline |-> WaitFor,
                                      state |-> "WAITING", next |-> 0, ready |-> 0]),
             queue' = Put(Queue(gone), id, WaitFor), live' = Put(Live(gone), id, LiveFor)
      PROVE  KeysAgree'
  <2>1. /\ DOMAIN items' = DOMAIN items \cup {id}
        /\ \A x \in DOMAIN items : x # id => items'[x] = items[x]
        /\ items'[id].state = "WAITING" /\ items'[id].deadline = WaitFor
        /\ items'[id].next = 0 /\ items'[id].ready = 0
        /\ items'[id] \in ItemRows
    BY <1>5, WaitingAssumption DEF Put, ItemRows
  <2>2. /\ DOMAIN queue' = DOMAIN Queue(gone) \cup {id} /\ queue'[id] = WaitFor
        /\ \A x \in DOMAIN Queue(gone) : x # id => queue'[x] = queue[x]
        /\ DOMAIN live' = DOMAIN Live(gone) \cup {id} /\ live'[id] = LiveFor
        /\ \A x \in DOMAIN Live(gone) : x # id => live'[x] = live[x]
    BY <1>0, <1>5 DEF LeftBy, Put
  <2>3. WaitFor \in 0..WaitFor /\ LiveFor \in 0..LiveFor
    BY WaitingAssumption
  <2>4. RoomTypeOK'
    BY <1>0, <1>1, <1>5, <2>1, <2>2, <2>3 DEF LeftBy, RoomTypeOK
  <2>5. PlacesHaveRecords'
    BY <1>0, <2>1, <2>2 DEF LeftBy, PlacesHaveRecords
  <2>6. TicketsHaveRecords' /\ TicketsAreListed'
    BY <1>0, <1>1, <1>3, <1>5, <2>1 DEF LeftBy, TicketsHaveRecords, TicketsAreListed, Holds
  <2>7. PolitenessPays'
    BY <1>0, <2>1, <2>2 DEF LeftBy, PolitenessPays, PlacesHaveRecords, Lapsed
  <2> QED BY <2>4, <2>5, <2>6, <2>7 DEF KeysAgree
<1> QED BY <1>2, <1>4, <1>5 DEF Join

\* Whatever a poll finds, the keys agree after it.
LEMMA PollKeeps ==
  ASSUME KeysAgree, NEW id \in Ids, NEW gone \in Inactive, Poll(id, gone)
  PROVE  KeysAgree'
<1>1. bought' = bought
  BY DEF Poll
<1>2. CASE OnlyPurges(gone)
  BY <1>1, <1>2, PurgesKeep
<1>3. CASE ~NothingToDecide(id, gone)
  <2>1. id \in DOMAIN items /\ id \in DOMAIN Queue(gone)
    BY <1>3 DEF NothingToDecide
  <2>2. 0 \in 0..LateRetry /\ SoonRetry \in 0..LateRetry /\ LateRetry \in 0..LateRetry
    BY WaitingAssumption
  <2>3. ASSUME NEW next \in {0, SoonRetry, LateRetry}, AskAgain(id, gone, next)
        PROVE  KeysAgree'
    BY <1>1, <2>1, <2>2, <2>3, AskingKeeps
  <2>4. CASE SendHome(id, gone)
    BY <1>1, <2>4, SendingHomeKeeps
  <2>5. CASE GiveTicket(id, gone)
    BY <1>1, <2>1, <2>5, TicketKeeps
  <2> QED BY <1>2, <1>3, <2>3, <2>4, <2>5 DEF Poll
<1> QED BY <1>2, <1>3 DEF Poll

\* A purchase uses its ticket, and returns it to the ready set later or never.
LEMMA BuyingKeeps ==
  ASSUME KeysAgree, NEW id \in Ids, Buy(id) \/ CompleteReady(id) \/ NeverCompletes(id)
  PROVE  KeysAgree'
<1>0. /\ RoomTypeOK /\ PlacesHaveRecords /\ TicketsHaveRecords
      /\ TicketsAreListed /\ PolitenessPays
  BY DEF KeysAgree
<1>1. /\ UNCHANGED <<items, queue, live, rate>>
      /\ DOMAIN bought' = DOMAIN bought \cup {id}
      /\ \A x \in DOMAIN bought' : bought'[x] \in BOOLEAN
      /\ \/ ready' = ready
         \/ DOMAIN ready' = DOMAIN ready \ {id} /\ \A x \in DOMAIN ready' : ready'[x] = ready[x]
  BY <1>0 DEF Buy, CompleteReady, NeverCompletes, Put, Drop, RoomTypeOK
<1>2. RoomTypeOK'
  BY <1>0, <1>1 DEF RoomTypeOK
<1>3. PlacesHaveRecords' /\ PolitenessPays'
  BY <1>0, <1>1 DEF PlacesHaveRecords, PolitenessPays, Lapsed
<1>4. TicketsHaveRecords' /\ TicketsAreListed'
  BY <1>0, <1>1 DEF TicketsHaveRecords, TicketsAreListed, Holds
<1> QED BY <1>2, <1>3, <1>4 DEF KeysAgree

\* One tick less of what is left.
LEMMA LessIs ==
  ASSUME NEW n \in Nat
  PROVE  Less(n) \in Nat /\ Less(n) <= n /\ (n > 0 => Less(n) = n - 1) /\ (n = 0 => Less(n) = 0)
BY DEF Less

\* All that lapses does so together, and a record lapses after all that depends on it.
LEMMA TickKeeps ==
  ASSUME KeysAgree, WaitingTick
  PROVE  KeysAgree'
<1>0. /\ RoomTypeOK /\ PlacesHaveRecords /\ TicketsHaveRecords
      /\ TicketsAreListed /\ PolitenessPays
  BY DEF KeysAgree
<1>1. /\ bought' = bought /\ rate' = Less(rate)
      /\ DOMAIN items' = {x \in DOMAIN items : items[x].deadline > 0}
      /\ DOMAIN queue' = DOMAIN queue /\ \A x \in DOMAIN queue : queue'[x] = Less(queue[x])
      /\ DOMAIN ready' = DOMAIN ready /\ \A x \in DOMAIN ready : ready'[x] = Less(ready[x])
      /\ DOMAIN live' = DOMAIN live /\ \A x \in DOMAIN live : live'[x] = Less(live[x])
  BY DEF WaitingTick
<1>2. ASSUME NEW x \in DOMAIN items'
      PROVE  /\ items'[x] \in ItemRows /\ items'[x].ready <= items'[x].deadline
             /\ items'[x].state = items[x].state /\ items'[x].deadline = Less(items[x].deadline)
             /\ items'[x].next = Less(items[x].next) /\ items'[x].ready = Less(items[x].ready)
  <2>1. items[x] \in ItemRows /\ items[x].ready <= items[x].deadline
    BY <1>0, <1>1 DEF RoomTypeOK
  <2>2. items'[x] = [items[x] EXCEPT !.deadline = Less(@), !.next = Less(@), !.ready = Less(@)]
    BY <1>1 DEF WaitingTick
  <2>3. /\ items'[x].state = items[x].state /\ items'[x].deadline = Less(items[x].deadline)
        /\ items'[x].next = Less(items[x].next) /\ items'[x].ready = Less(items[x].ready)
    BY <2>1, <2>2 DEF ItemRows
  <2>4. /\ Less(items[x].deadline) \in 0..WaitFor /\ Less(items[x].next) \in 0..LateRetry
        /\ Less(items[x].ready) \in 0..ReadyFor
        /\ Less(items[x].ready) <= Less(items[x].deadline)
    BY <2>1, WaitingAssumption DEF ItemRows, Less
  <2>5. items'[x] \in ItemRows
    BY <2>1, <2>2, <2>4 DEF ItemRows
  <2> QED BY <2>3, <2>4, <2>5
<1>3. RoomTypeOK'
  <2>1. /\ rate' \in 0..RateInterval
        /\ \A x \in DOMAIN queue : Less(queue[x]) \in 0..WaitFor
        /\ \A x \in DOMAIN ready : Less(ready[x]) \in 0..ReadyFor
        /\ \A x \in DOMAIN live : Less(live[x]) \in 0..LiveFor
    BY <1>0, <1>1, WaitingAssumption DEF RoomTypeOK, Less
  <2> QED BY <1>0, <1>1, <1>2, <2>1 DEF RoomTypeOK
<1>4. ASSUME NEW n \in Nat, Less(n) > 0
      PROVE  n > 0
  BY <1>4 DEF Less
<1>5. PlacesHaveRecords'
  <2>1. \A x \in DOMAIN queue : queue[x] \in Nat
    BY <1>0, WaitingAssumption DEF RoomTypeOK
  <2> QED BY <1>0, <1>1, <1>2, <1>4, <2>1 DEF PlacesHaveRecords
<1>6. TicketsHaveRecords'
  <2> SUFFICES ASSUME NEW x \in DOMAIN ready', ready'[x] > 0
               PROVE  x \in DOMAIN items' /\ items'[x].state = "READY" /\ items'[x].ready = ready'[x]
    BY DEF TicketsHaveRecords
  <2>1. ready[x] \in Nat /\ ready[x] > 0
    BY <1>0, <1>1, <1>4, WaitingAssumption DEF RoomTypeOK
  <2>2. x \in DOMAIN items /\ items[x].state = "READY" /\ items[x].ready = ready[x]
    BY <1>0, <1>1, <2>1 DEF TicketsHaveRecords
  <2>3. items[x].deadline > 0
    BY <1>0, <2>1, <2>2, WaitingAssumption DEF RoomTypeOK, ItemRows
  <2> QED BY <1>1, <1>2, <2>2, <2>3
<1>7. TicketsAreListed'
  <2> SUFFICES ASSUME NEW x \in DOMAIN items' \ DOMAIN bought', Holds(x)'
               PROVE  x \in DOMAIN ready' /\ ready'[x] > 0
    BY DEF TicketsAreListed
  <2>1. items[x].ready \in Nat /\ Less(items[x].ready) > 0 /\ items[x].state = "READY"
    BY <1>0, <1>1, <1>2, WaitingAssumption DEF RoomTypeOK, ItemRows, Holds
  <2>2. x \in DOMAIN items \ DOMAIN bought /\ Holds(x)
    BY <1>1, <1>4, <2>1 DEF Holds
  <2>3. x \in DOMAIN ready /\ ready[x] > 0
    BY <1>0, <2>2 DEF TicketsAreListed
  <2>4. items[x].ready = ready[x]
    BY <1>0, <2>3 DEF TicketsHaveRecords
  <2> QED BY <1>1, <2>1, <2>3, <2>4
<1>8. PolitenessPays'
  <2> SUFFICES ASSUME NEW x \in DOMAIN queue', queue'[x] # 0, items'[x].next > 0
               PROVE  live'[x] >= items'[x].next + (LiveFor - LateRetry)
    BY DEF PolitenessPays, Lapsed
  <2>1. queue[x] \in Nat /\ queue'[x] = Less(queue[x])
    BY <1>0, <1>1, WaitingAssumption DEF RoomTypeOK
  <2>2. queue'[x] > 0 /\ queue[x] > 0
    BY <1>4, <2>1 DEF Less
  <2>3. x \in DOMAIN items' /\ x \in DOMAIN live /\ x \in DOMAIN items
    BY <1>0, <1>1, <1>5, <2>2 DEF PlacesHaveRecords
  <2>4. /\ items[x].next \in Nat /\ items'[x].next = Less(items[x].next)
        /\ live[x] \in Nat /\ live'[x] = Less(live[x])
    BY <1>0, <1>1, <1>2, <2>3, WaitingAssumption DEF RoomTypeOK, ItemRows
  <2>5. live[x] >= items[x].next + (LiveFor - LateRetry)
    BY <1>0, <1>1, <1>4, <2>2, <2>4 DEF PolitenessPays, Lapsed
  <2> QED BY <1>4, <2>4, <2>5, WaitingAssumption DEF Less
<1> QED BY <1>3, <1>5, <1>6, <1>7, <1>8 DEF KeysAgree

-----------------------------------------------------------------------------
(* Limits *)

\* The queue and the ready set are finite.
LEMMA RoomFinite ==
  ASSUME RoomTypeOK
  PROVE  /\ IsFiniteSet(DOMAIN queue) /\ IsFiniteSet(DOMAIN ready)
         /\ Cardinality(DOMAIN queue) \in Nat /\ Cardinality(DOMAIN ready) \in Nat
<1>1. IsFiniteSet(DOMAIN queue) /\ IsFiniteSet(DOMAIN ready)
  BY WaitingAssumption, FS_Subset DEF RoomTypeOK
<1> QED BY <1>1, FS_CardinalityType

\* Whoever only leaves breaks no limit.
LEMMA LeavingKeepsLimits ==
  ASSUME RoomTypeOK, ReadyIsLimited, RoomIsLimited,
         DOMAIN queue' \subseteq DOMAIN queue, DOMAIN ready' \subseteq DOMAIN ready
  PROVE  ReadyIsLimited' /\ RoomIsLimited'
<1>1. /\ Cardinality(DOMAIN queue') <= Cardinality(DOMAIN queue)
      /\ Cardinality(DOMAIN ready') <= Cardinality(DOMAIN ready)
      /\ Cardinality(DOMAIN queue') \in Nat /\ Cardinality(DOMAIN ready') \in Nat
  <2>1. IsFiniteSet(DOMAIN queue') /\ IsFiniteSet(DOMAIN ready')
    BY RoomFinite, FS_Subset
  <2> QED BY <2>1, RoomFinite, FS_Subset, FS_CardinalityType
<1> QED BY <1>1, RoomFinite, WaitingAssumption DEF ReadyIsLimited, RoomIsLimited

\* Only join adds to the room, and only a ticket to the ready set; each looks at its limit.
LEMMA EnteringKeepsLimits ==
  ASSUME RoomTypeOK, ReadyIsLimited, RoomIsLimited, NEW gone \in Inactive, NEW id \in Ids,
         \/ /\ DOMAIN queue' = DOMAIN Queue(gone) \cup {id} /\ ready' = Ready
            /\ ~Full(gone)
         \/ /\ id \in DOMAIN Queue(gone)
            /\ DOMAIN queue' = DOMAIN Queue(gone) \ {id} /\ DOMAIN ready' = DOMAIN Ready \cup {id}
            /\ Cardinality(DOMAIN Ready) < ReadyLimit
  PROVE  ReadyIsLimited' /\ RoomIsLimited'
<1> DEFINE q == DOMAIN Queue(gone)
           r == DOMAIN Ready
<1>1. q \subseteq DOMAIN queue /\ r \subseteq DOMAIN ready
  BY Purged DEF LeftBy
<1>2. /\ IsFiniteSet(q) /\ Cardinality(q) \in Nat /\ Cardinality(q) <= Cardinality(DOMAIN queue)
      /\ IsFiniteSet(r) /\ Cardinality(r) \in Nat /\ Cardinality(r) <= Cardinality(DOMAIN ready)
  <2>1. IsFiniteSet(q) /\ IsFiniteSet(r)
    BY <1>1, RoomFinite, FS_Subset
  <2> QED BY <1>1, <2>1, RoomFinite, FS_Subset, FS_CardinalityType
<1>3. /\ Cardinality(q \cup {id}) \in Nat /\ Cardinality(q \cup {id}) <= Cardinality(q) + 1
      /\ Cardinality(r \cup {id}) \in Nat /\ Cardinality(r \cup {id}) <= Cardinality(r) + 1
      /\ id \in q => Cardinality(q \ {id}) = Cardinality(q) - 1
  <2>1. /\ Cardinality(q \cup {id}) = IF id \in q THEN Cardinality(q) ELSE Cardinality(q) + 1
        /\ Cardinality(q \ {id}) = IF id \in q THEN Cardinality(q) - 1 ELSE Cardinality(q)
    BY <1>2, FS_AddElement, FS_RemoveElement
  <2>2. Cardinality(r \cup {id}) = IF id \in r THEN Cardinality(r) ELSE Cardinality(r) + 1
    BY <1>2, FS_AddElement
  <2> HIDE DEF q, r
  <2> QED BY <1>2, <2>1, <2>2
<1>4. {ReadyLimit, MaxWaiting} \subseteq Nat
  BY WaitingAssumption
<1>5. Cardinality(DOMAIN queue) \in Nat /\ Cardinality(DOMAIN ready) \in Nat
  BY RoomFinite
<1> HIDE DEF q, r
<1>6. CASE DOMAIN queue' = q \cup {id} /\ DOMAIN ready' = r /\ Cardinality(q) + Cardinality(r) < MaxWaiting
  BY <1>2, <1>3, <1>4, <1>5, <1>6 DEF ReadyIsLimited, RoomIsLimited
<1>7. CASE /\ id \in q /\ DOMAIN queue' = q \ {id} /\ DOMAIN ready' = r \cup {id}
           /\ Cardinality(r) < ReadyLimit
  BY <1>2, <1>3, <1>4, <1>5, <1>7 DEF ReadyIsLimited, RoomIsLimited
<1> QED BY <1>2, <1>4, <1>6, <1>7 DEF Full, q, r

\* So it is with every call.
LEMMA CallsKeepLimits ==
  ASSUME RoomTypeOK, ReadyIsLimited, RoomIsLimited, NEW id \in Ids, NEW gone \in Inactive,
         Poll(id, gone) \/ \E s \in Sales : Join(id, s, gone)
  PROVE  ReadyIsLimited' /\ RoomIsLimited'
<1>1. LeftBy(gone)
  BY Purged
<1>2. ASSUME queue' = Queue(gone) \/ queue' = Drop(Queue(gone), {id}), ready' = Ready
      PROVE  ReadyIsLimited' /\ RoomIsLimited'
  <2>1. DOMAIN queue' \subseteq DOMAIN queue /\ DOMAIN ready' \subseteq DOMAIN ready
    BY <1>1, <1>2 DEF LeftBy, Drop
  <2> QED BY <2>1, LeavingKeepsLimits
<1>3. CASE OnlyPurges(gone) \/ SendHome(id, gone) \/ \E next \in Nat : AskAgain(id, gone, next)
  BY <1>2, <1>3 DEF OnlyPurges, SendHome, AskAgain
<1>4. ASSUME NEW s \in Sales, Join(id, s, gone)
      PROVE  ReadyIsLimited' /\ RoomIsLimited'
  <2>1. CASE queue' = Put(Queue(gone), id, WaitFor) /\ ready' = Ready /\ ~Full(gone)
    <3>1. DOMAIN queue' = DOMAIN Queue(gone) \cup {id}
      BY <2>1 DEF Put
    <3> QED BY <2>1, <3>1, EnteringKeepsLimits
  <2> QED BY <1>2, <1>3, <1>4, <2>1 DEF Join
<1>5. CASE ~NothingToDecide(id, gone) /\ Cardinality(DOMAIN Ready) < ReadyLimit /\ GiveTicket(id, gone)
  <2>1. /\ id \in DOMAIN Queue(gone)
        /\ DOMAIN queue' = DOMAIN Queue(gone) \ {id} /\ DOMAIN ready' = DOMAIN Ready \cup {id}
    BY <1>5 DEF NothingToDecide, GiveTicket, Put, Drop
  <2> QED BY <1>5, <2>1, EnteringKeepsLimits
<1>6. {0, SoonRetry, LateRetry} \subseteq Nat
  BY WaitingAssumption
<1> QED BY <1>3, <1>4, <1>5, <1>6 DEF Poll, MayEnter

-----------------------------------------------------------------------------
(* Every step *)

\* The stock and the publishers move as they do in Catalog, and nobody cleans up.
LEMMA MapsToCatalog ==
  ASSUME WaitingInv, [WaitingNext]_waitingVars
  PROVE  [CatalogNext]_catalogVars /\ CatalogInv' /\ NoneCleans'
<1>1. [CatalogNext]_catalogVars /\ UNCHANGED cleanup
  <2>1. ASSUME NEW id \in Ids, NEW gone \in Inactive,
               Poll(id, gone) \/ \E s \in Sales : Join(id, s, gone)
        PROVE  UNCHANGED catalogVars
    BY <2>1 DEF Poll, Join
  <2>2. ASSUME NEW id \in Ids, Buy(id)
        PROVE  CatalogNext /\ UNCHANGED cleanup
    <3>1. HoldUnit(items[id].sale) /\ items[id].sale \in Sales
      BY <2>2 DEF Buy, WaitingInv, KeysAgree, RoomTypeOK, ItemRows
    <3> QED BY <3>1 DEF CatalogNext, CatalogSteps, HoldUnit
  <2>3. ASSUME NEW id \in Ids, CompleteReady(id) \/ NeverCompletes(id)
        PROVE  UNCHANGED catalogVars
    BY <2>3 DEF CompleteReady, NeverCompletes
  <2>4. ASSUME \/ \E s \in Sales, opensAt \in 0..MaxOpensIn : Create(s, opensAt)
               \/ \E s \in Sales : ReturnUnit(s) \/ SellUnit(s)
               \/ Publishing
        PROVE  CatalogNext /\ UNCHANGED cleanup
    BY <2>4 DEF CatalogNext, CatalogSteps, Create, ReturnUnit, SellUnit, Publishing, Refresh, Read,
       Write, RefreshFails, RunsLate
  <2>5. CASE WaitingTick
    BY <2>5 DEF WaitingTick, CatalogNext, CatalogTick
  <2>6. CASE UNCHANGED waitingVars
    BY <2>6 DEF waitingVars, catalogVars
  <2> QED BY <2>1, <2>2, <2>3, <2>4, <2>5, <2>6 DEF WaitingNext, catalogVars
<1> QED BY <1>1, CatalogNextInv DEF WaitingInv, NoneCleans

\* Every step keeps all of it.
LEMMA WaitingStep ==
  ASSUME WaitingInv, [WaitingNext]_waitingVars
  PROVE  WaitingInv'
<1>1. KeysAgree /\ RoomTypeOK /\ ReadyIsLimited /\ RoomIsLimited
  BY DEF WaitingInv, KeysAgree
<1>2. ASSUME NEW id \in Ids, NEW gone \in Inactive,
             Poll(id, gone) \/ \E s \in Sales : Join(id, s, gone)
      PROVE  KeysAgree' /\ ReadyIsLimited' /\ RoomIsLimited'
  BY <1>1, <1>2, PollKeeps, JoiningKeeps, CallsKeepLimits
<1>3. ASSUME NEW id \in Ids, Buy(id) \/ CompleteReady(id) \/ NeverCompletes(id)
      PROVE  KeysAgree' /\ ReadyIsLimited' /\ RoomIsLimited'
  <2>1. DOMAIN queue' \subseteq DOMAIN queue /\ DOMAIN ready' \subseteq DOMAIN ready
    BY <1>3 DEF Buy, CompleteReady, NeverCompletes, Drop
  <2> QED BY <1>1, <1>3, <2>1, BuyingKeeps, LeavingKeepsLimits
<1>4. CASE WaitingTick
  <2>1. DOMAIN queue' \subseteq DOMAIN queue /\ DOMAIN ready' \subseteq DOMAIN ready
    BY <1>4 DEF WaitingTick
  <2> QED BY <1>1, <1>4, <2>1, TickKeeps, LeavingKeepsLimits, MapsToCatalog DEF WaitingInv
<1>5. ASSUME UNCHANGED roomVars
      PROVE  KeysAgree' /\ ReadyIsLimited' /\ RoomIsLimited'
  BY <1>1, <1>5 DEF roomVars, KeysAgree, RoomTypeOK, PlacesHaveRecords, TicketsHaveRecords, TicketsAreListed,
     Holds, PolitenessPays, Lapsed, ReadyIsLimited, RoomIsLimited
<1>6. UNCHANGED waitingVars => UNCHANGED roomVars
  BY DEF waitingVars
<1> QED BY <1>2, <1>3, <1>4, <1>5, <1>6, MapsToCatalog DEF WaitingNext, WaitingInv

\* The room is empty at first.
LEMMA InitWaiting == WaitingInit => WaitingInv
<1> SUFFICES ASSUME WaitingInit PROVE WaitingInv
  OBVIOUS
<1>1. /\ CatalogInit /\ rate = 0
      /\ DOMAIN items = {} /\ DOMAIN queue = {} /\ DOMAIN ready = {} /\ DOMAIN live = {}
      /\ DOMAIN bought = {}
  BY NoRows DEF WaitingInit
<1>2. KeysAgree
  BY <1>1, WaitingAssumption
     DEF KeysAgree, RoomTypeOK, PlacesHaveRecords, TicketsHaveRecords, TicketsAreListed, PolitenessPays
<1>3. ReadyIsLimited /\ RoomIsLimited
  BY <1>1, FS_EmptySet, WaitingAssumption DEF ReadyIsLimited, RoomIsLimited
<1> QED BY <1>1, <1>2, <1>3, InitCatalog DEF WaitingInv, NoneCleans, CatalogInit

\* What relates the catalog, the keys of the room and its limits holds always.
THEOREM WaitingInvariance == WaitingSpec => []WaitingInv
<1>1. WaitingInv /\ [WaitingNext]_waitingVars => WaitingInv'
  BY WaitingStep
<1> QED BY <1>1, InitWaiting, PTL DEF WaitingSpec

\* The catalog beside the waiting room is the one of Catalog, with all its promises.
THEOREM WaitingImplementsCatalog == WaitingSpec => CatalogSpec
<1>1. WaitingInv /\ [WaitingNext]_waitingVars => [CatalogNext]_catalogVars
  BY MapsToCatalog
<1>2. WaitingInit => CatalogInit
  BY DEF WaitingInit
<1> QED BY <1>1, <1>2, WaitingInvariance, PTL DEF WaitingSpec, CatalogSpec

-----------------------------------------------------------------------------
(* Properties *)

\* The four keys that waiting.lua writes agree in every state, whatever lapses in
\* whichever order and whoever is purged.
THEOREM KeysAlwaysAgree == WaitingSpec => []PlacesAgree
<1>1. WaitingInv => PlacesAgree
  <2> SUFFICES ASSUME WaitingInv PROVE PlacesAgree
    OBVIOUS
  <2>1. CatalogTypeOK /\ RoomTypeOK /\ PlacesHaveRecords /\ TicketsHaveRecords
    BY DEF WaitingInv, CatalogInv, KeysAgree
  <2>2. WaitingTypeOK
    BY <2>1 DEF WaitingTypeOK, RoomTypeOK, ItemRows
  <2>3. ASSUME NEW id \in DOMAIN queue \ Lapsed(queue)
        PROVE  queue[id] > 0
    BY <2>1, <2>3, WaitingAssumption DEF RoomTypeOK, Lapsed
  <2>4. ASSUME NEW id \in DOMAIN ready \ Lapsed(ready)
        PROVE  items[id].state = "READY"
    <3>1. ready[id] > 0
      BY <2>1, <2>4, WaitingAssumption DEF RoomTypeOK, Lapsed
    <3> QED BY <2>1, <3>1 DEF TicketsHaveRecords
  <2> QED BY <2>1, <2>2, <2>3, <2>4 DEF PlacesAgree, PlacesHaveRecords
<1> QED BY <1>1, WaitingInvariance, PTL

\* A ticket that may still buy is in the ready set, which is limited when the ticket
\* is given; and the room is limited when somebody joins.
THEOREM LimitsHold == WaitingSpec => []LimitsAreKept
<1>1. WaitingInv => LimitsAreKept
  <2> SUFFICES ASSUME WaitingInv PROVE LimitsAreKept
    OBVIOUS
  <2> DEFINE unused == {id \in DOMAIN items \ DOMAIN bought : Holds(id)}
  <2>1. RoomTypeOK /\ unused \subseteq DOMAIN ready
    BY DEF WaitingInv, KeysAgree, TicketsAreListed
  <2>2. IsFiniteSet(DOMAIN ready) /\ Cardinality(DOMAIN ready) \in Nat
    BY <2>1, RoomFinite
  <2>3. IsFiniteSet(unused) /\ Cardinality(unused) <= Cardinality(DOMAIN ready)
    BY <2>1, <2>2, FS_Subset
  <2>4. Cardinality(unused) \in Nat
    BY <2>3, FS_CardinalityType
  <2>5. Cardinality(unused) <= ReadyLimit
    <3> HIDE DEF unused
    <3> QED BY <2>2, <2>3, <2>4, WaitingAssumption DEF WaitingInv, ReadyIsLimited
  <2> QED BY <2>5 DEF LimitsAreKept, TicketsAreLimited, WaitingInv
<1> QED BY <1>1, WaitingInvariance, PTL

\* The place of a waiter outlasts the retry it was asked for.
THEOREM PolitenessAlwaysPays == WaitingSpec => []PolitenessPays
<1>1. WaitingInv => PolitenessPays
  BY DEF WaitingInv, KeysAgree
<1> QED BY <1>1, WaitingInvariance, PTL

\* What takes a place from a waiter who polls in time.
LEMMA LosesPlace ==
  ASSUME WaitingInv, [WaitingNext]_waitingVars, NEW x \in DOMAIN queue \ DOMAIN queue',
         queue[x] > 0, live[x] > 0
  PROVE  x \in DOMAIN ready' \/ Over(items[x].sale)
<1>1. RoomTypeOK /\ PlacesHaveRecords
  BY DEF WaitingInv, KeysAgree
<1>2. ASSUME NEW gone \in Inactive
      PROVE  x \in DOMAIN Queue(gone)
  <2>1. LeftBy(gone)
    BY <1>1, Purged
  <2> QED BY <2>1 DEF LeftBy
<1>3. ASSUME NEW id \in Ids, NEW gone \in Inactive, Poll(id, gone)
      PROVE  x \in DOMAIN ready' \/ Over(items[x].sale)
  <2>1. x = id
    <3>1. queue' = Queue(gone) \/ queue' = Drop(Queue(gone), {id})
      BY <1>3 DEF Poll, OnlyPurges, AskAgain, SendHome, GiveTicket
    <3> QED BY <1>2, <3>1 DEF Drop
  <2>2. CASE GiveTicket(id, gone)
    BY <2>1, <2>2 DEF GiveTicket, Put
  <2>3. CASE Says(items[id].sale) = "SOLD_OUT"
    <3>1. /\ items[id].sale \in DOMAIN catalog
          /\ catalog[items[id].sale].state = "SOLD_OUT"
      BY <2>3 DEF Says
    <3>2. items[id].sale \in DOMAIN shelf
      BY <3>1 DEF WaitingInv, CatalogInv, KeysHaveSales, IsOrWas, Cleaning, NoneCleans
    <3> QED BY <2>1, <3>1, <3>2 DEF WaitingInv, CatalogInv, SoldOutIsFinal
  <2> QED BY <1>2, <1>3, <2>2, <2>3 DEF Poll, OnlyPurges, AskAgain
<1>4. ASSUME NEW id \in Ids, NEW gone \in Inactive, NEW s \in Sales, Join(id, s, gone)
      PROVE  FALSE
  <2>1. queue' = Queue(gone) \/ queue' = Put(Queue(gone), id, WaitFor)
    BY <1>4 DEF Join, OnlyPurges
  <2> QED BY <1>2, <2>1 DEF Put
<1>5. DOMAIN queue' = DOMAIN queue => FALSE
  OBVIOUS
<1>6. CASE \/ \E id \in Ids : Buy(id) \/ CompleteReady(id) \/ NeverCompletes(id)
           \/ UNCHANGED roomVars \/ UNCHANGED waitingVars \/ WaitingTick
  BY <1>5, <1>6 DEF Buy, CompleteReady, NeverCompletes, roomVars, waitingVars, WaitingTick
<1> QED BY <1>3, <1>4, <1>6 DEF WaitingNext

\* A waiter whose time is not over and who polls leaves with a ticket or because
\* nothing can come back: SOLD_OUT is final.
THEOREM DismissalIsFinal == WaitingSpec => DismissedForGood
<1>1. WaitingInv /\ [WaitingNext]_waitingVars =>
        [\A id \in DOMAIN queue \ DOMAIN queue' :
           queue[id] > 0 /\ live[id] > 0 =>
             id \in DOMAIN ready' \/ Over(items[id].sale)]_waitingVars
  BY LosesPlace
<1> QED BY <1>1, WaitingInvariance, PTL DEF WaitingSpec, DismissedForGood
=============================================================================
