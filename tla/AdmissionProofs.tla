--------------------------- MODULE AdmissionProofs ---------------------------
(***************************************************************************)
(* What the front door promises, for any number of buyers, calls, permits  *)
(* and units and any times: permits are kept, committed orders are         *)
(* answered, lapsed tickets buy nothing, and the negative cache refuses no *)
(* longer than it should.                                                  *)
(***************************************************************************)
EXTENDS Admission, FiniteSetTheorems, TLAPS

-----------------------------------------------------------------------------
(* The inductive invariant *)

CallRow == [step : Steps, buyer : Buyers \cup {Nobody}, claim : 0..TicketFor,
            token : Tokens \cup {Nobody}, left : 0..PermitFor,
            known : BOOLEAN, inTime : BOOLEAN, out : Outcomes]

\* The steps at which a call has the lock of its key, has found no order of its buyer,
\* and has the item's row.
WithKey == {"look", "stock", "decide", "remember", "commit"}
NoOrderFound == {"stock", "decide", "remember", "commit"}
WithStock == {"decide", "remember", "commit"}
WithToken(c) == Inside(c) \/ At(c, "leave")

\* What a call relies on at its step is so.
CallOK(c) ==
  /\ ~At(c, "idle") => Buyer(c) \in Buyers
  /\ call[c].step \in WithKey => keyLock[Buyer(c)] = c
  /\ call[c].step \in WithStock => stockLock = c
  /\ call[c].known => At(c, "replay") /\ Buyer(c) \in orders
  /\ call[c].step \in NoOrderFound => Buyer(c) \notin orders
  /\ At(c, "decide") /\ call[c].claim > 0 => call[c].inTime
  /\ At(c, "commit") => call[c].inTime /\ free > 0
  /\ At(c, "remember") => free = 0
  /\ Inside(c) /\ call[c].left > 0 =>
       call[c].token \in DOMAIN permits /\ permits[call[c].token] = call[c].left
CallsOK == \A c \in Calls : CallOK(c)

\* A token is one call's.
TokensDiffer ==
  \A c, d \in Calls : c # d /\ WithToken(c) /\ WithToken(d) => call[c].token # call[d].token

\* The gate counts no more than it may.
GateIsKept == Cardinality(DOMAIN Valid) <= Permits

\* While nothing is left the cache is rightly told so.
NoneIsNow == free = 0 => sinceCause = 0

StockOK == IsFiniteSet(holding) /\ NoneIsNow /\ StaleForAMoment

AdmissionInv ==
  /\ AdmissionTypeOK
  /\ CallsOK /\ TokensDiffer /\ GateIsKept
  /\ StockOK

-----------------------------------------------------------------------------
(* Calls *)

\* What a row has: TLA+ records by field.
LEMMA RowFields ==
  ASSUME NEW r \in CallRow
  PROVE  /\ r.step \in Steps /\ r.buyer \in Buyers \cup {Nobody} /\ r.claim \in Nat
         /\ r.token \in Tokens \cup {Nobody} /\ r.left \in Nat /\ r.known \in BOOLEAN
BY AdmissionAssumption DEF CallRow

\* A call that does not move keeps what it relies on, if the locks it has, the token it
\* has and what these protect are left alone.
LEMMA StaysOK ==
  ASSUME AdmissionTypeOK, NEW d \in Calls, CallOK(d), call'[d] = call[d],
         \A b \in Buyers : keyLock[b] = d => keyLock'[b] = d,
         stockLock = d => stockLock' = d /\ free' = free,
         orders \subseteq orders',
         Buyer(d) \in orders' \ orders => keyLock[Buyer(d)] # d,
         \A k \in DOMAIN permits : Inside(d) /\ k = call[d].token /\ permits[k] > 0 =>
           k \in DOMAIN permits' /\ permits'[k] = permits[k]
  PROVE  CallOK(d)'
<1>1. call[d] \in CallRow
  BY DEF AdmissionTypeOK, CallRow
<1> QED BY <1>1, RowFields DEF CallOK, At, Buyer, Inside, WithKey, NoOrderFound, WithStock

\* One call moves, others stay.
Moves(c) == call' = [call EXCEPT ![c] = call'[c]] /\ call'[c] \in CallRow

\* What the others rely on is what the mover must leave alone.
LEMMA MoveKeeps ==
  ASSUME AdmissionInv, NEW c \in Calls, Moves(c), CallOK(c)',
         \A b \in Buyers : keyLock[b] \notin {c, Nobody} => keyLock'[b] = keyLock[b],
         stockLock \notin {c, Nobody} => stockLock' = stockLock /\ free' = free,
         orders \subseteq orders' /\ orders' \subseteq orders \cup {Buyer(c)},
         orders' # orders => keyLock[Buyer(c)] = c,
         \A k \in DOMAIN permits : permits[k] > 0 /\ ~(WithToken(c) /\ k = call[c].token) =>
           k \in DOMAIN permits' /\ permits'[k] = permits[k],
         WithToken(c)' => \/ WithToken(c) /\ call'[c].token = call[c].token
                          \/ NewToken(call'[c].token)
  PROVE  call' \in [Calls -> CallRow] /\ CallsOK' /\ TokensDiffer'
<1>1. /\ call \in [Calls -> CallRow] /\ AdmissionTypeOK /\ TokensDiffer
      /\ \A d \in Calls : CallOK(d)
  BY DEF AdmissionInv, AdmissionTypeOK, CallRow, CallsOK
<1>2. /\ call' \in [Calls -> CallRow] /\ \A d \in Calls : d # c => call'[d] = call[d]
  BY <1>1 DEF Moves
<1>3. ASSUME NEW d \in Calls, d # c
      PROVE  CallOK(d)'
  <2>1. /\ CallOK(d) /\ call'[d] = call[d] /\ d # Nobody
    BY <1>1, <1>2, <1>3, AdmissionAssumption
  <2>2. \A b \in Buyers : keyLock[b] = d => keyLock'[b] = d
    BY <1>3, <2>1
  <2>3. stockLock = d => stockLock' = d /\ free' = free
    BY <1>3, <2>1
  <2>4. Buyer(d) \in orders' \ orders => keyLock[Buyer(d)] # d
    BY <1>3
  <2>5. \A k \in DOMAIN permits : Inside(d) /\ k = call[d].token /\ permits[k] > 0 =>
          k \in DOMAIN permits' /\ permits'[k] = permits[k]
    BY <1>1, <1>3 DEF TokensDiffer, WithToken
  <2> QED BY <1>1, <2>1, <2>2, <2>3, <2>4, <2>5, StaysOK
<1>4. CallsOK'
  <2>1. \A d \in Calls : CallOK(d)'
    BY <1>3
  <2> QED BY <2>1 DEF CallsOK
<1>5. TokensDiffer'
  <2>1. ASSUME NEW d \in Calls, d # c, WithToken(c)', WithToken(d)'
        PROVE  call'[c].token # call'[d].token
    <3>1. call'[d] = call[d] /\ WithToken(d)
      BY <1>2, <2>1 DEF WithToken, Inside, At
    <3> QED BY <1>1, <2>1, <3>1 DEF TokensDiffer, NewToken
  <2>2. ASSUME NEW d \in Calls, NEW e \in Calls, d # c, e # c, d # e, WithToken(d)', WithToken(e)'
        PROVE  call'[d].token # call'[e].token
    <3>1. call'[d] = call[d] /\ call'[e] = call[e] /\ WithToken(d) /\ WithToken(e)
      BY <1>2, <2>2 DEF WithToken, Inside, At
    <3> QED BY <1>1, <2>2, <3>1 DEF TokensDiffer
  <2> QED BY <2>1, <2>2 DEF TokensDiffer
<1> QED BY <1>2, <1>4, <1>5

\* A call that ends relies on nothing.
LEMMA EndsOK ==
  ASSUME AdmissionTypeOK, NEW c \in Calls, NEW out \in Outcomes, Ends(c, out)
  PROVE  Moves(c) /\ CallOK(c)' /\ At(c, "idle")' /\ ~WithToken(c)' /\ call'[c].out = out
<1>1. call \in [Calls -> CallRow]
  BY DEF AdmissionTypeOK, CallRow
<1>2. call'[c] = [Idle EXCEPT !.out = out] /\ call' = [call EXCEPT ![c] = call'[c]]
  BY <1>1 DEF Ends
<1>3. /\ call'[c].step = "idle" /\ call'[c].known = FALSE /\ call'[c].out = out
      /\ call'[c] \in CallRow
  <2>1. /\ Idle \in CallRow /\ Idle.step = "idle" /\ Idle.known = FALSE
    BY AdmissionAssumption DEF Idle, CallRow, Steps, Outcomes
  <2> QED BY <1>2, <2>1 DEF CallRow
<1> QED BY <1>2, <1>3 DEF Moves, CallOK, WithToken, At, Inside, WithKey, NoOrderFound, WithStock

\* A call that goes on takes along what it carries.
LEMMA GoesAs ==
  ASSUME AdmissionTypeOK, NEW c \in Calls, NEW step \in Steps, Goes(c, step)
  PROVE  /\ Moves(c) /\ call'[c].step = step
         /\ call'[c].buyer = call[c].buyer /\ call'[c].claim = call[c].claim
         /\ call'[c].token = call[c].token /\ call'[c].left = call[c].left
         /\ call'[c].known = call[c].known /\ call'[c].inTime = call[c].inTime
         /\ call'[c].out = call[c].out
<1>1. call \in [Calls -> CallRow] /\ call[c] \in CallRow
  BY DEF AdmissionTypeOK, CallRow
<1>2. call'[c] = [call[c] EXCEPT !.step = step] /\ call' = [call EXCEPT ![c] = call'[c]]
  BY <1>1 DEF Goes
<1> QED BY <1>1, <1>2 DEF Moves, CallRow

\* A call that leaves its transaction keeps its token only.
LEMMA LeavesOK ==
  ASSUME AdmissionTypeOK, NEW c \in Calls, CallOK(c), ~At(c, "idle"), ~call[c].known,
         NEW out \in Outcomes, Leaves(c, out)
  PROVE  /\ Moves(c) /\ CallOK(c)' /\ WithToken(c)' /\ call'[c].token = call[c].token
         /\ call'[c].out = out
         /\ \A b \in Buyers : keyLock[b] \notin {c, Nobody} => keyLock'[b] = keyLock[b]
         /\ stockLock \notin {c, Nobody} => stockLock' = stockLock
         /\ keyLock' \in [Buyers -> Calls \cup {Nobody}] /\ stockLock' \in Calls \cup {Nobody}
<1>1. call \in [Calls -> CallRow] /\ call[c] \in CallRow
  BY DEF AdmissionTypeOK, CallRow
<1>2. /\ call'[c] = [call[c] EXCEPT !.step = "leave", !.out = out]
      /\ call' = [call EXCEPT ![c] = call'[c]]
  BY <1>1 DEF Leaves
<1>3. /\ call'[c].step = "leave" /\ call'[c].buyer = call[c].buyer /\ call'[c].token = call[c].token
      /\ call'[c].known = call[c].known /\ call'[c].out = out /\ call'[c] \in CallRow
  BY <1>1, <1>2 DEF CallRow, Steps
<1>4. CallOK(c)' /\ WithToken(c)'
  BY <1>3 DEF CallOK, WithToken, At, Buyer, Inside, WithKey, NoOrderFound, WithStock
<1> QED BY <1>2, <1>3, <1>4 DEF Moves, Leaves, Unlock, AdmissionTypeOK

-----------------------------------------------------------------------------
(* The steps of a call *)

\* The types of all but the calls.
RestTypeOK ==
  /\ ticket \in [Buyers -> 0..TicketFor]
  /\ DOMAIN permits \subseteq Tokens /\ \A k \in DOMAIN permits : permits[k] \in 0..PermitFor
  /\ gap \in 0..RateGap /\ empty \in 0..EmptyFor /\ late \in 0..LateSets
  /\ holding \subseteq orders /\ orders \subseteq Buyers
  /\ free \in 0..Units /\ free + Cardinality(holding) <= Units
  /\ keyLock \in [Buyers -> Calls \cup {Nobody}]
  /\ stockLock \in Calls \cup {Nobody}
  /\ sinceCause \in 0..EmptyFor

\* The two together are the type invariant.
LEMMA TypeParts ==
  /\ AdmissionTypeOK <=> (call \in [Calls -> CallRow] /\ RestTypeOK)
  /\ AdmissionTypeOK' <=> (call' \in [Calls -> CallRow] /\ RestTypeOK')
BY DEF AdmissionTypeOK, RestTypeOK, CallRow

\* The invariant, with its parts at hand.
LEMMA Parts ==
  ASSUME AdmissionInv, NEW c \in Calls
  PROVE  /\ AdmissionTypeOK /\ RestTypeOK /\ CallOK(c) /\ TokensDiffer /\ GateIsKept /\ StockOK
         /\ call \in [Calls -> CallRow] /\ call[c] \in CallRow
BY TypeParts DEF AdmissionInv, CallsOK

\* A permit that nobody touches is kept.
LEMMA SamePermits ==
  ASSUME GateIsKept, UNCHANGED permits
  PROVE  GateIsKept'
BY DEF GateIsKept, Valid, LapsedPermits

\* A call arrives with the ticket that its buyer has.
LEMMA ArriveKeeps ==
  ASSUME AdmissionInv, NEW c \in Calls, NEW b \in Buyers, Arrive(c, b)
  PROVE  AdmissionInv'
<1>0. /\ AdmissionTypeOK /\ RestTypeOK /\ GateIsKept /\ StockOK
      /\ call \in [Calls -> CallRow]
  BY Parts
<1>1. /\ At(c, "idle") /\ UNCHANGED <<ticket, gateVars, cacheVars, stockVars, lockVars, sinceCause>>
      /\ call' = [call EXCEPT ![c] = call'[c]]
      /\ call'[c] = [Idle EXCEPT !.step = "replay", !.buyer = b,
                                 !.claim = ticket[b], !.known = b \in orders]
  BY <1>0 DEF Arrive
<1>2. /\ call'[c].step = "replay" /\ call'[c].buyer = b /\ call'[c] \in CallRow
      /\ call'[c].known = (b \in orders)
  <2>1. /\ Idle \in CallRow /\ ticket[b] \in 0..TicketFor /\ (b \in orders) \in BOOLEAN
    BY <1>0, AdmissionAssumption DEF Idle, CallRow, Steps, Outcomes, RestTypeOK
  <2> QED BY <1>1, <2>1 DEF CallRow, Steps
<1>3. /\ CallOK(c)' /\ ~WithToken(c)' /\ Moves(c)
  BY <1>1, <1>2 DEF CallOK, WithToken, Moves, At, Buyer, Inside, WithKey, NoOrderFound, WithStock,
     stockVars
<1>4. call' \in [Calls -> CallRow] /\ CallsOK' /\ TokensDiffer'
  BY <1>1, <1>3, MoveKeeps DEF gateVars, stockVars, lockVars
<1>5. RestTypeOK' /\ GateIsKept' /\ StockOK'
  BY <1>0, <1>1, SamePermits
     DEF RestTypeOK, gateVars, cacheVars, stockVars, lockVars, StockOK, NoneIsNow, StaleForAMoment
<1> QED BY <1>4, <1>5, TypeParts DEF AdmissionInv

\* Steps that change the calls only.
LEMMA OnlyMoves ==
  ASSUME AdmissionInv, NEW c \in Calls, Moves(c), CallOK(c)',
         WithToken(c)' => WithToken(c) /\ call'[c].token = call[c].token,
         UNCHANGED <<ticket, gateVars, cacheVars, stockVars, sinceCause>>,
         \A b \in Buyers : keyLock[b] \notin {c, Nobody} => keyLock'[b] = keyLock[b],
         stockLock \notin {c, Nobody} => stockLock' = stockLock,
         keyLock' \in [Buyers -> Calls \cup {Nobody}], stockLock' \in Calls \cup {Nobody}
  PROVE  AdmissionInv'
<1>1. RestTypeOK /\ GateIsKept /\ StockOK
  BY Parts
<1>2. call' \in [Calls -> CallRow] /\ CallsOK' /\ TokensDiffer'
  BY MoveKeeps DEF gateVars, stockVars
<1>3. RestTypeOK' /\ GateIsKept' /\ StockOK'
  BY <1>1, SamePermits
     DEF RestTypeOK, gateVars, cacheVars, stockVars, StockOK, NoneIsNow, StaleForAMoment
<1> QED BY <1>2, <1>3, TypeParts DEF AdmissionInv

\* A call that finds no order goes on with no order known.
LEMMA ReplayKeeps ==
  ASSUME AdmissionInv, NEW c \in Calls, Replay(c) \/ RequireFresh(c)
  PROVE  AdmissionInv'
<1>0. AdmissionTypeOK /\ RestTypeOK /\ CallOK(c) /\ call[c] \in CallRow
  BY Parts
<1>1. /\ UNCHANGED <<ticket, gateVars, cacheVars, stockVars, sinceCause>> /\ UNCHANGED lockVars
      /\ keyLock' \in [Buyers -> Calls \cup {Nobody}] /\ stockLock' \in Calls \cup {Nobody}
  BY <1>0 DEF Replay, RequireFresh, lockVars, RestTypeOK
<1>2. ASSUME NEW out \in Outcomes, Ends(c, out)
      PROVE  AdmissionInv'
  BY <1>0, <1>1, <1>2, EndsOK, OnlyMoves DEF lockVars
<1>3. ASSUME NEW step \in {"fresh", "enter"}, Goes(c, step), ~call[c].known, ~At(c, "idle")
      PROVE  AdmissionInv'
  <2>1. step \in Steps
    BY DEF Steps
  <2>2. /\ Moves(c) /\ call'[c].step = step /\ call'[c].buyer = call[c].buyer
        /\ call'[c].known = call[c].known
    BY <1>0, <1>3, <2>1, GoesAs
  <2>3. CallOK(c)' /\ ~WithToken(c)'
    BY <1>0, <1>3, <2>2 DEF CallOK, WithToken, At, Buyer, Inside, WithKey, NoOrderFound, WithStock
  <2> QED BY <1>1, <2>2, <2>3, OnlyMoves DEF lockVars
<1>4. {"order", "refused"} \subseteq Outcomes
  BY DEF Outcomes
<1>5. CASE Replay(c)
  <2>1. ~At(c, "idle") /\ (~Kept(c) => ~call[c].known)
    BY <1>0, <1>5, RowFields DEF Replay, CallOK, Kept, At
  <2> QED BY <1>2, <1>3, <1>4, <1>5, <2>1 DEF Replay
<1>6. CASE RequireFresh(c)
  <2>1. ~At(c, "idle") /\ ~call[c].known
    BY <1>0, <1>6, RowFields DEF RequireFresh, CallOK, At
  <2> QED BY <1>2, <1>3, <1>4, <1>6, <2>1 DEF RequireFresh
<1> QED BY <1>5, <1>6

\* A call that takes a lock has it.
LEMMA LockKeeps ==
  ASSUME AdmissionInv, NEW c \in Calls, LockKey(c) \/ LockStock(c)
  PROVE  AdmissionInv'
<1>0. AdmissionTypeOK /\ RestTypeOK /\ CallOK(c) /\ call[c] \in CallRow /\ call \in [Calls -> CallRow]
  BY Parts
<1>1. UNCHANGED <<ticket, gateVars, cacheVars, stockVars, sinceCause>>
  BY DEF LockKey, LockStock
<1>2. CASE LockKey(c)
  <2>1. /\ At(c, "key") /\ keyLock[Buyer(c)] = Nobody /\ Goes(c, "look") /\ stockLock' = stockLock
        /\ keyLock' = [keyLock EXCEPT ![Buyer(c)] = c] /\ Buyer(c) \in Buyers
    BY <1>0, <1>2 DEF LockKey, CallOK, At
  <2>2. /\ Moves(c) /\ call'[c].step = "look" /\ call'[c].buyer = call[c].buyer
        /\ call'[c].token = call[c].token /\ call'[c].left = call[c].left
        /\ call'[c].known = call[c].known
    BY <1>0, <2>1, GoesAs DEF Steps
  <2>3. keyLock'[Buyer(c)] = c /\ Buyer(c)' = Buyer(c) /\ permits' = permits
    BY <1>0, <1>1, <2>1, <2>2 DEF Buyer, RestTypeOK, gateVars
  <2>4. CallOK(c)'
    BY <1>0, <2>1, <2>2, <2>3 DEF CallOK, At, Inside, WithKey, NoOrderFound, WithStock
  <2>5. WithToken(c)
    BY <2>1 DEF WithToken, Inside, At
  <2>6. /\ \A b \in Buyers : keyLock[b] \notin {c, Nobody} => keyLock'[b] = keyLock[b]
        /\ keyLock' \in [Buyers -> Calls \cup {Nobody}] /\ stockLock' \in Calls \cup {Nobody}
    BY <1>0, <2>1 DEF RestTypeOK
  <2> QED BY <1>1, <2>1, <2>2, <2>4, <2>5, <2>6, OnlyMoves
<1>3. CASE LockStock(c)
  <2>1. /\ At(c, "stock") /\ stockLock = Nobody /\ stockLock' = c /\ keyLock' = keyLock
        /\ call' = [call EXCEPT ![c].step = "decide", ![c].inTime = call[c].claim > 0]
    BY <1>3 DEF LockStock
  <2>2. call'[c] = [call[c] EXCEPT !.step = "decide", !.inTime = call[c].claim > 0]
    BY <1>0, <2>1
  <2>3. /\ call'[c].step = "decide" /\ call'[c].inTime = (call[c].claim > 0)
        /\ call'[c].buyer = call[c].buyer /\ call'[c].claim = call[c].claim
        /\ call'[c].token = call[c].token /\ call'[c].left = call[c].left
        /\ call'[c].known = call[c].known /\ call'[c] \in CallRow
    <3>1. (call[c].claim > 0) \in BOOLEAN
      BY <1>0, RowFields
    <3>2. call[c] \in CallRow
      BY <1>0
    <3>3. "decide" \in Steps
      BY DEF Steps
    <3>4. call'[c] \in CallRow
      BY <2>2, <3>1, <3>2, <3>3 DEF CallRow
    <3>5. /\ call'[c].step = "decide" /\ call'[c].inTime = (call[c].claim > 0)
          /\ call'[c].buyer = call[c].buyer /\ call'[c].claim = call[c].claim
          /\ call'[c].token = call[c].token /\ call'[c].left = call[c].left
          /\ call'[c].known = call[c].known
      BY <2>2, <3>2 DEF CallRow
    <3> QED BY <3>4, <3>5
  <2>4. Moves(c)
    BY <1>0, <2>1, <2>3 DEF Moves
  <2>5. CallOK(c)'
    <3>1. call'[c].claim > 0 => call'[c].inTime
      BY <2>3
    <3>2. call'[c].step = "decide" /\ call[c].step = "stock" /\ stockLock' = c
      BY <2>1, <2>3 DEF At
    <3>3. ~call'[c].known /\ Buyer(c)' = Buyer(c) /\ Buyer(c) \in Buyers
          /\ keyLock'[Buyer(c)] = c /\ Buyer(c) \notin orders'
      BY <1>0, <1>1, <2>1, <2>3, <3>2, RowFields
         DEF CallOK, At, Buyer, WithKey, NoOrderFound, stockVars
    <3>4. call'[c].left > 0 => call'[c].token \in DOMAIN permits' /\ permits'[call'[c].token] = call'[c].left
      BY <1>0, <1>1, <2>3, <3>2 DEF CallOK, Inside, gateVars
    <3> QED BY <3>1, <3>2, <3>3, <3>4 DEF CallOK, At, Inside, WithKey, NoOrderFound, WithStock
  <2>6. WithToken(c)
    BY <2>1 DEF WithToken, Inside, At
  <2>7. /\ keyLock' \in [Buyers -> Calls \cup {Nobody}] /\ stockLock' \in Calls \cup {Nobody}
    BY <1>0, <2>1 DEF RestTypeOK
  <2> QED BY <1>1, <2>1, <2>3, <2>4, <2>5, <2>6, <2>7, OnlyMoves
<1> QED BY <1>2, <1>3

\* A transaction that ends writes nothing here.
LEMMA LeavingKeeps ==
  ASSUME AdmissionInv, NEW c \in Calls, NEW out \in Outcomes, Leaves(c, out), Inside(c),
         UNCHANGED <<ticket, gateVars, cacheVars, stockVars, sinceCause>>
  PROVE  AdmissionInv'
<1>1. ~At(c, "idle") /\ ~call[c].known /\ WithToken(c) /\ AdmissionTypeOK /\ CallOK(c)
  BY Parts, RowFields DEF CallOK, Inside, At, WithToken
<1> QED BY <1>1, LeavesOK, OnlyMoves

\* What a transaction may do next once it has what it needs.
LEMMA GoingOnKeeps ==
  ASSUME AdmissionInv, NEW c \in Calls, NEW step \in NoOrderFound, Goes(c, step), Inside(c),
         UNCHANGED <<ticket, gateVars, cacheVars, stockVars, lockVars, sinceCause>>,
         keyLock[Buyer(c)] = c, Buyer(c) \notin orders,
         step # "stock" => stockLock = c,
         step # "decide",
         step = "commit" => call[c].inTime /\ free > 0,
         step = "remember" => free = 0
  PROVE  AdmissionInv'
<1>0. /\ AdmissionTypeOK /\ RestTypeOK /\ CallOK(c) /\ call[c] \in CallRow /\ step \in Steps
      /\ call[c].known \in BOOLEAN
  BY Parts, RowFields DEF NoOrderFound, Steps
<1>1. /\ Moves(c) /\ call'[c].step = step
      /\ call'[c].buyer = call[c].buyer /\ call'[c].token = call[c].token
      /\ call'[c].left = call[c].left /\ call'[c].known = call[c].known
      /\ call'[c].inTime = call[c].inTime
  BY <1>0, GoesAs
<1>2. WithToken(c) /\ ~call[c].known /\ Buyer(c) \in Buyers
  BY <1>0 DEF CallOK, WithToken, Inside, At
<1>3. Buyer(c)' = Buyer(c) /\ UNCHANGED <<permits, free, orders, keyLock, stockLock>>
  BY <1>1 DEF Buyer, gateVars, stockVars, lockVars
<1>4. CallOK(c)'
  BY <1>0, <1>1, <1>2, <1>3 DEF CallOK, At, Inside, WithKey, NoOrderFound, WithStock
<1>5. keyLock' \in [Buyers -> Calls \cup {Nobody}] /\ stockLock' \in Calls \cup {Nobody}
  BY <1>0, <1>3 DEF RestTypeOK
<1> QED BY <1>1, <1>2, <1>3, <1>4, <1>5, OnlyMoves

\* The order is looked up under the key's lock; the stock is decided on under its own.
LEMMA DecidingKeeps ==
  ASSUME AdmissionInv, NEW c \in Calls, Look(c) \/ Decide(c) \/ Fails(c)
  PROVE  AdmissionInv'
<1>0. RestTypeOK /\ CallOK(c) /\ call[c] \in CallRow
  BY Parts
<1>1. UNCHANGED <<ticket, gateVars, cacheVars, stockVars, sinceCause>> /\ Inside(c)
  BY DEF Look, Decide, Fails, At, Inside
<1>2. ASSUME NEW out \in {"order", "refused", "failed"}, Leaves(c, out)
      PROVE  AdmissionInv'
  BY <1>1, <1>2, LeavingKeeps DEF Outcomes
<1>3. CASE Look(c) /\ ~Found(c) /\ Goes(c, "stock") /\ UNCHANGED lockVars
  <2>1. keyLock[Buyer(c)] = c /\ Buyer(c) \notin orders
    BY <1>0, <1>3 DEF Look, CallOK, At, WithKey, Found
  <2> QED BY <1>1, <1>3, <2>1, GoingOnKeeps DEF NoOrderFound
<1>4. ASSUME At(c, "decide"), ~Expired(c), NEW step \in {"remember", "commit"}, Goes(c, step),
             step = "commit" => Enough, step = "remember" => ~Enough, UNCHANGED lockVars
      PROVE  AdmissionInv'
  <2>1. /\ keyLock[Buyer(c)] = c /\ Buyer(c) \notin orders /\ stockLock = c
        /\ call[c].claim > 0 => call[c].inTime
    BY <1>0, <1>4 DEF CallOK, At, WithKey, NoOrderFound, WithStock
  <2>2. call[c].inTime
    BY <1>0, <1>4, <2>1, RowFields DEF Expired
  <2>3. step = "commit" => free > 0
    BY <1>4 DEF Enough
  <2>4. step = "remember" => free = 0
    BY <1>0, <1>4 DEF Enough, RestTypeOK
  <2> QED BY <1>1, <1>4, <2>1, <2>2, <2>3, <2>4, GoingOnKeeps DEF NoOrderFound
<1>5. CASE Decide(c)
  BY <1>2, <1>4, <1>5 DEF Decide, LockedBy, lockVars
<1> QED BY <1>2, <1>3, <1>5 DEF Look, Fails

\* The cache is told of a stock that is still empty, as its row is still locked.
LEMMA RememberKeeps ==
  ASSUME AdmissionInv, NEW c \in Calls, Remember(c)
  PROVE  AdmissionInv'
<1>0. AdmissionTypeOK /\ RestTypeOK /\ CallOK(c) /\ call[c] \in CallRow /\ StockOK /\ GateIsKept
  BY Parts
<1>1. /\ At(c, "remember") /\ Leaves(c, "refused")
      /\ UNCHANGED <<ticket, gateVars, stockVars, sinceCause>>
      /\ \/ empty' = EmptyFor /\ UNCHANGED late
         \/ late < LateSets /\ late' = late + 1 /\ UNCHANGED empty
         \/ UNCHANGED cacheVars
  BY DEF Remember
<1>2. WithToken(c) /\ ~At(c, "idle") /\ ~call[c].known /\ free = 0
  BY <1>0, <1>1, RowFields DEF CallOK, WithToken, Inside, At
<1>3. sinceCause = 0
  BY <1>0, <1>2 DEF StockOK, NoneIsNow
<1>4. /\ Moves(c) /\ CallOK(c)' /\ WithToken(c)' /\ call'[c].token = call[c].token
      /\ \A b \in Buyers : keyLock[b] \notin {c, Nobody} => keyLock'[b] = keyLock[b]
      /\ stockLock \notin {c, Nobody} => stockLock' = stockLock
      /\ keyLock' \in [Buyers -> Calls \cup {Nobody}] /\ stockLock' \in Calls \cup {Nobody}
  BY <1>0, <1>1, <1>2, LeavesOK DEF Outcomes
<1>5. call' \in [Calls -> CallRow] /\ CallsOK' /\ TokensDiffer'
  BY <1>1, <1>2, <1>4, MoveKeeps DEF gateVars, stockVars
<1>6. EmptyFor \in Nat
  BY AdmissionAssumption
<1>7. empty' \in 0..EmptyFor /\ late' \in 0..LateSets /\ sinceCause' = 0 /\ sinceCause' \in Nat
  <2>1. empty' \in 0..EmptyFor
    BY <1>0, <1>1, <1>6 DEF RestTypeOK, cacheVars
  <2>2. late' \in 0..LateSets
    BY <1>0, <1>1, AdmissionAssumption DEF RestTypeOK, cacheVars
  <2> QED BY <1>1, <1>3, <2>1, <2>2
<1>8. RestTypeOK'
  BY <1>0, <1>1, <1>4, <1>7 DEF RestTypeOK, gateVars, stockVars
<1>9. GateIsKept' /\ StockOK'
  <2>1. GateIsKept' /\ IsFiniteSet(holding')
    BY <1>0, <1>1, SamePermits DEF StockOK, gateVars, stockVars
  <2>2. \A n, e \in Int : n = 0 /\ e <= EmptyFor => n + e <= EmptyFor
    BY <1>6
  <2>3. StaleForAMoment'
    <3>1. empty' \in Int /\ empty' <= EmptyFor /\ sinceCause' \in Int
      BY <1>6, <1>7
    <3> QED BY <1>7, <2>2, <3>1, Zenon DEF StaleForAMoment
  <2> QED BY <1>7, <2>1, <2>3 DEF StockOK, NoneIsNow
<1> QED BY <1>5, <1>8, <1>9, TypeParts DEF AdmissionInv

\* An order takes a unit that is there, under both locks.
LEMMA CommitKeeps ==
  ASSUME AdmissionInv, NEW c \in Calls, Commit(c)
  PROVE  AdmissionInv'
<1>0. AdmissionTypeOK /\ RestTypeOK /\ CallOK(c) /\ call[c] \in CallRow /\ StockOK /\ GateIsKept
  BY Parts
<1>1. /\ At(c, "commit") /\ Leaves(c, "order") /\ free' = free - 1
      /\ orders' = orders \cup {Buyer(c)} /\ holding' = holding \cup {Buyer(c)}
      /\ sinceCause' = IF free' = 0 THEN 0 ELSE sinceCause
      /\ UNCHANGED <<ticket, permits, gap, empty, late>>
  BY DEF Commit, gateVars, cacheVars
<1>2. /\ WithToken(c) /\ ~At(c, "idle") /\ ~call[c].known /\ free > 0
      /\ stockLock = c /\ keyLock[Buyer(c)] = c /\ Buyer(c) \in Buyers
  BY <1>0, <1>1, RowFields DEF CallOK, WithToken, Inside, At, WithKey, WithStock
<1>3. /\ Moves(c) /\ WithToken(c)' /\ call'[c].token = call[c].token
      /\ call'[c].step = "leave" /\ call'[c].known = call[c].known /\ Buyer(c)' = Buyer(c)
      /\ \A b \in Buyers : keyLock[b] \notin {c, Nobody} => keyLock'[b] = keyLock[b]
      /\ keyLock' \in [Buyers -> Calls \cup {Nobody}] /\ stockLock' \in Calls \cup {Nobody}
  <2>1. "order" \in Outcomes
    BY DEF Outcomes
  <2>2. call'[c] = [call[c] EXCEPT !.step = "leave", !.out = "order"]
    BY <1>0, <1>1 DEF Leaves, AdmissionTypeOK
  <2>3. call'[c].step = "leave" /\ call'[c].known = call[c].known /\ Buyer(c)' = Buyer(c)
    BY <1>0, <2>2 DEF CallRow, Buyer
  <2> QED BY <1>0, <1>1, <1>2, <2>1, <2>3, LeavesOK
<1>4. CallOK(c)'
  BY <1>2, <1>3 DEF CallOK, At, Inside, WithKey, NoOrderFound, WithStock
<1>5. call' \in [Calls -> CallRow] /\ CallsOK' /\ TokensDiffer'
  BY <1>1, <1>2, <1>3, <1>4, MoveKeeps, AdmissionAssumption
<1>6. IsFiniteSet(holding') /\ free' + Cardinality(holding') <= Units
  <2>1. IsFiniteSet(holding) /\ Cardinality(holding) \in Nat
    BY <1>0, FS_CardinalityType DEF StockOK
  <2>2. /\ IsFiniteSet(holding')
        /\ Cardinality(holding') = IF Buyer(c) \in holding THEN Cardinality(holding) ELSE Cardinality(holding) + 1
    BY <1>1, <2>1, FS_AddElement
  <2> QED BY <1>0, <1>1, <2>1, <2>2, AdmissionAssumption DEF RestTypeOK
<1>7. free' \in 0..Units /\ sinceCause' \in 0..EmptyFor /\ sinceCause' <= sinceCause
  BY <1>0, <1>1, <1>2, AdmissionAssumption DEF RestTypeOK
<1>8. RestTypeOK'
  BY <1>0, <1>1, <1>2, <1>3, <1>6, <1>7 DEF RestTypeOK
<1>9. StockOK'
  <2>1. NoneIsNow'
    BY <1>0, <1>1 DEF StockOK, NoneIsNow
  <2>2. StaleForAMoment'
    BY <1>0, <1>1, <1>7, AdmissionAssumption DEF StockOK, StaleForAMoment, RestTypeOK
  <2> QED BY <1>6, <2>1, <2>2 DEF StockOK
<1>10. GateIsKept'
  BY <1>0, <1>1, SamePermits
<1> QED BY <1>5, <1>8, <1>9, <1>10, TypeParts DEF AdmissionInv

-----------------------------------------------------------------------------
(* The gate *)

\* What is valid is of finitely many tokens.
LEMMA ValidTokens ==
  ASSUME RestTypeOK
  PROVE  /\ DOMAIN Valid \subseteq DOMAIN permits /\ DOMAIN Valid \subseteq Tokens
         /\ IsFiniteSet(DOMAIN Valid) /\ Cardinality(DOMAIN Valid) \in Nat
         /\ \A k \in DOMAIN permits : k \in DOMAIN Valid <=> permits[k] # 0
         /\ \A k \in DOMAIN Valid : Valid[k] = permits[k]
<1>1. /\ DOMAIN Valid = DOMAIN permits \ LapsedPermits
      /\ \A k \in DOMAIN Valid : Valid[k] = permits[k]
  BY DEF Valid
<1>2. DOMAIN Valid \subseteq Tokens
  BY <1>1 DEF RestTypeOK
<1>3. IsFiniteSet(DOMAIN Valid) /\ Cardinality(DOMAIN Valid) \in Nat
  BY <1>2, AdmissionAssumption, FS_Subset, FS_CardinalityType
<1> QED BY <1>1, <1>2, <1>3 DEF LapsedPermits

\* Permits that run out or are given back leave the gate as it may be.
LEMMA FewerPermits ==
  ASSUME RestTypeOK, GateIsKept, DOMAIN permits' \subseteq DOMAIN permits,
         \A k \in DOMAIN permits' : permits[k] = 0 => permits'[k] = 0
  PROVE  GateIsKept'
<1>1. DOMAIN Valid' = {k \in DOMAIN permits' : permits'[k] # 0}
  BY DEF Valid, LapsedPermits
<1>2. DOMAIN Valid' \subseteq DOMAIN Valid
  BY <1>1, ValidTokens
<1>3. /\ Cardinality(DOMAIN Valid') \in Nat /\ Cardinality(DOMAIN Valid) \in Nat
      /\ Cardinality(DOMAIN Valid') <= Cardinality(DOMAIN Valid)
  BY <1>2, ValidTokens, FS_Subset, FS_CardinalityType
<1> QED BY <1>3, AdmissionAssumption DEF GateIsKept

\* A permit is granted where there is room for one more.
LEMMA GrantKeeps ==
  ASSUME RestTypeOK, GateIsKept, NEW k \in Tokens, NewToken(k), CanEnter, Grant(k)
  PROVE  /\ GateIsKept' /\ gap' \in 0..RateGap
         /\ DOMAIN permits' \subseteq Tokens /\ \A x \in DOMAIN permits' : permits'[x] \in 0..PermitFor
         /\ k \in DOMAIN permits' /\ permits'[k] = PermitFor
         /\ \A x \in DOMAIN permits : permits[x] > 0 => x \in DOMAIN permits' /\ permits'[x] = permits[x]
<1>1. /\ DOMAIN permits' = DOMAIN Valid \cup {k} /\ permits'[k] = PermitFor /\ k \notin DOMAIN permits
      /\ \A x \in DOMAIN Valid : permits'[x] = permits[x]
  BY ValidTokens DEF Grant, NewToken
<1>2. /\ DOMAIN permits' \subseteq Tokens /\ \A x \in DOMAIN permits' : permits'[x] \in 0..PermitFor
  <2>1. PermitFor \in 0..PermitFor
    BY AdmissionAssumption
  <2> QED BY <1>1, <2>1, ValidTokens DEF RestTypeOK
<1>3. \A x \in DOMAIN permits : permits[x] > 0 => x \in DOMAIN permits' /\ permits'[x] = permits[x]
  BY <1>1, ValidTokens DEF RestTypeOK
<1>4. gap' \in 0..RateGap
  BY AdmissionAssumption DEF Grant
<1>5. GateIsKept'
  <2>1. DOMAIN Valid' \subseteq DOMAIN Valid \cup {k}
    BY <1>1 DEF Valid, LapsedPermits
  <2>2. /\ IsFiniteSet(DOMAIN Valid \cup {k})
        /\ Cardinality(DOMAIN Valid \cup {k}) = Cardinality(DOMAIN Valid) + 1
    BY <1>1, ValidTokens, FS_AddElement
  <2>3. /\ Cardinality(DOMAIN Valid') \in Nat /\ Cardinality(DOMAIN Valid) \in Nat
        /\ Cardinality(DOMAIN Valid') <= Cardinality(DOMAIN Valid) + 1
    BY <2>1, <2>2, ValidTokens, FS_Subset, FS_CardinalityType
  <2> QED BY <2>3, AdmissionAssumption DEF GateIsKept, CanEnter
<1> QED BY <1>1, <1>2, <1>3, <1>4, <1>5

\* A call enters with a permit of its own, or not at all.
LEMMA EnterKeeps ==
  ASSUME AdmissionInv, NEW c \in Calls, Enter(c)
  PROVE  AdmissionInv'
<1>0. /\ AdmissionTypeOK /\ RestTypeOK /\ CallOK(c) /\ call[c] \in CallRow /\ StockOK /\ GateIsKept
      /\ call \in [Calls -> CallRow] /\ call[c].known \in BOOLEAN
  BY Parts, RowFields
<1>1. /\ At(c, "enter") /\ UNCHANGED <<ticket, cacheVars, stockVars, lockVars, sinceCause>>
  BY DEF Enter
<1>2. ~WithToken(c) /\ ~call[c].known /\ Buyer(c) \in Buyers
  BY <1>0, <1>1 DEF CallOK, WithToken, Inside, At
<1>3. ASSUME Moves(c), CallOK(c)', WithToken(c)' => NewToken(call'[c].token), GateIsKept',
             gap' \in 0..RateGap, DOMAIN permits' \subseteq Tokens,
             \A x \in DOMAIN permits' : permits'[x] \in 0..PermitFor,
             \A x \in DOMAIN permits : permits[x] > 0 => x \in DOMAIN permits' /\ permits'[x] = permits[x]
      PROVE  AdmissionInv'
  <2>1. call' \in [Calls -> CallRow] /\ CallsOK' /\ TokensDiffer'
    BY <1>1, <1>3, MoveKeeps DEF stockVars, lockVars
  <2>2. RestTypeOK' /\ StockOK'
    BY <1>0, <1>1, <1>3
       DEF RestTypeOK, cacheVars, stockVars, lockVars, StockOK, NoneIsNow, StaleForAMoment
  <2> QED BY <1>3, <2>1, <2>2, TypeParts DEF AdmissionInv
<1>4. ASSUME Ends(c, "refused")
      PROVE  Moves(c) /\ CallOK(c)' /\ ~WithToken(c)'
  BY <1>0, <1>4, EndsOK DEF Outcomes
<1>5. CASE Busy(c)
  <2>1. gap' = gap /\ permits' = Valid /\ Ends(c, "refused")
    BY <1>5 DEF Busy
  <2>2. /\ DOMAIN permits' \subseteq DOMAIN permits /\ \A x \in DOMAIN permits' : permits'[x] = permits[x]
        /\ \A x \in DOMAIN permits : permits[x] > 0 => x \in DOMAIN permits'
    BY <1>0, <2>1, ValidTokens DEF RestTypeOK
  <2>3. GateIsKept'
    BY <1>0, <2>2, FewerPermits
  <2> QED BY <1>0, <1>3, <1>4, <2>1, <2>2, <2>3 DEF RestTypeOK
<1>6. ASSUME NEW k \in Tokens, NewToken(k), Admitted(c, k)
      PROVE  AdmissionInv'
  <2>1. /\ CanEnter /\ Grant(k)
        /\ call' = [call EXCEPT ![c].step = "key", ![c].token = k, ![c].left = PermitFor]
    BY <1>6 DEF Admitted
  <2>2. call'[c] = [call[c] EXCEPT !.step = "key", !.token = k, !.left = PermitFor]
    BY <1>0, <2>1
  <2>3. /\ call'[c].step = "key" /\ call'[c].token = k /\ call'[c].left = PermitFor
        /\ call'[c].buyer = call[c].buyer /\ call'[c].known = call[c].known /\ call'[c] \in CallRow
    <3>1. PermitFor \in 0..PermitFor
      BY AdmissionAssumption
    <3>2. call[c] \in CallRow
      BY <1>0
    <3>3. "key" \in Steps /\ k \in Tokens \cup {Nobody}
      BY DEF Steps
    <3>4. call'[c] \in CallRow
      BY <2>2, <3>1, <3>2, <3>3 DEF CallRow
    <3>5. /\ call'[c].step = "key" /\ call'[c].token = k /\ call'[c].left = PermitFor
          /\ call'[c].buyer = call[c].buyer /\ call'[c].known = call[c].known
      BY <2>2, <3>2 DEF CallRow
    <3> QED BY <3>4, <3>5
  <2>4. Moves(c)
    BY <1>0, <2>1, <2>3 DEF Moves
  <2>5. CallOK(c)'
    BY <1>0, <1>2, <1>6, <2>1, <2>3, GrantKeeps
       DEF CallOK, At, Buyer, Inside, WithKey, NoOrderFound, WithStock
  <2>6. NewToken(call'[c].token)
    BY <1>6, <2>3
  <2> QED BY <1>0, <1>3, <1>6, <2>1, <2>4, <2>5, <2>6, GrantKeeps
<1>7. ASSUME NEW k \in Tokens, NewToken(k), EnterUnanswered(c, k)
      PROVE  AdmissionInv'
  <2>1. CASE UNCHANGED gateVars
    BY <1>0, <1>3, <1>4, <1>7, <2>1, SamePermits DEF EnterUnanswered, gateVars, RestTypeOK
  <2>2. CASE CanEnter /\ Grant(k)
    BY <1>0, <1>3, <1>4, <1>7, <2>2, GrantKeeps DEF EnterUnanswered
  <2> QED BY <1>7, <2>1, <2>2 DEF EnterUnanswered
<1> QED BY <1>5, <1>6, <1>7 DEF Enter

\* The permit that a call gives back is its own.
LEMMA LeaveKeeps ==
  ASSUME AdmissionInv, NEW c \in Calls, Leave(c)
  PROVE  AdmissionInv'
<1>0. /\ AdmissionTypeOK /\ RestTypeOK /\ StockOK /\ GateIsKept /\ call[c] \in CallRow
  BY Parts
<1>1. /\ At(c, "leave") /\ Ends(c, call[c].out)
      /\ UNCHANGED <<ticket, gap, cacheVars, stockVars, lockVars, sinceCause>>
      /\ \/ permits' = [k \in DOMAIN permits \ {call[c].token} |-> permits[k]]
         \/ UNCHANGED permits
  BY DEF Leave
<1>2. WithToken(c) /\ call[c].out \in Outcomes
  BY <1>0, <1>1 DEF WithToken, CallRow
<1>3. Moves(c) /\ CallOK(c)' /\ ~WithToken(c)'
  BY <1>0, <1>1, <1>2, EndsOK
<1>4. /\ DOMAIN permits' \subseteq DOMAIN permits /\ \A k \in DOMAIN permits' : permits'[k] = permits[k]
      /\ \A k \in DOMAIN permits : k # call[c].token => k \in DOMAIN permits'
  BY <1>1
<1>5. call' \in [Calls -> CallRow] /\ CallsOK' /\ TokensDiffer'
  <2>1. \A k \in DOMAIN permits : permits[k] > 0 /\ ~(WithToken(c) /\ k = call[c].token) =>
          k \in DOMAIN permits' /\ permits'[k] = permits[k]
    BY <1>2, <1>4
  <2> QED BY <1>1, <1>3, <2>1, MoveKeeps DEF stockVars, lockVars
<1>6. GateIsKept'
  BY <1>0, <1>4, FewerPermits
<1>7. RestTypeOK' /\ StockOK'
  BY <1>0, <1>1, <1>4
     DEF RestTypeOK, cacheVars, stockVars, lockVars, StockOK, NoneIsNow, StaleForAMoment
<1> QED BY <1>5, <1>6, <1>7, TypeParts DEF AdmissionInv

\* The locks of a call that dies are free; its permit is not.
LEMMA DiesKeeps ==
  ASSUME AdmissionInv, NEW c \in Calls, Dies(c)
  PROVE  AdmissionInv'
<1>0. AdmissionTypeOK /\ RestTypeOK
  BY Parts
<1>1. Moves(c) /\ CallOK(c)' /\ ~WithToken(c)'
  BY <1>0, EndsOK DEF Dies, Outcomes
<1>2. /\ \A b \in Buyers : keyLock[b] \notin {c, Nobody} => keyLock'[b] = keyLock[b]
      /\ stockLock \notin {c, Nobody} => stockLock' = stockLock
      /\ keyLock' \in [Buyers -> Calls \cup {Nobody}] /\ stockLock' \in Calls \cup {Nobody}
  BY <1>0 DEF Dies, Unlock, RestTypeOK
<1> QED BY <1>1, <1>2, OnlyMoves DEF Dies

-----------------------------------------------------------------------------
(* The steps of others, and of time *)

\* What happens around the calls, which hold the item's row or do not depend on the stock.
LEMMA NoneMoves ==
  ASSUME AdmissionInv, UNCHANGED <<call, permits, keyLock, stockLock, orders>>,
         stockLock = Nobody \/ free' = free, RestTypeOK', StockOK'
  PROVE  AdmissionInv'
<1>0. AdmissionTypeOK /\ TokensDiffer /\ GateIsKept /\ (\A c \in Calls : CallOK(c))
      /\ call' \in [Calls -> CallRow]
  BY TypeParts DEF AdmissionInv, CallsOK
<1>1. ASSUME NEW c \in Calls
      PROVE  CallOK(c)'
  BY <1>0, AdmissionAssumption, StaysOK
<1>2. CallsOK'
  BY <1>1 DEF CallsOK
<1>3. TokensDiffer' /\ GateIsKept'
  BY <1>0, SamePermits DEF TokensDiffer, WithToken, Inside, At
<1> QED BY <1>0, <1>2, <1>3, TypeParts DEF AdmissionInv

\* A unit comes back while no purchase has the item's row.
LEMMA GiveBackKeeps ==
  ASSUME AdmissionInv, NEW b \in Buyers, GiveBack(b)
  PROVE  AdmissionInv'
<1>0. RestTypeOK /\ StockOK
  BY Parts DEF AdmissionInv, AdmissionTypeOK, RestTypeOK
<1>1. /\ b \in holding /\ stockLock = Nobody /\ free' = free + 1 /\ holding' = holding \ {b}
      /\ UNCHANGED <<ticket, call, permits, gap, empty, late, orders, keyLock, stockLock, sinceCause>>
  BY DEF GiveBack, gateVars, cacheVars, lockVars
<1>2. /\ IsFiniteSet(holding') /\ Cardinality(holding') = Cardinality(holding) - 1
      /\ Cardinality(holding) \in Nat /\ Cardinality(holding') \in Nat
  <2>1. IsFiniteSet(holding)
    BY <1>0 DEF StockOK
  <2> QED BY <1>1, <2>1, FS_RemoveElement, FS_CardinalityType
<1>3. RestTypeOK'
  <2>1. free' \in 0..Units /\ free' + Cardinality(holding') <= Units
    BY <1>0, <1>1, <1>2, AdmissionAssumption DEF RestTypeOK
  <2> QED BY <1>0, <1>1, <2>1 DEF RestTypeOK
<1>4. StockOK'
  <2>1. free' # 0
    BY <1>0, <1>1 DEF RestTypeOK
  <2> QED BY <1>0, <1>1, <1>2, <2>1 DEF StockOK, NoneIsNow, StaleForAMoment
<1> QED BY <1>1, <1>3, <1>4, NoneMoves

\* Another ticket is good for purchases to come.
LEMMA TicketAgainKeeps ==
  ASSUME AdmissionInv, NEW b \in Buyers, TicketAgain(b)
  PROVE  AdmissionInv'
<1>0. RestTypeOK /\ StockOK
  BY DEF AdmissionInv, AdmissionTypeOK, RestTypeOK
<1>1. /\ ticket' = [ticket EXCEPT ![b] = TicketFor]
      /\ UNCHANGED <<call, permits, gap, empty, late, free, orders, holding, keyLock, stockLock, sinceCause>>
  BY DEF TicketAgain, gateVars, cacheVars, stockVars, lockVars
<1>2. RestTypeOK' /\ StockOK'
  <2>1. TicketFor \in 0..TicketFor
    BY AdmissionAssumption
  <2> QED BY <1>0, <1>1, <2>1 DEF RestTypeOK, StockOK, NoneIsNow, StaleForAMoment
<1> QED BY <1>1, <1>2, NoneMoves

\* A command that comes late is one of those under way, whatever became of the stock.
LEMMA ArrivesKeeps ==
  ASSUME AdmissionInv, Arrives
  PROVE  AdmissionInv'
<1>0. RestTypeOK /\ StockOK
  BY DEF AdmissionInv, AdmissionTypeOK, RestTypeOK
<1>1. /\ late > 0 /\ late' = late - 1 /\ empty' = EmptyFor /\ sinceCause' = 0
      /\ UNCHANGED <<ticket, call, permits, gap, free, orders, holding, keyLock, stockLock>>
  BY DEF Arrives, gateVars, stockVars, lockVars
<1>2. empty' \in 0..EmptyFor /\ sinceCause' \in 0..EmptyFor /\ late' \in 0..LateSets
  BY <1>0, <1>1, AdmissionAssumption DEF RestTypeOK
<1>3. RestTypeOK'
  BY <1>0, <1>1, <1>2 DEF RestTypeOK
<1>4. StockOK'
  <2>1. 0 + EmptyFor <= EmptyFor
    BY AdmissionAssumption
  <2>2. StaleForAMoment'
    BY <1>1, <1>2, <2>1, Zenon DEF StaleForAMoment
  <2> QED BY <1>0, <1>1, <1>2, <2>2 DEF StockOK, NoneIsNow
<1> QED BY <1>1, <1>3, <1>4, NoneMoves

\* What is left after a tick.
LEMMA Lessens ==
  ASSUME NEW m \in Nat, NEW n \in 0..m
  PROVE  /\ Minus(n) \in 0..m /\ Minus(n) <= n /\ (n = 0 => Minus(n) = 0)
         /\ Minus(n) > 0 => n > 0 /\ Minus(n) = n - 1
BY DEF Minus

\* Time passes alike for a call, for its permit and for the cache.
LEMMA TickKeeps ==
  ASSUME AdmissionInv, AdmissionTick
  PROVE  AdmissionInv'
<1>0. /\ AdmissionTypeOK /\ RestTypeOK /\ StockOK /\ GateIsKept /\ TokensDiffer
      /\ call \in [Calls -> CallRow] /\ \A c \in Calls : CallOK(c)
      /\ {TicketFor, PermitFor, RateGap, EmptyFor} \subseteq Nat
  BY TypeParts, AdmissionAssumption DEF AdmissionInv, CallsOK
<1>1. /\ ticket' = [b \in Buyers |-> Minus(ticket[b])]
      /\ permits' = [k \in DOMAIN permits |-> Minus(permits[k])]
      /\ gap' = Minus(gap) /\ empty' = Minus(empty) /\ late' = late
      /\ sinceCause' = IF free = 0 THEN 0
                      ELSE IF sinceCause < EmptyFor THEN sinceCause + 1 ELSE EmptyFor
      /\ UNCHANGED <<free, orders, holding, keyLock, stockLock>>
  BY DEF AdmissionTick, stockVars, lockVars
<1> DEFINE Row(c) == [call[c] EXCEPT !.claim = Minus(@), !.left = Minus(@)]
<1>a. call' = [c \in Calls |-> Row(c)]
  BY DEF AdmissionTick
<1> HIDE DEF Row
<1>2. ASSUME NEW c \in Calls
      PROVE  /\ call'[c].step = call[c].step /\ call'[c].buyer = call[c].buyer
             /\ call'[c].token = call[c].token /\ call'[c].known = call[c].known
             /\ call'[c].inTime = call[c].inTime /\ call'[c] \in CallRow
             /\ call'[c].claim = Minus(call[c].claim) /\ call'[c].left = Minus(call[c].left)
             /\ call'[c].claim > 0 => call[c].claim > 0
             /\ call'[c].left > 0 => call[c].left > 0
  <2>1. call[c] \in CallRow /\ call'[c] = [call[c] EXCEPT !.claim = Minus(@), !.left = Minus(@)]
    BY <1>0, <1>a DEF Row
  <2>2. call[c].claim \in 0..TicketFor /\ call[c].left \in 0..PermitFor
    BY <2>1 DEF CallRow
  <2>3. Minus(call[c].claim) \in 0..TicketFor /\ Minus(call[c].left) \in 0..PermitFor
    BY <1>0, <2>2, Lessens
  <2>4. /\ call'[c].claim = Minus(call[c].claim) /\ call'[c].left = Minus(call[c].left)
        /\ call'[c].step = call[c].step /\ call'[c].buyer = call[c].buyer
        /\ call'[c].token = call[c].token /\ call'[c].known = call[c].known
        /\ call'[c].inTime = call[c].inTime /\ call'[c] \in CallRow
    BY <2>1, <2>3 DEF CallRow
  <2> QED BY <1>0, <2>2, <2>4, Lessens
<1>3. ASSUME NEW c \in Calls
      PROVE  CallOK(c)'
  <2>1. CallOK(c)
    BY <1>0
  <2>2. Inside(c) /\ call'[c].left > 0 =>
          call[c].token \in DOMAIN permits' /\ permits'[call[c].token] = call'[c].left
    BY <1>1, <1>2, <2>1 DEF CallOK
  <2> QED BY <1>1, <1>2, <2>1, <2>2
          DEF CallOK, At, Buyer, Inside, WithKey, NoOrderFound, WithStock
<1>4. CallsOK'
  BY <1>3 DEF CallsOK
<1>5. TokensDiffer'
  BY <1>0, <1>2 DEF TokensDiffer, WithToken, Inside, At
<1>6. call' \in [Calls -> CallRow]
  <2>1. \A c \in Calls : Row(c) \in CallRow
    BY <1>a, <1>2
  <2> QED BY <1>a, <2>1
<1>7. /\ DOMAIN permits' = DOMAIN permits
      /\ \A k \in DOMAIN permits : permits'[k] \in 0..PermitFor /\ (permits[k] = 0 => permits'[k] = 0)
  BY <1>0, <1>1, Lessens DEF RestTypeOK
<1>8. GateIsKept'
  BY <1>0, <1>7, FewerPermits
<1>9. /\ empty' \in 0..EmptyFor /\ gap' \in 0..RateGap /\ ticket' \in [Buyers -> 0..TicketFor]
      /\ sinceCause' \in 0..EmptyFor /\ sinceCause' <= sinceCause + 1
  <2>1. empty' \in 0..EmptyFor /\ gap' \in 0..RateGap /\ ticket' \in [Buyers -> 0..TicketFor]
    BY <1>0, <1>1, Lessens DEF RestTypeOK
  <2> DEFINE Since(n) == IF free = 0 THEN 0 ELSE IF n < EmptyFor THEN n + 1 ELSE EmptyFor
  <2>2. \A n \in 0..EmptyFor : Since(n) \in 0..EmptyFor /\ Since(n) <= n + 1
    <3>1. EmptyFor \in Nat
      BY AdmissionAssumption
    <3> QED BY <3>1
  <2>3. sinceCause' = Since(sinceCause) /\ sinceCause \in 0..EmptyFor
    BY <1>0, <1>1 DEF RestTypeOK
  <2> HIDE DEF Since
  <2>4. sinceCause' \in 0..EmptyFor /\ sinceCause' <= sinceCause + 1
    BY <2>2, <2>3, Zenon
  <2> QED BY <2>1, <2>4
<1>10. RestTypeOK'
  BY <1>0, <1>1, <1>7, <1>9 DEF RestTypeOK
<1>11. StockOK'
  <2>1. NoneIsNow'
    BY <1>1 DEF NoneIsNow
  <2>2. StaleForAMoment'
    <3>1. empty' > 0 => empty > 0 /\ empty' = empty - 1
      BY <1>0, <1>1, Lessens DEF RestTypeOK
    <3> QED BY <1>0, <1>9, <3>1 DEF StockOK, StaleForAMoment, RestTypeOK
  <2> QED BY <1>0, <1>1, <2>1, <2>2 DEF StockOK
<1> QED BY <1>4, <1>5, <1>6, <1>8, <1>10, <1>11, TypeParts DEF AdmissionInv

-----------------------------------------------------------------------------
(* Theorems *)

\* At the start nothing has happened.
LEMMA AdmissionStarts == AdmissionInit => AdmissionInv
<1> SUFFICES ASSUME AdmissionInit
             PROVE  AdmissionInv
  OBVIOUS
<1>1. {TicketFor, PermitFor, RateGap, EmptyFor, Units, Permits} \subseteq Nat /\ 0 \in Nat
  BY AdmissionAssumption
<1>2. Idle \in CallRow /\ Idle.step = "idle" /\ Idle.known = FALSE
  BY <1>1 DEF Idle, CallRow, Steps, Outcomes
<1>3. call \in [Calls -> CallRow] /\ \A c \in Calls : call[c] = Idle
  BY <1>2 DEF AdmissionInit
<1>4. DOMAIN permits = {} /\ IsFiniteSet({}) /\ Cardinality({}) = 0
  BY FS_EmptySet DEF AdmissionInit
<1>5. RestTypeOK
  <2>1. ticket \in [Buyers -> 0..TicketFor]
    <3>1. TicketFor \in 0..TicketFor
      BY AdmissionAssumption
    <3> QED BY <3>1 DEF AdmissionInit
  <2>2. gap \in 0..RateGap /\ empty \in 0..EmptyFor /\ late \in 0..LateSets /\ sinceCause \in 0..EmptyFor
    <3>1. 0 \in 0..RateGap /\ 0 \in 0..LateSets /\ 0 \in 0..EmptyFor /\ EmptyFor \in 0..EmptyFor
      BY AdmissionAssumption
    <3>2. gap = 0 /\ empty = 0 /\ late = 0 /\ sinceCause = EmptyFor
      BY DEF AdmissionInit
    <3> QED BY <3>1, <3>2, Zenon
  <2>3. free \in 0..Units /\ free + Cardinality(holding) <= Units
    BY <1>4, AdmissionAssumption DEF AdmissionInit
  <2>4. /\ holding \subseteq orders /\ orders \subseteq Buyers
        /\ keyLock \in [Buyers -> Calls \cup {Nobody}] /\ stockLock \in Calls \cup {Nobody}
    BY DEF AdmissionInit
  <2>5. DOMAIN permits \subseteq Tokens /\ \A k \in DOMAIN permits : permits[k] \in 0..PermitFor
    BY <1>4, Zenon
  <2> QED BY <2>1, <2>2, <2>3, <2>4, <2>5 DEF RestTypeOK
<1>6. CallsOK /\ TokensDiffer
  <2>1. \A c \in Calls : CallOK(c) /\ ~WithToken(c)
    BY <1>2, <1>3 DEF CallOK, WithToken, At, Inside, WithKey, NoOrderFound, WithStock
  <2> QED BY <2>1 DEF CallsOK, TokensDiffer
<1>7. GateIsKept
  <2>1. DOMAIN Valid = {}
    BY <1>4 DEF Valid
  <2> QED BY <1>4, <2>1, AdmissionAssumption DEF GateIsKept
<1>8. StockOK
  <2>1. free # 0 /\ holding = {} /\ ~(empty > 0)
    BY AdmissionAssumption DEF AdmissionInit
  <2> QED BY <1>4, <2>1 DEF StockOK, NoneIsNow, StaleForAMoment
<1> QED BY <1>3, <1>5, <1>6, <1>7, <1>8, TypeParts DEF AdmissionInv

\* Every step keeps the invariant.
LEMMA AdmissionStep ==
  ASSUME AdmissionInv, [AdmissionNext]_admissionVars
  PROVE  AdmissionInv'
<1>1. ASSUME NEW c \in Calls, Serves(c)
      PROVE  AdmissionInv'
  BY <1>1, ReplayKeeps, EnterKeeps, LockKeeps, DecidingKeeps, RememberKeeps, CommitKeeps,
     LeaveKeeps DEF Serves
<1>2. ASSUME NEW c \in Calls, Fails(c) \/ Dies(c) \/ \E b \in Buyers : Arrive(c, b)
      PROVE  AdmissionInv'
  BY <1>2, DecidingKeeps, DiesKeeps, ArriveKeeps
<1>3. ASSUME NEW b \in Buyers, GiveBack(b) \/ TicketAgain(b)
      PROVE  AdmissionInv'
  BY <1>3, GiveBackKeeps, TicketAgainKeeps
<1>4. CASE UNCHANGED admissionVars
  <2>1. RestTypeOK' /\ StockOK' /\ UNCHANGED <<call, permits, keyLock, stockLock, orders, free>>
    BY <1>4 DEF admissionVars, gateVars, cacheVars, stockVars, lockVars, AdmissionInv,
       AdmissionTypeOK, RestTypeOK, StockOK, NoneIsNow, StaleForAMoment
  <2> QED BY <2>1, NoneMoves
<1> QED BY <1>1, <1>2, <1>3, <1>4, ArrivesKeeps, TickKeeps DEF AdmissionNext

\* The invariant holds from the start on.
THEOREM AdmissionInvariance == AdmissionSpec => []AdmissionInv
<1>1. AdmissionInit => AdmissionInv
  BY AdmissionStarts
<1>2. AdmissionInv /\ [AdmissionNext]_admissionVars => AdmissionInv'
  BY AdmissionStep
<1> QED BY <1>1, <1>2, PTL DEF AdmissionSpec

\* Every variable keeps its type, and no unit is both free and held.
THEOREM AdmissionTyped == AdmissionSpec => []AdmissionTypeOK
<1>1. AdmissionInv => AdmissionTypeOK
  BY DEF AdmissionInv
<1> QED BY <1>1, AdmissionInvariance, PTL

\* Calls that are inside with a permit that lasts are one to a valid permit.
LEMMA OnePermitEach ==
  ASSUME AdmissionInv
  PROVE  PermitsAreKept
<1> DEFINE S == {c \in Calls : Inside(c) /\ call[c].left > 0}
           f == [c \in S |-> call[c].token]
<1>1. /\ RestTypeOK /\ TokensDiffer /\ GateIsKept /\ \A c \in Calls : CallOK(c)
  BY TypeParts DEF AdmissionInv, CallsOK
<1>2. \A c \in S : call[c].token \in DOMAIN Valid
  BY <1>1, ValidTokens DEF CallOK
<1>3. f \in Injection(S, DOMAIN Valid)
  BY <1>1, <1>2 DEF Injection, IsInjective, TokensDiffer, WithToken
<1>4. IsFiniteSet(S) /\ Cardinality(S) <= Cardinality(DOMAIN Valid)
  BY <1>1, <1>3, ValidTokens, FS_Injection
<1>5. Cardinality(S) \in Nat /\ Cardinality(DOMAIN Valid) \in Nat
  BY <1>1, <1>4, ValidTokens, FS_CardinalityType
<1> HIDE DEF S
<1>6. Cardinality(S) <= Permits
  BY <1>1, <1>4, <1>5, AdmissionAssumption DEF GateIsKept
<1> QED BY <1>6 DEF S, PermitsAreKept

\* No more than Permits purchases run at a time, of those whose permit lasts.
THEOREM PermitsHold == AdmissionSpec => []PermitsAreKept
BY OnePermitEach, AdmissionInvariance, PTL

\* The cache refuses for no longer than EmptyFor after the stock was last empty, or after a
\* command was run that its purchase had given up on.
THEOREM StaleIsBrief == AdmissionSpec => []StaleForAMoment
<1>1. AdmissionInv => StaleForAMoment
  BY DEF AdmissionInv, StockOK
<1> QED BY <1>1, AdmissionInvariance, PTL

\* Who is refused has no order that the call could have known of.
LEMMA RefusedHasNone ==
  ASSUME AdmissionInv, [AdmissionNext]_admissionVars, NEW c \in Calls,
         call'[c].out = "refused", call[c].out # "refused"
  PROVE  ~call[c].known /\ (Inside(c) => Buyer(c) \notin orders)
<1>0. /\ call \in [Calls -> CallRow] /\ call[c] \in CallRow /\ AdmissionTypeOK
      /\ CallOK(c) /\ call[c].known \in BOOLEAN
  BY Parts, RowFields
<1>1. call'[c] # call[c]
  OBVIOUS
<1>2. ASSUME At(c, "fresh") \/ At(c, "enter")
      PROVE  ~call[c].known /\ ~Inside(c)
  BY <1>0, <1>2 DEF CallOK, At, Inside
<1>3. ASSUME Inside(c)
      PROVE  ~call[c].known
  BY <1>0, <1>3 DEF CallOK, At, Inside
<1>4. ASSUME NEW step, Goes(c, step)
      PROVE  FALSE
  <2>1. call'[c] = [call[c] EXCEPT !.step = step]
    BY <1>0, <1>4 DEF Goes
  <2> QED BY <1>0, <2>1 DEF CallRow
<1>5. ASSUME NEW out, Ends(c, out) \/ Leaves(c, out)
      PROVE  out = "refused"
  <2>1. CASE Ends(c, out)
    <3>1. call'[c] = [Idle EXCEPT !.out = out]
      BY <1>0, <2>1 DEF Ends
    <3> QED BY <3>1 DEF Idle
  <2>2. CASE Leaves(c, out)
    <3>1. call'[c] = [call[c] EXCEPT !.step = "leave", !.out = out]
      BY <1>0, <2>2 DEF Leaves
    <3> QED BY <1>0, <3>1 DEF CallRow
  <2> QED BY <1>5, <2>1, <2>2
<1>6. ASSUME NEW d \in Calls, d # c, Serves(d) \/ Fails(d) \/ Dies(d) \/ \E b \in Buyers : Arrive(d, b)
      PROVE  call'[c] = call[c]
  BY <1>0, <1>6 DEF Serves, Fails, Dies, Arrive, Replay, RequireFresh, Enter, Busy, Admitted,
     EnterUnanswered, LockKey, Look, LockStock, Decide, Remember, Commit, Leave, Goes, Ends, Leaves
<1>7. CASE Serves(c)
  <2>1. CASE Replay(c) \/ LockKey(c) \/ Commit(c) \/ Leave(c)
    BY <1>4, <1>5, <2>1 DEF Replay, LockKey, Commit, Leave
  <2>2. CASE RequireFresh(c) \/ Enter(c)
    BY <1>2, <2>2 DEF RequireFresh, Enter
  <2>3. CASE Look(c)
    <3>1. Inside(c) /\ (Found(c) => Leaves(c, "order") \/ Goes(c, "stock"))
      BY <2>3 DEF Look, Inside, At
    <3>2. ~Found(c)
      BY <1>4, <1>5, <2>3, <3>1 DEF Look
    <3> QED BY <1>3, <3>1, <3>2 DEF Found
  <2>4. CASE LockStock(c)
    <3>1. call'[c] = [call[c] EXCEPT !.step = "decide", !.inTime = call[c].claim > 0]
      BY <1>0, <2>4 DEF LockStock
    <3> QED BY <1>0, <3>1 DEF CallRow
  <2>5. CASE Decide(c) \/ Remember(c)
    <3>1. Inside(c) /\ call[c].step \in NoOrderFound
      BY <2>5 DEF Decide, Remember, Inside, At, NoOrderFound
    <3> QED BY <1>0, <1>3, <3>1 DEF CallOK
  <2> QED BY <1>7, <2>1, <2>2, <2>3, <2>4, <2>5 DEF Serves
<1>8. CASE Fails(c) \/ Dies(c)
  BY <1>5, <1>8 DEF Fails, Dies
<1>9. ASSUME NEW b \in Buyers, Arrive(c, b)
      PROVE  FALSE
  <2>1. call'[c] = [Idle EXCEPT !.step = "replay", !.buyer = b, !.claim = ticket[b],
                                !.known = b \in orders]
    BY <1>0, <1>9 DEF Arrive
  <2>2. call'[c].out = "none"
    BY <2>1 DEF Idle
  <2> QED BY <2>2
<1>10. CASE AdmissionTick
  <2>1. call'[c] = [call[c] EXCEPT !.claim = Minus(@), !.left = Minus(@)]
    BY <1>10 DEF AdmissionTick
  <2>2. call'[c].out = call[c].out
    BY <1>0, <2>1 DEF CallRow
  <2> QED BY <2>2
<1>11. ASSUME \/ \E b \in Buyers : GiveBack(b) \/ TicketAgain(b)
              \/ Arrives \/ UNCHANGED admissionVars
       PROVE  FALSE
  BY <1>1, <1>11 DEF GiveBack, TicketAgain, Arrives, admissionVars
<1> QED BY <1>1, <1>6, <1>7, <1>8, <1>9, <1>10, <1>11 DEF AdmissionNext

\* Who has an order is answered with it and not refused.
THEOREM OrdersAnswered == AdmissionSpec => OrdersAreReplayed
<1>1. AdmissionInv /\ [AdmissionNext]_admissionVars =>
        [\A c \in Calls :
           call'[c].out = "refused" /\ call[c].out # "refused" =>
             /\ ~call[c].known
             /\ Inside(c) => Buyer(c) \notin orders]_admissionVars
  BY RefusedHasNone
<1> QED BY <1>1, AdmissionInvariance, PTL DEF AdmissionSpec, OrdersAreReplayed

\* What is bought is bought by a call whose ticket was good when it had the item's row.
LEMMA BoughtInTime ==
  ASSUME AdmissionInv, [AdmissionNext]_admissionVars, NEW b \in orders' \ orders
  PROVE  \E c \in Calls : At(c, "commit") /\ Buyer(c) = b /\ call[c].inTime
<1>1. \E c \in Calls : Commit(c)
  BY DEF AdmissionNext, Serves, Fails, Dies, Arrive, Replay, RequireFresh, Enter, LockKey, Look,
     LockStock, Decide, Remember, Leave, GiveBack, TicketAgain, Arrives, AdmissionTick,
     admissionVars, stockVars
<1>2. PICK c \in Calls : Commit(c)
  BY <1>1
<1>3. At(c, "commit") /\ Buyer(c) = b /\ CallOK(c)
  BY <1>2, Parts DEF Commit
<1> QED BY <1>3 DEF CallOK

\* A ticket that lapses while its purchase waits buys nothing.
THEOREM LateTicketsRefused == AdmissionSpec => LateTicketsBuyNothing
<1>1. AdmissionInv /\ [AdmissionNext]_admissionVars =>
        [\A b \in orders' \ orders :
           \E c \in Calls : At(c, "commit") /\ Buyer(c) = b /\ call[c].inTime]_admissionVars
  BY BoughtInTime
<1> QED BY <1>1, AdmissionInvariance, PTL DEF AdmissionSpec, LateTicketsBuyNothing
=============================================================================
