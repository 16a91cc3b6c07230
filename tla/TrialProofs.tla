---------------------------- MODULE TrialProofs ----------------------------
(***************************************************************************)
(* What a good verdict on a trial says of each order, for any number of    *)
(* arrivals: the review compares counts, and equal counts of what is heard *)
(* of and of what there is leave nothing unheard of (TargetRun).  And that *)
(* k6 runs the load that was planned, with any number of virtual users     *)
(* (VirtualUsers), and what was planned fits together, for any rates and    *)
(* durations (TargetPlan, EarlierPlan).                                    *)
(***************************************************************************)
EXTENDS MCTarget, Sequences, FiniteSetTheorems, TLAPS

-----------------------------------------------------------------------------
(* The inductive invariant *)

OrderRow == [status : {"unpaid", "pending", "succeeded", "failed"}, success : BOOLEAN]

RunTyped ==
  /\ trial \in R!Trials /\ phase \in {"load", "drain", "drained", "over"}
  /\ its \in [R!Trials -> Seq(R!IterationRecords)]
  /\ \A k \in DOMAIN rows : rows[k] \in OrderRow /\ k = <<trial, k[2]>>
  /\ verdict \in [R!Trials -> {"none", "good", "failed"}]

\* One trial follows the other, and a trial that is over is served no more.
InTurn ==
  /\ trial = "warmup" => its["measured"] = <<>> /\ "measured" \notin settled
  /\ trial = "measured" => "warmup" \in settled
  /\ trial \in settled <=> phase \in {"drained", "over"}
  /\ verdict["measured"] # "none" => trial = "measured" /\ phase = "over"

\* An order that was made is in the database, and what is there was made for an iteration:
\* the orders, but for those the worker script pays for, and what is paid for.
RowsFollow ==
  /\ R!Kind # "worker" =>
       /\ \A i \in DOMAIN its[trial] : R!Made(its[trial][i].order) => <<trial, i>> \in DOMAIN rows
       /\ \A k \in DOMAIN rows : k[2] \in DOMAIN its[trial]
  /\ \A k \in DOMAIN rows : rows[k].status # "unpaid" =>
       k[2] \in DOMAIN its[trial] /\ R!Made(its[trial][k[2]].payment)

\* Where the script rejects nothing, who has ended asked for no payment in vain.
CountsRejections == R!Kind = "worker" \/ (R!Kind = "business" /\ R!Variant # "late-payment")
NoneInVain ==
  phase # "load" /\ exit /\ CountsRejections =>
    \A i \in DOMAIN its[trial] : its[trial][i].ended => its[trial][i].payment \in {"none", "heard"}

RunInv == RunTyped /\ InTurn /\ RowsFollow /\ NoneInVain /\ R!NoOrderUnheard /\ R!NoPaymentUnheard

-----------------------------------------------------------------------------
(* Counts *)

\* The instances count as this module does.
LEMMA CountsAlike == \A S : R!Cardinality(S) = Cardinality(S) /\ L!Cardinality(S) = Cardinality(S)
  BY DEF R!Cardinality, L!Cardinality, Cardinality

\* If as many are heard of as there are, all are heard of.
LEMMA CountsAgree ==
  ASSUME NEW n \in Nat, NEW H \in SUBSET (1..n), NEW D, IsFiniteSet(D), NEW t \in R!Trials,
         \A i \in H : <<t, i>> \in D, Cardinality(D) = Cardinality(H)
  PROVE  \A k \in D : \E i \in H : k = <<t, i>>
<1> DEFINE f == [i \in H |-> <<t, i>>]
<1>1. f \in Injection(H, D)
  BY DEF Injection, IsInjective
<1>2. f \in Surjection(H, D)
  <2> HIDE DEF f
  <2> QED BY <1>1, FS_Injection
<1> QED BY <1>2 DEF Surjection

\* What belongs to iterations is finitely much.
LEMMA FinitelyMany ==
  ASSUME NEW n \in Nat, NEW t, NEW D, \A k \in D : k = <<t, k[2]>> /\ k[2] \in 1..n
  PROVE  IsFiniteSet(D)
<1> DEFINE f == [k \in D |-> k[2]]
<1>1. f \in Injection(D, 1..n)
  BY DEF Injection, IsInjective
<1>2. IsFiniteSet(1..n)
  BY FS_Interval
<1> HIDE DEF f
<1> QED BY <1>1, <1>2, FS_Injection

-----------------------------------------------------------------------------
(* Steps *)

\* One iteration moves; the others stay.
LEMMA OneMoves ==
  ASSUME RunTyped, NEW i \in DOMAIN its[trial], NEW b \in R!IterationRecords,
         its' = [its EXCEPT ![trial][i] = b]
  PROVE  /\ its' \in [R!Trials -> Seq(R!IterationRecords)]
         /\ DOMAIN its'[trial] = DOMAIN its[trial]
         /\ its'[trial][i] = b /\ its[trial][i] \in R!IterationRecords
         /\ \A j \in DOMAIN its[trial] : j # i => its'[trial][j] = its[trial][j]
         /\ \A t \in R!Trials : t # trial => its'[t] = its[t]
<1> DEFINE s == its[trial]
           q == [s EXCEPT ![i] = b]
<1>1. s \in Seq(R!IterationRecords) /\ trial \in R!Trials
  BY DEF RunTyped
<1>2. /\ q \in Seq(R!IterationRecords) /\ DOMAIN q = DOMAIN s /\ q[i] = b /\ s[i] \in R!IterationRecords
      /\ \A j \in DOMAIN s : j # i => q[j] = s[j]
  BY <1>1
<1>3. its' = [its EXCEPT ![trial] = q]
  OBVIOUS
<1> HIDE DEF q
<1> QED BY <1>1, <1>2, <1>3 DEF RunTyped

\* What an iteration may do in a step.
Steps(a, b) ==
  /\ R!Advances(a.order, b.order) /\ R!Advances(a.payment, b.payment)
  /\ a.order = b.order \/ a.payment = b.payment

\* What the service does for it, its rows follow.
LEMMA ServesKeeps ==
  ASSUME RunTyped, RowsFollow, NEW i \in DOMAIN its[trial], NEW b \in R!IterationRecords,
         Steps(its[trial][i], b), R!Serves(trial, i, its[trial][i], b),
         its' = [its EXCEPT ![trial][i] = b], UNCHANGED <<measured, trial>>
  PROVE  RowsFollow' /\ \A k \in DOMAIN rows' : rows'[k] \in OrderRow /\ k = <<trial, k[2]>>
<1> DEFINE a == its[trial][i]
           k0 == <<trial, i>>
<1>1. /\ DOMAIN its'[trial] = DOMAIN its[trial] /\ its'[trial][i] = b
      /\ \A j \in DOMAIN its[trial] : j # i => its'[trial][j] = its[trial][j]
      /\ a \in R!IterationRecords
  BY OneMoves
<1>2. R!Made(a.order) => R!Made(b.order)
  BY DEF Steps, R!Advances, R!Made
<1>3. R!Made(a.payment) => R!Made(b.payment)
  BY DEF Steps, R!Advances, R!Made
<1>4. R!Kind' = R!Kind
  BY DEF R!Kind
<1>5. CASE /\ R!Made(a.order) = R!Made(b.order) /\ R!Made(a.payment) = R!Made(b.payment)
           /\ UNCHANGED rows
  BY <1>1, <1>4, <1>5 DEF RowsFollow, RunTyped
<1>6. ASSUME NEW row \in OrderRow, rows' = R!WithRow(k0, row),
             row.status # "unpaid" => R!Made(b.payment)
      PROVE  RowsFollow' /\ \A k \in DOMAIN rows' : rows'[k] \in OrderRow /\ k = <<trial, k[2]>>
  <2>1. /\ DOMAIN rows' = DOMAIN rows \cup {k0} /\ rows'[k0] = row
        /\ \A k \in DOMAIN rows : k # k0 => rows'[k] = rows[k]
    BY <1>6 DEF R!WithRow
  <2>2. \A k \in DOMAIN rows' : rows'[k] \in OrderRow /\ k = <<trial, k[2]>>
    <3>1. \A k \in DOMAIN rows : rows[k] \in OrderRow /\ k = <<trial, k[2]>>
      BY DEF RunTyped
    <3>2. k0 = <<trial, k0[2]>>
      OBVIOUS
    <3> QED BY <1>6, <2>1, <3>1, <3>2
  <2>3. \A k \in DOMAIN rows : k # k0 => k[2] # i
    <3>1. \A k \in DOMAIN rows : k = <<trial, k[2]>>
      BY DEF RunTyped
    <3> QED BY <3>1
  <2>4. RowsFollow'
    <3>1. ASSUME R!Kind # "worker"
          PROVE  /\ \A j \in DOMAIN its[trial] : R!Made(its'[trial][j].order) => <<trial, j>> \in DOMAIN rows'
                 /\ \A k \in DOMAIN rows' : k[2] \in DOMAIN its[trial]
      BY <1>1, <2>1, <3>1 DEF RowsFollow
    <3>2. ASSUME NEW k \in DOMAIN rows', rows'[k].status # "unpaid"
          PROVE  k[2] \in DOMAIN its[trial] /\ R!Made(its'[trial][k[2]].payment)
      BY <1>1, <1>6, <2>1, <2>3, <3>2 DEF RowsFollow
    <3> QED BY <1>1, <1>4, <3>1, <3>2 DEF RowsFollow, R!Made
  <2> QED BY <2>2, <2>4
<1>7. CASE ~R!Made(a.order) /\ R!Made(b.order) /\ rows' = R!WithRow(k0, R!Unpaid)
  <2>1. R!Unpaid \in OrderRow /\ R!Unpaid.status = "unpaid"
    BY DEF R!Unpaid, OrderRow
  <2> QED BY <1>6, <1>7, <2>1
<1>8. ASSUME NEW success \in BOOLEAN, R!Made(b.payment),
             rows' = R!WithRow(k0, [status |-> "pending", success |-> success])
      PROVE  RowsFollow' /\ \A k \in DOMAIN rows' : rows'[k] \in OrderRow /\ k = <<trial, k[2]>>
  <2>1. [status |-> "pending", success |-> success] \in OrderRow
    BY DEF OrderRow
  <2> QED BY <1>6, <1>8, <2>1
<1> QED BY <1>5, <1>7, <1>8 DEF R!Serves

-----------------------------------------------------------------------------
(* The invariant, step by step *)

\* Whatever an iteration does, what is settled stays so.
LEMMA IteratesKeeps ==
  ASSUME RunInv, NEW i \in DOMAIN its[trial], NEW b \in R!IterationRecords,
         Steps(its[trial][i], b), R!Serves(trial, i, its[trial][i], b),
         its' = [its EXCEPT ![trial][i] = b],
         phase = "load" \/ (b.ended = its[trial][i].ended /\
           (b.payment = its[trial][i].payment \/ its[trial][i].payment = "asked")),
         trial \notin settled,
         UNCHANGED <<measured, trial, phase, settled, exit, verdict>>
  PROVE  RunInv'
<1> DEFINE a == its[trial][i]
<1>1. /\ its' \in [R!Trials -> Seq(R!IterationRecords)]
      /\ DOMAIN its'[trial] = DOMAIN its[trial] /\ its'[trial][i] = b
      /\ \A j \in DOMAIN its[trial] : j # i => its'[trial][j] = its[trial][j]
      /\ \A t \in R!Trials : t # trial => its'[t] = its[t]
  BY OneMoves DEF RunInv
<1>2. RowsFollow' /\ \A k \in DOMAIN rows' : rows'[k] \in OrderRow /\ k = <<trial, k[2]>>
  BY ServesKeeps DEF RunInv
<1>3. RunTyped'
  BY <1>1, <1>2 DEF RunInv, RunTyped
<1>4. InTurn'
  <2>1. trial = "warmup" => its'["measured"] = its["measured"]
    BY <1>1 DEF R!Trials
  <2> QED BY <2>1 DEF RunInv, InTurn
<1>5. NoneInVain'
  <2> SUFFICES ASSUME phase # "load", exit, CountsRejections, NEW j \in DOMAIN its[trial],
                      its'[trial][j].ended
               PROVE  its'[trial][j].payment \in {"none", "heard"}
    BY <1>1 DEF NoneInVain, CountsRejections, R!Kind, R!Variant
  <2>1. \A l \in DOMAIN its[trial] :
          its[trial][l].ended => its[trial][l].payment \in {"none", "heard"}
    BY DEF RunInv, NoneInVain
  <2> QED BY <1>1, <2>1
<1>6. R!NoOrderUnheard' /\ R!NoPaymentUnheard'
  <2>1. verdict["measured"] # "good"
    BY DEF RunInv, InTurn
  <2> QED BY <2>1 DEF R!NoOrderUnheard, R!NoPaymentUnheard, R!Good
<1> QED BY <1>2, <1>3, <1>4, <1>5, <1>6 DEF RunInv

\* A script that still waits, or a request that nobody waits for.
LEMMA IterationsKeep ==
  ASSUME RunInv,
         \/ \E i \in DOMAIN its[trial] : R!Iterate(i) \/ R!Misses(i)
         \/ \E t \in R!Trials : \E i \in DOMAIN its[t] : R!ServeLate(t, i)
  PROVE  RunInv'
<1>1. ASSUME NEW i \in DOMAIN its[trial], R!Iterate(i)
      PROVE  RunInv'
  <2>1. PICK b \in R!IterationRecords : /\ R!Moves(its[trial][i], b)
                                     /\ R!Serves(trial, i, its[trial][i], b)
                                     /\ its' = [its EXCEPT ![trial][i] = b]
    BY <1>1 DEF R!Iterate
  <2>2. Steps(its[trial][i], b)
    BY <2>1 DEF R!Moves, Steps
  <2>3. /\ phase = "load" /\ trial \notin settled
        /\ UNCHANGED <<measured, trial, phase, settled, exit, verdict>>
    BY <1>1 DEF R!Iterate, RunInv, InTurn
  <2> QED BY <2>1, <2>2, <2>3, IteratesKeeps
<1>2. ASSUME NEW i \in DOMAIN its[trial], R!Misses(i)
      PROVE  RunInv'
  <2>1. UNCHANGED <<measured, trial, phase, its, rows, settled, exit, verdict>>
    BY <1>2 DEF R!Misses
  <2> QED BY <2>1 DEF RunInv, RunTyped, InTurn, RowsFollow, NoneInVain, R!NoOrderUnheard,
          R!NoPaymentUnheard, CountsRejections, R!Kind, R!Variant, R!Good, R!Heard
<1>3. ASSUME NEW t \in R!Trials, NEW i \in DOMAIN its[t], R!ServeLate(t, i)
      PROVE  RunInv'
  <2>1. t = trial /\ trial \notin settled
    <3>1. DOMAIN <<>> = {}
      OBVIOUS
    <3> QED BY <1>3, <3>1 DEF R!ServeLate, RunInv, InTurn, RunTyped, R!Trials
  <2> DEFINE a == its[trial][i]
  <2>2. PICK b \in R!IterationRecords :
          /\ b.ended = a.ended /\ R!Moves([a EXCEPT !.ended = TRUE], [b EXCEPT !.ended = TRUE])
          /\ R!Serves(trial, i, a, b)
          /\ its' = [its EXCEPT ![trial][i] = b]
    BY <1>3, <2>1 DEF R!ServeLate
  <2>3. a \in R!IterationRecords
    BY <2>1 DEF RunInv, RunTyped
  <2>4. /\ Steps(a, b)
        /\ b.payment = a.payment \/ a.payment = "asked"
    <3> DEFINE x == [a EXCEPT !.ended = TRUE]
               y == [b EXCEPT !.ended = TRUE]
    <3>1. /\ x.order = a.order /\ x.payment = a.payment /\ x.ended
          /\ y.order = b.order /\ y.payment = b.payment
      BY <2>3 DEF R!IterationRecords
    <3>2. R!Moves(x, y)
      BY <2>2
    <3> HIDE DEF x, y
    <3> QED BY <3>1, <3>2 DEF R!Moves, Steps
  <2>5. UNCHANGED <<measured, trial, phase, settled, exit, verdict>>
    BY <1>3 DEF R!ServeLate
  <2> QED BY <2>1, <2>2, <2>4, <2>5, IteratesKeeps
<1> QED BY <1>1, <1>2, <1>3

\* A scenario's window opens, or an arrival finds no virtual user.
LEMMA ArriveKeeps ==
  ASSUME RunInv, R!Arrive
  PROVE  RunInv'
<1>1. /\ phase = "load" /\ UNCHANGED <<measured, trial, phase, rows, settled, exit, verdict>>
      /\ \/ UNCHANGED its
         \/ its' = [its EXCEPT ![trial] =
                     Append(@, R!Fresh(IF R!Kind = "worker" THEN "heard" ELSE "none"))]
  BY DEF R!Arrive
<1>2. CASE UNCHANGED its
  BY <1>1, <1>2 DEF RunInv, RunTyped, InTurn, RowsFollow, NoneInVain, R!NoOrderUnheard,
     R!NoPaymentUnheard, CountsRejections, R!Kind, R!Variant, R!Good, R!Heard
<1>3. ASSUME NEW fresh \in R!IterationRecords, its' = [its EXCEPT ![trial] = Append(its[trial], fresh)],
             R!Kind # "worker" => ~R!Made(fresh.order)
      PROVE  RunInv'
  <2> DEFINE s == its[trial]
             q == Append(s, fresh)
  <2>1. s \in Seq(R!IterationRecords) /\ trial \in R!Trials
    BY DEF RunInv, RunTyped
  <2>2. /\ q \in Seq(R!IterationRecords) /\ \A i \in DOMAIN s : i \in DOMAIN q /\ q[i] = s[i]
        /\ \A i \in DOMAIN q \ DOMAIN s : q[i] = fresh
    BY <2>1
  <2>3. /\ its' \in [R!Trials -> Seq(R!IterationRecords)] /\ its'[trial] = q
        /\ \A t \in R!Trials : t # trial => its'[t] = its[t]
    BY <1>3, <2>1, <2>2 DEF RunInv, RunTyped
  <2> HIDE DEF s, q
  <2>4. RunTyped' /\ InTurn'
    BY <1>1, <2>1, <2>3 DEF RunInv, RunTyped, InTurn, R!Trials
  <2>5. RowsFollow'
    <3>1. R!Kind' = R!Kind
      BY <1>1 DEF R!Kind
    <3>2. ASSUME R!Kind # "worker"
          PROVE  /\ \A i \in DOMAIN q : R!Made(q[i].order) => <<trial, i>> \in DOMAIN rows
                 /\ \A k \in DOMAIN rows : k[2] \in DOMAIN q
      BY <1>3, <2>2, <3>2 DEF RunInv, RowsFollow, s
    <3>3. \A k \in DOMAIN rows : rows[k].status # "unpaid" =>
            k[2] \in DOMAIN q /\ R!Made(q[k[2]].payment)
      BY <2>2 DEF RunInv, RowsFollow, s
    <3> QED BY <1>1, <2>3, <3>1, <3>2, <3>3 DEF RowsFollow, R!Made
  <2>6. NoneInVain' /\ verdict'["measured"] # "good"
    BY <1>1 DEF RunInv, InTurn, NoneInVain
  <2> QED BY <2>4, <2>5, <2>6 DEF RunInv, R!NoOrderUnheard, R!NoPaymentUnheard, R!Good
<1>4. ASSUME NEW order \in R!Stages
      PROVE  R!Fresh(order) \in R!IterationRecords /\ R!Fresh(order).order = order
  BY DEF R!Fresh, R!IterationRecords, R!Stages
<1>5. "heard" \in R!Stages /\ "none" \in R!Stages /\ ~R!Made("none")
  BY DEF R!Stages, R!Made
<1>6. CASE its' = [its EXCEPT ![trial] =
                     Append(@, R!Fresh(IF R!Kind = "worker" THEN "heard" ELSE "none"))]
  <2>1. CASE R!Kind = "worker"
    BY <1>3, <1>4, <1>5, <1>6, <2>1
  <2>2. CASE R!Kind # "worker"
    BY <1>3, <1>4, <1>5, <1>6, <2>2
  <2> QED BY <2>1, <2>2
<1> QED BY <1>1, <1>2, <1>6

\* A payment comes to its end; those that were to succeed have, when a verdict is good.
LEMMA WorkKeeps ==
  ASSUME RunInv, NEW k \in DOMAIN rows, R!Work(k)
  PROVE  RunInv'
<1>1. /\ rows[k].status = "pending"
      /\ UNCHANGED <<measured, trial, phase, its, settled, exit, verdict>>
  BY DEF R!Work
<1>2. PICK status \in {"succeeded", "failed"} : rows' = [rows EXCEPT ![k].status = status]
  BY DEF R!Work
<1>3. /\ DOMAIN rows' = DOMAIN rows
      /\ \A x \in DOMAIN rows : /\ x # k => rows'[x] = rows[x]
                               /\ rows[x] \in OrderRow /\ x = <<trial, x[2]>>
      /\ rows'[k] \in OrderRow /\ rows'[k].status = status /\ rows'[k].success = rows[k].success
  BY <1>2 DEF RunInv, RunTyped, OrderRow
<1>4. RunTyped' /\ InTurn' /\ NoneInVain'
  BY <1>1, <1>3 DEF RunInv, RunTyped, InTurn, NoneInVain, CountsRejections, R!Kind, R!Variant
<1>5. RowsFollow'
  BY <1>1, <1>3 DEF RunInv, RowsFollow, R!Kind
<1>6. R!NoOrderUnheard' /\ R!NoPaymentUnheard'
  BY <1>1, <1>3 DEF RunInv, R!NoOrderUnheard, R!NoPaymentUnheard, R!Good, R!Heard
<1> QED BY <1>4, <1>5, <1>6 DEF RunInv

Those(P) == {i \in DOMAIN its[trial] : its[trial][i] \in P}

\* What k6 counts is finitely many, and none if it counts none.
LEMMA CountedOnes ==
  ASSUME RunTyped, NEW P
  PROVE  /\ Len(its[trial]) \in Nat /\ DOMAIN its[trial] = 1..Len(its[trial])
         /\ IsFiniteSet(Those(P)) /\ Those(P) \in SUBSET (1..Len(its[trial]))
         /\ R!Counted(P) = Cardinality(Those(P))
         /\ R!Counted(P) = 0 => Those(P) = {}
         /\ R!Counted(P) = Len(its[trial]) => Those(P) = DOMAIN its[trial]
<1> DEFINE n == Len(its[trial])
           S == Those(P)
<1>1. its[trial] \in Seq(R!IterationRecords)
  BY DEF RunTyped
<1>2. n \in Nat /\ DOMAIN its[trial] = 1..n
  BY <1>1
<1>3. S \in SUBSET (1..n) /\ R!Counted(P) = Cardinality(S)
  BY <1>2, CountsAlike DEF R!Counted, Those
<1> HIDE DEF n, S
<1>4. IsFiniteSet(1..n) /\ Cardinality(1..n) = n
  BY <1>2, FS_Interval
<1>5. IsFiniteSet(S) /\ (Cardinality(1..n) = Cardinality(S) => 1..n = S)
  BY <1>3, <1>4, FS_Subset
<1>6. Cardinality(S) = 0 => S = {}
  BY <1>5, FS_EmptySet
<1> QED BY <1>2, <1>3, <1>4, <1>5, <1>6 DEF n, S

\* k6 is only content if it counted no rejection, where the script lets none pass.
LEMMA EndLoadKeeps ==
  ASSUME RunInv, R!EndLoad
  PROVE  RunInv'
<1>1. /\ phase = "load" /\ phase' = "drain" /\ exit' = R!ThresholdsMet
      /\ UNCHANGED <<measured, trial, its, rows, settled, verdict>>
  BY DEF R!EndLoad
<1>2. RunTyped' /\ InTurn' /\ RowsFollow' /\ R!NoOrderUnheard' /\ R!NoPaymentUnheard'
  BY <1>1 DEF RunInv, RunTyped, InTurn, RowsFollow, R!NoOrderUnheard, R!NoPaymentUnheard, R!Kind, R!Good,
     R!Heard
<1>3. NoneInVain'
  <2> SUFFICES ASSUME R!ThresholdsMet, CountsRejections, NEW i \in DOMAIN its[trial],
                      its[trial][i].ended
               PROVE  its[trial][i].payment \in {"none", "heard"}
    BY <1>1 DEF NoneInVain, CountsRejections, R!Kind, R!Variant
  <2> DEFINE P == {a \in R!IterationRecords : a.ended /\ a.payment \in {"asked", "made"}}
  <2>1. R!Counted(P) = 0
    BY DEF R!ThresholdsMet, CountsRejections, R!Rejected
  <2>2. its[trial][i] \in R!IterationRecords
    BY DEF RunInv, RunTyped
  <2>3. RunTyped
    BY DEF RunInv
  <2>4. Those(P) = {}
    <3> HIDE DEF P
    <3> QED BY <2>1, <2>3, CountedOnes
  <2>5. ~(its[trial][i].payment \in {"asked", "made"})
    BY <2>2, <2>4 DEF Those
  <2> QED BY <2>2, <2>5 DEF R!IterationRecords, R!Stages
<1> QED BY <1>2, <1>3 DEF RunInv

\* The drain is the end of the trial's requests.
LEMMA DrainKeeps ==
  ASSUME RunInv, R!Drain
  PROVE  RunInv'
<1>1. /\ phase = "drain" /\ phase' = "drained" /\ settled' = settled \cup {trial}
      /\ UNCHANGED <<measured, trial, its, rows, exit, verdict>>
  BY DEF R!Drain, R!Settling
<1> QED BY <1>1 DEF RunInv, RunTyped, InTurn, RowsFollow, NoneInVain, R!NoOrderUnheard,
        R!NoPaymentUnheard, CountsRejections, R!Kind, R!Variant, R!Good, R!Heard

\* The measured trial begins with what it pays for itself.
LEMMA CleanUpKeeps ==
  ASSUME RunInv, R!CleanUpAndMeasure
  PROVE  RunInv'
<1>1. /\ trial = "warmup" /\ phase = "over" /\ trial' = "measured" /\ phase' = "load"
      /\ exit' = FALSE /\ UNCHANGED <<measured, its, settled, verdict>>
  BY DEF R!CleanUpAndMeasure
<1> DEFINE left == R!WithoutWarmup
           seeded == R!Seeded("measured", measured.kind)
<1>2. rows' = [k \in DOMAIN left \cup DOMAIN seeded |-> IF k \in DOMAIN seeded THEN seeded[k] ELSE left[k]]
  BY DEF R!CleanUpAndMeasure
<1>3. DOMAIN left = {}
  BY <1>1 DEF R!WithoutWarmup, RunInv, RunTyped
<1>4. /\ measured.kind # "worker" => DOMAIN seeded = {}
      /\ \A k \in DOMAIN seeded : seeded[k] = R!Unpaid /\ k = <<"measured", k[2]>>
  BY DEF R!Seeded
<1>5. /\ measured.kind # "worker" => DOMAIN rows' = {}
      /\ \A k \in DOMAIN rows' : rows'[k] = R!Unpaid /\ k = <<"measured", k[2]>>
  <2> HIDE DEF left, seeded
  <2> QED BY <1>2, <1>3, <1>4
<1>6. its["measured"] = <<>> /\ DOMAIN <<>> = {}
  BY <1>1 DEF RunInv, InTurn
<1>7. R!Unpaid \in OrderRow /\ R!Unpaid.status = "unpaid"
  BY DEF R!Unpaid, OrderRow
<1>8. RunTyped' /\ InTurn'
  BY <1>1, <1>5, <1>7 DEF RunInv, RunTyped, InTurn, R!Trials
<1>9. RowsFollow' /\ NoneInVain'
  BY <1>1, <1>5, <1>6, <1>7 DEF RowsFollow, NoneInVain, R!Kind
<1>10. R!NoOrderUnheard' /\ R!NoPaymentUnheard'
  BY <1>1 DEF RunInv, InTurn, R!NoOrderUnheard, R!NoPaymentUnheard, R!Good
<1> QED BY <1>8, <1>9, <1>10 DEF RunInv

\* A good verdict on orders: as many are heard of as there are.
LEMMA OrdersAreHeard ==
  ASSUME RunInv, R!Kind \in {"reservation", "business"}, R!Passes
  PROVE  \A k \in DOMAIN rows : R!Heard(k, "order")
<1> DEFINE P == {a \in R!IterationRecords : a.order = "heard"}
           n == Len(its[trial])
<1>1. Cardinality(DOMAIN rows) = R!Counted(P)
  BY CountsAlike DEF R!Passes, R!OrdersMatch, R!Orders, R!HeldCount, R!Buys
<1>2. RunTyped /\ RowsFollow
  BY DEF RunInv
<1>3. /\ n \in Nat /\ DOMAIN its[trial] = 1..n
      /\ Those(P) \in SUBSET (1..n) /\ R!Counted(P) = Cardinality(Those(P))
  <2> HIDE DEF P
  <2> QED BY <1>2, CountedOnes
<1>4. \A i \in Those(P) : <<trial, i>> \in DOMAIN rows
  BY <1>2 DEF Those, RowsFollow, R!Made
<1>5. \A k \in DOMAIN rows : k = <<trial, k[2]>> /\ k[2] \in 1..n
  BY <1>2, <1>3 DEF RunTyped, RowsFollow
<1>6. IsFiniteSet(DOMAIN rows)
  <2> HIDE DEF n
  <2> QED BY <1>3, <1>5, FinitelyMany
<1>7. \A k \in DOMAIN rows : \E i \in Those(P) : k = <<trial, i>>
  <2> DEFINE H == Those(P)
             D == DOMAIN rows
  <2> HIDE DEF n, P
  <2>1. n \in Nat /\ H \in SUBSET (1..n) /\ trial \in R!Trials
    BY <1>2, <1>3 DEF RunTyped
  <2>2. IsFiniteSet(D)
    BY <1>6
  <2>3. Cardinality(D) = Cardinality(H)
    BY <1>1, <1>3
  <2>4. \A i \in H : <<trial, i>> \in D
    BY <1>4
  <2> HIDE DEF H, D
  <2>5. \A k \in D : \E i \in H : k = <<trial, i>>
    BY <2>1, <2>2, <2>3, <2>4, CountsAgree
  <2> QED BY <2>5 DEF H, D
<1> QED
  <2> SUFFICES ASSUME NEW k \in DOMAIN rows
               PROVE  R!Heard(k, "order")
    OBVIOUS
  <2>1. PICK i \in Those(P) : k = <<trial, i>>
    BY <1>7
  <2> QED BY <2>1 DEF Those, R!Heard

\* A good verdict on payments: whoever has ended was told of the acceptance or asked for
\* none, and of those that were to succeed as many have as were accepted.
LEMMA PaymentsAreHeard ==
  ASSUME RunInv, R!Kind \in {"worker", "business"}, R!Passes, phase = "drained"
  PROVE  \A k \in DOMAIN rows : rows[k].status # "unpaid" =>
           /\ R!Variant # "late-payment" \/ R!Kind = "worker" => R!Heard(k, "payment")
           /\ rows[k].success => rows[k].status = "succeeded"
<1> DEFINE n == Len(its[trial])
           E == {a \in R!IterationRecords : a.ended}
           S == {"pending", "succeeded", "failed"}
           Accept == {k \in DOMAIN rows : rows[k].success /\ rows[k].status \in S}
           Confirm == {k \in DOMAIN rows : rows[k].success /\ rows[k].status \in {"succeeded"}}
<1>1. RunTyped /\ RowsFollow /\ NoneInVain
  BY DEF RunInv
<1>2. R!Counted(E) = n /\ Cardinality(Accept) = Cardinality(Confirm) /\ exit
  BY CountsAlike
     DEF R!Passes, R!Finished, R!Started, R!SuccessAccepted, R!SuccessConfirmed, R!SuccessInDb
<1>3. n \in Nat /\ DOMAIN its[trial] = 1..n /\ Those(E) = DOMAIN its[trial]
  <2> HIDE DEF E
  <2> QED BY <1>1, <1>2, CountedOnes
<1>4. \A i \in DOMAIN its[trial] : its[trial][i].ended
  BY <1>3 DEF Those
<1>5. \A k \in Accept : k = <<trial, k[2]>> /\ k[2] \in 1..n
  BY <1>1, <1>3 DEF RunTyped, RowsFollow
<1>6. IsFiniteSet(Accept) /\ Confirm \in SUBSET Accept
  <2>1. Confirm \in SUBSET Accept
    OBVIOUS
  <2> HIDE DEF n, Accept, Confirm
  <2> QED BY <1>3, <1>5, <2>1, FinitelyMany
<1>7. Accept = Confirm
  <2> HIDE DEF Accept, Confirm
  <2> QED BY <1>2, <1>6, FS_Subset
<1> SUFFICES ASSUME NEW k \in DOMAIN rows, rows[k].status # "unpaid"
             PROVE  /\ R!Variant # "late-payment" \/ R!Kind = "worker" => R!Heard(k, "payment")
                    /\ rows[k].success => rows[k].status = "succeeded"
  OBVIOUS
<1>8. k = <<trial, k[2]>> /\ k[2] \in DOMAIN its[trial] /\ R!Made(its[trial][k[2]].payment)
  BY <1>1 DEF RunTyped, RowsFollow
<1>9. R!Variant # "late-payment" \/ R!Kind = "worker" => R!Heard(k, "payment")
  <2> SUFFICES ASSUME R!Variant # "late-payment" \/ R!Kind = "worker"
               PROVE  its[trial][k[2]].payment = "heard" /\ k[1] = trial
    BY <1>8 DEF R!Heard
  <2>1. CountsRejections
    BY DEF CountsRejections
  <2>2. its[trial][k[2]].payment \in {"none", "heard"}
    BY <1>1, <1>2, <1>4, <1>8, <2>1 DEF NoneInVain
  <2> QED BY <1>8, <2>2 DEF R!Made
<1>10. rows[k].success => rows[k].status = "succeeded"
  BY <1>1, <1>7 DEF RunTyped, OrderRow
<1> QED BY <1>9, <1>10

\* The review.
LEMMA ReviewKeeps ==
  ASSUME RunInv, R!Review
  PROVE  RunInv'
<1>1. /\ phase = "drained" /\ phase' = "over"
      /\ verdict' = [verdict EXCEPT ![trial] = IF R!Passes THEN "good" ELSE "failed"]
      /\ UNCHANGED <<measured, trial, its, rows, settled, exit>>
  BY DEF R!Review
<1>2. /\ verdict \in [R!Trials -> {"none", "good", "failed"}] /\ trial \in R!Trials
      /\ verdict["measured"] = "none" /\ "measured" \in R!Trials
  BY <1>1 DEF RunInv, RunTyped, InTurn, R!Trials
<1>3. /\ verdict' \in [R!Trials -> {"none", "good", "failed"}]
      /\ verdict'["measured"] # "none" => trial = "measured"
      /\ verdict'["measured"] = "good" => R!Passes
  BY <1>1, <1>2
<1>4. RunTyped' /\ InTurn' /\ RowsFollow' /\ NoneInVain'
  BY <1>1, <1>3 DEF RunInv, RunTyped, InTurn, RowsFollow, NoneInVain, CountsRejections, R!Kind, R!Variant
<1>5. trial = "measured" => R!Kind = measured.kind /\ R!Variant = measured.variant
  BY DEF R!Kind, R!Variant
<1>6. R!NoOrderUnheard'
  <2> SUFFICES ASSUME R!Good({"reservation", "business"})'
               PROVE  \A k \in DOMAIN rows : R!Heard(k, "order")
    BY <1>1 DEF R!NoOrderUnheard, R!Heard
  <2>1. R!Passes /\ R!Kind \in {"reservation", "business"}
    BY <1>1, <1>3, <1>5 DEF R!Good
  <2> QED BY <2>1, OrdersAreHeard
<1>7. R!NoPaymentUnheard'
  <2> SUFFICES ASSUME R!Good({"worker", "business"})', NEW k \in DOMAIN rows, rows[k].status # "unpaid"
               PROVE  /\ measured.variant # "late-payment" => R!Heard(k, "payment")
                      /\ rows[k].success => rows[k].status = "succeeded"
    BY <1>1 DEF R!NoPaymentUnheard, R!Heard
  <2>1. R!Passes /\ R!Kind \in {"worker", "business"} /\ R!Variant = measured.variant
    BY <1>1, <1>3, <1>5 DEF R!Good
  <2> QED BY <1>1, <2>1, PaymentsAreHeard
<1> QED BY <1>4, <1>6, <1>7 DEF RunInv

-----------------------------------------------------------------------------
(* Theorems *)

\* Every step keeps the invariant.
LEMMA RunStep ==
  ASSUME RunInv, [R!RunNext]_R!runVars
  PROVE  RunInv'
<1>1. CASE UNCHANGED R!runVars
  BY <1>1 DEF R!runVars, RunInv, RunTyped, InTurn, RowsFollow, NoneInVain, R!NoOrderUnheard,
     R!NoPaymentUnheard, CountsRejections, R!Kind, R!Variant, R!Good, R!Heard
<1> QED BY <1>1, IterationsKeep, ArriveKeeps, WorkKeeps, EndLoadKeeps, DrainKeeps, ReviewKeeps,
        CleanUpKeeps DEF R!RunNext

\* Nothing has come, been made or been judged.
LEMMA RunStarts == R!RunInit => RunInv
<1> SUFFICES ASSUME R!RunInit PROVE RunInv
  OBVIOUS
<1>1. DOMAIN <<>> = {} /\ <<>> \in Seq(R!IterationRecords)
  OBVIOUS
<1>2. /\ trial = "warmup" /\ phase = "load" /\ its = [t \in R!Trials |-> <<>>] /\ rows = <<>>
      /\ settled = {} /\ verdict = [t \in R!Trials |-> "none"]
  BY DEF R!RunInit
<1>3. RunTyped /\ InTurn
  BY <1>1, <1>2 DEF RunTyped, InTurn, R!Trials
<1>4. RowsFollow /\ NoneInVain
  BY <1>1, <1>2 DEF RowsFollow, NoneInVain, R!Trials
<1>5. R!NoOrderUnheard /\ R!NoPaymentUnheard
  BY <1>2 DEF R!NoOrderUnheard, R!NoPaymentUnheard, R!Good
<1> QED BY <1>3, <1>4, <1>5 DEF RunInv

\* The invariant holds from the start on.
THEOREM RunInvariance == R!RunSpec => []RunInv
<1>1. RunInv /\ [R!RunNext]_R!runVars => RunInv'
  BY RunStep
<1> QED BY <1>1, RunStarts, PTL DEF R!RunSpec

\* What it says of a good verdict.
LEMMA RunIsRight ==
  ASSUME RunInv
  PROVE  R!VerdictsAreRight
  BY DEF RunInv, RunTyped, R!VerdictsAreRight, R!MeasuresItsOwn

\* A good verdict is right about every order and payment, though it only compares counts and
\* the service goes on with what nobody waits for; and the warm-up leaves nothing behind.
THEOREM GoodVerdictsAreRight == R!RunSpec => []R!VerdictsAreRight
<1>1. RunInv => R!VerdictsAreRight
  BY RunIsRight
<1> QED BY <1>1, RunInvariance, PTL

-----------------------------------------------------------------------------
(* The load *)

\* What an iteration is: its index is that of its arrival among those that found a
\* virtual user, and the order follows from it.
IsIteration(i) ==
  /\ i.index \in 0..Rate /\ i.order = L!OrderFor(i.name, i.index)
  /\ i.index < Cardinality(L!Of(i.name))

\* Iterations of a scenario are told apart by their index.
IndicesDiffer ==
  \A i, j \in started : i.name = j.name /\ i.index = j.index => i = j

\* The array is there, or at most one virtual user is reading the file for it.
LoadedOnce ==
  /\ reads = IF loaded THEN 1 ELSE 0
  /\ loaded => loading = {}
  /\ \A v, w \in loading : v = w

\* setup() has waited for the sale.
WaitedForSale ==
  /\ clock \in Nat
  /\ loadPhase \in {"running", "ended"} => L!SaleIsOpen
  /\ script = "business" => \A i \in started : i.at >= OpensAt

VusInv ==
  /\ IsFiniteSet(started) /\ droppedOf \in [L!Names -> Nat]
  /\ \A i \in started : IsIteration(i)
  /\ IndicesDiffer /\ LoadedOnce /\ WaitedForSale

-----------------------------------------------------------------------------

\* The iterations of a scenario can be counted.
LEMMA OfFinite ==
  ASSUME IsFiniteSet(started), NEW name
  PROVE  IsFiniteSet(L!Of(name)) /\ Cardinality(L!Of(name)) \in Nat
<1>1. L!Of(name) \in SUBSET started
  BY DEF L!Of
<1> QED BY <1>1, FS_Subset, FS_CardinalityType

\* The invariant gives what the load should be.
LEMMA InvIsPlan ==
  ASSUME L!LoadIsPlanned, VusInv
  PROVE  L!LoadIsAsPlanned
<1>1. L!ReadOnce
  BY DEF VusInv, LoadedOnce, L!ReadOnce
<1>2. L!EachPaysItsOwn
  <2>1. SUFFICES ASSUME NEW i \in started, i.name = "payments"
                 PROVE  /\ i.order # L!NoOrder
                        /\ \A j \in started : j # i => j.order # i.order
    BY DEF L!EachPaysItsOwn
  <2>2. \A j \in started : j.index \in 0..Rate /\ j.order = L!OrderFor(j.name, j.index)
    BY DEF VusInv, IsIteration
  <2>3. i.order = i.index + 1 /\ i.index \in Nat
    BY <2>1, <2>2 DEF L!OrderFor, L!LoadIsPlanned
  <2>4. ASSUME NEW j \in started, j.order = i.order
        PROVE  j = i
    <3>1. j.index \in Nat /\ j.order # L!NoOrder
      BY <2>2, <2>3, <2>4 DEF L!NoOrder, L!LoadIsPlanned
    <3>2. j.name = "payments" /\ j.order = j.index + 1
      BY <2>2, <3>1 DEF L!OrderFor
    <3>3. j.index = i.index
      BY <2>3, <2>4, <3>1, <3>2
    <3> QED BY <2>1, <3>2, <3>3 DEF VusInv, IndicesDiffer
  <2> QED BY <2>3, <2>4 DEF L!NoOrder
<1>3. L!NobodyIsTooEarly
  BY DEF VusInv, WaitedForSale, L!NobodyIsTooEarly
<1> QED BY <1>1, <1>2, <1>3 DEF L!LoadIsAsPlanned

\* An arrival that finds a virtual user gets an index that nobody had.
LEMMA BeginKeeps ==
  ASSUME L!LoadIsPlanned, VusInv, NEW name \in L!Names, loadPhase = "running", L!ArrivedOf(name) <= Rate,
         L!Begin(name), UNCHANGED <<script, clock, loadPhase, loading, loaded, reads>>
  PROVE  VusInv'
<1> DEFINE n == Cardinality(L!Of(name))
<1>1. PICK v \in L!Idle(name) :
        started' = started \cup {[name |-> name, index |-> n, by |-> v,
                                  order |-> L!OrderFor(name, n), at |-> clock]}
  BY CountsAlike DEF L!Begin, L!IterationInTest
<1> DEFINE new == [name |-> name, index |-> n, by |-> v, order |-> L!OrderFor(name, n), at |-> clock]
<1>2. /\ started' = started \cup {new} /\ droppedOf' = droppedOf /\ IsFiniteSet(started)
      /\ new.name = name /\ new.index = n /\ new.order = L!OrderFor(name, n) /\ new.at = clock
  BY <1>1 DEF VusInv, L!Begin
<1> HIDE DEF new
<1>3. n \in Nat /\ IsFiniteSet(L!Of(name)) /\ droppedOf[name] \in Nat
  BY OfFinite DEF VusInv
<1>4. n \in 0..Rate
  <2>1. n + droppedOf[name] <= Rate
    BY CountsAlike DEF L!ArrivedOf
  <2> HIDE DEF n
  <2> QED BY <1>3, <2>1 DEF L!LoadIsPlanned
<1>5. new \notin L!Of(name)
  <2>1. \A i \in started : i.name = name => i.index < n /\ i.index \in Nat
    BY DEF VusInv, IsIteration
  <2> HIDE DEF n
  <2> QED BY <1>2, <1>3, <2>1 DEF L!Of
<1>6. L!Of(name)' = L!Of(name) \cup {new}
  BY <1>2 DEF L!Of
<1>7. Cardinality(L!Of(name))' = n + 1
  BY <1>3, <1>5, <1>6, FS_AddElement
<1>8. \A other : other # name => L!Of(other)' = L!Of(other)
  BY <1>2 DEF L!Of
<1>9. IsFiniteSet(started') /\ droppedOf' \in [L!Names' -> Nat]
  BY <1>2, FS_AddElement DEF VusInv, L!Names
<1>10. ASSUME NEW i \in started'
       PROVE  IsIteration(i)'
  <2>1. CASE i = new
    <3> HIDE DEF n
    <3> QED BY <1>2, <1>3, <1>4, <1>7, <2>1 DEF IsIteration, L!OrderFor, L!NoOrder
  <2>2. CASE i \in started
    <3>1. /\ i.index \in 0..Rate /\ i.order = L!OrderFor(i.name, i.index)
          /\ i.index < Cardinality(L!Of(i.name))
      BY <2>2 DEF VusInv, IsIteration
    <3>2. CASE i.name = name
      <4>1. i.index < n
        BY <3>1, <3>2
      <4>2. i.index < n + 1
        <5> HIDE DEF n
        <5> QED BY <1>3, <3>1, <4>1
      <4> QED BY <1>7, <3>1, <3>2, <4>2 DEF IsIteration
    <3>3. CASE i.name # name
      BY <1>8, <3>1, <3>3 DEF IsIteration
    <3> QED BY <3>2, <3>3
  <2> QED BY <1>2, <2>1, <2>2
<1>11. IndicesDiffer'
  <2>1. ASSUME NEW i \in started, i.name = new.name
        PROVE  i.index # new.index
    <3>1. i.index < n /\ i.index \in Nat
      BY <1>2, <2>1 DEF VusInv, IsIteration
    <3> HIDE DEF n
    <3> QED BY <1>2, <1>3, <3>1
  <2> QED BY <1>2, <2>1 DEF VusInv, IndicesDiffer
<1>12. LoadedOnce' /\ WaitedForSale'
  <2>1. script = "business" => clock >= OpensAt
    BY DEF VusInv, WaitedForSale, L!SaleIsOpen
  <2> QED BY <1>2, <2>1 DEF VusInv, LoadedOnce, WaitedForSale, L!SaleIsOpen
<1> QED BY <1>9, <1>10, <1>11, <1>12 DEF VusInv

\* Steps that begin no iteration keep what was begun.
LEMMA KeepsStarted ==
  ASSUME VusInv, UNCHANGED <<script, started>>, droppedOf' \in [L!Names -> Nat],
         LoadedOnce', WaitedForSale'
  PROVE  VusInv'
<1>1. \A name : L!Of(name)' = L!Of(name)
  BY DEF L!Of
<1>2. \A i \in started : IsIteration(i)'
  BY <1>1 DEF VusInv, IsIteration
<1> QED BY <1>2 DEF VusInv, IndicesDiffer, L!Names

\* Every step keeps the invariant.
LEMMA VusStep ==
  ASSUME L!LoadIsPlanned, VusInv, [L!VusNext]_L!vuVars
  PROVE  VusInv'
<1>0. droppedOf \in [L!Names -> Nat] /\ LoadedOnce /\ WaitedForSale
  BY DEF VusInv
<1>1. ASSUME NEW v \in L!AllVus, L!Evaluate(v) \/ L!Construct(v) \/ L!LoadOrders(v) \/ L!Finish(v)
      PROVE  VusInv'
  <2>1. /\ UNCHANGED <<script, started, droppedOf, clock, loadPhase>> /\ LoadedOnce'
    BY <1>0, <1>1 DEF L!Evaluate, L!Construct, L!LoadOrders, L!Finish, LoadedOnce, L!Alone
  <2>2. WaitedForSale'
    BY <1>0, <2>1 DEF WaitedForSale, L!SaleIsOpen
  <2> QED BY <1>0, <2>1, <2>2, KeepsStarted
<1>2. CASE L!SetupBegins \/ L!SetupEnds \/ L!End \/ L!VusTick
  <2>1. UNCHANGED <<script, started, droppedOf, loading, loaded, reads>>
    BY <1>2 DEF L!SetupBegins, L!SetupEnds, L!End, L!VusTick
  <2>2. LoadedOnce'
    BY <1>0, <2>1 DEF LoadedOnce
  <2>3. WaitedForSale'
    <3>1. CASE L!VusTick
      BY <1>0, <2>1, <3>1 DEF L!VusTick, WaitedForSale, L!SaleIsOpen, L!LoadIsPlanned
    <3>2. CASE L!SetupBegins \/ L!SetupEnds \/ L!End
      BY <1>0, <2>1, <3>2 DEF L!SetupBegins, L!SetupEnds, L!End, WaitedForSale, L!SaleIsOpen
    <3> QED BY <1>2, <3>1, <3>2
  <2> QED BY <1>0, <2>1, <2>2, <2>3, KeepsStarted
<1>3. ASSUME NEW name \in L!Names, L!Arrive(name)
      PROVE  VusInv'
  <2>1. /\ loadPhase = "running" /\ L!ArrivedOf(name) <= Rate
        /\ UNCHANGED <<script, clock, loadPhase, loading, loaded, reads>>
    BY <1>3 DEF L!Arrive
  <2>2. CASE L!Begin(name)
    BY <2>1, <2>2, BeginKeeps
  <2>3. CASE L!Drop(name)
    <3>1. UNCHANGED started /\ droppedOf' = [droppedOf EXCEPT ![name] = @ + 1]
      BY <2>3 DEF L!Drop
    <3>2. LoadedOnce' /\ WaitedForSale'
      BY <1>0, <2>1, <3>1 DEF LoadedOnce, WaitedForSale, L!SaleIsOpen
    <3>3. droppedOf' \in [L!Names -> Nat]
      BY <1>0, <3>1
    <3> QED BY <2>1, <3>1, <3>2, <3>3, KeepsStarted
  <2> QED BY <1>3, <2>2, <2>3 DEF L!Arrive
<1>4. CASE UNCHANGED L!vuVars
  <2>1. LoadedOnce' /\ WaitedForSale' /\ UNCHANGED <<script, started, droppedOf>>
    BY <1>0, <1>4 DEF L!vuVars, LoadedOnce, WaitedForSale, L!SaleIsOpen
  <2> QED BY <1>0, <2>1, KeepsStarted
<1> QED BY <1>1, <1>2, <1>3, <1>4 DEF L!VusNext

\* It holds before k6 evaluates anything.
LEMMA VusStarts ==
  ASSUME L!VusInit
  PROVE  VusInv
  BY FS_EmptySet DEF L!VusInit, VusInv, IndicesDiffer, LoadedOnce, WaitedForSale

\* The inductive invariant of k6's run of a script, for any rate, fixture, number of
\* virtual users and time at which the sale opens.
THEOREM VusInvariance ==
  ASSUME L!LoadIsPlanned
  PROVE  L!VusSpec => []VusInv
<1>1. L!VusInit => VusInv
  BY VusStarts
<1>2. VusInv /\ [L!VusNext]_L!vuVars => VusInv'
  BY VusStep
<1> QED BY <1>1, <1>2, PTL DEF L!VusSpec

\* Whichever virtual users run them and however many arrivals are dropped, the payments of a
\* trial are for orders of their own, the list is read once, and nobody comes too early.
THEOREM LoadKeepsThePlan ==
  ASSUME L!LoadIsPlanned
  PROVE  L!VusSpec => []L!LoadIsAsPlanned
<1>1. VusInv => L!LoadIsAsPlanned
  BY InvIsPlan
<1> QED BY <1>1, VusInvariance, PTL

-----------------------------------------------------------------------------
(* Side by side *)

\* The trials that run are those of their module, whatever stands beside them.
THEOREM VerdictsOfRunsFit == MCSpec => []VerdictsFit
<1> DEFINE Inv == part = "run" => RunInv
<1>1. MCInit => Inv
  BY RunStarts DEF MCInit
<1>2. Inv /\ [MCNext]_<<part, planVars, loadVars, verdictVars>> => Inv'
  <2>1. SUFFICES ASSUME Inv, [MCNext]_<<part, planVars, loadVars, verdictVars>>, part' = "run"
                 PROVE  RunInv'
    OBVIOUS
  <2>2. part = "run" /\ RunInv
    BY <2>1 DEF MCNext
  <2>3. CASE R!RunNext
    BY <2>2, <2>3, RunStep
  <2>4. CASE UNCHANGED verdictVars
    <3>1. UNCHANGED R!runVars
      BY <2>4 DEF verdictVars, R!runVars
    <3> QED BY <2>2, <3>1, RunStep
  <2> QED BY <2>1, <2>2, <2>3, <2>4 DEF MCNext
<1>3. Inv => VerdictsFit
  BY RunIsRight DEF VerdictsFit
<1> QED BY <1>1, <1>2, <1>3, PTL DEF MCSpec

\* The load of every trial is the one that was planned.
THEOREM LoadsFit == MCSpec => []LoadFits
<1> DEFINE Inv == part = "load" => VusInv
<1>1. MCInit => Inv
  BY VusStarts DEF MCInit
<1>2. Inv /\ [MCNext]_<<part, planVars, loadVars, verdictVars>> => Inv'
  <2>1. SUFFICES ASSUME Inv, [MCNext]_<<part, planVars, loadVars, verdictVars>>, part' = "load"
                 PROVE  VusInv'
    OBVIOUS
  <2>2. part = "load" /\ VusInv
    BY <2>1 DEF MCNext
  <2>3. CASE L!VusNext
    BY <2>2, <2>3, LoadAssumption, VusStep
  <2>4. CASE UNCHANGED loadVars
    <3>1. UNCHANGED L!vuVars
      BY <2>4 DEF loadVars, L!vuVars
    <3> QED BY <2>2, <3>1, LoadAssumption, VusStep
  <2> QED BY <2>1, <2>2, <2>3, <2>4 DEF MCNext
<1>3. Inv => LoadFits
  BY LoadAssumption, InvIsPlan DEF LoadFits
<1> QED BY <1>1, <1>2, <1>3, PTL DEF MCSpec

-----------------------------------------------------------------------------
(* The plans: what the scripts set and the review requires *)

\* What target.ps1 lets through, and the warm-up before it.
Planned(c) ==
  /\ c.scenario \in Stages /\ c.variant \in TrialVariants /\ c.delay \in {0, 200}
  /\ c.rps \in Nat /\ c.paymentRps \in Nat /\ c.seconds \in Nat
  /\ c.users \in Nat /\ c.users % 10 = 0 /\ c.stock \in Nat
  /\ c.scenario = "warmup" => c.variant = "normal"

\* A trial is of what is asked for or of its warm-up.
PlanInv == part = "plan" => asked \in Configs /\ config \in {asked, Warmup(asked)}

\* What target.ps1 looks at first.
LEMMA AllowedFirst ==
  ASSUME NEW c, Allowed(c)
  PROVE  /\ c.seconds \in 1..180 /\ c.users \in Nat /\ c.users % 10 = 0 /\ c.stock \in Nat
         /\ c.scenario # "business" =>
              c.variant = "normal" \/ (c.scenario \in {"waiting", "isolation"} /\ c.variant = "abandon")
  BY SMT DEF Allowed

\* Each configuration that it lets through, and its warm-up, has what the scripts look at.
LEMMA ConfigsArePlanned ==
  ASSUME NEW c \in Configs
  PROVE  Planned(c) /\ Planned(Warmup(c))
<1>1. /\ c \in [scenario : Stages, variant : TrialVariants, delay : {0, 200}, rps : Rates,
                paymentRps : Rates, seconds : Durations, stock : Stocks, users : Users]
      /\ c.seconds \in 1..180 /\ c.users \in Nat /\ c.users % 10 = 0 /\ c.stock \in Nat
      /\ c.scenario # "business" =>
           c.variant = "normal" \/ (c.scenario \in {"waiting", "isolation"} /\ c.variant = "abandon")
  <2>1. /\ c \in [scenario : Stages, variant : TrialVariants, delay : {0, 200}, rps : Rates,
                  paymentRps : Rates, seconds : Durations, stock : Stocks, users : Users]
        /\ Allowed(c)
    BY Zenon DEF Configs
  <2>2. /\ c.seconds \in 1..180 /\ c.users \in Nat /\ c.users % 10 = 0 /\ c.stock \in Nat
        /\ c.scenario # "business" =>
             c.variant = "normal" \/ (c.scenario \in {"waiting", "isolation"} /\ c.variant = "abandon")
    BY <2>1, AllowedFirst
  <2> QED BY <2>1, <2>2
<1>2. Planned(c)
  <2>1. /\ c.scenario \in Stages /\ c.variant \in TrialVariants /\ c.delay \in {0, 200}
        /\ c.rps \in Nat /\ c.paymentRps \in Nat
    BY <1>1, RatesAssumption
  <2>2. c.seconds \in Nat
    BY <1>1
  <2> QED BY <1>1, <2>1, <2>2 DEF Planned
<1>3. /\ Warmup(c).scenario = "warmup" /\ Warmup(c).variant = "normal" /\ Warmup(c).seconds = 40
      /\ Warmup(c).users = 270 /\ Warmup(c).stock = 400
      /\ Warmup(c).rps = 10 /\ Warmup(c).delay = c.delay /\ Warmup(c).paymentRps = c.paymentRps
  BY <1>1 DEF Warmup
<1>4. Planned(Warmup(c))
  BY <1>2, <1>3 DEF Planned, Stages, TrialVariants
<1> QED BY <1>2, <1>4

\* Every threshold that the review requires is one that the script sets.
LEMMA RequiredIsSet ==
  ASSUME NEW c, Planned(c)
  PROVE  Required(c) \subseteq Thresholds(c)
<1>1. SUFFICES ASSUME NEW x \in Required(c)
               PROVE  x \in Thresholds(c)
  OBVIOUS
<1>2. Normal(c) = PrimaryNormal(c)
  BY DEF Normal, PrimaryNormal
<1>3. CASE c.scenario = "warmup"
  BY <1>1, <1>2, <1>3 DEF Required, Unless, Thresholds, WarmupThresholds
<1>4. CASE c.scenario \in {"worker", "isolation"}
  BY <1>1, <1>2, <1>4 DEF Required, Unless, Thresholds, CommonThresholds
<1>5. CASE c.scenario = "waiting"
  BY <1>1, <1>2, <1>5 DEF Required, Unless, Thresholds, CommonThresholds
<1>6. CASE c.scenario = "reservation"
  BY <1>1, <1>2, <1>6 DEF Required, Unless, Thresholds, CommonThresholds
<1>7. CASE c.scenario = "business"
  BY <1>1, <1>2, <1>7 DEF Required, Unless, Thresholds, BusinessThresholds, CommonThresholds
<1> QED BY <1>3, <1>4, <1>5, <1>6, <1>7 DEF Planned, Stages

\* So it was before.
LEMMA EarlierRequiredIsSet ==
  ASSUME NEW c, Planned(c), c.scenario # "warmup"
  PROVE  EarlierRequired(c) \subseteq EarlierThresholds(c)
<1>1. SUFFICES ASSUME NEW x \in EarlierRequired(c)
               PROVE  x \in EarlierThresholds(c)
  OBVIOUS
<1>2. CASE c.scenario \in {"worker", "isolation"}
  BY <1>1, <1>2 DEF EarlierRequired, Unless, EarlierThresholds, EarlierWorker, EarlierIsolation,
     EarlierCommon
<1>3. CASE c.scenario \in {"waiting", "reservation", "business"}
  BY <1>1, <1>3 DEF EarlierRequired, Unless, EarlierThresholds, EarlierWaiting, EarlierReservation,
     EarlierBusiness, EarlierCommon
<1> QED BY <1>2, <1>3 DEF Planned, Stages

\* Where each kind of threshold is set.
LEMMA MetricOf ==
  ASSUME NEW metric, NEW endpoint, NEW limit
  PROVE  <<metric, endpoint, limit>>[1] = metric
  OBVIOUS

\* Which thresholds are of latencies.
LEMMA TimedThresholds ==
  /\ \A t \in PaymentThresholds \cup PurchaseIsFast \cup WaitingThresholds \cup NoRejection :
       t[1] # "target_payment_ms"
  /\ \E t \in PaymentThresholds : t[1] = "target_payment_accepted_ms"
  /\ \E t \in PurchaseIsFast : t[1] = "target_purchase_accepted_ms"
  /\ \E t \in WaitingThresholds : t[1] = "target_latency"
  /\ \A t \in NoRejection : ~IsTimed(t) /\ t[1] # "target_unexpected"
  /\ \A t \in PurchaseIsFast \cup WaitingThresholds : t[1] # "target_payment_accepted_ms"
<1>1. <<"target_payment_accepted_ms", "", "p(95)<=1000">> \in PaymentThresholds
  BY DEF PaymentThresholds
<1>2. <<"target_purchase_accepted_ms", "", "p(99)<=1000">> \in PurchaseIsFast
  BY DEF PurchaseIsFast
<1>3. <<"target_latency", "waiting_join", "p(99)<=1000">> \in WaitingThresholds
  BY DEF WaitingThresholds
<1>4. \A t \in WaitingThresholds : t[1] \in {"target_latency", "target_unexpected"}
  <2>1. \A t \in WaitingThresholds : \E endpoint :
          \/ t = <<"target_latency", endpoint, "p(99)<=1000">>
          \/ t = <<"target_unexpected", endpoint, "rate==0">>
    BY DEF WaitingThresholds
  <2>2. \A endpoint :
          /\ <<"target_latency", endpoint, "p(99)<=1000">>[1] = "target_latency"
          /\ <<"target_unexpected", endpoint, "rate==0">>[1] = "target_unexpected"
    BY MetricOf
  <2> QED BY <2>1, <2>2
<1>5. \A t \in PaymentThresholds : t[1] \in {"target_payment_accepted_ms", "target_unexpected"}
  <2>1. \A t \in PaymentThresholds :
          \/ t = <<"target_payment_accepted_ms", "", "p(95)<=1000">>
          \/ t = <<"target_unexpected", "payment_accept", "rate==0">>
    BY DEF PaymentThresholds
  <2>2. /\ <<"target_payment_accepted_ms", "", "p(95)<=1000">>[1] = "target_payment_accepted_ms"
        /\ <<"target_unexpected", "payment_accept", "rate==0">>[1] = "target_unexpected"
    BY MetricOf
  <2> QED BY <2>1, <2>2
<1>6. \A t \in PurchaseIsFast : t[1] = "target_purchase_accepted_ms"
  <2>1. \A t \in PurchaseIsFast : t = <<"target_purchase_accepted_ms", "", "p(99)<=1000">>
    BY DEF PurchaseIsFast
  <2>2. <<"target_purchase_accepted_ms", "", "p(99)<=1000">>[1] = "target_purchase_accepted_ms"
    BY MetricOf
  <2> QED BY <2>1, <2>2
<1>7. \A t \in NoRejection : t[1] = "target_payment_rejected"
  <2>1. \A t \in NoRejection : t = <<"target_payment_rejected", "", "rate==0">>
    BY DEF NoRejection
  <2>2. <<"target_payment_rejected", "", "rate==0">>[1] = "target_payment_rejected"
    BY MetricOf
  <2> QED BY <2>1, <2>2
<1>8. /\ \E t \in PaymentThresholds : t[1] = "target_payment_accepted_ms"
      /\ \E t \in PurchaseIsFast : t[1] = "target_purchase_accepted_ms"
      /\ \E t \in WaitingThresholds : t[1] = "target_latency"
  BY <1>1, <1>2, <1>3, MetricOf
<1> QED BY <1>4, <1>5, <1>6, <1>7, <1>8 DEF IsTimed

\* What is set in which configuration.
LEMMA SetThresholds ==
  ASSUME NEW c, Planned(c)
  PROVE  /\ \A t \in Thresholds(c) :
              \/ t[1] \in {"dropped_iterations", "target_payment_rejected"}
              \/ t[1] = "target_unexpected" /\ (c.scenario = "warmup" \/ PrimaryNormal(c))
              \/ /\ t \in PaymentThresholds \cup PurchaseIsFast \cup WaitingThresholds
                 /\ c.scenario # "warmup" /\ PrimaryNormal(c)
         /\ PrimaryNormal(c) /\ c.scenario \in {"worker", "isolation", "business"} =>
              PaymentThresholds \subseteq Thresholds(c)
         /\ PrimaryNormal(c) /\ c.scenario \in {"reservation", "business"} =>
              PurchaseIsFast \subseteq Thresholds(c)
         /\ PrimaryNormal(c) /\ c.scenario \in {"waiting", "business"} =>
              WaitingThresholds \subseteq Thresholds(c)
<1>1. \A t \in Thresholds(c) :
        \/ t = <<"dropped_iterations", "", "count==0">>
        \/ t \in NoRejection
        \/ /\ t = <<"target_unexpected", "", "rate==0">> \/ t = <<"target_unexpected", "", "rate<=0.001">>
           /\ c.scenario = "warmup" \/ PrimaryNormal(c)
        \/ /\ t \in PaymentThresholds \cup PurchaseIsFast \cup WaitingThresholds
           /\ c.scenario # "warmup" /\ PrimaryNormal(c)
  <2>1. CASE c.scenario = "warmup"
    BY <2>1 DEF Thresholds, WarmupThresholds
  <2>2. CASE c.scenario \in {"worker", "isolation"}
    BY <2>2 DEF Thresholds, CommonThresholds, Unless
  <2>3. CASE c.scenario \in {"waiting", "reservation"}
    BY <2>3 DEF Thresholds, CommonThresholds, Unless
  <2>4. CASE c.scenario = "business"
    BY <2>4 DEF Thresholds, BusinessThresholds, CommonThresholds, Unless
  <2> QED BY <2>1, <2>2, <2>3, <2>4 DEF Planned, Stages
<1>2. \A t \in NoRejection : t[1] = "target_payment_rejected"
  BY MetricOf DEF NoRejection
<1>3. /\ <<"dropped_iterations", "", "count==0">>[1] = "dropped_iterations"
      /\ <<"target_unexpected", "", "rate==0">>[1] = "target_unexpected"
      /\ <<"target_unexpected", "", "rate<=0.001">>[1] = "target_unexpected"
  BY MetricOf
<1>4. ASSUME NEW t \in Thresholds(c)
      PROVE  \/ t[1] \in {"dropped_iterations", "target_payment_rejected"}
             \/ t[1] = "target_unexpected" /\ (c.scenario = "warmup" \/ PrimaryNormal(c))
             \/ /\ t \in PaymentThresholds \cup PurchaseIsFast \cup WaitingThresholds
                /\ c.scenario # "warmup" /\ PrimaryNormal(c)
  BY <1>1, <1>2, <1>3
<1>5. PrimaryNormal(c) /\ c.scenario \in {"worker", "isolation", "business"} =>
        PaymentThresholds \subseteq Thresholds(c)
  BY DEF Thresholds, BusinessThresholds, CommonThresholds, Unless
<1>6. PrimaryNormal(c) /\ c.scenario \in {"reservation", "business"} =>
        PurchaseIsFast \subseteq Thresholds(c)
  BY DEF Thresholds, BusinessThresholds, CommonThresholds, Unless
<1>7. PrimaryNormal(c) /\ c.scenario \in {"waiting", "business"} =>
        WaitingThresholds \subseteq Thresholds(c)
  BY DEF Thresholds, BusinessThresholds, CommonThresholds, Unless
<1> QED BY <1>4, <1>5, <1>6, <1>7

\* Latencies are judged where nothing is disturbed on purpose.
LEMMA NormalIsTimed ==
  ASSUME Planned(config)
  PROVE  OnlyNormalIsTimed
<1> DEFINE Judged == PrimaryNormal(config) /\ config.scenario # "warmup"
<1>1. ASSUME NEW t \in Thresholds(config), IsTimed(t)
      PROVE  Judged /\ t[1] # "target_payment_ms"
  <2>1. t[1] \notin {"dropped_iterations", "target_payment_rejected", "target_unexpected"}
    BY <1>1 DEF IsTimed
  <2>2. t \in PaymentThresholds \cup PurchaseIsFast \cup WaitingThresholds /\ Judged
    BY <2>1, SetThresholds
  <2> QED BY <2>2, TimedThresholds
<1>2. ASSUME Judged
      PROVE  \E t \in Thresholds(config) : IsTimed(t)
  <2>1. CASE config.scenario \in {"worker", "isolation", "business"}
    BY <1>2, <2>1, SetThresholds, TimedThresholds DEF IsTimed
  <2>2. CASE config.scenario = "reservation"
    BY <1>2, <2>2, SetThresholds, TimedThresholds DEF IsTimed
  <2>3. CASE config.scenario = "waiting"
    BY <1>2, <2>3, SetThresholds, TimedThresholds DEF IsTimed
  <2> QED BY <1>2, <2>1, <2>2, <2>3 DEF Planned, Stages
<1>3. ASSUME config.scenario = "business"
      PROVE  PaymentsAreTimed(config) = PrimaryNormal(config)
  <2>1. PrimaryNormal(config) => PaymentsAreTimed(config)
    BY <1>3, SetThresholds, TimedThresholds DEF PaymentsAreTimed
  <2>2. PaymentsAreTimed(config) => PrimaryNormal(config)
    BY <1>1 DEF PaymentsAreTimed, IsTimed
  <2> QED BY <2>1, <2>2 DEF PaymentsAreTimed, PrimaryNormal
<1>4. \A t \in Thresholds(config) : t[1] # "target_payment_ms"
  BY <1>1 DEF IsTimed
<1>5. ASSUME ~PrimaryNormal(config), config.scenario # "warmup", NEW t \in Thresholds(config)
      PROVE  t[1] # "target_unexpected"
  BY <1>5, SetThresholds
<1>6. (\E t \in Thresholds(config) : IsTimed(t)) = Judged
  BY <1>1, <1>2 DEF PrimaryNormal
<1> QED BY <1>3, <1>4, <1>5, <1>6 DEF OnlyNormalIsTimed

\* The windows of a script follow each other.
LEMMA WindowsAdjoin ==
  ASSUME Planned(config)
  PROVE  WindowsFollow
<1>1. SUFFICES ASSUME NEW w \in Windows(config), w.start # 0,
                      ~(w.name = "returning" /\ w.start = 300)
               PROVE  \E v \in Windows(config) : v.start + v.seconds = w.start
  BY DEF WindowsFollow
<1>2. CASE config.scenario = "business"
  <2> DEFINE opening == Window("opening", (config.users * 6) \div 10, 5, 0, 5)
             middle == Window("middle", (config.users * 3) \div 10, 10, 5, 10)
             tail == Window("tail", config.users \div 10, 45, 15, 45)
             returning == Window("returning", config.stock, 60, 300, 60)
  <2>1. /\ {opening, middle, tail} \subseteq Windows(config)
        /\ w \in {opening, middle, tail, returning}
    BY <1>2 DEF Windows, BusinessWindows
  <2>2. /\ opening.start = 0 /\ opening.seconds = 5 /\ middle.start = 5 /\ middle.seconds = 10
        /\ tail.start = 15 /\ returning.start = 300 /\ returning.name = "returning"
    BY DEF Window
  <2> HIDE DEF opening, middle, tail, returning
  <2>3. opening.start + opening.seconds = middle.start /\ middle.start + middle.seconds = tail.start
    BY <2>2
  <2> QED BY <1>1, <2>1, <2>2, <2>3
<1>3. CASE config.scenario = "warmup"
  <2> DEFINE Of4(name, rate, start) == Window(name, rate, 10, start, 1)
  <2>1. Windows(config) = {Of4("warmup_1", 2, 0), Of4("warmup_2", 5, 10), Of4("warmup_3", 10, 20),
                           Of4("warmup_4", 10, 30)}
    <3>1. DOMAIN WarmupRates = {"warmup_1", "warmup_2", "warmup_3", "warmup_4"}
      BY DEF WarmupRates
    <3>2. /\ WarmupRates["warmup_1"] = 2 /\ WarmupRates["warmup_2"] = 5
          /\ WarmupRates["warmup_3"] = 10 /\ WarmupRates["warmup_4"] = 10
          /\ WarmupStarts["warmup_1"] = 0 /\ WarmupStarts["warmup_2"] = 10
          /\ WarmupStarts["warmup_3"] = 20 /\ WarmupStarts["warmup_4"] = 30
      BY DEF WarmupRates, WarmupStarts
    <3> QED BY <1>3, <3>1, <3>2 DEF Windows, WarmupWindows
  <2>2. \A name, rate, start :
          Of4(name, rate, start).start = start /\ Of4(name, rate, start).seconds = 10
    BY DEF Window
  <2> HIDE DEF Of4
  <2> QED BY <1>1, <2>1, <2>2
<1>4. CASE config.scenario \notin {"business", "warmup"}
  <2>1. \E name, rate : w = Steady(name, rate, config)
    BY <1>4 DEF Planned, Stages, Windows, IsolationWindows, ReservationWindows, WaitingWindows,
       WorkerWindows
  <2>2. w.start = 0
    BY <2>1 DEF Steady, Window
  <2> QED BY <1>1, <2>2
<1> QED BY <1>2, <1>3, <1>4

\* There is an order to pay for, for every arrival and the one more.
LEMMA FixtureSuffices ==
  ASSUME Planned(config)
  PROVE  FixtureLasts
<1>1. SUFFICES ASSUME config.scenario \in {"worker", "isolation"}, NEW w \in Windows(config),
                      w.name = "payments"
               PROVE  ArrivalsOf(w) + 1 <= PaymentFixture(config)
  BY DEF FixtureLasts
<1> DEFINE rate == IF config.scenario = "isolation" THEN config.paymentRps ELSE config.rps
<1>2. w = Steady("payments", rate, config)
  <2>1. CASE config.scenario = "worker"
    BY <1>1, <2>1 DEF Windows, WorkerWindows
  <2>2. CASE config.scenario = "isolation"
    <3>1. w = Steady("browsers", config.rps, config) \/ w = Steady("payments", config.paymentRps, config)
      BY <1>1, <2>2 DEF Windows, IsolationWindows
    <3>2. Steady("browsers", config.rps, config).name = "browsers"
      BY DEF Steady, Window
    <3> QED BY <1>1, <2>2, <3>1, <3>2
  <2> QED BY <1>1, <2>1, <2>2
<1>3. w.rate = rate /\ w.seconds = config.seconds /\ w.unit = 1
  BY <1>2 DEF Steady, Window
<1>4. rate \in Nat /\ config.seconds \in Nat
  BY DEF Planned
<1>5. PaymentFixture(config) = rate * config.seconds + 1
  BY <1>1 DEF PaymentFixture, PaymentArrivals
<1>6. ArrivalsOf(w) = (rate * config.seconds) \div 1
  BY <1>3 DEF ArrivalsOf
<1> HIDE DEF rate
<1>7. rate * config.seconds \in Nat
  BY <1>4
<1>8. \A n \in Nat : n \div 1 + 1 <= n + 1
  OBVIOUS
<1> QED BY <1>5, <1>6, <1>7, <1>8

\* A normal trial is judged by all it was judged by before.
LEMMA NoLessIsAsked ==
  ASSUME Planned(config)
  PROVE  NormalIsJudgedNoLess
<1>1. SUFFICES ASSUME HadTrial, PrimaryNormal(config)
               PROVE  /\ EarlierThresholds(config) \ PaymentsAreFast \subseteq Thresholds(config)
                      /\ PaymentsAreFast \subseteq EarlierThresholds(config) =>
                           PaymentThresholds \subseteq Thresholds(config)
  BY DEF NormalIsJudgedNoLess
<1>2. ASSUME NEW x \in EarlierThresholds(config), x \notin PaymentsAreFast
      PROVE  x \in Thresholds(config)
  <2>1. CASE config.scenario \in {"worker", "isolation"}
    BY <1>1, <1>2, <2>1 DEF EarlierThresholds, EarlierWorker, EarlierIsolation, EarlierCommon,
       Thresholds, CommonThresholds, Unless
  <2>2. CASE config.scenario \in {"waiting", "reservation"}
    BY <1>1, <1>2, <2>2 DEF EarlierThresholds, EarlierWaiting, EarlierReservation, EarlierCommon,
       Thresholds, CommonThresholds, Unless
  <2>3. CASE config.scenario = "business"
    BY <1>1, <1>2, <2>3 DEF EarlierThresholds, EarlierBusiness, EarlierCommon,
       Thresholds, BusinessThresholds, CommonThresholds, Unless
  <2> QED BY <1>1, <2>1, <2>2, <2>3 DEF Planned, Stages, HadTrial
<1>3. ASSUME PaymentsAreFast \subseteq EarlierThresholds(config)
      PROVE  config.scenario \in {"worker", "isolation", "business"}
  <2>1. SUFFICES ASSUME config.scenario \in {"waiting", "reservation"}
                 PROVE  FALSE
    BY <1>1 DEF Planned, Stages, HadTrial
  <2>2. <<"target_payment_ms", "", "p(95)<=1000">> \in EarlierThresholds(config)
    BY <1>3 DEF PaymentsAreFast
  <2>3. EarlierThresholds(config) \subseteq
          {<<"dropped_iterations", "", "count==0">>, <<"target_unexpected", "", "rate<=0.001">>,
           <<"target_purchase_accepted_ms", "", "p(99)<=1000">>}
    BY <2>1 DEF EarlierThresholds, EarlierWaiting, EarlierReservation, EarlierCommon, PurchaseIsFast
  <2> QED BY <2>2, <2>3
<1> QED BY <1>1, <1>2, <1>3, SetThresholds

-----------------------------------------------------------------------------
(* The plans: arrivals are added up over the windows of a script *)

\* The arrivals of all windows of S.
ArrivalsIn(S) == MapThenSumSet(ArrivalsOf, S)

\* The sums over the subsets of S, one element after the other.
AreSums(f, S) ==
  f = [s \in SUBSET S |->
         IF s = {} THEN 0
         ELSE ArrivalsOf(CHOOSE x \in s : TRUE) + f[s \ {CHOOSE x \in s : TRUE}]]

\* What the fold of the community modules is, if there are such sums.
LEMMA FoldIsSum ==
  ASSUME NEW S, NEW g, AreSums(g, S)
  PROVE  \E f : AreSums(f, S) /\ MapThenSumSet(ArrivalsOf, S) = f[S]
<1> DEFINE f == CHOOSE f : f = [s \in SUBSET S |->
         IF s = {} THEN 0
         ELSE ArrivalsOf(CHOOSE x \in s : TRUE) + f[s \ {CHOOSE x \in s : TRUE}]]
<1>1. AreSums(f, S)
  BY DEF AreSums
<1>2. MapThenSumSet(ArrivalsOf, S) = f[S]
  BY DEF MapThenSumSet, MapThenFoldSet
<1> QED BY <1>1, <1>2

\* Such sums, of windows that bring so many arrivals each.
Sums(f, S) == AreSums(f, S) /\ \A x \in S : ArrivalsOf(x) \in Int
TakesOne(f, s) == \E x \in s : f[s] = ArrivalsOf(x) + f[s \ {x}]

\* A sum takes one element from its set, whichever.
LEMMA SumTakesOne ==
  ASSUME NEW S, NEW f, Sums(f, S), NEW s \in SUBSET S
  PROVE  /\ s = {} => f[s] = 0
         /\ s # {} => TakesOne(f, s)
<1>1. f[s] = IF s = {} THEN 0
             ELSE ArrivalsOf(CHOOSE x \in s : TRUE) + f[s \ {CHOOSE x \in s : TRUE}]
  BY DEF AreSums, Sums
<1>2. s # {} => (CHOOSE x \in s : TRUE) \in s
  OBVIOUS
<1> QED BY <1>1, <1>2 DEF TakesOne

\* There are such sums over as many windows as a script has.
LEMMA SumsExist ==
  ASSUME NEW a, NEW b, NEW c, NEW d, NEW S \in SUBSET {a, b, c, d},
         \A x \in {a, b, c, d} : ArrivalsOf(x) \in Int
  PROVE  \E g : AreSums(g, S)
<1> DEFINE A(s) == IF a \in s THEN ArrivalsOf(a) ELSE 0
           B(s) == IF b \in s \ {a} THEN ArrivalsOf(b) ELSE 0
           C(s) == IF c \in s \ {a, b} THEN ArrivalsOf(c) ELSE 0
           D(s) == IF d \in s \ {a, b, c} THEN ArrivalsOf(d) ELSE 0
           g == [s \in SUBSET S |-> A(s) + B(s) + C(s) + D(s)]
<1>1. ASSUME NEW s \in SUBSET S, NEW x \in s
      PROVE  g[s] = ArrivalsOf(x) + g[s \ {x}]
  <2>1. /\ A(s) \in Int /\ B(s) \in Int /\ C(s) \in Int /\ D(s) \in Int
        /\ g[s] = A(s) + B(s) + C(s) + D(s) /\ s \ {x} \in SUBSET S
        /\ g[s \ {x}] = A(s \ {x}) + B(s \ {x}) + C(s \ {x}) + D(s \ {x})
    OBVIOUS
  <2>2. CASE x = a
    <3>1. /\ A(s) = ArrivalsOf(x) /\ A(s \ {x}) = 0 /\ B(s \ {x}) = B(s)
          /\ C(s \ {x}) = C(s) /\ D(s \ {x}) = D(s)
      BY <2>2
    <3> HIDE DEF A, B, C, D, g
    <3> QED BY <2>1, <3>1
  <2>3. CASE x = b /\ x # a
    <3>1. /\ B(s) = ArrivalsOf(x) /\ B(s \ {x}) = 0 /\ A(s \ {x}) = A(s)
          /\ C(s \ {x}) = C(s) /\ D(s \ {x}) = D(s)
      BY <2>3
    <3> HIDE DEF A, B, C, D, g
    <3> QED BY <2>1, <3>1
  <2>4. CASE x = c /\ x \notin {a, b}
    <3>1. /\ C(s) = ArrivalsOf(x) /\ C(s \ {x}) = 0 /\ A(s \ {x}) = A(s)
          /\ B(s \ {x}) = B(s) /\ D(s \ {x}) = D(s)
      BY <2>4
    <3> HIDE DEF A, B, C, D, g
    <3> QED BY <2>1, <3>1
  <2>5. CASE x = d /\ x \notin {a, b, c}
    <3>1. /\ D(s) = ArrivalsOf(x) /\ D(s \ {x}) = 0 /\ A(s \ {x}) = A(s)
          /\ B(s \ {x}) = B(s) /\ C(s \ {x}) = C(s)
      BY <2>5
    <3> HIDE DEF A, B, C, D, g
    <3> QED BY <2>1, <3>1
  <2> QED BY <2>2, <2>3, <2>4, <2>5
<1>2. {} \in SUBSET S /\ g[{}] = 0
  OBVIOUS
<1>3. \A s \in SUBSET S : s # {} => (CHOOSE x \in s : TRUE) \in s
  OBVIOUS
<1>4. /\ g = [s \in SUBSET S |-> g[s]]
      /\ \A s \in SUBSET S :
           g[s] = IF s = {} THEN 0
                  ELSE ArrivalsOf(CHOOSE x \in s : TRUE) + g[s \ {CHOOSE x \in s : TRUE}]
  <2>1. g = [s \in SUBSET S |-> g[s]]
    OBVIOUS
  <2> HIDE DEF g
  <2> QED BY <1>1, <1>2, <1>3, <2>1
<1> HIDE DEF g
<1>5. AreSums(g, S)
  BY <1>4 DEF AreSums
<1> QED BY <1>5

\* So the sum is what one adds up, of one window, ...
LEMMA SumOfOne ==
  ASSUME NEW S, NEW f, Sums(f, S),
         NEW x \in S
  PROVE  f[{x}] = ArrivalsOf(x)
<1>1. {x} \in SUBSET S /\ {x} # {} /\ {} \in SUBSET S
  OBVIOUS
<1>2. f[{x}] = ArrivalsOf(x) + f[{x} \ {x}]
  <2>1. PICK u \in {x} : f[{x}] = ArrivalsOf(u) + f[{x} \ {u}]
    BY SumTakesOne, <1>1 DEF TakesOne
  <2>2. u = x
    OBVIOUS
  <2> QED BY <2>1, <2>2
<1>3. {x} \ {x} = {} /\ f[{}] = 0
  BY <1>1, SumTakesOne
<1>4. f[{x} \ {x}] = 0
  BY Zenon, <1>3
<1>5. ArrivalsOf(x) + 0 = ArrivalsOf(x)
  <2>1. ArrivalsOf(x) \in Int
    BY DEF Sums
  <2> QED BY <2>1
<1> QED BY <1>2, <1>4, <1>5

\* ... of two, ...
LEMMA SumOfTwo ==
  ASSUME NEW S, NEW f, Sums(f, S),
         NEW x \in S, NEW y \in S, x # y, NEW T, T = {x, y}
  PROVE  f[T] = ArrivalsOf(x) + ArrivalsOf(y)
<1>1. T \ {x} = {y} /\ T \ {y} = {x} /\ T \in SUBSET S /\ T # {}
  OBVIOUS
<1>2. PICK u \in T : f[T] = ArrivalsOf(u) + f[T \ {u}]
  <2>1. TakesOne(f, T)
    BY <1>1, SumTakesOne
  <2> QED BY <2>1 DEF TakesOne
<1>3. f[{x}] = ArrivalsOf(x) /\ f[{y}] = ArrivalsOf(y)
  BY SumOfOne
<1>4. ArrivalsOf(x) \in Int /\ ArrivalsOf(y) \in Int
  BY DEF Sums
<1>5. ArrivalsOf(x) + ArrivalsOf(y) = ArrivalsOf(y) + ArrivalsOf(x)
  BY <1>4
<1>6. CASE u = x
  BY <1>1, <1>2, <1>3, <1>6
<1>7. CASE u = y
  BY <1>1, <1>2, <1>3, <1>5, <1>7
<1> QED BY <1>6, <1>7

\* ... of three, ...
LEMMA SumOfThree ==
  ASSUME NEW S, NEW f, Sums(f, S),
         NEW x \in S, NEW y \in S, NEW z \in S, x # y, x # z, y # z, NEW T, T = {x, y, z}
  PROVE  f[T] = ArrivalsOf(x) + ArrivalsOf(y) + ArrivalsOf(z)
<1>1. /\ T \ {x} = {y, z} /\ T \ {y} = {x, z} /\ T \ {z} = {x, y}
      /\ T \in SUBSET S /\ T # {}
  OBVIOUS
<1>2. PICK u \in T : f[T] = ArrivalsOf(u) + f[T \ {u}]
  <2>1. TakesOne(f, T)
    BY <1>1, SumTakesOne
  <2> QED BY <2>1 DEF TakesOne
<1>3. /\ f[{y, z}] = ArrivalsOf(y) + ArrivalsOf(z) /\ f[{x, z}] = ArrivalsOf(x) + ArrivalsOf(z)
      /\ f[{x, y}] = ArrivalsOf(x) + ArrivalsOf(y)
  <2>1. f[{y, z}] = ArrivalsOf(y) + ArrivalsOf(z)
    BY SumOfTwo
  <2>2. f[{x, z}] = ArrivalsOf(x) + ArrivalsOf(z)
    BY SumOfTwo
  <2>3. f[{x, y}] = ArrivalsOf(x) + ArrivalsOf(y)
    BY SumOfTwo
  <2> QED BY <2>1, <2>2, <2>3
<1>4. ArrivalsOf(x) \in Int /\ ArrivalsOf(y) \in Int /\ ArrivalsOf(z) \in Int
  BY DEF Sums
<1>5. /\ ArrivalsOf(x) + (ArrivalsOf(y) + ArrivalsOf(z)) = ArrivalsOf(x) + ArrivalsOf(y) + ArrivalsOf(z)
      /\ ArrivalsOf(y) + (ArrivalsOf(x) + ArrivalsOf(z)) = ArrivalsOf(x) + ArrivalsOf(y) + ArrivalsOf(z)
      /\ ArrivalsOf(z) + (ArrivalsOf(x) + ArrivalsOf(y)) = ArrivalsOf(x) + ArrivalsOf(y) + ArrivalsOf(z)
  BY <1>4
<1>6. CASE u = x
  BY <1>1, <1>2, <1>3, <1>5, <1>6
<1>7. CASE u = y
  BY <1>1, <1>2, <1>3, <1>5, <1>7
<1>8. CASE u = z
  BY <1>1, <1>2, <1>3, <1>5, <1>8
<1> QED BY <1>6, <1>7, <1>8

\* ... and of four.
LEMMA SumOfFour ==
  ASSUME NEW S, NEW f, Sums(f, S),
         NEW a \in S, NEW b \in S, NEW c \in S, NEW d \in S,
         a # b, a # c, b # c, a # d, b # d, c # d, NEW T, T = {a, b, c, d}
  PROVE  f[T] = ArrivalsOf(a) + ArrivalsOf(b) + ArrivalsOf(c) + ArrivalsOf(d)
<1>1. /\ T \ {a} = {b, c, d} /\ T \ {b} = {a, c, d}
      /\ T \ {c} = {a, b, d} /\ T \ {d} = {a, b, c}
      /\ T \in SUBSET S /\ T # {}
  OBVIOUS
<1>2. PICK u \in T : f[T] = ArrivalsOf(u) + f[T \ {u}]
  <2>1. TakesOne(f, T)
    BY <1>1, SumTakesOne
  <2> QED BY <2>1 DEF TakesOne
<1>3. /\ f[{b, c, d}] = ArrivalsOf(b) + ArrivalsOf(c) + ArrivalsOf(d)
      /\ f[{a, c, d}] = ArrivalsOf(a) + ArrivalsOf(c) + ArrivalsOf(d)
      /\ f[{a, b, d}] = ArrivalsOf(a) + ArrivalsOf(b) + ArrivalsOf(d)
      /\ f[{a, b, c}] = ArrivalsOf(a) + ArrivalsOf(b) + ArrivalsOf(c)
  <2>1. f[{b, c, d}] = ArrivalsOf(b) + ArrivalsOf(c) + ArrivalsOf(d)
    BY SumOfThree
  <2>2. f[{a, c, d}] = ArrivalsOf(a) + ArrivalsOf(c) + ArrivalsOf(d)
    BY SumOfThree
  <2>3. f[{a, b, d}] = ArrivalsOf(a) + ArrivalsOf(b) + ArrivalsOf(d)
    BY SumOfThree
  <2>4. f[{a, b, c}] = ArrivalsOf(a) + ArrivalsOf(b) + ArrivalsOf(c)
    BY SumOfThree
  <2> QED BY <2>1, <2>2, <2>3, <2>4
<1> DEFINE A == ArrivalsOf(a)
           B == ArrivalsOf(b)
           C == ArrivalsOf(c)
           D == ArrivalsOf(d)
<1>4. A \in Int /\ B \in Int /\ C \in Int /\ D \in Int
  BY DEF Sums
<1> HIDE DEF A, B, C, D
<1>5. /\ A + (B + C + D) = A + B + C + D /\ B + (A + C + D) = A + B + C + D
      /\ C + (A + B + D) = A + B + C + D /\ D + (A + B + C) = A + B + C + D
  BY <1>4
<1>6. CASE u = a
  BY <1>1, <1>2, <1>3, <1>5, <1>6 DEF A, B, C, D
<1>7. CASE u = b
  BY <1>1, <1>2, <1>3, <1>5, <1>7 DEF A, B, C, D
<1>8. CASE u = c
  BY <1>1, <1>2, <1>3, <1>5, <1>8 DEF A, B, C, D
<1>9. CASE u = d
  BY <1>1, <1>2, <1>3, <1>5, <1>9 DEF A, B, C, D
<1> QED BY <1>6, <1>7, <1>8, <1>9

\* The arrivals of a set of windows are such a sum.
LEMMA ArrivalsAreSum ==
  ASSUME NEW a, NEW b, NEW c, NEW d, \A x \in {a, b, c, d} : ArrivalsOf(x) \in Int,
         NEW S \in SUBSET {a, b, c, d}
  PROVE  \E f : Sums(f, S) /\ ArrivalsIn(S) = f[S]
<1>1. PICK g : AreSums(g, S)
  BY SumsExist
<1> QED BY <1>1, FoldIsSum DEF ArrivalsIn, Sums

\* As many windows as there are, and what they bring: of one, ...
LEMMA OneWindow ==
  ASSUME NEW a, ArrivalsOf(a) \in Int
  PROVE  ArrivalsIn({a}) = ArrivalsOf(a) /\ IsFiniteSet({a}) /\ Cardinality({a}) = 1
<1>1. ArrivalsIn({a}) = ArrivalsOf(a)
  <2> DEFINE S == {a}
  <2>1. S \in SUBSET {a, a, a, a} /\ \A x \in {a, a, a, a} : ArrivalsOf(x) \in Int
    OBVIOUS
  <2>2. PICK f : Sums(f, S) /\ ArrivalsIn(S) = f[S]
    <3> HIDE DEF S
    <3> QED BY <2>1, ArrivalsAreSum
  <2>3. a \in S
    OBVIOUS
  <2>4. f[{a}] = ArrivalsOf(a)
    <3> HIDE DEF S
    <3> QED BY <2>2, <2>3, SumOfOne
  <2> QED BY <2>2, <2>4
<1> QED BY <1>1, FS_Singleton

\* ... of two, ...
LEMMA TwoWindows ==
  ASSUME NEW a, NEW b, a # b, ArrivalsOf(a) \in Int, ArrivalsOf(b) \in Int
  PROVE  /\ ArrivalsIn({a, b}) = ArrivalsOf(a) + ArrivalsOf(b)
         /\ IsFiniteSet({a, b}) /\ Cardinality({a, b}) = 2
<1>1. ArrivalsIn({a, b}) = ArrivalsOf(a) + ArrivalsOf(b)
  <2> DEFINE S == {a, b}
  <2>1. S \in SUBSET {a, b, a, a} /\ \A x \in {a, b, a, a} : ArrivalsOf(x) \in Int
    OBVIOUS
  <2>2. a \in S /\ b \in S
    OBVIOUS
  <2>3. PICK f : Sums(f, S) /\ ArrivalsIn(S) = f[S]
    <3> HIDE DEF S
    <3> QED BY <2>1, ArrivalsAreSum
  <2>4. f[S] = ArrivalsOf(a) + ArrivalsOf(b)
    BY <2>2, <2>3, SumOfTwo
  <2> QED BY <2>3, <2>4
<1>2. IsFiniteSet({a, b}) /\ Cardinality({a, b}) = 2
  <2>1. {a, b} = {a} \cup {b} /\ b \notin {a}
    OBVIOUS
  <2>2. IsFiniteSet({a}) /\ Cardinality({a}) = 1
    BY OneWindow
  <2>3. /\ IsFiniteSet({a} \cup {b})
        /\ Cardinality({a} \cup {b}) = 1 + 1
    BY <2>1, <2>2, FS_AddElement
  <2> QED BY <2>1, <2>3
<1> QED BY <1>1, <1>2

\* ... of three, ...
LEMMA ThreeWindows ==
  ASSUME NEW a, NEW b, NEW c, a # b, a # c, b # c,
         ArrivalsOf(a) \in Int, ArrivalsOf(b) \in Int, ArrivalsOf(c) \in Int
  PROVE  /\ ArrivalsIn({a, b, c}) = ArrivalsOf(a) + ArrivalsOf(b) + ArrivalsOf(c)
         /\ IsFiniteSet({a, b, c}) /\ Cardinality({a, b, c}) = 3
<1>1. ArrivalsIn({a, b, c}) = ArrivalsOf(a) + ArrivalsOf(b) + ArrivalsOf(c)
  <2> DEFINE S == {a, b, c}
  <2>1. S \in SUBSET {a, b, c, a} /\ \A x \in {a, b, c, a} : ArrivalsOf(x) \in Int
    OBVIOUS
  <2>2. a \in S /\ b \in S /\ c \in S
    OBVIOUS
  <2>3. PICK f : Sums(f, S) /\ ArrivalsIn(S) = f[S]
    <3> HIDE DEF S
    <3> QED BY <2>1, ArrivalsAreSum
  <2>4. f[S] = ArrivalsOf(a) + ArrivalsOf(b) + ArrivalsOf(c)
    BY <2>2, <2>3, SumOfThree
  <2> QED BY <2>3, <2>4
<1>2. IsFiniteSet({a, b, c}) /\ Cardinality({a, b, c}) = 3
  <2>1. {a, b, c} = {a, b} \cup {c} /\ c \notin {a, b}
    OBVIOUS
  <2>2. IsFiniteSet({a, b}) /\ Cardinality({a, b}) = 2
    BY TwoWindows
  <2>3. /\ IsFiniteSet({a, b} \cup {c})
        /\ Cardinality({a, b} \cup {c}) = 2 + 1
    BY <2>1, <2>2, FS_AddElement
  <2> QED BY <2>1, <2>3
<1> QED BY <1>1, <1>2

\* ... of four.
LEMMA FourWindows ==
  ASSUME NEW a, NEW b, NEW c, NEW d, a # b, a # c, b # c, a # d, b # d, c # d,
         ArrivalsOf(a) \in Int, ArrivalsOf(b) \in Int, ArrivalsOf(c) \in Int, ArrivalsOf(d) \in Int
  PROVE  /\ ArrivalsIn({a, b, c, d}) = ArrivalsOf(a) + ArrivalsOf(b) + ArrivalsOf(c) + ArrivalsOf(d)
         /\ Cardinality({a, b, c, d}) = 4
<1>1. ArrivalsIn({a, b, c, d}) = ArrivalsOf(a) + ArrivalsOf(b) + ArrivalsOf(c) + ArrivalsOf(d)
  <2> DEFINE S == {a, b, c, d}
  <2>1. S \in SUBSET {a, b, c, d} /\ \A x \in {a, b, c, d} : ArrivalsOf(x) \in Int
    OBVIOUS
  <2>2. a \in S /\ b \in S /\ c \in S /\ d \in S
    OBVIOUS
  <2>3. PICK f : Sums(f, S) /\ ArrivalsIn(S) = f[S]
    <3> HIDE DEF S
    <3> QED BY <2>1, ArrivalsAreSum
  <2>4. f[S] = ArrivalsOf(a) + ArrivalsOf(b) + ArrivalsOf(c) + ArrivalsOf(d)
    BY <2>2, <2>3, SumOfFour
  <2> QED BY <2>3, <2>4
<1>2. Cardinality({a, b, c, d}) = 4
  <2>1. {a, b, c, d} = {a, b, c} \cup {d} /\ d \notin {a, b, c}
    OBVIOUS
  <2>2. IsFiniteSet({a, b, c}) /\ Cardinality({a, b, c}) = 3
    BY ThreeWindows
  <2>3. /\ IsFiniteSet({a, b, c} \cup {d})
        /\ Cardinality({a, b, c} \cup {d}) = 3 + 1
    BY <2>1, <2>2, FS_AddElement
  <2> QED BY <2>1, <2>3
<1> QED BY <1>1, <1>2

\* What a window of a script is.
LEMMA WindowFields ==
  ASSUME NEW name, NEW rate, NEW seconds, NEW start, NEW unit
  PROVE  /\ Window(name, rate, seconds, start, unit).name = name
         /\ ArrivalsOf(Window(name, rate, seconds, start, unit)) = (rate * seconds) \div unit
  BY DEF Window, ArrivalsOf

\* Arrivals per second over so many seconds are their product.
LEMMA SteadyArrivals ==
  ASSUME NEW name, NEW rate \in Nat, NEW c, c.seconds \in Nat
  PROVE  /\ ArrivalsOf(Steady(name, rate, c)) = rate * c.seconds
         /\ ArrivalsOf(Steady(name, rate, c)) \in Int
         /\ Steady(name, rate, c).name = name
<1>1. /\ ArrivalsOf(Steady(name, rate, c)) = (rate * c.seconds) \div 1
      /\ Steady(name, rate, c).name = name
  BY WindowFields DEF Steady
<1>2. rate * c.seconds \in Nat
  OBVIOUS
<1>3. \A n \in Nat : n \div 1 = n
  OBVIOUS
<1> QED BY <1>1, <1>2, <1>3

\* The steady scripts bring what the review expects of them.
LEMMA SteadySums ==
  ASSUME NEW c, Planned(c), c.scenario \notin {"business", "warmup"}
  PROVE  /\ Arrivals(c) = Expected(c)
         /\ Cardinality(Windows(c)) = Tolerance(c)
<1>1. c.rps \in Nat /\ c.paymentRps \in Nat /\ c.seconds \in Nat
  BY DEF Planned
<1>2. CASE c.scenario # "isolation"
  <2>1. PICK name : Windows(c) = {Steady(name, c.rps, c)}
    BY <1>2 DEF Planned, Stages, Windows, ReservationWindows, WaitingWindows, WorkerWindows
  <2> DEFINE a == Steady(name, c.rps, c)
  <2>2. ArrivalsOf(a) = c.rps * c.seconds /\ ArrivalsOf(a) \in Int
    BY <1>1, SteadyArrivals
  <2> HIDE DEF a
  <2>3. ArrivalsIn({a}) = ArrivalsOf(a) /\ Cardinality({a}) = 1
    BY <2>2, OneWindow
  <2> QED BY <1>2, <2>1, <2>2, <2>3 DEF a, Arrivals, ArrivalsIn, Expected, Tolerance
<1>3. CASE c.scenario = "isolation"
  <2> DEFINE a == Steady("browsers", c.rps, c)
             b == Steady("payments", c.paymentRps, c)
  <2>1. Windows(c) = {a, b}
    BY <1>3 DEF Windows, IsolationWindows
  <2>2. /\ ArrivalsOf(a) = c.rps * c.seconds /\ ArrivalsOf(a) \in Int
        /\ ArrivalsOf(b) = c.paymentRps * c.seconds /\ ArrivalsOf(b) \in Int
        /\ a.name = "browsers" /\ b.name = "payments"
    BY <1>1, SteadyArrivals
  <2> HIDE DEF a, b
  <2>3. a # b
    BY <2>2
  <2>4. ArrivalsIn({a, b}) = ArrivalsOf(a) + ArrivalsOf(b) /\ Cardinality({a, b}) = 2
    BY <2>2, <2>3, TwoWindows
  <2>5. \A m, n, s \in Nat : m * s + n * s = (m + n) * s
    OBVIOUS
  <2>6. c.rps * c.seconds + c.paymentRps * c.seconds = (c.rps + c.paymentRps) * c.seconds
    BY <1>1, <2>5
  <2>7. Arrivals(c) = (c.rps + c.paymentRps) * c.seconds
    BY <2>1, <2>2, <2>4, <2>6 DEF Arrivals, ArrivalsIn
  <2>8. Cardinality(Windows(c)) = 2
    BY <2>1, <2>4
  <2> QED BY <1>3, <2>7, <2>8 DEF Expected, Tolerance
<1> QED BY <1>2, <1>3

\* The warm-up brings its 270 arrivals.
LEMMA WarmupSums ==
  ASSUME NEW c, c.scenario = "warmup"
  PROVE  /\ Arrivals(c) = Expected(c)
         /\ Cardinality(Windows(c)) = Tolerance(c)
<1> DEFINE w1 == Window("warmup_1", 2, 10, 0, 1)
           w2 == Window("warmup_2", 5, 10, 10, 1)
           w3 == Window("warmup_3", 10, 10, 20, 1)
           w4 == Window("warmup_4", 10, 10, 30, 1)
<1>1. Windows(c) = {w1, w2, w3, w4}
  <2>1. DOMAIN WarmupRates = {"warmup_1", "warmup_2", "warmup_3", "warmup_4"}
    BY DEF WarmupRates
  <2>2. /\ WarmupRates["warmup_1"] = 2 /\ WarmupRates["warmup_2"] = 5
        /\ WarmupRates["warmup_3"] = 10 /\ WarmupRates["warmup_4"] = 10
        /\ WarmupStarts["warmup_1"] = 0 /\ WarmupStarts["warmup_2"] = 10
        /\ WarmupStarts["warmup_3"] = 20 /\ WarmupStarts["warmup_4"] = 30
    BY DEF WarmupRates, WarmupStarts
  <2> QED BY <2>1, <2>2 DEF Windows, WarmupWindows
<1>2. /\ w1.name = "warmup_1" /\ w2.name = "warmup_2" /\ w3.name = "warmup_3" /\ w4.name = "warmup_4"
      /\ ArrivalsOf(w1) = (2 * 10) \div 1 /\ ArrivalsOf(w2) = (5 * 10) \div 1
      /\ ArrivalsOf(w3) = (10 * 10) \div 1 /\ ArrivalsOf(w4) = (10 * 10) \div 1
  BY WindowFields
<1> HIDE DEF w1, w2, w3, w4
<1>3. ArrivalsOf(w1) = 20 /\ ArrivalsOf(w2) = 50 /\ ArrivalsOf(w3) = 100 /\ ArrivalsOf(w4) = 100
  BY <1>2
<1>4. w1 # w2 /\ w1 # w3 /\ w2 # w3 /\ w1 # w4 /\ w2 # w4 /\ w3 # w4
  BY <1>2
<1>5. /\ ArrivalsIn({w1, w2, w3, w4}) =
           ArrivalsOf(w1) + ArrivalsOf(w2) + ArrivalsOf(w3) + ArrivalsOf(w4)
      /\ Cardinality({w1, w2, w3, w4}) = 4
  <2>1. /\ ArrivalsOf(w1) \in Int /\ ArrivalsOf(w2) \in Int
        /\ ArrivalsOf(w3) \in Int /\ ArrivalsOf(w4) \in Int
    BY <1>3
  <2> QED BY <1>4, <2>1, FourWindows
<1>6. Arrivals(c) = 270
  BY <1>1, <1>3, <1>5 DEF Arrivals, ArrivalsIn
<1>7. Cardinality(Windows(c)) = 4
  BY <1>1, <1>5
<1> QED BY <1>6, <1>7 DEF Expected, Tolerance

\* A sale brings each user once, and as many more as there is stock when they return.
LEMMA BusinessSums ==
  ASSUME NEW c, Planned(c), c.scenario = "business"
  PROVE  /\ Arrivals(c) = Expected(c)
         /\ Cardinality(Windows(c)) = Tolerance(c)
<1> DEFINE opening == Window("opening", (c.users * 6) \div 10, 5, 0, 5)
           middle == Window("middle", (c.users * 3) \div 10, 10, 5, 10)
           tail == Window("tail", c.users \div 10, 45, 15, 45)
           returning == Window("returning", c.stock, 60, 300, 60)
<1>1. Windows(c) = IF c.variant = "abandon" THEN {opening, middle, tail, returning}
                   ELSE {opening, middle, tail}
  BY DEF Windows, BusinessWindows
<1>2. /\ opening.name = "opening" /\ middle.name = "middle" /\ tail.name = "tail"
      /\ returning.name = "returning"
      /\ ArrivalsOf(opening) = (((c.users * 6) \div 10) * 5) \div 5
      /\ ArrivalsOf(middle) = (((c.users * 3) \div 10) * 10) \div 10
      /\ ArrivalsOf(tail) = ((c.users \div 10) * 45) \div 45
      /\ ArrivalsOf(returning) = (c.stock * 60) \div 60
  BY WindowFields
<1> HIDE DEF opening, middle, tail, returning
<1>3. c.users \in Nat /\ c.users % 10 = 0 /\ c.stock \in Nat
  BY DEF Planned
<1>4. PICK k \in Nat : c.users = 10 * k
  BY <1>3
<1>5. /\ ArrivalsOf(opening) = 6 * k /\ ArrivalsOf(middle) = 3 * k /\ ArrivalsOf(tail) = k
      /\ ArrivalsOf(returning) = c.stock
  <2>1. /\ ((((10 * k) * 6) \div 10) * 5) \div 5 = 6 * k
        /\ ((((10 * k) * 3) \div 10) * 10) \div 10 = 3 * k
        /\ (((10 * k) \div 10) * 45) \div 45 = k
    OBVIOUS
  <2>2. (c.stock * 60) \div 60 = c.stock
    BY <1>3
  <2> QED BY <1>2, <1>4, <2>1, <2>2
<1>6. /\ opening # middle /\ opening # tail /\ middle # tail
      /\ opening # returning /\ middle # returning /\ tail # returning
  BY <1>2
<1>7. /\ ArrivalsIn({opening, middle, tail}) =
           ArrivalsOf(opening) + ArrivalsOf(middle) + ArrivalsOf(tail)
      /\ Cardinality({opening, middle, tail}) = 3
      /\ ArrivalsIn({opening, middle, tail, returning}) =
           ArrivalsOf(opening) + ArrivalsOf(middle) + ArrivalsOf(tail) + ArrivalsOf(returning)
      /\ Cardinality({opening, middle, tail, returning}) = 4
  <2>1. /\ ArrivalsOf(opening) \in Int /\ ArrivalsOf(middle) \in Int
        /\ ArrivalsOf(tail) \in Int /\ ArrivalsOf(returning) \in Int
    BY <1>3, <1>5
  <2> QED BY <1>6, <2>1, ThreeWindows, FourWindows
<1>8. Arrivals(c) = IF c.variant = "abandon" THEN c.users + c.stock ELSE c.users
  BY <1>1, <1>3, <1>4, <1>5, <1>7 DEF Arrivals, ArrivalsIn
<1>9. Cardinality(Windows(c)) = IF c.variant = "abandon" THEN 4 ELSE 3
  BY <1>1, <1>7
<1> QED BY <1>3, <1>8, <1>9 DEF Expected, Tolerance

\* The review counts the arrivals that the scripts bring, the earlier one as well.
LEMMA ArrivalsAreCounted ==
  ASSUME Planned(config)
  PROVE  ArrivalsAgree /\ EarlierArrivalsAgree
<1>1. ArrivalsAgree
  BY SteadySums, WarmupSums, BusinessSums DEF ArrivalsAgree
<1>2. ASSUME HadTrial
      PROVE  EarlierWindows(config) = Windows(config) /\ EarlierExpected(config) = Expected(config)
  <2>1. EarlierWindows(config) = Windows(config)
    BY <1>2 DEF Planned, Stages, HadTrial, EarlierWindows, EarlierBusinessWindows,
       EarlierIsolationWindows, EarlierSteadyWindows, Windows, IsolationWindows, ReservationWindows,
       WaitingWindows, WorkerWindows
  <2> QED BY <1>2, <2>1 DEF HadTrial, EarlierExpected, Expected
<1> QED BY <1>1, <1>2 DEF ArrivalsAgree, EarlierArrivalsAgree, Arrivals

\* The scripts, those of before and the review fit together in every configuration that
\* target.ps1 lets through and in its warm-up: no trial lacks a threshold it is asked for, is
\* judged by time when it is disturbed, is expected other arrivals than its windows bring, has
\* a gap in its load, or runs out of orders to pay for.
THEOREM PlansAlwaysFit == MCSpec => []PlansFit
<1>1. MCInit => PlanInv
  BY DEF MCInit, PlanInit, PlanInv
<1>2. PlanInv /\ [MCNext]_<<part, planVars, loadVars, verdictVars>> => PlanInv'
  <2> SUFFICES ASSUME PlanInv, [MCNext]_<<part, planVars, loadVars, verdictVars>>, part' = "plan"
               PROVE  asked' \in Configs /\ config' \in {asked', Warmup(asked')}
    BY DEF PlanInv
  <2>1. part = "plan" /\ (Measure \/ UNCHANGED planVars)
    BY DEF MCNext, planVars
  <2>2. asked \in Configs /\ config \in {asked, Warmup(asked)}
    BY <2>1 DEF PlanInv
  <2>3. asked' = asked /\ config' \in {asked, config}
    BY <2>1 DEF Measure, planVars
  <2> QED BY <2>2, <2>3
<1>3. ASSUME PlanInv, part = "plan"
      PROVE  ReviewsAgree
  <2>1. Planned(config)
    BY <1>3, ConfigsArePlanned DEF PlanInv
  <2>2. CriteriaAgree /\ EarlierCriteriaAgree
    BY <2>1, RequiredIsSet, EarlierRequiredIsSet DEF CriteriaAgree, EarlierCriteriaAgree, HadTrial
  <2>3. OnlyNormalIsTimed /\ WindowsFollow /\ FixtureLasts /\ NormalIsJudgedNoLess
    BY <2>1, NormalIsTimed, WindowsAdjoin, FixtureSuffices, NoLessIsAsked
  <2>4. ArrivalsAgree /\ EarlierArrivalsAgree
    BY <2>1, ArrivalsAreCounted
  <2> QED BY <2>2, <2>3, <2>4 DEF ReviewsAgree
<1>4. PlanInv => PlansFit
  BY <1>3 DEF PlansFit
<1> QED BY <1>1, <1>2, <1>4, PTL DEF MCSpec
=============================================================================
