-------------------------- MODULE DeadlineEvidence --------------------------
(***************************************************************************)
(* The record of payments that missed their deadline.  Checkout knows only *)
(* how much time is left; this module adds the instants that are stored,   *)
(* and the query of ops/performance/target-state.sql that counts SUCCESS   *)
(* payments which were not final by their confirmation deadline.           *)
(***************************************************************************)
EXTENDS Checkout

CONSTANT MaxClock   \* bound: how long the clock runs

VARIABLES
  clock,
  deadlineAt,  \* order id   -> reservations.confirmation_deadline
  terminalAt   \* attempt id -> payment_attempts.terminal_at, if it has one

times == <<clock, deadlineAt, terminalAt>>

EvidenceInit == Init /\ clock = 0 /\ deadlineAt = <<>> /\ terminalAt = <<>>

EvidenceStart(o, k, scenario, a) ==
  /\ Start(o, k, scenario, a)
  /\ deadlineAt' = Insert(deadlineAt, o, clock + PaymentWindow)
  /\ UNCHANGED <<clock, terminalAt>>

\* The provider fails a SUCCESS payment only when it is first asked to take it
\* at or after the deadline.
EvidenceApply(a, result) ==
  /\ Apply(a, result)
  /\ result = "FAILED" => clock >= deadlineAt[attempts[a].order]
  /\ terminalAt' = IF result = "UNKNOWN" THEN terminalAt ELSE Insert(terminalAt, a, clock)
  /\ UNCHANGED <<clock, deadlineAt>>

EvidenceTick ==
  /\ clock < MaxClock
  /\ Tick
  /\ clock' = clock + 1
  /\ UNCHANGED <<deadlineAt, terminalAt>>

EvidenceNext ==
  \/ /\ \/ \E s \in Sales, opensAt \in 0..MaxOpensIn : CreateSale(s, opensAt)
        \/ \E u \in Users, k \in Keys, s \in Sales, request \in Requests, o \in OrderIds :
             Purchase(u, k, s, request, o)
        \/ \E o \in OrderIds : Expire(o)
     /\ UNCHANGED times
  \/ \E o \in OrderIds, k \in Keys, scenario \in Scenarios, a \in AttemptIds :
       EvidenceStart(o, k, scenario, a)
  \/ \E a \in AttemptIds, result \in Results : EvidenceApply(a, result)
  \/ EvidenceTick

EvidenceSpec == EvidenceInit /\ [][EvidenceNext]_<<vars, times>>

\* successDeadlineViolations
DeadlineViolations ==
  {a \in DOMAIN attempts :
     /\ attempts[a].scenario = "SUCCESS"
     /\ deadlineAt[attempts[a].order] < IF Terminal(a) THEN terminalAt[a] ELSE clock}

\* A payment once counted as having missed its deadline stays counted, whatever
\* is recovered later (docs/architecture/target-v1.md).
MissedDeadlineStaysCounted ==
  [][DeadlineViolations \subseteq DeadlineViolations']_<<vars, times>>
=============================================================================
