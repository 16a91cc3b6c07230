---------------------------- MODULE VirtualUsers ----------------------------
(***************************************************************************)
(* What k6 does with a script of k6/target: every virtual user evaluates   *)
(* the script and common.js for itself, all of them share one array of the *)
(* orders to pay for, setup() runs once, and arrivals then take an idle    *)
(* virtual user each, or are dropped.  k6 is modelled from how the scripts *)
(* and their offline tests (target-static-test.mjs) use it.                *)
(***************************************************************************)
EXTENDS Naturals, FiniteSets

CONSTANTS
  Scripts,  \* "worker", "isolation", "business" or others of k6/target
  Rate,     \* arrivals of a scenario, but for the one that may come at the end
  Orders,   \* in the fixture: as many as payments arrive, and one
  Vus,      \* virtual users of a scenario from the start
  MaxVus,   \* and in all
  OpensAt,  \* when the sale opens, after k6 was started (30 s for business)
  LastTick  \* no time is looked at after this one

\* There is an order for every payment that may arrive (target-trial.ps1:50).
LoadIsPlanned ==
  /\ Rate \in Nat /\ Orders \in Nat /\ Orders > Rate
  /\ OpensAt \in Nat

VARIABLES
  script,
  clock,
  phase,      \* of k6
  vu,         \* what each virtual user does
  loading,    \* those inside the loader of the shared array
  loaded,     \* whether there is an array
  reads,      \* how often the file of the orders was read
  started,    \* the iterations: scenario, index, virtual user, order paid for, time
  dropped     \* how many arrivals of a scenario were

Names ==
  IF script = "isolation" THEN {"browsers", "payments"}
  ELSE IF script = "business" THEN {"opening", "middle"} ELSE {"payments"}
AllVus == Names \X (1..MaxVus)

vuVars == <<script, clock, phase, vu, loading, loaded, reads, started, dropped>>

NoOrder == 0

VusInit ==
  /\ script \in Scripts /\ clock = 0 /\ phase = "init"
  /\ vu = [v \in AllVus |-> IF v[2] <= Vus THEN "evaluates" ELSE "none"]
  /\ loading = {} /\ loaded = FALSE /\ reads = 0
  /\ started = {} /\ dropped = [name \in Names |-> 0]

-----------------------------------------------------------------------------
(* Init contexts *)

\* Modules are evaluated once per virtual user; configuration and sale are read by each.
Evaluate(v) ==
  /\ vu[v] = "evaluates"
  /\ vu' = [vu EXCEPT ![v] = "constructs"]
  /\ UNCHANGED <<script, clock, phase, loading, loaded, reads, started, dropped>>

Alone == loading = {}

\* new SharedArray(name, loader): whoever comes first loads it.
Construct(v) ==
  /\ vu[v] = "constructs"
  /\ \/ loaded /\ vu' = [vu EXCEPT ![v] = "idle"] /\ UNCHANGED loading
     \/ /\ ~loaded /\ Alone
        /\ loading' = loading \cup {v}
        /\ vu' = [vu EXCEPT ![v] = "loads"]
  /\ UNCHANGED <<script, clock, phase, loaded, reads, started, dropped>>

LoadOrders(v) ==
  /\ v \in loading
  /\ reads' = reads + 1
  /\ loaded' = TRUE
  /\ loading' = loading \ {v}
  /\ vu' = [vu EXCEPT ![v] = "idle"]
  /\ UNCHANGED <<script, clock, phase, started, dropped>>

-----------------------------------------------------------------------------
(* setup() *)

SetupBegins ==
  /\ phase = "init" /\ \A v \in AllVus : vu[v] \in {"none", "idle"}
  /\ phase' = "setup"
  /\ UNCHANGED <<script, clock, vu, loading, loaded, reads, started, dropped>>

\* A business trial waits for its sale to open.
SaleIsOpen == script = "business" => clock >= OpensAt

SetupEnds ==
  /\ phase = "setup" /\ SaleIsOpen
  /\ phase' = "running"
  /\ UNCHANGED <<script, clock, vu, loading, loaded, reads, started, dropped>>

-----------------------------------------------------------------------------
(* Arrivals *)

Of(name) == {i \in started : i.name = name}
IndexOfOwn(name, v) == Cardinality({i \in started : i.by = v})  \* mutant
\* exec.scenario.iterationInTest
IterationInTest(name, v) == Cardinality(Of(name))

OrderFor(name, index) ==
  IF name # "payments" \/ index >= Orders THEN NoOrder ELSE index + 1

ArrivedOf(name) == Cardinality(Of(name)) + dropped[name]
Idle(name) == {v \in AllVus : v[1] = name /\ vu[v] = "idle"}

\* existingPayment() and browser() begin.
Begin(name) ==
  \E v \in Idle(name) :
    /\ vu' = [vu EXCEPT ![v] = "busy"]
    /\ LET index == IterationInTest(name, v) IN
       started' = started \cup
         {[name |-> name, index |-> index, by |-> v, order |-> OrderFor(name, index), at |-> clock]}
    /\ UNCHANGED dropped

\* With nobody idle the arrival is dropped, and another virtual user is made if there may be.
Drop(name) ==
  /\ Idle(name) = {}
  /\ dropped' = [dropped EXCEPT ![name] = @ + 1]
  /\ \/ \E v \in AllVus : v[1] = name /\ vu[v] = "none" /\ vu' = [vu EXCEPT ![v] = "evaluates"]
     \/ (\A v \in AllVus : v[1] = name => vu[v] # "none") /\ UNCHANGED vu
  /\ UNCHANGED started

Arrive(name) ==
  /\ phase = "running" /\ ArrivedOf(name) <= Rate
  /\ Begin(name) \/ Drop(name)
  /\ UNCHANGED <<script, clock, phase, loading, loaded, reads>>

\* An iteration that found no order left throws ("Payment fixture exhausted").
Finish(v) ==
  /\ vu[v] = "busy"
  /\ vu' = [vu EXCEPT ![v] = "idle"]
  /\ UNCHANGED <<script, clock, phase, loading, loaded, reads, started, dropped>>

End ==
  /\ phase = "running"
  /\ \A name \in Names : ArrivedOf(name) >= Rate
  /\ \A v \in AllVus : vu[v] \in {"none", "idle"}
  /\ phase' = "ended"
  /\ UNCHANGED <<script, clock, vu, loading, loaded, reads, started, dropped>>

VusTick ==
  /\ clock < LastTick /\ phase # "ended"
  /\ clock' = clock + 1
  /\ UNCHANGED <<script, phase, vu, loading, loaded, reads, started, dropped>>

VusNext ==
  \/ \E v \in AllVus : Evaluate(v) \/ Construct(v) \/ LoadOrders(v) \/ Finish(v)
  \/ SetupBegins \/ SetupEnds \/ End \/ VusTick
  \/ \E name \in Names : Arrive(name)

VusSpec == VusInit /\ [][VusNext]_vuVars

-----------------------------------------------------------------------------
(* Properties *)

\* The file of the orders, which may be large, is read once in the whole process, however
\* many virtual users begin at the same time or come later ("parse the large order list only
\* once per k6 process", common.js:9).
ReadOnce == reads <= 1

\* No order is paid for by two iterations, whichever virtual user runs them and however many
\* arrivals are dropped, and none finds the fixture exhausted.
EachPaysItsOwn ==
  \A i \in started : i.name = "payments" =>
    /\ i.order # NoOrder
    /\ \A j \in started : j # i => j.order # i.order

\* Nobody comes before the sale opens: the 409 would be unexpected and spoil the trial.
NobodyIsTooEarly == script = "business" => \A i \in started : i.at >= OpensAt

\* What the results of a trial of payments, and of a sale, rest on.
LoadIsAsPlanned == ReadOnce /\ EachPaysItsOwn /\ NobodyIsTooEarly
=============================================================================
