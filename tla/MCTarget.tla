------------------------------ MODULE MCTarget ------------------------------
(* The load trials: what is agreed on before (EarlierPlan, TargetPlan), how k6 *)
(* runs a script (VirtualUsers), and how a verdict comes about (TargetRun).    *)
EXTENDS EarlierPlan

CONSTANTS
  Count,                \* arrivals of a trial, but for the one that may come at the end
  Rate, Fixture,        \* arrivals of a scenario, but for that one, and orders to pay for
  Vus, MaxVus,          \* virtual users of a scenario, at first and at most
  OpensAt, LastTick

VARIABLES
  part,   \* "plan", "load" or "run"
  script, clock, loadPhase, vu, loading, loaded, reads, started, droppedOf,
  measured, trial, phase, its, rows, dropped, bad, settled, exit, verdict

loadVars == <<script, clock, loadPhase, vu, loading, loaded, reads, started, droppedOf>>
verdictVars == <<measured, trial, phase, its, rows, dropped, bad, settled, exit, verdict>>

L == INSTANCE VirtualUsers WITH
       Scripts <- {"isolation", "business"}, Orders <- Fixture, phase <- loadPhase, dropped <- droppedOf

\* The fixture is that of target-trial.ps1.
ASSUME LoadAssumption == L!LoadIsPlanned

R == INSTANCE TargetRun WITH Kinds <- {"worker", "waiting", "reservation", "business"}

Nothing == "none"
NoPlan == asked = Nothing /\ config = Nothing
NoLoad ==
  /\ script = Nothing /\ clock = 0 /\ loadPhase = Nothing
  /\ vu = <<>> /\ loading = {} /\ loaded = FALSE /\ reads = 0
  /\ started = {} /\ droppedOf = <<>>
NoRun ==
  /\ measured = Nothing /\ trial = Nothing /\ phase = Nothing
  /\ its = <<>> /\ rows = <<>> /\ dropped = 0 /\ bad = {} /\ settled = {}
  /\ exit = FALSE /\ verdict = <<>>

MCInit ==
  \/ part = "plan" /\ PlanInit /\ NoLoad /\ NoRun
  \/ part = "load" /\ L!VusInit /\ NoPlan /\ NoRun
  \/ part = "run" /\ R!RunInit /\ NoPlan /\ NoLoad

MCNext ==
  /\ UNCHANGED part
  /\ \/ part = "plan" /\ Measure /\ UNCHANGED <<loadVars, verdictVars>>
     \/ part = "load" /\ L!VusNext /\ UNCHANGED <<planVars, verdictVars>>
     \/ part = "run" /\ R!RunNext /\ UNCHANGED <<planVars, loadVars>>

MCSpec == MCInit /\ [][MCNext]_<<part, planVars, loadVars, verdictVars>>

\* The scripts, the review and the configurations let through fit together (EarlierPlan).
PlansFit == part = "plan" => ReviewsAgree

\* k6 runs the load that was planned (VirtualUsers).
LoadFits == part = "load" => L!LoadIsAsPlanned

\* A good verdict is right about each order (TargetRun).
VerdictsFit == part = "run" => R!VerdictsAreRight
=============================================================================
