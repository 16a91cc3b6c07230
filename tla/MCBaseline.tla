----------------------------- MODULE MCBaseline -----------------------------
(* The experiments on the baseline, and the first of them (load # NoLoad) with *)
(* its servers and their connections.                                          *)
EXTENDS Baseline

CONSTANTS FirstRate, Vus, Servers, Conns

VARIABLES load, served, confirms, failed

F == INSTANCE FirstSpike WITH Loads <- {"warmup", "spike"}, Rate <- FirstRate

\* Of a pool that has none nobody gets a connection.
ASSUME SpikeAssumption == Conns \in Nat \ {0}

NoLoad == "none"

MCInit ==
  \/ BaselineInit /\ load = NoLoad /\ served = <<>> /\ confirms = NoLoad /\ failed = {}
  \/ F!SpikeInit /\ measured = NoLoad /\ stock = 0 /\ left = <<>> /\ asked = {}

MCNext ==
  \/ load = NoLoad /\ BaselineNext /\ UNCHANGED <<load, served, confirms, failed>>
  \/ load # NoLoad /\ F!SpikeNext /\ UNCHANGED <<measured, stock, left, asked>>

MCSpec == MCInit /\ [][MCNext]_<<baselineVars, load, served, confirms, failed>>

\* An experiment measures what it says (Baseline).
ExperimentsAreFair == load = NoLoad => MeasuresFairly

\* The records of the first experiment explain themselves (FirstSpike).
FirstRecordsAgree == load # NoLoad => F!RecordsAgree
=============================================================================
