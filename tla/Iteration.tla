----------------------------- MODULE Iteration -----------------------------
(* One iteration as a specification, which Browser implements. *)
EXTENDS Iterations

VARIABLE it

IterationSpec == it \in {Fresh("none"), Fresh("heard")} /\ [][Moves(it, it')]_it
=============================================================================
