----------------------------- MODULE MCWaiting -----------------------------
(* A small instance of Waiting for TLC: one sale. *)
EXTENDS Waiting, TLC

CONSTANT s1

MCTotal == s1 :> 1
=============================================================================
