----------------------------- MODULE MCCatalog -----------------------------
(* A small instance of Catalog for TLC: one sale with two units, one with one. *)
EXTENDS Catalog, TLC

CONSTANTS s1, s2

MCTotal == s1 :> 2 @@ s2 :> 1
=============================================================================
