----------------------------- MODULE MCTxLocks -----------------------------
(* A small instance of TxLocks for TLC: two items of one sale. *)
EXTENDS TxLocks, TLC

CONSTANTS s1, i1, i2

MCSaleOf == i1 :> s1 @@ i2 :> s1
MCTotal == i1 :> 1 @@ i2 :> 2
MCPerUserLimit == i1 :> 1 @@ i2 :> 1
MCPosition == i1 :> 1 @@ i2 :> 2

Symmetry == Permutations(Sessions) \cup Permutations(Users) \cup Permutations(Keys)
            \cup Permutations(OrderIds) \cup Permutations(AttemptIds)
=============================================================================
