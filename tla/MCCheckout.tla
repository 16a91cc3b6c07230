----------------------------- MODULE MCCheckout -----------------------------
(* Small instances of Checkout for TLC. *)
EXTENDS Checkout, TLC

CONSTANTS s1, i1, i2

\* One sale of two items: the first one is scarce, the second one plentiful but
\* limited per user.
MCSaleOf == i1 :> s1 @@ i2 :> s1
MCTotal == i1 :> 2 @@ i2 :> 3
MCPerUserLimit == i1 :> 2 @@ i2 :> 2

Symmetry == Permutations(OrderIds) \cup Permutations(AttemptIds)
              \cup Permutations(Users) \cup Permutations(Keys)
=============================================================================
