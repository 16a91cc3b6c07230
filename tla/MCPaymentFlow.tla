--------------------------- MODULE MCPaymentFlow ---------------------------
(* Small instances of PaymentFlow for TLC: one item, asked for one at a time. *)
EXTENDS PaymentFlow, TLC

CONSTANTS s1, i1

MCSaleOf == i1 :> s1
MCTotal == i1 :> 1
MCPerUserLimit == i1 :> 1

Symmetry == Permutations(AttemptIds) \cup Permutations(Workers)
=============================================================================
