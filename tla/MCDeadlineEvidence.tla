------------------------ MODULE MCDeadlineEvidence ------------------------
(* One order, two payments: a hold that outlasts the payment window. *)
EXTENDS DeadlineEvidence, TLC

CONSTANTS s1, i1

MCSaleOf == i1 :> s1
MCTotal == i1 :> 1
MCPerUserLimit == i1 :> 1
=============================================================================
