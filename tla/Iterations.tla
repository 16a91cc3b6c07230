----------------------------- MODULE Iterations -----------------------------
(***************************************************************************)
(* What one iteration of a load script promises to those who count: a      *)
(* purchase, and the payment for it, go from asked to made by the service  *)
(* to heard of by the script, which may end at any of these.  What was     *)
(* asked and not heard of may still be made after the script has ended.    *)
(***************************************************************************)

Stages == {"none", "asked", "made", "heard"}
IterationRecords == [order : Stages, payment : Stages, ended : BOOLEAN]

\* The order of a worker script was made before.
Fresh(order) == [order |-> order, payment |-> "none", ended |-> FALSE]

\* Nothing is heard of that was not made.
Advances(a, b) ==
  \/ a = "none"
  \/ a = "asked" /\ b # "none"
  \/ a = "made" /\ b \in {"made", "heard"}
  \/ a = "heard" /\ b = "heard"

\* A script that has ended asks and hears no more, and pays only for what it heard of.
Moves(a, b) ==
  /\ Advances(a.order, b.order) /\ Advances(a.payment, b.payment)
  /\ a.order = b.order \/ a.payment = b.payment
  /\ a.payment # b.payment => a.order = "heard"
  /\ a.ended => /\ b.ended
                /\ b.order = a.order \/ (a.order = "asked" /\ b.order = "made")
                /\ b.payment = a.payment \/ (a.payment = "asked" /\ b.payment = "made")
=============================================================================
