---------------------------- MODULE MCAdmission ----------------------------
\* Two calls of two buyers for one unit.  Buyers and calls are alike.
EXTENDS Admission, TLC

Alike == Permutations(Buyers) \cup Permutations(Calls) \cup Permutations(Tokens)
=============================================================================
