--------------------------- MODULE MCCardSequence ---------------------------
(* Instances of CardSequence for TLC. *)
EXTENDS CardSequence, TLC

\* Scorings are interchangeable.
Symmetry == Permutations(Scorings)
=============================================================================
