------------------------- MODULE MCDisputeLifecycle -------------------------
(* Instances of DisputeLifecycle for TLC. *)
EXTENDS DisputeLifecycle, TLC

\* Requests of one kind are interchangeable.
Symmetry == Permutations(Webhooks) \cup Permutations(Reviews)
=============================================================================
