---------------------------- MODULE EvidenceFile ----------------------------
(***************************************************************************)
(* A dispute's file as collect_evidence fills it, one item at a time, with *)
(* items of any strength in any order: what assess_evidence_strength says  *)
(* of it as it grows.                                                      *)
(***************************************************************************)
EXTENDS Evidence

CONSTANT MaxItems   \* bound of the model: items in a file

ASSUME MaxItemsAssumption == MaxItems \in Nat

VARIABLE file   \* how many items of each strength it holds

Size == file["high"] + file["medium"] + file["low"] + file["insufficient"]

Init == file = [s \in Strengths |-> 0]

AddItem(s) ==
  /\ Size < MaxItems
  /\ file' = [file EXCEPT ![s] = @ + 1]

Next == \E s \in Strengths : AddItem(s)

Spec == Init /\ [][Next]_file

FileStrength == Assess(file["high"], file["medium"], file["low"], file["insufficient"])

Rank == [insufficient |-> 0, low |-> 1, medium |-> 2, high |-> 3]

\* The counts stay counts, within the bound.
TypeOK == file \in [Strengths -> 0..MaxItems]

\* No amount of medium and low evidence makes a file "high": that takes an item
\* which verifies the cardholder (assess_evidence_strength's 0.7 ratio).
HighNeedsVerification == FileStrength = "high" => file["high"] > 0

\* An item of high strength never makes the file weaker, whatever is in it.
HighNeverWeakens ==
  [][file'["high"] > file["high"] => Rank[FileStrength'] >= Rank[FileStrength]]_file
=============================================================================
