-------------------------- MODULE SubmissionPromise --------------------------
(***************************************************************************)
(* What submit_dispute_evidence promises its callers, however many of them *)
(* there are and whatever is lost between them and the processor: one text *)
(* is put on record for a dispute, it stays, and a success is answered     *)
(* only when there is one.  Where the processor keeps the parameters of    *)
(* the idempotency key (exact), the text a success is about is that one.   *)
(***************************************************************************)
CONSTANTS Texts, None

VARIABLES
  exact,    \* does the processor compare the text with the one it has?
  record,   \* the text on record at the processor
  reported  \* the texts whose submission was answered with success

Init ==
  /\ exact \in BOOLEAN
  /\ record = None
  /\ reported = {}

Accept ==
  /\ record = None
  /\ record' \in Texts
  /\ UNCHANGED <<exact, reported>>

Report ==
  /\ record # None
  /\ \E t \in Texts : /\ exact => t = record
                      /\ reported' = reported \cup {t}
  /\ UNCHANGED <<exact, record>>

Next == Accept \/ Report

Spec == Init /\ [][Next]_<<exact, record, reported>>
=============================================================================
