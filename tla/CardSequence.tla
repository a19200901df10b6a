----------------------------- MODULE CardSequence -----------------------------
(***************************************************************************)
(* The behavioural sequence of one card in Redis: a sorted set of          *)
(* transaction records under card_seq:<hash>.  Every scoring of a          *)
(* transaction of the card reads the last records and then appends its own *)
(* in three commands, with the other scorings, deletion requests and the   *)
(* expiry of the key between any two of them.                              *)
(*                                                                         *)
(* Records are numbers in the order of the sorted set, which orders by     *)
(* timestamp and then by the record itself.  A key without records does    *)
(* not exist and has no time to live.                                      *)
(***************************************************************************)
EXTENDS Integers, FiniteSets

CONSTANTS
  Scorings,        \* calls of extract_features for transactions of the card
  Deletions,       \* deletion requests for the card
  Records,
  SequenceLength   \* SEQUENCE_LENGTH

ASSUME SequenceAssumption ==
  /\ IsFiniteSet(Scorings)
  /\ IsFiniteSet(Records) /\ Records \subseteq Int
  /\ SequenceLength \in Nat \ {0}

VARIABLES
  entries,    \* the records under the key
  ttl,        \* whether the key has a time to live
  scoring,    \* where each scoring is in extract_features
  txn,        \* the record of its transaction
  seen,       \* the sequence it read
  deletion,
  dropped,    \* history: records trimmed from the present key
  stray       \* history: scorings that ended between zadd and expire

callVars == <<scoring, txn, seen>>
keyVars  == <<entries, ttl, dropped>>
vars == <<callVars, keyVars, deletion, stray>>

-----------------------------------------------------------------------------
(* Redis.                                                                  *)

Newer(records, r) == {e \in records : e > r}

\* What ZREVRANGE 0 n-1 returns, and ZREMRANGEBYRANK 0 -(n+1) leaves.
Newest(records, n) == {r \in records : Cardinality(Newer(records, r)) < n}

\* The key is gone: by DEL or because its time has come.
KeyGone ==
  /\ entries' = {}
  /\ ttl' = FALSE
  /\ dropped' = {}

KeyExpires ==
  /\ entries # {} /\ ttl
  /\ KeyGone
  /\ UNCHANGED <<callVars, deletion, stray>>

-----------------------------------------------------------------------------
(* extract_features.                                                       *)

Init ==
  /\ entries = {}
  /\ ttl = FALSE
  /\ scoring = [s \in Scorings |-> "idle"]
  /\ txn \in [Scorings -> Records]
  /\ seen = [s \in Scorings |-> {}]
  /\ deletion = [q \in Deletions |-> "queued"]
  /\ dropped = {}
  /\ stray = {}

\* The sequence is read, empty after an error.
ReadSequence(s) ==
  /\ scoring[s] = "idle"
  /\ scoring' = [scoring EXCEPT ![s] = "appending"]
  /\ seen' \in {[seen EXCEPT ![s] = Newest(entries, SequenceLength)], seen}
  /\ UNCHANGED <<txn, keyVars, deletion, stray>>

\* Mutant: the record is appended while the sequence is read.
AppendAtOnce(s) ==
  /\ scoring[s] \in {"idle", "appending"}
  /\ scoring' = [scoring EXCEPT ![s] = IF @ = "idle" THEN "idle" ELSE "trimming"]
  /\ entries' = entries \cup {txn[s]}
  /\ dropped' = dropped \ {txn[s]}
  /\ UNCHANGED <<ttl, txn, seen, deletion, stray>>

\* zadd.  A key it creates has no time to live; a record that is there stays.
Append(s) ==
  /\ scoring[s] = "appending"
  /\ scoring' = [scoring EXCEPT ![s] = "trimming"]
  /\ entries' = entries \cup {txn[s]}
  /\ dropped' = dropped \ {txn[s]}
  /\ UNCHANGED <<ttl, txn, seen, deletion, stray>>

\* Mutant: one record too many is removed.
TrimToLess(s) ==
  /\ scoring[s] = "trimming"
  /\ scoring' = [scoring EXCEPT ![s] = "expiring"]
  /\ entries' = Newest(entries, SequenceLength - 1)
  /\ ttl' = (ttl /\ entries' # {})
  /\ dropped' = dropped \cup (entries \ entries')
  /\ UNCHANGED <<txn, seen, deletion, stray>>

\* Mutant: one record too many is kept.
TrimToMore(s) ==
  /\ scoring[s] = "trimming"
  /\ scoring' = [scoring EXCEPT ![s] = "expiring"]
  /\ entries' = Newest(entries, SequenceLength + 1)
  /\ dropped' = dropped \cup (entries \ entries')
  /\ UNCHANGED <<ttl, txn, seen, deletion, stray>>

\* zremrangebyrank.
Trim(s) ==
  /\ scoring[s] = "trimming"
  /\ scoring' = [scoring EXCEPT ![s] = "expiring"]
  /\ entries' = Newest(entries, SequenceLength)
  /\ dropped' = dropped \cup (entries \ entries')
  /\ UNCHANGED <<ttl, txn, seen, deletion, stray>>

\* Mutant: only a scoring that found no sequence sets a time to live.
ExpireNew(s) ==
  /\ scoring[s] = "expiring"
  /\ scoring' = [scoring EXCEPT ![s] = "done"]
  /\ ttl' = (ttl \/ (entries # {} /\ seen[s] = {}))
  /\ UNCHANGED <<txn, seen, entries, dropped, deletion, stray>>

\* Mutant: a time to live for a key that may be gone.
ExpireBlindly(s) ==
  /\ scoring[s] = "expiring"
  /\ scoring' = [scoring EXCEPT ![s] = "done"]
  /\ ttl' = TRUE
  /\ UNCHANGED <<txn, seen, entries, dropped, deletion, stray>>

\* expire, which does nothing to a key that is gone.
Expire(s) ==
  /\ scoring[s] = "expiring"
  /\ scoring' = [scoring EXCEPT ![s] = "done"]
  /\ ttl' = (entries # {})
  /\ UNCHANGED <<txn, seen, entries, dropped, deletion, stray>>

\* A command fails and the exception is swallowed, or the process dies.
Abort(s) ==
  /\ scoring[s] \in {"appending", "trimming", "expiring"}
  /\ scoring' = [scoring EXCEPT ![s] = IF @ = "appending" THEN "failed" ELSE "done"]
  /\ stray' = IF scoring[s] = "appending" THEN stray ELSE stray \cup {s}
  /\ UNCHANGED <<txn, seen, keyVars, deletion>>

-----------------------------------------------------------------------------
\* The deletion task purges the key, or swallows the error: either way it is done.
DeleteSequence(q) ==
  /\ deletion[q] = "queued"
  /\ deletion' = [deletion EXCEPT ![q] = "done"]
  /\ KeyGone \/ UNCHANGED keyVars
  /\ UNCHANGED <<callVars, stray>>

\* Everything has been scored.
Quiet ==
  /\ \A s \in Scorings : scoring[s] \in {"done", "failed"}
  /\ \A q \in Deletions : deletion[q] = "done"
  /\ UNCHANGED vars

Next ==
  \/ \E s \in Scorings :
       ReadSequence(s) \/ Append(s) \/ Trim(s) \/ Expire(s) \/ Abort(s)
  \/ \E q \in Deletions : DeleteSequence(q)
  \/ KeyExpires
  \/ Quiet

Spec == Init /\ [][Next]_vars

-----------------------------------------------------------------------------
(* What the sequence promises.                                             *)

\* Records, calls and requests are well formed, and a key that does not exist has no
\* time to live.
TypeOK ==
  /\ entries \subseteq Records
  /\ ttl \in BOOLEAN
  /\ ttl => entries # {}
  /\ scoring \in [Scorings -> {"idle", "appending", "trimming", "expiring", "done", "failed"}]
  /\ txn \in [Scorings -> Records]
  /\ seen \in [Scorings -> SUBSET Records]
  /\ deletion \in [Deletions -> {"queued", "done"}]
  /\ dropped \subseteq Records
  /\ stray \subseteq Scorings

\* The trims of concurrent scorings never take a record that belongs to the last
\* SequenceLength: whatever was trimmed has that many newer ones that are still there.
KeepsNewest ==
  \A r \in dropped : Cardinality(Newer(entries, r)) >= SequenceLength

Untrimmed == {s \in Scorings : scoring[s] = "trimming" \/ s \in stray}

\* The key holds no more than SequenceLength records, and one for each scoring that
\* has not trimmed yet or was aborted.
BoundedLength == Cardinality(entries) <= SequenceLength + Cardinality(Untrimmed)

Appended(s) == scoring[s] \in {"trimming", "expiring", "done"}

\* A scoring does not find its own transaction in the card's history, unless another
\* scoring of that transaction has put it there.
SelfUnseen ==
  \A s \in Scorings : txn[s] \in seen[s] =>
    \E o \in Scorings \ {s} : txn[o] = txn[s] /\ Appended(o)

\* The history of a card is forgotten in time, also when a deletion or the expiry of
\* the key falls between the commands of a scoring: a key without a time to live is
\* about to get one, unless a scoring was aborted.
Expiring ==
  entries # {} /\ ~ttl =>
    stray # {} \/ \E s \in Scorings : scoring[s] \in {"trimming", "expiring"}

-----------------------------------------------------------------------------
(* The inductive invariant.                                                *)

\* Every record was appended by a scoring, which has not been idle since.
CallsInv ==
  /\ \A r \in entries : \E s \in Scorings : txn[s] = r /\ Appended(s)
  /\ \A s \in Scorings : scoring[s] = "idle" => seen[s] = {}
  /\ \A s \in stray : scoring[s] = "done"

IInv ==
  /\ TypeOK
  /\ CallsInv
  /\ KeepsNewest
  /\ BoundedLength
  /\ SelfUnseen
  /\ Expiring
=============================================================================
