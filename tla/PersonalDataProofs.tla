-------------------------- MODULE PersonalDataProofs --------------------------
(***************************************************************************)
(* Proofs about PersonalData, for any rows, cards and deletion requests.   *)
(*                                                                         *)
(* The heart of it is what holds of a row that matches a request, from the *)
(* moment the request's first UPDATE begins: the UPDATE knows it, or it    *)
(* was inserted since; when the UPDATE is over, it is locked by the        *)
(* request, so that nobody else writes it until the commit.                *)
(***************************************************************************)
EXTENDS PersonalData, TLAPS

\* A row that is not there holds nothing, and nobody updates it; a score log that
\* is locked is there.
RowsInv ==
  /\ \A d \in Rows : ~Inserted(d) => data[d] = {} /\ log[d] = "none" /\ rowLock[d] = None
  /\ \A d \in dailyKnown : Inserted(d)
  /\ \A d \in Rows : logLock[d] # None => log[d] # "none"

\* A row a card's request knows has the card's token or has been scrubbed, and
\* what is in it after that was written afterwards.
KnownInv ==
  \A q \in Deletions, d \in Rows :
    Started(q) /\ d \in known[q] /\ entity[q] # "merchant" =>
      /\ token[d] \in {entity[q]} \cup Scrubbed
      /\ token[d] \in Scrubbed /\ d \notin rewritten[q] => "content" \notin data[d]

\* No row escapes a request that is under way.
DisputesInv ==
  \A q \in Deletions, d \in Rows :
    at[q] = "disputes" /\ d \notin since[q] /\ Matches(q, d) => d \in known[q]

\* When its two UPDATEs are over a request holds the lock of everything it is for.
PurgingInv ==
  \A q \in Deletions, d \in Rows :
    at[q] = "purging" /\ d \notin since[q] =>
      /\ Matches(q, d) => rowLock[d] = q
      /\ entity[q] = "merchant" /\ log[d] # "none" => logLock[d] = q

IInv ==
  /\ TypeOK
  /\ RowsInv
  /\ KnownInv
  /\ DisputesInv
  /\ PurgingInv
  /\ TokenErased
  /\ ContentErased

\* A webhook.
LEMMA InsertStep ==
  ASSUME IInv, NEW d \in Rows, NEW c \in Cards, Insert(d, c)
  PROVE  IInv'
<1>1. TypeOK'
  BY PersonalDataAssumption DEF IInv, Insert, TypeOK, Inserted, Started, settings, lockVars,
     requestVars, dailyVars, Scrubbed, Holders, Working, Ends, Entities
<1>2. RowsInv'
  BY PersonalDataAssumption DEF IInv, Insert, RowsInv, TypeOK, Inserted, Started, settings,
     lockVars, requestVars, dailyVars, Scrubbed, Holders, Working, Ends, Entities
<1>3. KnownInv'
  BY PersonalDataAssumption DEF IInv, Insert, KnownInv, TypeOK, RowsInv, DisputesInv,
     Inserted, Started, settings, lockVars, requestVars, dailyVars, Scrubbed, Holders,
     Working, Ends, Entities, Matches
<1>4. DisputesInv'
  BY PersonalDataAssumption DEF IInv, Insert, DisputesInv, TypeOK, RowsInv, Inserted,
     Started, settings, lockVars, requestVars, dailyVars, Matches, Scrubbed, Holders,
     Working, Ends, Entities
<1>5. PurgingInv'
  BY PersonalDataAssumption DEF IInv, Insert, PurgingInv, TypeOK, RowsInv, DisputesInv,
     Inserted, Started, settings, lockVars, requestVars, dailyVars, Matches, Scrubbed,
     Holders, Working, Ends, Entities
<1>6. TokenErased'
  BY PersonalDataAssumption DEF IInv, Insert, TokenErased, TypeOK, PurgingInv, Inserted,
     Started, settings, lockVars, requestVars, dailyVars, Scrubbed, Holders, Working, Ends,
     Entities, Matches
<1>7. ContentErased'
  BY PersonalDataAssumption DEF IInv, Insert, ContentErased, TypeOK, RowsInv, KnownInv,
     PurgingInv, TokenErased, Inserted, Started, settings, lockVars, requestVars, dailyVars,
     Scrubbed, Holders, Working, Ends, Entities, Matches
<1> QED BY <1>1, <1>2, <1>3, <1>4, <1>5, <1>6, <1>7 DEF IInv

\* A writer locks its row, commits or rolls back.
LEMMA WriteStep ==
  ASSUME IInv, NEW d \in Rows, Write(d)
  PROVE  IInv'
<1>1. TypeOK'
  BY PersonalDataAssumption DEF IInv, Write, TypeOK, Inserted, settings, rowVars,
     requestVars, history, dailyVars, Scrubbed, Holders, Working, Ends, Entities
<1>2. RowsInv'
  BY PersonalDataAssumption DEF IInv, Write, RowsInv, TypeOK, Inserted, settings, rowVars,
     requestVars, history, dailyVars, Scrubbed, Holders, Working, Ends, Entities
<1>3. KnownInv'
  BY PersonalDataAssumption DEF IInv, Write, KnownInv, TypeOK, RowsInv, DisputesInv,
     Inserted, settings, rowVars, requestVars, history, dailyVars, Started, Scrubbed,
     Holders, Working, Ends, Entities, Matches
<1>4. DisputesInv'
  BY PersonalDataAssumption DEF IInv, Write, DisputesInv, TypeOK, RowsInv, Inserted,
     settings, rowVars, requestVars, history, dailyVars, Matches, Scrubbed, Holders,
     Working, Ends, Entities
<1>5. PurgingInv'
  BY PersonalDataAssumption DEF IInv, Write, PurgingInv, TypeOK, RowsInv, DisputesInv,
     Inserted, settings, rowVars, requestVars, history, dailyVars, Matches, Scrubbed,
     Holders, Working, Ends, Entities
<1>6. TokenErased'
  BY PersonalDataAssumption DEF IInv, Write, TokenErased, TypeOK, PurgingInv, Inserted,
     settings, rowVars, requestVars, history, dailyVars, Scrubbed, Holders, Working, Ends,
     Entities, Matches
<1>7. ContentErased'
  BY PersonalDataAssumption DEF IInv, Write, ContentErased, TypeOK, RowsInv, KnownInv,
     PurgingInv, TokenErased, Inserted, settings, rowVars, requestVars, history, dailyVars,
     Scrubbed, Holders, Working, Ends, Entities, Started, Matches
<1> QED BY <1>1, <1>2, <1>3, <1>4, <1>5, <1>6, <1>7 DEF IInv

LEMMA WriteCommitStep ==
  ASSUME IInv, NEW d \in Rows, NEW parts \in {{}, {"content"}}, NEW scored \in BOOLEAN,
         WriteCommit(d, parts, scored)
  PROVE  IInv'
<1>1. TypeOK'
  BY PersonalDataAssumption DEF IInv, WriteCommit, TypeOK, Started, Scrubbed, settings,
     requestVars, dailyVars, Holders, Working, Ends, Entities
<1>2. RowsInv'
  BY PersonalDataAssumption DEF IInv, WriteCommit, RowsInv, TypeOK, Started, Scrubbed,
     settings, requestVars, dailyVars, Inserted, Holders, Working, Ends, Entities
<1>3. KnownInv'
  BY PersonalDataAssumption DEF IInv, WriteCommit, KnownInv, TypeOK, RowsInv, DisputesInv,
     Started, Scrubbed, settings, requestVars, dailyVars, Holders, Working, Ends, Entities,
     Inserted, Matches
<1>4. DisputesInv'
  BY PersonalDataAssumption DEF IInv, WriteCommit, DisputesInv, TypeOK, RowsInv, Started,
     Scrubbed, settings, requestVars, dailyVars, Matches, Holders, Working, Ends, Entities,
     Inserted
<1>5. PurgingInv'
  BY PersonalDataAssumption DEF IInv, WriteCommit, PurgingInv, TypeOK, RowsInv, DisputesInv,
     Started, Scrubbed, settings, requestVars, dailyVars, Matches, Holders, Working, Ends,
     Entities, Inserted
<1>6. TokenErased'
  BY PersonalDataAssumption DEF IInv, WriteCommit, TokenErased, TypeOK, PurgingInv, Started,
     Scrubbed, settings, requestVars, dailyVars, Holders, Working, Ends, Entities, Matches,
     Inserted
<1>7. ContentErased'
  BY PersonalDataAssumption DEF IInv, WriteCommit, ContentErased, TypeOK, RowsInv, KnownInv,
     PurgingInv, TokenErased, Started, Scrubbed, settings, requestVars, dailyVars, Holders,
     Working, Ends, Entities, Inserted, Matches
<1> QED BY <1>1, <1>2, <1>3, <1>4, <1>5, <1>6, <1>7 DEF IInv

LEMMA WriteRollbackStep ==
  ASSUME IInv, NEW d \in Rows, WriteRollback(d)
  PROVE  IInv'
<1>1. TypeOK'
  BY PersonalDataAssumption DEF IInv, WriteRollback, TypeOK, settings, rowVars, requestVars,
     history, dailyVars, Scrubbed, Holders, Working, Ends, Entities
<1>2. RowsInv'
  BY PersonalDataAssumption DEF IInv, WriteRollback, RowsInv, TypeOK, settings, rowVars,
     requestVars, history, dailyVars, Inserted, Scrubbed, Holders, Working, Ends, Entities
<1>3. KnownInv'
  BY PersonalDataAssumption DEF IInv, WriteRollback, KnownInv, TypeOK, RowsInv, DisputesInv,
     settings, rowVars, requestVars, history, dailyVars, Started, Scrubbed, Holders,
     Working, Ends, Entities, Inserted, Matches
<1>4. DisputesInv'
  BY PersonalDataAssumption DEF IInv, WriteRollback, DisputesInv, TypeOK, RowsInv, settings,
     rowVars, requestVars, history, dailyVars, Matches, Scrubbed, Holders, Working, Ends,
     Entities, Inserted
<1>5. PurgingInv'
  BY PersonalDataAssumption DEF IInv, WriteRollback, PurgingInv, TypeOK, RowsInv,
     DisputesInv, settings, rowVars, requestVars, history, dailyVars, Matches, Scrubbed,
     Holders, Working, Ends, Entities, Inserted
<1>6. TokenErased'
  BY PersonalDataAssumption DEF IInv, WriteRollback, TokenErased, TypeOK, PurgingInv,
     settings, rowVars, requestVars, history, dailyVars, Scrubbed, Holders, Working, Ends,
     Entities, Matches, Inserted
<1>7. ContentErased'
  BY PersonalDataAssumption DEF IInv, WriteRollback, ContentErased, TypeOK, RowsInv,
     KnownInv, PurgingInv, TokenErased, settings, rowVars, requestVars, history, dailyVars,
     Scrubbed, Holders, Working, Ends, Entities, Inserted, Started, Matches
<1> QED BY <1>1, <1>2, <1>3, <1>4, <1>5, <1>6, <1>7 DEF IInv

\* A request on its way to the commit.
LEMMA RequestStep ==
  ASSUME IInv, NEW q \in Deletions, NEW e \in Entities, Request(q, e)
  PROVE  IInv'
<1>1. TypeOK'
  BY PersonalDataAssumption DEF IInv, Request, TypeOK, settings, rowVars, lockVars, history,
     dailyVars, Scrubbed, Holders, Working, Ends, Entities
<1>2. RowsInv'
  BY PersonalDataAssumption DEF IInv, Request, RowsInv, TypeOK, settings, rowVars, lockVars,
     history, dailyVars, Inserted, Scrubbed, Holders, Working, Ends, Entities
<1>3. KnownInv'
  BY PersonalDataAssumption DEF IInv, Request, KnownInv, TypeOK, RowsInv, DisputesInv,
     settings, rowVars, lockVars, history, dailyVars, Started, Scrubbed, Holders, Working,
     Ends, Entities, Inserted, Matches
<1>4. DisputesInv'
  BY PersonalDataAssumption DEF IInv, Request, DisputesInv, TypeOK, RowsInv, settings,
     rowVars, lockVars, history, dailyVars, Matches, Scrubbed, Holders, Working, Ends,
     Entities, Inserted
<1>5. PurgingInv'
  BY PersonalDataAssumption DEF IInv, Request, PurgingInv, TypeOK, RowsInv, DisputesInv,
     settings, rowVars, lockVars, history, dailyVars, Matches, Scrubbed, Holders, Working,
     Ends, Entities, Inserted
<1>6. TokenErased'
  BY PersonalDataAssumption DEF IInv, Request, TokenErased, TypeOK, PurgingInv, settings,
     rowVars, lockVars, history, dailyVars, Scrubbed, Holders, Working, Ends, Entities,
     Matches, Inserted
<1>7. ContentErased'
  BY PersonalDataAssumption DEF IInv, Request, ContentErased, TypeOK, RowsInv, KnownInv,
     PurgingInv, TokenErased, settings, rowVars, lockVars, history, dailyVars, Scrubbed,
     Holders, Working, Ends, Entities, Inserted, Started, Matches
<1> QED BY <1>1, <1>2, <1>3, <1>4, <1>5, <1>6, <1>7 DEF IInv

LEMMA RefusalStep ==
  ASSUME IInv, NEW q \in Deletions, Discard(q) \/ Disabled(q)
  PROVE  IInv'
<1>1. TypeOK'
  BY PersonalDataAssumption DEF IInv, Discard, Disabled, TypeOK, settings, rowVars,
     lockVars, history, dailyVars, Scrubbed, Holders, Working, Ends, Entities
<1>2. RowsInv'
  BY PersonalDataAssumption DEF IInv, Discard, Disabled, RowsInv, TypeOK, settings, rowVars,
     lockVars, history, dailyVars, Inserted, Scrubbed, Holders, Working, Ends, Entities
<1>3. KnownInv'
  BY PersonalDataAssumption DEF IInv, Discard, Disabled, KnownInv, TypeOK, RowsInv,
     DisputesInv, settings, rowVars, lockVars, history, dailyVars, Started, Scrubbed,
     Holders, Working, Ends, Entities, Inserted, Matches
<1>4. DisputesInv'
  BY PersonalDataAssumption DEF IInv, Discard, Disabled, DisputesInv, TypeOK, RowsInv,
     settings, rowVars, lockVars, history, dailyVars, Matches, Scrubbed, Holders, Working,
     Ends, Entities, Inserted
<1>5. PurgingInv'
  BY PersonalDataAssumption DEF IInv, Discard, Disabled, PurgingInv, TypeOK, RowsInv,
     DisputesInv, settings, rowVars, lockVars, history, dailyVars, Matches, Scrubbed,
     Holders, Working, Ends, Entities, Inserted
<1>6. TokenErased'
  BY PersonalDataAssumption DEF IInv, Discard, Disabled, TokenErased, TypeOK, PurgingInv,
     settings, rowVars, lockVars, history, dailyVars, Scrubbed, Holders, Working, Ends,
     Entities, Matches, Inserted
<1>7. ContentErased'
  BY PersonalDataAssumption DEF IInv, Discard, Disabled, ContentErased, TypeOK, RowsInv,
     KnownInv, PurgingInv, TokenErased, settings, rowVars, lockVars, history, dailyVars,
     Scrubbed, Holders, Working, Ends, Entities, Inserted, Started, Matches
<1> QED BY <1>1, <1>2, <1>3, <1>4, <1>5, <1>6, <1>7 DEF IInv

LEMMA BeginStep ==
  ASSUME IInv, NEW q \in Deletions, Begin(q)
  PROVE  IInv'
<1>1. TypeOK'
  BY PersonalDataAssumption DEF IInv, Begin, TypeOK, Matches, settings, rowVars, lockVars,
     history, dailyVars, Scrubbed, Holders, Working, Ends, Entities, Inserted
<1>2. RowsInv'
  BY PersonalDataAssumption DEF IInv, Begin, RowsInv, TypeOK, Matches, settings, rowVars,
     lockVars, history, dailyVars, Inserted, Scrubbed, Holders, Working, Ends, Entities
<1>3. KnownInv'
  BY PersonalDataAssumption DEF IInv, Begin, KnownInv, TypeOK, RowsInv, DisputesInv,
     Matches, settings, rowVars, lockVars, history, dailyVars, Started, Scrubbed, Holders,
     Working, Ends, Entities, Inserted
<1>4. DisputesInv'
  BY PersonalDataAssumption DEF IInv, Begin, DisputesInv, TypeOK, RowsInv, Matches,
     settings, rowVars, lockVars, history, dailyVars, Scrubbed, Holders, Working, Ends,
     Entities, Inserted
<1>5. PurgingInv'
  BY PersonalDataAssumption DEF IInv, Begin, PurgingInv, TypeOK, RowsInv, DisputesInv,
     Matches, settings, rowVars, lockVars, history, dailyVars, Scrubbed, Holders, Working,
     Ends, Entities, Inserted
<1>6. TokenErased'
  BY PersonalDataAssumption DEF IInv, Begin, TokenErased, TypeOK, PurgingInv, Matches,
     settings, rowVars, lockVars, history, dailyVars, Scrubbed, Holders, Working, Ends,
     Entities, Inserted
<1>7. ContentErased'
  BY PersonalDataAssumption DEF IInv, Begin, ContentErased, TypeOK, RowsInv, KnownInv,
     PurgingInv, TokenErased, Matches, settings, rowVars, lockVars, history, dailyVars,
     Scrubbed, Holders, Working, Ends, Entities, Inserted, Started
<1> QED BY <1>1, <1>2, <1>3, <1>4, <1>5, <1>6, <1>7 DEF IInv

LEMMA ScrubRowStep ==
  ASSUME IInv, NEW q \in Deletions, NEW d \in Rows, ScrubRow(q, d)
  PROVE  IInv'
<1>1. TypeOK'
  BY PersonalDataAssumption DEF IInv, ScrubRow, TypeOK, Pending, settings, rowVars,
     requestVars, history, dailyVars, Scrubbed, Holders, Working, Ends, Entities, Matches,
     Inserted
<1>2. RowsInv'
  BY PersonalDataAssumption DEF IInv, ScrubRow, RowsInv, TypeOK, Pending, settings, rowVars,
     requestVars, history, dailyVars, Inserted, Scrubbed, Holders, Working, Ends, Entities,
     Matches
<1>3. KnownInv'
  BY PersonalDataAssumption DEF IInv, ScrubRow, KnownInv, TypeOK, RowsInv, DisputesInv,
     Pending, settings, rowVars, requestVars, history, dailyVars, Started, Scrubbed,
     Holders, Working, Ends, Entities, Inserted, Matches
<1>4. DisputesInv'
  BY PersonalDataAssumption DEF IInv, ScrubRow, DisputesInv, TypeOK, RowsInv, Pending,
     settings, rowVars, requestVars, history, dailyVars, Matches, Scrubbed, Holders,
     Working, Ends, Entities, Inserted
<1>5. PurgingInv'
  BY PersonalDataAssumption DEF IInv, ScrubRow, PurgingInv, TypeOK, RowsInv, DisputesInv,
     Pending, settings, rowVars, requestVars, history, dailyVars, Matches, Scrubbed,
     Holders, Working, Ends, Entities, Inserted
<1>6. TokenErased'
  BY PersonalDataAssumption DEF IInv, ScrubRow, TokenErased, TypeOK, PurgingInv, Pending,
     settings, rowVars, requestVars, history, dailyVars, Scrubbed, Holders, Working, Ends,
     Entities, Matches, Inserted
<1>7. ContentErased'
  BY PersonalDataAssumption DEF IInv, ScrubRow, ContentErased, TypeOK, RowsInv, KnownInv,
     PurgingInv, TokenErased, Pending, settings, rowVars, requestVars, history, dailyVars,
     Scrubbed, Holders, Working, Ends, Entities, Inserted, Started, Matches
<1> QED BY <1>1, <1>2, <1>3, <1>4, <1>5, <1>6, <1>7 DEF IInv

LEMMA ScrubLogsStep ==
  ASSUME IInv, NEW q \in Deletions, ScrubLogs(q)
  PROVE  IInv'
<1>1. TypeOK'
  BY PersonalDataAssumption DEF IInv, ScrubLogs, TypeOK, Pending, LogsOf, settings, rowVars,
     history, dailyVars, Scrubbed, Holders, Working, Ends, Entities, Matches, Inserted
<1>2. RowsInv'
  BY PersonalDataAssumption DEF IInv, ScrubLogs, RowsInv, TypeOK, Pending, LogsOf, settings,
     rowVars, history, dailyVars, Inserted, Scrubbed, Holders, Working, Ends, Entities,
     Matches
<1>3. KnownInv'
  BY PersonalDataAssumption DEF IInv, ScrubLogs, KnownInv, TypeOK, RowsInv, DisputesInv,
     Pending, LogsOf, settings, rowVars, history, dailyVars, Started, Scrubbed, Holders,
     Working, Ends, Entities, Inserted, Matches
<1>4. DisputesInv'
  BY PersonalDataAssumption DEF IInv, ScrubLogs, DisputesInv, TypeOK, RowsInv, Pending,
     LogsOf, settings, rowVars, history, dailyVars, Matches, Scrubbed, Holders, Working,
     Ends, Entities, Inserted
<1>5. PurgingInv'
  BY PersonalDataAssumption DEF IInv, ScrubLogs, PurgingInv, TypeOK, RowsInv, DisputesInv,
     Pending, LogsOf, settings, rowVars, history, dailyVars, Matches, Scrubbed, Holders,
     Working, Ends, Entities, Inserted
<1>6. TokenErased'
  BY PersonalDataAssumption DEF IInv, ScrubLogs, TokenErased, TypeOK, PurgingInv, Pending,
     LogsOf, settings, rowVars, history, dailyVars, Scrubbed, Holders, Working, Ends,
     Entities, Matches, Inserted
<1>7. ContentErased'
  BY PersonalDataAssumption DEF IInv, ScrubLogs, ContentErased, TypeOK, RowsInv, KnownInv,
     PurgingInv, TokenErased, Pending, LogsOf, settings, rowVars, history, dailyVars,
     Scrubbed, Holders, Working, Ends, Entities, Inserted, Started, Matches
<1> QED BY <1>1, <1>2, <1>3, <1>4, <1>5, <1>6, <1>7 DEF IInv

\* The commit, which is where the other rows' facts have to pay.
LEMMA CompleteStep ==
  ASSUME IInv, NEW q \in Deletions, Complete(q)
  PROVE  IInv'
<1>1. TypeOK'
  BY PersonalDataAssumption DEF IInv, Complete, TypeOK, Release, settings, history,
     dailyVars, Scrubbed, Holders, Working, Ends, Entities
<1>2. RowsInv'
  BY PersonalDataAssumption DEF IInv, Complete, RowsInv, TypeOK, Release, settings, history,
     dailyVars, Inserted, Scrubbed, Holders, Working, Ends, Entities
<1>3. KnownInv'
  <2> SUFFICES ASSUME NEW p \in Deletions, NEW d \in Rows, Started(p)', d \in known[p],
                      entity[p] # "merchant"
               PROVE  /\ token'[d] \in {entity[p]} \cup Scrubbed
                      /\ token'[d] \in Scrubbed /\ d \notin rewritten[p] => "content" \notin data'[d]
    BY DEF KnownInv, Complete, requestVars, history
  <2>1. Started(p)
    BY DEF Started, Working, Complete, IInv, TypeOK
  <2>2. CASE rowLock[d] = q
    BY <2>2 DEF Complete, Scrubbed
  <2>3. CASE rowLock[d] # q
    BY <2>1, <2>3 DEF Complete, IInv, KnownInv
  <2> QED BY <2>2, <2>3
<1>4. DisputesInv'
  BY PersonalDataAssumption DEF IInv, Complete, DisputesInv, TypeOK, RowsInv, Release,
     settings, history, dailyVars, Matches, Scrubbed, Holders, Working, Ends, Entities,
     Inserted
<1>5. PurgingInv'
  <2> SUFFICES ASSUME NEW p \in Deletions, NEW d \in Rows, at'[p] = "purging", d \notin since[p]
               PROVE  /\ Matches(p, d)' => rowLock'[d] = p
                      /\ entity[p] = "merchant" /\ log'[d] # "none" => logLock'[d] = p
    BY DEF PurgingInv, Complete, history
  <2>1. p # q /\ at[p] = "purging"
    BY DEF Complete, IInv, TypeOK
  <2>2. Matches(p, d)' => rowLock'[d] = p
    BY <2>1, PersonalDataAssumption DEF Complete, Release, IInv, PurgingInv, RowsInv, TypeOK,
       Matches, Inserted, Entities, Holders, Scrubbed
  <2>3. ASSUME entity[p] = "merchant", log'[d] # "none" PROVE logLock'[d] = p
    <3>1. log[d] # "none"
      BY <2>3, PersonalDataAssumption DEF Complete, IInv, PurgingInv, RowsInv, TypeOK, Matches, Inserted,
         Started, Holders
    <3> QED BY <2>1, <2>3, <3>1 DEF Complete, Release, IInv, PurgingInv
  <2> QED BY <2>2, <2>3
<1>6. TokenErased'
  BY PersonalDataAssumption DEF IInv, Complete, TokenErased, TypeOK, PurgingInv, Release,
     settings, history, dailyVars, Scrubbed, Holders, Working, Ends, Entities, Matches,
     Inserted
<1>7. ContentErased'
  BY PersonalDataAssumption DEF IInv, Complete, ContentErased, TypeOK, RowsInv, KnownInv,
     PurgingInv, TokenErased, Release, settings, history, dailyVars, Scrubbed, Holders,
     Working, Ends, Entities, Inserted, Started, Matches
<1> QED BY <1>1, <1>2, <1>3, <1>4, <1>5, <1>6, <1>7 DEF IInv

\* A request that fails, is lost or is the victim of a deadlock.
LEMMA AbortStep ==
  ASSUME IInv, NEW q \in Deletions, NEW to \in {"queued", "failed"}, at[q] \in Working, Abort(q, to),
         UNCHANGED dailyVars, crashes' \in 0..MaxCrashes
  PROVE  IInv'
<1>1. TypeOK'
  BY PersonalDataAssumption DEF IInv, Abort, dailyVars, Working, TypeOK, Release, settings,
     rowVars, Scrubbed, Holders, Ends, Entities
<1>2. RowsInv'
  BY PersonalDataAssumption DEF IInv, Abort, dailyVars, Working, RowsInv, TypeOK, Release,
     settings, rowVars, Inserted, Scrubbed, Holders, Ends, Entities
<1>3. KnownInv'
  BY PersonalDataAssumption DEF IInv, Abort, dailyVars, Working, KnownInv, TypeOK, RowsInv,
     DisputesInv, Release, settings, rowVars, Started, Scrubbed, Holders, Ends, Entities,
     Inserted, Matches
<1>4. DisputesInv'
  BY PersonalDataAssumption DEF IInv, Abort, dailyVars, Working, DisputesInv, TypeOK,
     RowsInv, Release, settings, rowVars, Matches, Scrubbed, Holders, Ends, Entities,
     Inserted
<1>5. PurgingInv'
  BY PersonalDataAssumption DEF IInv, Abort, dailyVars, Working, PurgingInv, TypeOK,
     RowsInv, DisputesInv, Release, settings, rowVars, Matches, Scrubbed, Holders, Ends,
     Entities, Inserted
<1>6. TokenErased'
  BY PersonalDataAssumption DEF IInv, Abort, dailyVars, Working, TokenErased, TypeOK,
     PurgingInv, Release, settings, rowVars, Scrubbed, Holders, Ends, Entities, Matches,
     Inserted
<1>7. ContentErased'
  BY PersonalDataAssumption DEF IInv, Abort, dailyVars, Working, ContentErased, TypeOK,
     RowsInv, KnownInv, PurgingInv, TokenErased, Release, settings, rowVars, Scrubbed,
     Holders, Ends, Entities, Inserted, Started, Matches
<1> QED BY <1>1, <1>2, <1>3, <1>4, <1>5, <1>6, <1>7 DEF IInv

\* The daily scrub.
LEMMA DailyLogsStep ==
  ASSUME IInv, DailyLogs
  PROVE  IInv'
<1>1. TypeOK'
  BY PersonalDataAssumption DEF IInv, DailyLogs, TypeOK, Inserted, settings, rowVars,
     requestVars, history, Scrubbed, Holders, Working, Ends, Entities
<1>2. RowsInv'
  BY PersonalDataAssumption DEF IInv, DailyLogs, RowsInv, TypeOK, Inserted, settings,
     rowVars, requestVars, history, Scrubbed, Holders, Working, Ends, Entities
<1>3. KnownInv'
  BY PersonalDataAssumption DEF IInv, DailyLogs, KnownInv, TypeOK, RowsInv, DisputesInv,
     Inserted, settings, rowVars, requestVars, history, Started, Scrubbed, Holders, Working,
     Ends, Entities, Matches
<1>4. DisputesInv'
  BY PersonalDataAssumption DEF IInv, DailyLogs, DisputesInv, TypeOK, RowsInv, Inserted,
     settings, rowVars, requestVars, history, Matches, Scrubbed, Holders, Working, Ends,
     Entities
<1>5. PurgingInv'
  BY PersonalDataAssumption DEF IInv, DailyLogs, PurgingInv, TypeOK, RowsInv, DisputesInv,
     Inserted, settings, rowVars, requestVars, history, Matches, Scrubbed, Holders, Working,
     Ends, Entities
<1>6. TokenErased'
  BY PersonalDataAssumption DEF IInv, DailyLogs, TokenErased, TypeOK, PurgingInv, Inserted,
     settings, rowVars, requestVars, history, Scrubbed, Holders, Working, Ends, Entities,
     Matches
<1>7. ContentErased'
  BY PersonalDataAssumption DEF IInv, DailyLogs, ContentErased, TypeOK, RowsInv, KnownInv,
     PurgingInv, TokenErased, Inserted, settings, rowVars, requestVars, history, Scrubbed,
     Holders, Working, Ends, Entities, Started, Matches
<1> QED BY <1>1, <1>2, <1>3, <1>4, <1>5, <1>6, <1>7 DEF IInv

LEMMA DailyRowStep ==
  ASSUME IInv, NEW d \in Rows, DailyRow(d)
  PROVE  IInv'
<1>1. TypeOK'
  BY PersonalDataAssumption DEF IInv, DailyRow, TypeOK, DailyPending, settings, rowVars,
     requestVars, history, dailyVars, Scrubbed, Holders, Working, Ends, Entities
<1>2. RowsInv'
  BY PersonalDataAssumption DEF IInv, DailyRow, RowsInv, TypeOK, DailyPending, settings,
     rowVars, requestVars, history, dailyVars, Inserted, Scrubbed, Holders, Working, Ends,
     Entities
<1>3. KnownInv'
  BY PersonalDataAssumption DEF IInv, DailyRow, KnownInv, TypeOK, RowsInv, DisputesInv,
     DailyPending, settings, rowVars, requestVars, history, dailyVars, Started, Scrubbed,
     Holders, Working, Ends, Entities, Inserted, Matches
<1>4. DisputesInv'
  BY PersonalDataAssumption DEF IInv, DailyRow, DisputesInv, TypeOK, RowsInv, DailyPending,
     settings, rowVars, requestVars, history, dailyVars, Matches, Scrubbed, Holders,
     Working, Ends, Entities, Inserted
<1>5. PurgingInv'
  BY PersonalDataAssumption DEF IInv, DailyRow, PurgingInv, TypeOK, RowsInv, DisputesInv,
     DailyPending, settings, rowVars, requestVars, history, dailyVars, Matches, Scrubbed,
     Holders, Working, Ends, Entities, Inserted
<1>6. TokenErased'
  BY PersonalDataAssumption DEF IInv, DailyRow, TokenErased, TypeOK, PurgingInv,
     DailyPending, settings, rowVars, requestVars, history, dailyVars, Scrubbed, Holders,
     Working, Ends, Entities, Matches, Inserted
<1>7. ContentErased'
  BY PersonalDataAssumption DEF IInv, DailyRow, ContentErased, TypeOK, RowsInv, KnownInv,
     PurgingInv, TokenErased, DailyPending, settings, rowVars, requestVars, history,
     dailyVars, Scrubbed, Holders, Working, Ends, Entities, Inserted, Started, Matches
<1> QED BY <1>1, <1>2, <1>3, <1>4, <1>5, <1>6, <1>7 DEF IInv

LEMMA DailyCommitStep ==
  ASSUME IInv, DailyCommit
  PROVE  IInv'
<1>1. TypeOK'
  BY PersonalDataAssumption DEF IInv, DailyCommit, TypeOK, DailyPending, DailyEnd, Scrubbed,
     Holders, Working, Ends, Entities, Release, settings, requestVars, history
<1>2. RowsInv'
  BY PersonalDataAssumption DEF IInv, DailyCommit, RowsInv, TypeOK, DailyPending, DailyEnd,
     Inserted, Scrubbed, Holders, Working, Ends, Entities, Release, settings, requestVars,
     history
<1>3. KnownInv'
  BY PersonalDataAssumption DEF IInv, DailyCommit, KnownInv, TypeOK, RowsInv, DisputesInv,
     DailyPending, DailyEnd, Started, Scrubbed, Holders, Working, Ends, Entities, Inserted,
     Matches, Release, settings, requestVars, history
<1>4. DisputesInv'
  BY PersonalDataAssumption DEF IInv, DailyCommit, DisputesInv, TypeOK, RowsInv,
     DailyPending, DailyEnd, Matches, Scrubbed, Holders, Working, Ends, Entities, Inserted,
     Release, settings, requestVars, history
<1>5. PurgingInv'
  BY PersonalDataAssumption DEF IInv, DailyCommit, PurgingInv, TypeOK, RowsInv, DisputesInv,
     DailyPending, DailyEnd, Matches, Scrubbed, Holders, Working, Ends, Entities, Inserted,
     Release, settings, requestVars, history
<1>6. TokenErased'
  BY PersonalDataAssumption DEF IInv, DailyCommit, TokenErased, TypeOK, PurgingInv,
     DailyPending, DailyEnd, Scrubbed, Holders, Working, Ends, Entities, Matches, Release,
     settings, requestVars, history, Inserted
<1>7. ContentErased'
  BY PersonalDataAssumption DEF IInv, DailyCommit, ContentErased, TypeOK, RowsInv, KnownInv,
     PurgingInv, TokenErased, DailyPending, DailyEnd, Scrubbed, Holders, Working, Ends,
     Entities, Inserted, Started, Matches, Release, settings, requestVars, history
<1> QED BY <1>1, <1>2, <1>3, <1>4, <1>5, <1>6, <1>7 DEF IInv

LEMMA DailyAbortStep ==
  ASSUME IInv, DailyAbort, UNCHANGED crashes
  PROVE  IInv'
<1>1. TypeOK'
  BY PersonalDataAssumption DEF IInv, DailyAbort, TypeOK, DailyEnd, Scrubbed, Holders,
     Working, Ends, Entities, Release, settings, requestVars, history
<1>2. RowsInv'
  BY PersonalDataAssumption DEF IInv, DailyAbort, RowsInv, TypeOK, DailyEnd, Inserted,
     Scrubbed, Holders, Working, Ends, Entities, Release, settings, requestVars, history
<1>3. KnownInv'
  BY PersonalDataAssumption DEF IInv, DailyAbort, KnownInv, TypeOK, RowsInv, DisputesInv,
     DailyEnd, Started, Scrubbed, Holders, Working, Ends, Entities, Inserted, Matches,
     Release, settings, requestVars, history
<1>4. DisputesInv'
  BY PersonalDataAssumption DEF IInv, DailyAbort, DisputesInv, TypeOK, RowsInv, DailyEnd,
     Matches, Scrubbed, Holders, Working, Ends, Entities, Inserted, Release, settings,
     requestVars, history
<1>5. PurgingInv'
  BY PersonalDataAssumption DEF IInv, DailyAbort, PurgingInv, TypeOK, RowsInv, DisputesInv,
     DailyEnd, Matches, Scrubbed, Holders, Working, Ends, Entities, Inserted, Release,
     settings, requestVars, history
<1>6. TokenErased'
  BY PersonalDataAssumption DEF IInv, DailyAbort, TokenErased, TypeOK, PurgingInv, DailyEnd,
     Scrubbed, Holders, Working, Ends, Entities, Matches, Release, settings, requestVars,
     history, Inserted
<1>7. ContentErased'
  BY PersonalDataAssumption DEF IInv, DailyAbort, ContentErased, TypeOK, RowsInv, KnownInv,
     PurgingInv, TokenErased, DailyEnd, Scrubbed, Holders, Working, Ends, Entities,
     Inserted, Started, Matches, Release, settings, requestVars, history
<1> QED BY <1>1, <1>2, <1>3, <1>4, <1>5, <1>6, <1>7 DEF IInv

-----------------------------------------------------------------------------
LEMMA InvInit == Init => IInv
BY PersonalDataAssumption DEF Init, IInv, TypeOK, RowsInv, KnownInv, DisputesInv, PurgingInv,
   TokenErased, ContentErased, Inserted, Started, Working, Entities, Holders, Ends, Scrubbed

LEMMA InvNext == IInv /\ [Next]_vars => IInv'
<1> SUFFICES ASSUME IInv, [Next]_vars PROVE IInv'
  OBVIOUS
<1>1. ASSUME NEW d \in Rows, NEW c \in Cards, Insert(d, c) PROVE IInv'
  BY <1>1, InsertStep
<1>2. ASSUME NEW d \in Rows, Write(d) PROVE IInv'
  BY <1>2, WriteStep
<1>3. ASSUME NEW d \in Rows, WriterEnds(d) PROVE IInv'
  BY <1>3, WriteCommitStep, WriteRollbackStep DEF WriterEnds
<1>4. ASSUME NEW q \in Deletions, NEW e \in Entities, Request(q, e) PROVE IInv'
  BY <1>4, RequestStep
<1>5. ASSUME NEW q \in Deletions, DeletionStep(q) PROVE IInv'
  BY <1>5, RefusalStep, BeginStep, ScrubRowStep, ScrubLogsStep, CompleteStep DEF DeletionStep
<1>6. ASSUME NEW q \in Deletions, Fail(q) PROVE IInv'
  BY <1>6, AbortStep DEF Fail, IInv, TypeOK
<1>7. ASSUME NEW q \in Deletions, Lost(q) PROVE IInv'
  <2>1. crashes' \in 0..MaxCrashes
    BY <1>7, PersonalDataAssumption DEF Lost, IInv, TypeOK
  <2> QED BY <1>7, <2>1, AbortStep DEF Lost
<1>8. ASSUME DailyLogs PROVE IInv'
  BY <1>8, DailyLogsStep
<1>9. ASSUME DailyStep PROVE IInv'
  BY <1>9, DailyRowStep, DailyCommitStep DEF DailyStep
<1>10. ASSUME DailyFails PROVE IInv'
  BY <1>10, DailyAbortStep DEF DailyFails
<1>11. ASSUME BreakDeadlock PROVE IInv'
  <2>1. PICK S \in SUBSET (Deletions \cup {"daily"}) :
          /\ Deadlocked(S)
          /\ \E x \in S : IF x = "daily" THEN DailyAbort ELSE Abort(x, "failed") /\ UNCHANGED dailyVars
    BY <1>11 DEF BreakDeadlock
  <2>2. PICK x \in S : IF x = "daily" THEN DailyAbort ELSE Abort(x, "failed") /\ UNCHANGED dailyVars
    BY <2>1
  <2>3. UNCHANGED crashes
    BY <1>11 DEF BreakDeadlock
  <2>4. CASE x = "daily"
    BY <2>2, <2>3, <2>4, DailyAbortStep
  <2>5. CASE x # "daily"
    <3>1. PICK y \in S \ {x} : Needs(x, y)
      BY <2>1 DEF Deadlocked
    <3>2. x \in Deletions /\ at[x] \in Working
      BY <2>5, <3>1 DEF Needs, Working
    <3>3. crashes' \in 0..MaxCrashes
      BY <2>3 DEF IInv, TypeOK
    <3> QED BY <2>2, <2>5, <3>2, <3>3, AbortStep
  <2> QED BY <2>4, <2>5
<1>12. ASSUME UNCHANGED vars PROVE IInv'
  BY <1>12 DEF vars, settings, rowVars, lockVars, requestVars, history, dailyVars, IInv, TypeOK,
     RowsInv, KnownInv, DisputesInv, PurgingInv, TokenErased, ContentErased, Inserted, Started, Matches
<1> QED BY <1>1, <1>2, <1>3, <1>4, <1>5, <1>6, <1>7, <1>8, <1>9, <1>10, <1>11, <1>12 DEF Next

THEOREM Invariant == Spec => []IInv
BY InvInit, InvNext, PTL DEF Spec

\* The state is well formed, and only a transaction under way holds a lock.
THEOREM TypeCorrect == Spec => []TypeOK
<1>1. IInv => TypeOK
  BY DEF IInv
<1> QED BY <1>1, Invariant, PTL

\* Once process_deletion_request has answered "completed", no row that was there
\* when its UPDATE began has a token it was to remove.
THEOREM TokensErased == Spec => []TokenErased
<1>1. IInv => TokenErased
  BY DEF IInv
<1> QED BY <1>1, Invariant, PTL

\* Nor has such a row a letter, evidence or score contributions, unless somebody
\* wrote the row after it had been scrubbed.
THEOREM ContentsErased == Spec => []ContentErased
<1>1. IInv => ContentErased
  BY DEF IInv
<1> QED BY <1>1, Invariant, PTL

-----------------------------------------------------------------------------
(* Waiting for locks.                                                      *)

\* A request holds its score logs only from its second UPDATE on, so that it never
\* waits for itself, and the rows its first UPDATE knows are there.
WaitInv ==
  /\ \A q \in Deletions, d \in Rows : logLock[d] = q => at[q] = "purging"
  /\ \A q \in Deletions : Started(q) => \A d \in known[q] : Inserted(d)

LEMMA AbortKeepsWaitInv ==
  ASSUME IInv, WaitInv, NEW q \in Deletions, NEW to \in {"queued", "failed"}, Abort(q, to)
  PROVE  WaitInv'
BY PersonalDataAssumption DEF WaitInv, Abort, Release, rowVars, IInv, TypeOK, Started, Inserted,
   Working, Holders

LEMMA DailyEndKeepsWaitInv ==
  ASSUME IInv, WaitInv, DailyEnd,
         UNCHANGED token \/ token' = [d \in Rows |-> IF rowLock[d] = "daily" THEN "expired" ELSE token[d]]
  PROVE  WaitInv'
<1>1. \A d \in Rows : Inserted(d) => Inserted(d)'
  BY DEF Inserted
<1>2. UNCHANGED <<at, known>>
  BY DEF DailyEnd, requestVars
<1>3. \A q \in Deletions : known[q] \subseteq Rows
  BY DEF IInv, TypeOK
<1>4. \A q \in Deletions, d \in Rows : logLock'[d] = q => logLock[d] = q
  BY PersonalDataAssumption DEF DailyEnd, Release, Holders
<1> QED BY <1>1, <1>2, <1>3, <1>4 DEF WaitInv, Started

LEMMA DeletionKeepsWaitInv ==
  ASSUME IInv, WaitInv, NEW q \in Deletions, DeletionStep(q)
  PROVE  WaitInv'
<1>1. CASE Discard(q) \/ Disabled(q)
  BY <1>1 DEF Discard, Disabled, WaitInv, rowVars, lockVars, IInv, TypeOK, Started, Inserted, Working
<1>2. CASE Begin(q)
  BY <1>2, PersonalDataAssumption DEF Begin, WaitInv, rowVars, lockVars, IInv, TypeOK, Started,
     Inserted, Working, Matches, Entities
<1>3. CASE \E d \in Rows : ScrubRow(q, d)
  BY <1>3 DEF ScrubRow, WaitInv, rowVars, requestVars, Started, Inserted
<1>4. CASE ScrubLogs(q)
  BY <1>4 DEF ScrubLogs, WaitInv, rowVars, IInv, TypeOK, Started, Inserted, Working
<1>5. CASE Complete(q)
  BY <1>5, PersonalDataAssumption DEF Complete, Release, WaitInv, IInv, TypeOK, Started, Inserted,
     Working, Holders
<1> QED BY <1>1, <1>2, <1>3, <1>4, <1>5 DEF DeletionStep

LEMMA WaitInvNext == IInv /\ WaitInv /\ [Next]_vars => WaitInv'
<1> SUFFICES ASSUME IInv, WaitInv, [Next]_vars PROVE WaitInv'
  OBVIOUS
<1>1. ASSUME NEW d \in Rows, NEW c \in Cards, Insert(d, c) PROVE WaitInv'
  BY <1>1, PersonalDataAssumption DEF Insert, WaitInv, IInv, TypeOK, Started, Inserted, lockVars,
     requestVars
<1>2. ASSUME NEW d \in Rows, Write(d) \/ WriteRollback(d) PROVE WaitInv'
  BY <1>2 DEF Write, WriteRollback, WaitInv, rowVars, requestVars, Started, Inserted
<1>3. ASSUME NEW d \in Rows, NEW parts, NEW scored, WriteCommit(d, parts, scored) PROVE WaitInv'
  BY <1>3 DEF WriteCommit, WaitInv, requestVars, Started, Inserted
<1>4. ASSUME NEW q \in Deletions, NEW e \in Entities, Request(q, e) PROVE WaitInv'
  BY <1>4 DEF Request, WaitInv, rowVars, lockVars, IInv, TypeOK, Started, Inserted, Working
<1>5. ASSUME NEW q \in Deletions, Fail(q) \/ Lost(q) PROVE WaitInv'
  BY <1>5, AbortKeepsWaitInv DEF Fail, Lost
<1>6. CASE DailyLogs
  BY <1>6, PersonalDataAssumption DEF DailyLogs, WaitInv, rowVars, requestVars, Started, Inserted, Holders
<1>7. CASE DailyStep
  <2>1. CASE DailyCommit
    BY <2>1, DailyEndKeepsWaitInv DEF DailyCommit
  <2>2. CASE \E d \in Rows : DailyRow(d)
    BY <2>2 DEF DailyRow, WaitInv, rowVars, requestVars, Started, Inserted
  <2> QED BY <1>7, <2>1, <2>2 DEF DailyStep
<1>8. CASE DailyFails
  BY <1>8, DailyEndKeepsWaitInv DEF DailyFails, DailyAbort
<1>9. CASE BreakDeadlock
  BY <1>9, AbortKeepsWaitInv, DailyEndKeepsWaitInv DEF BreakDeadlock, DailyAbort
<1>10. CASE UNCHANGED vars
  BY <1>10 DEF vars, WaitInv, rowVars, lockVars, requestVars, Started, Inserted
<1> QED BY <1>1, <1>2, <1>3, <1>4, <1>5, <1>6, <1>7, <1>8, <1>9, <1>10, DeletionKeepsWaitInv
        DEF Next, WriterEnds

LEMMA WaitInvariant == Spec => []WaitInv
<1>1. Init => WaitInv
  BY PersonalDataAssumption DEF Init, WaitInv, Started, Working, Holders
<1> QED BY <1>1, WaitInvNext, Invariant, PTL DEF Spec

\* A transaction that is stuck waits for somebody else: a writer, or a transaction of
\* retention that is under way.
LEMMA StuckWaits ==
  ASSUME IInv, WaitInv, NEW x \in Stuck
  PROVE  \E y \in Holders \ {x} : Needs(x, y) /\ (y = "writer" \/ (y \in Retention /\ UnderWay(y)))
<1>1. x \in Retention /\ UnderWay(x) /\ ~CanGoOn(x)
  BY DEF Stuck
<1>2. \A d \in Rows : rowLock[d] \in Holders /\ rowLock[d] # "writer" =>
                        rowLock[d] \in Retention /\ UnderWay(rowLock[d])
  BY PersonalDataAssumption DEF Holders, Retention, UnderWay, IInv, TypeOK
<1>3. \A d \in Rows : logLock[d] # None => logLock[d] \in Retention /\ UnderWay(logLock[d])
  BY PersonalDataAssumption DEF Retention, UnderWay, IInv, TypeOK
<1>4. CASE x = "daily"
  <2>1. daily = "disputes" /\ DailyPending # {} /\ \A d \in DailyPending : rowLock[d] # None
    BY <1>1, <1>4 DEF UnderWay, CanGoOn, RowsToDo
  <2>2. PICK d \in DailyPending : rowLock[d] \in Holders \ {x}
    BY <1>4, <2>1 DEF DailyPending, IInv, TypeOK
  <2>3. d \in Rows /\ Needs(x, rowLock[d])
    BY <1>4, <2>1, <2>2 DEF Needs, DailyPending, IInv, TypeOK
  <2>4. rowLock[d] = "writer" \/ (rowLock[d] \in Retention /\ UnderWay(rowLock[d]))
    BY <1>2, <2>2, <2>3
  <2> QED BY <2>2, <2>3, <2>4
<1>5. CASE x # "daily" /\ Pending(x) # {}
  <2>1. x \in Deletions /\ at[x] = "disputes" /\ \A d \in Pending(x) : rowLock[d] # None
    BY <1>1, <1>5 DEF UnderWay, CanGoOn, RowsToDo, Retention, Working
  <2>2. PICK d \in Pending(x) : rowLock[d] \in Holders \ {x}
    BY <1>5, <2>1 DEF Pending, IInv, TypeOK
  <2>3. d \in Rows /\ Needs(x, rowLock[d])
    BY <2>1, <2>2 DEF Needs, Pending, IInv, TypeOK
  <2>4. rowLock[d] = "writer" \/ (rowLock[d] \in Retention /\ UnderWay(rowLock[d]))
    BY <1>2, <2>2, <2>3
  <2> QED BY <2>2, <2>3, <2>4
<1>6. CASE x # "daily" /\ Pending(x) = {}
  <2>1. x \in Deletions /\ at[x] = "disputes" /\ \E d \in LogsOf(x) : logLock[d] # None
    BY <1>1, <1>6 DEF UnderWay, CanGoOn, RowsToDo, Retention, Working
  <2>2. PICK d \in LogsOf(x) : logLock[d] # None
    BY <2>1
  <2>3. d \in Rows /\ logLock[d] # x
    BY <2>1, <2>2 DEF LogsOf, WaitInv
  <2>4. Needs(x, logLock[d])
    BY <1>6, <2>1, <2>2 DEF Needs
  <2> QED BY <1>3, <2>2, <2>3, <2>4 DEF Retention, Holders
<1> QED BY <1>4, <1>5, <1>6

\* The deletion requests and the daily scrub, which lock rows and score logs in
\* opposite orders, never stand still unseen: PostgreSQL finds a deadlock, or somebody
\* they wait for has a step to take.
THEOREM NoSilentWait == Spec => []WaitsAreSeen
<1>1. IInv /\ WaitInv => WaitsAreSeen
  <2> SUFFICES ASSUME IInv, WaitInv, Stuck # {}, \A x \in Stuck : ~Needs(x, "writer"),
                      \A x \in Stuck, y \in Retention \ Stuck : ~(Needs(x, y) /\ UnderWay(y) /\ CanGoOn(y))
               PROVE  Deadlocked(Stuck)
    BY DEF WaitsAreSeen
  <2>1. ASSUME NEW x \in Stuck PROVE \E y \in Stuck \ {x} : Needs(x, y)
    <3>1. PICK y \in Holders \ {x} : Needs(x, y) /\ (y = "writer" \/ (y \in Retention /\ UnderWay(y)))
      BY StuckWaits
    <3>2. y \in Retention /\ UnderWay(y)
      BY <3>1
    <3>3. y \in Stuck
      BY <3>1, <3>2 DEF Stuck
    <3> QED BY <3>1, <3>3
  <2> QED BY <2>1 DEF Deadlocked
<1> QED BY <1>1, Invariant, WaitInvariant, PTL

\* What a step leaves of a request's first UPDATE.
LEMMA PendingShrinksStep ==
  ASSUME IInv, WaitInv, [Next]_vars, NEW q \in Deletions, at[q] = "disputes", at'[q] = "disputes",
         NEW d \in Pending(q)'
  PROVE  d \in Pending(q)
<1> DEFINE Kept == /\ known'[q] = known[q] /\ entity'[q] = entity[q]
                   /\ rowLock[d] = q => rowLock'[d] = q
                   /\ Inserted(d) /\ token'[d] \notin Scrubbed => token'[d] = token[d]
<1>1. d \in known'[q] /\ Matches(q, d)' /\ rowLock'[d] # q
  BY DEF Pending
<1>0. d \in Rows
  BY <1>1, InvNext DEF IInv, TypeOK
<1>2. ASSUME Kept PROVE d \in Pending(q)
  <2>1. d \in known[q] /\ d \in Rows /\ Inserted(d)
    BY <1>1, <1>2 DEF WaitInv, Started, Working, IInv, TypeOK
  <2>2. Matches(q, d)
    BY <1>1, <1>2, <2>1, PersonalDataAssumption DEF Matches, IInv, TypeOK, Entities, Scrubbed
  <2> QED BY <1>1, <1>2, <2>1, <2>2 DEF Pending
<1> HIDE DEF Kept
<1> USE <1>0, PersonalDataAssumption DEF Kept, Inserted, Scrubbed, Holders
<1>3. ASSUME NEW r \in Rows, NEW c \in Cards, Insert(r, c) PROVE Kept
  BY <1>3 DEF Insert, IInv, TypeOK, lockVars, requestVars
<1>4. ASSUME NEW r \in Rows, Write(r) \/ WriteRollback(r) PROVE Kept
  BY <1>4 DEF Write, WriteRollback, rowVars, requestVars, IInv, TypeOK, Holders
<1>5. ASSUME NEW r \in Rows, NEW parts, NEW scored, WriteCommit(r, parts, scored) PROVE Kept
  BY <1>5 DEF WriteCommit, requestVars, IInv, TypeOK
<1>6. ASSUME NEW p \in Deletions, NEW e \in Entities, Request(p, e) PROVE Kept
  BY <1>6 DEF Request, rowVars, lockVars, IInv, TypeOK
<1>7. ASSUME NEW p \in Deletions, DeletionStep(p) PROVE Kept
  <2>1. CASE Discard(p) \/ Disabled(p)
    BY <2>1 DEF Discard, Disabled, rowVars, lockVars
  <2>2. CASE Begin(p)
    BY <2>2 DEF Begin, rowVars, lockVars, IInv, TypeOK
  <2>3. CASE \E r \in Rows : ScrubRow(p, r)
    BY <2>3 DEF ScrubRow, rowVars, requestVars, IInv, TypeOK, Holders
  <2>4. CASE ScrubLogs(p)
    BY <2>4 DEF ScrubLogs, rowVars, IInv, TypeOK
  <2>5. CASE Complete(p)
    <3>1. p # q
      BY <2>5 DEF Complete
    <3> QED BY <2>5, <3>1 DEF Complete, Release, IInv, TypeOK, WaitInv
  <2> QED BY <1>7, <2>1, <2>2, <2>3, <2>4, <2>5 DEF DeletionStep
<1>8. ASSUME NEW p \in Deletions, NEW to \in {"queued", "failed"}, Abort(p, to) PROVE Kept
  <2>1. p # q
    BY <1>8 DEF Abort, IInv, TypeOK
  <2> QED BY <1>8, <2>1 DEF Abort, Release, rowVars, IInv, TypeOK
<1>9. ASSUME DailyEnd,
             UNCHANGED token \/ token' = [r \in Rows |-> IF rowLock[r] = "daily" THEN "expired" ELSE token[r]]
      PROVE  Kept
  BY <1>9 DEF DailyEnd, Release, requestVars, IInv, TypeOK
<1>10. ASSUME DailyLogs \/ UNCHANGED vars \/ \E r \in Rows : DailyRow(r) PROVE Kept
  BY <1>10 DEF DailyLogs, DailyRow, vars, rowVars, lockVars, requestVars, IInv, TypeOK
<1>11. Kept
  <2> HIDE DEF Kept
  <2>1. CASE UNCHANGED vars
    BY <2>1, <1>10
  <2>2. CASE Next
    BY <2>2, <1>3, <1>4, <1>5, <1>6, <1>7, <1>8, <1>9, <1>10
       DEF Next, WriterEnds, Fail, Lost, DailyStep, DailyCommit, DailyFails, DailyAbort, BreakDeadlock
  <2> QED BY <2>1, <2>2
<1> QED BY <1>2, <1>11

\* Nobody gives the first UPDATE of a deletion request more rows to scrub: it has at
\* most the rows it knew to wait for, however many webhooks and writers there are.
THEOREM UpdatesProgress == Spec => PendingShrinks
<1>1. IInv /\ WaitInv /\ [Next]_vars =>
        [\A q \in Deletions : at[q] = "disputes" /\ at'[q] = "disputes" =>
           Pending(q)' \subseteq Pending(q)]_vars
  BY PendingShrinksStep
<1> QED BY <1>1, Invariant, WaitInvariant, PTL DEF Spec, PendingShrinks

=============================================================================
