---------------------------- MODULE IndexerProofs ----------------------------
(***************************************************************************)
(* Proofs about Indexer: its variables keep their types, a change that was *)
(* seen stays marked, and budgets are kept, for any targets, listings,     *)
(* budgets, failures, disturbances and numbers of Indexers.                *)
(*                                                                         *)
(* What carries the proof of the marks is that the hash a thread read at   *)
(* its start is the one its row still has at its end: everything else that *)
(* writes to a row leaves the hash alone, and an older thread has lost its *)
(* connection.                                                             *)
(*                                                                         *)
(* Last, the events of a day stay within the budgets: what is added up are *)
(* the events and what the Indexer may still spend.                        *)
(***************************************************************************)
EXTENDS Indexer, TLAPS

USE IndexerAssumption

Busy == job.phase # "idle"

\* Between its start and its record a thread knows the hash of the row.
HashKnown ==
    job.phase \in {"asked", "answered"} => job.hash = row[job.target].hash

IInv == TypeOK /\ HashKnown /\ SeenChangeIsMarked

-----------------------------------------------------------------------------
(* Types.                                                                  *)

LEMMA CoalesceTypes ==
    ASSUME NEW new \in 0 .. MaxVersion, NEW old \in 0 .. MaxVersion
    PROVE  Coalesce(new, old) \in 0 .. MaxVersion
BY DEF Coalesce

\* A job is none or belongs to a target.
LEMMA JobTypes ==
    ASSUME TypeOK, Busy
    PROVE  /\ job \in Jobs
           /\ job.target \in Targets
           /\ job.phase \in {"asked", "answered", "recorded"}
           /\ job.action \in {"full", "cheap"}
           /\ job.etag \in 0 .. MaxVersion /\ job.hash \in 0 .. MaxVersion
           /\ job.reply \in -2 .. MaxVersion
<1>1. job \in Jobs \cup {NoJob}
  BY DEF TypeOK
<1>2. job \in Jobs
  BY <1>1 DEF Busy, NoJob
<1>. QED
  BY <1>2 DEF Jobs

LEMMA RowTypes ==
    ASSUME TypeOK, NEW t \in Targets
    PROVE  /\ row[t] \in Rows
           /\ row[t].age \in 0 .. MaxFull /\ row[t].etag \in 0 .. MaxVersion
           /\ row[t].hash \in 0 .. MaxVersion /\ row[t].checkDue \in BOOLEAN
           /\ row[t].needsFull \in BOOLEAN /\ row[t].waiting \in BOOLEAN
BY DEF TypeOK, Rows

\* What the steps make of a row.
OlderRow(r) ==
    [r EXCEPT !.age = IF @ < MaxFull THEN @ + 1 ELSE @, !.checkDue = TRUE]
CheckedRow(r, etag, hash, needsFull) ==
    [r EXCEPT !.checkDue = FALSE, !.etag = etag, !.hash = hash,
              !.needsFull = needsFull, !.waiting = FALSE]
FailedRow(r, waiting) == [r EXCEPT !.needsFull = TRUE, !.waiting = waiting]

LEMMA RowUpdates ==
    ASSUME NEW r \in Rows, NEW e \in 0 .. MaxVersion, NEW h \in 0 .. MaxVersion,
           NEW b \in BOOLEAN
    PROVE  /\ OlderRow(r) \in Rows
           /\ CheckedRow(r, e, h, b) \in Rows
           /\ FailedRow(r, b) \in Rows
<1>1. OlderRow(r) \in Rows
  <2>1. r.age \in 0 .. MaxFull
    BY DEF Rows
  <2>2. (IF r.age < MaxFull THEN r.age + 1 ELSE r.age) \in 0 .. MaxFull
    BY <2>1
  <2>. QED
    BY <2>2 DEF OlderRow, Rows
<1>2. CheckedRow(r, e, h, b) \in Rows
  BY DEF CheckedRow, Rows
<1>3. FailedRow(r, b) \in Rows
  BY DEF FailedRow, Rows
<1>. QED
  BY <1>1, <1>2, <1>3

LEMMA ValidatorTypes ==
    ASSUME TypeOK, Busy, job.reply \in Versions
    PROVE  Validator \in 0 .. MaxVersion /\ IndexedRow \in Rows
<1>1. Validator \in 0 .. MaxVersion /\ job.reply \in 0 .. MaxVersion
  BY DEF Validator, Versions, Nothing
<1>. QED
  BY <1>1 DEF IndexedRow, Rows

LEMMA CounterTypes ==
    ASSUME TypeOK, NEW a \in {"full", "cheap"}
    PROVE  /\ [events EXCEPT ![a] = @ + 1] \in Counters
           /\ Counted \in Counters
           /\ [Counted EXCEPT ![a] = @ + 1] \in Counters
<1>1. events \in Counters /\ used \in Counters
  BY DEF TypeOK
<1>2. Counted \in Counters
  BY <1>1 DEF Counted
<1>. QED
  BY <1>1, <1>2 DEF Counters

LEMMA InitTyped == Init => TypeOK
<1>. SUFFICES ASSUME Init PROVE TypeOK
  OBVIOUS
<1>1. remote \in [Targets -> Versions] /\ listing \in [Targets -> -1 .. MaxVersion]
  BY DEF Init, Versions, Nothing
<1>2. row \in [Targets -> Rows]
  BY DEF Init, Rows, Nothing
<1>3. events \in Counters /\ used \in Counters
  BY DEF Init, Counters, Zero
<1>4. job \in Jobs \cup {NoJob} /\ indexers \in 1 .. MaxIndexers
  BY DEF Init
<1>5. today \in BOOLEAN /\ conditional \subseteq Targets
  BY DEF Init
<1>6. forgotten \in Nat /\ disturbed \subseteq Targets /\ faults \in 0 .. MaxFaults
  BY DEF Init
<1>. QED
  BY <1>1, <1>2, <1>3, <1>4, <1>5, <1>6 DEF TypeOK

-----------------------------------------------------------------------------
\* Each step keeps the types.
LEMMA NextTyped == TypeOK /\ [Next]_vars => TypeOK'
<1>. SUFFICES ASSUME TypeOK, [Next]_vars PROVE TypeOK'
  OBVIOUS
<1>1. ASSUME NEW t \in Targets, RemoteChanges(t) PROVE TypeOK'
  <2>1. remote' \in [Targets -> Versions]
    BY <1>1 DEF RemoteChanges, TypeOK, Versions
  <2>. QED
    BY <1>1, <2>1 DEF RemoteChanges, TypeOK
<1>2. ASSUME NEW t \in Targets, RetryTimeComes(t) PROVE TypeOK'
  <2>1. row' \in [Targets -> Rows]
    BY <1>2, RowTypes DEF RetryTimeComes, TypeOK, Rows
  <2>. QED
    BY <1>2, <2>1 DEF RetryTimeComes, TypeOK
<1>3. ASSUME NEW t \in Targets, MarkNeedsFull(t) PROVE TypeOK'
  <2>1. row' \in [Targets -> Rows]
    BY <1>3, RowTypes DEF MarkNeedsFull, TypeOK, Rows
  <2>. QED
    BY <1>3, <2>1 DEF MarkNeedsFull, TypeOK
<1>4. CASE DayPasses
  <2>1. row' \in [Targets -> Rows]
    <3>1. row' = [t \in Targets |-> OlderRow(row[t])]
      BY <1>4 DEF DayPasses, OlderRow
    <3>. QED
      BY <3>1, RowTypes, RowUpdates
  <2>2. events' \in Counters /\ forgotten' \in Nat
    BY <1>4 DEF DayPasses, Zero, Counters
  <2>3. today' \in BOOLEAN
    BY <1>4 DEF DayPasses
  <2>. QED
    BY <1>4, <2>1, <2>2, <2>3 DEF DayPasses, TypeOK
<1>5. CASE NoticeDay
  BY <1>5 DEF NoticeDay, TypeOK
<1>6. CASE StartJob
  <2>1. PICK t \in Targets, early \in BOOLEAN :
          job' = [phase |-> "asked", target |-> t,
                  action |-> IF FullDue(t, early) THEN "full" ELSE "cheap",
                  etag |-> row[t].etag, hash |-> row[t].hash,
                  reply |-> Nothing]
    BY <1>6 DEF StartJob
  <2>2. job' \in Jobs
    BY <2>1, RowTypes DEF Jobs, Nothing
  <2>. QED
    BY <1>6, <2>2 DEF StartJob, TypeOK
<1>7. CASE Answer \/ FetchFails
  <2>1. Busy
    BY <1>7 DEF Answer, FetchFails, Busy
  <2>2. job.target \in Targets
    BY <2>1, JobTypes
  <2>3. remote[job.target] \in -2 .. MaxVersion
    BY <2>2 DEF TypeOK, Versions
  <2>4. PICK reply \in -2 .. MaxVersion :
          job' = [job EXCEPT !.phase = "answered", !.reply = reply]
    <3>1. NotModified \in -2 .. MaxVersion /\ Failed \in -2 .. MaxVersion
      BY DEF NotModified, Failed
    <3>2. CASE FetchFails
      BY <3>1, <3>2 DEF FetchFails
    <3>3. CASE Answer
      BY <2>3, <3>1, <3>3 DEF Answer
    <3>. QED
      BY <1>7, <3>2, <3>3
  <2>5. job' \in Jobs
    BY <2>1, <2>4, JobTypes DEF Jobs
  <2>. QED
    BY <1>7, <2>5 DEF Answer, FetchFails, TypeOK
<1>8. ASSUME Recorded, Busy PROVE job' \in Jobs
  BY <1>8, JobTypes DEF Jobs, Recorded
<1>9. CASE RecordNotModified
  <2>1. Busy
    BY <1>9 DEF RecordNotModified, Busy
  <2>2. row' \in [Targets -> Rows]
    <3>1. PICK e \in 0 .. MaxVersion, h \in 0 .. MaxVersion :
            row' = [row EXCEPT ![job.target] =
                     [@ EXCEPT !.checkDue = FALSE, !.etag = e, !.hash = h,
                               !.waiting = FALSE]]
      BY <1>9, <2>1, JobTypes, RowTypes, CoalesceTypes
         DEF RecordNotModified, TypeOK
    <3>2. job.target \in Targets
      BY <2>1, JobTypes
    <3>3. CheckedRow(row[job.target], e, h, row[job.target].needsFull) \in Rows
      BY <3>2, RowTypes, RowUpdates
    <3>4. [row[job.target] EXCEPT !.checkDue = FALSE, !.etag = e, !.hash = h,
                                  !.waiting = FALSE] \in Rows
      BY <3>2, <3>3, RowTypes DEF CheckedRow, Rows
    <3>. QED
      BY <3>1, <3>2, <3>4 DEF TypeOK
  <2>3. events' \in Counters
    BY <1>9, CounterTypes DEF RecordNotModified
  <2>. QED
    BY <1>8, <1>9, <2>1, <2>2, <2>3 DEF RecordNotModified, TypeOK
<1>10. CASE RecordCheapCheck
  <2>1. Busy /\ job.reply \in Versions
    BY <1>10 DEF RecordCheapCheck, Listed, Busy
  <2>2. job.reply \in 0 .. MaxVersion
    BY <2>1 DEF Versions
  <2>3. row' \in [Targets -> Rows]
    <3>1. Validator \in 0 .. MaxVersion
      BY <2>1, ValidatorTypes
    <3>2. job.target \in Targets
      BY <2>1, JobTypes
    <3>3. Coalesce(Validator, row[job.target].etag) \in 0 .. MaxVersion
      BY <3>1, <3>2, RowTypes, CoalesceTypes
    <3>4. CheckedRow(row[job.target],
                     Coalesce(Validator, row[job.target].etag), job.reply,
                     row[job.target].needsFull \/ job.reply # job.hash)
            \in Rows
      BY <2>2, <3>2, <3>3, RowTypes, RowUpdates
    <3>. QED
      BY <1>10, <3>2, <3>4 DEF RecordCheapCheck, TypeOK, CheckedRow
  <2>4. events' \in Counters
    BY <1>10, CounterTypes DEF RecordCheapCheck
  <2>. QED
    BY <1>8, <1>10, <2>1, <2>3, <2>4 DEF RecordCheapCheck, TypeOK
<1>11. CASE RecordListing \/ ListingUndone
  <2>1. FullListing /\ Recorded /\ Busy /\ job.reply \in Versions
    BY <1>11 DEF RecordListing, ListingUndone, FullListing, Listed, Busy
  <2>2. job.target \in Targets /\ job.reply \in -1 .. MaxVersion
    BY <2>1, JobTypes DEF Versions
  <2>3. row' \in [Targets -> Rows]
    BY <1>11, <2>1, <2>2, ValidatorTypes DEF RecordListing, ListingUndone, TypeOK
  <2>4. listing' \in [Targets -> -1 .. MaxVersion]
    BY <1>11, <2>2 DEF RecordListing, ListingUndone, TypeOK, Torn
  <2>5. events' \in Counters
    BY <1>11, CounterTypes DEF RecordListing, ListingUndone
  <2>6. disturbed' \subseteq Targets /\ faults' \in 0 .. MaxFaults
    BY <1>11, <2>2 DEF RecordListing, ListingUndone, Interference, TypeOK
  <2>7. UNCHANGED <<remote, conditional, used, today, indexers, forgotten>>
    BY <1>11 DEF RecordListing, ListingUndone
  <2>. QED
    BY <1>8, <2>1, <2>3, <2>4, <2>5, <2>6, <2>7 DEF TypeOK
<1>12. CASE RecordFailure \/ TearListing
  <2>1. Busy /\ MarkFailure
    BY <1>12 DEF RecordFailure, TearListing, Busy
  <2>2. row' \in [Targets -> Rows]
    <3>1. job.target \in Targets
      BY <2>1, JobTypes
    <3>2. PICK w \in BOOLEAN :
            row' = [row EXCEPT ![job.target] = FailedRow(row[job.target], w)]
      BY <2>1, <3>1 DEF MarkFailure, TypeOK, FailedRow
    <3>3. FailedRow(row[job.target], w) \in Rows
      BY <3>1, RowTypes, RowUpdates
    <3>. QED
      BY <3>1, <3>2, <3>3 DEF TypeOK
  <2>3. listing' \in [Targets -> -1 .. MaxVersion] /\ faults' \in 0 .. MaxFaults
    BY <1>12 DEF RecordFailure, TearListing, TypeOK, Torn
  <2>4. job' \in Jobs \cup {NoJob} /\ disturbed' \subseteq Targets
    BY <2>1 DEF MarkFailure, TypeOK
  <2>. QED
    BY <2>1, <2>2, <2>3, <2>4 DEF MarkFailure, TypeOK
<1>13. CASE ConsumeBudget
  <2>1. Busy
    BY <1>13 DEF ConsumeBudget, Busy
  <2>2. used' \in Counters
    BY <1>13, <2>1, JobTypes, CounterTypes DEF ConsumeBudget
  <2>. QED
    BY <1>13, <2>2 DEF ConsumeBudget, TypeOK
<1>14. CASE RecordUndone
  <2>1. Busy
    BY <1>14 DEF RecordUndone, Busy
  <2>2. job' \in Jobs \cup {NoJob}
    BY <1>8, <1>14, <2>1 DEF RecordUndone
  <2>3. events' \in Counters
    BY <1>14, CounterTypes DEF RecordUndone, TypeOK
  <2>4. faults' \in 0 .. MaxFaults
    BY <1>14 DEF RecordUndone, Interference, TypeOK
  <2>. QED
    BY <1>14, <2>2, <2>3, <2>4 DEF RecordUndone, TypeOK
<1>15. CASE ListingExposed
  <2>1. Busy /\ job.reply \in Versions
    BY <1>15 DEF ListingExposed, Listed, Busy
  <2>2. job.target \in Targets /\ job.reply \in -1 .. MaxVersion
    BY <2>1, JobTypes DEF Versions
  <2>3. listing' \in [Targets -> -1 .. MaxVersion]
    BY <1>15, <2>2 DEF ListingExposed, TypeOK, Torn
  <2>4. disturbed' \subseteq Targets /\ faults' \in 0 .. MaxFaults
    BY <1>15, <2>2 DEF ListingExposed, Interference, TypeOK
  <2>. QED
    BY <1>15, <2>3, <2>4 DEF ListingExposed, TypeOK
<1>16. CASE NewIndexer
  <2>1. Zero \in Counters
    BY DEF Zero, Counters
  <2>. QED
    BY <1>16, <2>1 DEF NewIndexer, TypeOK
<1>17. CASE UNCHANGED vars
  BY <1>17 DEF vars, TypeOK
<1>. QED
  BY <1>1, <1>2, <1>3, <1>4, <1>5, <1>6, <1>7, <1>9, <1>10, <1>11, <1>12,
     <1>13, <1>14, <1>15, <1>16, <1>17 DEF Next, Work, Record

\* Rows, counters and jobs keep their types, whatever servers answer and however
\* often the indexer is reloaded, restarted or disturbed.
THEOREM TypeCorrect == Spec => []TypeOK
<1>. QED
  BY InitTyped, NextTyped, PTL DEF Spec

-----------------------------------------------------------------------------
(* Marks.                                                                  *)

\* Steps that leave hashes and listings alone, and take no mark away.
LEMMA QuietSteps ==
    ASSUME IInv, TypeOK',
           \A t \in Targets : /\ row'[t].hash = row[t].hash
                              /\ row[t].needsFull => row'[t].needsFull,
           \/ job' = job
           \/ job'.phase \in {"idle", "recorded"},
           UNCHANGED <<listing, disturbed>>
    PROVE  IInv'
<1>1. HashKnown'
  <2>. SUFFICES ASSUME job' = job, job.phase \in {"asked", "answered"}
                PROVE  job.hash = row'[job.target].hash
    BY DEF HashKnown
  <2>1. job.target \in Targets
    BY JobTypes DEF IInv, Busy
  <2>. QED
    BY <2>1 DEF IInv, HashKnown
<1>2. SeenChangeIsMarked'
  BY DEF IInv, SeenChangeIsMarked
<1>. QED
  BY <1>1, <1>2 DEF IInv

\* Steps that record: the row that comes out of them is marked if it has to be.
LEMMA RecordSteps ==
    ASSUME IInv, TypeOK', Busy, job'.phase \in {"idle", "recorded"},
           \A t \in Targets \ {job.target} :
               /\ row'[t] = row[t] /\ listing'[t] = listing[t]
               /\ t \in disturbed => t \in disturbed',
           LET t == job.target
           IN  t \notin disturbed' /\ row'[t].hash > listing'[t] =>
                   row'[t].needsFull
    PROVE  IInv'
<1>1. job.target \in Targets
  BY JobTypes DEF IInv
<1>2. HashKnown'
  BY DEF HashKnown
<1>3. SeenChangeIsMarked'
  BY <1>1 DEF IInv, SeenChangeIsMarked
<1>. QED
  BY <1>2, <1>3 DEF IInv

LEMMA InitIInv == Init => IInv
<1>. SUFFICES ASSUME Init PROVE IInv
  OBVIOUS
<1>1. HashKnown
  BY DEF Init, HashKnown, NoJob
<1>2. SeenChangeIsMarked
  BY DEF Init, SeenChangeIsMarked
<1>. QED
  BY <1>1, <1>2, InitTyped DEF IInv

LEMMA NextIInv == IInv /\ [Next]_vars => IInv'
<1>. SUFFICES ASSUME IInv, [Next]_vars PROVE IInv'
  OBVIOUS
<1>0. TypeOK /\ TypeOK'
  BY NextTyped DEF IInv
<1>1. ASSUME NEW t \in Targets,
             RemoteChanges(t) \/ RetryTimeComes(t) \/ MarkNeedsFull(t)
      PROVE  IInv'
  <2>1. \A u \in Targets : /\ row'[u].hash = row[u].hash
                           /\ row[u].needsFull => row'[u].needsFull
    BY <1>0, <1>1, RowTypes
       DEF RemoteChanges, RetryTimeComes, MarkNeedsFull, TypeOK, Rows
  <2>. QED
    BY <1>0, <1>1, <2>1, QuietSteps
       DEF RemoteChanges, RetryTimeComes, MarkNeedsFull
<1>2. CASE DayPasses
  <2>1. \A u \in Targets : /\ row'[u].hash = row[u].hash
                           /\ row[u].needsFull => row'[u].needsFull
    BY <1>0, <1>2, RowTypes DEF DayPasses, Rows
  <2>. QED
    BY <1>0, <1>2, <2>1, QuietSteps DEF DayPasses
<1>3. CASE NoticeDay
  BY <1>0, <1>3, QuietSteps DEF NoticeDay
<1>4. CASE StartJob
  <2>1. PICK t \in Targets, action \in {"full", "cheap"} :
          job' = [phase |-> "asked", target |-> t, action |-> action,
                  etag |-> row[t].etag, hash |-> row[t].hash,
                  reply |-> Nothing]
    BY <1>4 DEF StartJob
  <2>2. UNCHANGED <<row, listing, disturbed>>
    BY <1>4 DEF StartJob
  <2>3. HashKnown'
    BY <2>1, <2>2 DEF HashKnown
  <2>4. SeenChangeIsMarked'
    BY <2>2 DEF IInv, SeenChangeIsMarked
  <2>. QED
    BY <1>0, <2>3, <2>4 DEF IInv
<1>5. CASE Answer \/ FetchFails
  <2>1. Busy /\ job.phase = "asked" /\ UNCHANGED <<row, listing, disturbed>>
    BY <1>5 DEF Answer, FetchFails, Busy
  <2>2. job'.target = job.target /\ job'.hash = job.hash
    BY <1>0, <1>5, <2>1, JobTypes DEF Answer, FetchFails, Jobs
  <2>3. HashKnown'
    BY <2>1, <2>2 DEF IInv, HashKnown
  <2>4. SeenChangeIsMarked'
    BY <2>1 DEF IInv, SeenChangeIsMarked
  <2>. QED
    BY <1>0, <2>3, <2>4 DEF IInv
<1>6. CASE ConsumeBudget \/ NewIndexer
  <2>1. job'.phase = "idle" /\ UNCHANGED <<row, listing, disturbed>>
    BY <1>6 DEF ConsumeBudget, NewIndexer, NoJob
  <2>. QED
    BY <1>0, <2>1, QuietSteps
<1>7. ASSUME Recorded, Busy PROVE job'.phase = "recorded"
  BY <1>0, <1>7, JobTypes DEF Recorded, Jobs
<1>8. CASE RecordUndone
  <2>1. Busy /\ UNCHANGED <<row, listing, disturbed>>
    BY <1>8 DEF RecordUndone, Busy
  <2>2. job'.phase \in {"idle", "recorded"}
    BY <1>7, <1>8, <2>1 DEF RecordUndone, NoJob
  <2>. QED
    BY <1>0, <2>1, <2>2, QuietSteps
<1>9. CASE RecordNotModified
  <2>. DEFINE t == job.target
  <2>1. Busy /\ job.phase = "answered"
    BY <1>9 DEF RecordNotModified, Busy
  <2>2. t \in Targets /\ job.hash \in 0 .. MaxVersion
    BY <1>0, <2>1, JobTypes
  <2>3. row[t] \in Rows /\ row[t].hash \in 0 .. MaxVersion
    BY <1>0, <2>2, RowTypes
  <2>4. /\ row'[t].hash = Coalesce(job.hash, row[t].hash)
        /\ row'[t].needsFull = row[t].needsFull
    BY <1>0, <1>9, <2>2, <2>3 DEF RecordNotModified, TypeOK, Rows
  <2>5. row'[t].hash = row[t].hash
    BY <2>1, <2>4 DEF Coalesce, IInv, HashKnown
  <2>6. t \notin disturbed' /\ row'[t].hash > listing'[t] => row'[t].needsFull
    BY <1>9, <2>2, <2>4, <2>5 DEF RecordNotModified, IInv, SeenChangeIsMarked
  <2>7. \A u \in Targets \ {t} : row'[u] = row[u] /\ listing'[u] = listing[u]
    BY <1>0, <1>9 DEF RecordNotModified, TypeOK
  <2>. QED
    BY <1>0, <1>7, <1>9, <2>1, <2>6, <2>7, RecordSteps DEF RecordNotModified
<1>10. CASE RecordCheapCheck
  <2>. DEFINE t == job.target
  <2>1. Busy /\ job.phase = "answered"
    BY <1>10 DEF RecordCheapCheck, Busy
  <2>2. t \in Targets
    BY <1>0, <2>1, JobTypes
  <2>3. row[t] \in Rows
    BY <1>0, <2>2, RowTypes
  <2>4. /\ row'[t].hash = job.reply
        /\ row'[t].needsFull = (row[t].needsFull \/ job.reply # job.hash)
    BY <1>0, <1>10, <2>2, <2>3 DEF RecordCheapCheck, TypeOK, Rows
  <2>5. job.hash = row[t].hash
    BY <2>1 DEF IInv, HashKnown
  <2>6. t \notin disturbed' /\ row'[t].hash > listing'[t] => row'[t].needsFull
    BY <1>10, <2>2, <2>4, <2>5 DEF RecordCheapCheck, IInv, SeenChangeIsMarked
  <2>7. \A u \in Targets \ {t} : row'[u] = row[u] /\ listing'[u] = listing[u]
    BY <1>0, <1>10 DEF RecordCheapCheck, TypeOK
  <2>. QED
    BY <1>0, <1>7, <1>10, <2>1, <2>6, <2>7, RecordSteps DEF RecordCheapCheck
<1>11. CASE RecordListing
  <2>. DEFINE t == job.target
  <2>1. Busy /\ Recorded
    BY <1>11 DEF RecordListing, FullListing, Busy
  <2>2. t \in Targets /\ job.reply \in Int
    BY <1>0, <2>1, JobTypes
  <2>3. row'[t].hash = job.reply /\ listing'[t] = job.reply
    BY <1>0, <1>11, <2>2 DEF RecordListing, IndexedRow, TypeOK
  <2>4. \A u \in Targets \ {t} : /\ row'[u] = row[u] /\ listing'[u] = listing[u]
                                 /\ u \in disturbed => u \in disturbed'
    BY <1>0, <1>11 DEF RecordListing, TypeOK
  <2>5. ~(row'[t].hash > listing'[t])
    BY <2>2, <2>3
  <2>. QED
    BY <1>0, <1>7, <2>1, <2>4, <2>5, RecordSteps
<1>12. CASE ListingUndone
  <2>1. Busy /\ Recorded
    BY <1>12 DEF ListingUndone, FullListing, Busy
  <2>2. \A u \in Targets \ {job.target} :
          /\ row'[u] = row[u] /\ listing'[u] = listing[u]
          /\ u \in disturbed => u \in disturbed'
    BY <1>0, <1>12 DEF ListingUndone, TypeOK
  <2>3. job.target \in disturbed'
    BY <1>12 DEF ListingUndone
  <2>. QED
    BY <1>0, <1>7, <2>1, <2>2, <2>3, RecordSteps
<1>13. CASE ListingExposed
  <2>1. UNCHANGED <<row, job>> /\ disturbed' = disturbed \cup {job.target}
    BY <1>13 DEF ListingExposed
  <2>2. \A u \in Targets \ disturbed' : listing'[u] = listing[u]
    BY <1>0, <1>13, <2>1 DEF ListingExposed, TypeOK
  <2>3. HashKnown' /\ SeenChangeIsMarked'
    BY <2>1, <2>2 DEF IInv, HashKnown, SeenChangeIsMarked
  <2>. QED
    BY <1>0, <2>3 DEF IInv
<1>14. CASE RecordFailure \/ TearListing
  <2>. DEFINE t == job.target
  <2>1. Busy /\ MarkFailure
    BY <1>14 DEF RecordFailure, TearListing, Busy
  <2>2. t \in Targets
    BY <1>0, <2>1, JobTypes
  <2>3. row[t] \in Rows
    BY <1>0, <2>2, RowTypes
  <2>4. row'[t].needsFull
    BY <1>0, <2>1, <2>2, <2>3 DEF MarkFailure, TypeOK, Rows
  <2>5. \A u \in Targets \ {t} : /\ row'[u] = row[u] /\ listing'[u] = listing[u]
                                 /\ u \in disturbed => u \in disturbed'
    BY <1>0, <1>14, <2>1 DEF MarkFailure, RecordFailure, TearListing, TypeOK
  <2>6. job'.phase = "idle"
    BY <2>1 DEF MarkFailure, NoJob
  <2>. QED
    BY <1>0, <2>1, <2>4, <2>5, <2>6, RecordSteps
<1>15. CASE UNCHANGED vars
  BY <1>0, <1>15, QuietSteps DEF vars
<1>. QED
  BY <1>1, <1>2, <1>3, <1>4, <1>5, <1>6, <1>8, <1>9, <1>10, <1>11, <1>12,
     <1>13, <1>14, <1>15 DEF Next, Work, Record

\* No answer, no failure, no reload and no restart takes away the mark of a
\* change that was seen, for any targets and listings, unless another thread cut
\* the update of the listing in two.
THEOREM SeenChangesStayMarked == Spec => []SeenChangeIsMarked
<1>1. IInv => SeenChangeIsMarked
  BY DEF IInv
<1>. QED
  BY <1>1, InitIInv, NextIInv, PTL DEF Spec

-----------------------------------------------------------------------------
(* Budgets.                                                                *)

Actions == {"full", "cheap"}

Budget(a) == IF a = "full" THEN FullBudget ELSE CheapBudget

\* The job has yet to be recorded.
Pending == job.phase \in {"asked", "answered"}

\* What the Indexer has spent, and may still spend today.
Spent(a) ==
    used[a] + (IF job.phase = "recorded" /\ job.action = a THEN 1 ELSE 0)

Rest(a) == IF Spent(a) <= Budget(a) THEN Budget(a) - Spent(a) ELSE 0

\* The events of today and what the Indexer may still spend stay within one
\* budget per Indexer of the day.
Covered ==
    /\ events.full + Rest("full") <= FullBudget * (1 + forgotten)
    /\ events.full + events.cheap + Rest("full") + Rest("cheap")
         <= (FullBudget + CheapBudget) * (1 + forgotten)

\* Before the Indexer takes note of the day, no more than its job of yesterday
\* has been recorded.
Unnoticed ==
    /\ forgotten = 0
    /\ job.phase # "recorded" => events = Zero
    /\ job.phase = "recorded" =>
         /\ events.full + events.cheap <= 1
         /\ events.full > 0 => job.action = "full"

BudgetInv ==
    /\ Busy => Budget(job.action) > 0
    /\ today /\ Pending => used[job.action] < Budget(job.action)
    /\ IF today THEN Covered ELSE Unnoticed

LEMMA BudgetTypes ==
    ASSUME TypeOK
    PROVE  /\ forgotten \in Nat /\ events.full \in Nat /\ events.cheap \in Nat
           /\ \A a \in Actions : /\ Budget(a) \in Nat /\ Spent(a) \in Nat
                                /\ Rest(a) \in Nat /\ used[a] \in Nat
<1>1. forgotten \in Nat /\ events \in Counters /\ used \in Counters
  BY DEF TypeOK
<1>2. /\ events.full \in Nat /\ events.cheap \in Nat
      /\ used["full"] \in Nat /\ used["cheap"] \in Nat
  BY <1>1 DEF Counters
<1>3. ASSUME NEW a \in Actions
      PROVE  Budget(a) \in Nat /\ used[a] \in Nat /\ Spent(a) \in Nat
  BY <1>2 DEF Budget, Actions, Spent
<1>4. \A a \in Actions : Rest(a) \in Nat
  BY <1>3 DEF Rest
<1>. QED
  BY <1>1, <1>2, <1>3, <1>4

\* The jobs that are pending, busy and free.
LEMMA Phases ==
    ASSUME TypeOK
    PROVE  /\ Pending => Busy /\ job.phase # "recorded"
           /\ Busy => Pending \/ job.phase = "recorded"
           /\ Busy => job.action \in Actions
BY JobTypes DEF Pending, Busy, Actions

\* Steps of the thread before it records: nothing is spent, no event.
LEMMA QuietBudget ==
    ASSUME TypeOK, TypeOK', BudgetInv, Pending,
           UNCHANGED <<used, events, today, forgotten>>,
           \/ Pending' /\ job'.action = job.action
           \/ job' = NoJob
    PROVE  BudgetInv'
<1>1. /\ job.phase # "recorded" /\ job'.phase # "recorded" /\ Busy
      /\ Busy' => job'.action = job.action
      /\ Pending' => job'.action = job.action
  BY DEF Pending, Busy, NoJob
<1>2. \A a \in Actions : Rest(a)' = Rest(a)
  BY <1>1 DEF Rest, Spent, Budget
<1>3. Covered => Covered'
  BY <1>2 DEF Covered, Actions
<1>4. Unnoticed => Unnoticed'
  BY <1>1 DEF Unnoticed
<1>. QED
  BY <1>1, <1>3, <1>4 DEF BudgetInv, Budget

\* Steps that record a job: for the event that is added, unless it is lost, the
\* Indexer has one job less to spend.
LEMMA RecordBudget ==
    ASSUME TypeOK, TypeOK', BudgetInv, Pending,
           job'.phase = "recorded", job'.action = job.action,
           events'.full + events'.cheap <= events.full + events.cheap + 1,
           \/ events'.full = events.full
           \/ events'.full = events.full + 1 /\ job.action = "full",
           UNCHANGED <<used, today, forgotten>>
    PROVE  BudgetInv'
<1>1. /\ forgotten \in Nat /\ events'.full \in Nat /\ events'.cheap \in Nat
      /\ events.full \in Nat /\ events.cheap \in Nat
  BY BudgetTypes, Zenon DEF TypeOK, Counters
<1>2. Busy /\ job.action \in Actions /\ job.phase # "recorded"
  BY Phases
<1>3. ~Pending' /\ (Busy' => Budget(job'.action) > 0)
  BY <1>2 DEF Pending, BudgetInv, Budget
<1>4. CASE today
  <2>1. Covered /\ used[job.action] < Budget(job.action)
    BY <1>4 DEF BudgetInv
  <2>2. /\ Rest(job.action)' = Rest(job.action) - 1
        /\ \A a \in Actions \ {job.action} : Rest(a)' = Rest(a)
    BY <1>2, <2>1, BudgetTypes DEF Rest, Spent, Budget
  <2>3. Covered'
    BY <1>1, <1>2, <2>1, <2>2, BudgetTypes DEF Covered, Actions
  <2>. QED
    BY <1>3, <1>4, <2>3 DEF BudgetInv, Budget
<1>5. CASE ~today
  <2>1. Unnoticed /\ events = Zero
    BY <1>2, <1>5 DEF BudgetInv, Unnoticed
  <2>2. events.full = 0 /\ events.cheap = 0
    BY <2>1 DEF Zero
  <2>3. Unnoticed'
    BY <1>1, <2>1, <2>2 DEF Unnoticed
  <2>. QED
    BY <1>3, <1>5, <2>3 DEF BudgetInv, Budget
<1>. QED
  BY <1>4, <1>5

LEMMA ConsumeKeepsBudget ==
    ASSUME TypeOK, TypeOK', BudgetInv, ConsumeBudget
    PROVE  BudgetInv'
<1>1. /\ UNCHANGED <<events, forgotten>> /\ forgotten \in Nat
      /\ events.full \in Nat /\ events.cheap \in Nat
      /\ job.phase = "recorded" /\ today' = TRUE /\ job' = NoJob
      /\ used' = [Counted EXCEPT ![job.action] = @ + 1]
  BY BudgetTypes DEF ConsumeBudget
<1>2. Busy /\ job.action \in Actions
  BY <1>1, Phases DEF Busy
<1>3. ~Busy' /\ ~Pending' /\ job'.phase # "recorded"
  BY <1>1 DEF Busy, Pending, NoJob
<1>4. Counted \in Counters
  BY CounterTypes, <1>2 DEF Actions
<1>5. \A a \in Actions :
        used'[a] = Counted[a] + (IF job.action = a THEN 1 ELSE 0)
  BY <1>1, <1>2, <1>4 DEF Counters, Actions
<1>6. \A a \in Actions :
        Spent(a)' = Counted[a] + (IF job.action = a THEN 1 ELSE 0)
  <2>1. \A a \in Actions : used'[a] \in Nat
    BY BudgetTypes, Zenon DEF TypeOK, Counters, Actions
  <2>. QED
    BY <1>3, <1>5, BudgetTypes, <2>1 DEF Spent
<1>7. Covered'
  <2>1. CASE today
    <3>1. \A a \in Actions : Spent(a)' = Spent(a)
      BY <1>1, <1>6, <2>1 DEF Spent, Counted
    <3>2. /\ Rest("full")' = Rest("full") /\ Rest("cheap")' = Rest("cheap")
      BY <3>1 DEF Rest, Actions, Budget
    <3>. QED
      BY <1>1, <2>1, <3>2 DEF Covered, BudgetInv
  <2>2. CASE ~today
    <3>1. Unnoticed /\ Budget(job.action) > 0
      BY <1>2, <2>2 DEF BudgetInv
    <3>2. /\ forgotten' = 0 /\ events.full + events.cheap <= 1
          /\ events.full > 0 => job.action = "full"
      BY <1>1, <3>1 DEF Unnoticed
    <3>3. \A a \in Actions :
            Spent(a)' = events[a] + (IF job.action = a THEN 1 ELSE 0)
      BY <1>6, <2>2 DEF Counted
    <3>4. /\ job.action = "full" =>
               FullBudget > 0 /\ Spent("full")' = events.full + 1
                              /\ Spent("cheap")' = events.cheap
          /\ job.action = "cheap" =>
               CheapBudget > 0 /\ Spent("full")' = events.full
                               /\ Spent("cheap")' = events.cheap + 1
      BY <1>1, <1>2, <3>1, <3>3 DEF Budget, Actions
    <3>5. /\ Rest("full")' = IF Spent("full")' <= FullBudget
                             THEN FullBudget - Spent("full")' ELSE 0
          /\ Rest("cheap")' = IF Spent("cheap")' <= CheapBudget
                              THEN CheapBudget - Spent("cheap")' ELSE 0
      BY DEF Rest, Budget
    <3>6. /\ events.full + Rest("full")' <= FullBudget
          /\ events.full + events.cheap + Rest("full")' + Rest("cheap")'
               <= FullBudget + CheapBudget
      BY <1>1, <1>2, <3>2, <3>4, <3>5 DEF Actions
    <3>7. Rest("full")' \in Nat /\ Rest("cheap")' \in Nat
      BY <1>1, <1>2, <3>4, <3>5 DEF Actions
    <3>. QED
      BY <1>1, <3>2, <3>6, <3>7 DEF Covered
  <2>. QED
    BY <2>1, <2>2
<1>. QED
  BY <1>1, <1>3, <1>7 DEF BudgetInv

\* A thread that starts a job has not spent its budget.
LEMMA StartKeepsBudget ==
    ASSUME TypeOK, TypeOK', BudgetInv, StartJob
    PROVE  BudgetInv'
<1>1. /\ today /\ job = NoJob /\ UNCHANGED <<events, used, today, forgotten>>
  BY DEF StartJob
<1>2. PICK t \in Targets, action \in Actions :
        /\ used[action] < Budget(action)
        /\ job' = [phase |-> "asked", target |-> t, action |-> action,
                   etag |-> row[t].etag, hash |-> row[t].hash,
                   reply |-> Nothing]
  BY DEF StartJob, Actions, Budget
<1>3. job'.phase = "asked" /\ job'.action = action
  BY <1>2
<1>4. Rest("full")' = Rest("full") /\ Rest("cheap")' = Rest("cheap")
  BY <1>1, <1>3 DEF Rest, Spent, Budget, NoJob
<1>5. Covered'
  BY <1>1, <1>4 DEF BudgetInv, Covered
<1>6. Budget(action) > 0
  BY <1>2, BudgetTypes
<1>. QED
  BY <1>1, <1>2, <1>3, <1>5, <1>6 DEF BudgetInv, Budget

\* On a new date the counters come from the events: there are none.
LEMMA NoticeKeepsBudget ==
    ASSUME TypeOK, TypeOK', BudgetInv, NoticeDay
    PROVE  BudgetInv'
<1>1. /\ ~today /\ job = NoJob /\ used' = events /\ today'
      /\ UNCHANGED <<events, job, forgotten>>
  BY DEF NoticeDay
<1>2. Unnoticed
  BY <1>1 DEF BudgetInv
<1>3. events.full = 0 /\ events.cheap = 0 /\ forgotten = 0
  BY <1>1, <1>2 DEF Unnoticed, NoJob, Zero
<1>4. Rest("full")' = FullBudget /\ Rest("cheap")' = CheapBudget
  BY <1>1, <1>3 DEF Rest, Spent, Budget, NoJob
<1>5. Covered'
  BY <1>1, <1>3, <1>4 DEF Covered
<1>. QED
  BY <1>1, <1>5 DEF BudgetInv, Busy, Pending, NoJob

LEMMA DayKeepsBudget ==
    ASSUME TypeOK, TypeOK', BudgetInv, DayPasses
    PROVE  BudgetInv'
<1>1. ~today' /\ events' = Zero /\ forgotten' = 0 /\ job' = job
  BY DEF DayPasses
<1>2. Zero.full = 0 /\ Zero.cheap = 0
  BY DEF Zero
<1>3. Unnoticed'
  BY <1>1, <1>2 DEF Unnoticed
<1>. QED
  BY <1>1, <1>3 DEF BudgetInv, Busy, Budget

\* A new Indexer has a budget of its own.
LEMMA NewKeepsBudget ==
    ASSUME TypeOK, TypeOK', BudgetInv, NewIndexer
    PROVE  BudgetInv'
<1>1. /\ used' = Zero /\ today' = TRUE /\ job' = NoJob
      /\ forgotten' = forgotten + 1 /\ events' = events
      /\ forgotten \in Nat /\ events.full \in Nat /\ events.cheap \in Nat
  BY BudgetTypes DEF NewIndexer
<1>2. ~Busy' /\ ~Pending' /\ job'.phase # "recorded"
  BY <1>1 DEF Busy, Pending, NoJob
<1>3. Rest("full")' = FullBudget /\ Rest("cheap")' = CheapBudget
  BY <1>1, <1>2 DEF Rest, Spent, Budget, Zero
<1>. DEFINE F == FullBudget * (1 + forgotten)
            S == (FullBudget + CheapBudget) * (1 + forgotten)
<1>4. F \in Int /\ S \in Int
  BY <1>1
<1>5. /\ FullBudget * (1 + forgotten') = F + FullBudget
      /\ (FullBudget + CheapBudget) * (1 + forgotten') =
           S + (FullBudget + CheapBudget)
  BY <1>1
<1>6. events.full <= F /\ events.full + events.cheap <= S
  <2>1. CASE today
    <3>1. /\ events.full + Rest("full") <= F
          /\ events.full + events.cheap + Rest("full") + Rest("cheap") <= S
      BY <2>1 DEF BudgetInv, Covered
    <3>2. Rest("full") \in Nat /\ Rest("cheap") \in Nat
      BY BudgetTypes DEF Actions
    <3>. HIDE DEF F, S
    <3>. QED
      BY <1>1, <1>4, <3>1, <3>2
  <2>2. CASE ~today
    <3>1. Unnoticed
      BY <2>2 DEF BudgetInv
    <3>2. F = FullBudget /\ S = FullBudget + CheapBudget
      BY <3>1 DEF Unnoticed
    <3>. HIDE DEF F, S
    <3>3. CASE job.phase = "recorded"
      <4>1. Budget(job.action) > 0 /\ job.action \in Actions
        BY <3>3, Phases DEF BudgetInv, Busy
      <4>2. /\ FullBudget + CheapBudget >= 1
            /\ job.action = "full" => FullBudget >= 1
        BY <4>1 DEF Budget, Actions
      <4>. QED
        BY <1>1, <3>1, <3>2, <3>3, <4>2 DEF Unnoticed
    <3>4. CASE job.phase # "recorded"
      <4>1. events.full = 0 /\ events.cheap = 0
        BY <3>1, <3>4 DEF Unnoticed, Zero
      <4>. QED
        BY <3>2, <4>1
    <3>. QED
      BY <3>3, <3>4
  <2>. QED
    BY <2>1, <2>2
<1>. HIDE DEF F, S
<1>7. Covered'
  BY <1>1, <1>3, <1>4, <1>5, <1>6 DEF Covered
<1>. QED
  BY <1>1, <1>2, <1>7 DEF BudgetInv

LEMMA InitBudget == Init => BudgetInv
<1>. SUFFICES ASSUME Init PROVE BudgetInv
  OBVIOUS
<1>1. forgotten = 0 /\ events = Zero /\ today /\ used = Zero /\ job = NoJob
  BY DEF Init
<1>2. Zero.full = 0 /\ Zero.cheap = 0
  BY DEF Zero
<1>3. Rest("full") = FullBudget /\ Rest("cheap") = CheapBudget
  BY <1>1, <1>2 DEF Rest, Spent, Budget, NoJob
<1>4. Covered
  BY <1>1, <1>2, <1>3 DEF Covered
<1>. QED
  BY <1>1, <1>4 DEF BudgetInv, Busy, Pending, NoJob

LEMMA NextBudget == TypeOK /\ TypeOK' /\ BudgetInv /\ [Next]_vars => BudgetInv'
<1>. SUFFICES ASSUME TypeOK, TypeOK', BudgetInv, [Next]_vars PROVE BudgetInv'
  OBVIOUS
<1>1. ASSUME UNCHANGED <<events, used, today, job, forgotten>>
      PROVE  BudgetInv'
  <2>1. \A a : Rest(a)' = Rest(a)
    BY <1>1 DEF Rest, Spent, Budget
  <2>2. Covered' <=> Covered
    BY <1>1, <2>1 DEF Covered
  <2>3. Unnoticed' <=> Unnoticed
    BY <1>1 DEF Unnoticed
  <2>. QED
    BY <1>1, <2>2, <2>3 DEF BudgetInv, Busy, Pending, Budget
<1>2. ASSUME NEW t \in Targets,
             RemoteChanges(t) \/ RetryTimeComes(t) \/ MarkNeedsFull(t)
      PROVE  BudgetInv'
  BY <1>1, <1>2 DEF RemoteChanges, RetryTimeComes, MarkNeedsFull
<1>3. CASE ListingExposed
  BY <1>1, <1>3 DEF ListingExposed
<1>4. CASE Answer \/ FetchFails
  <2>1. Pending /\ Busy
    BY <1>4 DEF Answer, FetchFails, Pending, Busy
  <2>2. job \in Jobs
    BY <2>1, JobTypes
  <2>3. Pending' /\ job'.action = job.action
    BY <1>4, <2>2 DEF Answer, FetchFails, Jobs, Pending
  <2>. QED
    BY <1>4, <2>1, <2>3, QuietBudget DEF Answer, FetchFails
<1>5. CASE RecordFailure \/ TearListing
  BY <1>5, QuietBudget DEF RecordFailure, TearListing, MarkFailure, Pending
<1>6. CASE \/ RecordNotModified \/ RecordCheapCheck \/ RecordListing
           \/ ListingUndone \/ RecordUndone
  <2>1. job.phase = "answered" /\ UNCHANGED <<used, today, forgotten>>
    BY <1>6 DEF RecordNotModified, RecordCheapCheck, RecordListing, FullListing,
                ListingUndone, RecordUndone
  <2>2. Pending /\ Busy
    BY <2>1 DEF Pending, Busy
  <2>3. \/ job' = NoJob /\ events' = events
        \/ /\ Recorded
           /\ \/ events' = events
              \/ events' = [events EXCEPT !.cheap = @ + 1]
              \/ events' = [events EXCEPT !.full = @ + 1] /\ job.action = "full"
    <3>1. CASE RecordNotModified
      BY <3>1 DEF RecordNotModified
    <3>2. CASE RecordCheapCheck
      BY <3>2 DEF RecordCheapCheck
    <3>3. CASE RecordListing
      BY <3>3 DEF RecordListing, FullListing
    <3>4. CASE ListingUndone
      BY <3>4 DEF ListingUndone, FullListing
    <3>5. CASE RecordUndone
      BY <3>5 DEF RecordUndone, FullListing
    <3>. QED
      BY <1>6, <3>1, <3>2, <3>3, <3>4, <3>5
  <2>4. CASE job' = NoJob /\ events' = events
    BY <2>1, <2>2, <2>4, QuietBudget
  <2>5. CASE Recorded
    <3>1. job \in Jobs
      BY <2>2, JobTypes
    <3>2. job'.phase = "recorded" /\ job'.action = job.action
      BY <2>5, <3>1 DEF Recorded, Jobs
    <3>3. job' # NoJob
      BY <3>2 DEF NoJob
    <3>4. events \in [full : Nat, cheap : Nat]
      BY DEF TypeOK, Counters
    <3>5. /\ events'.full + events'.cheap <= events.full + events.cheap + 1
          /\ \/ events'.full = events.full
             \/ events'.full = events.full + 1 /\ job.action = "full"
      BY <2>3, <3>3, <3>4
    <3>. QED
      BY <2>1, <2>2, <3>2, <3>5, RecordBudget
  <2>. QED
    BY <2>3, <2>4, <2>5
<1>7. CASE UNCHANGED vars
  BY <1>1, <1>7 DEF vars
<1>. QED
  BY <1>2, <1>3, <1>4, <1>5, <1>6, <1>7, DayKeepsBudget, NoticeKeepsBudget,
     StartKeepsBudget, ConsumeKeepsBudget, NewKeepsBudget
     DEF Next, Work, Record

\* The events of a day stay within one daily budget per Indexer of the day,
\* for any budgets and any number of reloads and restarts, with jobs in flight
\* at midnight.
THEOREM BudgetsAreKept == Spec => []BudgetPerIndexer
<1>1. TypeOK /\ BudgetInv => BudgetPerIndexer
  <2>. SUFFICES ASSUME TypeOK, BudgetInv PROVE BudgetPerIndexer
    OBVIOUS
  <2>1. /\ forgotten \in Nat /\ events.full \in Nat /\ events.cheap \in Nat
        /\ Rest("full") \in Nat /\ Rest("cheap") \in Nat
    BY BudgetTypes DEF Actions
  <2>2. CASE today
    <3>1. Covered
      BY <2>2 DEF BudgetInv
    <3>. DEFINE F == FullBudget * (1 + forgotten)
                S == (FullBudget + CheapBudget) * (1 + forgotten)
    <3>2. F \in Int /\ S \in Int
      BY <2>1
    <3>3. /\ events.full + Rest("full") <= F
          /\ events.full + events.cheap + Rest("full") + Rest("cheap") <= S
      BY <3>1 DEF Covered
    <3>4. (events.full <= F /\ events.full + events.cheap <= S)
          => BudgetPerIndexer
      BY DEF BudgetPerIndexer
    <3>. HIDE DEF F, S
    <3>. QED
      BY <2>1, <3>2, <3>3, <3>4
  <2>3. CASE ~today
    <3>1. Unnoticed
      BY <2>3 DEF BudgetInv
    <3>2. CASE job.phase = "recorded"
      <4>1. /\ Busy /\ job.action \in Actions
            /\ Budget(job.action) > 0
        BY <2>1, <3>2, Phases DEF BudgetInv, Busy
      <4>2. /\ FullBudget + CheapBudget >= 1
            /\ job.action = "full" => FullBudget >= 1
        BY <4>1 DEF Budget, Actions
      <4>3. /\ events.full + events.cheap <= 1 /\ forgotten = 0
            /\ events.full > 0 => FullBudget >= 1
        BY <3>1, <3>2, <4>2 DEF Unnoticed
      <4>. QED
        BY <2>1, <4>2, <4>3 DEF BudgetPerIndexer
    <3>3. CASE job.phase # "recorded"
      <4>1. events.full = 0 /\ events.cheap = 0 /\ forgotten = 0
        BY <3>1, <3>3 DEF Unnoticed, Zero
      <4>. QED
        BY <4>1 DEF BudgetPerIndexer
    <3>. QED
      BY <3>2, <3>3
  <2>. QED
    BY <2>2, <2>3
<1>2. TypeOK /\ [Next]_vars => TypeOK'
  BY NextTyped
<1>. QED
  BY <1>1, <1>2, InitBudget, NextBudget, TypeCorrect, PTL DEF Spec
=============================================================================
