------------------------------ MODULE Indexer ------------------------------
(***************************************************************************)
(* The progressive indexer, app/net/indexer.py with its tables in          *)
(* app/db/schema.py.  A background thread picks a target that is due,      *)
(* fetches its remote listing, conditionally where it has an ETag or a     *)
(* Last-Modified, and records the answer: a cheap check compares hashes    *)
(* and marks what changed, a full reindex replaces the listing.  Failed    *)
(* downloads and administrators mark targets meanwhile.  All threads share *)
(* one connection: a commit or a rollback of another one may fall between  *)
(* the statements of a record, although the index has a lock of its own.   *)
(*                                                                         *)
(* Time is counted in days; what happens within a day is a matter of order *)
(* only.  A version stands for a listing, its hash and its validators.     *)
(***************************************************************************)
EXTENDS Integers

CONSTANTS
    Targets,      \* cachelinks
    MaxVersion,   \* bound: how often a remote listing changes
    Doubled,      \* versions that link to one path twice
    Giant,        \* versions beyond giant_directory_entry_limit
    MinFull,      \* days between full reindexes, at least
    MaxFull,      \* ... and at most
    FullBudget,   \* daily_full_reindex_budget
    CheapBudget,  \* the smaller of the two caps on cheap checks
    MaxIndexers,  \* bound: Indexer objects over all reloads and restarts
    MaxFaults     \* bound: fetches that fail, foreign commits and rollbacks

Versions == 1 .. MaxVersion
Nothing == 0          \* NULL in a row: no listing, no hash, no validator
Torn == -1            \* a listing that lacks rows
NotModified == -1     \* the answer 304
Failed == -2          \* an answer >= 400, or no answer

ASSUME IndexerAssumption ==
    /\ MaxVersion \in Nat \ {0} /\ Doubled \subseteq Versions
    /\ Giant \subseteq Versions
    /\ MinFull \in Nat \ {0} /\ MaxFull \in Nat /\ MinFull <= MaxFull
    /\ FullBudget \in Nat /\ CheapBudget \in Nat
    /\ MaxIndexers \in Nat \ {0} /\ MaxFaults \in Nat

VARIABLES
    remote,       \* what the server lists now
    conditional,  \* targets whose server sends and honours validators
    listing,      \* rows of indexing_files
    row,          \* row of indexing_targets
    events,       \* today's rows of indexing_events, by type
    used,         \* _budget_state of the Indexer: the two counters
    today,        \* ... and whether its date is today's
    job,          \* the call of index_target its thread is in
    indexers,     \* how many Indexers there have been
    forgotten,    \* how often today a new Indexer began to count from zero
    disturbed,    \* history: targets whose last update of the listing was cut
                  \* in two by a commit or a rollback of another thread
    faults

vars == <<remote, conditional, listing, row, events, used, today, job,
          indexers, forgotten, disturbed, faults>>

NoJob == [phase |-> "idle", target |-> Nothing, action |-> "none",
          etag |-> Nothing, hash |-> Nothing, reply |-> Nothing]

Zero == [full |-> 0, cheap |-> 0]

\* A target not indexed yet is as old as can be: its age is taken to be just
\* over the maximum.
Init ==
    /\ remote = [t \in Targets |-> 1]
    /\ conditional \in SUBSET Targets
    /\ listing = [t \in Targets |-> Nothing]
    /\ row = [t \in Targets |->
                [age |-> MaxFull, checkDue |-> TRUE, needsFull |-> TRUE,
                 etag |-> Nothing, hash |-> Nothing, waiting |-> FALSE]]
    /\ events = Zero
    /\ used = Zero
    /\ today = TRUE
    /\ job = NoJob
    /\ indexers = 1
    /\ forgotten = 0
    /\ disturbed = {}
    /\ faults = 0

-----------------------------------------------------------------------------
(* The world around the indexer.                                           *)

RemoteChanges(t) ==
    /\ remote[t] < MaxVersion
    /\ remote' = [remote EXCEPT ![t] = @ + 1]
    /\ UNCHANGED <<conditional, listing, row, events, used, today, job,
                   indexers, forgotten, disturbed, faults>>

DayPasses ==
    /\ row' = [t \in Targets |->
                [row[t] EXCEPT !.age = IF @ < MaxFull THEN @ + 1 ELSE @,
                               !.checkDue = TRUE]]
    /\ events' = Zero
    /\ today' = FALSE
    /\ forgotten' = 0
    /\ UNCHANGED <<remote, conditional, listing, used, job, indexers,
                   disturbed, faults>>

RetryTimeComes(t) ==
    /\ row[t].waiting
    /\ row' = [row EXCEPT ![t].waiting = FALSE]
    /\ UNCHANGED <<remote, conditional, listing, events, used, today, job,
                   indexers, forgotten, disturbed, faults>>

\* mark_needs_full: a download of the target answered 404 or 5xx, to a
\* client or to the availability probe, or an administrator asked for it.
MarkNeedsFull(t) ==
    /\ ~row[t].needsFull
    /\ row' = [row EXCEPT ![t].needsFull = TRUE]
    /\ UNCHANGED <<remote, conditional, listing, events, used, today, job,
                   indexers, forgotten, disturbed, faults>>

-----------------------------------------------------------------------------
(* The thread.                                                             *)

\* _reset_daily_budgets: on a new date the counters come from the events.
Counted == IF today THEN used ELSE events

\* Faulty: the date is noted, the counters go on.
NoticeDayKeepingCounts ==
    /\ job = NoJob /\ ~today
    /\ today' = TRUE
    /\ UNCHANGED <<remote, conditional, listing, row, events, used, job,
                   indexers, forgotten, disturbed, faults>>

NoticeDay ==
    /\ job = NoJob /\ ~today
    /\ used' = events
    /\ today' = TRUE
    /\ UNCHANGED <<remote, conditional, listing, row, events, job, indexers,
                   forgotten, disturbed, faults>>

\* should_reindex_with_budget; early stands for what the settings and the
\* hotness of the target say of a reindex before its time.
FullDue(t, early) ==
    \/ row[t].needsFull /\ (row[t].age >= MinFull \/ early)
    \/ row[t].age >= MaxFull
    \/ row[t].age >= MinFull /\ early

\* get_targets_for_indexing, and index_target up to the fetch.  Targets of
\* a throttled domain are passed over, so any that is due may be the one.
StartJob ==
    /\ job = NoJob /\ today
    /\ \E t \in Targets, early \in BOOLEAN :
        LET action == IF FullDue(t, early) THEN "full" ELSE "cheap"
        IN  /\ ~row[t].waiting
            /\ FullDue(t, early) \/ row[t].checkDue
            /\ used[action] <
                 (IF action = "full" THEN FullBudget ELSE CheapBudget)
            /\ job' = [phase |-> "asked", target |-> t, action |-> action,
                       etag |-> row[t].etag, hash |-> row[t].hash,
                       reply |-> Nothing]
    /\ UNCHANGED <<remote, conditional, listing, row, events, used, today,
                   indexers, forgotten, disturbed, faults>>

\* The server is asked; validators go with the request if there are any.
Answer ==
    LET t == job.target
    IN  /\ job.phase = "asked"
        /\ job' = [job EXCEPT
                    !.phase = "answered",
                    !.reply = IF t \in conditional /\ job.etag = remote[t]
                              THEN NotModified ELSE remote[t]]
        /\ UNCHANGED <<remote, conditional, listing, row, events, used, today,
                       indexers, forgotten, disturbed, faults>>

FetchFails ==
    /\ job.phase = "asked"
    /\ faults < MaxFaults
    /\ faults' = faults + 1
    /\ job' = [job EXCEPT !.phase = "answered", !.reply = Failed]
    /\ UNCHANGED <<remote, conditional, listing, row, events, used, today,
                   indexers, forgotten, disturbed>>

Recorded == job' = [job EXCEPT !.phase = "recorded"]

\* What the UPDATE of update_listing makes of the row.
Validator == IF job.target \in conditional THEN job.reply ELSE Nothing

IndexedRow == [age |-> 0, checkDue |-> FALSE, needsFull |-> FALSE,
               etag |-> Validator, hash |-> job.reply, waiting |-> FALSE]

Coalesce(new, old) == IF new = Nothing THEN old ELSE new

\* record_cheap_check(changed=False) after a 304, whatever the action: the
\* row gets back the validators and the hash that were read before the fetch.
RecordNotModified ==
    LET t == job.target
    IN  /\ job.phase = "answered" /\ job.reply = NotModified
        /\ row' = [row EXCEPT ![t].checkDue = FALSE,
                              ![t].etag = Coalesce(job.etag, @),
                              ![t].hash = Coalesce(job.hash, @),
                              ![t].waiting = FALSE]
        /\ events' = [events EXCEPT !.cheap = @ + 1]
        /\ Recorded
        /\ UNCHANGED <<remote, conditional, listing, used, today, indexers,
                       forgotten, disturbed, faults>>

Listed == job.reply \in Versions \ Giant

\* Faulty: the hash is recorded and what it says is not.
RecordCheapCheckUnmarked ==
    LET t == job.target
    IN  /\ job.phase = "answered" /\ Listed /\ job.action = "cheap"
        /\ row' = [row EXCEPT ![t].checkDue = FALSE,
                              ![t].etag = Coalesce(Validator, @),
                              ![t].hash = job.reply,
                              ![t].waiting = FALSE]
        /\ events' = [events EXCEPT !.cheap = @ + 1]
        /\ Recorded
        /\ UNCHANGED <<remote, conditional, listing, used, today, indexers,
                       forgotten, disturbed, faults>>

\* record_cheap_check: the hash is compared with the one read before the
\* fetch, and both the new hash and the new validators are kept.
RecordCheapCheck ==
    LET t == job.target
    IN  /\ job.phase = "answered" /\ Listed /\ job.action = "cheap"
        /\ row' = [row EXCEPT ![t].checkDue = FALSE,
                              ![t].etag = Coalesce(Validator, @),
                              ![t].hash = job.reply,
                              ![t].needsFull = @ \/ job.reply # job.hash,
                              ![t].waiting = FALSE]
        /\ events' = [events EXCEPT !.cheap = @ + 1]
        /\ Recorded
        /\ UNCHANGED <<remote, conditional, listing, used, today, indexers,
                       forgotten, disturbed, faults>>

\* A full reindex whose rows can be stored.
FullListing ==
    /\ job.phase = "answered" /\ Listed
    /\ job.action = "full" /\ job.reply \notin Doubled

\* update_listing.
RecordListing ==
    LET t == job.target
    IN  /\ FullListing
        /\ listing' = [listing EXCEPT ![t] = job.reply]
        /\ row' = [row EXCEPT ![t] = IndexedRow]
        /\ events' = [events EXCEPT !.full = @ + 1]
        /\ Recorded
        /\ disturbed' = disturbed \ {t}
        /\ UNCHANGED <<remote, conditional, used, today, indexers, forgotten,
                       faults>>

\* mark_failure: no budget is used up, and there is a retry time unless the
\* delay comes out as zero.
MarkFailure ==
    LET t == job.target
    IN  /\ \E waiting \in BOOLEAN :
             row' = [row EXCEPT ![t].needsFull = TRUE,
                                ![t].waiting = waiting]
        /\ job' = NoJob
        /\ disturbed' = disturbed \ {t}
        /\ UNCHANGED <<remote, conditional, events, used, today, indexers,
                       forgotten>>

RecordFailure ==
    /\ job.phase = "answered" /\ job.reply \in {Failed} \cup Giant
    /\ MarkFailure
    /\ UNCHANGED <<listing, faults>>

\* update_listing again: a second row for a path breaks UNIQUE(target_id,
\* path).  The old rows are deleted by then and some new ones are in; there
\* is no rollback, and mark_failure commits what is left (SQLite, MariaDB).
\* The second row may also be one that a rollback of another thread brought
\* back.
TearListing ==
    /\ job.phase = "answered" /\ Listed /\ job.action = "full"
    /\ \/ job.reply \in Doubled /\ UNCHANGED faults
       \/ faults < MaxFaults /\ faults' = faults + 1
    /\ listing' = [listing EXCEPT ![job.target] = Torn]
    /\ MarkFailure

-----------------------------------------------------------------------------
(* Other threads end the transaction, in the middle of a record.           *)

Interference == faults < MaxFaults /\ faults' = faults + 1

\* A rollback undoes all that was written to rows, but not always the event,
\* which is the last statement.
RecordUndone ==
    LET succeeds == \/ FullListing \/ job.reply = NotModified
                    \/ Listed /\ job.action = "cheap"
        type == IF FullListing THEN "full" ELSE "cheap"
    IN  /\ job.phase = "answered"
        /\ Interference
        /\ IF succeeds
           THEN Recorded /\ events' \in {events, [events EXCEPT ![type] = @ + 1]}
           ELSE job' = NoJob /\ UNCHANGED events
        /\ UNCHANGED <<remote, conditional, listing, row, used, today, indexers,
                       forgotten, disturbed>>

\* A rollback within update_listing undoes the deletion and some or all of the
\* new rows; what the row of the target is made to say is written afterwards.
ListingUndone ==
    LET t == job.target
    IN  /\ FullListing
        /\ Interference
        /\ listing' \in {listing, [listing EXCEPT ![t] = Torn]}
        /\ row' = [row EXCEPT ![t] = IndexedRow]
        /\ events' = [events EXCEPT !.full = @ + 1]
        /\ Recorded
        /\ disturbed' = disturbed \cup {t}
        /\ UNCHANGED <<remote, conditional, used, today, indexers, forgotten>>

\* A commit within update_listing makes what it did so far last, also when the
\* process dies or the connection is closed before the rest is written.
ListingExposed ==
    LET t == job.target
    IN  /\ job.phase = "answered" /\ Listed /\ job.action = "full"
        /\ Interference
        /\ \E rows \in {Torn} \cup ({job.reply} \ Doubled) :
             listing' = [listing EXCEPT ![t] = rows]
        /\ disturbed' = disturbed \cup {t}
        /\ UNCHANGED <<remote, conditional, row, events, used, today, job,
                       indexers, forgotten>>

-----------------------------------------------------------------------------
\* Faulty: nothing is counted.
ConsumeNothing ==
    /\ job.phase = "recorded"
    /\ job' = NoJob
    /\ UNCHANGED <<remote, conditional, listing, row, events, used, today,
                   indexers, forgotten, disturbed, faults>>

\* _consume_budget, for the action asked for: a full reindex answered with
\* 304 counts as a full one.
ConsumeBudget ==
    /\ job.phase = "recorded"
    /\ used' = [Counted EXCEPT ![job.action] = @ + 1]
    /\ today' = TRUE
    /\ job' = NoJob
    /\ UNCHANGED <<remote, conditional, listing, row, events, indexers,
                   forgotten, disturbed, faults>>

-----------------------------------------------------------------------------
\* A new Indexer, after a reload, or after the process ended or died: it counts
\* from zero as of today.  A thread that is still in a job after a reload
\* (stop() joins it for one second, a fetch may take thirty) can record nothing:
\* stop_all() has closed its connection before start_all() makes the new one,
\* and what was not committed is gone with it.
NewIndexer ==
    /\ indexers < MaxIndexers
    /\ indexers' = indexers + 1
    /\ used' = Zero
    /\ today' = TRUE
    /\ job' = NoJob
    /\ forgotten' = forgotten + 1
    /\ UNCHANGED <<remote, conditional, listing, row, events, disturbed, faults>>

Record ==
    \/ RecordNotModified \/ RecordCheapCheck \/ RecordListing
    \/ RecordFailure \/ TearListing

Work ==
    NoticeDay \/ StartJob \/ Answer \/ Record \/ ConsumeBudget

Next ==
    \/ \E t \in Targets :
        RemoteChanges(t) \/ RetryTimeComes(t) \/ MarkNeedsFull(t)
    \/ DayPasses
    \/ Work \/ FetchFails
    \/ RecordUndone \/ ListingUndone \/ ListingExposed
    \/ NewIndexer

Spec == Init /\ [][Next]_vars

\* The thread's loop turns for ever, and time goes by.  The loop turns many
\* times a day and notes the date and starts a job in the same turn, so it
\* does not miss the chance to start one every day: fairness is strong.
FairSpec ==
    /\ Spec
    /\ WF_vars(Work) /\ SF_vars(StartJob)
    /\ WF_vars(DayPasses)
    /\ \A t \in Targets : WF_vars(RetryTimeComes(t))

-----------------------------------------------------------------------------
Rows == [age : 0 .. MaxFull, checkDue : BOOLEAN, needsFull : BOOLEAN,
         etag : 0 .. MaxVersion, hash : 0 .. MaxVersion, waiting : BOOLEAN]

Counters == [full : Nat, cheap : Nat]

Jobs == [phase : {"asked", "answered", "recorded"}, target : Targets,
         action : {"full", "cheap"}, etag : 0 .. MaxVersion,
         hash : 0 .. MaxVersion, reply : -2 .. MaxVersion]

\* Variables hold what the code can put in them.
TypeOK ==
    /\ remote \in [Targets -> Versions]
    /\ conditional \subseteq Targets
    /\ listing \in [Targets -> -1 .. MaxVersion]
    /\ row \in [Targets -> Rows]
    /\ events \in Counters
    /\ used \in Counters
    /\ today \in BOOLEAN
    /\ job \in Jobs \cup {NoJob}
    /\ indexers \in 1 .. MaxIndexers
    /\ forgotten \in Nat
    /\ disturbed \subseteq Targets
    /\ faults \in 0 .. MaxFaults

\* A target whose row knows of a listing newer than the one stored, or whose
\* stored listing lacks rows, is marked for a full reindex: no answer, no
\* failure, no reload and no restart takes the mark away.  Only a commit or a
\* rollback of another thread within update_listing can, until the next update
\* or failure of the target.
SeenChangeIsMarked ==
    \A t \in Targets \ disturbed :
        row[t].hash > listing[t] => row[t].needsFull

\* README.md:135 keeps indexing under the daily budgets: each Indexer of the
\* day keeps to them, with requests that end in 304 counted as what they were
\* started for, also when a job is in flight at midnight.
BudgetPerIndexer ==
    /\ events.full <= FullBudget * (1 + forgotten)
    /\ events.full + events.cheap <=
         (FullBudget + CheapBudget) * (1 + forgotten)

\* A listing that can be stored and is out of date is replaced in the end.
CatchesUp(t) ==
    (listing[t] # remote[t]) ~> (\/ listing[t] = remote[t]
                                 \/ remote[t] \in Doubled \cup Giant)

\* Where no server sends validators, listings catch up with their servers
\* after finitely many failures, marks lost to a running update included.
PlainListingsCatchUp == conditional = {} => \A t \in Targets : CatchesUp(t)
=============================================================================
