---------------------------- MODULE DownloadQueue ----------------------------
(***************************************************************************)
(* The queue of background downloads: start_download_queue_thread and its  *)
(* helpers in app/net/fetcher.py over the table pending_downloads of       *)
(* app/db/dbmanage.py.  A thread claims a batch of jobs, downloads them    *)
(* side by side straight to their places in the datadir, and then records  *)
(* the results; administrators add, retry and delete jobs meanwhile.  A    *)
(* reload closes the database of the old thread, which may be in a batch,  *)
(* and starts a new thread with a new connection: what the old one goes on *)
(* to transfer, it can record no more.                                     *)
(*                                                                         *)
(* A file is a sequence of blocks: <<u, i>> is block i of the file at URL  *)
(* u, Foreign a block of an upload, of an error page or of a hole.         *)
(***************************************************************************)
EXTENDS Naturals, Sequences, FiniteSets

CONSTANTS
    Jobs,        \* rows of pending_downloads, each added at most once
    Urls,
    Paths,       \* destinations in the datadir
    UrlOf,       \* what a job downloads
    PathOf,      \* ... and to where
    Uploaded,    \* destinations where something else may be already
    Checked,     \* jobs with an expected_checksum
    FileLength,  \* blocks of a remote file
    Limit,       \* jobs claimed at a time
    MaxThreads,  \* bound: queue threads over all reloads and restarts
    MaxFaults,   \* bound: transfers and batches that fail
    None,        \* no file
    Foreign

Threads == 1 .. MaxThreads

Blocks == (Urls \X (1 .. FileLength)) \cup {Foreign}

ASSUME QueueAssumption ==
    /\ IsFiniteSet(Jobs) /\ None \notin Seq(Blocks)
    /\ UrlOf \in [Jobs -> Urls] /\ PathOf \in [Jobs -> Paths]
    /\ Checked \subseteq Jobs /\ Uploaded \subseteq Paths
    /\ FileLength \in Nat \ {0} /\ Limit \in Nat \ {0}
    /\ MaxThreads \in Nat \ {0} /\ MaxFaults \in Nat

Remote(u) == [i \in 1 .. FileLength |-> <<u, i>>]

VARIABLES
    status,     \* column of pending_downloads, or that there is no row
    file,       \* the datadir
    current,    \* the thread that is not stopped and has a connection
    phase,      \* where a thread is in its loop
    batch,      \* jobs a thread selected and has not recorded yet
    transfer,   \* what download_file of a thread does for a job
    results,    \* results of batch_download, by URL
    abandoned,  \* history: jobs given up while in_progress, until a retry
    shared,     \* history: jobs that two threads had at a time
    faults

vars == <<status, file, current, phase, batch, transfer, results, abandoned,
          shared, faults>>

Transfers ==
    [state : {"todo", "sized", "open", "ended"}, offset : Nat, append : BOOLEAN]

InState(state) == [state |-> state, offset |-> 0, append |-> FALSE]

NoTransfers == [j \in Jobs |-> InState("todo")]
NoResults == [u \in Urls |-> "none"]

Init ==
    /\ status = [j \in Jobs |-> "new"]
    /\ file \in {f \in [Paths -> {None, <<Foreign>>}] :
                  \A p \in Paths \ Uploaded : f[p] = None}
    /\ current = 1
    /\ phase = [t \in Threads |-> "idle"]
    /\ batch = [t \in Threads |-> {}]
    /\ transfer = [t \in Threads |-> NoTransfers]
    /\ results = [t \in Threads |-> NoResults]
    /\ abandoned = {}
    /\ shared = {}
    /\ faults = 0

-----------------------------------------------------------------------------
(* The table.                                                              *)

HasRow(j) == status[j] \notin {"new", "deleted"}

\* UPDATE ... WHERE id IN ids: rows that are gone stay gone.
Updated(ids, value) ==
    [j \in Jobs |-> IF j \in ids /\ HasRow(j) THEN value ELSE status[j]]

Enqueue(j) ==
    /\ status[j] = "new"
    /\ status' = [status EXCEPT ![j] = "pending"]
    /\ UNCHANGED <<file, current, phase, batch, transfer, results, abandoned,
                   shared, faults>>

\* retry_download_job asks for no particular status.
RetryJob(j) ==
    /\ HasRow(j)
    /\ status' = [status EXCEPT ![j] = "pending"]
    /\ abandoned' = abandoned \ {j}
    /\ UNCHANGED <<file, current, phase, batch, transfer, results, shared,
                   faults>>

\* The row goes; what the job's thread does for it goes on.
DeleteJob(j) ==
    /\ HasRow(j)
    /\ status' = [status EXCEPT ![j] = "deleted"]
    /\ UNCHANGED <<file, current, phase, batch, transfer, results, abandoned,
                   shared, faults>>

-----------------------------------------------------------------------------
(* The loop of thread t.                                                   *)

Enter(t, place) == phase' = [phase EXCEPT ![t] = place]

\* The test of the stop event and the SELECT of claim_pending_downloads, taken
\* as one step.  Which pending jobs come first is a
\* matter of their priorities and ages.
Select(t) ==
    LET pending == {j \in Jobs : status[j] = "pending"}
    IN  /\ t = current /\ phase[t] = "idle"
        /\ \E ids \in SUBSET pending :
            /\ ids # {}
            /\ Cardinality(ids) <= Limit
            /\ Cardinality(ids) < Limit => ids = pending
            /\ batch' = [batch EXCEPT ![t] = ids]
            /\ shared' = shared \cup {j \in ids : \E s \in Threads \ {t} :
                                                    j \in batch[s]}
        /\ Enter(t, "selected")
        /\ UNCHANGED <<status, file, current, transfer, results, abandoned,
                       faults>>

\* ... and its UPDATE, which does not ask for the status again.
Claim(t) ==
    /\ t = current
    /\ phase[t] = "selected"
    /\ status' = Updated(batch[t], "in_progress")
    /\ Enter(t, "downloading")
    /\ UNCHANGED <<file, current, batch, transfer, results, abandoned, shared,
                   faults>>

\* ... or fails and is rolled back.
ClaimFails(t) ==
    /\ t = current
    /\ phase[t] = "selected"
    /\ faults < MaxFaults
    /\ faults' = faults + 1
    /\ batch' = [batch EXCEPT ![t] = {}]
    /\ Enter(t, "idle")
    /\ UNCHANGED <<status, file, current, transfer, results, abandoned,
                   shared>>

\* ... or meets a connection that a reload closed: it raises, or it was made
\* just before, is rolled back by the close, and its commit says nothing.
ClaimLost(t) ==
    /\ t # current
    /\ phase[t] = "selected"
    /\ \/ batch' = [batch EXCEPT ![t] = {}] /\ Enter(t, "idle")
       \/ Enter(t, "downloading") /\ UNCHANGED batch
    /\ UNCHANGED <<status, file, current, transfer, results, abandoned,
                   shared, faults>>

InProgress(ids) == {j \in ids : status[j] = "in_progress"}

\* An exception between the claim and the downloads, from mkdir say, is
\* caught by the loop: nothing is recorded for any job of the batch.
BatchFails(t) ==
    /\ phase[t] = "downloading"
    /\ \A j \in batch[t] : transfer[t][j].state = "todo"
    /\ faults < MaxFaults
    /\ faults' = faults + 1
    /\ abandoned' = IF t = current THEN abandoned \cup InProgress(batch[t])
                    ELSE abandoned
    /\ batch' = [batch EXCEPT ![t] = {}]
    /\ Enter(t, "idle")
    /\ UNCHANGED <<status, file, current, transfer, results, shared>>

Downloading(t, j, state) ==
    /\ phase[t] = "downloading"
    /\ j \in batch[t]
    /\ transfer[t][j].state = state

\* Faulty: the file is to come from its start, and to go behind what there is.
LookWithoutResume(t, j) ==
    /\ Downloading(t, j, "todo")
    /\ transfer' = [transfer EXCEPT ![t][j] =
                     [state |-> "sized", offset |-> 0,
                      append |-> file[PathOf[j]] \notin {None, <<>>}]]
    /\ UNCHANGED <<status, file, current, phase, batch, results, abandoned,
                   shared, faults>>

\* _download_once asks for the size of the destination: a file with something
\* in it will be appended to, from the offset that is its length.
Look(t, j) ==
    LET size == IF file[PathOf[j]] = None THEN 0 ELSE Len(file[PathOf[j]])
    IN  /\ Downloading(t, j, "todo")
        /\ transfer' = [transfer EXCEPT ![t][j] =
                         [state |-> "sized", offset |-> size,
                          append |-> size > 0]]
        /\ UNCHANGED <<status, file, current, phase, batch, results,
                       abandoned, shared, faults>>

\* ... and opens it, in mode "ab" or "wb".
OpenFile(t, j) ==
    /\ Downloading(t, j, "sized")
    /\ file' = [file EXCEPT ![PathOf[j]] =
                 IF transfer[t][j].append THEN @ ELSE <<>>]
    /\ transfer' = [transfer EXCEPT ![t][j].state = "open"]
    /\ UNCHANGED <<status, current, phase, batch, results, abandoned, shared,
                   faults>>

\* f with block b written at place n, or behind the end if n is beyond it.
Written(f, n, b) ==
    [i \in 1 .. (IF n > Len(f) THEN n ELSE Len(f)) |->
        IF i = n THEN b ELSE IF i <= Len(f) THEN f[i] ELSE Foreign]

WriteBlock(t, j) ==
    LET f == file[PathOf[j]]
        n == transfer[t][j].offset + 1
        place == IF transfer[t][j].append THEN Len(f) + 1 ELSE n
    IN  /\ Downloading(t, j, "open")
        /\ n <= FileLength
        /\ file' = [file EXCEPT ![PathOf[j]] =
                     Written(f, place, <<UrlOf[j], n>>)]
        /\ transfer' = [transfer EXCEPT ![t][j].offset = n]
        /\ UNCHANGED <<status, current, phase, batch, results, abandoned,
                       shared, faults>>

\* The progress callback knows jobs by their URL: it is the last job of the
\* batch with this URL that is said to be in progress.
Progress(t, j) ==
    /\ t = current
    /\ Downloading(t, j, "open")
    /\ \E k \in batch[t] :
        /\ UrlOf[k] = UrlOf[j]
        /\ status' = Updated({k}, "in_progress")
    /\ UNCHANGED <<file, current, phase, batch, transfer, results, abandoned,
                   shared, faults>>

\* A failed attempt that another one follows.  The reply to a request for
\* the whole file may have been an error page, which stays in the file.
BreakOff(t, j) ==
    /\ Downloading(t, j, "open")
    /\ faults < MaxFaults
    /\ faults' = faults + 1
    /\ \/ UNCHANGED file
       \/ /\ transfer[t][j].offset = 0
          /\ file' = [file EXCEPT ![PathOf[j]] = Written(@, 1, Foreign)]
    /\ transfer' = [transfer EXCEPT ![t][j] = InState("todo")]
    /\ UNCHANGED <<status, current, phase, batch, results, abandoned, shared>>

\* download_file returns.  batch_download files the result under the URL: of
\* two jobs with that URL the one it hears of last decides for both.
Return(t, j, result) ==
    /\ transfer' = [transfer EXCEPT ![t][j] = InState("ended")]
    /\ \/ results' = [results EXCEPT ![t][UrlOf[j]] = result]
       \/ results[t][UrlOf[j]] # "none" /\ UNCHANGED results
    /\ UNCHANGED <<status, file, current, phase, batch, abandoned, shared>>

TransferEnds(t, j) ==
    /\ Downloading(t, j, "open")
    /\ transfer[t][j].offset = FileLength
    /\ file[PathOf[j]] # <<>>
    /\ Return(t, j, IF j \in Checked /\ file[PathOf[j]] # Remote(UrlOf[j])
                    THEN "unverified" ELSE "success")
    /\ UNCHANGED faults

\* The last attempt fails, or a resume is refused: what the destination had
\* was longer than the remote file.
TransferFails(t, j) ==
    /\ Downloading(t, j, "open")
    /\ \/ faults < MaxFaults /\ faults' = faults + 1
       \/ transfer[t][j].offset >= FileLength /\ UNCHANGED faults
    /\ Return(t, j, "failed")

BatchEnds(t) ==
    /\ phase[t] = "downloading"
    /\ \A j \in batch[t] : transfer[t][j].state = "ended"
    /\ transfer' = [transfer EXCEPT ![t] = NoTransfers]
    /\ Enter(t, "recording")
    /\ UNCHANGED <<status, file, current, batch, results, abandoned, shared,
                   faults>>

\* Faulty: a result is recorded as completed though it was not verified.
RecordUnverified(t, j) ==
    /\ t = current
    /\ phase[t] = "recording"
    /\ j \in batch[t]
    /\ status' = Updated({j}, IF results[t][UrlOf[j]] # "failed"
                              THEN "completed" ELSE "failed")
    /\ batch' = [batch EXCEPT ![t] = @ \ {j}]
    /\ UNCHANGED <<file, current, phase, transfer, results, abandoned, shared,
                   faults>>

\* Faulty: the loop returns where it should continue.
RecordAndReturn(t, j) ==
    /\ t = current
    /\ phase[t] = "recording"
    /\ j \in batch[t]
    /\ status' = Updated({j}, IF results[t][UrlOf[j]] = "success"
                              THEN "completed" ELSE "failed")
    /\ batch' = [batch EXCEPT ![t] = {}]
    /\ UNCHANGED <<file, current, phase, transfer, results, abandoned, shared,
                   faults>>

\* Faulty: only successes are recorded.
RecordSuccess(t, j) ==
    /\ t = current
    /\ phase[t] = "recording"
    /\ j \in batch[t]
    /\ status' = IF results[t][UrlOf[j]] = "success"
                 THEN Updated({j}, "completed") ELSE status
    /\ batch' = [batch EXCEPT ![t] = @ \ {j}]
    /\ UNCHANGED <<file, current, phase, transfer, results, abandoned, shared,
                   faults>>

\* _update_pending_downloads, for one job.
Record(t, j) ==
    /\ t = current
    /\ phase[t] = "recording"
    /\ j \in batch[t]
    /\ status' = Updated({j}, IF results[t][UrlOf[j]] = "success"
                              THEN "completed" ELSE "failed")
    /\ batch' = [batch EXCEPT ![t] = @ \ {j}]
    /\ UNCHANGED <<file, current, phase, transfer, results, abandoned, shared,
                   faults>>

\* update_download_status fails, is rolled back and says nothing.
RecordFails(t, j) ==
    /\ t = current
    /\ phase[t] = "recording"
    /\ j \in batch[t]
    /\ faults < MaxFaults
    /\ faults' = faults + 1
    /\ abandoned' = abandoned \cup InProgress({j})
    /\ batch' = [batch EXCEPT ![t] = @ \ {j}]
    /\ UNCHANGED <<status, file, current, phase, transfer, results, shared>>

\* A reload closed the connection: update_download_status raises, catches it
\* and says nothing, for one job after the other.
RecordLost(t, j) ==
    /\ t # current
    /\ phase[t] = "recording"
    /\ j \in batch[t]
    /\ batch' = [batch EXCEPT ![t] = @ \ {j}]
    /\ UNCHANGED <<status, file, current, phase, transfer, results, abandoned,
                   shared, faults>>

\* The batch is recorded; the thread waits for its next turn or, if its stop
\* event is set, ends.
Rest(t) ==
    /\ phase[t] = "recording"
    /\ batch[t] = {}
    /\ results' = [results EXCEPT ![t] = NoResults]
    /\ Enter(t, "idle")
    /\ UNCHANGED <<status, file, current, batch, transfer, abandoned, shared,
                   faults>>

-----------------------------------------------------------------------------
\* stop() sets the event of the old thread and waits for it one second; then
\* its connection is closed, and no claim is taken back.
Reload ==
    /\ current < MaxThreads
    /\ current' = current + 1
    /\ abandoned' = abandoned \cup InProgress(batch[current])
    /\ UNCHANGED <<status, file, phase, batch, transfer, results, shared,
                   faults>>

\* The process dies and is started again.
Restart ==
    /\ current < MaxThreads
    /\ current' = current + 1
    /\ abandoned' = abandoned \cup InProgress(batch[current])
    /\ phase' = [t \in Threads |-> "idle"]
    /\ batch' = [t \in Threads |-> {}]
    /\ transfer' = [t \in Threads |-> NoTransfers]
    /\ results' = [t \in Threads |-> NoResults]
    /\ UNCHANGED <<status, file, shared, faults>>

Transfer(t, j) ==
    Look(t, j) \/ OpenFile(t, j) \/ WriteBlock(t, j) \/ TransferEnds(t, j)
        \/ TransferFails(t, j)

Work(t) ==
    \/ Select(t) \/ Claim(t) \/ ClaimLost(t) \/ BatchEnds(t) \/ Rest(t)
    \/ \E j \in Jobs : Transfer(t, j) \/ Record(t, j) \/ RecordLost(t, j)

Next ==
    \/ \E j \in Jobs : Enqueue(j) \/ RetryJob(j) \/ DeleteJob(j)
    \/ \E t \in Threads :
        \/ Work(t) \/ ClaimFails(t) \/ BatchFails(t)
        \/ \E j \in Jobs : Progress(t, j) \/ BreakOff(t, j) \/ RecordFails(t, j)
    \/ Reload \/ Restart

Spec == Init /\ [][Next]_vars

\* The loop of a thread turns until its stop event is set, and transfers
\* end: curl gives up on those that are too slow or too long.
FairSpec == Spec /\ \A t \in Threads : WF_vars(Work(t))

-----------------------------------------------------------------------------
\* The types of the variables; the status is one of those the UI knows, and no
\* thread holds more jobs than the limit.
TypeOK ==
    /\ status \in [Jobs -> {"new", "pending", "in_progress", "completed",
                            "failed", "deleted"}]
    /\ file \in [Paths -> Seq(Blocks) \cup {None}]
    /\ current \in Threads
    /\ phase \in [Threads -> {"idle", "selected", "downloading", "recording"}]
    /\ batch \in [Threads -> SUBSET Jobs]
    /\ \A t \in Threads : Cardinality(batch[t]) <= Limit
    /\ transfer \in [Threads -> [Jobs -> Transfers]]
    /\ results \in [Threads -> [Urls ->
           {"none", "success", "unverified", "failed"}]]
    /\ abandoned \subseteq Jobs /\ shared \subseteq Jobs
    /\ faults \in 0 .. MaxFaults

\* A job that says in_progress is in the hands of the thread that can record
\* its result, or one of four things struck it while it was in such hands: a
\* crash, a batch that failed, a result that was not stored, or a reload,
\* which strands the whole batch of the old thread with no fault at all.  No
\* retry, deletion, lost claim or late progress report gets a job stuck in any
\* other way.  Nothing but a retry by hand takes an abandoned job up again.
InProgressAccountedFor ==
    \A j \in Jobs : status[j] = "in_progress" =>
        \/ j \in abandoned
        \/ /\ phase[current] \in {"downloading", "recording"}
           /\ j \in batch[current]

Others(j) == {k \in Jobs \ {j} : status[k] # "new"}

\* No two threads ever had the job, and no other job goes to its place.
Exclusive(j) ==
    j \notin shared /\ \A k \in Others(j) : PathOf[k] # PathOf[j]

\* Each piece of the remote file that is in the destination is in its place,
\* after interrupted transfers, crashes and retries that resume them, and
\* also over what an upload or an error page left there.
BlocksInPlace ==
    \A j \in Jobs :
        LET f == file[PathOf[j]]
        IN  Exclusive(j) /\ f # None =>
                \A i \in DOMAIN f : f[i] \in {<<UrlOf[j], i>>, Foreign}

\* A job with an expected checksum is completed only when its destination is
\* the remote file, if no other job ever asked for that URL: the results are
\* filed under URLs.
VerifiedIsWhole ==
    \A j \in Checked :
        /\ status[j] = "completed"
        /\ Exclusive(j)
        /\ \A k \in Others(j) : UrlOf[k] # UrlOf[j]
        => file[PathOf[j]] = Remote(UrlOf[j])

\* A pending job is completed, failed, deleted or abandoned in the end: to a
\* fault, or to a reload or restart that overtakes the thread that claimed it
\* (for a queue no longer than Limit: in a longer one older jobs that are
\* retried again and again go first).
EveryJobSettles ==
    \A j \in Jobs :
        status[j] = "pending" ~>
            status[j] \in {"completed", "failed", "deleted"} \/ j \in abandoned
=============================================================================
