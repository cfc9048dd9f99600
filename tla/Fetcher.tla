------------------------------- MODULE Fetcher -------------------------------
(***************************************************************************)
(* Fetcher.download_file of app/net/fetcher.py: the wait for one of        *)
(* max_concurrent slots, the attempts with their retries and resumes, and  *)
(* the release of the slot.  Downloads run on the threads of the requests  *)
(* that ask for them; each has a staging file of its own.                  *)
(*                                                                         *)
(* A destination file is a sequence of blocks: i is block i of the remote  *)
(* file, Junk a block of the body of an error reply.                       *)
(***************************************************************************)
EXTENDS Naturals, Sequences, FiniteSets

CONSTANTS
    Downloads,      \* calls of download_file
    ViaRclone,      \* those whose URL is rclone's to fetch
    RemoteLength,   \* blocks of a remote file
    MaxErrorBody,   \* blocks of the longest error page considered
    MaxConcurrent,  \* max_concurrent
    MaxRetries      \* max_retries

ASSUME FetcherAssumption ==
    /\ ViaRclone \subseteq Downloads
    /\ IsFiniteSet(Downloads)
    /\ RemoteLength \in Nat \ {0}
    /\ MaxErrorBody \in Nat
    /\ MaxConcurrent \in Nat \ {0}
    /\ MaxRetries \in Nat

Junk == 0
File == [i \in 1 .. RemoteLength |-> i]
Page(n) == [i \in 1 .. n |-> Junk]

Errors == {"404", "5xx", "408_429", "4xx"}
Successes == {"200", "206"}
Lost == "none"       \* pycurl.error: no status at all

VARIABLES
    active,   \* _active_downloads, guarded by _download_lock
    pc,       \* where each call is
    attempt,  \* retries used so far
    dest,     \* the destination file
    result    \* success, or what the error message names

fetchVars == <<active, pc, attempt, dest, result>>

FetchInit ==
    /\ active = 0
    /\ pc = [d \in Downloads |-> "idle"]
    /\ attempt = [d \in Downloads |-> 0]
    /\ dest = [d \in Downloads |-> <<>>]    \* reserve_tempfile created it
    /\ result = [d \in Downloads |-> "pending"]

Goto(d, state) == pc' = [pc EXCEPT ![d] = state]

-----------------------------------------------------------------------------
\* Faulty: RESUME_FROM is not set, the file comes again from its start.
RestartedOutcomes(part) ==
    {[dest |-> part \o SubSeq(File, 1, m), status |-> Lost] :
        m \in 0 .. RemoteLength}
    \cup {[dest |-> part \o File, status |-> "200"]}

\* What one curl.perform can leave in the file and report, given what the
\* file held.  A file with something in it makes the request a resume: only
\* a reply with the range asked for is appended.  libcurl refuses any other
\* reply, unless there is nothing left to transfer: no body, or one as long
\* as the file already is.
CurlOutcomes(part) ==
    LET k == Len(part)
        broken == {[dest |-> part \o SubSeq(File, k + 1, m), status |-> Lost] :
                      m \in k .. RemoteLength}
                  \cup {[dest |-> part, status |-> Lost]}
        fresh == {[dest |-> File, status |-> "200"],
                  [dest |-> <<>>, status |-> "200"]}
                 \cup {[dest |-> Page(n), status |-> s] :
                          n \in 0 .. MaxErrorBody, s \in Errors}
        tail == [dest |-> part \o SubSeq(File, k + 1, RemoteLength),
                 status |-> "206"]
        complete == [dest |-> part, status |-> "200"]
        resumed == {[dest |-> part, status |-> s] : s \in Errors}
                   \cup (IF k < RemoteLength THEN {tail} ELSE {})
                   \cup (IF k = RemoteLength THEN {complete} ELSE {})
    IN  broken \cup IF k = 0 THEN fresh ELSE resumed

Retryable(status) == status \in {Lost, "408_429", "5xx"}

\* What the message of a DownloadResult names, which decides whether the
\* caller marks the target for reindexing.
Message(status) == IF status \in {"404", "5xx"} THEN status ELSE "other"

-----------------------------------------------------------------------------
Call(d) ==
    /\ pc[d] = "idle"
    /\ Goto(d, IF d \in ViaRclone THEN "rclone" ELSE "waiting")
    /\ UNCHANGED <<active, attempt, dest, result>>

\* Faulty: one download too many gets in.
AcquireOneTooMany(d) ==
    /\ pc[d] = "waiting"
    /\ active <= MaxConcurrent
    /\ active' = active + 1
    /\ Goto(d, "attempt")
    /\ UNCHANGED <<attempt, dest, result>>

\* The loop that polls every 0.2 s, its turn in which it gets a slot.
Acquire(d) ==
    /\ pc[d] = "waiting"
    /\ active < MaxConcurrent
    /\ active' = active + 1
    /\ Goto(d, "attempt")
    /\ UNCHANGED <<attempt, dest, result>>

Conclude(d, outcome, state) ==
    /\ result' = [result EXCEPT ![d] = outcome]
    /\ Goto(d, state)
    /\ UNCHANGED attempt

TryAgain(d) ==
    /\ attempt[d] < MaxRetries
    /\ attempt' = [attempt EXCEPT ![d] = @ + 1]
    /\ UNCHANGED result

\* One turn of the loop over the attempts.  A success that leaves the file
\* empty raises, and an exception is retried like a lost connection.
Attempt(d) ==
    /\ pc[d] = "attempt"
    /\ \E out \in CurlOutcomes(dest[d]) :
        LET ok == out.status \in Successes /\ out.dest # <<>>
            again == Retryable(out.status) \/ out.status \in Successes
        IN  /\ dest' = [dest EXCEPT ![d] = out.dest]
            /\ \/ ok /\ Conclude(d, "success", "release")
               \/ ~ok /\ again /\ TryAgain(d) /\ Goto(d, "backoff")
               \/ /\ ~ok
                  /\ again => attempt[d] = MaxRetries
                  /\ Conclude(d, Message(out.status), "release")
    /\ UNCHANGED active

\* time.sleep between two attempts; the slot stays taken.
Backoff(d) ==
    /\ pc[d] = "backoff"
    /\ Goto(d, "attempt")
    /\ UNCHANGED <<active, attempt, dest, result>>

\* Faulty: the slot is kept when the download failed.
ReleaseOnSuccess(d) ==
    /\ pc[d] = "release"
    /\ active' = IF result[d] = "success" THEN active - 1 ELSE active
    /\ Goto(d, "done")
    /\ UNCHANGED <<attempt, dest, result>>

\* The finally clause, whichever way the loop was left.
Release(d) ==
    /\ pc[d] = "release"
    /\ active' = active - 1
    /\ Goto(d, "done")
    /\ UNCHANGED <<attempt, dest, result>>

\* _download_rclone takes no slot; rclone delivers the file or raises.
RcloneAttempt(d) ==
    /\ pc[d] = "rclone"
    /\ \/ /\ dest' = [dest EXCEPT ![d] = File]
          /\ Conclude(d, "success", "done")
       \/ TryAgain(d) /\ UNCHANGED <<pc, dest>>
       \/ /\ attempt[d] = MaxRetries
          /\ Conclude(d, "other", "done")
          /\ UNCHANGED dest
    /\ UNCHANGED active

Run(d) ==
    \/ Acquire(d) \/ Attempt(d) \/ Backoff(d) \/ Release(d)
    \/ RcloneAttempt(d)

FetchNext == \E d \in Downloads : Call(d) \/ Run(d)

FetchSpec == FetchInit /\ [][FetchNext]_fetchVars

\* A thread inside download_file keeps running: every sleep ends, and curl
\* gives up on a transfer that is too slow or too long.
FetchFairSpec == FetchSpec /\ \A d \in Downloads : WF_fetchVars(Run(d))

-----------------------------------------------------------------------------
\* Calls that hold a slot.
Holders == {d \in Downloads : pc[d] \in {"attempt", "backoff", "release"}}

\* Counters stay in range, a file holds blocks only, and a call in the loop
\* is one that did not go to rclone.
FetchTypeOK ==
    /\ active \in Nat
    /\ pc \in [Downloads -> {"idle", "waiting", "attempt", "backoff",
                             "release", "rclone", "done"}]
    /\ attempt \in [Downloads -> 0 .. MaxRetries]
    /\ dest \in [Downloads -> Seq(0 .. RemoteLength)]
    /\ result \in [Downloads -> {"pending", "success", "404", "5xx", "other"}]
    /\ \A d \in ViaRclone : pc[d] \in {"idle", "rclone", "done"}

\* _active_downloads counts the calls between their acquire and their
\* finally clause, through retries, backoffs and every way out of the loop,
\* and never exceeds max_concurrent.
SlotsCounted ==
    /\ active = Cardinality(Holders)
    /\ active <= MaxConcurrent

\* However an attempt breaks off and is resumed, a download that succeeds
\* left a file of the right length in which every block of the remote file
\* is at its own place; what is not such a block came with an error reply.
ResumeKeepsPlaces ==
    \A d \in Downloads : result[d] = "success" =>
        /\ Len(dest[d]) = RemoteLength
        /\ \A i \in 1 .. RemoteLength : dest[d][i] \in {i, Junk}

\* Every call ends, the ones that wait for a slot included.
EveryDownloadEnds == \A d \in Downloads : pc[d] # "idle" ~> pc[d] = "done"

\* Taking and giving back slots follows the abstract pool.
Pool == INSTANCE SlotPool
            WITH free <- MaxConcurrent - active, holders <- Holders
PoolSpec == Pool!Spec

\* The inductive invariant behind ResumeKeepsPlaces.
Placed(content) ==
    /\ content \in Seq(0 .. RemoteLength)
    /\ \A i \in 1 .. Len(content) : content[i] \in {i, Junk}

PlacesInv ==
    \A d \in Downloads :
        /\ Placed(dest[d])
        /\ result[d] = "success" => /\ Len(dest[d]) = RemoteLength
                                    /\ pc[d] \in {"release", "done"}
=============================================================================
