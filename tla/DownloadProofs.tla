--------------------------- MODULE DownloadProofs ---------------------------
(***************************************************************************)
(* Proofs about the two ways a file is downloaded.                         *)
(*                                                                         *)
(* Fetcher, for any number of downloads, slots and retries, and files of   *)
(* any length: the slots are counted and given back as those of SlotPool,  *)
(* and a resume keeps every block in its place.                            *)
(*                                                                         *)
(* DownloadQueue: its variables keep their types, no job is stuck in       *)
(* progress, resumed pieces are in their places, and what was verified is  *)
(* whole, for any jobs, URLs, destinations, lengths, reloads, restarts and *)
(* faults.                                                                 *)
(***************************************************************************)
EXTENDS Fetcher, DownloadQueue, FiniteSetTheorems, SequenceTheorems, TLAPS

-----------------------------------------------------------------------------
(* The fetcher                                                             *)

USE FetcherAssumption

\* An error page is a content in which every block is junk.
LEMMA PagePlaced ==
    ASSUME NEW n \in 0 .. MaxErrorBody
    PROVE  Placed(Page(n))
BY IsASeq DEF Placed, Page, Junk

\* The part of the remote file a resume appends continues what is there.
LEMMA AppendPlaced ==
    ASSUME NEW part, Placed(part), NEW m \in Len(part) .. RemoteLength
    PROVE  LET new == part \o SubSeq(File, Len(part) + 1, m)
           IN  Placed(new) /\ Len(new) = m
<1> DEFINE k == Len(part)
           rest == SubSeq(File, k + 1, m)
           new == part \o rest
<1>1. k \in Nat /\ m \in Nat /\ k <= m /\ m <= RemoteLength
  BY LenProperties DEF Placed
<1>2. \A i \in k + 1 .. m : File[i] = i /\ File[i] \in 0 .. RemoteLength
  BY <1>1 DEF File
<1>3. /\ rest \in Seq(0 .. RemoteLength)
      /\ Len(rest) = IF k + 1 <= m THEN m - (k + 1) + 1 ELSE 0
      /\ \A i \in 1 .. m - (k + 1) + 1 : rest[i] = File[k + 1 + i - 1]
  BY <1>1, <1>2, SubSeqProperties
<1>4. Len(rest) = m - k /\ \A i \in 1 .. m - k : rest[i] = k + i
  BY <1>1, <1>2, <1>3
<1>5. /\ new \in Seq(0 .. RemoteLength) /\ Len(new) = k + Len(rest)
      /\ \A i \in 1 .. k + Len(rest) :
           new[i] = IF i <= k THEN part[i] ELSE rest[i - k]
  BY <1>3, ConcatProperties DEF Placed
<1>6. ASSUME NEW i \in 1 .. Len(new) PROVE new[i] \in {i, Junk}
  <2>1. CASE i <= k
    BY <1>1, <1>4, <1>5, <2>1 DEF Placed
  <2>2. CASE i > k
    <3>1. i - k \in 1 .. m - k /\ k + (i - k) = i
      BY <1>1, <1>4, <1>5, <2>2
    <3>2. new[i] = rest[i - k]
      BY <1>1, <1>4, <1>5, <2>2
    <3> QED
      BY <1>4, <3>1, <3>2
  <2> QED
    BY <1>1, <1>4, <1>5, <2>1, <2>2
<1> QED
  BY <1>1, <1>4, <1>5, <1>6 DEF Placed

\* The remote file itself, which a fresh transfer leaves.
LEMMA FilePlaced == Placed(File) /\ Len(File) = RemoteLength
BY IsASeq DEF Placed, File

\* Whatever a transfer does to a well placed content leaves one, and a
\* transfer reported as a success leaves it empty or complete.
LEMMA OutcomePlaced ==
    ASSUME NEW part, Placed(part), NEW out \in CurlOutcomes(part)
    PROVE  /\ Placed(out.dest)
           /\ out.status \in Successes /\ out.dest # <<>>
              => Len(out.dest) = RemoteLength
           /\ out.status \in Errors \cup Successes \cup {Lost}
<1> DEFINE k == Len(part)
<1>0. k \in Nat
  BY LenProperties DEF Placed
<1>1. CASE \E m \in k .. RemoteLength :
             out = [dest |-> part \o SubSeq(File, k + 1, m), status |-> Lost]
  BY <1>1, AppendPlaced DEF Lost, Successes
<1>2. CASE out = [dest |-> part, status |-> Lost]
  BY <1>2 DEF Lost, Successes
<1>3. CASE out = [dest |-> File, status |-> "200"]
  BY <1>3, FilePlaced DEF Successes
<1>4. CASE out = [dest |-> <<>>, status |-> "200"]
  BY <1>4, EmptySeq DEF Successes, Placed
<1>5. CASE \E n \in 0 .. MaxErrorBody, s \in Errors :
             out = [dest |-> Page(n), status |-> s]
  BY <1>5, PagePlaced DEF Errors, Successes
<1>6. CASE \E s \in Errors : out = [dest |-> part, status |-> s]
  BY <1>6 DEF Errors, Successes
<1>7. CASE /\ k < RemoteLength
           /\ out = [dest |-> part \o SubSeq(File, k + 1, RemoteLength),
                     status |-> "206"]
  BY <1>0, <1>7, AppendPlaced DEF Successes
<1>8. CASE k = RemoteLength /\ out = [dest |-> part, status |-> "200"]
  BY <1>8 DEF Successes
<1> QED
  <2> DEFINE broken == {[dest |-> part \o SubSeq(File, k + 1, m),
                         status |-> Lost] : m \in k .. RemoteLength}
                       \cup {[dest |-> part, status |-> Lost]}
             fresh == {[dest |-> File, status |-> "200"],
                       [dest |-> <<>>, status |-> "200"]}
                      \cup {[dest |-> Page(n), status |-> s] :
                               n \in 0 .. MaxErrorBody, s \in Errors}
             tail == [dest |-> part \o SubSeq(File, k + 1, RemoteLength),
                      status |-> "206"]
             complete == [dest |-> part, status |-> "200"]
             resumed == {[dest |-> part, status |-> s] : s \in Errors}
                        \cup (IF k < RemoteLength THEN {tail} ELSE {})
                        \cup (IF k = RemoteLength THEN {complete} ELSE {})
  <2>1. out \in broken \/ out \in fresh \/ out \in resumed
    <3> HIDE DEF fresh, resumed, broken
    <3>1. CurlOutcomes(part) = broken \cup (IF k = 0 THEN fresh ELSE resumed)
      BY DEF CurlOutcomes, broken, fresh, resumed
    <3> QED
      BY <3>1
  <2>2. CASE out \in broken
    BY <2>2, <1>1, <1>2
  <2>3. CASE out \in fresh
    BY <2>3, <1>3, <1>4, <1>5
  <2>4. CASE out \in resumed
    <3>1. CASE out \in {[dest |-> part, status |-> s] : s \in Errors}
      BY <3>1, <1>6
    <3>2. CASE k < RemoteLength /\ out = tail
      BY <3>2, <1>7
    <3>3. CASE k = RemoteLength /\ out = complete
      BY <3>3, <1>8
    <3>4. \/ out \in {[dest |-> part, status |-> s] : s \in Errors}
          \/ k < RemoteLength /\ out = tail
          \/ k = RemoteLength /\ out = complete
      <4> HIDE DEF tail, complete, k
      <4> QED
        BY <2>4
    <3> QED
      BY <3>1, <3>2, <3>3, <3>4
  <2> HIDE DEF broken, fresh, resumed
  <2> QED
    BY <2>1, <2>2, <2>3, <2>4

-----------------------------------------------------------------------------
LEMMA FetchInitTyped == FetchInit => FetchTypeOK /\ PlacesInv
<1> SUFFICES ASSUME FetchInit PROVE FetchTypeOK /\ PlacesInv
  OBVIOUS
<1>1. <<>> \in Seq(0 .. RemoteLength) /\ Len(<<>>) = 0
  BY EmptySeq
<1>2. FetchTypeOK
  BY <1>1 DEF FetchInit, FetchTypeOK
<1>3. PlacesInv
  BY <1>1 DEF FetchInit, PlacesInv, Placed
<1> QED
  BY <1>2, <1>3

\* An attempt keeps types and places, whichever outcome it has.
LEMMA AttemptTyped ==
    ASSUME NEW d \in Downloads, FetchTypeOK, PlacesInv, Attempt(d)
    PROVE  FetchTypeOK' /\ PlacesInv'
<1>1. PICK out \in CurlOutcomes(dest[d]) :
        LET ok == out.status \in Successes /\ out.dest # <<>>
            again == Retryable(out.status) \/ out.status \in Successes
        IN  /\ dest' = [dest EXCEPT ![d] = out.dest]
            /\ \/ ok /\ Conclude(d, "success", "release")
               \/ ~ok /\ again /\ TryAgain(d) /\ Goto(d, "backoff")
               \/ /\ ~ok
                  /\ again => attempt[d] = MaxRetries
                  /\ Conclude(d, Message(out.status), "release")
  BY DEF Attempt
<1>2. /\ Placed(out.dest)
      /\ out.status \in Successes /\ out.dest # <<>>
         => Len(out.dest) = RemoteLength
  BY OutcomePlaced DEF PlacesInv
<1>3. out.dest \in Seq(0 .. RemoteLength)
  BY <1>2 DEF Placed
<1>4. dest' \in [Downloads -> Seq(0 .. RemoteLength)] /\ dest'[d] = out.dest
  BY <1>1, <1>3 DEF FetchTypeOK
<1>5. active' = active /\ pc[d] = "attempt" /\ d \notin ViaRclone
  BY DEF Attempt, FetchTypeOK
<1>6. \A e \in Downloads \ {d} :
        /\ pc'[e] = pc[e] /\ dest'[e] = dest[e] /\ result'[e] = result[e]
  BY <1>1 DEF FetchTypeOK, Conclude, TryAgain, Goto
<1>7. CASE /\ out.status \in Successes /\ out.dest # <<>>
           /\ Conclude(d, "success", "release")
  BY <1>2, <1>4, <1>5, <1>6, <1>7
     DEF FetchTypeOK, PlacesInv, Conclude, Goto
<1>8. CASE TryAgain(d) /\ Goto(d, "backoff")
  <2>1. attempt' \in [Downloads -> 0 .. MaxRetries]
    BY <1>8 DEF FetchTypeOK, TryAgain
  <2>2. result[d] # "success"
    BY <1>5 DEF PlacesInv
  <2> QED
    BY <1>2, <1>4, <1>5, <1>6, <1>8, <2>1, <2>2
       DEF FetchTypeOK, PlacesInv, TryAgain, Goto
<1>9. CASE Conclude(d, Message(out.status), "release")
  <2>1. Message(out.status) \in {"404", "5xx", "other"}
    BY DEF Message
  <2> QED
    BY <1>2, <1>4, <1>5, <1>6, <1>9, <2>1
       DEF FetchTypeOK, PlacesInv, Conclude, Goto
<1> QED
  BY <1>1, <1>7, <1>8, <1>9

LEMMA RcloneTyped ==
    ASSUME NEW d \in Downloads, FetchTypeOK, PlacesInv, RcloneAttempt(d)
    PROVE  FetchTypeOK' /\ PlacesInv'
<1>1. /\ File \in Seq(0 .. RemoteLength) /\ Len(File) = RemoteLength
      /\ Placed(File)
  BY FilePlaced DEF Placed
<1>2. pc[d] = "rclone" /\ active' = active /\ result[d] # "success"
  BY DEF RcloneAttempt, PlacesInv
<1>3. CASE dest' = [dest EXCEPT ![d] = File] /\ Conclude(d, "success", "done")
  BY <1>1, <1>2, <1>3 DEF FetchTypeOK, PlacesInv, Conclude, Goto
<1>4. CASE TryAgain(d) /\ UNCHANGED <<pc, dest>>
  <2>1. attempt' \in [Downloads -> 0 .. MaxRetries]
    BY <1>4 DEF FetchTypeOK, TryAgain
  <2> QED
    BY <1>2, <1>4, <2>1 DEF FetchTypeOK, PlacesInv, TryAgain
<1>5. CASE Conclude(d, "other", "done") /\ UNCHANGED dest
  BY <1>2, <1>5 DEF FetchTypeOK, PlacesInv, Conclude, Goto
<1> QED
  BY <1>3, <1>4, <1>5 DEF RcloneAttempt

\* The type invariant holds of every behaviour, and so does PlacesInv: no
\* call uses more retries than max_retries, and none that went to rclone
\* ever takes a slot.
LEMMA FetchTypedAndPlaced == FetchSpec => [](FetchTypeOK /\ PlacesInv /\ SlotsCounted)
<1> DEFINE Inv == FetchTypeOK /\ PlacesInv /\ SlotsCounted
<1>1. FetchInit => Inv
  <2> SUFFICES ASSUME FetchInit PROVE SlotsCounted
    BY FetchInitTyped
  <2>1. Holders = {}
    BY DEF FetchInit, Holders
  <2> QED
    BY <2>1, FS_EmptySet DEF FetchInit, SlotsCounted
<1>2. Inv /\ [FetchNext]_fetchVars => Inv'
  <2> SUFFICES ASSUME Inv, [FetchNext]_fetchVars PROVE Inv'
    OBVIOUS
  <2>0. IsFiniteSet(Holders) /\ Cardinality(Holders) \in Nat
    BY FS_Subset, FS_CardinalityType DEF Holders
  <2>1. ASSUME NEW d \in Downloads, Call(d) PROVE Inv'
    <3>1. FetchTypeOK' /\ PlacesInv'
      BY <2>1 DEF Call, Goto, FetchTypeOK, PlacesInv
    <3>2. Holders' = Holders
      BY <2>1 DEF Call, Goto, FetchTypeOK, Holders
    <3> QED
      BY <2>1, <3>1, <3>2 DEF Call, SlotsCounted
  <2>2. ASSUME NEW d \in Downloads, Acquire(d) PROVE Inv'
    <3>1. FetchTypeOK' /\ PlacesInv'
      BY <2>2 DEF Acquire, Goto, FetchTypeOK, PlacesInv
    <3>2. Holders' = Holders \cup {d} /\ d \notin Holders
      BY <2>2 DEF Acquire, Goto, FetchTypeOK, Holders
    <3>3. Cardinality(Holders') = Cardinality(Holders) + 1
      BY <2>0, <3>2, FS_AddElement
    <3> QED
      BY <2>2, <3>1, <3>3 DEF Acquire, SlotsCounted, FetchTypeOK
  <2>3. ASSUME NEW d \in Downloads, Attempt(d) PROVE Inv'
    <3>1. FetchTypeOK' /\ PlacesInv'
      BY <2>3, AttemptTyped
    <3>2. Holders' = Holders
      BY <2>3 DEF Attempt, Conclude, TryAgain, Goto, FetchTypeOK, Holders
    <3> QED
      BY <2>3, <3>1, <3>2 DEF Attempt, SlotsCounted
  <2>4. ASSUME NEW d \in Downloads, Backoff(d) PROVE Inv'
    <3>1. FetchTypeOK' /\ PlacesInv'
      BY <2>4 DEF Backoff, Goto, FetchTypeOK, PlacesInv
    <3>2. Holders' = Holders
      BY <2>4 DEF Backoff, Goto, FetchTypeOK, Holders
    <3> QED
      BY <2>4, <3>1, <3>2 DEF Backoff, SlotsCounted
  <2>5. ASSUME NEW d \in Downloads, Release(d) PROVE Inv'
    <3>1. Holders' = Holders \ {d} /\ d \in Holders
      BY <2>5 DEF Release, Goto, FetchTypeOK, Holders
    <3>2. Cardinality(Holders') = Cardinality(Holders) - 1
      BY <2>0, <3>1, FS_RemoveElement
    <3>3. Cardinality(Holders') \in Nat
      BY <2>0, <3>1, FS_RemoveElement, FS_CardinalityType
    <3>4. active' = active - 1 /\ SlotsCounted'
      BY <2>5, <3>2 DEF Release, SlotsCounted, FetchTypeOK
    <3>5. FetchTypeOK' /\ PlacesInv'
      BY <2>5, <3>3, <3>4
         DEF Release, Goto, FetchTypeOK, PlacesInv, SlotsCounted
    <3> QED
      BY <3>4, <3>5
  <2>6. ASSUME NEW d \in Downloads, RcloneAttempt(d) PROVE Inv'
    <3>1. FetchTypeOK' /\ PlacesInv'
      BY <2>6, RcloneTyped
    <3>2. Holders' = Holders
      BY <2>6 DEF RcloneAttempt, Conclude, TryAgain, Goto, FetchTypeOK, Holders
    <3> QED
      BY <2>6, <3>1, <3>2 DEF RcloneAttempt, SlotsCounted
  <2>7. CASE UNCHANGED fetchVars
    BY <2>7 DEF fetchVars, FetchTypeOK, PlacesInv, SlotsCounted, Holders
  <2> QED
    BY <2>1, <2>2, <2>3, <2>4, <2>5, <2>6, <2>7 DEF FetchNext, Run
<1> QED
  BY <1>1, <1>2, PTL DEF FetchSpec

\* No call uses more retries than max_retries allows, and none that went to
\* rclone ever takes a slot or leaves one.
THEOREM FetchTypeCorrect == FetchSpec => []FetchTypeOK
BY FetchTypedAndPlaced, PTL

\* For any number of downloads and slots, _active_downloads is the number of
\* calls that hold a slot and stays within max_concurrent.
THEOREM SlotsAreCounted == FetchSpec => []SlotsCounted
BY FetchTypedAndPlaced, PTL

\* For files of any length and any series of broken transfers, a download
\* that succeeds has every block of the file at its place or an error page
\* in its stead.
THEOREM ResumesKeepPlaces == FetchSpec => []ResumeKeepsPlaces
<1>1. PlacesInv => ResumeKeepsPlaces
  BY DEF PlacesInv, ResumeKeepsPlaces, Placed
<1> QED
  BY <1>1, FetchTypedAndPlaced, PTL

-----------------------------------------------------------------------------
\* Fetcher implements the pool of slots: a call takes one with Acquire, gives
\* it back with Release, and no other step touches it.
THEOREM ImplementsSlotPool == FetchSpec => PoolSpec
<1>1. FetchInit => Pool!Init
  BY DEF FetchInit, Pool!Init, Holders
<1> DEFINE pool == <<MaxConcurrent - active, Holders>>
<1>2. FetchTypeOK /\ SlotsCounted /\ [FetchNext]_fetchVars => [Pool!Next]_pool
  <2> SUFFICES ASSUME FetchTypeOK, SlotsCounted, [FetchNext]_fetchVars
               PROVE  Pool!Next \/ UNCHANGED pool
    OBVIOUS
  <2>1. ASSUME NEW d \in Downloads, Acquire(d) PROVE Pool!Take(d)
    <3>1. Holders' = Holders \cup {d} /\ d \notin Holders
      BY <2>1 DEF Acquire, Goto, FetchTypeOK, Holders
    <3>2. /\ MaxConcurrent - active > 0
          /\ MaxConcurrent - active' = MaxConcurrent - active - 1
      BY <2>1 DEF Acquire, FetchTypeOK
    <3> QED
      BY <3>1, <3>2 DEF Pool!Take
  <2>2. ASSUME NEW d \in Downloads, Release(d) PROVE Pool!Give(d)
    <3>1. Holders' = Holders \ {d} /\ d \in Holders
      BY <2>2 DEF Release, Goto, FetchTypeOK, Holders
    <3>2. MaxConcurrent - active' = MaxConcurrent - active + 1
      BY <2>2 DEF Release, FetchTypeOK
    <3> QED
      BY <3>1, <3>2 DEF Pool!Give
  <2>3. ASSUME NEW d \in Downloads,
               Call(d) \/ Attempt(d) \/ Backoff(d) \/ RcloneAttempt(d)
        PROVE  UNCHANGED pool
    BY <2>3 DEF Call, Attempt, Backoff, RcloneAttempt, Conclude, TryAgain,
                Goto, FetchTypeOK, Holders
  <2>4. CASE UNCHANGED fetchVars
    BY <2>4 DEF fetchVars, Holders
  <2> QED
    BY <2>1, <2>2, <2>3, <2>4 DEF FetchNext, Run, Pool!Next
<1> QED
  BY <1>1, <1>2, FetchTypedAndPlaced, PTL DEF FetchSpec, PoolSpec, Pool!Spec

HIDE FetcherAssumption

-----------------------------------------------------------------------------
(* The download queue                                                      *)

USE QueueAssumption

\* A transfer that appends, or has opened its destination, finds a file there.
FileThere ==
    \A t \in Threads, j \in Jobs :
        transfer[t][j].append \/ transfer[t][j].state = "open" => file[PathOf[j]] # None

Typed == TypeOK /\ FileThere

-----------------------------------------------------------------------------
(* Lemmas about the operators.                                             *)

LEMMA WrittenTyped ==
    ASSUME NEW f \in Seq(Blocks), NEW n \in Nat \ {0}, NEW b \in Blocks
    PROVE  /\ Written(f, n, b) \in Seq(Blocks)
           /\ Len(Written(f, n, b)) = (IF n > Len(f) THEN n ELSE Len(f))
           /\ \A i \in DOMAIN Written(f, n, b) :
                 Written(f, n, b)[i] = (IF i = n THEN b
                                        ELSE IF i <= Len(f) THEN f[i] ELSE Foreign)
<1>. DEFINE k == IF n > Len(f) THEN n ELSE Len(f)
            g == [i \in 1 .. k |-> IF i = n THEN b ELSE IF i <= Len(f) THEN f[i] ELSE Foreign]
<1>1. k \in Nat
  OBVIOUS
<1>2. \A i \in 1 .. k : g[i] \in Blocks
  BY DEF Blocks
<1>3. g \in [1 .. k -> Blocks]
  BY <1>2
<1>4. g \in Seq(Blocks) /\ Len(g) = k /\ DOMAIN g = 1 .. k
  BY <1>1, <1>3
<1>5. Written(f, n, b) = g
  BY DEF Written
<1>. QED
  BY <1>4, <1>5

LEMMA UpdatedTyped ==
    ASSUME TypeOK, NEW ids, NEW value \in {"in_progress", "completed", "failed"}
    PROVE  Updated(ids, value) \in
               [Jobs -> {"new", "pending", "in_progress", "completed", "failed", "deleted"}]
BY DEF Updated, TypeOK

LEMMA InStateTyped ==
    ASSUME NEW state \in {"todo", "ended"}
    PROVE  InState(state) \in Transfers /\ ~InState(state).append
BY DEF InState, Transfers

\* A batch that only loses jobs stays within the limit.
LEMMA SmallerBatch ==
    ASSUME TypeOK, NEW t \in Threads, NEW ids \in SUBSET batch[t],
           batch' = [batch EXCEPT ![t] = ids]
    PROVE  /\ batch' \in [Threads -> SUBSET Jobs]
           /\ \A s \in Threads : Cardinality(batch'[s]) <= Limit
<1>1. /\ batch \in [Threads -> SUBSET Jobs] /\ IsFiniteSet(batch[t])
      /\ Cardinality(batch[t]) <= Limit
  BY FS_Subset DEF TypeOK
<1>2. Cardinality(ids) <= Cardinality(batch[t]) /\ IsFiniteSet(ids)
  BY <1>1, FS_Subset
<1>3. Cardinality(ids) \in Nat /\ Cardinality(batch[t]) \in Nat
  BY <1>1, <1>2, FS_CardinalityType
<1>4. Cardinality(ids) <= Limit
  BY <1>1, <1>2, <1>3
<1>. QED
  BY <1>1, <1>4 DEF TypeOK

LEMMA EmptyBatch == Cardinality({}) <= Limit
BY FS_EmptySet

LEMMA InitTyped == Init => Typed
<1>. SUFFICES ASSUME Init PROVE Typed
  OBVIOUS
<1>1. file \in [Paths -> Seq(Blocks) \cup {None}]
  <2>1. <<Foreign>> \in Seq(Blocks)
    BY DEF Blocks
  <2>. QED
    BY <2>1 DEF Init
<1>2. transfer \in [Threads -> [Jobs -> Transfers]]
      /\ \A t \in Threads, j \in Jobs : transfer[t][j] = InState("todo")
  BY InStateTyped DEF Init, NoTransfers
<1>3. /\ status \in [Jobs -> {"new", "pending", "in_progress", "completed",
                              "failed", "deleted"}]
      /\ current \in Threads
      /\ phase \in [Threads -> {"idle", "selected", "downloading", "recording"}]
      /\ results \in [Threads -> [Urls -> {"none", "success", "unverified", "failed"}]]
      /\ abandoned \subseteq Jobs /\ shared \subseteq Jobs
      /\ faults \in 0 .. MaxFaults
  BY DEF Init, Threads, NoResults
<1>4. batch \in [Threads -> SUBSET Jobs] /\ \A t \in Threads : Cardinality(batch[t]) <= Limit
  BY EmptyBatch DEF Init
<1>. QED
  BY <1>1, <1>2, <1>3, <1>4, InStateTyped DEF Typed, TypeOK, FileThere, InState

-----------------------------------------------------------------------------
(* Types.                                                                  *)

\* A transfer of thread t for job j comes to r.
Sets(t, j, r) ==
    /\ r \in Transfers
    /\ transfer' \in [Threads -> [Jobs -> Transfers]]
    /\ transfer'[t][j] = r
    /\ \A s \in Threads, k \in Jobs : s # t \/ k # j => transfer'[s][k] = transfer[s][k]

LEMMA SetsTransfer ==
    ASSUME TypeOK, NEW t \in Threads, NEW j \in Jobs, NEW r \in Transfers,
           transfer' = [transfer EXCEPT ![t][j] = r]
    PROVE  Sets(t, j, r)
BY DEF TypeOK, Sets

\* A write changes one file, and none is removed.
Writes(j, f) ==
    /\ f \in Seq(Blocks)
    /\ file' \in [Paths -> Seq(Blocks) \cup {None}]
    /\ file'[PathOf[j]] = f
    /\ \A q \in Paths \ {PathOf[j]} : file'[q] = file[q]
    /\ \A q \in Paths : file[q] # None => file'[q] # None

LEMMA WritesFile ==
    ASSUME TypeOK, NEW j \in Jobs, NEW f \in Seq(Blocks),
           file' = [file EXCEPT ![PathOf[j]] = f]
    PROVE  Writes(j, f)
BY DEF TypeOK, Writes

\* What each step of a transfer does.
LEMMA LookDoes ==
    ASSUME Typed, NEW t \in Threads, NEW j \in Jobs, Look(t, j)
    PROVE  \E r \in Transfers :
              /\ Sets(t, j, r) /\ r.state = "sized"
              /\ r.append => /\ file[PathOf[j]] # None
                             /\ r.offset = Len(file[PathOf[j]])
<1>. DEFINE size == IF file[PathOf[j]] = None THEN 0 ELSE Len(file[PathOf[j]])
            r == [state |-> "sized", offset |-> size, append |-> size > 0]
<1>1. file[PathOf[j]] \in Seq(Blocks) \cup {None}
  BY DEF Typed, TypeOK
<1>2. size \in Nat
  BY <1>1
<1>3. r \in Transfers
  BY <1>2 DEF Transfers
<1>4. Sets(t, j, r)
  BY <1>3, SetsTransfer DEF Look, Typed
<1>5. r.append => file[PathOf[j]] # None /\ r.offset = Len(file[PathOf[j]])
  <2>1. r.append <=> size > 0
    OBVIOUS
  <2>2. size > 0 => file[PathOf[j]] # None /\ size = Len(file[PathOf[j]])
    OBVIOUS
  <2>. QED
    BY <2>1, <2>2, Zenon
<1>. QED
  BY <1>3, <1>4, <1>5

LEMMA OpenFileDoes ==
    ASSUME Typed, NEW t \in Threads, NEW j \in Jobs, OpenFile(t, j)
    PROVE  \E r \in Transfers, f \in Seq(Blocks) :
              /\ Sets(t, j, r) /\ Writes(j, f) /\ r.state = "open"
              /\ r.append = transfer[t][j].append /\ r.offset = transfer[t][j].offset
              /\ f = IF r.append THEN file[PathOf[j]] ELSE <<>>
<1>. DEFINE old == transfer[t][j]
            r == [old EXCEPT !.state = "open"]
            f == IF old.append THEN file[PathOf[j]] ELSE <<>>
<1>1. old \in Transfers /\ file[PathOf[j]] \in Seq(Blocks) \cup {None}
  BY DEF Typed, TypeOK
<1>2. r \in Transfers /\ r.append = old.append /\ r.offset = old.offset /\ r.state = "open"
  BY <1>1 DEF Transfers
<1>3. f \in Seq(Blocks)
  BY <1>1 DEF Typed, FileThere
<1>4. Sets(t, j, r)
  BY <1>2, SetsTransfer DEF OpenFile, Typed
<1>5. Writes(j, f)
  BY <1>3, WritesFile DEF OpenFile, Typed
<1>. QED
  BY <1>2, <1>3, <1>4, <1>5

LEMMA WriteBlockDoes ==
    ASSUME Typed, NEW t \in Threads, NEW j \in Jobs, WriteBlock(t, j)
    PROVE  \E r \in Transfers, n \in Nat \ {0} :
              LET old == file[PathOf[j]]
                  f == Written(old, n, <<UrlOf[j], r.offset>>)
              IN  /\ Sets(t, j, r) /\ Writes(j, f) /\ r.state = "open"
                  /\ old \in Seq(Blocks)
                  /\ r.append = transfer[t][j].append
                  /\ r.offset = transfer[t][j].offset + 1
                  /\ n = IF r.append THEN Len(old) + 1 ELSE r.offset
                  /\ <<UrlOf[j], r.offset>> \in Blocks
<1>. DEFINE old == transfer[t][j]
            r == [old EXCEPT !.offset = old.offset + 1]
            n == IF old.append THEN Len(file[PathOf[j]]) + 1 ELSE old.offset + 1
            b == <<UrlOf[j], r.offset>>
            f == Written(file[PathOf[j]], n, b)
<1>1. old \in Transfers /\ file[PathOf[j]] \in Seq(Blocks)
  BY DEF Typed, TypeOK, FileThere, WriteBlock, Downloading
<1>2. r \in Transfers /\ r.append = old.append /\ r.offset = old.offset + 1
      /\ r.state = "open"
  BY <1>1 DEF Transfers, WriteBlock, Downloading
<1>3. n \in Nat \ {0}
  BY <1>1 DEF Transfers
<1>4. b \in Blocks
  BY <1>1, <1>2 DEF WriteBlock, Blocks, Transfers
<1>5. f \in Seq(Blocks)
  <2>. HIDE DEF n, b
  <2>. QED
    BY <1>1, <1>3, <1>4, WrittenTyped, Zenon
<1>6. Sets(t, j, r)
  BY <1>2, SetsTransfer DEF WriteBlock, Typed
<1>7. Writes(j, f)
  BY <1>2, <1>5, WritesFile DEF WriteBlock, Typed
<1>. QED
  BY <1>1, <1>2, <1>3, <1>4, <1>6, <1>7

LEMMA BreakOffDoes ==
    ASSUME Typed, NEW t \in Threads, NEW j \in Jobs, BreakOff(t, j)
    PROVE  /\ Sets(t, j, InState("todo"))
           /\ \/ UNCHANGED file
              \/ /\ file[PathOf[j]] \in Seq(Blocks) /\ Foreign \in Blocks
                 /\ Writes(j, Written(file[PathOf[j]], 1, Foreign))
<1>1. file[PathOf[j]] \in Seq(Blocks) /\ Foreign \in Blocks
  BY DEF Typed, TypeOK, FileThere, BreakOff, Downloading, Blocks
<1>2. Written(file[PathOf[j]], 1, Foreign) \in Seq(Blocks)
  <2>1. 1 \in Nat \ {0}
    OBVIOUS
  <2>. QED
    BY <1>1, <2>1, WrittenTyped, Zenon
<1>3. Sets(t, j, InState("todo"))
  BY InStateTyped, SetsTransfer DEF BreakOff, Typed
<1>. QED
  BY <1>1, <1>2, <1>3, WritesFile DEF BreakOff, Typed

LEMMA ReturnDoes ==
    ASSUME Typed, NEW t \in Threads, NEW j \in Jobs,
           NEW outcome \in {"success", "unverified", "failed"}, Return(t, j, outcome)
    PROVE  /\ Sets(t, j, InState("ended"))
           /\ results' \in [Threads -> [Urls -> {"none", "success", "unverified", "failed"}]]
           /\ results'[t][UrlOf[j]] # "none"
           /\ results'[t][UrlOf[j]] \in {outcome, results[t][UrlOf[j]]}
           /\ \A s \in Threads, u \in Urls :
                 s # t \/ u # UrlOf[j] => results'[s][u] = results[s][u]
<1>1. Sets(t, j, InState("ended"))
  BY InStateTyped, SetsTransfer DEF Return, Typed
<1>2. results \in [Threads -> [Urls -> {"none", "success", "unverified", "failed"}]]
      /\ UrlOf[j] \in Urls
  BY DEF Typed, TypeOK
<1>3. \/ results' = [results EXCEPT ![t][UrlOf[j]] = outcome]
      \/ results[t][UrlOf[j]] # "none" /\ results' = results
  BY DEF Return
<1>. QED
  BY <1>1, <1>2, <1>3

\* A transfer that comes to r and may write to its file keeps what Typed says of
\* both.
LEMMA TransferTyped ==
    ASSUME Typed, NEW t \in Threads, NEW j \in Jobs, NEW r \in Transfers, Sets(t, j, r),
           file' = file \/ \E f \in Seq(Blocks) : Writes(j, f),
           r.append \/ r.state = "open" => file'[PathOf[j]] # None
    PROVE  /\ transfer' \in [Threads -> [Jobs -> Transfers]]
           /\ file' \in [Paths -> Seq(Blocks) \cup {None}]
           /\ FileThere'
<1>1. /\ file' \in [Paths -> Seq(Blocks) \cup {None}]
      /\ \A q \in Paths : file[q] # None => file'[q] # None
  BY DEF Writes, Typed, TypeOK
<1>2. ASSUME NEW s \in Threads, NEW k \in Jobs,
             transfer'[s][k].append \/ transfer'[s][k].state = "open"
      PROVE  file'[PathOf[k]] # None
  <2>1. CASE s = t /\ k = j
    BY <1>2, <2>1 DEF Sets
  <2>2. CASE s # t \/ k # j
    BY <1>1, <1>2, <2>2 DEF Sets, Typed, FileThere
  <2>. QED
    BY <2>1, <2>2
<1>3. transfer' \in [Threads -> [Jobs -> Transfers]]
  BY DEF Sets
<1>4. FileThere'
  BY <1>2 DEF FileThere
<1>. QED
  BY <1>1, <1>3, <1>4

LEMMA TransfersTyped ==
    ASSUME Typed, NEW t \in Threads, NEW j \in Jobs, Transfer(t, j) \/ BreakOff(t, j)
    PROVE  Typed'
<1>1. PICK r \in Transfers :
        /\ Sets(t, j, r)
        /\ file' = file \/ \E f \in Seq(Blocks) : Writes(j, f)
        /\ r.append \/ r.state = "open" => file'[PathOf[j]] # None
  <2>1. CASE Look(t, j)
    BY <2>1, LookDoes DEF Look
  <2>2. CASE OpenFile(t, j)
    BY <2>2, OpenFileDoes DEF Writes
  <2>3. CASE WriteBlock(t, j)
    BY <2>3, WriteBlockDoes DEF Writes
  <2>4. CASE BreakOff(t, j)
    BY <2>4, BreakOffDoes, InStateTyped DEF Writes, InState
  <2>5. CASE TransferEnds(t, j) \/ TransferFails(t, j)
    <3>1. PICK outcome \in {"success", "unverified", "failed"} : Return(t, j, outcome)
      BY <2>5 DEF TransferEnds, TransferFails
    <3>2. file' = file
      BY <3>1 DEF Return
    <3>. QED
      BY <3>1, <3>2, ReturnDoes, InStateTyped DEF InState
  <2>. QED
    BY <2>1, <2>2, <2>3, <2>4, <2>5 DEF Transfer
<1>2. /\ transfer' \in [Threads -> [Jobs -> Transfers]]
      /\ file' \in [Paths -> Seq(Blocks) \cup {None}]
      /\ FileThere'
  BY <1>1, TransferTyped
<1>3. results' \in [Threads -> [Urls -> {"none", "success", "unverified", "failed"}]]
  <2>1. CASE TransferEnds(t, j) \/ TransferFails(t, j)
    BY <2>1, ReturnDoes DEF TransferEnds, TransferFails
  <2>2. CASE ~(TransferEnds(t, j) \/ TransferFails(t, j))
    BY <2>2 DEF Transfer, Look, OpenFile, WriteBlock, BreakOff, Typed, TypeOK
  <2>. QED
    BY <2>1, <2>2
<1>4. UNCHANGED <<status, current, phase, batch, abandoned, shared>>
  BY DEF Transfer, Look, OpenFile, WriteBlock, BreakOff, TransferEnds, TransferFails, Return
<1>5. faults' \in 0 .. MaxFaults
  BY DEF Transfer, Look, OpenFile, WriteBlock, BreakOff, TransferEnds, TransferFails, Return,
     Typed, TypeOK
<1>. QED
  BY <1>2, <1>3, <1>4, <1>5 DEF Typed, TypeOK

\* Steps that touch neither the files nor the transfers.
LEMMA BatchesTyped ==
    ASSUME Typed, NEW t \in Threads,
           \/ Select(t) \/ Claim(t) \/ ClaimLost(t) \/ ClaimFails(t) \/ BatchFails(t) \/ Rest(t)
           \/ \E j \in Jobs : Progress(t, j) \/ Record(t, j) \/ RecordLost(t, j) \/ RecordFails(t, j)
    PROVE  Typed'
<1>0. TypeOK
  BY DEF Typed
<1>1. UNCHANGED <<file, transfer>>
  BY DEF Select, Claim, ClaimLost, ClaimFails, BatchFails, Progress, Record, RecordLost, RecordFails, Rest
<1>2. FileThere'
  BY <1>1 DEF Typed, FileThere
<1>3. status' \in [Jobs -> {"new", "pending", "in_progress", "completed", "failed", "deleted"}]
  <2>1. CASE Claim(t)
    BY <1>0, <2>1, UpdatedTyped DEF Claim
  <2>2. CASE \E j \in Jobs : Progress(t, j)
    BY <1>0, <2>2, UpdatedTyped DEF Progress
  <2>3. CASE \E j \in Jobs : Record(t, j)
    BY <1>0, <2>3, UpdatedTyped DEF Record
  <2>4. CASE status' = status
    BY <1>0, <2>4 DEF TypeOK
  <2>. QED
    BY <2>1, <2>2, <2>3, <2>4
       DEF Select, ClaimLost, ClaimFails, BatchFails, RecordLost, RecordFails, Rest
<1>4. batch' \in [Threads -> SUBSET Jobs] /\ \A s \in Threads : Cardinality(batch'[s]) <= Limit
  <2>1. CASE Select(t)
    BY <1>0, <2>1 DEF Select, TypeOK
  <2>2. CASE batch' = batch
    BY <1>0, <2>2 DEF TypeOK
  <2>3. CASE \E ids \in SUBSET batch[t] : batch' = [batch EXCEPT ![t] = ids]
    BY <1>0, <2>3, SmallerBatch
  <2>4. Select(t) \/ batch' = batch \/ \E ids \in SUBSET batch[t] :
                                          batch' = [batch EXCEPT ![t] = ids]
    BY DEF Claim, ClaimLost, ClaimFails, BatchFails, Progress, Record, RecordLost, RecordFails, Rest
  <2>. QED
    BY <2>1, <2>2, <2>3, <2>4
<1>5. phase' \in [Threads -> {"idle", "selected", "downloading", "recording"}]
  BY <1>0 DEF Select, Claim, ClaimLost, ClaimFails, BatchFails, Progress, Record, RecordLost, RecordFails, Rest, Enter,
     TypeOK
<1>6. results' \in [Threads -> [Urls -> {"none", "success", "unverified", "failed"}]]
  <2>1. results' = results \/ results' = [results EXCEPT ![t] = NoResults]
    BY DEF Select, Claim, ClaimLost, ClaimFails, BatchFails, Progress, Record, RecordLost, RecordFails, Rest
  <2>. QED
    BY <1>0, <2>1 DEF NoResults, TypeOK
<1>7. abandoned' \subseteq Jobs /\ shared' \subseteq Jobs
  <2>0. batch[t] \subseteq Jobs
    BY <1>0 DEF TypeOK
  <2>1. abandoned' \subseteq abandoned \cup Jobs
    BY <2>0 DEF Select, Claim, ClaimLost, ClaimFails, BatchFails, Progress, Record, RecordLost, RecordFails, Rest,
       InProgress
  <2>2. shared' \subseteq shared \cup Jobs
    <3>1. CASE Select(t)
      BY <3>1 DEF Select
    <3>2. CASE ~Select(t)
      BY <3>2 DEF Claim, ClaimLost, ClaimFails, BatchFails, Progress, Record, RecordLost, RecordFails, Rest
    <3>. QED
      BY <3>1, <3>2
  <2>. QED
    BY <1>0, <2>1, <2>2 DEF TypeOK
<1>8. current' \in Threads /\ faults' \in 0 .. MaxFaults
  <2>1. current' = current
    BY DEF Select, Claim, ClaimLost, ClaimFails, BatchFails, Progress, Record, RecordLost, RecordFails, Rest
  <2>2. faults' = faults \/ (faults < MaxFaults /\ faults' = faults + 1)
    BY DEF Select, Claim, ClaimLost, ClaimFails, BatchFails, Progress, Record, RecordLost, RecordFails, Rest
  <2>. QED
    BY <1>0, <2>1, <2>2 DEF TypeOK
<1>. QED
  BY <1>1, <1>2, <1>3, <1>4, <1>5, <1>6, <1>7, <1>8 DEF Typed, TypeOK

LEMMA NextTyped == Typed /\ [Next]_vars => Typed'
<1>. SUFFICES ASSUME Typed, [Next]_vars PROVE Typed'
  OBVIOUS
<1>0. TypeOK /\ FileThere
  BY DEF Typed
<1>1. ASSUME NEW j \in Jobs, Enqueue(j) \/ RetryJob(j) \/ DeleteJob(j) PROVE Typed'
  BY <1>0, <1>1 DEF Enqueue, RetryJob, DeleteJob, Typed, TypeOK, FileThere
<1>2. ASSUME NEW t \in Threads, BatchEnds(t) PROVE Typed'
  <2>1. /\ transfer' \in [Threads -> [Jobs -> Transfers]]
        /\ \A j \in Jobs : transfer'[t][j] = InState("todo")
        /\ \A s \in Threads \ {t} : transfer'[s] = transfer[s]
    BY <1>0, <1>2, InStateTyped DEF BatchEnds, NoTransfers, TypeOK
  <2>2. FileThere'
    BY <1>0, <1>2, <2>1 DEF BatchEnds, FileThere, InState
  <2>. QED
    BY <1>0, <1>2, <2>1, <2>2 DEF BatchEnds, Typed, TypeOK, Enter
<1>3. ASSUME NEW t \in Threads,
             \/ \E j \in Jobs : Transfer(t, j) \/ BreakOff(t, j)
             \/ Select(t) \/ Claim(t) \/ ClaimLost(t) \/ ClaimFails(t) \/ BatchFails(t) \/ Rest(t)
             \/ \E j \in Jobs : Progress(t, j) \/ Record(t, j) \/ RecordLost(t, j) \/ RecordFails(t, j)
      PROVE  Typed'
  BY <1>3, TransfersTyped, BatchesTyped
<1>4. CASE Reload
  BY <1>0, <1>4 DEF Reload, Typed, TypeOK, FileThere, InProgress, Threads
<1>5. CASE Restart
  <2>1. /\ transfer' \in [Threads -> [Jobs -> Transfers]]
        /\ \A t \in Threads, j \in Jobs : transfer'[t][j] = InState("todo")
    BY <1>5, InStateTyped DEF Restart, NoTransfers
  <2>2. batch' \in [Threads -> SUBSET Jobs] /\ \A t \in Threads : Cardinality(batch'[t]) <= Limit
    BY <1>5, EmptyBatch DEF Restart
  <2>3. abandoned' \subseteq Jobs
    BY <1>0, <1>5 DEF Restart, InProgress, TypeOK
  <2>4. FileThere'
    BY <2>1 DEF FileThere, InState
  <2>5. /\ phase' \in [Threads -> {"idle", "selected", "downloading", "recording"}]
        /\ results' \in [Threads -> [Urls -> {"none", "success", "unverified", "failed"}]]
        /\ current' \in Threads
    BY <1>0, <1>5 DEF Restart, NoResults, TypeOK, Threads
  <2>. QED
    BY <1>0, <1>5, <2>1, <2>2, <2>3, <2>4, <2>5 DEF Restart, Typed, TypeOK
<1>6. CASE UNCHANGED vars
  BY <1>0, <1>6 DEF vars, Typed, TypeOK, FileThere
<1>. QED
  BY <1>1, <1>2, <1>3, <1>4, <1>5, <1>6 DEF Next, Work

\* Every reachable state is one of the declared types, and no thread ever holds
\* more jobs than claim_pending_downloads may select.
THEOREM TypeCorrect == Spec => []TypeOK
<1>1. Typed => TypeOK
  BY DEF Typed
<1>. QED
  BY <1>1, InitTyped, NextTyped, PTL DEF Spec

-----------------------------------------------------------------------------
(* No job is stuck in progress.                                            *)

LEMMA UpdatedIs ==
    ASSUME NEW ids, NEW value, NEW j \in Jobs
    PROVE  Updated(ids, value)[j] = IF j \in ids /\ HasRow(j) THEN value ELSE status[j]
BY DEF Updated

LEMMA TableAccounts ==
    ASSUME TypeOK, InProgressAccountedFor, NEW j \in Jobs,
           Enqueue(j) \/ RetryJob(j) \/ DeleteJob(j)
    PROVE  InProgressAccountedFor'
BY DEF Enqueue, RetryJob, DeleteJob, InProgressAccountedFor, TypeOK

LEMMA LoopAccounts ==
    ASSUME TypeOK, InProgressAccountedFor, NEW t \in Threads,
           \/ Work(t) \/ ClaimFails(t) \/ BatchFails(t)
           \/ \E j \in Jobs : Progress(t, j) \/ BreakOff(t, j) \/ RecordFails(t, j)
    PROVE  InProgressAccountedFor'
<1>. USE DEF InProgressAccountedFor
<1>1. CASE Select(t)
  BY <1>1 DEF Select, Enter, TypeOK
<1>2. CASE Claim(t)
  <2>1. /\ \A j \in Jobs : status'[j] = "in_progress" => status[j] = "in_progress" \/ j \in batch[t]
        /\ phase'[t] = "downloading" /\ \A s \in Threads \ {t} : phase'[s] = phase[s]
        /\ batch' = batch /\ abandoned' = abandoned
    BY <1>2, UpdatedIs DEF Claim, Enter, TypeOK
  <2>. QED
    BY <1>2, <2>1 DEF Claim
<1>3. CASE ClaimFails(t) \/ ClaimLost(t)
  BY <1>3 DEF ClaimFails, ClaimLost, Enter, TypeOK
<1>4. CASE BatchFails(t)
  BY <1>4 DEF BatchFails, Enter, InProgress, TypeOK
<1>5. ASSUME NEW j \in Jobs, Progress(t, j) PROVE InProgressAccountedFor'
  <2>1. PICK k \in batch[t] : status' = Updated({k}, "in_progress")
    BY <1>5 DEF Progress
  <2>2. \A i \in Jobs : status'[i] = "in_progress" => status[i] = "in_progress" \/ i = k
    BY <2>1, UpdatedIs DEF TypeOK
  <2>3. phase[t] = "downloading" /\ t = current /\ UNCHANGED <<current, phase, batch, abandoned>>
    BY <1>5 DEF Progress, Downloading
  <2>. QED
    BY <2>2, <2>3
<1>6. ASSUME NEW j \in Jobs, Record(t, j) PROVE InProgressAccountedFor'
  <2>1. /\ \A k \in Jobs : status'[k] = "in_progress" => status[k] = "in_progress" /\ k # j
        /\ batch'[t] = batch[t] \ {j} /\ \A s \in Threads \ {t} : batch'[s] = batch[s]
        /\ phase' = phase /\ abandoned' = abandoned /\ current' = current /\ t = current
    BY <1>6, UpdatedIs DEF Record, HasRow, TypeOK
  <2>. QED
    BY <2>1
<1>7. ASSUME NEW j \in Jobs, RecordFails(t, j) \/ RecordLost(t, j) PROVE InProgressAccountedFor'
  BY <1>7 DEF RecordFails, RecordLost, InProgress, TypeOK
<1>8. CASE BatchEnds(t)
  BY <1>8 DEF BatchEnds, Enter, TypeOK
<1>9. CASE Rest(t)
  BY <1>9 DEF Rest, Enter, TypeOK
<1>10. ASSUME NEW j \in Jobs, Transfer(t, j) \/ BreakOff(t, j) PROVE InProgressAccountedFor'
  <2>1. UNCHANGED <<status, current, phase, batch, abandoned>>
    BY <1>10 DEF Transfer, Look, OpenFile, WriteBlock, BreakOff, TransferEnds, TransferFails,
       Return
  <2>. QED
    BY <2>1
<1>. QED
  BY <1>1, <1>2, <1>3, <1>4, <1>5, <1>6, <1>7, <1>8, <1>9, <1>10 DEF Work

\* A job that says in_progress is in the hands of the thread that can record
\* its outcome, or was struck there by a crash, a failed batch, a failed
\* statement or a reload: claims, also those a reload undoes, late progress
\* reports, retries, deletions and the threads of earlier reloads get no job
\* stuck (start_download_queue_thread).
THEOREM NoJobIsStuck == Spec => []InProgressAccountedFor
<1>1. Init => Typed /\ InProgressAccountedFor
  <2>1. Init => InProgressAccountedFor
    BY DEF Init, InProgressAccountedFor
  <2>. QED
    BY <2>1, InitTyped
<1>2. Typed /\ InProgressAccountedFor /\ [Next]_vars => (Typed /\ InProgressAccountedFor)'
  <2>. SUFFICES ASSUME Typed, InProgressAccountedFor, [Next]_vars
                PROVE  InProgressAccountedFor'
    BY NextTyped
  <2>0. TypeOK
    BY DEF Typed
  <2>1. CASE Reload \/ UNCHANGED vars
    BY <2>0, <2>1 DEF Reload, vars, InProgress, InProgressAccountedFor
  <2>2. CASE Restart
    BY <2>0, <2>2 DEF Restart, InProgress, InProgressAccountedFor
  <2>. QED
    BY <2>0, <2>1, <2>2, TableAccounts, LoopAccounts DEF Next
<1>. QED
  BY <1>1, <1>2, PTL DEF Spec

-----------------------------------------------------------------------------
(* What is in the files.                                                   *)

\* The only job that goes to its place, or even the only one with its URL.
Alone(j) == Exclusive(j) /\ \A k \in Others(j) : UrlOf[k] # UrlOf[j]

BatchesQueued == \A t \in Threads : \A j \in batch[t] : status[j] # "new"

TransfersInBatch ==
    \A t \in Threads, j \in Jobs :
        transfer[t][j].state # "todo" => j \in batch[t] /\ phase[t] = "downloading"

SharedNoted ==
    \A t \in Threads : \A s \in Threads \ {t} : batch[t] \cap batch[s] \subseteq shared

\* A transfer that appends is where the file ends, if nobody else writes to it.
AppendsAtEnd ==
    \A t \in Threads, j \in Jobs :
        /\ Exclusive(j)
        /\ transfer[t][j].state \in {"sized", "open"} /\ transfer[t][j].append
        => transfer[t][j].offset = Len(file[PathOf[j]])

\* What is completed is in no batch, unless two threads had it.
CompletedLeft ==
    \A t \in Threads : \A j \in batch[t] \ shared : status[j] # "completed"

\* The results of a thread are those of the transfers of its batch that ended.
ResultsOfBatch ==
    \A t \in Threads :
        /\ phase[t] \in {"idle", "selected"} => \A u \in Urls : results[t][u] = "none"
        /\ phase[t] = "downloading" =>
              \A u \in Urls : results[t][u] # "none" =>
                  \E j \in batch[t] : UrlOf[j] = u /\ transfer[t][j].state = "ended"

\* A checked job that succeeded alone has its file, and its transfer is over.
SuccessIsWhole ==
    \A t \in Threads : \A j \in Checked \cap batch[t] :
        /\ Alone(j)
        /\ phase[t] \in {"downloading", "recording"}
        /\ results[t][UrlOf[j]] = "success"
        => /\ file[PathOf[j]] = Remote(UrlOf[j])
           /\ phase[t] = "downloading" => transfer[t][j].state = "ended"

Bookkeeping == BatchesQueued /\ TransfersInBatch /\ SharedNoted /\ CompletedLeft
               /\ ResultsOfBatch

IInv ==
    /\ Typed /\ Bookkeeping
    /\ BlocksInPlace /\ AppendsAtEnd /\ SuccessIsWhole /\ VerifiedIsWhole

\* Jobs and their sharing only become more.
Grows ==
    /\ \A j \in Jobs : status[j] # "new" => status'[j] # "new"
    /\ shared \subseteq shared'

LEMMA NextGrows ==
    ASSUME TypeOK, [Next]_vars
    PROVE  Grows
<1>1. ASSUME NEW ids, NEW value \in {"in_progress", "completed", "failed"},
             status' = Updated(ids, value)
      PROVE  \A j \in Jobs : status[j] # "new" => status'[j] # "new"
  BY <1>1, UpdatedIs
<1>2. ASSUME NEW j \in Jobs, Enqueue(j) \/ RetryJob(j) \/ DeleteJob(j) PROVE Grows
  BY <1>2 DEF Enqueue, RetryJob, DeleteJob, Grows, TypeOK
<1>3. ASSUME NEW t \in Threads, Claim(t) PROVE Grows
  BY <1>1, <1>3 DEF Claim, Grows
<1>4. ASSUME NEW t \in Threads, NEW j \in Jobs, Progress(t, j) PROVE Grows
  BY <1>1, <1>4 DEF Progress, Grows
<1>5. ASSUME NEW t \in Threads, NEW j \in Jobs, Record(t, j) PROVE Grows
  <2>1. PICK value \in {"completed", "failed"} : status' = Updated({j}, value)
    BY <1>5 DEF Record
  <2>. QED
    BY <1>1, <1>5, <2>1 DEF Record, Grows
<1>6. ASSUME NEW t \in Threads, Select(t) PROVE Grows
  BY <1>6 DEF Select, Grows
<1>7. ASSUME NEW t \in Threads,
             \/ ClaimLost(t) \/ ClaimFails(t) \/ BatchFails(t) \/ BatchEnds(t) \/ Rest(t)
             \/ \E j \in Jobs : \/ Transfer(t, j) \/ BreakOff(t, j) \/ RecordLost(t, j)
                              \/ RecordFails(t, j)
      PROVE  Grows
  BY <1>7 DEF ClaimLost, ClaimFails, BatchFails, BatchEnds, Rest, Transfer, Look, OpenFile, WriteBlock,
     TransferEnds, TransferFails, Return, BreakOff, RecordLost, RecordFails, Grows
<1>8. CASE Reload \/ Restart \/ UNCHANGED vars
  BY <1>8 DEF Reload, Restart, vars, Grows
<1>. QED
  BY <1>2, <1>3, <1>4, <1>5, <1>6, <1>7, <1>8 DEF Next, Work

LEMMA AloneBefore ==
    ASSUME Grows, NEW j \in Jobs
    PROVE  /\ Exclusive(j)' => Exclusive(j)
           /\ Alone(j)' => Alone(j)
<1>1. Others(j) \subseteq Others(j)'
  BY DEF Grows, Others
<1>. QED
  BY <1>1 DEF Grows, Exclusive, Alone

-----------------------------------------------------------------------------
(* The bookkeeping of batches, step by step.                               *)

LEMMA InitBookkeeping == Init => Bookkeeping
BY InStateTyped DEF Init, Bookkeeping, BatchesQueued, TransfersInBatch, SharedNoted,
   CompletedLeft, ResultsOfBatch, NoTransfers, NoResults, InState

LEMMA TableBooks ==
    ASSUME Typed, Bookkeeping, NEW j \in Jobs, Enqueue(j) \/ RetryJob(j) \/ DeleteJob(j)
    PROVE  Bookkeeping'
<1>1. /\ UNCHANGED <<phase, batch, transfer, results, shared>>
      /\ \A k \in Jobs : status'[k] = "new" => status[k] = "new"
      /\ \A k \in Jobs : status'[k] = "completed" => status[k] = "completed"
  BY DEF Enqueue, RetryJob, DeleteJob, Typed, TypeOK
<1>2. batch \in [Threads -> SUBSET Jobs]
  BY DEF Typed, TypeOK
<1>. QED
  BY <1>1, <1>2 DEF Bookkeeping, BatchesQueued, TransfersInBatch, SharedNoted, CompletedLeft,
     ResultsOfBatch

\* A transfer that goes on, ends or begins again.
LEMMA TransferBooks ==
    ASSUME Typed, Bookkeeping, NEW t \in Threads, NEW j \in Jobs,
           Transfer(t, j) \/ BreakOff(t, j)
    PROVE  Bookkeeping'
<1>1. UNCHANGED <<status, phase, batch, shared>> /\ phase[t] = "downloading" /\ j \in batch[t]
  BY DEF Transfer, Look, OpenFile, WriteBlock, BreakOff, TransferEnds, TransferFails, Return,
     Downloading
<1>2. /\ \A s \in Threads, k \in Jobs : s # t \/ k # j => transfer'[s][k] = transfer[s][k]
      /\ transfer[t][j].state # "ended"
  <2>1. \E r \in Transfers : Sets(t, j, r)
    BY LookDoes, OpenFileDoes, WriteBlockDoes, BreakOffDoes, ReturnDoes, InStateTyped
       DEF Transfer, TransferEnds, TransferFails
  <2>2. transfer[t][j].state # "ended"
    BY DEF Transfer, Look, OpenFile, WriteBlock, BreakOff, TransferEnds, TransferFails,
       Downloading
  <2>. QED
    BY <2>1, <2>2 DEF Sets
<1>3. TransfersInBatch'
  BY <1>1, <1>2 DEF Bookkeeping, TransfersInBatch
<1>4. \/ results' = results
      \/ /\ transfer'[t][j].state = "ended"
         /\ \A s \in Threads, u \in Urls :
               s # t \/ u # UrlOf[j] => results'[s][u] = results[s][u]
  <2>1. CASE TransferEnds(t, j) \/ TransferFails(t, j)
    BY <2>1, ReturnDoes DEF TransferEnds, TransferFails, Sets, InState
  <2>2. CASE ~(TransferEnds(t, j) \/ TransferFails(t, j))
    BY <2>2 DEF Transfer, Look, OpenFile, WriteBlock, BreakOff
  <2>. QED
    BY <2>1, <2>2
<1>5. ResultsOfBatch'
  <2>1. \A s \in Threads, u \in Urls :
          results'[s][u] = results[s][u] \/ (s = t /\ u = UrlOf[j] /\ transfer'[t][j].state = "ended")
    BY <1>4
  <2>2. \A s \in Threads : batch[s] \subseteq Jobs
    BY DEF Typed, TypeOK
  <2>. QED
    BY <1>1, <1>2, <2>1, <2>2 DEF Bookkeeping, ResultsOfBatch
<1>. QED
  BY <1>1, <1>3, <1>5 DEF Bookkeeping, BatchesQueued, SharedNoted, CompletedLeft

LEMMA LoopBooks ==
    ASSUME Typed, Bookkeeping, NEW t \in Threads,
           \/ Select(t) \/ Claim(t) \/ ClaimLost(t) \/ ClaimFails(t) \/ BatchFails(t) \/ BatchEnds(t) \/ Rest(t)
           \/ \E j \in Jobs : Progress(t, j) \/ Record(t, j) \/ RecordLost(t, j) \/ RecordFails(t, j)
    PROVE  Bookkeeping'
<1>0. TypeOK /\ \A s \in Threads : batch[s] \subseteq Jobs
  BY DEF Typed, TypeOK
<1>. USE DEF Bookkeeping, BatchesQueued, TransfersInBatch, SharedNoted, CompletedLeft,
             ResultsOfBatch, Enter
<1>1. CASE Select(t)
  <2>1. PICK ids \in SUBSET Jobs :
          /\ \A j \in ids : status[j] = "pending"
          /\ batch' = [batch EXCEPT ![t] = ids]
          /\ shared' = shared \cup {j \in ids : \E s \in Threads \ {t} : j \in batch[s]}
    BY <1>1 DEF Select
  <2>2. /\ batch'[t] = ids /\ \A s \in Threads \ {t} : batch'[s] = batch[s]
        /\ phase[t] = "idle" /\ phase'[t] = "selected"
        /\ \A s \in Threads \ {t} : phase'[s] = phase[s]
        /\ UNCHANGED <<status, transfer, results>>
    BY <1>0, <1>1, <2>1 DEF Select, TypeOK
  <2>3. SharedNoted'
    <3>1. ASSUME NEW s \in Threads, NEW q \in Threads \ {s}, NEW j,
                 j \in batch'[s], j \in batch'[q]
          PROVE  j \in shared'
      <4>1. CASE s = t
        BY <2>1, <2>2, <3>1, <4>1
      <4>2. CASE q = t
        BY <2>1, <2>2, <3>1, <4>2
      <4>3. CASE s # t /\ q # t
        BY <2>1, <2>2, <3>1, <4>3
      <4>. QED
        BY <4>1, <4>2, <4>3
    <3>. QED
      BY <3>1
  <2>4. TransfersInBatch'
    BY <1>0, <2>2
  <2>5. BatchesQueued' /\ CompletedLeft'
    BY <2>1, <2>2
  <2>6. ResultsOfBatch'
    BY <2>2
  <2>. QED
    BY <2>3, <2>4, <2>5, <2>6
<1>2. CASE Claim(t)
  <2>1. /\ \A j \in Jobs : status[j] # "new" => status'[j] # "new"
        /\ \A j \in Jobs : status'[j] = "completed" => status[j] = "completed"
    BY <1>2, UpdatedIs DEF Claim
  <2>2. /\ phase[t] = "selected" /\ phase'[t] = "downloading"
        /\ \A s \in Threads \ {t} : phase'[s] = phase[s]
        /\ UNCHANGED <<batch, transfer, results, shared>>
    BY <1>0, <1>2 DEF Claim, TypeOK
  <2>. QED
    BY <1>0, <2>1, <2>2
<1>3. CASE ClaimFails(t) \/ BatchFails(t)
  <2>1. /\ batch'[t] = {} /\ \A s \in Threads \ {t} : batch'[s] = batch[s]
        /\ phase'[t] = "idle" /\ \A s \in Threads \ {t} : phase'[s] = phase[s]
        /\ UNCHANGED <<status, transfer, results, shared>>
    BY <1>0, <1>3 DEF ClaimFails, BatchFails, TypeOK
  <2>2. \A j \in Jobs : transfer[t][j].state = "todo"
    BY <1>3 DEF ClaimFails, BatchFails
  <2>3. \A u \in Urls : results[t][u] = "none"
    BY <1>3, <2>2 DEF ClaimFails, BatchFails
  <2>. QED
    BY <1>0, <2>1, <2>2, <2>3
<1>8. CASE ClaimLost(t)
  <2>1. /\ batch'[t] \subseteq batch[t] /\ \A s \in Threads \ {t} : batch'[s] = batch[s]
        /\ phase[t] = "selected" /\ phase'[t] \in {"idle", "downloading"}
        /\ \A s \in Threads \ {t} : phase'[s] = phase[s]
        /\ UNCHANGED <<status, transfer, results, shared>>
    BY <1>0, <1>8 DEF ClaimLost, TypeOK
  <2>. QED
    BY <1>0, <2>1
<1>4. CASE BatchEnds(t)
  <2>1. /\ phase'[t] = "recording" /\ \A s \in Threads \ {t} : phase'[s] = phase[s]
        /\ \A j \in Jobs : transfer'[t][j].state = "todo"
        /\ \A s \in Threads \ {t} : transfer'[s] = transfer[s]
        /\ UNCHANGED <<status, batch, results, shared>>
    BY <1>0, <1>4 DEF BatchEnds, NoTransfers, InState, TypeOK
  <2>. QED
    BY <1>0, <2>1
<1>5. CASE Rest(t)
  <2>1. /\ phase[t] = "recording"
        /\ phase'[t] = "idle" /\ \A s \in Threads \ {t} : phase'[s] = phase[s]
        /\ \A u \in Urls : results'[t][u] = "none"
        /\ \A s \in Threads \ {t} : results'[s] = results[s]
        /\ UNCHANGED <<status, batch, transfer, shared>>
    BY <1>0, <1>5 DEF Rest, NoResults, TypeOK
  <2>. QED
    BY <1>0, <2>1
<1>6. ASSUME NEW j \in Jobs, Progress(t, j) PROVE Bookkeeping'
  <2>1. PICK k \in batch[t] : status' = Updated({k}, "in_progress")
    BY <1>6 DEF Progress
  <2>2. /\ \A i \in Jobs : status[i] # "new" => status'[i] # "new"
        /\ \A i \in Jobs : status'[i] = "completed" => status[i] = "completed"
    BY <2>1, UpdatedIs
  <2>3. UNCHANGED <<phase, batch, transfer, results, shared>>
    BY <1>6 DEF Progress
  <2>. QED
    BY <1>0, <2>2, <2>3
<1>7. ASSUME NEW j \in Jobs, Record(t, j) \/ RecordLost(t, j) \/ RecordFails(t, j) PROVE Bookkeeping'
  <2>1. /\ phase[t] = "recording" /\ j \in batch[t]
        /\ batch'[t] = batch[t] \ {j} /\ \A s \in Threads \ {t} : batch'[s] = batch[s]
        /\ UNCHANGED <<phase, transfer, results, shared>>
    BY <1>0, <1>7 DEF Record, RecordLost, RecordFails, TypeOK
  <2>2. /\ \A i \in Jobs : status[i] # "new" => status'[i] # "new"
        /\ \A i \in Jobs : status'[i] = "completed" => status[i] = "completed" \/ i = j
    <3>1. CASE Record(t, j)
      <4>1. PICK value \in {"completed", "failed"} : status' = Updated({j}, value)
        BY <3>1 DEF Record
      <4>. QED
        BY <4>1, UpdatedIs
    <3>2. CASE RecordLost(t, j) \/ RecordFails(t, j)
      BY <3>2 DEF RecordLost, RecordFails
    <3>. QED
      BY <1>7, <3>1, <3>2
  <2>3. BatchesQueued' /\ TransfersInBatch' /\ SharedNoted'
    BY <1>0, <2>1, <2>2
  <2>4. ResultsOfBatch'
    BY <1>0, <2>1
  <2>5. CompletedLeft'
    <3>1. ASSUME NEW s \in Threads, j \in batch'[s] PROVE j \in shared'
      BY <2>1, <3>1
    <3>2. \A s \in Threads : batch'[s] \subseteq batch[s]
      BY <2>1
    <3>. QED
      BY <1>0, <2>1, <2>2, <3>1, <3>2
  <2>. QED
    BY <2>3, <2>4, <2>5
<1>. QED
  BY <1>1, <1>2, <1>3, <1>4, <1>5, <1>6, <1>7, <1>8

LEMMA RestartBooks ==
    ASSUME Typed, Bookkeeping, Reload \/ Restart \/ UNCHANGED vars
    PROVE  Bookkeeping'
<1>1. CASE Reload \/ UNCHANGED vars
  BY <1>1 DEF Reload, vars, Bookkeeping, BatchesQueued, TransfersInBatch, SharedNoted,
     CompletedLeft, ResultsOfBatch
<1>2. CASE Restart
  <2>1. \A t \in Threads :
          /\ batch'[t] = {} /\ phase'[t] = "idle"
          /\ \A u \in Urls : results'[t][u] = "none"
          /\ \A j \in Jobs : transfer'[t][j].state = "todo"
    BY <1>2 DEF Restart, NoTransfers, NoResults, InState
  <2>. QED
    BY <2>1 DEF Bookkeeping, BatchesQueued, TransfersInBatch, SharedNoted, CompletedLeft,
       ResultsOfBatch
<1>. QED
  BY <1>1, <1>2

-----------------------------------------------------------------------------
(* The files, step by step.                                                *)

InPlace(j) ==
    file[PathOf[j]] # None =>
        \A i \in DOMAIN file[PathOf[j]] :
            file[PathOf[j]][i] \in {<<UrlOf[j], i>>, Foreign}

AtEnd(t, j) ==
    transfer[t][j].state \in {"sized", "open"} /\ transfer[t][j].append =>
        transfer[t][j].offset = Len(file[PathOf[j]])

LEMMA InPlaceIs == BlocksInPlace <=> \A j \in Jobs : Exclusive(j) => InPlace(j)
BY DEF BlocksInPlace, InPlace

LEMMA AtEndIs == AppendsAtEnd <=> \A t \in Threads, j \in Jobs : Exclusive(j) => AtEnd(t, j)
BY DEF AppendsAtEnd, AtEnd

\* Writing a block of the file, in its place or where the file ends.
LEMMA WriteInPlace ==
    ASSUME Typed, NEW t \in Threads, NEW j \in Jobs, WriteBlock(t, j), InPlace(j), AtEnd(t, j)
    PROVE  InPlace(j)' /\ AtEnd(t, j)'
<1>. DEFINE old == file[PathOf[j]]
<1>1. PICK r \in Transfers, n \in Nat \ {0} :
        /\ Sets(t, j, r) /\ Writes(j, Written(old, n, <<UrlOf[j], r.offset>>))
        /\ old \in Seq(Blocks)
        /\ r.append = transfer[t][j].append /\ r.state = "open"
        /\ r.offset = transfer[t][j].offset + 1
        /\ n = IF r.append THEN Len(old) + 1 ELSE r.offset
        /\ <<UrlOf[j], r.offset>> \in Blocks
  BY WriteBlockDoes
<1>. DEFINE b == <<UrlOf[j], r.offset>>
            f == Written(old, n, b)
<1>2. transfer[t][j].state = "open" /\ transfer[t][j].offset \in Nat
  BY DEF WriteBlock, Downloading, Typed, TypeOK, Transfers
<1>3. n = r.offset
  BY <1>1, <1>2 DEF AtEnd
<1>4. file'[PathOf[j]] = f /\ transfer'[t][j] = r
  BY <1>1 DEF Writes, Sets
<1>5. /\ Len(f) = (IF n > Len(old) THEN n ELSE Len(old))
      /\ \A i \in DOMAIN f : f[i] = (IF i = n THEN b ELSE IF i <= Len(old) THEN old[i] ELSE Foreign)
      /\ f \in Seq(Blocks)
  <2>1. old \in Seq(Blocks) /\ b \in Blocks /\ n \in Nat \ {0}
    BY <1>1
  <2>. HIDE DEF b, old
  <2>2. f = Written(old, n, b)
    OBVIOUS
  <2>. HIDE DEF f
  <2>3. /\ Written(old, n, b) \in Seq(Blocks)
        /\ Len(Written(old, n, b)) = (IF n > Len(old) THEN n ELSE Len(old))
        /\ \A i \in DOMAIN Written(old, n, b) :
                Written(old, n, b)[i] = (IF i = n THEN b
                                         ELSE IF i <= Len(old) THEN old[i] ELSE Foreign)
    BY <2>1, WrittenTyped
  <2>. QED
    BY <2>2, <2>3, Zenon
<1>6. old # None
  BY <1>1
<1>7. \A i \in DOMAIN f : f[i] \in {<<UrlOf[j], i>>, Foreign}
  <2>. SUFFICES ASSUME NEW i \in DOMAIN f PROVE f[i] \in {<<UrlOf[j], i>>, Foreign}
    OBVIOUS
  <2>1. DOMAIN f = 1 .. Len(f) /\ DOMAIN old = 1 .. Len(old)
    BY <1>1, <1>5
  <2>2. CASE i = n
    BY <1>3, <1>5, <2>2
  <2>3. CASE i # n /\ i <= Len(old)
    <3>1. i \in DOMAIN old
      BY <1>1, <2>1, <2>3
    <3>. QED
      BY <1>5, <1>6, <2>3, <3>1 DEF InPlace
  <2>4. CASE i # n /\ ~(i <= Len(old))
    BY <1>5, <2>4
  <2>. QED
    BY <2>2, <2>3, <2>4
<1>8. InPlace(j)'
  <2>. HIDE DEF f
  <2>. QED
    BY <1>4, <1>7 DEF InPlace
<1>9. AtEnd(t, j)'
  <2>1. r.append => Len(f) = r.offset
    BY <1>1, <1>3, <1>5
  <2>. HIDE DEF f
  <2>. QED
    BY <1>4, <2>1 DEF AtEnd
<1>. QED
  BY <1>8, <1>9

LEMMA ErrorInPlace ==
    ASSUME Typed, NEW t \in Threads, NEW j \in Jobs, BreakOff(t, j), InPlace(j)
    PROVE  InPlace(j)' /\ AtEnd(t, j)'
<1>. DEFINE old == file[PathOf[j]]
            f == Written(old, 1, Foreign)
<1>1. transfer'[t][j].state = "todo"
  BY BreakOffDoes DEF Sets, InState
<1>2. AtEnd(t, j)'
  BY <1>1 DEF AtEnd
<1>3. CASE UNCHANGED file
  BY <1>2, <1>3 DEF InPlace
<1>4. CASE old \in Seq(Blocks) /\ Foreign \in Blocks /\ Writes(j, f)
  <2>1. 1 \in Nat \ {0}
    OBVIOUS
  <2>2. /\ f \in Seq(Blocks)
        /\ \A i \in DOMAIN f :
              f[i] = (IF i = 1 THEN Foreign ELSE IF i <= Len(old) THEN old[i] ELSE Foreign)
    <3>1. old \in Seq(Blocks) /\ Foreign \in Blocks
      BY <1>4
    <3>. HIDE DEF old
    <3>. QED
      BY <2>1, <3>1, WrittenTyped
  <2>3. \A i \in DOMAIN f : f[i] \in {<<UrlOf[j], i>>, Foreign}
    <3>. SUFFICES ASSUME NEW i \in DOMAIN f PROVE f[i] \in {<<UrlOf[j], i>>, Foreign}
      OBVIOUS
    <3>1. i \in Nat \ {0} /\ DOMAIN old = 1 .. Len(old) /\ old # None
      BY <1>4, <2>2
    <3>2. CASE i <= Len(old)
      <4>1. i \in DOMAIN old
        BY <1>4, <3>1, <3>2
      <4>. QED
        BY <2>2, <3>1, <3>2, <4>1 DEF InPlace
    <3>3. CASE ~(i <= Len(old))
      BY <2>2, <3>3
    <3>. QED
      BY <3>2, <3>3
  <2>4. file'[PathOf[j]] = f
    BY <1>4 DEF Writes
  <2>5. InPlace(j)'
    <3>. HIDE DEF f
    <3>. QED
      BY <2>3, <2>4 DEF InPlace
  <2>. QED
    BY <1>2, <2>5
<1>. QED
  BY <1>3, <1>4, BreakOffDoes

\* What a step of a transfer does to its own file, when nobody else writes to it.
LEMMA OwnStep ==
    ASSUME Typed, NEW t \in Threads, NEW j \in Jobs, Transfer(t, j) \/ BreakOff(t, j),
           InPlace(j), AtEnd(t, j)
    PROVE  InPlace(j)' /\ AtEnd(t, j)'
<1>1. CASE Look(t, j)
  <2>1. PICK r \in Transfers :
          /\ Sets(t, j, r)
          /\ r.append => r.offset = Len(file[PathOf[j]])
    BY <1>1, LookDoes
  <2>2. transfer'[t][j] = r /\ file' = file
    BY <1>1, <2>1 DEF Sets, Look
  <2>. QED
    BY <2>1, <2>2 DEF InPlace, AtEnd
<1>2. CASE OpenFile(t, j)
  <2>1. PICK r \in Transfers, f \in Seq(Blocks) :
          /\ Sets(t, j, r) /\ Writes(j, f)
          /\ r.append = transfer[t][j].append /\ r.offset = transfer[t][j].offset
          /\ f = IF r.append THEN file[PathOf[j]] ELSE <<>>
    BY <1>2, OpenFileDoes
  <2>2. transfer'[t][j] = r /\ file'[PathOf[j]] = f /\ transfer[t][j].state = "sized"
    BY <1>2, <2>1 DEF Sets, Writes, OpenFile, Downloading
  <2>3. CASE r.append
    <3>1. file'[PathOf[j]] = file[PathOf[j]]
      BY <2>1, <2>2, <2>3
    <3>. QED
      BY <2>1, <2>2, <3>1 DEF InPlace, AtEnd
  <2>4. CASE ~r.append
    <3>1. file'[PathOf[j]] = <<>>
      BY <2>1, <2>2, <2>4
    <3>2. DOMAIN file'[PathOf[j]] = {}
      BY <3>1
    <3>. QED
      BY <2>2, <2>4, <3>2 DEF InPlace, AtEnd
  <2>. QED
    BY <2>3, <2>4
<1>3. CASE WriteBlock(t, j)
  BY <1>3, WriteInPlace
<1>4. CASE BreakOff(t, j)
  BY <1>4, ErrorInPlace
<1>5. CASE TransferEnds(t, j) \/ TransferFails(t, j)
  <2>1. file' = file /\ transfer'[t][j].state = "ended"
    BY <1>5, ReturnDoes DEF TransferEnds, TransferFails, Return, Sets, InState
  <2>. QED
    BY <2>1 DEF InPlace, AtEnd
<1>. QED
  BY <1>1, <1>2, <1>3, <1>4, <1>5 DEF Transfer

\* A success that a step of a transfer files is of a file that is whole.
LEMMA OwnSuccess ==
    ASSUME Typed, NEW t \in Threads, NEW j \in Checked, Transfer(t, j) \/ BreakOff(t, j),
           results[t][UrlOf[j]] # "success", results'[t][UrlOf[j]] = "success"
    PROVE  file'[PathOf[j]] = Remote(UrlOf[j]) /\ transfer'[t][j].state = "ended"
<1>1. TransferEnds(t, j) \/ TransferFails(t, j)
  BY DEF Transfer, Look, OpenFile, WriteBlock, BreakOff
<1>2. CASE TransferFails(t, j)
  <2>1. results'[t][UrlOf[j]] \in {"failed", results[t][UrlOf[j]]}
    BY <1>2, ReturnDoes DEF TransferFails
  <2>. QED
    BY <2>1
<1>3. CASE TransferEnds(t, j)
  <2>. DEFINE outcome == IF j \in Checked /\ file[PathOf[j]] # Remote(UrlOf[j])
                        THEN "unverified" ELSE "success"
  <2>1. Return(t, j, outcome) /\ outcome \in {"success", "unverified", "failed"}
    BY <1>3 DEF TransferEnds
  <2>2. /\ results'[t][UrlOf[j]] \in {outcome, results[t][UrlOf[j]]}
        /\ transfer'[t][j].state = "ended" /\ file' = file
    <3>. HIDE DEF outcome
    <3>1. Sets(t, j, InState("ended"))
      BY <2>1, ReturnDoes, Zenon
    <3>2. results'[t][UrlOf[j]] \in {outcome, results[t][UrlOf[j]]}
      BY <2>1, ReturnDoes, Zenon
    <3>3. file' = file
      BY <2>1 DEF Return
    <3>. QED
      BY <3>1, <3>2, <3>3 DEF Sets, InState
  <2>3. file[PathOf[j]] = Remote(UrlOf[j])
    BY <2>2
  <2>. QED
    BY <2>2, <2>3
<1>. QED
  BY <1>1, <1>2, <1>3

-----------------------------------------------------------------------------
(* The invariant.                                                          *)

LEMMA InitInv == Init => IInv
<1>. SUFFICES ASSUME Init PROVE IInv
  OBVIOUS
<1>1. \A j \in Jobs : file[PathOf[j]] \in {None, <<Foreign>>}
  BY DEF Init
<1>2. \A j \in Jobs : InPlace(j)
  <2>. SUFFICES ASSUME NEW j \in Jobs, file[PathOf[j]] # None PROVE InPlace(j)
    BY DEF InPlace
  <2>1. file[PathOf[j]] = <<Foreign>>
    BY <1>1
  <2>2. \A i \in DOMAIN file[PathOf[j]] : file[PathOf[j]][i] = Foreign
    BY <2>1
  <2>. QED
    BY <2>2 DEF InPlace
<1>3. \A t \in Threads, j \in Jobs : AtEnd(t, j)
  BY DEF Init, NoTransfers, InState, AtEnd
<1>4. SuccessIsWhole /\ VerifiedIsWhole
  BY DEF Init, SuccessIsWhole, VerifiedIsWhole
<1>. QED
  BY <1>2, <1>3, <1>4, InitTyped, InitBookkeeping, InPlaceIs, AtEndIs DEF IInv

\* A step of a transfer.
LEMMA TransferInv ==
    ASSUME IInv, NEW t \in Threads, NEW j \in Jobs, Transfer(t, j) \/ BreakOff(t, j)
    PROVE  IInv'
<1>0. Typed /\ Bookkeeping /\ Typed' /\ Bookkeeping'
  BY TransfersTyped, TransferBooks DEF IInv
<1>1. /\ UNCHANGED <<status, phase, batch, shared>>
      /\ phase[t] = "downloading" /\ j \in batch[t] /\ status[j] # "new"
      /\ transfer[t][j].state # "ended"
  BY <1>0 DEF Transfer, Look, OpenFile, WriteBlock, BreakOff, TransferEnds, TransferFails,
     Return, Downloading, Bookkeeping, BatchesQueued
<1>2. \A i \in Jobs : (Exclusive(i)' <=> Exclusive(i)) /\ (Alone(i)' <=> Alone(i))
  BY <1>1 DEF Exclusive, Alone, Others
<1>3. \A i \in Jobs \ {j} : j \in Others(i)
  BY <1>1 DEF Others
<1>4. /\ \A q \in Paths \ {PathOf[j]} : file'[q] = file[q]
      /\ \A s \in Threads, k \in Jobs : s # t \/ k # j => transfer'[s][k] = transfer[s][k]
  <2>1. \E r \in Transfers : Sets(t, j, r)
    BY <1>0, LookDoes, OpenFileDoes, WriteBlockDoes, BreakOffDoes, ReturnDoes, InStateTyped
       DEF Transfer, TransferEnds, TransferFails
  <2>2. file' = file \/ \E f \in Seq(Blocks) : Writes(j, f)
    <3>1. CASE OpenFile(t, j)
      BY <1>0, <3>1, OpenFileDoes
    <3>2. CASE WriteBlock(t, j)
      <4>1. \E f : Writes(j, f)
        BY <1>0, <3>2, WriteBlockDoes
      <4>. QED
        BY <4>1 DEF Writes
    <3>3. CASE BreakOff(t, j)
      <4>1. file' = file \/ \E f : Writes(j, f)
        BY <1>0, <3>3, BreakOffDoes
      <4>. QED
        BY <4>1 DEF Writes
    <3>4. CASE Look(t, j) \/ TransferEnds(t, j) \/ TransferFails(t, j)
      BY <3>4 DEF Look, TransferEnds, TransferFails, Return
    <3>. QED
      BY <3>1, <3>2, <3>3, <3>4 DEF Transfer
  <2>. QED
    BY <2>1, <2>2 DEF Sets, Writes
<1>5. \A s \in Threads, u \in Urls :
        s # t \/ u # UrlOf[j] => results'[s][u] = results[s][u]
  <2>1. CASE TransferEnds(t, j) \/ TransferFails(t, j)
    BY <1>0, <2>1, ReturnDoes DEF TransferEnds, TransferFails
  <2>2. CASE ~(TransferEnds(t, j) \/ TransferFails(t, j))
    BY <2>2 DEF Transfer, Look, OpenFile, WriteBlock, BreakOff
  <2>. QED
    BY <2>1, <2>2
\* A job that has its place for itself sees nothing of the step but its own.
<1>6. ASSUME NEW i \in Jobs, Exclusive(i), i # j
      PROVE  file'[PathOf[i]] = file[PathOf[i]]
  BY <1>3, <1>4, <1>6 DEF Exclusive
<1>7. Exclusive(j) => \A s \in Threads \ {t} : j \notin batch[s]
  BY <1>0, <1>1 DEF Exclusive, Bookkeeping, SharedNoted
<1>8. Exclusive(j) => InPlace(j)' /\ AtEnd(t, j)'
  <2>. SUFFICES ASSUME Exclusive(j) PROVE InPlace(j)' /\ AtEnd(t, j)'
    OBVIOUS
  <2>1. InPlace(j) /\ AtEnd(t, j)
    BY InPlaceIs, AtEndIs DEF IInv
  <2>. QED
    BY <1>0, <2>1, OwnStep
<1>9. \A i \in Jobs : Exclusive(i)' => InPlace(i)'
  <2>. SUFFICES ASSUME NEW i \in Jobs, Exclusive(i), i # j PROVE InPlace(i)'
    BY <1>2, <1>8
  <2>1. InPlace(i)
    BY InPlaceIs DEF IInv
  <2>. QED
    BY <1>6, <2>1 DEF InPlace
<1>10. \A s \in Threads, i \in Jobs : Exclusive(i)' => AtEnd(s, i)'
  <2>. SUFFICES ASSUME NEW s \in Threads, NEW i \in Jobs, Exclusive(i), i # j \/ s # t
                PROVE  AtEnd(s, i)'
    BY <1>2, <1>8
  <2>1. AtEnd(s, i) /\ transfer'[s][i] = transfer[s][i]
    BY <1>4, AtEndIs DEF IInv
  <2>2. CASE i # j
    BY <1>6, <2>1, <2>2 DEF AtEnd
  <2>3. CASE i = j /\ s # t
    BY <1>0, <1>7, <2>1, <2>3 DEF AtEnd, Bookkeeping, TransfersInBatch
  <2>. QED
    BY <2>2, <2>3
<1>11. SuccessIsWhole'
  <2>. SUFFICES ASSUME NEW s \in Threads, NEW i \in Checked \cap batch[s], Alone(i),
                       phase[s] \in {"downloading", "recording"},
                       results'[s][UrlOf[i]] = "success"
                PROVE  /\ file'[PathOf[i]] = Remote(UrlOf[i])
                       /\ phase[s] = "downloading" => transfer'[s][i].state = "ended"
    BY <1>1, <1>2 DEF SuccessIsWhole
  <2>0. i \in Jobs /\ Exclusive(i) /\ UrlOf[i] \in Urls
    BY DEF Alone
  <2>1. CASE i # j
    <3>1. UrlOf[j] # UrlOf[i]
      BY <1>3, <2>0, <2>1 DEF Alone
    <3>2. results[s][UrlOf[i]] = "success"
      BY <1>5, <2>0, <3>1
    <3>3. /\ file[PathOf[i]] = Remote(UrlOf[i])
          /\ phase[s] = "downloading" => transfer[s][i].state = "ended"
      BY <3>2 DEF IInv, SuccessIsWhole
    <3>. QED
      BY <1>4, <1>6, <2>0, <2>1, <3>3
  <2>2. CASE i = j
    <3>1. s = t
      BY <1>7, <2>0, <2>2
    <3>2. results[t][UrlOf[j]] # "success"
      BY <1>1, <2>2, <3>1 DEF IInv, SuccessIsWhole
    <3>. QED
      BY <1>0, <2>2, <3>1, <3>2, OwnSuccess
  <2>. QED
    BY <2>1, <2>2
<1>12. VerifiedIsWhole'
  <2>. SUFFICES ASSUME NEW i \in Checked, status[i] = "completed", Alone(i)
                PROVE  file'[PathOf[i]] = Remote(UrlOf[i])
    BY <1>1, <1>2 DEF VerifiedIsWhole, Alone, Exclusive, Others
  <2>1. file[PathOf[i]] = Remote(UrlOf[i]) /\ Exclusive(i) /\ i \in Jobs
    BY DEF IInv, VerifiedIsWhole, Alone
  <2>2. i # j
    BY <1>0, <1>1, <2>1 DEF Bookkeeping, CompletedLeft, Exclusive
  <2>. QED
    BY <1>6, <2>1, <2>2
<1>13. BlocksInPlace' /\ AppendsAtEnd'
  BY <1>9, <1>10 DEF BlocksInPlace, InPlace, AppendsAtEnd, AtEnd
<1>. QED
  BY <1>0, <1>11, <1>12, <1>13 DEF IInv

\* A step that leaves the files alone: transfers stay or are forgotten, a batch
\* that goes on loses jobs only and files no results, and what comes to be
\* completed was whole.
LEMMA QuietInv ==
    ASSUME IInv, [Next]_vars, Bookkeeping', file' = file,
           \A t \in Threads, j \in Jobs :
               transfer'[t][j] = transfer[t][j] \/ transfer'[t][j].state = "todo",
           \A t \in Threads : phase'[t] \in {"downloading", "recording"} =>
               \/ \A u \in Urls : results'[t][u] = "none"
               \/ /\ phase[t] \in {"downloading", "recording"}
                  /\ batch'[t] \subseteq batch[t]
                  /\ results'[t] = results[t]
                  /\ phase'[t] = "downloading" =>
                        phase[t] = "downloading" /\ transfer'[t] = transfer[t],
           \A j \in Checked : status'[j] = "completed" /\ Alone(j) =>
               status[j] = "completed" \/ file[PathOf[j]] = Remote(UrlOf[j])
    PROVE  IInv'
<1>1. Typed' /\ Grows
  BY NextTyped, NextGrows DEF IInv, Typed
<1>2. \A j \in Jobs : (Exclusive(j)' => Exclusive(j)) /\ (Alone(j)' => Alone(j))
  BY <1>1, AloneBefore
<1>3. BlocksInPlace'
  BY <1>2 DEF IInv, BlocksInPlace
<1>4. AppendsAtEnd'
  BY <1>2 DEF IInv, AppendsAtEnd
<1>5. SuccessIsWhole'
  <2>. SUFFICES ASSUME NEW t \in Threads, NEW j \in Checked \cap batch'[t], Alone(j)',
                       phase'[t] \in {"downloading", "recording"},
                       results'[t][UrlOf[j]] = "success"
                PROVE  /\ file[PathOf[j]] = Remote(UrlOf[j])
                       /\ phase'[t] = "downloading" => transfer'[t][j].state = "ended"
    BY DEF SuccessIsWhole
  <2>1. Alone(j) /\ UrlOf[j] \in Urls
    BY <1>2
  <2>2. /\ phase[t] \in {"downloading", "recording"}
        /\ batch'[t] \subseteq batch[t] /\ results'[t] = results[t]
        /\ phase'[t] = "downloading" => phase[t] = "downloading" /\ transfer'[t] = transfer[t]
    BY <2>1
  <2>. QED
    BY <2>1, <2>2 DEF IInv, SuccessIsWhole
<1>6. VerifiedIsWhole'
  <2>. SUFFICES ASSUME NEW j \in Checked, status'[j] = "completed", Alone(j)'
                PROVE  file[PathOf[j]] = Remote(UrlOf[j])
    BY DEF VerifiedIsWhole, Alone
  <2>. QED
    BY <1>2 DEF IInv, VerifiedIsWhole, Alone
<1>. QED
  BY <1>1, <1>3, <1>4, <1>5, <1>6 DEF IInv

\* A step of the loop that is not one of a transfer.
LEMMA LoopInv ==
    ASSUME IInv, [Next]_vars, NEW t \in Threads,
           \/ Select(t) \/ Claim(t) \/ ClaimLost(t) \/ ClaimFails(t) \/ BatchFails(t) \/ BatchEnds(t) \/ Rest(t)
           \/ \E j \in Jobs : Progress(t, j) \/ Record(t, j) \/ RecordLost(t, j) \/ RecordFails(t, j)
    PROVE  IInv'
<1>0. Typed /\ TypeOK /\ Bookkeeping /\ Bookkeeping'
  BY LoopBooks DEF IInv, Typed
<1>1. file' = file
  BY DEF Select, Claim, ClaimLost, ClaimFails, BatchFails, BatchEnds, Rest, Progress, Record, RecordLost, RecordFails
<1>2. \/ transfer' = transfer
      \/ BatchEnds(t) /\ transfer' = [transfer EXCEPT ![t] = NoTransfers]
  BY DEF Select, Claim, ClaimLost, ClaimFails, BatchFails, BatchEnds, Rest, Progress, Record, RecordLost, RecordFails
<1>3. \A s \in Threads, j \in Jobs :
        transfer'[s][j] = transfer[s][j] \/ transfer'[s][j].state = "todo"
  <2>1. \A j \in Jobs : NoTransfers[j].state = "todo"
    BY DEF NoTransfers, InState
  <2>2. \A s \in Threads : transfer'[s] = transfer[s] \/ transfer'[s] = NoTransfers
    BY <1>0, <1>2 DEF TypeOK
  <2>. QED
    BY <2>1, <2>2
<1>4. \A s \in Threads \ {t} : /\ phase'[s] = phase[s] /\ batch'[s] = batch[s]
                               /\ results'[s] = results[s] /\ transfer'[s] = transfer[s]
  BY <1>0 DEF Select, Claim, ClaimLost, ClaimFails, BatchFails, BatchEnds, Rest, Progress, Record,
     RecordLost, RecordFails, Enter, TypeOK
<1>5. phase'[t] \in {"downloading", "recording"} =>
        \/ \A u \in Urls : results'[t][u] = "none"
        \/ /\ phase[t] \in {"downloading", "recording"}
           /\ batch'[t] \subseteq batch[t] /\ results'[t] = results[t]
           /\ phase'[t] = "downloading" => phase[t] = "downloading" /\ transfer'[t] = transfer[t]
  <2>1. CASE Select(t) \/ ClaimFails(t) \/ BatchFails(t) \/ Rest(t)
    BY <1>0, <2>1 DEF Select, ClaimFails, BatchFails, Rest, Enter, TypeOK
  <2>2. CASE Claim(t) \/ ClaimLost(t)
    BY <1>0, <2>2 DEF Claim, ClaimLost, Bookkeeping, ResultsOfBatch
  <2>3. CASE BatchEnds(t)
    BY <1>0, <2>3 DEF BatchEnds, Enter, TypeOK
  <2>4. CASE \E j \in Jobs : Progress(t, j) \/ Record(t, j) \/ RecordLost(t, j) \/ RecordFails(t, j)
    BY <1>0, <2>4 DEF Progress, Record, RecordLost, RecordFails, TypeOK
  <2>. QED
    BY <2>1, <2>2, <2>3, <2>4
<1>6. \A j \in Checked : status'[j] = "completed" /\ Alone(j) =>
        status[j] = "completed" \/ file[PathOf[j]] = Remote(UrlOf[j])
  <2>1. ASSUME NEW i \in Jobs, Record(t, i), NEW j \in Checked,
               status'[j] = "completed", Alone(j)
        PROVE  status[j] = "completed" \/ file[PathOf[j]] = Remote(UrlOf[j])
    <3>1. CASE j = i /\ results[t][UrlOf[j]] = "success"
      BY <2>1, <3>1 DEF Record, IInv, SuccessIsWhole
    <3>2. CASE ~(j = i /\ results[t][UrlOf[j]] = "success")
      BY <2>1, <3>2, UpdatedIs DEF Record
    <3>. QED
      BY <3>1, <3>2
  <2>2. CASE \E j \in Jobs : Progress(t, j)
    <3>1. PICK k \in batch[t] : status' = Updated({k}, "in_progress")
      BY <2>2 DEF Progress
    <3>. QED
      BY <3>1, UpdatedIs
  <2>3. CASE Claim(t)
    BY <2>3, UpdatedIs DEF Claim
  <2>4. CASE status' = status
    BY <2>4
  <2>. QED
    BY <2>1, <2>2, <2>3, <2>4
       DEF Select, ClaimLost, ClaimFails, BatchFails, BatchEnds, Rest, RecordLost, RecordFails
<1>. QED
  BY <1>0, <1>1, <1>3, <1>4, <1>5, <1>6, QuietInv

LEMMA NextInv == IInv /\ [Next]_vars => IInv'
<1>. SUFFICES ASSUME IInv, [Next]_vars PROVE IInv'
  OBVIOUS
<1>0. Typed /\ TypeOK /\ Bookkeeping
  BY DEF IInv, Typed
<1>1. ASSUME NEW j \in Jobs, Enqueue(j) \/ RetryJob(j) \/ DeleteJob(j) PROVE IInv'
  <2>1. UNCHANGED <<file, phase, batch, transfer, results>>
    BY <1>1 DEF Enqueue, RetryJob, DeleteJob
  <2>2. \A k \in Jobs : status'[k] = "completed" => status[k] = "completed"
    BY <1>0, <1>1 DEF Enqueue, RetryJob, DeleteJob, TypeOK
  <2>3. Bookkeeping'
    BY <1>0, <1>1, TableBooks
  <2>. QED
    BY <2>1, <2>2, <2>3, QuietInv
<1>2. ASSUME NEW t \in Threads, NEW j \in Jobs, Transfer(t, j) \/ BreakOff(t, j) PROVE IInv'
  BY <1>2, TransferInv
<1>3. ASSUME NEW t \in Threads,
             \/ Select(t) \/ Claim(t) \/ ClaimLost(t) \/ ClaimFails(t) \/ BatchFails(t) \/ BatchEnds(t) \/ Rest(t)
             \/ \E j \in Jobs : Progress(t, j) \/ Record(t, j) \/ RecordLost(t, j) \/ RecordFails(t, j)
      PROVE  IInv'
  BY <1>3, LoopInv
<1>4. CASE Reload \/ UNCHANGED vars
  <2>1. UNCHANGED <<file, status, phase, batch, transfer, results>>
    BY <1>4 DEF Reload, vars
  <2>2. Bookkeeping'
    BY <1>0, <1>4, RestartBooks
  <2>. QED
    BY <2>1, <2>2, QuietInv
<1>5. CASE Restart
  <2>1. /\ UNCHANGED <<file, status>> /\ \A t \in Threads : phase'[t] = "idle"
        /\ \A t \in Threads, j \in Jobs : transfer'[t][j].state = "todo"
    BY <1>5 DEF Restart, NoTransfers, InState
  <2>2. Bookkeeping'
    BY <1>0, <1>5, RestartBooks
  <2>. QED
    BY <2>1, <2>2, QuietInv
<1>. QED
  BY <1>1, <1>2, <1>3, <1>4, <1>5 DEF Next, Work

\* Whatever failed, was retried or was resumed, each piece of the remote file is
\* in its place in the destination, if nobody else was sent there
\* (_download_once).
THEOREM PiecesAreInPlace == Spec => []BlocksInPlace
<1>1. IInv => BlocksInPlace
  BY DEF IInv
<1>. QED
  BY <1>1, InitInv, NextInv, PTL DEF Spec

\* A checked job is completed only with the remote file in its destination, also
\* after reloads, restarts, retries and progress reports that come late, if no
\* other job asks for its URL or goes to its place (batch_download and
\* _update_pending_downloads).
THEOREM CompletedIsVerified == Spec => []VerifiedIsWhole
<1>1. IInv => VerifiedIsWhole
  BY DEF IInv
<1>. QED
  BY <1>1, InitInv, NextInv, PTL DEF Spec
=============================================================================
