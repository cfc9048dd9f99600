------------------------------ MODULE ZipCache ------------------------------
(***************************************************************************)
(* GET of a file inside a zip cachelink, in app/hosting/webdav.py:         *)
(* _handle_zip_download fetches the whole archive and extracts every       *)
(* member into the datadir; _download_single_file fetches one member.  The *)
(* provider's _zip_cache_lock is to keep whole-archive jobs apart.  It is  *)
(* a threading.Lock: it has no owner, and any thread may release it.  A    *)
(* reload builds a new provider, with a lock and with settings of its own, *)
(* while the requests of the old one go on.                                *)
(***************************************************************************)
EXTENDS Naturals, FiniteSets

CONSTANTS
    Requests,   \* GET requests, each issued once
    Archives,   \* remote zip archives
    Size,       \* members of an archive, extracted in order
    MaxProviders,   \* bound: providers built in the life of one process
    None,       \* no file, no row, no path
    Whole,      \* a file with all its bytes
    Torn        \* the digest of a file that lacks some

Paths == Archives \X (1 .. Size)
Providers == 1 .. MaxProviders

ASSUME ZipAssumption ==
    /\ Size \in Nat \ {0}
    /\ MaxProviders \in Nat \ {0}
    /\ None \notin Paths /\ Torn \notin Paths
    /\ None \notin Requests /\ Whole \notin Requests
    /\ None # Whole

States == {"idle", "reserve", "fetch_zip", "check", "extract", "write",
           "fetch_file", "finally", "done", "lost"}
Answers == {"pending", "served", "failed"}

VARIABLES
    oneAtATime,  \* limits.one_zip_cache_at_a_time, by provider
    oversize,    \* archives beyond max_zip_total_gb, by provider
    provider,    \* the provider that new requests get
    locked,      \* providers whose _zip_cache_lock is locked
    datadir,     \* path -> None, Whole, or the last request to truncate it
    checksum,    \* path -> the path whose digest its row has, Torn or None
    zips,        \* requests whose temporary zip exists in the staging area
    needsFull,   \* the target is marked for a full reindex
    pc, path,
    home,        \* the provider of each request
    acquired,    \* local of _handle_zip_download
    fellBack,    \* the request fetches one member after an oversize archive
    next,        \* next member to extract
    answer,
    fell,        \* history: providers of which a request fell back
    stuck        \* history: providers whose lock a request left locked

files == <<datadir, checksum, zips, needsFull>>
conf == <<oneAtATime, oversize>>
built == <<conf, provider>>
local == <<path, home, acquired, fellBack, next>>
history == <<fell, stuck>>
vars == <<built, locked, files, pc, local, answer, history>>

Init ==
    /\ oneAtATime \in [Providers -> BOOLEAN]
    /\ oversize \in [Providers -> SUBSET Archives]
    /\ provider = 1
    /\ locked = {}
    /\ datadir = [p \in Paths |-> None]
    /\ checksum = [p \in Paths |-> None]
    /\ zips = {}
    /\ needsFull = FALSE
    /\ pc = [r \in Requests |-> "idle"]
    /\ path = [r \in Requests |-> None]
    /\ home = [r \in Requests |-> 1]
    /\ acquired = [r \in Requests |-> FALSE]
    /\ fellBack = [r \in Requests |-> FALSE]
    /\ next = [r \in Requests |-> 1]
    /\ answer = [r \in Requests |-> "pending"]
    /\ fell = {}
    /\ stuck = {}

-----------------------------------------------------------------------------
Goto(r, state) == pc' = [pc EXCEPT ![r] = state]

Say(r, outcome) == answer' = [answer EXCEPT ![r] = outcome]

\* The handler is left: its locals are gone.
Leave(r) ==
    /\ Goto(r, "done")
    /\ path' = [path EXCEPT ![r] = None]
    /\ home' = [home EXCEPT ![r] = 1]
    /\ acquired' = [acquired EXCEPT ![r] = FALSE]
    /\ fellBack' = [fellBack EXCEPT ![r] = FALSE]
    /\ next' = [next EXCEPT ![r] = 1]

\* lock.release() where the code has acquired, as r believes, the lock.
UnlockIfAcquired(r) ==
    locked' = IF acquired[r] THEN locked \ {home[r]} ELSE locked

\* ... which raises RuntimeError on a lock that is not locked.
ReleaseRaises(r) == acquired[r] /\ home[r] \notin locked

\* unlink of the temporary zip, whose OSError is swallowed.
MayRemoveZip(r) == zips' \in {zips, zips \ {r}}

\* The handler is left by an exception with the lock as it is.
LeaveLocked(r) ==
    /\ Say(r, "failed")
    /\ Leave(r)
    /\ stuck' = IF acquired[r] THEN stuck \cup {home[r]} ELSE stuck
    /\ UNCHANGED fell

MayMarkForReindex == needsFull' \in {needsFull, TRUE}

-----------------------------------------------------------------------------
\* get_content: a file of the datadir is opened, whatever it holds.
Hit(r) ==
    /\ pc[r] = "idle"
    /\ \E p \in Paths : datadir[p] # None
    /\ Say(r, "served")
    /\ Leave(r)
    /\ UNCHANGED <<built, locked, files, history>>

\* The request found a provider when it looked the application up, the
\* current one or one from before a reload, and misses in the datadir.
Begin(r) ==
    /\ pc[r] = "idle"
    /\ \E p \in Paths :
        /\ datadir[p] = None
        /\ path' = [path EXCEPT ![r] = p]
    /\ \E m \in 1 .. provider : home' = [home EXCEPT ![r] = m]

\* Faulty: the lock is tested and not taken.
MissWithoutLocking(r) ==
    /\ Begin(r)
    /\ Goto(r, IF oneAtATime[home'[r]] /\ home'[r] \in locked
               THEN "fetch_file" ELSE "reserve")
    /\ UNCHANGED <<built, locked, files, acquired, fellBack, next, answer,
                   history>>

\* A miss goes for the whole archive unless the lock of its provider is wanted
\* and taken.
Miss(r) ==
    /\ Begin(r)
    /\ LET m == home'[r]
       IN  IF oneAtATime[m]
           THEN /\ locked' = locked \cup {m}
                /\ acquired' = [acquired EXCEPT ![r] = m \notin locked]
                /\ Goto(r, IF m \in locked THEN "fetch_file" ELSE "reserve")
           ELSE /\ UNCHANGED <<locked, acquired>>
                /\ Goto(r, "reserve")
    /\ UNCHANGED <<built, files, fellBack, next, answer, history>>

Reserve(r) ==
    /\ pc[r] = "reserve"
    /\ zips' = zips \cup {r}
    /\ Goto(r, "fetch_zip")
    /\ UNCHANGED <<built, locked, datadir, checksum, needsFull, local, answer,
                   history>>

\* reserve_tempfile raises, before or after it made the file, outside any try
\* of _handle_zip_download: the lock stays locked, and get_content answers
\* that there is no content.
ReserveFails(r) ==
    /\ pc[r] = "reserve"
    /\ zips' \in {zips, zips \cup {r}}
    /\ LeaveLocked(r)
    /\ UNCHANGED <<built, locked, datadir, checksum, needsFull>>

FetchZip(r) ==
    /\ pc[r] = "fetch_zip"
    /\ Goto(r, "check")
    /\ UNCHANGED <<built, locked, files, local, answer, history>>

\* download_file raises instead of reporting a failure (no pycurl, a URL that
\* urlparse rejects, mkdir of rclone), still outside any try: the lock stays
\* locked and the temporary zip stays.
FetchZipRaises(r) ==
    /\ pc[r] = "fetch_zip"
    /\ LeaveLocked(r)
    /\ UNCHANGED <<built, locked, files>>

\* Faulty: the lock is forgotten when the download fails.
FetchZipFailsLocked(r) ==
    /\ pc[r] = "fetch_zip"
    /\ MayRemoveZip(r)
    /\ MayMarkForReindex
    /\ Say(r, "failed")
    /\ Leave(r)
    /\ UNCHANGED <<built, locked, datadir, checksum, history>>

\* The release comes first: when it raises, nothing else is done.
FetchZipFails(r) ==
    /\ pc[r] = "fetch_zip"
    /\ UnlockIfAcquired(r)
    /\ IF ReleaseRaises(r)
       THEN UNCHANGED <<zips, needsFull>>
       ELSE MayRemoveZip(r) /\ MayMarkForReindex
    /\ Say(r, "failed")
    /\ Leave(r)
    /\ UNCHANGED <<built, datadir, checksum, history>>

\* The archive, or what it unpacks to, is over the limit: the lock is given
\* up, an exception from that is ignored, and one file is fetched instead.
FallBack(r) ==
    /\ pc[r] = "check"
    /\ path[r][1] \in oversize[home[r]]
    /\ MayRemoveZip(r)
    /\ UnlockIfAcquired(r)
    /\ fellBack' = [fellBack EXCEPT ![r] = TRUE]
    /\ fell' = fell \cup {home[r]}
    /\ Goto(r, "fetch_file")
    /\ UNCHANGED <<built, datadir, checksum, needsFull, path, home, acquired,
                   next, answer, stuck>>

\* The member asked for is unpacked for the client, then extraction begins.
BeginExtraction(r) ==
    /\ pc[r] = "check"
    /\ path[r][1] \notin oversize[home[r]]
    /\ Goto(r, "extract")
    /\ UNCHANGED <<built, locked, files, local, answer, history>>

OpenMember(r) ==
    /\ pc[r] = "extract"
    /\ next[r] <= Size
    /\ datadir' = [datadir EXCEPT ![<<path[r][1], next[r]>>] = r]
    /\ Goto(r, "write")
    /\ UNCHANGED <<built, locked, checksum, zips, needsFull, local, answer,
                   history>>

\* Faulty: the last member is closed before its last chunk is written.
CloseLastMemberEarly(r) ==
    /\ pc[r] = "write"
    /\ datadir' = IF next[r] = Size THEN datadir
                  ELSE [datadir EXCEPT ![<<path[r][1], next[r]>>] = Whole]
    /\ next' = [next EXCEPT ![r] = @ + 1]
    /\ Goto(r, "extract")
    /\ UNCHANGED <<built, locked, checksum, zips, needsFull, path, home,
                   acquired, fellBack, answer, history>>

\* The member is written out: complete, unless another job truncated the
\* file after this one opened it.  _record_backend_checksum then hashes that
\* file, but the row it writes, or fails to write, is that of the path the
\* client asked for.
CloseMember(r) ==
    LET p == <<path[r][1], next[r]>>
    IN  /\ pc[r] = "write"
        /\ datadir' = [datadir EXCEPT ![p] = IF @ = r THEN Whole ELSE @]
        /\ checksum' \in {checksum,
                          [checksum EXCEPT ![path[r]] =
                              IF datadir'[p] = Whole THEN p ELSE Torn]}
        /\ next' = [next EXCEPT ![r] = @ + 1]
        /\ Goto(r, "extract")
        /\ UNCHANGED <<built, locked, zips, needsFull, path, home, acquired,
                       fellBack, answer, history>>

\* A broken archive, a full disk: the exception leaves through finally.
ExtractFails(r) ==
    /\ pc[r] \in {"check", "extract", "write"}
    /\ Say(r, "failed")
    /\ Goto(r, "finally")
    /\ UNCHANGED <<built, locked, files, local, history>>

\* Every member is out: the lock is released and acquired reset, or the
\* release raises and the member unpacked for the client is never served.
Finish(r) ==
    /\ pc[r] = "extract"
    /\ next[r] > Size
    /\ UnlockIfAcquired(r)
    /\ IF ReleaseRaises(r)
       THEN Say(r, "failed") /\ UNCHANGED acquired
       ELSE Say(r, "served") /\ acquired' = [acquired EXCEPT ![r] = FALSE]
    /\ Goto(r, "finally")
    /\ UNCHANGED <<built, files, path, home, fellBack, next, history>>

\* _download_single_file: the move into the datadir is that of ReadThrough.
FetchFile(r) ==
    /\ pc[r] = "fetch_file"
    /\ \/ /\ datadir' = [datadir EXCEPT ![path[r]] = Whole]
          /\ checksum' \in {checksum, [checksum EXCEPT ![path[r]] = path[r]]}
          /\ Say(r, "served")
          /\ UNCHANGED needsFull
       \/ /\ Say(r, "failed")
          /\ MayMarkForReindex
          /\ UNCHANGED <<datadir, checksum>>
    /\ IF fellBack[r]
       THEN Goto(r, "finally") /\ UNCHANGED local
       ELSE Leave(r)
    /\ UNCHANGED <<built, locked, zips, history>>

\* The finally clause still sees acquired set where the fallback, or the
\* release that raised, left it.
Finally(r) ==
    /\ pc[r] = "finally"
    /\ MayRemoveZip(r)
    /\ UnlockIfAcquired(r)
    /\ Leave(r)
    /\ UNCHANGED <<built, datadir, checksum, needsFull, answer, history>>

\* The process dies: the providers and their locks, which are memory, go; the
\* files stay.
Crash ==
    /\ \E r \in Requests : pc[r] \notin {"idle", "done", "lost"}
    /\ pc' = [r \in Requests |->
                IF pc[r] \in {"idle", "done", "lost"} THEN pc[r] ELSE "lost"]
    /\ provider' = 1
    /\ locked' = {}
    /\ path' = [r \in Requests |-> None]
    /\ home' = [r \in Requests |-> 1]
    /\ acquired' = [r \in Requests |-> FALSE]
    /\ fellBack' = [r \in Requests |-> FALSE]
    /\ next' = [r \in Requests |-> 1]
    /\ fell' = {}
    /\ stuck' = {}
    /\ UNCHANGED <<conf, files, answer>>

\* WebDAVService.initialize builds a provider.  WebDAVService.stop has nothing
\* to stop: the requests of the old provider keep it, its lock and its
\* settings.
Reload ==
    /\ provider < MaxProviders
    /\ provider' = provider + 1
    /\ UNCHANGED <<conf, locked, files, pc, local, answer, history>>

Handle(r) ==
    \/ Reserve(r) \/ ReserveFails(r)
    \/ FetchZip(r) \/ FetchZipFails(r) \/ FetchZipRaises(r)
    \/ FallBack(r) \/ BeginExtraction(r)
    \/ OpenMember(r) \/ CloseMember(r) \/ ExtractFails(r) \/ Finish(r)
    \/ FetchFile(r) \/ Finally(r)

Next ==
    \/ \E r \in Requests : Hit(r) \/ Miss(r) \/ Handle(r)
    \/ Crash \/ Reload

Spec == Init /\ [][Next]_vars

\* A thread that has a request keeps running; clients need not send any.
FairSpec == Spec /\ \A r \in Requests : WF_vars(Handle(r))

-----------------------------------------------------------------------------
InFlight(r) == pc[r] \notin {"idle", "done", "lost"}

\* Requests that fetch, check or extract a whole archive.
WholeZipJobs ==
    {r \in Requests :
        pc[r] \in {"reserve", "fetch_zip", "check", "extract", "write"}}

\* Variables hold what the code can put in them.
TypeOK ==
    /\ oneAtATime \in [Providers -> BOOLEAN]
    /\ oversize \in [Providers -> SUBSET Archives]
    /\ provider \in Providers
    /\ locked \subseteq Providers
    /\ datadir \in [Paths -> Requests \cup {None, Whole}]
    /\ checksum \in [Paths -> Paths \cup {None, Torn}]
    /\ zips \subseteq Requests
    /\ needsFull \in BOOLEAN
    /\ pc \in [Requests -> States]
    /\ path \in [Requests -> Paths \cup {None}]
    /\ \A r \in Requests : InFlight(r) => path[r] \in Paths
    /\ home \in [Requests -> Providers]
    /\ acquired \in [Requests -> BOOLEAN]
    /\ fellBack \in [Requests -> BOOLEAN]
    /\ next \in [Requests -> 1 .. Size + 1]
    /\ \A r \in Requests : pc[r] = "write" => next[r] <= Size
    /\ answer \in [Requests -> Answers]
    /\ fell \subseteq Providers /\ stuck \subseteq Providers

Of(m) == {r \in Requests : home[r] = m}

\* As long as none of its requests found an archive oversize and fell back, a
\* provider has at most one request at a time at work on a whole archive,
\* whatever fails along the way.  Nothing keeps the requests of two providers
\* apart: after a reload the old one's job may run beside one of the new one.
OneWholeZipJobUnlessFallback ==
    \A m \in Providers :
        oneAtATime[m] /\ m \notin fell
        => \A r, s \in WholeZipJobs \cap Of(m) : r = s

\* A lock that is locked has a request of its provider at work that will
\* release it, unless reserve_tempfile or download_file raised between the
\* acquire and the first try of such a request.
LockHasAHolder ==
    \A m \in locked :
        m \in stuck \/ \E r \in Of(m) : acquired[r] /\ InFlight(r)

\* A member left incomplete in the datadir is being written, or its writer
\* failed or died: two jobs on the same archive never end well and leave a
\* torn file behind.
TornFilesAccountedFor ==
    \A p \in Paths : datadir[p] \in Requests =>
        \/ InFlight(datadir[p])
        \/ pc[datadir[p]] = "lost"
        \/ answer[datadir[p]] = "failed"

\* Unless reserve_tempfile or download_file raises between the acquire and the
\* first try, every lock always comes free again, that of a provider that a
\* reload has replaced included, so that whole archives can be cached after
\* every kind of failure.
LockComesFree ==
    \A m \in Providers :
        [](m \notin stuck) => (m \in locked ~> m \notin locked)

\* The inductive invariants behind OneWholeZipJobUnlessFallback and
\* LockHasAHolder: while nobody of a provider fell back, whoever of it works on
\* a whole archive has the lock, alone; and what keeps the lock locked stays so.
LockInv ==
    \A m \in Providers : oneAtATime[m] /\ m \notin fell =>
        \A r \in Of(m) :
            /\ r \in WholeZipJobs => acquired[r]
            /\ acquired[r] => m \in locked /\ \A s \in Of(m) :
                                                acquired[s] => s = r

HolderInv ==
    /\ LockHasAHolder
    /\ \A r \in Requests :
        /\ acquired[r] => InFlight(r)
        /\ pc[r] = "fetch_file" /\ ~fellBack[r] => ~acquired[r]
=============================================================================
