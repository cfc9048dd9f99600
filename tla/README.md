# CacheInfinity in TLA+

CacheInfinity is a caching file server: it shows remote directory trees
("cachelinks") and local folders in one WebDAV share, downloads a remote file
the first time somebody asks for it and keeps it in the datadir from then on.
This directory holds a TLA+ specification of its concurrent core and of the
services around it, the TLC runs that check it on small instances and TLAPS
proofs of its main properties for all instances. Paths and line numbers are
those of the repository.

## The system

| Part | State | Operations | Works with |
| --- | --- | --- | --- |
| WebDAV read-through (`app/hosting/webdav.py`) | files of the datadir, open handles | GET, PUT, DELETE, one thread per request | staging, fetcher, index database |
| WebDAV tree (same file, `app/cache/cachelinks.py`, `app/storage/datadir.py`) | shares, cachelinks, datadir | lookup, listing, MKCOL, DELETE, COPY, MOVE | listings of the index database |
| Zip cachelinks (same file) | `_zip_cache_lock`, members in the datadir | fetch an archive, extract all members, or fall back to one file | the same |
| Staging area (`app/storage/staging.py`) | temporary files | `reserve_tempfile`; `cleanup_old_files`, which nothing calls | its users |
| Fetcher (`app/net/fetcher.py`) | `_active_downloads`, destination files | `download_file` with slots, resume, retries, rclone | curl, rclone |
| Download queue (`app/net/fetcher.py`, `app/db/dbmanage.py`) | `pending_downloads` | claim, download, progress, result | fetcher, datadir |
| Indexer (`app/net/indexer.py`) | daily budget counters, backoff of domains | pick a due target, cheap check, full reindex | remote servers, index database |
| Availability probe (`app/net/indexer.py`) | none of its own | samples downloads, marks targets | indexer's rows |
| Index database (`app/db/schema.py`, `app/db/adapter.py`, `app/db/backends/`) | index, configuration and account tables, one connection for all threads | one method per table operation, under a lock per manager | SQLite, MariaDB, PostgreSQL |
| Services (`app/core/services.py`, `server.py`) | the context of running services, their threads | initialise, start, stop, reload, reinit, shutdown by signal | all of the above |
| Configuration (`app/core/config.py`, `app/db/backupmgmt.py`) | `config_*` tables, the `Settings` object | update, reload, export, import, bootstrap | index database, administration |
| Administration (`app/ui/`) | sessions of browsers, the page a browser shows | edits of cachelinks and settings, keys, signals | configuration, accounts |
| Accounts (`app/auth/credentials.py`) | `auth_users`, `auth_sessions`, memory of tokens | login, validation, cleanup, default accounts | index database |
| SSH keys and SFTP (`app/auth/credentials.py`, `app/hosting/ftp.py`) | public keys, host keys, text of `authorized_keys` | save, delete, rotate, load, read and write the text | index database |
| TLS, hosting shell, utilities | certificates | library calls, routing, rendering | |

What is hard here:

- request threads share the datadir, the staging area and the checksum table
  without a lock, and a decision made before a download is used after it;
- the zip lock has no owner, is released in five places and is another one after
  a reload, while requests of the old provider go on;
- a transfer may break anywhere, is retried and resumed by file length alone;
- the indexer reads a row, asks a server for up to thirty seconds and writes
  the row back, while other threads mark it, end its transaction half-way or,
  in a reload, close its connection;
- signal handlers rebuild all services in the middle of whatever the main
  thread was doing, while requests and old threads go on;
- all threads share one database connection, so any commit or rollback ends
  what every other thread has begun;
- edits read a whole table, change a copy and write it back;
- a session is in memory and in a table, and each is changed without the other;
- the process may die between any two steps, and nothing cleans up at start.

For each part, what makes it correct:

- read-through: a path shows a whole file of its own, a checksum row belongs to
  its file, an upload is not lost, staging files do not leak;
- tree: what is listed can be opened and the reverse, a listed file can be
  cached, read-only shares stay as they are;
- zip: one whole-archive job of a provider at a time, the lock always comes free, torn
  members are accounted for, checksums are of their files;
- fetcher: never more than `max_concurrent` transfers, no slot is lost, every
  call ends, a success is the remote file;
- indexer: what was seen to have changed stays marked until it is stored,
  budgets hold, listings catch up, servers' wishes are honoured, every target
  gets its turn;
- queue: a job is run once, ends as completed or failed, and never damages a
  file it does not own;
- services: after a reload all services are of one pass, threads can be told to
  stop, requests fail for a reason, the process ends when told to;
- configuration: an acknowledged edit is stored and stays, a save changes what
  it shows only, an import restores what was exported;
- accounts: one session per user, no rejection without a reason, expiry;
- keys: the keys in force were sent together, host keys do not change by
  themselves.

## Modules

| Module | Models | Checked by | Proofs |
| --- | --- | --- | --- |
| `ReadThrough` | GET, PUT, DELETE under a plain-folder cachelink | `MCReadThrough` | `ReadThroughProofs` |
| `ShareTree` | the WebDAV tree: shares, cachelinks, overlays, folders | `MCShareTree` | `FrontendProofs` |
| `Fetcher` | `Fetcher.download_file` | `MCFetcher` | `DownloadProofs` |
| `SlotPool` | abstract: a counting semaphore with holders | as `PoolSpec` of `Fetcher` | `DownloadProofs` |
| `Transfers` | handlers, remotes and options of listings and downloads | `ASSUME`s of `MCFetcher` | |
| `ZipCache` | GET under a zip cachelink | `MCZipCache` | `ZipCacheProofs` |
| `Indexer` | the indexer thread and its tables | `MCIndexer` | `IndexerProofs` |
| `RemoteListing` | parsing, hashing and recording of listings | `ASSUME`s of `MCIndexer` | |
| `Schedule` | turns, pauses and priorities of targets | `MCSchedule` | `ServerProofs` |
| `DownloadQueue` | the queue thread and `pending_downloads` | `MCDownloadQueue` | `DownloadProofs` |
| `Lifecycle` | the services, the main thread and its signals | `MCLifecycle` | `ServerProofs` |
| `ConfigStore` | edits of the configuration as statements and commits | `MCConfigStore` | `ConfigProofs` |
| `Settings` | fields of the configuration on their way round | `MCSettings` | `ConfigProofs` |
| `Sessions` | accounts and session tokens | `MCSessions` | `SessionsProofs` |
| `SshKeys` | user keys, host keys, the virtual `authorized_keys` | `MCSshKeys` | `FrontendProofs` |

**ReadThrough.** `datadir` maps a path to an inode, `data` an inode to its
blocks, so that a handle that is open keeps its file when the name is given to
another. `pc` walks through `CachelinkFileResource.get_content`: the check for
a hit (`GetContentHit`, `GetContentMiss`), the download, `shutil.move` as a
rename or, between filesystems, as a copy block by block, the hash of whatever
then has the name, the row, the open and the response body block by block.
`DatadirFileResource` opens, writes and deletes in the same way and shares the
actions. `Crash` ends every request and leaves disk and tables alone. The
download itself is one step here: what it delivers is the matter of `Fetcher`. It
may fail, after which the staging file is removed, or not if `unlink` fails
(`DownloadFails`), or raise, as `reserve_tempfile` may, after which nothing is
(`DownloadRaises`, `ReserveRaises`).

**Fetcher.** `active` is `_active_downloads`; `Acquire` is a turn of the
polling loop, `Attempt` one `_download_once` with what becomes of its result,
`Release` the `finally` clause. `CurlOutcomes` lists what one transfer can leave
in the file: all, part, nothing or the body of an error reply, and after
`RESUME_FROM` only what libcurl accepts as the range asked for. Calls that
rclone serves take no slot, as in the code. `SlotPool` says what the slots
promise, and `Fetcher` implements it with `free <- MaxConcurrent - active`.

**ZipCache.** `_handle_zip_download` from the lock to the `finally` clause:
`Miss` takes the lock or goes for a single file, `FallBack` gives it up and
leaves `acquired` set, `Finally` releases again. `release` on a free lock raises
(`ReleaseRaises`), and where the code does not catch that, what follows is not
done. `OpenMember` truncates a member in the datadir and `CloseMember`
completes it, unless another job truncated it since. The lock and the limits are
those of a `provider`: `Reload` makes a new one, while a request goes on with the
one it found (`home`). An exception before the first `try` (`ReserveFails`,
`FetchZipRaises`) leaves the handler with the lock as it is (`LeaveLocked`).

**Indexer.** A version number stands for a listing, its hash and its
validators; `row` is the target's row, `job` the locals of `index_target`
between reading the row and writing it back. `StartJob` is
`get_targets_for_indexing` up to the request, `Answer` and `FetchFails` the
request, the `Record...` actions what the answer is made of, `ConsumeBudget`
what `index_all_targets` does last. Time is counted in days. `NewIndexer` is a
reload or a restart: a thread that is still in a job can record nothing any more,
for `stop_all` has closed its connection (`services.py:219-221`).
Hotness, `allow_early_full_on_change` and domain throttling are free choices: a
target is taken early or not, and any due target may be the one taken.
`TearListing` is `update_listing` stopped by `UNIQUE(target_id, path)`:
the deletion and some rows are committed by `mark_failure`. The one connection
is everybody's, so that a commit or a rollback of another thread may fall between
the statements of a record: `RecordUndone`, `ListingUndone` and `ListingExposed`
are what that can leave. Targets whose listing was cut in two are noted in
`disturbed`.

**DownloadQueue.** `status` is the column of `pending_downloads`, `file` the
datadir, which queued downloads are written into directly; `batch`, `transfer`
and `results` are locals of the queue threads. `Select` and `Claim` are the two
statements of `claim_pending_downloads`; `Look`, `OpenFile` and `WriteBlock` are
the transfer with its resume by length; `Progress` is the callback, `Return`
files a result under its URL, and `Record` is one turn of
`_update_pending_downloads`. `Reload` starts a thread beside the old one, which
`stop` waits for one second and whose connection it closes: the old thread goes on
to write files, but what it claims or records is lost (`ClaimLost`,
`RecordLost`). `Restart` loses all threads. The jobs that a failure, a reload or
a restart leaves in progress are noted in `abandoned`, those that two threads had
in `shared`.

**ShareTree.** `disk` says what is at each path of the datadir and who made the
name; `listing` holds the rows of each cachelink. `Resource` is
`get_resource_inst`, `MemberNames` the three `get_member_names`. A request
first gets its resource (`Resolve`, `ResolveParent`, `ResolveBoth`) and then
acts on it in a later step, so the tree may have changed in between; COPY and
MOVE of folders go file by file. `Reindex` stores another listing. A request
notes with `Checks` whether the lookup asks all cachelinks that are there: a file
in the datadir is found before them, a user may lack the permission, and a share
that begins below a cachelink has none of it.

**Schedule.** The thread's loop (`Ask`, `EndTurn`, `Tick`), the order of
`get_targets_for_indexing` (`First`), backoff and Retry-After of targets and
domains (`Delays`, `RunFails`), the cooldown of giant listings and the daily budget.
All times are what is left of them, in ticks of the loop. `health` is a free
choice of servers. What a job stores is in `Indexer`; here a target is due or not.
`Reload` and `Restart` make a new Indexer; after a reload the fetch of the old
thread goes on (`stray`), and its answer is stored nowhere (`StrayEnds`).
`RecordRaises` is a database that refuses the answer.

**RemoteListing, Transfers.** Operators only: what the parsers make of pages and
rows of a server, the hash and the records made of them; which library fetches
and lists a URL and with which options. The MC modules state what they compute
as `ASSUME`s over all small inputs (`VersionsAreListings`, `PagesYieldFiles`,
`InnerAnchorCounts`, `HashTellsRecordsApart`, `FtpDatesAreHashedOnly`,
`AnswersAreRead`; `CachelinkPrevails`, `PreviewTellsTheTruth`,
`RemoteIsNamedTwice`, `HandlersAgree`); the versions of `MCIndexer` are such
listings.

**Lifecycle.** `stack` holds the activations of the main thread: `run_server` at
the bottom, a frame of `_trigger_reload` for each signal that came meanwhile.
`made[s]` is what service s has built, by pass of `initialize_all`, with the
passes of what it was built from, so that a mixture of old and new can be seen.
`InitStore`, `InitRead`, `NewEvent`, `StartThreads`, `StopOne`, `Undo` are the
calls of `ServiceManager`; `InitFails`, `StartFails`, `TLSFails` their exceptions;
`event` and `threads` the stop events and who waits for them. A request looks
the application up (`LookUp`) and works with its database later (`Answer`).
`MCLifecycle` also checks `Resolve`, Kahn's algorithm of `_resolve_order`, on all
graphs of three services and on the fourteen services registered; that its
result orders the services, without which the server does not start, is part of
`LifecycleAssumption`.

**ConfigStore.** `work` is what the one connection sees, `disk` what is committed.
Every statement is a step; `OtherCommit` and `OtherRollback` are other threads.
An edit of a cachelink reads all rows (`ReadLinks`), works on the copy
(`Edit`; of rows of one name any may come first, `Orders`) and deletes, inserts
and commits (`Clear`, `Insert`, `CommitLinks`). An update of the settings goes
from section to section in the order of `Rank`: each has a `stage`, which is to
read what is kept of the old rows, to delete them or to put those of the payload,
row by row (`ReadKept`, `Wipe`, `Put`, `CommitRow`), and all is read back
(`LoadSettings`). An import puts the rows of a backup over those there are
(`RestoreRow`), an export reads section after section (`ReadSection`).
`told` and `asked` are history: what was acknowledged. `aim` is what an update
should make of the tables, `lost` and `mixed` say what came between.

**Settings.** One variable per place where a setting lives: `tables`,
`settings` (the server's object), `page` (the browser's), `doc` and `backup`.
Values are falsy, default or other, which is all that `or` and `||` tell apart.
Each handler is one step and one operator per section: `Load...` from the
tables, `Described` and `Populated` to the page, `Collected` and `Updated...` back,
`Exported...` and `Restored...` through a document. A document is a function of the
sections it has, each of the fields it has (`IsDocument`); a table is a function of
its names. A cookie in a document may have content in `cookie_jar` or encoded
content: `Exportable` and `RestoredCookies` say what becomes of it without the
import of `base64`.

**Sessions.** `rows` is `auth_sessions`, `cache[m]` the memory of the manager made
by start m, so that threads of before a reload go on with theirs. A login
verifies, forgets the user's tokens in memory, deletes their rows, remembers the
new one, stores its row; a validation looks in memory, reads the row, touches
it and puts it into memory: a step each. `superseded`, `lost` and `escaped` are
history: tokens whose user logged in again, whose row was not stored, or that
another login's deletion missed.

**SshKeys.** `keys` has the user's key of each type (`UNIQUE(user_id, key_type)`),
`job` what each administrator or the SFTP event loop is doing to a table, row by
row; `WriteKeys` is a write of a piece of the virtual file. `loading` and `served`
are the host keys the SFTP service is started with. `Kept` is what
`parse_authorized_keys_content` makes of a text, and of several keys of one type
`LastOfType` stays. A statement of a table is
one step: transactions are in `ConfigStore`. Names that would
clash with those of a component proved beside it have a prefix (`SshSpec`, `FetchSpec`).

The modules meet at a few points: `ReadThrough` and `ZipCache` take the result
of `Fetcher` (success, or a message that does or does not name a 404 or a 5xx);
both set the mark that is `MarkNeedsFull` of `Indexer`; `FetchFile` of
`ZipCache` is the install of `ReadThrough` in one step; `GetContent` of
`ShareTree` is the whole of `ReadThrough`'s GET, `Reindex` the `RecordListing` of
`Indexer`; `NewIndexer` of `Indexer`, `Reload` of `Schedule`, `ZipCache`,
`DownloadQueue` and `Sessions` and `ReloadServices` of `ConfigStore` are a reload
of `Lifecycle`, and the `permit` of `Lifecycle` is written by an
administrator; `Settings` and `ConfigStore` are the same handlers, once as
data and once as statements.

## Runs

| Run | Instance | Properties |
| --- | --- | --- |
| `readthrough` | 3 requests, 1 path, 2 blocks, with and without a common volume | `CleanFill`, `CleanReads`, `StagingAccountedFor`, `UploadDisplacedOnlyByOlderMiss` |
| `shares` | 2 requests of any method, a writable and a read-only share with a cachelink each, 2 users, 7 paths | `TypeOK`, `ListingAgrees`, `BlockedOnlyByConflict`, `ProtectedOnlyFills` |
| `fetcher` | 3 downloads, one of them by rclone, fewer slots than downloads | `ResumeKeepsPlaces`, `PoolSpec`, `EveryDownloadEnds` |
| `zip` | 3 requests, 2 providers, one archive of 2 members, with and without the lock | `OneWholeZipJobUnlessFallback`, `TornFilesAccountedFor`, `LockComesFree` |
| `indexing` | 1 target, 4 listings, 3 Indexers, 2 failed fetches or disturbed records | `SeenChangeIsMarked`, `BudgetPerIndexer`, `PlainListingsCatchUp` |
| `schedule` | 3 targets of 2 domains, any servers, 1 failure of server or database, 1 reload or restart | `RetryAfterIsHonoured`, `TurnComes` |
| `queue` | a job of 3 blocks, 2 faults, a reload or restart; a second job with its URL | `InProgressAccountedFor`, `BlocksInPlace`, `VerifiedIsWhole`, `EveryJobSettles` |
| `lifecycle` | 5 services, 2 signals or edits, 1 failure, 1 request, 2 databases | `TypeOK`, `Coherent`, `StopReaches`, `FaultsHaveACause`, `SwitchNeedsPermit`, `ShutdownEnds` |
| `config` | 2 administrators, 2 requests, 1 fault, 3 cachelinks, 3 sections | `ConfigTypeOK`, `AcknowledgedIsStored`, `UpdatesStick` |
| `settings` | 1 administrator, 2 edits of fields, rows or documents | `PageKeepsTheRest`, `ExportRoundTrips` |
| `sessions` | 2 threads, 2 accounts, 2 logins, 2 starts, 1 upset | `OneSessionPerUser`, `RejectedForAReason`, `ExpiredIsOut` |
| `keys` | 1 administrator, 1 SFTP session, texts of 2 lines, 2 types, 4 host keys, 1 failure | `SshTypeOK`, `KeysAreOneUpdate`, `HostKeysStable` |

All of them pass. Where the code does less than one would expect, the property
names the exception, and TLC finds it violated when the exception is dropped.
Each property has a mutant, an operator marked "Faulty:" beside the one it
stands for, that breaks it. The type invariants of the modules whose proofs
have a theorem `TypeCorrect` or `FetchTypeCorrect` are proved and not run.

### Where the code and its documents disagree

Read-through, fetcher, queue:

- A fetch that missed before an upload began moves its file over the completed
  upload (`webdav.py:911`), although "Datadir files always win" (README.md:112-114)
  and "the datadir file takes precedence" (SPEC.md:453).
  `UploadDisplacedOnlyByOlderMiss` shows that this is the only way.
- The body of a retried error reply stays in the destination
  (`fetcher.py:399`), and the resume that follows appends the rest of the remote
  file to it; SPEC.md:1007-1013 asks for resume, retries and the removal of
  temporary files on errors. `ResumeKeepsPlaces` shows the limit of the damage:
  every other block is in its place and the length is right, so no size check
  would notice.
- After a fallback the zip lock is released twice, the second time for somebody
  else (`webdav.py:1162`), so two whole-zip jobs may run, against SPEC.md:1035.
  `OneWholeZipJobUnlessFallback` shows that among the requests of one provider
  the fallback is the only cause. A reload builds a provider with a new lock
  (`services.py:626`, `webdav.py:258`) and does not wait for the requests of the
  old one, so that one job of each may run, without any failure.
- `reserve_tempfile` and `download_file` are called between the acquire and the
  first `try` (`webdav.py:1070-1071`): when one raises (a full disk; no pycurl,
  `fetcher.py:227`; a URL that `urlparse` rejects, 229), the lock stays locked and
  members are fetched one by one until a reload or restart. `LockComesFree`
  shows that no other failure has this effect.
- A staging file is left behind not only by a crash and a failing move, but also
  where the download or the reservation raises (`webdav.py:915`) or `unlink` fails
  (906); SPEC.md:1007-1013 asks for the removal of temporary files on errors.
- A reload closes the connection of the old queue thread (`services.py:219-221`):
  each result it has is refused and the refusal only logged (`dbmanage.py:602`), so
  that without any fault its whole batch stays in progress until somebody retries
  it by hand. `InProgressAccountedFor` shows the other ways.
- Every extracted member's digest goes to the row of the path that was asked for
  (`webdav.py:1146`); `schema.py:1139` calls it the checksum of that file.
- Queued downloads go straight to their place in the datadir
  (`fetcher.py:1116`), not through staging (SPEC.md:958, 1013, `backend.py:1368`).
  `BlocksInPlace` shows that what is seen there is at least the right piece in the
  right place.
- Listings take the rclone remote from the cachelink, downloads from the URL, and
  the queue passes neither handler nor options; an http URL with handler ftp is
  listed by HTTP; `retries` 0 is passed on while other zeros are dropped.

Indexer:

- Full reindexes are conditional requests too (`indexer.py:1028`), so the
  validators a cheap check stored make the server answer 304 and the new listing
  is never stored, against SPEC.md:876 ("Full reindex no less than every 60
  days"). `PlainListingsCatchUp` shows that without validators all is well.
- `update_listing` (`schema.py:822-859`) holds the lock of the index, but not the
  connection: a commit or rollback of another thread among its statements can
  leave a target whose row says that a listing is stored while the old rows, or a
  part of the new ones, are there, and its mark gone. `SeenChangeIsMarked`
  shows that nothing else takes a mark away.
- A target whose first listing keeps failing comes first again before any other
  (a backoff of at most 300 s is shorter than the idle time of 600 s), one that is
  answered 304 takes the whole full budget each day, and giant listings starve
  the others once their number times the idle time reaches the cooldown (six
  with the defaults), against SPEC.md:876, 880 and README.md:47-48. `TurnComes`
  shows that there is no other cause.
- Any status of 400 or more backs off exponentially, SPEC.md:915 names 429 and
  5xx; what a domain asked for is forgotten at a reload, and the Retry-After in an
  answer to a thread from before it is lost, as is one that the database refuses,
  so that the new Indexer may ask the same target at once; rate and concurrency
  limits never bind the single thread; the priority of SPEC.md:909 for indexing
  on demand is not there; the loop may sleep for a day while a reindex request
  waits.
- The availability probe downloads and caches a file, although background probes
  "must never fetch file bytes" (SPEC.md:966, README.md:121).
- Files whose names start with "http" or have at most two characters are never
  listed, nested anchors lose the outer one, HTTP listings have neither sizes nor
  dates, so that content replaced under its name is not noticed, and sizes None
  and 0 hash alike.

Configuration:

- An edit of a cachelink that the database refuses (UNIQUE, `schema.py:467`) has
  already deleted all rows (`schema.py:2626`); nothing rolls back, and the next
  commit of any thread stores the deletion, against README.md:66.
- The policies that `_mutate_share_user` sets are in the payload's shares but not
  in the rows that are written: they are gone after a reload.
- The indexing section is exported and never imported (SPEC.md:272), keys that a
  document leaves out are reset to defaults (SPEC.md:271-273), datadirs not named
  `backend_*` are passed over (`backupmgmt.py:399`), and an export fails with
  KeyError once users are imported (SPEC.md:410-412).
- `backupmgmt.py` uses `base64` at lines 289 and 674 and does not import it (5-11):
  no export succeeds once a cookie has content, and an import passes over every
  `cookies_b64` with a warning that it is invalid. `ExportRoundTrips` is about the
  exports there are, so no cookie with content ever makes the round trip.
- Budget 0 becomes the default, as does 0 in the rclone section; two auth
  providers are reduced to one by saving the page; the page offers challenges the
  code does not know (`settings.html:154`, `config.py:1255`); an old page reverts
  newer changes of the fields it shows; `validate_settings` checks nothing
  (`config.py:1338`).

Accounts and keys:

- With an account named admin disabled, an empty admin set is not filled again
  (`schema.py:1706` promises the default credentials): no administrator is left.
- `/logout` clears the cookie only: the token stays valid until it expires.
- Of two keys of one type only the last is kept (SPEC.md:485, 500); overwriting
  `authorized_keys` with a shorter text leaves the old tail (SPEC.md:485); with
  several shares `.ssh` is listed and cannot be read (SPEC.md:481-484);
  `set_authorized_keys_editable` fails with TypeError (`backend.py:1703`,
  SPEC.md:503); `rotate_host_keys` reports success though saves failed.
- Nothing constructs `FTPService`, and its FTP handlers are made without their
  arguments, so that a start would fail.

### Bounds

- One path, one archive and one target are enough in `readthrough`, `zip` and
  `indexing`: they interact only by the zip locks, the slots and the budgets. Two
  threads that disturb each other on one path and a third that reads or starts a
  third job cover the patterns of the hazards, and symmetry reduces them.
- In `zip` the constraint `MCUpToNames` looks at one order of requests and providers
  that differ by their names only, and goes on only where the rows, the mark and the
  old staging files that no step reads have their first values: the steps that
  write them are taken, what comes after is what comes without them. Two providers
  have the same settings, for they only meet in the datadir.
- Two blocks and two members tell "nothing", "a part" and "all" apart; three
  blocks allow a transfer to be resumed twice.
- Four listings let a change be seen, be stored torn, be too large and be
  followed by a good one; three Indexers give two reloads or restarts; two
  failures or disturbances give a retry time and an update cut in two.
  `MinFull = 1`, `MaxFull = 2` keep "too early", "may be" and "must be" apart.
- `schedule` keeps the order of the code's times (`Base` <= `MaxBackoff` <=
  `IdlePause` < `Cooldown`, a Retry-After longer than the greatest backoff), in ticks.
  Three targets are the least where one starves behind others that take turns.
- In `queue` the constraint `MCOneTrouble` lets the second job appear only before
  the reload and with at most one fault so far: reloads, restarts and two faults
  are looked at with one job. `Limit = 2` does not bind.
- In `keys` the constraint `MCOneTable` works on user keys or host keys, one at a
  time: no property relates them.
- `lifecycle` has five of the fourteen services, one of each kind (one that opens
  connections, one that reads settings, two with threads, the application).
- Paths of at most three names, with a share and a cachelink at the same place,
  have every kind of resource above and below every other.
- `config` has a section of each kind: `limits` of one row, `paths` that is deleted
  and written, `shares` whose users are kept. Two requests overlap in every order of
  their statements, with one fault between any two of them; one of two cachelinks
  in the root clashes with what an import or an edit makes of the other.
- `MaxErrorBody`, `MaxRetries`, `MaxVersion`, `MaxIndexers`, `MaxProviders`, `MaxThreads`,
  `MaxSignals`, `MaxEdits`, `MaxRequests`, `MaxTokens`, `MaxStarts`, `MaxUpsets`, `MaxMade`,
  `MaxRestarts`, `MaxFailures` and `MaxFaults` bound what is unbounded outside;
  every other number is the code's.

### Fairness

`ReadThrough`, `ShareTree`, `ConfigStore`, `Settings`, `Sessions` and `SshKeys` are
checked for safety only. In `Fetcher` and `ZipCache` a thread
that has begun a call keeps running (`WF` on the steps of a call): sleeps end,
and curl gives up by `TIMEOUT` and `LOW_SPEED_TIME`; that a call arrives is not
assumed. A waiting call needs no strong fairness for its slot, because there
are finitely many calls. In `Indexer` the loop of a thread turns for ever
(`start_indexer_thread` catches everything), days pass, and retry times come
(`WF`); because the loop turns many times a day and notes the date and picks a
target in one turn, it does not miss every day (`SF` on `StartJob`). Changes of the
remote listing, marks, failures, other threads' commits and reloads are not fair.
In `DownloadQueue` the loop turns and transfers end
(`WF` on the steps of each thread), for the same reasons; administrators,
failures, progress reports and reloads are not fair.

In `Schedule` time passes, days end, the loop takes its turn and servers
answer (`WF`); failures, reloads and restarts are not fair, nor need a fetch from
before a reload ever end. In `Lifecycle` the main thread
runs (`WF` on `MainThread`); that a background thread ever looks at its event, or
that a request is ever answered, is not assumed.

Deadlock is checked where something can always happen (`Indexer`, `Schedule`,
`Settings`). The others stop when all their requests are done or their bounds are
reached, so their configurations turn the check off;
`EveryDownloadEnds`, `LockComesFree` and `EveryJobSettles` say what it would have said.

## Proofs

For every value of the constants that satisfies the named assumptions:

- `ReadThroughProofs`: `TypeCorrect`, `FillsAreClean`, `ReadsAreClean`,
  `StagingIsAccountedFor`, `UploadsStay`. The invariant is `CleanInv`.
  `CleanFill` alone is not inductive: a rename puts an inode in place that it
  says nothing of. `Ownership` (an inode belongs to the path of the request that
  made it) keeps writes for one path out of others, and `CleanRequest` carries
  "whole" from the download through rename, open, hash and each block served.
  `UploadInv` says that while an upload nobody else disturbs is written, and ever
  after, no request fetches its file: nobody finds it missing, so that the second
  look of `get_content` is enough.
- `DownloadProofs`, of `Fetcher`: `FetchTypeCorrect`, `SlotsAreCounted`,
  `ResumesKeepPlaces`, `ImplementsSlotPool`. The counter equals the cardinality of the set of holders,
  each step adds or removes one member, and the refinement follows. `PlacesInv`
  generalises `ResumeKeepsPlaces` from successes to every file between attempts.
- `DownloadProofs`, of `DownloadQueue`: `TypeCorrect`, `NoJobIsStuck`,
  `PiecesAreInPlace`, `CompletedIsVerified`. `Bookkeeping` ties the locals of the threads to the
  table, `AppendsAtEnd` says that the open transfer of a job with an owner writes
  at the end of its file, `SuccessIsWhole` that a success kept for `Record` still
  is one when it is recorded.
- `ZipCacheProofs`: `TypeCorrect`, `WholeZipJobsExclude`, `LockAlwaysHasAHolder`,
  `TornFilesHaveCulprits`. The invariant ties `acquired` to `locked` and says
  that at most one request of a provider has acquired, as long as none of its
  requests fell back; a lock that is locked and in nobody's hands is `stuck`, that
  is, an exception before the first `try` left it. `TornInv`
  says where the job that truncated a torn member last can be: at that very
  member, failed, or dead.
- `IndexerProofs`: `TypeCorrect`, `SeenChangesStayMarked`, `BudgetsAreKept`. That
  a seen change is marked says nothing of the locals of a job that will write the
  row back: `HashKnown` (the hash a job read is still the row's) makes it
  inductive. `BudgetInv` counts, besides the events, the job that may still be
  recorded and what the current Indexer may still spend, and tells the time between
  midnight and the first look at the date from the rest of the day.
- `ServerProofs`, of `Schedule`: `ScheduleTypeCorrect`, `RetryAfterHonoured`. What is owed to a domain
  is never more than the backoff that is left, and what was promised to a target
  never more than its `next_retry_at`; a tick lessens both alike. An answer that the
  database refuses owes nothing new, but must not shorten what was owed before
  (`RecordRaises`).
- `SessionsProofs`: `TypeCorrect`, `RejectionsHaveReasons`,
  `ExpiredTokensAreOut`, `SessionsAreSingle`. `GivenStored` (a token a browser
  has is stored, lost or superseded) and `LiveKnown`, `LoginsSupersede` carry the
  reasons through each place of a request; `OnePresent` counts, per user, the
  tokens that are present or about to be, and a login's deletion leaves its own
  alone.
- `FrontendProofs`, of `ShareTree`: `TreeTypeCorrect`, `ProtectedFoldersOnlyFill`,
  `ConflictsHaveCauses`, `ListingAndLookupAgree`. Between its lookup and its end a
  call acts on what it once saw. `TreeInv` says what still holds of that: a call
  that writes was granted its share, and where a call that had looked at the
  overlay leaves a file no cachelink needs a folder, but for folders of a later
  listing. `ListingAgrees` needs no step: it is a theorem about `Resource` and
  `MemberNames`, by the prefix lemmas about paths.
- `FrontendProofs`, of `SshKeys`: `HostKeysAreStable`, `SshTypeCorrect`,
  `KeysAreFromOneUpdate`. The first speaks of steps, so that its invariant says
  what a step that changes a served key can come from: a key that clients know and
  nobody renewed is what the table has (`KnownIsStored`), and a key is made only
  for a type of which clients know none or that is noted (`MakesNone`). The last
  rests on `DoneIsStored`: what a clean update has inserted so far, the beginning of
  what it was sent (`EndsIt`), is all that the table has, and while there is a clean
  update there is no other (`Alone`).
- `ServerProofs`, of `Lifecycle`: `LifecycleTypeCorrect`, `ServicesAreCoherent`, `StopReachesAll`,
  `QuietFaultsHaveACause`, `SwitchesArePermitted`. The invariant `LInv` follows the
  loops of `ServiceManager` by their position: at service k of `initialize_all` the
  first k - 1 services are built from each other in this pass, at service k of
  `stop_all` only the first k may have threads (`OnCourse`, `Reachable`).
  `Compared` carries the comparison of `Check` through stop and reset to the
  database service. None of it would be inductive without `GiveUp`: a reload that
  breaks into `initialize_all` before the settings are there finds no settings
  and leaves, so that the activation below it is not overtaken. That services go
  after what they depend on, and none twice, comes from `LifecycleAssumption`
  (`BeforeIs`, by counting: an order onto its services is one-to-one).
- `ConfigProofs`, of `Settings`: `SettingsTypeCorrect`, `ExportsRoundTrip`, `SavesKeepTheRest`.
  `SettingsInv` says of each place what came from where: of the page, that what
  nobody touched is as `Populated` made it of what the server had (`PageIs`); of an
  export, that its sections have the rows the settings were loaded from, and that its
  named tables are those of the settings (`ExportIs`), and that
  none of its cookies has encoded content. Both theorems then are about
  the operators, section by section and field by field. `ExportRoundTrips` needs
  one fact about the tables besides: a stored theme is never empty, for an import
  would pass it over.
- `ConfigProofs`, of `ConfigStore`: `ConfigTypeCorrect`, `AcknowledgedEditsAreStored`,
  `UpdatesAreKept`. Neither of the last two is inductive, for both compare history
  with what is committed, while statements change `work` and anybody commits.
  `LinkInv` follows a cachelink through a save: one request at a time writes
  cachelinks (`OneWriter`), an edit has what was told of every cachelink that no
  other edit has changed since it read them (`SeenByEdit`, `SaveIsKnown`), and what
  the connection sees of a cachelink is what was told, but for those a save at work has deleted and not come
  to again (`WorkIsTold`, `Exposed`): a foreign commit then puts just these into
  `lost`. `TablesInv` follows an update that nothing disturbed. Such a one is alone
  (`CleanAlone`), and each of its sections is as before, deleted, or has the rows
  that were put so far, over those of before where the section is not deleted
  (`OnCourse`); at the end that is what was asked for (`CourseEnds`). What a fault,
  a second update or a reload disturbs is `mixed` until a clean update has
  read the tables back (`UncleanMixes`).

The assumptions are those at the top of each module (a positive number of blocks,
members and slots, disjoint sets of names, an order of the services). Only
model-checked: liveness (`EveryDownloadEnds`, `LockComesFree`,
`PlainListingsCatchUp`, `EveryJobSettles`, `TurnComes`, `ShutdownEnds`), which is
out of the prover's reach. What the folds
and recursive functions of `RemoteListing`, `Transfers` and `Lifecycle` compute is
checked on bounded inputs: induction over data is out of reach, too.

## Not modelled

- The dumping reload as a transaction (`server.py:309-328`): its import, in the
  middle of the reload, overwrites edits that were acknowledged since its export.
  `ReloadServices` of `ConfigStore` does not dump, so `AcknowledgedIsStored` and
  `UpdatesStick` say nothing of reloads that do; `ExportRoundTrips` says that the
  import of one's own export changes no setting.
- Statements of the index that fail for other reasons than `UNIQUE`, but for
  `RecordRaises` of `Schedule`; two indexer threads of one pass, which nested
  signals may start (`StopReaches` of `Lifecycle`): `Indexer` has one per Indexer.
- Files that zip extraction, the queue and the probe put into the datadir, in
  `ShareTree`: its properties are about WebDAV calls.
- WsgiDAV's own locks, properties and conditional requests; checksum catalogues
  beyond the row of a cached file; cookies of downloads, and the `RCLONE_CONFIG`
  variable that overlapping calls share.
- Hotness, search and the sampling of the availability probe.
- Transactions of PostgreSQL and MariaDB (a failed statement there also poisons
  the transaction), migrations, the logs and the mere CRUD of `dbmanage.py`.
- Password hashes, external providers, certificates: library calls.
- File operations over SFTP and FTP: nothing constructs the service, and its
  handler does not have the interface that asyncssh calls.
- The hosting shell, rendering, routing and helpers, which keep no state; the
  compliance validator. `StagingArea`'s `ZipCacheManager`, `vfs.py`,
  `storage/configuration.py`, `restore_database`, `backup_database`,
  `cleanup_old_data`, `logout_user` and `import_users_from_text` have no caller.

## Plan

1. Core (done): `ReadThrough`, `Fetcher` with `SlotPool`, `ZipCache`, `Indexer`,
   `DownloadQueue`.
2. The services around it (done): `ShareTree`, `Lifecycle`, `ConfigStore`, `Settings`,
   `Sessions`, `SshKeys`; time and priorities of the indexer (`Schedule`), listings
   and options (`RemoteListing`, `Transfers`).
3. Proofs (done): types and safety properties of the core, the queue, the
   schedule, the sessions, the keys, the tree, the services, the settings and
   edits of the configuration.
4. Next: an abstract table of cachelinks that `ConfigStore` implements for a single
   administrator, and an abstract session that `Sessions` implements without
   faults.
