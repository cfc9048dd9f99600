----------------------------- MODULE ReadThrough -----------------------------
(***************************************************************************)
(* The read-through path of app/hosting/webdav.py: GET, PUT and DELETE of  *)
(* files that lie under a plain-folder cachelink.  Every HTTP request is a *)
(* thread of the cheroot pool; the threads share the datadir, the staging  *)
(* area and the backend_checksums table and take no lock on any of them.   *)
(*                                                                         *)
(* A file is a directory entry of the datadir that names an inode; an      *)
(* inode holds NumBlocks blocks, each tagged with who wrote it: a file f   *)
(* of Files stands for the bytes the fetcher delivered for f, a request    *)
(* for the bytes that request uploaded, None for a block not written.      *)
(***************************************************************************)
EXTENDS Naturals, FiniteSets

CONSTANTS
    Files,      \* paths a plain-folder cachelink has index entries for
    Requests,   \* the HTTP requests of a behaviour; each is issued once
    NumBlocks,  \* length of a file, in units of one read or write call
    None        \* no inode, no block, no checksum row

\* A request creates at most two inodes: the temporary file it reserves in
\* the staging area and the file it opens for writing in the datadir.
Inodes == Requests \X {"staging", "datadir"}

ASSUME ConstantsAssumption ==
    /\ NumBlocks \in Nat \ {0}
    /\ Files \cap Requests = {}
    /\ None \notin Files \cup Requests \cup Inodes

Blocks == 1 .. NumBlocks
Content == [Blocks -> Files \cup Requests \cup {None}]
Empty == [b \in Blocks |-> None]
Whole(source) == [b \in Blocks |-> source]

StagingFile(r) == <<r, "staging">>

Methods == {"GET", "PUT", "DELETE"}
States == {"idle", "get_content", "download", "install", "copy", "hash",
           "record", "open", "serve", "begin_write", "write", "delete",
           "done", "lost"}
Answers == {"pending", "ok", "error", "raised", "not_removed",
            "install_failed"}

VARIABLES
    oneVolume,  \* staging and datadir are one filesystem: rename() works
    datadir,    \* directory entries: Files -> inode or None
    data,       \* contents of the inodes
    staging,    \* requests whose temporary file exists in the staging area
    checksum,   \* backend_checksums rows: Files -> hashed content or None
    needsFull,  \* needs_full_reindex of the cachelink's target
    pc, op, file,      \* where each request is, its method and its path
    fd, pos,           \* the inode a request holds open, blocks done on it
    digest,            \* content hashed and not yet recorded
    body, answer,      \* what the client of a GET received; outcome
    missers            \* history: fetches already under way at begin_write

disk == <<datadir, data, staging>>
tables == <<checksum, needsFull>>
request == <<op, file>>
local == <<fd, pos, digest>>
result == <<body, answer>>
vars == <<oneVolume, disk, tables, pc, request, local, result, missers>>

Init ==
    /\ oneVolume \in BOOLEAN
    /\ datadir = [f \in Files |-> None]
    /\ data = [i \in Inodes |-> Empty]
    /\ staging = {}
    /\ checksum = [f \in Files |-> None]
    /\ needsFull = FALSE
    /\ pc = [r \in Requests |-> "idle"]
    /\ op = [r \in Requests |-> None]
    /\ file = [r \in Requests |-> None]
    /\ fd = [r \in Requests |-> None]
    /\ pos = [r \in Requests |-> 0]
    /\ digest = [r \in Requests |-> None]
    /\ body = [r \in Requests |-> Empty]
    /\ answer = [r \in Requests |-> "pending"]
    /\ missers = [r \in Requests |-> {}]

-----------------------------------------------------------------------------
Goto(r, state) == pc' = [pc EXCEPT ![r] = state]

\* The request ends: its locals die with the handler.
Finish(r, outcome) ==
    /\ Goto(r, "done")
    /\ answer' = [answer EXCEPT ![r] = outcome]
    /\ fd' = [fd EXCEPT ![r] = None]
    /\ pos' = [pos EXCEPT ![r] = 0]
    /\ digest' = [digest EXCEPT ![r] = None]

\* open(path, "wb"): truncate the file of that name, or create it.
OpenForWriting(r) ==
    LET f == file[r]
        i == IF datadir[f] = None THEN <<r, "datadir">> ELSE datadir[f]
    IN  /\ datadir' = [datadir EXCEPT ![f] = i]
        /\ data' = [data EXCEPT ![i] = Empty]
        /\ fd' = [fd EXCEPT ![r] = i]
        /\ pos' = [pos EXCEPT ![r] = 0]

\* Write the next block through the open handle, whatever the directory
\* entry names by now.
WriteNext(r, source) ==
    /\ pos[r] < NumBlocks
    /\ data' = [data EXCEPT ![fd[r]][pos[r] + 1] = source]
    /\ pos' = [pos EXCEPT ![r] = @ + 1]

\* Requests that found no datadir file for f and are about to install one.
Fetching(f) == {r \in Requests : /\ file[r] = f
                                 /\ pc[r] \in {"download", "install", "copy"}}

-----------------------------------------------------------------------------
\* get_resource_inst: a file present in the datadir becomes a
\* DatadirFileResource, whose get_content just opens it; one that is only
\* indexed becomes a CachelinkFileResource.  begin_write and delete are the
\* same in both classes.  (allow_cache is the policy flag without which the
\* overlay resource is not built at all.)
Dispatch(r) ==
    /\ pc[r] = "idle"
    /\ \E m \in Methods, f \in Files :
        /\ op' = [op EXCEPT ![r] = m]
        /\ file' = [file EXCEPT ![r] = f]
        /\ \/ m = "GET" /\ datadir[f] # None /\ Goto(r, "open")
           \/ m = "GET" /\ datadir[f] = None /\ Goto(r, "get_content")
           \/ m = "PUT" /\ Goto(r, "begin_write")
           \/ m = "DELETE" /\ Goto(r, "delete")
    /\ UNCHANGED <<oneVolume, disk, tables, local, result, missers>>

\* CachelinkFileResource.get_content looks again before it downloads.
GetContentHit(r) ==
    /\ pc[r] = "get_content"
    /\ datadir[file[r]] # None
    /\ Goto(r, "open")
    /\ UNCHANGED <<oneVolume, disk, tables, request, local, result, missers>>

\* Faulty: get_content trusts the lookup get_resource_inst made.
GetContentMissUnchecked(r) ==
    /\ pc[r] = "get_content"
    /\ staging' = staging \cup {r}
    /\ Goto(r, "download")
    /\ UNCHANGED <<oneVolume, datadir, data, tables, request, local, result,
                   missers>>

\* A miss: reserve_tempfile creates the staging file, download_file starts.
GetContentMiss(r) ==
    /\ pc[r] = "get_content"
    /\ datadir[file[r]] = None
    /\ staging' = staging \cup {r}
    /\ Goto(r, "download")
    /\ UNCHANGED <<oneVolume, datadir, data, tables, request, local, result,
                   missers>>

\* mkstemp makes the file and closing it or its chmod raises: the handler of
\* get_content answers None and knows of no file.
ReserveRaises(r) ==
    /\ pc[r] = "get_content"
    /\ datadir[file[r]] = None
    /\ staging' = staging \cup {r}
    /\ Finish(r, "raised")
    /\ UNCHANGED <<oneVolume, datadir, data, tables, request, body, missers>>

DownloadSucceeds(r) ==
    /\ pc[r] = "download"
    /\ data' = [data EXCEPT ![StagingFile(r)] = Whole(file[r])]
    /\ Goto(r, "install")
    /\ UNCHANGED <<oneVolume, datadir, staging, tables, request, local, result,
                   missers>>

\* Faulty: result.success is not looked at.
DownloadFailsUnnoticed(r) ==
    /\ pc[r] = "download"
    /\ Goto(r, "install")
    /\ UNCHANGED <<oneVolume, disk, tables, request, local, result, missers>>

\* Faulty: the staging file of a failed download is not removed.
DownloadFailsKeepingFile(r) ==
    /\ pc[r] = "download"
    /\ needsFull' \in {needsFull, TRUE}
    /\ Finish(r, "error")
    /\ UNCHANGED <<oneVolume, disk, checksum, request, body, missers>>

\* A failed download marks the target for reindexing when the message names
\* a 404 or a 5xx, and removes the staging file; that the removal fails is
\* swallowed.
DownloadFails(r) ==
    /\ pc[r] = "download"
    /\ \E message \in {"404", "5xx", "other"} :
        needsFull' = (needsFull \/ message # "other")
    /\ \/ staging' = staging \ {r} /\ Finish(r, "error")
       \/ staging' = staging /\ Finish(r, "not_removed")
    /\ UNCHANGED <<oneVolume, datadir, data, checksum, request, body, missers>>

\* download_file itself raises instead of reporting a failure (no pycurl, a
\* URL that urlparse rejects, mkdir of rclone): the handler of get_content
\* answers None and leaves the staging file.
DownloadRaises(r) ==
    /\ pc[r] = "download"
    /\ Finish(r, "raised")
    /\ UNCHANGED <<oneVolume, disk, tables, request, body, missers>>

\* Faulty: the file is copied to its place, not renamed.
InstallByCopyAlways(r) ==
    /\ pc[r] = "install"
    /\ oneVolume
    /\ OpenForWriting(r)
    /\ Goto(r, "copy")
    /\ UNCHANGED <<oneVolume, staging, tables, request, digest, result,
                   missers>>

\* shutil.move within one filesystem is rename(): the entry is replaced.
InstallByRename(r) ==
    /\ pc[r] = "install"
    /\ oneVolume
    /\ datadir' = [datadir EXCEPT ![file[r]] = StagingFile(r)]
    /\ staging' = staging \ {r}
    /\ Goto(r, "hash")
    /\ UNCHANGED <<oneVolume, data, tables, request, local, result, missers>>

\* Across filesystems shutil.move copies into the open destination file ...
InstallByCopy(r) ==
    /\ pc[r] = "install"
    /\ ~oneVolume
    /\ OpenForWriting(r)
    /\ Goto(r, "copy")
    /\ UNCHANGED <<oneVolume, staging, tables, request, digest, result,
                   missers>>

CopyBlock(r) ==
    /\ pc[r] = "copy"
    /\ WriteNext(r, data[StagingFile(r)][pos[r] + 1])
    /\ UNCHANGED <<oneVolume, datadir, staging, tables, pc, request, fd,
                   digest, result, missers>>

\* ... and then unlinks the source.
CopyDone(r) ==
    /\ pc[r] = "copy"
    /\ pos[r] = NumBlocks
    /\ staging' = staging \ {r}
    /\ Goto(r, "hash")
    /\ fd' = [fd EXCEPT ![r] = None]
    /\ UNCHANGED <<oneVolume, datadir, data, tables, request, pos, digest,
                   result, missers>>

\* mkdir, open or write fails (datadir full, permissions): the handler of
\* get_content logs the exception and returns None; nothing is undone.
InstallFails(r) ==
    /\ pc[r] \in {"install", "copy"}
    /\ Finish(r, "install_failed")
    /\ UNCHANGED <<oneVolume, disk, tables, request, body, missers>>

\* _record_backend_checksum reads the file that now has the name ...
HashFile(r) ==
    /\ pc[r] = "hash"
    /\ IF datadir[file[r]] # None
       THEN /\ digest' = [digest EXCEPT ![r] = data[datadir[file[r]]]]
            /\ Goto(r, "record")
       ELSE /\ Goto(r, "open")
            /\ UNCHANGED digest
    /\ UNCHANGED <<oneVolume, disk, tables, request, fd, pos, result, missers>>

\* ... and stores its digest under that name, or fails and is forgotten.
RecordChecksum(r) ==
    /\ pc[r] = "record"
    /\ \/ checksum' = [checksum EXCEPT ![file[r]] = digest[r]]
       \/ UNCHANGED checksum
    /\ digest' = [digest EXCEPT ![r] = None]
    /\ Goto(r, "open")
    /\ UNCHANGED <<oneVolume, disk, needsFull, request, fd, pos, result,
                   missers>>

\* open(datadir_path, "rb") by name.
Open(r) ==
    /\ pc[r] = "open"
    /\ datadir[file[r]] # None
    /\ fd' = [fd EXCEPT ![r] = datadir[file[r]]]
    /\ pos' = [pos EXCEPT ![r] = 0]
    /\ Goto(r, "serve")
    /\ UNCHANGED <<oneVolume, disk, tables, request, digest, result, missers>>

\* A call that raises before it changes anything ends the request: open() of
\* a file that is missing by now or out of reach, reserve_tempfile, the
\* access record, mkdir.
RequestFails(r) ==
    /\ pc[r] \in {"get_content", "open", "begin_write", "delete"}
    /\ Finish(r, "error")
    /\ UNCHANGED <<oneVolume, disk, tables, request, body, missers>>

\* The response body is read from the handle while others may write to it.
ServeBlock(r) ==
    /\ pc[r] = "serve"
    /\ pos[r] < NumBlocks
    /\ body' = [body EXCEPT ![r][pos[r] + 1] = data[fd[r]][pos[r] + 1]]
    /\ pos' = [pos EXCEPT ![r] = @ + 1]
    /\ UNCHANGED <<oneVolume, disk, tables, pc, request, fd, digest, answer,
                   missers>>

ServeDone(r) ==
    /\ pc[r] = "serve"
    /\ pos[r] = NumBlocks
    /\ Finish(r, "ok")
    /\ UNCHANGED <<oneVolume, disk, tables, request, body, missers>>

-----------------------------------------------------------------------------
BeginWrite(r) ==
    /\ pc[r] = "begin_write"
    /\ OpenForWriting(r)
    /\ missers' = [missers EXCEPT ![r] = Fetching(file[r])]
    /\ Goto(r, "write")
    /\ UNCHANGED <<oneVolume, staging, tables, request, digest, result>>

WriteBlock(r) ==
    /\ pc[r] = "write"
    /\ WriteNext(r, r)
    /\ UNCHANGED <<oneVolume, datadir, staging, tables, pc, request, fd,
                   digest, result, missers>>

EndWrite(r) ==
    /\ pc[r] = "write"
    /\ pos[r] = NumBlocks
    /\ Finish(r, "ok")
    /\ UNCHANGED <<oneVolume, disk, tables, request, body, missers>>

\* end_write(with_errors): unlink whatever has the name now.
AbortWrite(r) ==
    /\ pc[r] = "write"
    /\ datadir' = [datadir EXCEPT ![file[r]] = None]
    /\ Finish(r, "error")
    /\ UNCHANGED <<oneVolume, data, staging, tables, request, body, missers>>

Delete(r) ==
    /\ pc[r] = "delete"
    /\ IF datadir[file[r]] # None
       THEN /\ datadir' = [datadir EXCEPT ![file[r]] = None]
            /\ Finish(r, "ok")
       ELSE /\ Finish(r, "error")
            /\ UNCHANGED datadir
    /\ UNCHANGED <<oneVolume, data, staging, tables, request, body, missers>>

\* The process dies; disk and database keep what they have.  Nothing cleans
\* the staging area or the datadir at the next start.
Crash ==
    /\ \E r \in Requests : pc[r] \notin {"idle", "done", "lost"}
    /\ pc' = [r \in Requests |->
                IF pc[r] \in {"idle", "done", "lost"} THEN pc[r] ELSE "lost"]
    /\ fd' = [r \in Requests |-> None]
    /\ pos' = [r \in Requests |-> 0]
    /\ digest' = [r \in Requests |-> None]
    /\ UNCHANGED <<oneVolume, disk, tables, request, result, missers>>

\* What the thread of a request does once it has the request.
Handle(r) ==
    \/ GetContentHit(r) \/ GetContentMiss(r) \/ ReserveRaises(r)
    \/ DownloadSucceeds(r) \/ DownloadFails(r) \/ DownloadRaises(r)
    \/ InstallByRename(r) \/ InstallByCopy(r) \/ CopyBlock(r) \/ CopyDone(r)
    \/ InstallFails(r)
    \/ HashFile(r) \/ RecordChecksum(r)
    \/ Open(r) \/ ServeBlock(r) \/ ServeDone(r)
    \/ BeginWrite(r) \/ WriteBlock(r) \/ EndWrite(r) \/ AbortWrite(r)
    \/ Delete(r) \/ RequestFails(r)

Next ==
    \/ \E r \in Requests : Dispatch(r)
    \/ \E r \in Requests : Handle(r)
    \/ Crash

Spec == Init /\ [][Next]_vars

-----------------------------------------------------------------------------
InFlight(r) == pc[r] \notin {"idle", "done", "lost"}

\* The disk, the tables and the locals of every request hold what the code
\* can put in them, and a request has a method and a path once dispatched.
TypeOK ==
    /\ oneVolume \in BOOLEAN
    /\ datadir \in [Files -> Inodes \cup {None}]
    /\ data \in [Inodes -> Content]
    /\ staging \subseteq Requests
    /\ checksum \in [Files -> Content \cup {None}]
    /\ needsFull \in BOOLEAN
    /\ pc \in [Requests -> States]
    /\ op \in [Requests -> Methods \cup {None}]
    /\ file \in [Requests -> Files \cup {None}]
    /\ \A r \in Requests :
         pc[r] # "idle" => op[r] \in Methods /\ file[r] \in Files
    /\ fd \in [Requests -> Inodes \cup {None}]
    /\ \A r \in Requests :
         pc[r] \in {"copy", "serve", "write"} => fd[r] \in Inodes
    /\ pos \in [Requests -> 0 .. NumBlocks]
    /\ digest \in [Requests -> Content \cup {None}]
    /\ \A r \in Requests : pc[r] = "record" => digest[r] \in Content
    /\ body \in [Requests -> Content]
    /\ answer \in [Requests -> Answers]
    /\ missers \in [Requests -> SUBSET Requests]

NoUpload(f) == \A r \in Requests : file[r] = f => op[r] # "PUT"

\* Where the install is a rename, a path nobody uploads to shows a file of
\* the datadir only when the file is complete, and its checksum row is the
\* digest of the complete file: whatever order concurrent fetches, deletes
\* and crashes come in (get_content, _record_backend_checksum).
CleanFill ==
    \A f \in Files : oneVolume /\ NoUpload(f) =>
        /\ datadir[f] # None => data[datadir[f]] = Whole(f)
        /\ checksum[f] \in {None, Whole(f)}

\* Under the same conditions a GET that is answered in full received the
\* bytes of the file, although others may replace or delete it meanwhile.
CleanReads ==
    \A r \in Requests :
        /\ oneVolume
        /\ op[r] = "GET" /\ answer[r] = "ok"
        /\ NoUpload(file[r])
        => body[r] = Whole(file[r])

\* A file left in the staging area belongs to a request at work, to one the
\* crash of the process cut short, to one whose reservation or download_file
\* raised, to one whose failed download could not be removed, or to one whose
\* install failed.  A download that is reported as failed, a fetch that ends
\* well and a request answered from the datadir leave nothing there, and no
\* two requests' files are confused, whatever the order of their steps
\* (nothing ever calls StagingArea.cleanup_old_files).
StagingAccountedFor ==
    \A r \in staging :
        \/ InFlight(r)
        \/ pc[r] = "lost"
        \/ answer[r] \in {"raised", "not_removed", "install_failed"}

OnlyWriter(u) ==
    \A r \in Requests \ {u} : file[r] = file[u] => op[r] = "GET"

\* A completed PUT that no other writer touches stays the file's content,
\* unless a fetch had found the file missing before the upload began: the
\* second look of get_content covers every fetch that starts later.
UploadDisplacedOnlyByOlderMiss ==
    \A u \in Requests :
        /\ op[u] = "PUT" /\ answer[u] = "ok"
        /\ OnlyWriter(u)
        /\ missers[u] = {}
        => /\ datadir[file[u]] # None
           /\ data[datadir[file[u]]] = Whole(u)

-----------------------------------------------------------------------------
(***************************************************************************)
(* The inductive invariant behind CleanFill and CleanReads, proved in      *)
(* ReadThroughProofs: every inode belongs to the path of the request that  *)
(* created it, so what is written for one path never reaches another; and  *)
(* on a path without uploads only complete files are ever renamed into     *)
(* place, opened or hashed.                                                *)
(***************************************************************************)
Creator(i) == i[1]

Ownership ==
    /\ \A r \in Requests : pc[r] = "idle" => file[r] = None /\ fd[r] = None
    /\ \A f \in Files : datadir[f] # None => file[Creator(datadir[f])] = f
    /\ \A r \in Requests : fd[r] # None => file[Creator(fd[r])] = file[r]

Roles ==
    \A r \in Requests :
        /\ pc[r] \in {"begin_write", "write"} => op[r] = "PUT"
        /\ pc[r] = "delete" => op[r] = "DELETE"
        /\ pc[r] = "copy" => ~oneVolume
        /\ answer[r] # "pending" => pc[r] = "done"

CleanRequest(r) ==
    /\ pc[r] = "install" => data[StagingFile(r)] = Whole(file[r])
    /\ pc[r] = "record" => digest[r] = Whole(file[r])
    /\ pc[r] = "serve" => /\ data[fd[r]] = Whole(file[r])
                          /\ \A b \in 1 .. pos[r] : body[r][b] = file[r]
    /\ op[r] = "GET" /\ answer[r] = "ok" => body[r] = Whole(file[r])

CleanInv ==
    /\ Ownership
    /\ Roles
    /\ CleanFill
    /\ \A r \in Requests :
         oneVolume /\ file[r] # None /\ NoUpload(file[r]) => CleanRequest(r)
=============================================================================
