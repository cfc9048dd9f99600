------------------------------ MODULE ConfigStore ------------------------------
(***************************************************************************)
(* The configuration in the database: update_settings_detail of            *)
(* app/core/config.py, the cachelink operations of app/ui/backend.py and   *)
(* the save_* and get_* methods of app/db/schema.py, called by several     *)
(* administrators at a time over the one connection that all threads of    *)
(* the process share (app/db/backends/sqlite.py).  A statement of a thread *)
(* is seen by all others at once; the commit of any thread stores what     *)
(* every thread has written so far, and a rollback takes all of it back.   *)
(*                                                                         *)
(* A cachelink is a row [id, url] of config_cachelinks, url NoUrl for the  *)
(* row of an empty folder.  Every other section of the settings is a       *)
(* table of named rows [set, kept]: set is what the payload of an update   *)
(* gives, kept what the code takes from the row that was there (the users  *)
(* of a share, the content of a cookie jar).                               *)
(***************************************************************************)
EXTENDS Naturals, Sequences, FiniteSets, Functions

CONSTANTS
    Editors,      \* threads that serve administrators
    Links,        \* cachelinks, numbered in the order of ORDER BY
    FolderOf,     \* backend_path: the folder a cachelink is in
    Urls,
    NoUrl,
    FirstLinks,   \* config_cachelinks at the start
    Imports,      \* documents that may be imported: sequences of rows
    Parts,        \* sections of the settings that the model has
    Rank,         \* the order in which a handler comes to them
    Single,       \* ... of one row, which an update overwrites
    Keeping,      \* ... whose rows an update reads before it deletes them
    FirstTables,  \* their rows at the start
    Payloads,     \* what updates may ask for: sections, and named rows of each
    Skipped,      \* names of datadirs that an import passes over
    Given,        \* what set may be
    Kept,         \* what kept may be a set of: users, cookies
    MaxRequests,  \* bound: requests, updates, imports and exports
    MaxFaults     \* bound: statements that fail, rollbacks and crashes

LinkRows == [id : Links, url : Urls \cup {NoUrl}]
PartRows == [set : Given, kept : SUBSET Kept]

\* A table of named rows, and what an update may give of one.
IsTable(t) == t = [n \in DOMAIN t |-> t[n]] /\ \A n \in DOMAIN t : t[n] \in PartRows
IsTables(ts) == ts = [s \in DOMAIN ts |-> ts[s]] /\ \A s \in DOMAIN ts : IsTable(ts[s])

ASSUME ConfigAssumption ==
    /\ Links \subseteq Nat
    /\ FirstLinks \subseteq LinkRows /\ IsFiniteSet(FirstLinks)
    /\ Imports \subseteq Seq(LinkRows)
    /\ Rank \in [Parts -> Nat]
    /\ Single \subseteq Parts /\ Keeping \subseteq Parts \ Single
    /\ IsTables(FirstTables) /\ DOMAIN FirstTables = Parts
    /\ \A p \in Payloads :
          /\ DOMAIN p \subseteq Parts
          /\ \A s \in DOMAIN p : \A n \in DOMAIN p[s] : p[s][n] \in Given
    /\ MaxRequests \in Nat /\ MaxFaults \in Nat

VARIABLES
    exported,  \* tables of the export that an administrator has
    disk,      \* what is committed: [links, tables]
    work,      \* what the threads see: disk and all that is not committed
    loaded,    \* the tables as the server has read them
    hup,       \* a reload is asked for
    closed,    \* threads whose connection a reload has closed
    thread,    \* where each administrator's request is
    told,      \* history: what edits that succeeded made of each cachelink
    lost,      \* history: cachelinks that a foreseen cause may have changed
    asked,     \* history: the tables as updates that succeeded made them
    mixed,     \* history: an update was disturbed, and none succeeded since
    requests, faults

store == <<disk, work>>
memory == <<loaded, hup, closed, exported>>
history == <<told, lost, asked, mixed>>
configVars == <<store, memory, thread, history, requests, faults>>

NoRows == [n \in {} |-> {}]

\* An edit of the cachelinks has read doc and will write todo, its own
\* cachelinks among them; others' edits since are missed.  An update has the
\* rows ask and, of each section, the stage and the names put so far; aim is
\* history, what it should make of the tables, and clean that nothing
\* disturbed it.  An import has found something valid, or not yet; an export
\* has got some sections.
Idle == [at |-> "idle", todo |-> <<>>, doc |-> {}, own |-> {}, missed |-> {},
         from |-> "none", ask |-> NoRows, stage |-> NoRows, put |-> NoRows,
         aim |-> NoRows, clean |-> TRUE, found |-> FALSE, got |-> NoRows]

Row(l, u) == [id |-> l, url |-> u]
Of(rows, l) == {r \in rows : r.id = l}
Merged(f, g) == [x \in DOMAIN f \cup DOMAIN g |-> IF x \in DOMAIN f THEN f[x] ELSE g[x]]

ConfigInit ==
    /\ disk = [links |-> FirstLinks, tables |-> FirstTables]
    /\ work = disk
    /\ loaded = FirstTables
    /\ hup = FALSE /\ closed = {}
    /\ thread = [e \in Editors |-> Idle]
    /\ told = [l \in Links |-> Of(FirstLinks, l)] /\ lost = {}
    /\ asked = FirstTables /\ mixed = FALSE
    /\ exported = FirstTables
    /\ requests = 0 /\ faults = 0

-----------------------------------------------------------------------------
(* Threads, the lock of the IndexDatabase, the connection                  *)

At(e, at) == thread[e].at = at
Become(e, record) == thread' = [thread EXCEPT ![e] = record]
Goto(e, at) == thread' = [thread EXCEPT ![e].at = at]

\* A method of the IndexDatabase has the lock from its first statement to its
\* commit.  The adapter, which has none, may be used in between.
Saving == {e \in Editors \ closed : At(e, "insert")}
Unlocked(e) == \A o \in Editors \ {e} : o \in closed \/ ~(At(o, "insert") \/ At(o, "stored"))

Fault == faults < MaxFaults /\ faults' = faults + 1

\* A statement of a closed connection raises, and any other one may.
Raises(e) ==
    \/ e \in closed /\ UNCHANGED faults
    \/ e \notin closed /\ Fault
Works(e) == e \notin closed /\ UNCHANGED faults

\* A commit of a closed connection does nothing, and says nothing.
Committed(e) == IF e \in closed THEN disk ELSE work
-----------------------------------------------------------------------------
(* Cachelinks: an edit reads all of them, and writes all of them           *)

Begin(e, record) ==
    /\ At(e, "idle") /\ requests < MaxRequests
    /\ requests' = requests + 1
    /\ Become(e, record)

\* Faulty: get_cachelinks does not wait for the lock.
ReadLinksUnlocked(e) ==
    /\ Begin(e, [Idle EXCEPT !.at = "edit", !.doc = work.links])
    /\ UNCHANGED <<store, memory, history, faults>>

\* get_cachelinks.
ReadLinks(e) ==
    /\ Unlocked(e)
    /\ Begin(e, [Idle EXCEPT !.at = "edit", !.doc = work.links])
    /\ UNCHANGED <<store, memory, history, faults>>

\* ORDER BY backend_path, canonical_id; of rows with one name any may be first.
Orders(rows) ==
    {q \in [1 .. Cardinality(rows) -> rows] :
        /\ Range(q) = rows
        /\ \A i, j \in DOMAIN q : i < j => q[i].id <= q[j].id}

Ids(rows) == {r.id : r \in rows}

Appended(rows, l, urls) ==
    IF l \in Ids(rows) THEN {} ELSE {Append(q, Row(l, u)) : q \in Orders(rows), u \in urls}

\* _create_cachelink, which looks at the name only.
Creation(rows, l) == Appended(rows, l, Urls)

\* _add_cachelink_folder: a row without a URL.
FolderAddition(rows, l) == Appended(rows, l, {NoUrl})

\* _update_cachelink: the first row of that name.
Update(rows, l) ==
    UNION {{[q EXCEPT ![i].url = u] :
                i \in {k \in DOMAIN q : q[k].id = l /\ \A j \in 1 .. k - 1 : q[j].id # l},
                u \in Urls \cup {NoUrl}} : q \in Orders(rows)}

\* _delete_cachelink.
Deletion(rows, l) ==
    IF l \in Ids(rows) THEN Orders(rows \ Of(rows, l)) ELSE {}

\* _delete_cachelink_folder: of a folder with nothing in it.
FolderDeletion(rows, l) ==
    IF \E r \in rows : FolderOf[r.id] = l THEN {} ELSE Deletion(rows, l)

\* DELETE FROM config_cachelinks, with nothing to take it back if what follows
\* fails; save_cachelinks of rows, for an edit of the cachelinks own.
Clear(e, rows, own) ==
    /\ Unlocked(e)
    /\ \/ /\ Works(e)
          /\ work' = [work EXCEPT !.links = {}]
          /\ Become(e, [thread[e] EXCEPT !.at = "insert", !.todo = rows, !.own = own,
                                         !.doc = Range(rows)])
          /\ UNCHANGED closed
       \/ /\ Raises(e) /\ UNCHANGED work
          /\ Become(e, Idle) /\ closed' = closed \ {e}
    /\ UNCHANGED <<disk, loaded, hup, exported, history, requests>>

Edit(e) ==
    /\ At(e, "edit")
    /\ \E l \in Links :
        LET rows == thread[e].doc
        IN \E q \in Creation(rows, l) \cup FolderAddition(rows, l) \cup Update(rows, l)
                    \cup Deletion(rows, l) \cup FolderDeletion(rows, l) :
              Clear(e, q, {l})

\* The edit is not possible: there is such a cachelink already, or none.
Refuse(e) ==
    /\ At(e, "edit")
    /\ Become(e, Idle) /\ closed' = closed \ {e}
    /\ UNCHANGED <<store, loaded, hup, exported, history, requests, faults>>

\* import_cachelinks_from_text and write_cachelinks_document read nothing.
BeginImport(e) ==
    /\ Begin(e, [Idle EXCEPT !.at = "import"])
    /\ UNCHANGED <<store, memory, history, faults>>
ImportLinks(e) == At(e, "import") /\ \E q \in Imports : Clear(e, q, Links)

\* UNIQUE(backend_path, url, subfolder)
Clashes(row) == \E r \in work.links : FolderOf[r.id] = FolderOf[row.id] /\ r.url = row.url

\* What a save changes that breaks off: what it has not come to again, its
\* own cachelinks, and edits of others that it did not see.
AtRisk(e) == Ids(Range(thread[e].todo)) \cup thread[e].own \cup thread[e].missed

Insert(e) ==
    LET row == Head(thread[e].todo)
    IN /\ At(e, "insert") /\ thread[e].todo # <<>>
       /\ \/ /\ Works(e) /\ ~Clashes(row)
             /\ work' = [work EXCEPT !.links = @ \cup {row}]
             /\ Become(e, [thread[e] EXCEPT !.todo = Tail(@)])
             /\ UNCHANGED <<closed, lost>>
          \/ /\ \/ Raises(e)
                \/ Works(e) /\ Clashes(row)
             /\ lost' = IF e \in closed THEN lost ELSE lost \cup AtRisk(e)
             /\ Become(e, Idle) /\ closed' = closed \ {e}
             /\ UNCHANGED work
       /\ UNCHANGED <<disk, loaded, hup, exported, told, asked, mixed, requests>>

\* The commit of save_cachelinks.  An edit asks for a reload then; an import
\* reads the settings first.
CommitLinks(e) ==
    LET own == thread[e].own
        missed == thread[e].missed
        undone == e \in closed \/ ~thread[e].clean
    IN /\ At(e, "insert") /\ thread[e].todo = <<>>
       /\ disk' = Committed(e)
       /\ told' = [l \in Links |-> IF l \in own THEN Of(thread[e].doc, l) ELSE told[l]]
       /\ lost' = (lost \ own) \cup (IF undone THEN own ELSE {})
                     \cup (IF e \in closed THEN {} ELSE missed \ own)
       /\ thread' = [o \in Editors |->
            CASE o = e /\ own = Links -> [Idle EXCEPT !.at = "refresh"]
              [] o = e /\ own # Links -> Idle
              [] o # e /\ At(o, "edit") /\ e \notin closed ->
                    [thread[o] EXCEPT !.missed = @ \cup own]
              [] OTHER -> thread[o]]
       /\ hup' = (hup \/ own # Links)
       /\ closed' = IF own = Links THEN closed ELSE closed \ {e}
       /\ UNCHANGED <<work, loaded, exported, asked, mixed, requests, faults>>
-----------------------------------------------------------------------------
(* update_settings_detail: section after section, row after row            *)

Updating(e) == e \notin closed /\ thread[e].at \in {"update", "restore", "stored", "load"}
InUpdate == \E e \in Editors : Updating(e)

\* Something comes between the statements of the updates there are.
Mixing == mixed' = (mixed \/ InUpdate)
Disturbed ==
    [e \in Editors |-> IF Updating(e) THEN [thread[e] EXCEPT !.clean = FALSE]
                       ELSE thread[e]]

\* Faulty: the rows are deleted when nobody has read them.
FirstStageUnread(s) == IF s \in Single THEN "put" ELSE "wipe"
\* What an update does first with a section ...
FirstStage(s) ==
    IF s \in Single THEN "put" ELSE IF s \in Keeping THEN "read" ELSE "wipe"

\* ... and what an import does.
PutAtOnce(s) == "put"

\* The rows of a payload, with what is kept of those that are there.
Rows(part) == [n \in DOMAIN part |-> [set |-> part[n], kept |-> {}]]
Keep(table, rows) ==
    [n \in DOMAIN rows |-> [set |-> rows[n].set,
                            kept |-> IF n \in DOMAIN table THEN table[n].kept ELSE {}]]

\* What an update should make of the tables if nothing comes between.
Result(now, ask) ==
    [s \in Parts |->
        IF s \notin DOMAIN ask THEN now[s]
        ELSE IF s \in Single THEN Merged(ask[s], now[s])
        ELSE IF s \in Keeping THEN Keep(now[s], ask[s])
        ELSE ask[s]]

\* Updates that overlap disturb each other.
BeginUpdate(e, at, ask, stage, aim) ==
    /\ At(e, "idle") /\ requests < MaxRequests
    /\ requests' = requests + 1
    /\ thread' = [Disturbed EXCEPT ![e] =
                    [Idle EXCEPT !.at = at, !.from = at, !.ask = ask, !.aim = aim,
                                 !.stage = stage, !.put = [s \in DOMAIN ask |-> {}],
                                 !.clean = ~InUpdate]]
    /\ Mixing

Ask(e, ask) ==
    BeginUpdate(e, "update", ask, [s \in DOMAIN ask |-> FirstStage(s)], Result(asked, ask))

\* The settings page and the API.
UpdateSettings(e) ==
    /\ \E payload \in Payloads :
          Ask(e, [s \in DOMAIN payload |-> Rows(payload[s])])
    /\ UNCHANGED <<store, memory, told, lost, asked, faults>>

\* _mutate_share_user: the policy is set in the settings in memory, and the
\* payload that follows has all shares but no users.
MutateShare(e) ==
    /\ "shares" \in Parts
    /\ \E name \in DOMAIN loaded["shares"], kept \in SUBSET Kept :
          loaded' = [loaded EXCEPT !["shares"][name].kept = kept]
    /\ Ask(e, [s \in {"shares"} |-> Keep(NoRows, loaded["shares"])])
    /\ UNCHANGED <<store, hup, closed, exported, told, lost, asked, faults>>

Complete(e, s) == thread[e].stage[s] = "put" /\ thread[e].put[s] = DOMAIN thread[e].ask[s]
AllComplete(e) == \A s \in DOMAIN thread[e].ask : Complete(e, s)

\* The section it has come to.
Current(e, s) ==
    /\ s \in DOMAIN thread[e].ask /\ ~Complete(e, s)
    /\ \A r \in DOMAIN thread[e].ask : Rank[r] < Rank[s] => Complete(e, r)

\* get_all_shares, get_all_cookies.
ReadKept(e) ==
    /\ At(e, "update") /\ Unlocked(e) /\ Works(e)
    /\ \E s \in Parts :
          /\ Current(e, s) /\ thread[e].stage[s] = "read"
          /\ Become(e, [thread[e] EXCEPT !.stage[s] = "wipe",
                            !.ask[s] = Keep(work.tables[s], thread[e].ask[s])])
    /\ UNCHANGED <<store, memory, history, requests>>

\* DELETE FROM config_<section>, by the adapter: without the lock.
Wipe(e) ==
    /\ At(e, "update") /\ Works(e)
    /\ \E s \in Parts :
          /\ Current(e, s) /\ thread[e].stage[s] = "wipe"
          /\ work' = [work EXCEPT !.tables[s] = NoRows]
          /\ Become(e, [thread[e] EXCEPT !.stage[s] = "put"])
    /\ UNCHANGED <<disk, memory, history, requests>>

\* The INSERT ... ON CONFLICT of save_share and the like ...
Stores(e, s, n) ==
    /\ work' = [work EXCEPT !.tables[s] =
                  Merged([m \in {n} |-> thread[e].ask[s][n]], work.tables[s])]
    /\ Become(e, [thread[e] EXCEPT !.at = "stored", !.found = TRUE,
                                   !.put[s] = thread[e].put[s] \cup {n}])

Put(e) ==
    /\ At(e, "update") /\ Unlocked(e) /\ Works(e)
    /\ \E s \in Parts :
          /\ Current(e, s) /\ thread[e].stage[s] = "put"
          /\ \E n \in DOMAIN thread[e].ask[s] \ thread[e].put[s] : Stores(e, s, n)
    /\ UNCHANGED <<disk, memory, history, requests>>

\* ... and its commit.
CommitRow(e) ==
    /\ At(e, "stored")
    /\ disk' = Committed(e)
    /\ Goto(e, thread[e].from)
    /\ UNCHANGED <<work, memory, history, requests, faults>>

\* import_config_from_data: the rows of the file over those there are, except
\* for datadirs whose names do not begin with backend_ (of which it says
\* nothing).  What the file has of cachelinks is saved as by ImportLinks.
Accepted(s) ==
    [n \in DOMAIN exported[s] \ (IF s = "paths" THEN Skipped ELSE {}) |-> exported[s][n]]

ImportBackup(e) ==
    LET ask == [s \in Parts |-> Accepted(s)]
    IN /\ BeginUpdate(e, "restore", ask, [s \in Parts |-> PutAtOnce(s)],
                      [s \in Parts |-> Merged(ask[s], asked[s])])
       /\ UNCHANGED <<store, memory, told, lost, asked, faults>>

\* _process_webdav and the like: a row that cannot be stored is passed over.
RestoreRow(e) ==
    /\ At(e, "restore") /\ Unlocked(e)
    /\ \E s \in Parts :
          /\ Current(e, s)
          /\ \E n \in DOMAIN thread[e].ask[s] \ thread[e].put[s] :
               \/ Works(e) /\ Stores(e, s, n) /\ UNCHANGED mixed
               \/ /\ Raises(e) /\ UNCHANGED work
                  /\ Become(e, [thread[e] EXCEPT !.put[s] = thread[e].put[s] \cup {n},
                                                 !.clean = FALSE])
                  /\ mixed' = (mixed \/ Updating(e))
    /\ UNCHANGED <<disk, memory, told, lost, asked, requests>>

\* Something must have been valid, or the request ends with an error.
RestoreEnds(e) ==
    /\ At(e, "restore") /\ AllComplete(e)
    /\ \/ thread[e].found /\ Goto(e, "load") /\ UNCHANGED closed
       \/ ~thread[e].found /\ Become(e, Idle) /\ closed' = closed \ {e}
    /\ UNCHANGED <<store, loaded, hup, exported, history, requests, faults>>

\* _collect_all_configuration: section after section.
BeginExport(e) ==
    /\ Begin(e, [Idle EXCEPT !.at = "export"])
    /\ UNCHANGED <<store, memory, history, faults>>

ReadSection(e) ==
    /\ At(e, "export") /\ Unlocked(e) /\ Works(e)
    /\ \E s \in Parts \ DOMAIN thread[e].got :
          /\ \A r \in Parts : Rank[r] < Rank[s] => r \in DOMAIN thread[e].got
          /\ Become(e, [thread[e] EXCEPT
                 !.got = Merged([r \in {s} |-> work.tables[s]], thread[e].got)])
    /\ UNCHANGED <<store, memory, history, requests>>

ExportEnds(e) ==
    /\ At(e, "export") /\ DOMAIN thread[e].got = Parts
    /\ exported' = thread[e].got
    /\ Become(e, Idle) /\ closed' = closed \ {e}
    /\ UNCHANGED <<store, loaded, hup, history, requests, faults>>

\* What a commit outside the lock leaves of a save that never ends.
Exposed == UNION {AtRisk(o) : o \in Saving}

\* adapter.commit().
CommitUpdate(e) ==
    /\ At(e, "update") /\ AllComplete(e)
    /\ disk' = Committed(e)
    /\ lost' = IF e \in closed THEN lost ELSE lost \cup Exposed
    /\ Goto(e, "load")
    /\ UNCHANGED <<work, memory, told, asked, mixed, requests, faults>>

\* reload_settings, and the signal to the server.
LoadSettings(e) ==
    /\ thread[e].at \in {"load", "refresh"} /\ Unlocked(e) /\ Works(e)
    /\ loaded' = work.tables
    /\ hup' = TRUE
    /\ asked' = IF ~At(e, "load") THEN asked
                ELSE IF mixed THEN disk.tables ELSE thread[e].aim
    /\ mixed' = (mixed /\ ~(At(e, "load") /\ thread[e].clean))
    /\ Become(e, Idle)
    /\ UNCHANGED <<store, closed, exported, told, lost, requests, faults>>

\* Any statement of an update, an export or of reload_settings raises.
UpdateFails(e) ==
    /\ \/ At(e, "update") /\ ~AllComplete(e)
       \/ At(e, "export") /\ DOMAIN thread[e].got # Parts
       \/ thread[e].at \in {"load", "refresh"}
    /\ Raises(e)
    /\ mixed' = (mixed \/ Updating(e))
    /\ Become(e, Idle) /\ closed' = closed \ {e}
    /\ UNCHANGED <<store, loaded, hup, exported, told, lost, asked, requests>>

-----------------------------------------------------------------------------
(* Everyone else                                                           *)

\* Another thread commits: the log of an access, a session, a listing.
OtherCommit ==
    /\ work # disk
    /\ disk' = work
    /\ lost' = lost \cup Exposed
    /\ UNCHANGED <<work, memory, thread, told, asked, mixed, requests, faults>>

\* A statement of another thread fails, and it rolls back.
OtherRollback ==
    /\ work # disk /\ Fault
    /\ work' = disk
    /\ thread' = [e \in Editors |-> IF e \in Saving THEN [thread[e] EXCEPT !.clean = FALSE]
                                    ELSE Disturbed[e]]
    /\ Mixing
    /\ UNCHANGED <<disk, memory, told, lost, asked, requests>>

\* Faulty: the connections of requests to come are closed too.
ReloadClosingAll ==
    /\ hup /\ hup' = FALSE
    /\ work' = disk
    /\ loaded' = disk.tables
    /\ closed' = Editors
    /\ Mixing
    /\ UNCHANGED <<disk, exported, thread, told, lost, asked, requests, faults>>

\* The main thread closes the connection, opens a new one and reads again.  This
\* is a reload that does not dump: one that does exports the configuration
\* first and imports it into the new connection before anything else reads it.
ReloadServices ==
    /\ hup /\ hup' = FALSE
    /\ work' = disk
    /\ loaded' = disk.tables
    /\ closed' = {e \in Editors : ~At(e, "idle")}
    /\ Mixing
    /\ UNCHANGED <<disk, exported, thread, told, lost, asked, requests, faults>>

Crash ==
    /\ Fault /\ Mixing
    /\ work' = disk
    /\ loaded' = disk.tables
    /\ hup' = FALSE /\ closed' = {}
    /\ thread' = [e \in Editors |-> Idle]
    /\ UNCHANGED <<disk, exported, told, lost, asked, requests>>

EditLinks(e) ==
    \/ ReadLinks(e) \/ Edit(e) \/ Refuse(e) \/ BeginImport(e) \/ ImportLinks(e) \/ Insert(e)
    \/ CommitLinks(e)
EditSettings(e) ==
    \/ ImportBackup(e) \/ RestoreRow(e) \/ RestoreEnds(e) \/ BeginExport(e)
    \/ ReadSection(e) \/ ExportEnds(e)
    \/ UpdateSettings(e) \/ MutateShare(e) \/ ReadKept(e) \/ Wipe(e) \/ Put(e)
    \/ CommitRow(e) \/ CommitUpdate(e) \/ LoadSettings(e) \/ UpdateFails(e)

ConfigNext ==
    \/ \E e \in Editors : EditLinks(e) \/ EditSettings(e)
    \/ OtherCommit \/ OtherRollback \/ ReloadServices \/ Crash

ConfigSpec == ConfigInit /\ [][ConfigNext]_configVars

-----------------------------------------------------------------------------
\* The types of the variables: cachelinks are rows of config_cachelinks, every
\* section has a table, what a save will write is part of what it was made of,
\* and an update has a stage for each of its sections.
Places == {"idle", "edit", "import", "insert", "refresh", "update", "restore", "stored",
           "load", "export"}
IsRequest(t) ==
    /\ t.at \in Places /\ t.from \in {"none", "update", "restore"}
    /\ t.own \subseteq Links /\ t.missed \subseteq Links
    /\ t.doc \subseteq LinkRows /\ t.todo \in Seq(LinkRows) /\ Range(t.todo) \subseteq t.doc
    /\ IsTables(t.ask) /\ IsTables(t.aim) /\ IsTables(t.got)
    /\ DOMAIN t.ask \subseteq Parts /\ DOMAIN t.got \subseteq Parts
    /\ t.stage \in [DOMAIN t.ask -> {"read", "wipe", "put"}]
    /\ t.put = [s \in DOMAIN t.ask |-> t.put[s]]
    /\ \A s \in DOMAIN t.ask : t.put[s] \subseteq DOMAIN t.ask[s]
    /\ {t.clean, t.found} \subseteq BOOLEAN

ConfigTypeOK ==
    /\ {disk.links, work.links} \subseteq SUBSET LinkRows
    /\ \A t \in {disk.tables, work.tables, loaded, asked, exported} :
           IsTables(t) /\ DOMAIN t = Parts
    /\ \A l \in Links : told[l] \subseteq Of(LinkRows, l)
    /\ lost \subseteq Links /\ closed \subseteq Editors
    /\ \A e \in closed : ~At(e, "idle")
    /\ \A e \in Editors : IsRequest(thread[e])
    /\ requests \in 0..MaxRequests /\ faults \in 0..MaxFaults

\* What an edit that reported success made of a cachelink is what the database
\* has, whatever other administrators, other threads' commits, reloads and
\* crashes do meanwhile, unless one of the causes named in lost struck this very
\* cachelink: an edit that had read the cachelinks before, a save that broke off
\* before it came to it, a rollback or a reload between DELETE and COMMIT.  (A
\* reload that dumps is not among the steps: its import overwrites what was
\* acknowledged since its export.)
AcknowledgedIsStored ==
    \A l \in Links \ lost : Of(disk.links, l) = told[l]

\* Updates of the settings that nothing disturbed, neither another update nor a
\* failure, a rollback, a reload or a crash between their first statement and
\* their last, leave in the database, and in memory, exactly the rows they name,
\* with what was to be kept of those there were.  That the policies set by
\* MutateShare are gone is part of this: they are never written.  As above, no
\* reload dumps.
UpdatesStick ==
    ~mixed /\ ~InUpdate => disk.tables = asked /\ loaded = asked
=============================================================================
