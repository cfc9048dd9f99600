------------------------------- MODULE Settings -------------------------------
(***************************************************************************)
(* The way of a setting round the program: a row of a config_* table       *)
(* (app/db/schema.py), the Settings object of the server                   *)
(* (_load_settings_from_database, app/core/config.py), the settings page   *)
(* (_describe_settings_detail of app/ui/backend.py and                     *)
(* app/ui/web/assets/js/settings.js), update_settings_detail, and the      *)
(* export and import of app/db/backupmgmt.py.  Every step is the whole     *)
(* handler; ConfigStore has what happens when handlers overlap.            *)
(*                                                                         *)
(* The value of a field is "falsy" (0, false, empty, null: what `or` and   *)
(* `||` replace), "default" (what the code puts where nothing is) or       *)
(* "other".  In the section auth the field oidc_on is oidc.enabled and     *)
(* oidc the rest of its object; ldap and proxy_header likewise.            *)
(***************************************************************************)
EXTENDS Naturals, FiniteSets, Functions

CONSTANTS
    Datadirs, Shares, Domains,  \* names of rows of the tables with a name
    Recognised,  \* datadirs whose name an import accepts: backend_*
    Users,       \* what the users of a share may be, "nobody" among them
    Bootstraps,  \* documents that may be at hand at the start
    Editable,    \* fields that administrators edit
    MaxEdits     \* bound: fields, rows and documents edited

StagingColumns == {"staging_mounted", "staging_mount_root", "size_gb"}
LimitsColumns == {"max_zip_total_gb", "one_zip_cache_at_a_time"}
UiColumns == {"theme"}
Budgets == {"min_full_reindex_days", "max_full_reindex_days", "hot_window_days",
            "hot_radius", "daily_full_reindex_budget", "daily_cheap_check_budget",
            "max_full_reindex_per_14d", "max_cheap_checks_per_day"}
PerDomain == {"per_domain_concurrency", "per_domain_rate_limit_per_minute",
              "per_domain_backoff_base_seconds", "per_domain_backoff_max_seconds",
              "giant_directory_entry_limit", "giant_directory_cooldown_minutes",
              "partition_hint_max_children"}
Policies == {"allow_early_full_on_change", "early_full_requires_hot"}
IndexingColumns == Budgets \cup PerDomain \cup Policies \cup {"score_weights"}
AuthColumns == {"oidc_on", "oidc", "ldap_on", "ldap", "proxy_on", "proxy_header",
                "webui_external_enabled"}
TlsColumns == {"tls_enabled", "mode", "manual", "http", "challenge", "dns01"}
Speeds == {"transfer_concurrency", "checkers", "timeout", "retries"}
RcloneColumns == Speeds \cup {"remotes", "bandwidth_limit"}

Columns == [staging |-> StagingColumns, limits |-> LimitsColumns, ui |-> UiColumns,
            indexing |-> IndexingColumns, auth |-> AuthColumns, tls |-> TlsColumns,
            rclone |-> RcloneColumns]
Sections == DOMAIN Columns
Fields == UNION Range(Columns)
SectionOf(f) == CHOOSE s \in Sections : f \in Columns[s]

Numbers == {"size_gb", "max_zip_total_gb"} \cup Budgets \cup PerDomain \cup Speeds
WithDefault == Numbers \cup {"theme", "mode", "challenge", "proxy_header"}
Values == {"falsy", "default", "other"}
ValuesOf(f) == IF f \in WithDefault THEN Values ELSE {"falsy", "other"}

Partial(S, T) == UNION {[N -> T] : N \in SUBSET S}  \* a table by name
PathRows == Partial(Datadirs, {"one", "two"})
ShareRows == Partial(Shares, {"one", "two"} \X Users)
CookieRows == Partial(Domains, {"empty", "one"})
TablesOf == [paths |-> PathRows, shares |-> ShareRows, cookies |-> CookieRows]
\* The content of a cookie is in a document as it is, or in base64.
CookieEntries == Partial(Domains, {"empty", "one", "encoded"})
EntriesOf == [paths |-> PathRows, shares |-> ShareRows, cookies |-> CookieEntries]
NamesOf == [paths |-> Datadirs, shares |-> Shares, cookies |-> Domains]
Named == DOMAIN NamesOf

\* Rows of a section have all its columns, the sections of a document some.
IsRow(s, r) ==
    r \in [Columns[s] -> Values] /\ \A f \in Columns[s] : r[f] \in ValuesOf(f)
IsPart(s, p) ==
    /\ DOMAIN p \subseteq Columns[s] /\ p \in [DOMAIN p -> Values]
    /\ \A f \in DOMAIN p : p[f] \in ValuesOf(f)

Tables == Sections \cup Named \cup {"users"}
IsDocument(d) ==
    /\ DOMAIN d \subseteq Tables
    /\ \A s \in DOMAIN d \cap Sections : IsPart(s, d[s])
    /\ \A s \in DOMAIN d \cap Named : d[s] \in EntriesOf[s]
    /\ "users" \in DOMAIN d => d["users"] \subseteq Users

ASSUME SettingsAssumption ==
    /\ Recognised \subseteq Datadirs /\ "nobody" \in Users
    /\ Editable \subseteq Fields /\ MaxEdits \in Nat
    /\ \A d \in Bootstraps : IsDocument(d)

VARIABLES
    tables,    \* the newest row of each section, the rows of each named table
    settings,  \* what the server has read of them
    page,      \* the settings page of an administrator: what it has and had
    doc,       \* the document in the administrator's hands
    backup,    \* history: the settings at the export that doc is, if it is one
    edits

settingsVars == <<tables, settings, page, doc, backup, edits>>

NoRow == <<>>
None == [none |-> TRUE]
OrDefault(v) == IF v = "falsy" THEN "default" ELSE v
Restricted(f, S) == [x \in DOMAIN f \cap S |-> f[x]]
Over(f, g) == [x \in DOMAIN f \cup DOMAIN g |-> IF x \in DOMAIN f THEN f[x] ELSE g[x]]
Upserted(table, rows) == Over(rows, table)

-----------------------------------------------------------------------------
(* Loading.                                                                *)

\* A section without a row is what its class says.
BuiltIn(f) ==
    IF f \in WithDefault THEN "default" ELSE IF f \in Policies THEN "other" ELSE "falsy"

\* staging, limits and indexing are the row as it is, ...
LoadRow(s, row) == IF row = NoRow THEN [f \in Columns[s] |-> BuiltIn(f)] ELSE row
\* ... so are auth and tls: a key that a JSON column lacks gets its default
LoadAuth(row) == LoadRow("auth", row)
LoadTls(row) == LoadRow("tls", row)
\* ... but zero, or an empty theme, never comes out of rclone and ui.
LoadRclone(s, row) ==
    [f \in Columns[s] |-> IF f \in WithDefault THEN OrDefault(LoadRow(s, row)[f])
                                               ELSE LoadRow(s, row)[f]]

LoadSection(s, row) ==
    CASE s \in {"staging", "limits", "indexing"} -> LoadRow(s, row)
      [] s = "auth" -> LoadAuth(row)
      [] s = "tls" -> LoadTls(row)
      [] s \in {"rclone", "ui"} -> LoadRclone(s, row)

LoadNamed(t) == Restricted(t, Named)

Load(t) ==
    Over(LoadNamed(t), [s \in Sections |-> LoadSection(s, t[s])])

SettingsInit ==
    /\ tables = [s \in Tables |-> IF s = "users" THEN {} ELSE NoRow]
    /\ settings = Load(tables)
    /\ page = None /\ doc \in Bootstraps /\ backup = None /\ edits = 0

Edited == edits < MaxEdits /\ edits' = edits + 1

-----------------------------------------------------------------------------
(* The page.                                                               *)

\* GET /settings/detail: the users of shares and the cookies stay behind.
Described(st) ==
    [st EXCEPT !["shares"] = [n \in DOMAIN @ |-> @[n][1]], !["cookies"] = DOMAIN @]

\* The form has one external provider: the first that is enabled.
OneProvider(a) ==
    [a EXCEPT !["ldap_on"] = IF a["oidc_on"] = "other" THEN "falsy" ELSE @,
              !["proxy_on"] = IF "other" \in {a["oidc_on"], a["ldap_on"]} THEN "falsy" ELSE @]

\* populate: zero is shown as the default; the form has the challenges
\* standalone and webroot, and is empty for http-01, the default of the server.
ShownField(f, v) ==
    CASE f = "challenge" -> IF v = "default" THEN "falsy" ELSE "other"
      [] f \in Numbers \cup {"theme", "mode"} -> OrDefault(v)
      [] OTHER -> v

Populated(d) ==
    LET Shown(s) == [f \in Columns[s] |-> ShownField(f, d[s][f])] IN
    Over([s \in Sections |-> IF s = "auth" THEN OneProvider(Shown(s)) ELSE Shown(s)],
         Restricted(d, {"paths", "shares"}))

OpenPage ==
    /\ LET now == Load(tables) IN
       page' = [form |-> Populated(Described(settings)), had |-> settings,
                current |-> settings = now, touched |-> {}]
    /\ UNCHANGED <<tables, settings, doc, backup, edits>>

Providers == {"oidc_on", "ldap_on", "proxy_on"}

\* A field is typed over (zero stays zero), or the one provider chosen.
Typed(form, f, v) ==
    [g \in DOMAIN form |-> IF g = f THEN v
                           ELSE IF {f, g} \subseteq Providers THEN "falsy" ELSE form[g]]

ChangeField(f) ==
    /\ page # None /\ Edited
    /\ \E v \in ValuesOf(f) \ {page.form[SectionOf(f)][f]} :
           page' = [page EXCEPT !.form[SectionOf(f)] = Typed(@, f, v),
                                !.touched = @ \cup IF f \in Providers THEN Providers ELSE {f}]
    /\ UNCHANGED <<tables, settings, doc, backup>>

\* A datadir or a share is added, changed or removed in the lists of the page.
ChangeList(s) ==
    /\ page # None /\ Edited
    /\ \E n \in NamesOf[s] :
           \/ /\ n \in DOMAIN page.form[s]
              /\ page' = [page EXCEPT !.form[s] = Restricted(@, NamesOf[s] \ {n}),
                                      !.touched = @ \cup {n}]
           \/ \E c \in {"one", "two"} :
                 page' = [page EXCEPT !.form[s] = Upserted(@, [m \in {n} |-> c]),
                                      !.touched = @ \cup {n}]
    /\ UNCHANGED <<tables, settings, doc, backup>>

\* collectPayload: no cookies, and of rclone no remotes.
Collected(form) == [form EXCEPT !["rclone"] = Restricted(@, RcloneColumns \ {"remotes"})]

-----------------------------------------------------------------------------
(* update_settings_detail, a section of the payload at a time.             *)

UpdatedPaths(p) == p
UpdatedStaging(p) == [p EXCEPT !["size_gb"] = OrDefault(@)]
UpdatedLimits(p) == [p EXCEPT !["max_zip_total_gb"] = OrDefault(@)]
UpdatedUi(p) == [p EXCEPT !["theme"] = OrDefault(@)]
\* The remotes of the row there was stay.
UpdatedRclone(p, row) == Over(p, [remotes |-> LoadRow("rclone", row)["remotes"]])
\* The budgets may not be zero, the limits of a domain may.
UpdatedIndexing(p) == [f \in DOMAIN p |-> IF f \in Budgets THEN OrDefault(p[f]) ELSE p[f]]
\* Faulty: the users of shares are not taken over.
UpdatedSharesAnew(p, rows) == [n \in DOMAIN p |-> <<p[n], "nobody">>]
\* The users of a share that keeps its name stay.
UpdatedShares(p, rows) ==
    [n \in DOMAIN p |-> <<p[n], IF n \in DOMAIN rows THEN rows[n][2] ELSE "nobody">>]
UpdatedAuth(p) == p
UpdatedTls(p) == [p EXCEPT !["mode"] = OrDefault(@)]

UpdatedTable(s, p, rows) ==
    CASE s = "paths" -> UpdatedPaths(p)
      [] s = "staging" -> UpdatedStaging(p)
      [] s = "limits" -> UpdatedLimits(p)
      [] s = "ui" -> UpdatedUi(p)
      [] s = "rclone" -> UpdatedRclone(p, rows)
      [] s = "indexing" -> UpdatedIndexing(p)
      [] s = "shares" -> UpdatedShares(p, rows)
      [] s = "auth" -> UpdatedAuth(p)
      [] s = "tls" -> UpdatedTls(p)
Updated(t, p) ==
    [s \in DOMAIN t |-> IF s \in DOMAIN p THEN UpdatedTable(s, p[s], t[s]) ELSE t[s]]

SavePage ==
    /\ page # None
    /\ tables' = Updated(tables, Collected(page.form))
    /\ settings' = Load(tables') /\ page' = None
    /\ UNCHANGED <<doc, backup, edits>>

\* The users of a share are in none of the payloads: setting them writes the
\* shares as the server has them, with the users that the table has.
MutateShareUser ==
    /\ DOMAIN settings["shares"] # {}
    /\ tables' = Updated(tables, Restricted(Described(settings), {"shares"}))
    /\ settings' = Load(tables')
    /\ UNCHANGED <<page, doc, backup, edits>>

-----------------------------------------------------------------------------
(* Other operations of the administration.                                 *)

\* A domain may be added with no cookie in its jar yet.  The server keeps its
\* settings until it reloads.
SaveCookie ==
    /\ Edited
    /\ \E cookie \in CookieRows \ {NoRow} :
           tables' = [tables EXCEPT !["cookies"] = Upserted(@, cookie)]
    /\ UNCHANGED <<settings, page, doc, backup>>

\* A remote is created only while there is no row: get_rclone returns the
\* remotes of a row as text, which takes no new item.
CreateRemote ==
    /\ Edited /\ tables["rclone"] = NoRow
    /\ tables' = [tables EXCEPT !["rclone"] =
                     [f \in RcloneColumns |-> IF f = "remotes" THEN "other" ELSE BuiltIn(f)]]
    /\ UNCHANGED <<settings, page, doc, backup>>

Reload ==
    /\ settings' = Load(tables)
    /\ UNCHANGED <<tables, page, doc, backup, edits>>

-----------------------------------------------------------------------------
(* Export and import.                                                      *)

\* Of the indexing section the limits of domains are left out.
ExportedRow(s, row) == Restricted(row, Columns[s] \ PerDomain)
\* Faulty: the export leaves out the users of shares.
ExportedBare(t) == [Restricted(t, Named) EXCEPT !["shares"] = [n \in DOMAIN @ |-> <<@[n][1], "nobody">>]]
ExportedNamed(t) == Restricted(t, Named)

\* A row of config_users has no purpose to export, and backupmgmt.py does not
\* import the base64 that it encodes the content of cookies with: either raises,
\* and there is no export.
Exportable(t) ==
    t["users"] = {} /\ \A n \in DOMAIN t["cookies"] : t["cookies"][n] = "empty"
Exported(t) ==
    Over(ExportedNamed(t), [s \in {x \in Sections : t[x] # NoRow} |-> ExportedRow(s, t[s])])

Export ==
    /\ Exportable(tables)
    /\ doc' = Exported(tables) /\ backup' = Load(tables)
    /\ UNCHANGED <<tables, settings, page, edits>>

\* The document is edited: a key or a section is removed, a field changed.
EditDocument ==
    /\ Edited /\ backup' = None
    /\ \/ \E s \in DOMAIN doc : doc' = Restricted(doc, DOMAIN doc \ {s})
       \/ \E s \in DOMAIN doc \cap Sections : \E f \in DOMAIN doc[s] \cap Editable :
             \/ doc' = [doc EXCEPT ![s] = Restricted(@, Columns[s] \ {f})]
             \/ \E v \in ValuesOf(f) \ {doc[s][f]} : doc' = [doc EXCEPT ![s][f] = v]
    /\ UNCHANGED <<tables, settings, page>>

\* A key that a section lacks is not left alone: it gets its default.
Filled(s, part) == Over(part, [f \in Columns[s] |-> BuiltIn(f)])

RestoredPaths(rows) == Restricted(rows, Recognised)
RestoredStaging(part) == Filled("staging", part)
RestoredLimits(part) == Filled("limits", part)
RestoredUi(part, row) == IF Filled("ui", part)["theme"] = "falsy" THEN row ELSE Filled("ui", part)
\* save_indexing needs the limits of domains, which _process_indexing never
\* gives: the section is passed over with a warning.
RestoredIndexing(part, row) ==
    LET given == Restricted(Filled("indexing", part), IndexingColumns \ PerDomain) IN
    IF DOMAIN given = IndexingColumns THEN given ELSE row
RestoredAuth(part) == Filled("auth", part)
RestoredTls(part) == Filled("tls", part)
RestoredRclone(part) ==
    LET all == Filled("rclone", part) IN
    [f \in RcloneColumns |-> IF f \in Speeds THEN OrDefault(all[f]) ELSE all[f]]
\* The same import is missing where base64 is to be undone: the cookie is passed
\* over with a warning.
RestoredCookies(rows) == Restricted(rows, {n \in DOMAIN rows : rows[n] # "encoded"})
RestoredShares(rows) == rows
RestoredUsers(names) == names

RestoredTable(s, part, rows) ==
    CASE s = "paths" -> Upserted(rows, RestoredPaths(part))
      [] s = "staging" -> RestoredStaging(part)
      [] s = "limits" -> RestoredLimits(part)
      [] s = "ui" -> RestoredUi(part, rows)
      [] s = "indexing" -> RestoredIndexing(part, rows)
      [] s = "auth" -> RestoredAuth(part)
      [] s = "tls" -> RestoredTls(part)
      [] s = "rclone" -> RestoredRclone(part)
      [] s = "cookies" -> Upserted(rows, RestoredCookies(part))
      [] s = "shares" -> Upserted(rows, RestoredShares(part))
      [] s = "users" -> rows \cup RestoredUsers(part)
Restored(t, d) ==
    [s \in DOMAIN t |-> IF s \in DOMAIN d THEN RestoredTable(s, d[s], t[s]) ELSE t[s]]

\* Something of the document must have been valid.
Valid(d) ==
    \/ DOMAIN d \cap {"staging", "limits", "auth", "tls", "rclone"} # {}
    \/ "ui" \in DOMAIN d /\ Filled("ui", d["ui"])["theme"] # "falsy"
    \/ "paths" \in DOMAIN d /\ DOMAIN RestoredPaths(d["paths"]) # {}
    \/ "cookies" \in DOMAIN d /\ DOMAIN RestoredCookies(d["cookies"]) # {}
    \/ "shares" \in DOMAIN d /\ DOMAIN RestoredShares(d["shares"]) # {}
    \/ "users" \in DOMAIN d /\ d["users"] # {}

Import ==
    /\ Valid(doc) = TRUE
    /\ tables' = Restored(tables, doc) /\ settings' = Load(tables')
    /\ UNCHANGED <<page, doc, backup, edits>>

\* A reload that dumps: the export goes to bootstrap.yml, and the services that
\* start again import that file.  When the export raises, nothing else happens.
DumpReload ==
    /\ Exportable(tables)
    /\ tables' = IF Valid(Exported(tables)) THEN Restored(tables, Exported(tables)) ELSE tables
    /\ settings' = Load(tables')
    /\ UNCHANGED <<page, doc, backup, edits>>

SettingsNext ==
    \/ OpenPage \/ SavePage \/ MutateShareUser
    \/ \E f \in Editable : ChangeField(f)
    \/ \E s \in {"paths", "shares"} : ChangeList(s)
    \/ SaveCookie \/ CreateRemote \/ Reload
    \/ Export \/ EditDocument \/ Import \/ DumpReload

SettingsSpec == SettingsInit /\ [][SettingsNext]_settingsVars

-----------------------------------------------------------------------------
(* Properties.                                                             *)

\* Every row has all the columns of its table, whichever of the ways wrote it.
SettingsTypeOK ==
    /\ \A s \in Sections : (tables[s] = NoRow \/ IsRow(s, tables[s])) /\ IsRow(s, settings[s])
    /\ \A s \in Named : {tables[s], settings[s]} \subseteq TablesOf[s]
    /\ tables["users"] \subseteq Users
    /\ IsDocument(doc)
    /\ page = None \/ \A s \in Sections : IsRow(s, page.form[s])
    /\ edits \in 0 .. MaxEdits

\* What a save of the page may make of a field nobody touched: zero, or an empty
\* mode of TLS, may become the default, a second provider may go off, and the
\* challenge changes.
MayBecome(f, from, to, auth) ==
    \/ to = from
    \/ f \in Numbers \cup {"mode"} /\ from = "falsy" /\ to = "default"
    \/ f \in Providers /\ to = "falsy" /\ \E g \in Providers \ {f} : auth[g] = "other"
    \/ f = "challenge"

\* Saving the settings page (update_settings_detail) never touches what the
\* page does not send, however old the page is: cookies, the users of shares
\* that keep their name, remotes, imported users.  And if the page showed what
\* was stored, what the administrator did not touch stays as it was.
PageKeepsTheRest ==
    [][page' = None /\ SavePage =>
        /\ tables'["cookies"] = tables["cookies"] /\ tables'["users"] = tables["users"]
        /\ LoadRow("rclone", tables'["rclone"])["remotes"]
               = LoadRow("rclone", tables["rclone"])["remotes"]
        /\ \A n \in DOMAIN tables["shares"] \cap DOMAIN tables'["shares"] :
               tables'["shares"][n][2] = tables["shares"][n][2]
        /\ page.current /\ page.had = Load(tables) =>
               /\ \A s \in Sections : \A f \in Columns[s] \ page.touched :
                      MayBecome(f, page.had[s][f], settings'[s][f], page.had["auth"])
               /\ \A s \in Named :
                      LET same == NamesOf[s] \ page.touched IN
                      Restricted(settings'[s], same) = Restricted(page.had[s], same)]_settingsVars

\* An export that nobody edited, imported into whatever there is now, brings
\* back every setting it was made of, but for the indexing section and the
\* datadirs that an import does not recognise; and a reload that dumps, which
\* imports its own export (import_config_from_data), changes no setting.  That is
\* about exports there are: with a cookie stored, or a user imported, there is
\* none (Exportable), so no content of a cookie ever makes the round trip.
ExportRoundTrips ==
    /\ backup # None =>
           LET now == Load(Restored(tables, doc)) IN
           /\ \A s \in (DOMAIN doc \cap Sections) \ {"indexing"} : now[s] = backup[s]
           /\ \A s \in Named : \A n \in DOMAIN backup[s] :
                  (s = "paths" /\ n \notin Recognised) \/ now[s][n] = backup[s][n]
    /\ Exportable(tables) => Load(Restored(tables, Exported(tables))) = Load(tables)
=============================================================================
