---------------------------- MODULE ConfigProofs -----------------------------
(***************************************************************************)
(* Proofs about Settings, for any datadirs, shares, domains, users,        *)
(* documents to begin with and number of edits, and about ConfigStore, for *)
(* any administrators, cachelinks, sections, payloads and documents and    *)
(* any number of requests and faults.                                      *)
(*                                                                         *)
(* The invariant SettingsInv says of the settings page that what was not   *)
(* touched since it was opened is as it was shown, and of a document that  *)
(* is an export that it has the rows the settings of that time came from.  *)
(* A row of ui never has an empty theme: an import of one would be passed  *)
(* over, and the export would not bring it back.                           *)
(*                                                                         *)
(* Of the steps of ConfigStore, TypeInv says what a request carries at     *)
(* each place, LinkInv what is known of the cachelinks between the DELETE  *)
(* and the COMMIT of a save, and TablesInv where an update is in what it   *)
(* should make of the settings.                                            *)
(***************************************************************************)
EXTENDS Settings, ConfigStore, FiniteSetTheorems, SequenceTheorems, TLAPS

-----------------------------------------------------------------------------
(* The sections and their columns. *)

SectionNames == {"staging", "limits", "ui", "indexing", "auth", "tls", "rclone"}

LEMMA SectionsAre ==
    /\ Sections = SectionNames
    /\ Columns["staging"] = StagingColumns /\ Columns["limits"] = LimitsColumns
    /\ Columns["ui"] = UiColumns /\ Columns["indexing"] = IndexingColumns
    /\ Columns["auth"] = AuthColumns /\ Columns["tls"] = TlsColumns
    /\ Columns["rclone"] = RcloneColumns
BY DEF Sections, Columns, SectionNames

LEMMA NamedAre ==
    /\ Named = {"paths", "shares", "cookies"}
    /\ TablesOf["paths"] = PathRows /\ TablesOf["shares"] = ShareRows
    /\ TablesOf["cookies"] = CookieRows
    /\ EntriesOf["paths"] = PathRows /\ EntriesOf["shares"] = ShareRows
    /\ EntriesOf["cookies"] = CookieEntries
    /\ NamesOf["paths"] = Datadirs /\ NamesOf["shares"] = Shares
    /\ NamesOf["cookies"] = Domains
BY DEF Named, TablesOf, EntriesOf, NamesOf

LEMMA SeparateTables ==
    /\ Sections \cap Named = {} /\ "users" \notin Sections \cup Named
    /\ "none" \notin Sections \cup Named
BY SectionsAre, NamedAre DEF SectionNames

LEMMA ColumnsAre ==
    /\ "remotes" \in RcloneColumns /\ "remotes" \notin WithDefault
    /\ Speeds = RcloneColumns \cap WithDefault
    /\ "size_gb" \in StagingColumns \cap WithDefault
    /\ "max_zip_total_gb" \in LimitsColumns \cap WithDefault
    /\ "mode" \in TlsColumns \cap WithDefault
    /\ UiColumns = {"theme"} /\ "theme" \in WithDefault
    /\ Numbers \subseteq WithDefault /\ "challenge" \in WithDefault
    /\ Budgets \subseteq Numbers /\ Providers \cap WithDefault = {}
    /\ Providers \subseteq AuthColumns
<1>1. "remotes" \in RcloneColumns /\ "remotes" \notin WithDefault
  BY DEF RcloneColumns, WithDefault, Numbers, Speeds, Budgets, PerDomain
<1>2. Speeds = RcloneColumns \cap WithDefault
  BY DEF RcloneColumns, WithDefault, Numbers, Speeds, Budgets, PerDomain
<1>3. Providers \cap WithDefault = {}
  BY DEF Providers, WithDefault, Numbers, Speeds, Budgets, PerDomain
<1>4. Providers \subseteq AuthColumns
  BY DEF Providers, AuthColumns
<1>. QED
  BY <1>1, <1>2, <1>3, <1>4
  DEF StagingColumns, LimitsColumns, TlsColumns, UiColumns, WithDefault, Numbers

LEMMA LimitsOfDomainsAre ==
    /\ PerDomain \subseteq IndexingColumns /\ PerDomain # {}
    /\ \A s \in Sections \ {"indexing"} : Columns[s] \cap PerDomain = {}
<1>1. \A s \in SectionNames \ {"indexing"} :
         s \in {"staging", "limits", "ui", "auth", "tls", "rclone"}
  BY DEF SectionNames
<1>2. /\ StagingColumns \cap PerDomain = {} /\ LimitsColumns \cap PerDomain = {}
      /\ UiColumns \cap PerDomain = {}
  BY DEF StagingColumns, LimitsColumns, UiColumns, PerDomain
<1>3. AuthColumns \cap PerDomain = {} /\ TlsColumns \cap PerDomain = {}
  BY DEF AuthColumns, TlsColumns, PerDomain
<1>4. RcloneColumns \cap PerDomain = {}
  BY DEF RcloneColumns, Speeds, PerDomain
<1>5. PerDomain \subseteq IndexingColumns /\ PerDomain # {}
  BY DEF IndexingColumns, PerDomain
<1>. QED
  BY <1>1, <1>2, <1>3, <1>4, <1>5, SectionsAre

\* The values of a field are values; what the code puts for nothing is one.
LEMMA ValuesAre ==
    ASSUME NEW f
    PROVE  /\ ValuesOf(f) \subseteq Values /\ "falsy" \in ValuesOf(f)
           /\ "other" \in ValuesOf(f) /\ BuiltIn(f) \in ValuesOf(f)
           /\ f \in WithDefault => ValuesOf(f) = Values /\ BuiltIn(f) = "default"
           /\ f \in WithDefault => \A v \in Values : OrDefault(v) \in ValuesOf(f)
BY DEF ValuesOf, Values, BuiltIn, OrDefault

-----------------------------------------------------------------------------
(* What the operators make of tables, rows and documents. *)

LEMMA LoadIs ==
    ASSUME NEW t, DOMAIN t = Tables
    PROVE  /\ Load(t) = [s \in Sections \cup Named |-> Load(t)[s]]
           /\ \A s \in Sections : Load(t)[s] = LoadSection(s, t[s])
           /\ \A s \in Named : Load(t)[s] = t[s]
<1>1. /\ DOMAIN LoadNamed(t) = Named
      /\ \A s \in Named : LoadNamed(t)[s] = t[s]
  BY DEF LoadNamed, Restricted, Tables
<1>. DEFINE rest == [s \in Sections |-> LoadSection(s, t[s])]
<1>2. DOMAIN rest = Sections /\ \A s \in Sections : rest[s] = LoadSection(s, t[s])
  OBVIOUS
<1>3. Load(t) = Over(LoadNamed(t), rest)
  BY DEF Load
<1>. HIDE DEF rest
<1>. QED
  BY <1>1, <1>2, <1>3, SeparateTables DEF Over

LEMMA RowsAre ==
    ASSUME NEW s \in Sections, NEW row, row = NoRow \/ IsRow(s, row)
    PROVE  /\ IsRow(s, LoadRow(s, row)) /\ IsRow(s, LoadSection(s, row))
           /\ s \notin {"rclone", "ui"} => LoadSection(s, row) = LoadRow(s, row)
           /\ s \in {"rclone", "ui"} => LoadSection(s, row) =
                [f \in Columns[s] |-> IF f \in WithDefault THEN OrDefault(LoadRow(s, row)[f])
                                                        ELSE LoadRow(s, row)[f]]
<1>1. IsRow(s, LoadRow(s, row))
  BY ValuesAre DEF LoadRow, IsRow
<1>2. IsRow(s, LoadRclone(s, row))
  BY <1>1, ValuesAre DEF LoadRclone, IsRow
<1>. QED
  BY <1>1, <1>2, SectionsAre DEF LoadSection, SectionNames, LoadAuth, LoadTls, LoadRclone

\* Filling in what a part of a section lacks.
LEMMA FilledIs ==
    ASSUME NEW s \in Sections, NEW p, IsPart(s, p)
    PROVE  /\ IsRow(s, Filled(s, p))
           /\ \A f \in DOMAIN p : Filled(s, p)[f] = p[f]
           /\ DOMAIN p = Columns[s] => Filled(s, p) = p
BY ValuesAre DEF Filled, IsPart, IsRow, Over

\* Tables with names.
LEMMA PartialAre ==
    ASSUME NEW S, NEW T, NEW p \in Partial(S, T)
    PROVE  /\ DOMAIN p \subseteq S /\ p \in [DOMAIN p -> T]
           /\ \A N : Restricted(p, N) \in Partial(S, T)
           /\ \A q \in Partial(S, T) : Over(q, p) \in Partial(S, T)
<1>. DEFINE Tab(q) == DOMAIN q \subseteq S /\ q \in [DOMAIN q -> T]
<1>1. \A q : q \in Partial(S, T) <=> Tab(q)
  <2>1. ASSUME NEW q \in Partial(S, T) PROVE Tab(q)
    BY DEF Partial
  <2>2. ASSUME NEW q, Tab(q) PROVE q \in Partial(S, T)
    BY <2>2 DEF Partial
  <2>. QED
    BY <2>1, <2>2
<1>2. \A N : Tab(Restricted(p, N))
  BY <1>1 DEF Restricted
<1>3. \A q \in Partial(S, T) : Tab(Over(q, p))
  BY <1>1 DEF Over
<1>. HIDE DEF Tab
<1>. QED
  BY <1>1, <1>2, <1>3 DEF Tab

\* Of cookies in a document, those in base64 are passed over; rows have none.
LEMMA CookiesAre ==
    /\ \A p \in CookieEntries : RestoredCookies(p) \in CookieRows
    /\ \A p \in CookieRows : p \in CookieEntries /\ RestoredCookies(p) = p
    /\ \A s \in Named : TablesOf[s] \subseteq EntriesOf[s]
<1>1. ASSUME NEW p \in CookieEntries PROVE RestoredCookies(p) \in CookieRows
  <2>1. DOMAIN p \subseteq Domains /\ p \in [DOMAIN p -> {"empty", "one", "encoded"}]
    BY PartialAre DEF CookieEntries
  <2>. DEFINE N == {n \in DOMAIN p : p[n] # "encoded"}
  <2>2. RestoredCookies(p) = [n \in N |-> p[n]]
    BY DEF RestoredCookies, Restricted
  <2>3. N \in SUBSET Domains /\ [n \in N |-> p[n]] \in [N -> {"empty", "one"}]
    BY <2>1
  <2>. HIDE DEF N
  <2>. QED
    BY <2>2, <2>3 DEF CookieRows, Partial
<1>2. ASSUME NEW p \in CookieRows PROVE p \in CookieEntries /\ RestoredCookies(p) = p
  <2>1. DOMAIN p \subseteq Domains /\ p \in [DOMAIN p -> {"empty", "one"}]
    BY PartialAre DEF CookieRows
  <2>2. p \in [DOMAIN p -> {"empty", "one", "encoded"}] /\ DOMAIN p \in SUBSET Domains
    BY <2>1
  <2>3. p \in CookieEntries
    BY <2>2 DEF CookieEntries, Partial
  <2>4. {n \in DOMAIN p : p[n] # "encoded"} = DOMAIN p
    BY <2>1
  <2>5. RestoredCookies(p) = [n \in DOMAIN p |-> p[n]]
    BY <2>4 DEF RestoredCookies, Restricted
  <2>. QED
    BY <2>1, <2>3, <2>5
<1>3. \A s \in Named : TablesOf[s] \subseteq EntriesOf[s]
  BY <1>2, NamedAre
<1>. QED
  BY <1>1, <1>2, <1>3

\* Restored and Updated, a table at a time.
LEMMA RestoredIs ==
    ASSUME NEW t, NEW d, DOMAIN t = Tables
    PROVE  /\ Restored(t, d) = [s \in Tables |-> Restored(t, d)[s]]
           /\ \A s \in Tables \ DOMAIN d : Restored(t, d)[s] = t[s]
           /\ "paths" \in DOMAIN d =>
                Restored(t, d)["paths"] = Upserted(t["paths"], RestoredPaths(d["paths"]))
           /\ "shares" \in DOMAIN d => Restored(t, d)["shares"] = Upserted(t["shares"], d["shares"])
           /\ "cookies" \in DOMAIN d =>
                Restored(t, d)["cookies"] = Upserted(t["cookies"], RestoredCookies(d["cookies"]))
           /\ "users" \in DOMAIN d => Restored(t, d)["users"] = t["users"] \cup d["users"]
           /\ \A s \in {"staging", "limits", "auth", "tls"} \cap DOMAIN d :
                Restored(t, d)[s] = Filled(s, d[s])
           /\ "ui" \in DOMAIN d => Restored(t, d)["ui"] = RestoredUi(d["ui"], t["ui"])
           /\ "indexing" \in DOMAIN d =>
                Restored(t, d)["indexing"] = RestoredIndexing(d["indexing"], t["indexing"])
           /\ "rclone" \in DOMAIN d => Restored(t, d)["rclone"] = RestoredRclone(d["rclone"])
<1>1. Tables = {"staging", "limits", "ui", "indexing", "auth", "tls", "rclone",
                "paths", "shares", "cookies", "users"}
  BY SectionsAre, NamedAre DEF Tables, SectionNames
<1>2. Restored(t, d) = [s \in Tables |-> Restored(t, d)[s]]
  BY DEF Restored
<1>3. \A s \in Tables \ DOMAIN d : Restored(t, d)[s] = t[s]
  BY DEF Restored
<1>4. /\ "paths" \in DOMAIN d =>
           Restored(t, d)["paths"] = Upserted(t["paths"], RestoredPaths(d["paths"]))
      /\ "shares" \in DOMAIN d => Restored(t, d)["shares"] = Upserted(t["shares"], d["shares"])
      /\ "cookies" \in DOMAIN d =>
           Restored(t, d)["cookies"] = Upserted(t["cookies"], RestoredCookies(d["cookies"]))
      /\ "users" \in DOMAIN d => Restored(t, d)["users"] = t["users"] \cup d["users"]
  BY <1>1 DEF Restored, RestoredTable, RestoredShares, RestoredUsers
<1>5. \A s \in {"staging", "limits", "auth", "tls"} \cap DOMAIN d :
         Restored(t, d)[s] = Filled(s, d[s])
  BY <1>1 DEF Restored, RestoredTable, RestoredStaging, RestoredLimits, RestoredAuth, RestoredTls
<1>6. /\ "ui" \in DOMAIN d => Restored(t, d)["ui"] = RestoredUi(d["ui"], t["ui"])
      /\ "indexing" \in DOMAIN d =>
           Restored(t, d)["indexing"] = RestoredIndexing(d["indexing"], t["indexing"])
      /\ "rclone" \in DOMAIN d => Restored(t, d)["rclone"] = RestoredRclone(d["rclone"])
  BY <1>1 DEF Restored, RestoredTable
<1>. QED
  BY <1>2, <1>3, <1>4, <1>5, <1>6

LEMMA UpdatedIs ==
    ASSUME NEW t, NEW p, DOMAIN t = Tables
    PROVE  /\ Updated(t, p) = [s \in Tables |-> Updated(t, p)[s]]
           /\ \A s \in Tables \ DOMAIN p : Updated(t, p)[s] = t[s]
           /\ \A s \in {"paths", "auth"} \cap DOMAIN p : Updated(t, p)[s] = p[s]
           /\ "staging" \in DOMAIN p => Updated(t, p)["staging"] = UpdatedStaging(p["staging"])
           /\ "limits" \in DOMAIN p => Updated(t, p)["limits"] = UpdatedLimits(p["limits"])
           /\ "ui" \in DOMAIN p => Updated(t, p)["ui"] = UpdatedUi(p["ui"])
           /\ "rclone" \in DOMAIN p =>
                  Updated(t, p)["rclone"] = UpdatedRclone(p["rclone"], t["rclone"])
           /\ "indexing" \in DOMAIN p => Updated(t, p)["indexing"] = UpdatedIndexing(p["indexing"])
           /\ "shares" \in DOMAIN p =>
                  Updated(t, p)["shares"] = UpdatedShares(p["shares"], t["shares"])
           /\ "tls" \in DOMAIN p => Updated(t, p)["tls"] = UpdatedTls(p["tls"])
<1>1. Tables = {"staging", "limits", "ui", "indexing", "auth", "tls", "rclone",
                "paths", "shares", "cookies", "users"}
  BY SectionsAre, NamedAre DEF Tables, SectionNames
<1>2. Updated(t, p) = [s \in Tables |-> Updated(t, p)[s]]
  BY DEF Updated
<1>3. \A s \in Tables \ DOMAIN p : Updated(t, p)[s] = t[s]
  BY DEF Updated
<1>4. /\ \A s \in {"paths", "auth"} \cap DOMAIN p : Updated(t, p)[s] = p[s]
      /\ "staging" \in DOMAIN p => Updated(t, p)["staging"] = UpdatedStaging(p["staging"])
      /\ "limits" \in DOMAIN p => Updated(t, p)["limits"] = UpdatedLimits(p["limits"])
      /\ "ui" \in DOMAIN p => Updated(t, p)["ui"] = UpdatedUi(p["ui"])
  BY <1>1 DEF Updated, UpdatedTable, UpdatedPaths, UpdatedAuth
<1>5. /\ "rclone" \in DOMAIN p => Updated(t, p)["rclone"] = UpdatedRclone(p["rclone"], t["rclone"])
      /\ "indexing" \in DOMAIN p => Updated(t, p)["indexing"] = UpdatedIndexing(p["indexing"])
      /\ "shares" \in DOMAIN p => Updated(t, p)["shares"] = UpdatedShares(p["shares"], t["shares"])
      /\ "tls" \in DOMAIN p => Updated(t, p)["tls"] = UpdatedTls(p["tls"])
  BY <1>1 DEF Updated, UpdatedTable
<1>. QED
  BY <1>2, <1>3, <1>4, <1>5

\* The tables of the database are in order; so is what is loaded from them.
TablesAre(t) ==
    /\ t = [s \in Tables |-> t[s]]
    /\ \A s \in Sections : t[s] = NoRow \/ IsRow(s, t[s])
    /\ \A s \in Named : t[s] \in TablesOf[s]
    /\ t["users"] \subseteq Users
    /\ t["ui"] # NoRow => t["ui"]["theme"] # "falsy"

SettingsAre(st) ==
    /\ st = [s \in Sections \cup Named |-> st[s]]
    /\ \A s \in Sections : IsRow(s, st[s])
    /\ \A s \in Named : st[s] \in TablesOf[s]

LEMMA LoadedAre ==
    ASSUME NEW t, TablesAre(t)
    PROVE  SettingsAre(Load(t))
<1>1. DOMAIN t = Tables
  BY DEF TablesAre
<1>2. \A s \in Sections : IsRow(s, LoadSection(s, t[s]))
  BY RowsAre DEF TablesAre
<1>. QED
  BY <1>1, <1>2, LoadIs DEF TablesAre, SettingsAre

\* An import leaves the tables in order.
LEMMA RestoredAre ==
    ASSUME NEW t, TablesAre(t), NEW d, IsDocument(d)
    PROVE  TablesAre(Restored(t, d))
<1>. DEFINE r == Restored(t, d)
<1>1. DOMAIN t = Tables
  BY DEF TablesAre
<1>2. r = [s \in Tables |-> r[s]]
  BY <1>1, RestoredIs
<1>3. \A s \in Tables \ DOMAIN d : r[s] = t[s]
  BY <1>1, RestoredIs
<1>4. \A s \in Sections \cap DOMAIN d : IsRow(s, Filled(s, d[s]))
  BY FilledIs DEF IsDocument
<1>5. \A s \in {"staging", "limits", "auth", "tls"} \cap DOMAIN d : IsRow(s, r[s])
  BY <1>1, <1>4, RestoredIs, SectionsAre DEF SectionNames
<1>6. "ui" \in DOMAIN d =>
         /\ r["ui"] = NoRow \/ IsRow("ui", r["ui"])
         /\ r["ui"] # NoRow => r["ui"]["theme"] # "falsy"
  BY <1>1, <1>4, RestoredIs, SectionsAre DEF SectionNames, RestoredUi, TablesAre
<1>7. "indexing" \in DOMAIN d => r["indexing"] = t["indexing"]
  <2>. DEFINE given == Restricted(Filled("indexing", d["indexing"]), IndexingColumns \ PerDomain)
  <2>1. DOMAIN given # IndexingColumns
    BY LimitsOfDomainsAre DEF Restricted
  <2>. QED
    BY <1>1, <2>1, RestoredIs DEF RestoredIndexing
<1>8. "rclone" \in DOMAIN d => IsRow("rclone", r["rclone"])
  <2>. SUFFICES ASSUME "rclone" \in DOMAIN d PROVE IsRow("rclone", r["rclone"])
    OBVIOUS
  <2>1. IsRow("rclone", Filled("rclone", d["rclone"]))
    BY <1>4, SectionsAre DEF SectionNames
  <2>2. r["rclone"] = RestoredRclone(d["rclone"])
    BY <1>1, RestoredIs
  <2>. QED
    BY <2>1, <2>2, ColumnsAre, ValuesAre, SectionsAre DEF RestoredRclone, IsRow
<1>9. \A s \in Sections : r[s] = NoRow \/ IsRow(s, r[s])
  <2>1. \A s \in Sections : s \in Tables
    BY DEF Tables
  <2>. HIDE DEF r
  <2>. QED
    BY <2>1, <1>3, <1>5, <1>6, <1>7, <1>8, SectionsAre DEF SectionNames, TablesAre
<1>10. \A s \in Named : r[s] \in TablesOf[s]
  <2>1. \A s \in Named \cap DOMAIN d : d[s] \in EntriesOf[s] /\ t[s] \in TablesOf[s]
    BY DEF IsDocument, TablesAre
  <2>2. "paths" \in DOMAIN d => r["paths"] \in PathRows
    BY <1>1, <2>1, NamedAre, RestoredIs, PartialAre DEF PathRows, Upserted, RestoredPaths
  <2>3. "shares" \in DOMAIN d => r["shares"] \in ShareRows
    BY <1>1, <2>1, NamedAre, RestoredIs, PartialAre DEF ShareRows, Upserted
  <2>4. "cookies" \in DOMAIN d => r["cookies"] \in CookieRows
    <3>1. "cookies" \in DOMAIN d => RestoredCookies(d["cookies"]) \in CookieRows
      BY <2>1, NamedAre, CookiesAre
    <3>. QED
      BY <1>1, <2>1, <3>1, NamedAre, RestoredIs, PartialAre DEF CookieRows, Upserted
  <2>5. \A s \in Named \ DOMAIN d : r[s] \in TablesOf[s]
    BY <1>3 DEF TablesAre, Tables
  <2>. QED
    BY <2>2, <2>3, <2>4, <2>5, NamedAre
<1>11. r["users"] \subseteq Users
  <2>1. t["users"] \subseteq Users /\ "users" \in Tables
    BY DEF TablesAre, Tables
  <2>2. CASE "users" \in DOMAIN d
    <3>1. d["users"] \subseteq Users
      BY <2>2 DEF IsDocument
    <3>. QED
      BY <1>1, <2>1, <2>2, <3>1, RestoredIs
  <2>. QED
    BY <1>3, <2>1, <2>2
<1>12. r["ui"] # NoRow => r["ui"]["theme"] # "falsy"
  BY <1>3, <1>6, SectionsAre DEF TablesAre, Tables, SectionNames
<1>. HIDE DEF r
<1>. QED
  BY <1>2, <1>9, <1>10, <1>11, <1>12 DEF TablesAre, r

\* What the page has in its form.
FormLists == [paths |-> PathRows, shares |-> Partial(Shares, {"one", "two"})]
FormIs(form) ==
    /\ form = [s \in Sections \cup {"paths", "shares"} |-> form[s]]
    /\ \A s \in Sections : IsRow(s, form[s])
    /\ \A s \in {"paths", "shares"} : form[s] \in FormLists[s]

LEMMA DescribedIs ==
    ASSUME NEW st, SettingsAre(st)
    PROVE  /\ \A s \in Sections \cup {"paths"} : Described(st)[s] = st[s]
           /\ DOMAIN Described(st) = Sections \cup Named
           /\ Described(st)["shares"] = [n \in DOMAIN st["shares"] |-> st["shares"][n][1]]
           /\ Described(st)["shares"] \in Partial(Shares, {"one", "two"})
<1>1. /\ "paths" \in Named /\ "shares" \in Named /\ "cookies" \in Named
      /\ \A s \in Sections \cup {"paths"} : s \notin {"shares", "cookies"}
  BY NamedAre, SeparateTables
<1>2. DOMAIN st = Sections \cup Named
  BY DEF SettingsAre
<1>3. st["shares"] \in Partial(Shares, {"one", "two"} \X Users)
  BY <1>1, NamedAre DEF SettingsAre, ShareRows
<1>. DEFINE names == [n \in DOMAIN st["shares"] |-> st["shares"][n][1]]
<1>4. names \in Partial(Shares, {"one", "two"})
  <2>1. /\ DOMAIN st["shares"] \subseteq Shares
        /\ st["shares"] \in [DOMAIN st["shares"] -> {"one", "two"} \X Users]
    BY <1>3, PartialAre
  <2>2. names \in [DOMAIN st["shares"] -> {"one", "two"}]
    BY <2>1
  <2>. HIDE DEF names
  <2>. QED
    BY <2>1, <2>2 DEF Partial
<1>5. /\ Described(st)["shares"] = names
      /\ DOMAIN Described(st) = DOMAIN st
      /\ \A s \in Sections \cup {"paths"} : Described(st)[s] = st[s]
  <2>1. Described(st) = [st EXCEPT !["shares"] = names, !["cookies"] = DOMAIN st["cookies"]]
    BY DEF Described
  <2>. HIDE DEF names
  <2>. QED
    BY <1>1, <1>2, <2>1
<1>. QED
  BY <1>2, <1>4, <1>5

\* The row that the page shows of a section.
Shown(s, row) == [f \in Columns[s] |-> ShownField(f, row[f])]

LEMMA ShownIs ==
    ASSUME NEW s \in Sections, NEW row, IsRow(s, row)
    PROVE  IsRow(s, Shown(s, row))
<1>1. ASSUME NEW f \in Columns[s] PROVE ShownField(f, row[f]) \in ValuesOf(f)
  BY ValuesAre, ColumnsAre DEF ShownField, IsRow, OrDefault, Values
<1>. QED
  BY <1>1, ValuesAre DEF Shown, IsRow

LEMMA OneProviderIs ==
    ASSUME NEW a, IsRow("auth", a)
    PROVE  /\ IsRow("auth", OneProvider(a))
           /\ \A f \in AuthColumns :
                \/ OneProvider(a)[f] = a[f]
                \/ /\ f \in Providers /\ OneProvider(a)[f] = "falsy"
                   /\ \E g \in Providers \ {f} : a[g] = "other"
<1>1. Columns["auth"] = AuthColumns /\ Providers \subseteq AuthColumns
  BY SectionsAre, ColumnsAre
<1>2. DOMAIN a = AuthColumns
  BY <1>1 DEF IsRow
<1>3. \A f \in AuthColumns \ {"ldap_on", "proxy_on"} : OneProvider(a)[f] = a[f]
  BY <1>2 DEF OneProvider
<1>4. /\ OneProvider(a)["ldap_on"] = IF a["oidc_on"] = "other" THEN "falsy" ELSE a["ldap_on"]
      /\ OneProvider(a)["proxy_on"] =
            IF "other" \in {a["oidc_on"], a["ldap_on"]} THEN "falsy" ELSE a["proxy_on"]
  BY <1>1, <1>2 DEF OneProvider, Providers
<1>5. OneProvider(a) = [f \in AuthColumns |-> OneProvider(a)[f]]
  BY <1>2 DEF OneProvider
<1>6. \A f \in AuthColumns :
         \/ OneProvider(a)[f] = a[f]
         \/ /\ f \in Providers /\ OneProvider(a)[f] = "falsy"
            /\ \E g \in Providers \ {f} : a[g] = "other"
  <2>1. ASSUME NEW f \in {"ldap_on", "proxy_on"}
        PROVE  \/ OneProvider(a)[f] = a[f]
               \/ /\ f \in Providers /\ OneProvider(a)[f] = "falsy"
                  /\ \E g \in Providers \ {f} : a[g] = "other"
    BY <1>4 DEF Providers
  <2>. QED
    BY <1>3, <2>1
<1>7. \A f \in AuthColumns : OneProvider(a)[f] \in ValuesOf(f) /\ OneProvider(a)[f] \in Values
  BY <1>1, <1>6, ValuesAre DEF IsRow
<1>. QED
  BY <1>1, <1>5, <1>6, <1>7 DEF IsRow

LEMMA PopulatedIs ==
    ASSUME NEW st, SettingsAre(st)
    PROVE  /\ FormIs(Populated(Described(st)))
           /\ \A s \in Sections \ {"auth"} : Populated(Described(st))[s] = Shown(s, st[s])
           /\ Populated(Described(st))["auth"] = OneProvider(Shown("auth", st["auth"]))
           /\ \A s \in {"paths", "shares"} : Populated(Described(st))[s] = Described(st)[s]
<1>. DEFINE d == Described(st)
            rows == [s \in Sections |-> IF s = "auth" THEN OneProvider(Shown("auth", d["auth"]))
                                                       ELSE Shown(s, d[s])]
            lists == Restricted(d, {"paths", "shares"})
<1>1. Populated(d) = Over(rows, lists)
  BY DEF Populated, Shown
<1>2. "auth" \in Sections /\ {"paths", "shares"} \subseteq Named
  BY SectionsAre, NamedAre DEF SectionNames
<1>3. /\ DOMAIN lists = {"paths", "shares"}
      /\ \A s \in {"paths", "shares"} : lists[s] = d[s]
  BY <1>2, DescribedIs DEF Restricted
<1>4. \A s \in Sections : d[s] = st[s]
  BY DescribedIs
<1>. HIDE DEF d, lists
<1>5. /\ DOMAIN rows = Sections
      /\ \A s \in Sections \ {"auth"} : rows[s] = Shown(s, st[s])
      /\ rows["auth"] = OneProvider(Shown("auth", st["auth"]))
  BY <1>2, <1>4
<1>6. \A s \in Sections : IsRow(s, rows[s])
  BY <1>2, <1>5, ShownIs, OneProviderIs DEF SettingsAre
<1>. HIDE DEF rows
<1>7. /\ Populated(d) = [s \in Sections \cup {"paths", "shares"} |-> Populated(d)[s]]
      /\ \A s \in Sections : Populated(d)[s] = rows[s]
      /\ \A s \in {"paths", "shares"} : Populated(d)[s] = d[s]
  BY <1>1, <1>2, <1>3, <1>5, SeparateTables DEF Over
<1>8. d["paths"] \in PathRows /\ d["shares"] \in Partial(Shares, {"one", "two"})
  BY <1>2, DescribedIs, NamedAre DEF SettingsAre, d
<1>9. FormIs(Populated(d))
  BY <1>6, <1>7, <1>8 DEF FormIs, FormLists
<1>. QED
  BY <1>2, <1>5, <1>7, <1>9 DEF d

\* An update by the page leaves the tables in order.
LEMMA CollectedIs ==
    ASSUME NEW form, FormIs(form)
    PROVE  /\ DOMAIN Collected(form) = Sections \cup {"paths", "shares"}
           /\ \A s \in (Sections \ {"rclone"}) \cup {"paths", "shares"} :
                  Collected(form)[s] = form[s]
           /\ DOMAIN Collected(form)["rclone"] = RcloneColumns \ {"remotes"}
           /\ \A f \in RcloneColumns \ {"remotes"} :
                  Collected(form)["rclone"][f] = form["rclone"][f]
<1>1. "rclone" \in Sections /\ "rclone" \notin {"paths", "shares"}
  BY SectionsAre DEF SectionNames
<1>2. DOMAIN form["rclone"] = RcloneColumns
  BY <1>1, SectionsAre DEF FormIs, IsRow
<1>. DEFINE rclone == Restricted(form["rclone"], RcloneColumns \ {"remotes"})
<1>3. /\ DOMAIN rclone = RcloneColumns \ {"remotes"}
      /\ \A f \in RcloneColumns \ {"remotes"} : rclone[f] = form["rclone"][f]
  BY <1>2 DEF Restricted
<1>4. Collected(form) = [form EXCEPT !["rclone"] = rclone]
  BY DEF Collected
<1>. HIDE DEF rclone
<1>. QED
  BY <1>1, <1>3, <1>4 DEF FormIs

LEMMA SharesAre ==
    ASSUME NEW p \in Partial(Shares, {"one", "two"}), NEW rows \in ShareRows
    PROVE  /\ UpdatedShares(p, rows) \in ShareRows
           /\ DOMAIN UpdatedShares(p, rows) = DOMAIN p
           /\ \A n \in DOMAIN p : /\ UpdatedShares(p, rows)[n][1] = p[n]
                                  /\ n \in DOMAIN rows => UpdatedShares(p, rows)[n][2] = rows[n][2]
           /\ \A n \in DOMAIN p \cap DOMAIN rows :
                p[n] = rows[n][1] => UpdatedShares(p, rows)[n] = rows[n]
<1>1. DOMAIN p \subseteq Shares /\ p \in [DOMAIN p -> {"one", "two"}]
  BY PartialAre
<1>2. DOMAIN rows \subseteq Shares /\ rows \in [DOMAIN rows -> {"one", "two"} \X Users]
  BY PartialAre DEF ShareRows
<1>. DEFINE users(n) == IF n \in DOMAIN rows THEN rows[n][2] ELSE "nobody"
            fresh == [n \in DOMAIN p |-> <<p[n], users(n)>>]
<1>3. UpdatedShares(p, rows) = fresh
  BY DEF UpdatedShares
<1>4. \A n \in DOMAIN p : users(n) \in Users
  BY <1>2, SettingsAssumption DEF SettingsAssumption
<1>. HIDE DEF users
<1>5. fresh \in [DOMAIN p -> {"one", "two"} \X Users]
  BY <1>1, <1>4
<1>6. fresh \in ShareRows
  <2>. HIDE DEF fresh
  <2>. QED
    BY <1>1, <1>5 DEF ShareRows, Partial
<1>7. \A n \in DOMAIN p : fresh[n][1] = p[n] /\ (n \in DOMAIN rows => fresh[n][2] = rows[n][2])
  BY DEF users
<1>8. \A n \in DOMAIN p \cap DOMAIN rows : p[n] = rows[n][1] => fresh[n] = rows[n]
  <2>. SUFFICES ASSUME NEW n \in DOMAIN p \cap DOMAIN rows, p[n] = rows[n][1]
                PROVE  fresh[n] = rows[n]
    OBVIOUS
  <2>1. fresh[n] = <<rows[n][1], rows[n][2]>>
    BY DEF users
  <2>2. rows[n] \in {"one", "two"} \X Users
    BY <1>2
  <2>. QED
    BY <2>1, <2>2
<1>. QED
  BY <1>3, <1>6, <1>7, <1>8

LEMMA SavedRclone ==
    ASSUME NEW form, FormIs(form), NEW row, row = NoRow \/ IsRow("rclone", row)
    PROVE  LET fresh == UpdatedRclone(Collected(form)["rclone"], row)
           IN /\ IsRow("rclone", fresh)
              /\ fresh["remotes"] = LoadRow("rclone", row)["remotes"]
              /\ \A f \in RcloneColumns \ {"remotes"} : fresh[f] = form["rclone"][f]
<1>. DEFINE p == Collected(form)["rclone"]
            remotes == LoadRow("rclone", row)["remotes"]
            fresh == Over(p, [remotes |-> remotes])
<1>1. "rclone" \in Sections /\ Columns["rclone"] = RcloneColumns /\ "remotes" \in RcloneColumns
  BY SectionsAre, ColumnsAre DEF SectionNames
<1>2. remotes \in ValuesOf("remotes") /\ remotes \in Values
  BY <1>1, RowsAre, ValuesAre DEF IsRow
<1>3. /\ DOMAIN p = RcloneColumns \ {"remotes"}
      /\ \A f \in RcloneColumns \ {"remotes"} : p[f] = form["rclone"][f]
  BY CollectedIs
<1>4. \A f \in RcloneColumns : form["rclone"][f] \in ValuesOf(f) /\ form["rclone"][f] \in Values
  BY <1>1 DEF FormIs, IsRow
<1>. HIDE DEF p, remotes
<1>5. /\ fresh = [f \in RcloneColumns |-> fresh[f]]
      /\ fresh["remotes"] = remotes
      /\ \A f \in RcloneColumns \ {"remotes"} : fresh[f] = form["rclone"][f]
  BY <1>1, <1>3 DEF Over
<1>6. UpdatedRclone(p, row) = fresh
  BY DEF UpdatedRclone, remotes
<1>. HIDE DEF fresh
<1>7. IsRow("rclone", fresh)
  BY <1>1, <1>2, <1>4, <1>5 DEF IsRow
<1>. QED
  BY <1>5, <1>6, <1>7 DEF p, remotes

\* A row of the form that goes through the updates of its section.
LEMMA SavedRows ==
    ASSUME NEW p
    PROVE  /\ IsRow("staging", p) => IsRow("staging", UpdatedStaging(p))
           /\ IsRow("limits", p) => IsRow("limits", UpdatedLimits(p))
           /\ IsRow("ui", p) => IsRow("ui", UpdatedUi(p)) /\ UpdatedUi(p)["theme"] # "falsy"
           /\ IsRow("indexing", p) => IsRow("indexing", UpdatedIndexing(p))
           /\ IsRow("tls", p) => IsRow("tls", UpdatedTls(p))
<1>1. IsRow("staging", p) => IsRow("staging", UpdatedStaging(p))
  BY SectionsAre, ColumnsAre, ValuesAre DEF IsRow, UpdatedStaging
<1>2. IsRow("limits", p) => IsRow("limits", UpdatedLimits(p))
  BY SectionsAre, ColumnsAre, ValuesAre DEF IsRow, UpdatedLimits
<1>3. IsRow("ui", p) => IsRow("ui", UpdatedUi(p)) /\ UpdatedUi(p)["theme"] # "falsy"
  BY SectionsAre, ColumnsAre, ValuesAre DEF IsRow, UpdatedUi, OrDefault
<1>4. IsRow("indexing", p) => IsRow("indexing", UpdatedIndexing(p))
  BY SectionsAre, ColumnsAre, ValuesAre DEF IsRow, UpdatedIndexing
<1>5. IsRow("tls", p) => IsRow("tls", UpdatedTls(p))
  BY SectionsAre, ColumnsAre, ValuesAre DEF IsRow, UpdatedTls
<1>. QED
  BY <1>1, <1>2, <1>3, <1>4, <1>5

LEMMA SavedAre ==
    ASSUME NEW t, TablesAre(t), NEW form, FormIs(form)
    PROVE  /\ TablesAre(Updated(t, Collected(form)))
           /\ \A s \in Sections : IsRow(s, Updated(t, Collected(form))[s])
<1>. DEFINE p == Collected(form)
            u == Updated(t, p)
<1>1. /\ DOMAIN t = Tables
      /\ \A s \in Sections : s \in DOMAIN p
      /\ "paths" \in DOMAIN p /\ "shares" \in DOMAIN p
      /\ "cookies" \notin DOMAIN p /\ "users" \notin DOMAIN p
      /\ "cookies" \in Tables /\ "users" \in Tables
  BY CollectedIs, SeparateTables, NamedAre DEF TablesAre, Tables
<1>2. /\ u = [s \in Tables |-> u[s]]
      /\ u["cookies"] = t["cookies"] /\ u["users"] = t["users"]
  BY <1>1, UpdatedIs
<1>3. u["paths"] \in PathRows
  BY <1>1, UpdatedIs, CollectedIs DEF FormIs, FormLists
<1>4. u["shares"] \in ShareRows
  <2>1. t["shares"] \in ShareRows
    BY NamedAre DEF TablesAre
  <2>2. p["shares"] \in Partial(Shares, {"one", "two"})
    BY CollectedIs DEF FormIs, FormLists
  <2>3. u["shares"] = UpdatedShares(p["shares"], t["shares"])
    BY <1>1, UpdatedIs
  <2>. HIDE DEF p, u
  <2>. QED
    BY <2>1, <2>2, <2>3, SharesAre
<1>5. t["cookies"] \in CookieRows /\ t["users"] \subseteq Users
  BY NamedAre DEF TablesAre
<1>6. IsRow("rclone", u["rclone"])
  <2>1. "rclone" \in Sections
    BY SectionsAre DEF SectionNames
  <2>2. u["rclone"] = UpdatedRclone(p["rclone"], t["rclone"])
    BY <1>1, <2>1, UpdatedIs
  <2>3. t["rclone"] = NoRow \/ IsRow("rclone", t["rclone"])
    BY <2>1 DEF TablesAre
  <2>. QED
    BY <2>2, <2>3, SavedRclone
<1>7. \A s \in Sections \ {"rclone"} : IsRow(s, p[s])
  BY CollectedIs DEF FormIs
<1>8. /\ \A s \in Sections \ {"rclone"} : IsRow(s, u[s])
      /\ u["ui"]["theme"] # "falsy"
  <2>1. {"staging", "limits", "ui", "indexing", "auth", "tls"} \subseteq Sections \ {"rclone"}
    BY SectionsAre DEF SectionNames
  <2>2. /\ u["staging"] = UpdatedStaging(p["staging"]) /\ u["limits"] = UpdatedLimits(p["limits"])
        /\ u["ui"] = UpdatedUi(p["ui"]) /\ u["indexing"] = UpdatedIndexing(p["indexing"])
        /\ u["auth"] = p["auth"] /\ u["tls"] = UpdatedTls(p["tls"])
    BY <1>1, <2>1, UpdatedIs
  <2>. HIDE DEF p, u
  <2>. QED
    BY <1>7, <2>1, <2>2, SavedRows, SectionsAre DEF SectionNames
<1>9. \A s \in Sections : IsRow(s, u[s])
  BY <1>6, <1>8
<1>10. \A s \in Named : u[s] \in TablesOf[s]
  BY <1>2, <1>3, <1>4, <1>5, NamedAre
<1>. HIDE DEF u
<1>11. TablesAre(u)
  BY <1>2, <1>5, <1>8, <1>9, <1>10 DEF TablesAre
<1>. QED
  BY <1>9, <1>11 DEF u

LEMMA PlainFieldsAre ==
    /\ AuthColumns \cap (Numbers \cup {"theme", "mode", "challenge"}) = {}
    /\ "remotes" \notin Numbers \cup {"theme", "mode", "challenge"}
    /\ "theme" \notin Numbers
    /\ \A s \in Sections : "theme" \in Columns[s] => s = "ui"
BY SectionsAre
   DEF SectionNames, AuthColumns, Numbers, Budgets, PerDomain, Speeds, StagingColumns,
       LimitsColumns, UiColumns, IndexingColumns, Policies, TlsColumns, RcloneColumns

\* What the updates make of the fields of a section.
LEMMA SavedValues ==
    ASSUME NEW s \in {"staging", "limits", "ui", "indexing", "tls"}, NEW p, IsRow(s, p),
           NEW f \in Columns[s]
    PROVE  LET v == CASE s = "staging" -> UpdatedStaging(p)[f]
                      [] s = "limits" -> UpdatedLimits(p)[f]
                      [] s = "ui" -> UpdatedUi(p)[f] [] s = "indexing" -> UpdatedIndexing(p)[f]
                      [] s = "tls" -> UpdatedTls(p)[f]
           IN \/ v = p[f] /\ f # "theme"
              \/ f \in Numbers \cup {"theme", "mode"} /\ v = OrDefault(p[f])
<1>1. DOMAIN p = Columns[s]
  BY DEF IsRow
<1>2. {"size_gb", "max_zip_total_gb"} \cup Budgets \subseteq Numbers
  BY DEF Numbers
<1>3. s # "ui" => f # "theme"
  BY PlainFieldsAre, SectionsAre DEF SectionNames
<1>4. CASE s = "staging"
  BY <1>1, <1>2, <1>3, <1>4 DEF UpdatedStaging
<1>5. CASE s = "limits"
  BY <1>1, <1>2, <1>3, <1>5 DEF UpdatedLimits
<1>6. CASE s = "ui"
  BY <1>1, <1>6, SectionsAre, ColumnsAre DEF UpdatedUi
<1>7. CASE s = "indexing"
  BY <1>1, <1>2, <1>3, <1>7 DEF UpdatedIndexing
<1>8. CASE s = "tls"
  BY <1>1, <1>3, <1>8 DEF UpdatedTls
<1>. QED
  BY <1>4, <1>5, <1>6, <1>7, <1>8

\* A field of the form is what is loaded after a save, but for empty values.
LEMMA SavedFields ==
    ASSUME NEW t, TablesAre(t), NEW form, FormIs(form),
           NEW s \in Sections, NEW f \in Columns[s]
    PROVE  LET v == Load(Updated(t, Collected(form)))[s][f]
           IN /\ f # "remotes" => \/ v = form[s][f]
                                  \/ /\ f \in Numbers \cup {"theme", "mode"}
                                     /\ v = OrDefault(form[s][f])
              /\ s = "rclone" /\ f = "remotes" => v = Load(t)[s][f]
<1>. DEFINE p == Collected(form)
            u == Updated(t, p)
            v == Load(u)[s][f]
            w == form[s][f]
            Stays == v = w \/ (f \in Numbers \cup {"theme", "mode"} /\ v = OrDefault(w))
<1>1. /\ DOMAIN t = Tables /\ DOMAIN u = Tables
      /\ \A x \in Sections : x \in DOMAIN p
      /\ \A x \in Sections \ {"rclone"} : p[x] = form[x]
  BY SavedAre, CollectedIs DEF TablesAre
<1>2. IsRow(s, u[s]) /\ u[s] # NoRow
  <2>1. IsRow(s, u[s])
    BY SavedAre
  <2>2. Columns[s] # {} /\ DOMAIN u[s] = Columns[s]
    BY <2>1 DEF IsRow
  <2>3. u[s] # NoRow
    BY <2>2 DEF NoRow
  <2>. QED
    BY <2>1, <2>3
<1>3. LoadRow(s, u[s]) = u[s]
  BY <1>2 DEF LoadRow
<1>4. /\ s \notin {"rclone", "ui"} => v = u[s][f]
      /\ s \in {"rclone", "ui"} =>
            v = IF f \in WithDefault THEN OrDefault(u[s][f]) ELSE u[s][f]
  <2>1. Load(u)[s] = LoadSection(s, u[s])
    BY <1>1, LoadIs
  <2>2. /\ s \notin {"rclone", "ui"} => Load(u)[s] = u[s]
        /\ s \in {"rclone", "ui"} => Load(u)[s] =
              [g \in Columns[s] |-> IF g \in WithDefault THEN OrDefault(u[s][g]) ELSE u[s][g]]
    BY <1>2, <1>3, <2>1, RowsAre
  <2>. HIDE DEF u
  <2>. QED
    BY <2>2
<1>5. IsRow(s, form[s])
  BY DEF FormIs
<1>6. \A x : OrDefault(OrDefault(x)) = OrDefault(x)
  BY DEF OrDefault
<1>7. ASSUME s \in {"staging", "limits", "ui", "indexing", "tls"} PROVE Stays
  <2>1. \/ u[s][f] = w /\ f # "theme"
        \/ f \in Numbers \cup {"theme", "mode"} /\ u[s][f] = OrDefault(w)
    <3>1. /\ s = "staging" => u[s] = UpdatedStaging(form[s])
          /\ s = "limits" => u[s] = UpdatedLimits(form[s])
          /\ s = "ui" => u[s] = UpdatedUi(form[s])
          /\ s = "indexing" => u[s] = UpdatedIndexing(form[s])
          /\ s = "tls" => u[s] = UpdatedTls(form[s])
      BY <1>1, UpdatedIs, SectionsAre DEF SectionNames
    <3>. HIDE DEF u
    <3>. QED
      BY <1>5, <1>7, <3>1, SavedValues
  <2>2. s = "ui" => f = "theme"
    BY SectionsAre, ColumnsAre
  <2>. HIDE DEF u, v, w
  <2>. QED
    BY <1>4, <1>6, <1>7, <2>1, <2>2
<1>8. ASSUME s = "auth" PROVE Stays
  <2>1. u[s] = form[s]
    BY <1>1, <1>8, UpdatedIs
  <2>. HIDE DEF u, v
  <2>. QED
    BY <1>4, <1>8, <2>1
<1>9. CASE s = "rclone"
  <2>1. Columns[s] = RcloneColumns /\ (t[s] = NoRow \/ IsRow("rclone", t[s]))
    BY <1>9, SectionsAre DEF TablesAre
  <2>2. /\ u[s]["remotes"] = LoadRow("rclone", t[s])["remotes"]
        /\ \A g \in RcloneColumns \ {"remotes"} : u[s][g] = form[s][g]
    BY <1>1, <1>9, <2>1, UpdatedIs, SavedRclone
  <2>3. f = "remotes" => v = u[s]["remotes"]
    BY <1>4, <1>9, ColumnsAre
  <2>4. Load(t)[s]["remotes"] = LoadRow("rclone", t[s])["remotes"]
    <3>1. Load(t)[s] = LoadSection(s, t[s])
      BY <1>1, LoadIs
    <3>. QED
      BY <1>9, <2>1, <3>1, RowsAre, ColumnsAre
  <2>5. f # "remotes" => Stays
    <3>1. f # "remotes" => u[s][f] = w
      BY <2>1, <2>2
    <3>2. f \in WithDefault => f \in Numbers
      BY <2>1, ColumnsAre DEF Numbers
    <3>. HIDE DEF u, v, w
    <3>. QED
      BY <1>4, <1>9, <3>1, <3>2 DEF Stays
  <2>. QED
    BY <2>2, <2>3, <2>4, <2>5
<1>. QED
  BY <1>7, <1>8, <1>9, SectionsAre DEF SectionNames

\* What may become of a field that the page showed and nobody touched.
LEMMA FieldsSurvive ==
    ASSUME NEW t, TablesAre(t), NEW form, FormIs(form),
           NEW s \in Sections, NEW f \in Columns[s],
           form[s][f] = Populated(Described(Load(t)))[s][f]
    PROVE  MayBecome(f, Load(t)[s][f], Load(Updated(t, Collected(form)))[s][f], Load(t)["auth"])
<1>. DEFINE st == Load(t)
            v == st[s][f]
            w == form[s][f]
            r == Load(Updated(t, Collected(form)))[s][f]
<1>1. SettingsAre(st)
  BY LoadedAre
<1>2. /\ f # "remotes" => r = w \/ (f \in Numbers \cup {"theme", "mode"} /\ r = OrDefault(w))
      /\ s = "rclone" /\ f = "remotes" => r = v
  BY SavedFields
<1>3. s \notin {"auth", "rclone"} => f # "remotes"
  BY SectionsAre
  DEF SectionNames, StagingColumns, LimitsColumns, UiColumns, IndexingColumns, Budgets, PerDomain,
      Policies, TlsColumns
<1>4. CASE s = "auth"
  <2>. DEFINE a == Shown("auth", st["auth"])
  <2>1. f \in AuthColumns /\ "auth" \in Sections /\ Columns["auth"] = AuthColumns
    BY <1>4, SectionsAre DEF SectionNames
  <2>2. \A g \in AuthColumns : a[g] = st["auth"][g]
    BY <2>1, PlainFieldsAre DEF Shown, ShownField
  <2>3. IsRow("auth", a)
    BY <1>1, <2>1, ShownIs DEF SettingsAre
  <2>4. w = OneProvider(a)[f]
    BY <1>1, <1>4, PopulatedIs
  <2>5. Providers \subseteq AuthColumns
    BY ColumnsAre
  <2>6. f # "remotes"
    BY <2>1 DEF AuthColumns
  <2>7. r = w
    BY <1>2, <2>1, <2>6, PlainFieldsAre
  <2>8. \/ w = a[f]
        \/ f \in Providers /\ w = "falsy" /\ \E g \in Providers \ {f} : a[g] = "other"
    BY <2>1, <2>3, <2>4, OneProviderIs
  <2>. HIDE DEF a, r, w
  <2>9. \/ r = st["auth"][f]
        \/ f \in Providers /\ r = "falsy" /\ \E g \in Providers \ {f} : st["auth"][g] = "other"
    BY <2>1, <2>2, <2>5, <2>7, <2>8
  <2>. HIDE DEF st
  <2>. QED
    BY <1>4, <2>9 DEF MayBecome, r, st
<1>5. CASE s # "auth" /\ ~(s = "rclone" /\ f = "remotes")
  <2>1. w = ShownField(f, v)
    <3>1. Populated(Described(st))[s] = Shown(s, st[s])
      BY <1>1, <1>5, PopulatedIs
    <3>2. w = Shown(s, st[s])[f]
      BY <3>1
    <3>. HIDE DEF w, st
    <3>. QED
      BY <3>2 DEF Shown, v
  <2>2. f # "remotes"
    BY <1>3, <1>5
  <2>3. f = "theme" => v # "falsy"
    <3>1. f = "theme" => s = "ui" /\ f \in WithDefault
      BY PlainFieldsAre, ColumnsAre
    <3>2. DOMAIN t = Tables /\ (t[s] = NoRow \/ IsRow(s, t[s]))
      BY DEF TablesAre
    <3>3. s = "ui" => v = IF f \in WithDefault THEN OrDefault(LoadRow(s, t[s])[f])
                                               ELSE LoadRow(s, t[s])[f]
      BY <3>2, LoadIs, RowsAre
    <3>. QED
      BY <3>1, <3>3 DEF OrDefault
  <2>4. /\ f \in Numbers \cup {"theme", "mode"} => w = OrDefault(v)
        /\ f \notin Numbers \cup {"theme", "mode", "challenge"} => w = v
    BY <2>1, PlainFieldsAre, ColumnsAre DEF ShownField, Numbers, Budgets, PerDomain, Speeds
  <2>. HIDE DEF v, w, r
  <2>5. \/ r = v
        \/ f \in Numbers \cup {"mode"} /\ v = "falsy" /\ r = "default"
        \/ f = "challenge"
    BY <1>2, <2>2, <2>3, <2>4 DEF OrDefault
  <2>. QED
    BY <2>5 DEF MayBecome, v, r
<1>6. CASE s = "rclone" /\ f = "remotes"
  BY <1>2, <1>6 DEF MayBecome
<1>. QED
  BY <1>4, <1>5, <1>6

-----------------------------------------------------------------------------
(* Export and import. *)

LEMMA ExportedIs ==
    ASSUME NEW t, TablesAre(t)
    PROVE  /\ IsDocument(Exported(t))
           /\ DOMAIN Exported(t) = Named \cup {x \in Sections : t[x] # NoRow}
           /\ \A s \in Named : Exported(t)[s] = t[s]
           /\ \A s \in (DOMAIN Exported(t) \cap Sections) \ {"indexing"} : Exported(t)[s] = t[s]
<1>. DEFINE kept == {x \in Sections : t[x] # NoRow}
            rows == [s \in kept |-> ExportedRow(s, t[s])]
            d == Exported(t)
<1>1. DOMAIN t = Tables /\ Named \subseteq Tables
  BY DEF TablesAre, Tables
<1>2. DOMAIN ExportedNamed(t) = Named /\ \A s \in Named : ExportedNamed(t)[s] = t[s]
  BY <1>1 DEF ExportedNamed, Restricted
<1>3. d = Over(ExportedNamed(t), rows)
  BY DEF Exported
<1>4. DOMAIN rows = kept /\ \A s \in kept : rows[s] = ExportedRow(s, t[s])
  OBVIOUS
<1>. HIDE DEF rows
<1>5. /\ DOMAIN d = Named \cup kept
      /\ \A s \in Named : d[s] = t[s]
      /\ \A s \in kept : d[s] = ExportedRow(s, t[s])
  BY <1>2, <1>3, <1>4, SeparateTables DEF Over
<1>6. \A s \in kept : IsRow(s, t[s])
  BY DEF TablesAre
<1>7. \A s \in kept : IsPart(s, ExportedRow(s, t[s]))
  BY <1>6 DEF IsRow, IsPart, ExportedRow, Restricted
<1>8. \A s \in kept \ {"indexing"} : ExportedRow(s, t[s]) = t[s]
  <2>. SUFFICES ASSUME NEW s \in kept \ {"indexing"} PROVE ExportedRow(s, t[s]) = t[s]
    OBVIOUS
  <2>1. Columns[s] \ PerDomain = Columns[s]
    BY LimitsOfDomainsAre
  <2>2. t[s] = [f \in Columns[s] |-> t[s][f]]
    BY <1>6 DEF IsRow
  <2>. QED
    BY <2>1, <2>2 DEF ExportedRow, Restricted
<1>. HIDE DEF d
<1>9. IsDocument(d)
  <2>1. DOMAIN d \subseteq Tables
    BY <1>5 DEF Tables
  <2>2. \A s \in DOMAIN d \cap Sections : s \in kept
    BY <1>5, SeparateTables
  <2>3. \A s \in DOMAIN d \cap Sections : IsPart(s, d[s])
    BY <1>5, <1>7, <2>2
  <2>4. \A s \in DOMAIN d \cap Named : d[s] \in EntriesOf[s]
    BY <1>5, CookiesAre DEF TablesAre
  <2>5. "users" \notin DOMAIN d
    BY <1>5, SeparateTables
  <2>. QED
    BY <2>1, <2>3, <2>4, <2>5 DEF IsDocument
<1>10. \A s \in (DOMAIN d \cap Sections) \ {"indexing"} : d[s] = t[s]
  BY <1>5, <1>8, SeparateTables
<1>. QED
  BY <1>5, <1>9, <1>10 DEF d

\* The rows of rclone are restored but for empty values, which are loaded as
\* their default anyway.
LEMMA RestoredRcloneIs ==
    ASSUME NEW row, IsRow("rclone", row)
    PROVE  /\ IsRow("rclone", RestoredRclone(row))
           /\ LoadSection("rclone", RestoredRclone(row)) = LoadSection("rclone", row)
<1>. DEFINE fresh == RestoredRclone(row)
<1>1. "rclone" \in Sections /\ Columns["rclone"] = RcloneColumns /\ RcloneColumns # {}
  BY SectionsAre, ColumnsAre DEF SectionNames
<1>2. Filled("rclone", row) = row
  BY <1>1, FilledIs DEF IsRow, IsPart
<1>3. fresh = [f \in RcloneColumns |-> IF f \in Speeds THEN OrDefault(row[f]) ELSE row[f]]
  BY <1>2 DEF RestoredRclone
<1>4. IsRow("rclone", fresh)
  BY <1>1, <1>3, ColumnsAre, ValuesAre DEF IsRow
<1>5. ASSUME NEW r, IsRow("rclone", r)
      PROVE  LoadSection("rclone", r) =
                [f \in RcloneColumns |-> IF f \in WithDefault THEN OrDefault(r[f]) ELSE r[f]]
  <2>1. r # NoRow
    BY <1>1, <1>5 DEF IsRow, NoRow
  <2>2. LoadRow("rclone", r) = r
    BY <2>1 DEF LoadRow
  <2>. QED
    BY <1>1, <1>5, <2>2, RowsAre
<1>6. ASSUME NEW f \in RcloneColumns
      PROVE  (IF f \in WithDefault THEN OrDefault(fresh[f]) ELSE fresh[f])
                = (IF f \in WithDefault THEN OrDefault(row[f]) ELSE row[f])
  BY <1>3, ColumnsAre DEF OrDefault
<1>. HIDE DEF fresh
<1>7. LoadSection("rclone", fresh) = LoadSection("rclone", row)
  BY <1>4, <1>5, <1>6
<1>. QED
  BY <1>4, <1>7 DEF fresh

\* Importing a whole row brings it back.
LEMMA ImportBringsBack ==
    ASSUME NEW t, TablesAre(t), NEW d, IsDocument(d)
    PROVE  /\ \A s \in (DOMAIN d \cap Sections) \ {"indexing"} :
                 IsRow(s, d[s]) /\ (s = "ui" => d[s]["theme"] # "falsy") =>
                    Load(Restored(t, d))[s] = LoadSection(s, d[s])
           /\ \A s \in DOMAIN d \cap Named : \A n \in DOMAIN d[s] :
                 \/ s = "paths" /\ n \notin Recognised
                 \/ s = "cookies" /\ d[s] \notin CookieRows
                 \/ Load(Restored(t, d))[s][n] = d[s][n]
<1>. DEFINE r == Restored(t, d)
<1>1. DOMAIN t = Tables /\ DOMAIN r = Tables
  BY RestoredAre DEF TablesAre
<1>2. \A s \in Sections : Load(r)[s] = LoadSection(s, r[s])
  BY <1>1, LoadIs
<1>3. \A s \in Named : Load(r)[s] = r[s]
  BY <1>1, LoadIs
<1>4. ASSUME NEW s \in (DOMAIN d \cap Sections) \ {"indexing"}, IsRow(s, d[s]),
             s = "ui" => d[s]["theme"] # "falsy"
      PROVE  LoadSection(s, r[s]) = LoadSection(s, d[s])
  <2>1. Filled(s, d[s]) = d[s]
    BY <1>4, FilledIs DEF IsRow, IsDocument
  <2>2. CASE s \in {"staging", "limits", "auth", "tls"}
    BY <1>1, <2>1, <2>2, RestoredIs
  <2>3. CASE s = "ui"
    BY <1>1, <1>4, <2>1, <2>3, RestoredIs DEF RestoredUi
  <2>4. CASE s = "rclone"
    BY <1>1, <1>4, <2>4, RestoredIs, RestoredRcloneIs
  <2>. QED
    BY <2>2, <2>3, <2>4, SectionsAre DEF SectionNames
<1>5. ASSUME NEW s \in DOMAIN d \cap Named, NEW n \in DOMAIN d[s]
      PROVE  \/ s = "paths" /\ n \notin Recognised
             \/ s = "cookies" /\ d[s] \notin CookieRows
             \/ r[s][n] = d[s][n]
  <2>1. CASE s = "paths"
    <3>1. r[s] = Upserted(t[s], Restricted(d[s], Recognised))
      BY <1>1, <2>1, RestoredIs DEF RestoredPaths
    <3>. HIDE DEF r
    <3>. QED
      BY <2>1, <3>1 DEF Upserted, Over, Restricted
  <2>2. CASE s # "paths" /\ (s = "cookies" => d[s] \in CookieRows)
    <3>1. r[s] = Upserted(t[s], d[s])
      BY <1>1, <2>2, RestoredIs, NamedAre, CookiesAre
    <3>. HIDE DEF r
    <3>. QED
      BY <3>1 DEF Upserted, Over
  <2>. QED
    BY <2>1, <2>2
<1>. QED
  BY <1>2, <1>3, <1>4, <1>5

\* A reload that dumps imports its own export, and changes no setting.
LEMMA OwnExport ==
    ASSUME NEW t, TablesAre(t)
    PROVE  Load(Restored(t, Exported(t))) = Load(t)
<1>. DEFINE d == Exported(t)
            r == Restored(t, d)
<1>1. IsDocument(d) /\ TablesAre(r) /\ DOMAIN t = Tables /\ DOMAIN r = Tables
  <2>1. IsDocument(d)
    BY ExportedIs
  <2>2. TablesAre(r)
    BY <2>1, RestoredAre
  <2>. QED
    BY <2>1, <2>2 DEF TablesAre
<1>2. ASSUME NEW s \in Sections PROVE Load(r)[s] = Load(t)[s]
  <2>1. Load(t)[s] = LoadSection(s, t[s]) /\ Load(r)[s] = LoadSection(s, r[s]) /\ s \in Tables
    BY <1>1, LoadIs DEF Tables
  <2>2. CASE s \in DOMAIN d /\ s # "indexing"
    <3>1. d[s] = t[s] /\ t[s] # NoRow
      BY <2>2, ExportedIs, SeparateTables
    <3>2. IsRow(s, t[s]) /\ (s = "ui" => t[s]["theme"] # "falsy")
      BY <3>1 DEF TablesAre
    <3>. HIDE DEF d
    <3>. QED
      BY <1>1, <2>1, <2>2, <3>1, <3>2, ImportBringsBack
  <2>3. CASE s \notin DOMAIN d
    BY <1>1, <2>1, <2>3, RestoredIs
  <2>4. CASE s = "indexing" /\ s \in DOMAIN d
    <3>. DEFINE given == Restricted(Filled("indexing", d[s]), IndexingColumns \ PerDomain)
    <3>1. DOMAIN given # IndexingColumns
      BY LimitsOfDomainsAre DEF Restricted
    <3>2. r[s] = t[s]
      BY <1>1, <2>4, <3>1, RestoredIs DEF RestoredIndexing
    <3>. QED
      BY <2>1, <3>2
  <2>. QED
    BY <2>2, <2>3, <2>4
<1>3. ASSUME NEW s \in Named PROVE Load(r)[s] = Load(t)[s]
  <2>1. Load(t)[s] = t[s] /\ Load(r)[s] = r[s] /\ s \in DOMAIN d /\ d[s] = t[s]
    BY <1>1, LoadIs, ExportedIs
  <2>2. t[s] = [n \in DOMAIN t[s] |-> t[s][n]]
    <3>1. t[s] \in TablesOf[s]
      BY DEF TablesAre
    <3>. QED
      BY <3>1, NamedAre, PartialAre DEF PathRows, ShareRows, CookieRows
  <2>3. r[s] = Upserted(t[s], IF s = "paths" THEN Restricted(t[s], Recognised) ELSE t[s])
    <3>1. s = "cookies" => RestoredCookies(t[s]) = t[s]
      BY NamedAre, CookiesAre DEF TablesAre
    <3>. QED
      BY <1>1, <2>1, <3>1, RestoredIs, NamedAre DEF RestoredPaths
  <2>. HIDE DEF r, d
  <2>4. r[s] = t[s]
    BY <2>2, <2>3 DEF Upserted, Over, Restricted
  <2>. QED
    BY <2>1, <2>4
<1>. HIDE DEF r, d
<1>. QED
  BY <1>1, <1>2, <1>3, LoadIs DEF r, d

-----------------------------------------------------------------------------
(* The inductive invariant. *)

\* What was not touched since the page was opened is as it was shown.
PageIs(p) ==
    /\ p = [form |-> p.form, had |-> p.had, current |-> p.current, touched |-> p.touched]
    /\ FormIs(p.form) /\ SettingsAre(p.had)
    /\ \A s \in Sections : \A f \in Columns[s] \ p.touched :
           p.form[s][f] = Populated(Described(p.had))[s][f]
    /\ \A s \in {"paths", "shares"} : \A n \in NamesOf[s] \ p.touched :
           /\ n \in DOMAIN p.form[s] <=> n \in DOMAIN Described(p.had)[s]
           /\ n \in DOMAIN p.form[s] => p.form[s][n] = Described(p.had)[s][n]

\* A document that is an export has the rows that the settings b came from.
ExportIs(b, d) ==
    /\ \A s \in (DOMAIN d \cap Sections) \ {"indexing"} :
           /\ IsRow(s, d[s]) /\ b[s] = LoadSection(s, d[s])
           /\ s = "ui" => d[s]["theme"] # "falsy"
    /\ \A s \in Named : s \in DOMAIN d /\ b[s] = d[s]
    /\ d["cookies"] \in CookieRows

SettingsInv ==
    /\ TablesAre(tables) /\ SettingsAre(settings)
    /\ IsDocument(doc)
    /\ page # None => PageIs(page)
    /\ backup # None => ExportIs(backup, doc)
    /\ edits \in 0 .. MaxEdits

LEMMA SettingsInvTyped == SettingsInv => SettingsTypeOK
<1>. SUFFICES ASSUME SettingsInv PROVE SettingsTypeOK
  OBVIOUS
<1>1. \A s \in Sections : (tables[s] = NoRow \/ IsRow(s, tables[s])) /\ IsRow(s, settings[s])
  BY DEF SettingsInv, TablesAre, SettingsAre
<1>2. \A s \in Named : {tables[s], settings[s]} \subseteq TablesOf[s]
  BY DEF SettingsInv, TablesAre, SettingsAre
<1>3. tables["users"] \subseteq Users
  BY DEF SettingsInv, TablesAre
<1>4. page = None \/ \A s \in Sections : IsRow(s, page.form[s])
  BY DEF SettingsInv, PageIs, FormIs
<1>. QED
  BY <1>1, <1>2, <1>3, <1>4 DEF SettingsTypeOK, SettingsInv

LEMMA SettingsInvInit == SettingsInit => SettingsInv
<1>. SUFFICES ASSUME SettingsInit PROVE SettingsInv
  OBVIOUS
<1>1. TablesAre(tables)
  <2>1. tables = [s \in Tables |-> IF s = "users" THEN {} ELSE NoRow]
    BY DEF SettingsInit
  <2>2. /\ DOMAIN tables = Tables /\ "users" \in Tables /\ tables["users"] = {}
        /\ \A s \in Sections \cup Named : tables[s] = NoRow
    BY <2>1, SeparateTables DEF Tables
  <2>3. \A s \in Named : NoRow \in TablesOf[s]
    <3>1. \A S, T : NoRow \in Partial(S, T)
      BY DEF Partial, NoRow
    <3>. QED
      BY <3>1, NamedAre DEF PathRows, ShareRows, CookieRows
  <2>4. "ui" \in Sections
    BY SectionsAre DEF SectionNames
  <2>. QED
    BY <2>1, <2>2, <2>3, <2>4 DEF TablesAre
<1>2. SettingsAre(settings)
  BY <1>1, LoadedAre DEF SettingsInit
<1>. QED
  BY <1>1, <1>2, SettingsAssumption DEF SettingsInit, SettingsInv, SettingsAssumption

LEMMA OpenPageKeeps == ASSUME SettingsInv, OpenPage PROVE PageIs(page')
<1>. DEFINE form == Populated(Described(settings))
            current == (settings = Load(tables))
<1>1. page' = [form |-> form, had |-> settings, current |-> current, touched |-> {}]
  BY DEF OpenPage
<1>2. SettingsAre(settings)
  BY DEF SettingsInv
<1>3. FormIs(form) /\ \A s \in {"paths", "shares"} : form[s] = Described(settings)[s]
  BY <1>2, PopulatedIs
<1>. HIDE DEF form, current
<1>4. /\ page'.form = form /\ page'.had = settings /\ page'.touched = {}
      /\ page' = [form |-> page'.form, had |-> page'.had, current |-> page'.current,
                  touched |-> page'.touched]
  BY <1>1
<1>. QED
  BY <1>2, <1>3, <1>4 DEF PageIs, form

LEMMA ChangeFieldKeeps ==
    ASSUME SettingsInv, NEW f \in Editable, ChangeField(f)
    PROVE  PageIs(page')
<1>. DEFINE S == SectionOf(f)
            extra == IF f \in Providers THEN Providers ELSE {f}
<1>1. S \in Sections /\ f \in Columns[S]
  <2>1. f \in Fields
    BY SettingsAssumption DEF SettingsAssumption
  <2>2. \E s \in Sections : f \in Columns[s]
    BY <2>1 DEF Fields, Range, Sections
  <2>. QED
    BY <2>2 DEF SectionOf
<1>2. PageIs(page)
  BY DEF SettingsInv, ChangeField
<1>3. PICK v \in ValuesOf(f) :
         page' = [page EXCEPT !.form[S] = Typed(page.form[S], f, v),
                              !.touched = page.touched \cup extra]
  BY DEF ChangeField
<1>. DEFINE fresh == Typed(page.form[S], f, v)
            form == [page.form EXCEPT ![S] = fresh]
<1>. HIDE DEF S
<1>4. IsRow(S, page.form[S])
  BY <1>1, <1>2 DEF PageIs, FormIs
<1>5. /\ IsRow(S, fresh)
      /\ \A g \in Columns[S] \ extra : fresh[g] = page.form[S][g]
  BY <1>1, <1>4, ValuesAre DEF IsRow, Typed
<1>6. S \notin {"paths", "shares"}
  BY <1>1, SeparateTables, NamedAre
<1>. HIDE DEF fresh
<1>7. /\ form = [s \in Sections \cup {"paths", "shares"} |-> form[s]]
      /\ form[S] = fresh
      /\ \A s \in Sections \cup {"paths", "shares"} : s # S => form[s] = page.form[s]
  BY <1>1, <1>2 DEF PageIs, FormIs
<1>. HIDE DEF form
<1>8. FormIs(form)
  BY <1>2, <1>5, <1>6, <1>7 DEF PageIs, FormIs
<1>9. page' = [form |-> form, had |-> page.had, current |-> page.current,
               touched |-> page.touched \cup extra]
  <2>1. page = [form |-> page.form, had |-> page.had, current |-> page.current,
                touched |-> page.touched]
    BY <1>2 DEF PageIs
  <2>2. page' = [page EXCEPT !.form = form, !.touched = page.touched \cup extra]
    BY <1>3 DEF form, fresh
  <2>. HIDE DEF extra
  <2>. QED
    BY <2>1, <2>2
<1>. HIDE DEF extra
<1>10. /\ page'.form = form /\ page'.had = page.had /\ page'.touched = page.touched \cup extra
       /\ page' = [form |-> page'.form, had |-> page'.had, current |-> page'.current,
                   touched |-> page'.touched]
  BY <1>9
<1>11. \A s \in Sections : \A g \in Columns[s] \ (page.touched \cup extra) :
          form[s][g] = Populated(Described(page.had))[s][g]
  <2>1. ASSUME NEW s \in Sections, NEW g \in Columns[s] \ (page.touched \cup extra)
        PROVE  form[s][g] = page.form[s][g]
    <3>1. CASE s = S
      BY <1>5, <1>7, <2>1, <3>1
    <3>2. CASE s # S
      BY <1>7, <3>2
    <3>. QED
      BY <3>1, <3>2
  <2>2. \A s \in Sections : \A g \in Columns[s] \ page.touched :
           page.form[s][g] = Populated(Described(page.had))[s][g]
    BY <1>2 DEF PageIs
  <2>. QED
    BY <2>1, <2>2
<1>12. \A x \in {"paths", "shares"} : form[x] = page.form[x]
  BY <1>6, <1>7
<1>13. \A x \in {"paths", "shares"} : \A m \in NamesOf[x] \ (page.touched \cup extra) :
          /\ m \in DOMAIN form[x] <=> m \in DOMAIN Described(page.had)[x]
          /\ m \in DOMAIN form[x] => form[x][m] = Described(page.had)[x][m]
  BY <1>2, <1>12 DEF PageIs
<1>14. SettingsAre(page.had)
  BY <1>2 DEF PageIs
<1>. QED
  BY <1>8, <1>10, <1>11, <1>13, <1>14 DEF PageIs

LEMMA ChangeListKeeps ==
    ASSUME SettingsInv, NEW s \in {"paths", "shares"}, ChangeList(s)
    PROVE  PageIs(page')
<1>1. PageIs(page)
  BY DEF SettingsInv, ChangeList
<1>2a. PICK n \in NamesOf[s] : \E fresh :
         /\ page' = [page EXCEPT !.form[s] = fresh,
                                 !.touched = page.touched \cup {n}]
         /\ \/ fresh = Restricted(page.form[s], NamesOf[s] \ {n})
            \/ \E c \in {"one", "two"} : fresh = Upserted(page.form[s], [m \in {n} |-> c])
  <2>1. \E n \in NamesOf[s] :
           \/ page' = [page EXCEPT !.form[s] = Restricted(page.form[s], NamesOf[s] \ {n}),
                                   !.touched = page.touched \cup {n}]
           \/ \E c \in {"one", "two"} :
                 page' = [page EXCEPT !.form[s] = Upserted(page.form[s], [m \in {n} |-> c]),
                                      !.touched = page.touched \cup {n}]
    BY DEF ChangeList
  <2>. QED
    BY <2>1
<1>2. PICK fresh :
         /\ page' = [page EXCEPT !.form[s] = fresh,
                                !.touched = page.touched \cup {n}]
         /\ \/ fresh = Restricted(page.form[s], NamesOf[s] \ {n})
            \/ \E c \in {"one", "two"} : fresh = Upserted(page.form[s], [m \in {n} |-> c])
  BY <1>2a
<1>3. page.form[s] \in Partial(NamesOf[s], {"one", "two"}) /\ s \notin Sections
  BY <1>1, NamedAre, SeparateTables DEF PageIs, FormIs, FormLists, PathRows
<1>4. fresh \in Partial(NamesOf[s], {"one", "two"})
  <2>1. Restricted(page.form[s], NamesOf[s] \ {n}) \in Partial(NamesOf[s], {"one", "two"})
    BY <1>3, PartialAre
  <2>2. \A c \in {"one", "two"} :
           Over([m \in {n} |-> c], page.form[s]) \in Partial(NamesOf[s], {"one", "two"})
    <3>. TAKE c \in {"one", "two"}
    <3>. DEFINE one == [m \in {n} |-> c]
    <3>0. one \in [{n} -> {"one", "two"}] /\ {n} \in SUBSET NamesOf[s]
      OBVIOUS
    <3>. HIDE DEF one
    <3>1. one \in Partial(NamesOf[s], {"one", "two"})
      BY <3>0 DEF Partial
    <3>2. Over(one, page.form[s]) \in Partial(NamesOf[s], {"one", "two"})
      BY <1>3, <3>1, PartialAre
    <3>. QED
      BY <3>2 DEF one
  <2>. QED
    BY <1>2, <2>1, <2>2 DEF Upserted
<1>5. \A m \in NamesOf[s] \ {n} : /\ m \in DOMAIN fresh <=> m \in DOMAIN page.form[s]
                                  /\ m \in DOMAIN fresh => fresh[m] = page.form[s][m]
  BY <1>2 DEF Upserted, Over, Restricted
<1>. DEFINE form == [page.form EXCEPT ![s] = fresh]
<1>6. /\ form = [x \in Sections \cup {"paths", "shares"} |-> form[x]]
      /\ form[s] = fresh
      /\ \A x \in Sections \cup {"paths", "shares"} : x # s => form[x] = page.form[x]
  BY <1>1 DEF PageIs, FormIs
<1>. HIDE DEF form
<1>7. FormIs(form)
  <2>1. \A x \in Sections : form[x] = page.form[x]
    BY <1>3, <1>6
  <2>2. \A x \in {"paths", "shares"} \ {s} : form[x] = page.form[x]
    BY <1>6
  <2>3. \A x \in Sections : IsRow(x, page.form[x])
    BY <1>1 DEF PageIs, FormIs
  <2>4. \A x \in {"paths", "shares"} : page.form[x] \in FormLists[x]
    BY <1>1 DEF PageIs, FormIs
  <2>5. FormLists[s] = Partial(NamesOf[s], {"one", "two"})
    BY NamedAre DEF FormLists, PathRows
  <2>. QED
    BY <1>4, <1>6, <2>1, <2>2, <2>3, <2>4, <2>5 DEF FormIs
<1>8. page' = [form |-> form, had |-> page.had, current |-> page.current,
               touched |-> page.touched \cup {n}]
  <2>1. page = [form |-> page.form, had |-> page.had, current |-> page.current,
                touched |-> page.touched]
    BY <1>1 DEF PageIs
  <2>2. page' = [page EXCEPT !.form = form, !.touched = page.touched \cup {n}]
    BY <1>2 DEF form
  <2>. QED
    BY <2>1, <2>2
<1>9. /\ page'.form = form /\ page'.had = page.had /\ page'.touched = page.touched \cup {n}
      /\ page' = [form |-> page'.form, had |-> page'.had, current |-> page'.current,
                  touched |-> page'.touched]
  BY <1>8
<1>10. \A x \in Sections : \A g \in Columns[x] \ (page.touched \cup {n}) :
          form[x][g] = Populated(Described(page.had))[x][g]
  <2>1. \A x \in Sections : form[x] = page.form[x]
    BY <1>3, <1>6
  <2>. QED
    BY <1>1, <2>1 DEF PageIs
<1>11. \A x \in {"paths", "shares"} : \A m \in NamesOf[x] \ (page.touched \cup {n}) :
          /\ m \in DOMAIN form[x] <=> m \in DOMAIN Described(page.had)[x]
          /\ m \in DOMAIN form[x] => form[x][m] = Described(page.had)[x][m]
  <2>1. ASSUME NEW x \in {"paths", "shares"}, NEW m \in NamesOf[x] \ (page.touched \cup {n})
        PROVE  /\ m \in DOMAIN form[x] <=> m \in DOMAIN page.form[x]
               /\ m \in DOMAIN form[x] => form[x][m] = page.form[x][m]
    <3>1. CASE x = s
      BY <1>5, <1>6, <2>1, <3>1
    <3>2. CASE x # s
      BY <1>6, <3>2
    <3>. QED
      BY <3>1, <3>2
  <2>2. \A x \in {"paths", "shares"} : \A m \in NamesOf[x] \ page.touched :
           /\ m \in DOMAIN page.form[x] <=> m \in DOMAIN Described(page.had)[x]
           /\ m \in DOMAIN page.form[x] => page.form[x][m] = Described(page.had)[x][m]
    BY <1>1 DEF PageIs
  <2>. QED
    BY <2>1, <2>2
<1>12. SettingsAre(page.had)
  BY <1>1 DEF PageIs
<1>. QED
  BY <1>7, <1>9, <1>10, <1>11, <1>12 DEF PageIs

\* What writes the tables leaves them in order, and what is loaded from them.
LEMMA WritesKeep ==
    ASSUME SettingsInv,
           \/ SavePage \/ MutateShareUser \/ SaveCookie \/ CreateRemote
           \/ Import \/ DumpReload
    PROVE  TablesAre(tables')
<1>1. /\ TablesAre(tables) /\ SettingsAre(settings) /\ IsDocument(doc)
      /\ DOMAIN tables = Tables
  BY DEF SettingsInv, TablesAre
<1>2. CASE SavePage
  <2>1. FormIs(page.form)
    BY <1>2 DEF SavePage, SettingsInv, PageIs
  <2>. QED
    BY <1>1, <1>2, <2>1, SavedAre DEF SavePage
<1>3. CASE MutateShareUser
  <2>. DEFINE p == Restricted(Described(settings), {"shares"})
  <2>1. /\ DOMAIN p = {"shares"} /\ p["shares"] \in Partial(Shares, {"one", "two"})
    BY <1>1, DescribedIs, NamedAre DEF Restricted
  <2>2. tables' = Updated(tables, p)
    BY <1>3 DEF MutateShareUser
  <2>. HIDE DEF p
  <2>3. "shares" \in Named /\ "shares" \notin Sections /\ "shares" # "users" /\ "ui" # "shares"
    BY NamedAre, SeparateTables
  <2>4. tables["shares"] \in ShareRows
    BY <1>1, NamedAre DEF TablesAre
  <2>5. /\ tables' = [s \in Tables |-> tables'[s]]
        /\ \A s \in Tables \ {"shares"} : tables'[s] = tables[s]
        /\ tables'["shares"] = UpdatedShares(p["shares"], tables["shares"])
    BY <1>1, <2>1, <2>2, UpdatedIs
  <2>6. tables'["shares"] \in TablesOf["shares"]
    BY <2>1, <2>4, <2>5, SharesAre, NamedAre
  <2>. QED
    BY <1>1, <2>3, <2>5, <2>6, SectionsAre DEF TablesAre, Tables, SectionNames
<1>4. CASE SaveCookie
  <2>1. PICK cookie \in CookieRows :
           tables' = [tables EXCEPT !["cookies"] = Upserted(tables["cookies"], cookie)]
    BY <1>4 DEF SaveCookie
  <2>2. "cookies" \in Named /\ "cookies" \notin Sections /\ "cookies" # "users" /\ "ui" # "cookies"
    BY NamedAre, SeparateTables
  <2>3. Upserted(tables["cookies"], cookie) \in TablesOf["cookies"]
    BY <1>1, <2>2, NamedAre, PartialAre DEF TablesAre, CookieRows, Upserted
  <2>4. /\ tables' = [s \in Tables |-> tables'[s]]
        /\ \A s \in Tables \ {"cookies"} : tables'[s] = tables[s]
        /\ tables'["cookies"] = Upserted(tables["cookies"], cookie)
    BY <1>1, <2>1, <2>2 DEF TablesAre, Tables
  <2>. QED
    BY <1>1, <2>2, <2>3, <2>4, SectionsAre DEF TablesAre, Tables, SectionNames
<1>5. CASE CreateRemote
  <2>. DEFINE row == [f \in RcloneColumns |-> IF f = "remotes" THEN "other" ELSE BuiltIn(f)]
  <2>1. tables' = [tables EXCEPT !["rclone"] = row]
    BY <1>5 DEF CreateRemote
  <2>2. "rclone" \in Sections /\ "rclone" \notin Named /\ "rclone" # "users"
    BY SectionsAre, SeparateTables DEF SectionNames
  <2>3. IsRow("rclone", row)
    BY SectionsAre, ValuesAre DEF IsRow
  <2>. HIDE DEF row
  <2>4. /\ tables' = [s \in Tables |-> tables'[s]]
        /\ \A s \in Tables \ {"rclone"} : tables'[s] = tables[s]
        /\ tables'["rclone"] = row
    BY <1>1, <2>1, <2>2 DEF TablesAre, Tables
  <2>. QED
    BY <1>1, <2>2, <2>3, <2>4, SectionsAre DEF TablesAre, Tables, SectionNames
<1>6. CASE Import
  BY <1>1, <1>6, RestoredAre DEF Import
<1>7. CASE DumpReload
  <2>1. IsDocument(Exported(tables))
    BY <1>1, ExportedIs
  <2>. QED
    BY <1>1, <1>7, <2>1, RestoredAre DEF DumpReload
<1>. QED
  BY <1>2, <1>3, <1>4, <1>5, <1>6, <1>7

LEMMA EditDocumentKeeps ==
    ASSUME SettingsInv, EditDocument
    PROVE  IsDocument(doc')
<1>1. IsDocument(doc)
  BY DEF SettingsInv
<1>2. CASE \E s \in DOMAIN doc : doc' = Restricted(doc, DOMAIN doc \ {s})
  BY <1>1, <1>2 DEF IsDocument, Restricted
<1>3. ASSUME NEW s \in DOMAIN doc \cap Sections, NEW f \in DOMAIN doc[s], NEW fresh,
             doc' = [doc EXCEPT ![s] = fresh], IsPart(s, fresh)
      PROVE  IsDocument(doc')
  <2>1. DOMAIN doc' = DOMAIN doc /\ doc'[s] = fresh /\ \A x \in DOMAIN doc \ {s} : doc'[x] = doc[x]
    BY <1>3
  <2>2. s \notin Named /\ s # "users"
    BY SeparateTables
  <2>. QED
    BY <1>1, <1>3, <2>1, <2>2 DEF IsDocument
<1>4. ASSUME NEW s \in DOMAIN doc \cap Sections, NEW f \in DOMAIN doc[s]
      PROVE  /\ doc' = [doc EXCEPT ![s] = Restricted(@, Columns[s] \ {f})] => IsDocument(doc')
             /\ \A v \in ValuesOf(f) : doc' = [doc EXCEPT ![s][f] = v] => IsDocument(doc')
  <2>1. IsPart(s, doc[s])
    BY <1>1 DEF IsDocument
  <2>2. IsPart(s, Restricted(doc[s], Columns[s] \ {f}))
    BY <2>1 DEF IsPart, Restricted
  <2>3. ASSUME NEW v \in ValuesOf(f) PROVE IsPart(s, [doc[s] EXCEPT ![f] = v])
    BY <2>1, ValuesAre DEF IsPart
  <2>4. doc' = [doc EXCEPT ![s] = Restricted(doc[s], Columns[s] \ {f})] => IsDocument(doc')
    BY <1>3, <2>2
  <2>5. ASSUME NEW v \in ValuesOf(f), doc' = [doc EXCEPT ![s] = [doc[s] EXCEPT ![f] = v]]
        PROVE  IsDocument(doc')
    BY <1>3, <2>3, <2>5
  <2>. QED
    BY <2>4, <2>5
<1>. QED
  BY <1>2, <1>4 DEF EditDocument

LEMMA SettingsInvNext ==
    ASSUME SettingsInv, [SettingsNext]_settingsVars
    PROVE  SettingsInv'
<1>. DEFINE PageOK == page' # None => PageIs(page')
            BackupOK == backup' # None => ExportIs(backup', doc')
<1>1. edits \in 0 .. MaxEdits /\ MaxEdits \in Nat
  BY SettingsAssumption DEF SettingsInv, SettingsAssumption
<1>2. edits' \in 0 .. MaxEdits
  <2>1. edits' = edits \/ Edited
    BY DEF SettingsNext, settingsVars, OpenPage, SavePage, MutateShareUser, ChangeField, ChangeList,
           SaveCookie, CreateRemote, Reload, Export, EditDocument, Import, DumpReload
  <2>. QED
    BY <1>1, <2>1 DEF Edited
<1>3. TablesAre(tables')
  <2>1. \/ tables' = tables
        \/ SavePage \/ MutateShareUser \/ SaveCookie \/ CreateRemote \/ Import \/ DumpReload
    BY DEF SettingsNext, settingsVars, OpenPage, ChangeField, ChangeList, Reload, Export,
           EditDocument
  <2>. QED
    BY <2>1, WritesKeep DEF SettingsInv
<1>4. SettingsAre(settings')
  <2>1. settings' = settings \/ settings' = Load(tables) \/ settings' = Load(tables')
    BY DEF SettingsNext, settingsVars, OpenPage, SavePage, MutateShareUser, ChangeField, ChangeList,
           SaveCookie, CreateRemote, Reload, Export, EditDocument, Import, DumpReload
  <2>. QED
    BY <1>3, <2>1, LoadedAre DEF SettingsInv
<1>5. IsDocument(doc') /\ BackupOK
  <2>1. CASE Export
    <3>1. TablesAre(tables) /\ DOMAIN tables = Tables
      BY DEF SettingsInv, TablesAre
    <3>2. doc' = Exported(tables) /\ backup' = Load(tables)
      BY <2>1 DEF Export
    <3>3. IsDocument(doc')
      BY <3>1, <3>2, ExportedIs
    <3>4. \A s \in Named : s \in DOMAIN doc' /\ doc'[s] = tables[s] /\ backup'[s] = tables[s]
      BY <3>1, <3>2, ExportedIs, LoadIs
    <3>5. \A s \in (DOMAIN doc' \cap Sections) \ {"indexing"} :
             doc'[s] = tables[s] /\ tables[s] # NoRow /\ backup'[s] = LoadSection(s, tables[s])
      <4>1. ASSUME NEW s \in (DOMAIN doc' \cap Sections) \ {"indexing"}
            PROVE  doc'[s] = tables[s] /\ s \in {x \in Sections : tables[x] # NoRow}
        BY <3>1, <3>2, ExportedIs, SeparateTables
      <4>2. \A s \in Sections : backup'[s] = LoadSection(s, tables[s])
        BY <3>1, <3>2, LoadIs
      <4>. QED
        BY <4>1, <4>2
    <3>6. \A s \in (DOMAIN doc' \cap Sections) \ {"indexing"} :
             IsRow(s, tables[s]) /\ (s = "ui" => tables[s]["theme"] # "falsy")
      BY <3>1, <3>5 DEF TablesAre
    <3>7. doc'["cookies"] \in CookieRows
      BY <3>1, <3>4, NamedAre DEF TablesAre
    <3>. QED
      BY <3>3, <3>4, <3>5, <3>6, <3>7 DEF ExportIs
  <2>2. CASE EditDocument
    <3>1. backup' = None
      BY <2>2 DEF EditDocument
    <3>. QED
      BY <2>2, <3>1, EditDocumentKeeps
  <2>3. CASE UNCHANGED <<doc, backup>>
    BY <2>3 DEF SettingsInv
  <2>. QED
    BY <2>1, <2>2, <2>3
    DEF SettingsNext, settingsVars, OpenPage, SavePage, MutateShareUser, ChangeField, ChangeList,
        SaveCookie, CreateRemote, Reload, Import, DumpReload
<1>6. PageOK
  <2>1. CASE page' = page \/ page' = None
    BY <2>1 DEF SettingsInv
  <2>2. \/ page' = page \/ page' = None \/ OpenPage
        \/ \E f \in Editable : ChangeField(f)
        \/ \E s \in {"paths", "shares"} : ChangeList(s)
    BY DEF SettingsNext, settingsVars, SavePage, MutateShareUser, SaveCookie, CreateRemote, Reload,
           Export, EditDocument, Import, DumpReload
  <2>. QED
    BY <2>1, <2>2, OpenPageKeeps, ChangeFieldKeeps, ChangeListKeeps
<1>. QED
  BY <1>2, <1>3, <1>4, <1>5, <1>6 DEF SettingsInv

-----------------------------------------------------------------------------
(* The theorems about the settings. *)

\* Every row has all the columns of its table, with values that they have, and
\* so have the settings that are loaded, the form of the page and documents.
THEOREM SettingsTypeCorrect == SettingsSpec => []SettingsTypeOK
BY SettingsInvInit, SettingsInvNext, SettingsInvTyped, PTL DEF SettingsSpec

\* An export that nobody edited brings back what it was made of, whatever the
\* tables are when it is imported, and a reload that dumps changes nothing
\* (import_config_from_data of what _collect_all_configuration gave).  There is an
\* export only while no user is imported and no cookie has content (Exportable).
THEOREM ExportsRoundTrip == SettingsSpec => []ExportRoundTrips
<1>1. ASSUME SettingsInv PROVE ExportRoundTrips
  <2>1. TablesAre(tables) /\ IsDocument(doc)
    BY <1>1 DEF SettingsInv
  <2>2. ASSUME backup # None
        PROVE  LET now == Load(Restored(tables, doc)) IN
               /\ \A s \in (DOMAIN doc \cap Sections) \ {"indexing"} : now[s] = backup[s]
               /\ \A s \in Named : \A n \in DOMAIN backup[s] :
                      (s = "paths" /\ n \notin Recognised) \/ now[s][n] = backup[s][n]
    BY <1>1, <2>1, <2>2, ImportBringsBack DEF SettingsInv, ExportIs
  <2>3. Load(Restored(tables, Exported(tables))) = Load(tables)
    BY <2>1, OwnExport
  <2>. QED
    BY <2>2, <2>3 DEF ExportRoundTrips
<1>. QED
  BY <1>1, SettingsInvInit, SettingsInvNext, PTL DEF SettingsSpec

\* One save, from any state of the invariant.
LEMMA SaveKeepsTheRest ==
    ASSUME SettingsInv, SavePage
    PROVE  /\ tables'["cookies"] = tables["cookies"] /\ tables'["users"] = tables["users"]
           /\ LoadRow("rclone", tables'["rclone"])["remotes"]
                = LoadRow("rclone", tables["rclone"])["remotes"]
           /\ \A n \in DOMAIN tables["shares"] \cap DOMAIN tables'["shares"] :
                tables'["shares"][n][2] = tables["shares"][n][2]
           /\ page.had = Load(tables) =>
                /\ \A s \in Sections : \A f \in Columns[s] \ page.touched :
                      MayBecome(f, page.had[s][f], settings'[s][f], page.had["auth"])
                /\ \A s \in Named :
                      LET same == NamesOf[s] \ page.touched IN
                      Restricted(settings'[s], same) = Restricted(page.had[s], same)
<1>. DEFINE form == page.form
            p == Collected(form)
<1>1. /\ TablesAre(tables) /\ PageIs(page) /\ FormIs(form)
      /\ DOMAIN tables = Tables
      /\ tables' = Updated(tables, p) /\ settings' = Load(tables')
  BY DEF SettingsInv, SavePage, PageIs, TablesAre
<1>2. /\ DOMAIN p = Sections \cup {"paths", "shares"}
      /\ p["paths"] = form["paths"] /\ p["shares"] = form["shares"]
  BY <1>1, CollectedIs
<1>3. "cookies" \in Tables \ DOMAIN p /\ "users" \in Tables \ DOMAIN p /\ "rclone" \in DOMAIN p
  BY <1>2, SeparateTables, NamedAre, SectionsAre DEF Tables, SectionNames
<1>4. tables'["cookies"] = tables["cookies"] /\ tables'["users"] = tables["users"]
  BY <1>1, <1>3, UpdatedIs
<1>5. /\ tables'["paths"] = form["paths"]
      /\ tables'["shares"] = UpdatedShares(form["shares"], tables["shares"])
      /\ tables'["rclone"] = UpdatedRclone(p["rclone"], tables["rclone"])
  BY <1>1, <1>2, <1>3, UpdatedIs
<1>6. LoadRow("rclone", tables'["rclone"])["remotes"]
        = LoadRow("rclone", tables["rclone"])["remotes"]
  <2>1. tables["rclone"] = NoRow \/ IsRow("rclone", tables["rclone"])
    BY <1>1, SectionsAre DEF TablesAre, SectionNames
  <2>2. /\ IsRow("rclone", tables'["rclone"])
        /\ tables'["rclone"]["remotes"] = LoadRow("rclone", tables["rclone"])["remotes"]
    BY <1>1, <1>5, <2>1, SavedRclone
  <2>3. tables'["rclone"] # NoRow
    BY <2>2, SectionsAre, ColumnsAre DEF IsRow, NoRow
  <2>. QED
    BY <2>2, <2>3 DEF LoadRow
<1>7. form["shares"] \in Partial(Shares, {"one", "two"}) /\ tables["shares"] \in ShareRows
  BY <1>1, NamedAre DEF FormIs, FormLists, TablesAre
<1>8. \A n \in DOMAIN tables["shares"] \cap DOMAIN tables'["shares"] :
         tables'["shares"][n][2] = tables["shares"][n][2]
  BY <1>5, <1>7, SharesAre
<1>9. ASSUME page.had = Load(tables), NEW s \in Sections, NEW f \in Columns[s] \ page.touched
      PROVE  MayBecome(f, page.had[s][f], settings'[s][f], page.had["auth"])
  <2>1. form[s][f] = Populated(Described(page.had))[s][f]
    BY <1>1 DEF PageIs
  <2>. QED
    BY <1>1, <1>9, <2>1, FieldsSurvive
<1>10. ASSUME page.had = Load(tables), NEW s \in Named
       PROVE  Restricted(settings'[s], NamesOf[s] \ page.touched)
                 = Restricted(page.had[s], NamesOf[s] \ page.touched)
  <2>1. settings'[s] = tables'[s] /\ page.had[s] = tables[s]
    <3>1. DOMAIN tables' = Tables
      BY <1>1, UpdatedIs
    <3>. QED
      BY <1>1, <1>10, <3>1, LoadIs
  <2>2. /\ Described(page.had)["paths"] = page.had["paths"]
        /\ Described(page.had)["shares"] =
              [n \in DOMAIN page.had["shares"] |-> page.had["shares"][n][1]]
    BY <1>1, DescribedIs DEF PageIs
  <2>3. \A x \in {"paths", "shares"} : \A n \in NamesOf[x] \ page.touched :
           /\ n \in DOMAIN form[x] <=> n \in DOMAIN Described(page.had)[x]
           /\ n \in DOMAIN form[x] => form[x][n] = Described(page.had)[x][n]
    BY <1>1 DEF PageIs
  <2>4. CASE s = "paths"
    <3>1. \A n \in NamesOf[s] \ page.touched :
             /\ n \in DOMAIN tables'[s] <=> n \in DOMAIN tables[s]
             /\ n \in DOMAIN tables'[s] => tables'[s][n] = tables[s][n]
      BY <1>5, <2>1, <2>2, <2>3, <2>4
    <3>. QED
      BY <2>1, <3>1 DEF Restricted
  <2>5. CASE s = "shares"
    <3>1. \A n \in NamesOf[s] \ page.touched :
             /\ n \in DOMAIN tables'[s] <=> n \in DOMAIN tables[s]
             /\ n \in DOMAIN tables'[s] => tables'[s][n] = tables[s][n]
      BY <1>5, <1>7, <2>1, <2>2, <2>3, <2>5, SharesAre
    <3>. QED
      BY <2>1, <3>1 DEF Restricted
  <2>6. CASE s = "cookies"
    BY <1>4, <2>1, <2>6
  <2>. QED
    BY <2>4, <2>5, <2>6, NamedAre
<1>. QED
  BY <1>4, <1>6, <1>8, <1>9, <1>10

\* Saving the settings page, however old it is, leaves alone what the page does
\* not send and, if the page showed what was stored, what nobody touched
\* (update_settings_detail).
THEOREM SavesKeepTheRest == SettingsSpec => PageKeepsTheRest
<1>. DEFINE Keeps ==
        page' = None /\ SavePage =>
        /\ tables'["cookies"] = tables["cookies"] /\ tables'["users"] = tables["users"]
        /\ LoadRow("rclone", tables'["rclone"])["remotes"]
               = LoadRow("rclone", tables["rclone"])["remotes"]
        /\ \A n \in DOMAIN tables["shares"] \cap DOMAIN tables'["shares"] :
               tables'["shares"][n][2] = tables["shares"][n][2]
        /\ page.current /\ page.had = Load(tables) =>
               /\ \A s \in Sections : \A f \in Columns[s] \ page.touched :
                      MayBecome(f, page.had[s][f], settings'[s][f], page.had["auth"])
               /\ \A s \in Named :
                      LET same == NamesOf[s] \ page.touched IN
                      Restricted(settings'[s], same) = Restricted(page.had[s], same)
<1>1. SettingsInv /\ [SettingsNext]_settingsVars => [Keeps]_settingsVars
  <2>. SUFFICES ASSUME SettingsInv, SavePage PROVE Keeps
    OBVIOUS
  <2>. QED
    BY SaveKeepsTheRest
<1>2. SettingsSpec => [][Keeps]_settingsVars
  <2>. HIDE DEF Keeps
  <2>. QED
    BY <1>1, SettingsInvInit, SettingsInvNext, PTL DEF SettingsSpec
<1>. QED
  BY <1>2 DEF PageKeepsTheRest

-----------------------------------------------------------------------------
(* Tables and rows of ConfigStore. *)

LEMMA MergedIs ==
    ASSUME NEW f, NEW g, IsTable(f), IsTable(g)
    PROVE  /\ IsTable(Merged(f, g))
           /\ DOMAIN Merged(f, g) = DOMAIN f \cup DOMAIN g
           /\ \A n \in DOMAIN f : Merged(f, g)[n] = f[n]
           /\ \A n \in DOMAIN g \ DOMAIN f : Merged(f, g)[n] = g[n]
BY DEF IsTable, Merged

LEMMA NoRowsIs ==
    /\ IsTable(NoRows) /\ IsTables(NoRows) /\ DOMAIN NoRows = {}
    /\ NoRows = [n \in {} |-> NoRows[n]]
BY DEF IsTable, IsTables, NoRows

LEMMA OneRowIs ==
    ASSUME NEW f, IsTable(f), NEW N, N \subseteq DOMAIN f
    PROVE  IsTable([n \in N |-> f[n]])
BY DEF IsTable

LEMMA KeepIs ==
    ASSUME NEW table, NEW rows, IsTable(table), IsTable(rows)
    PROVE  IsTable(Keep(table, rows)) /\ DOMAIN Keep(table, rows) = DOMAIN rows
<1>1. \A n \in DOMAIN rows :
        [set |-> rows[n].set, kept |-> IF n \in DOMAIN table THEN table[n].kept ELSE {}] \in PartRows
  <2>. TAKE n \in DOMAIN rows
  <2>1. rows[n].set \in Given
    BY DEF IsTable, PartRows
  <2>2. n \in DOMAIN table => table[n].kept \subseteq Kept
    BY DEF IsTable, PartRows
  <2>. QED
    BY <2>1, <2>2 DEF PartRows
<1>. QED
  BY <1>1 DEF IsTable, Keep

LEMMA RowsIs ==
    ASSUME NEW part, \A n \in DOMAIN part : part[n] \in Given
    PROVE  IsTable(Rows(part))
BY DEF IsTable, Rows, PartRows

\* Tables of sections.
LEMMA ResultIs ==
    ASSUME NEW now, NEW ask, IsTables(now), DOMAIN now = Parts, IsTables(ask), DOMAIN ask \subseteq Parts
    PROVE  /\ IsTables(Result(now, ask)) /\ DOMAIN Result(now, ask) = Parts
           /\ \A s \in Parts \ DOMAIN ask : Result(now, ask)[s] = now[s]
           /\ \A s \in DOMAIN ask :
                 Result(now, ask)[s] = IF s \in Single THEN Merged(ask[s], now[s])
                                       ELSE IF s \in Keeping THEN Keep(now[s], ask[s])
                                       ELSE ask[s]
<1>1. \A s \in Parts : IsTable(now[s])
  BY DEF IsTables
<1>2. \A s \in DOMAIN ask : IsTable(ask[s]) /\ IsTable(Merged(ask[s], now[s])) /\ IsTable(Keep(now[s], ask[s]))
  BY <1>1, MergedIs, KeepIs DEF IsTables
<1>3. /\ DOMAIN Result(now, ask) = Parts
      /\ Result(now, ask) = [s \in Parts |-> Result(now, ask)[s]]
      /\ \A s \in Parts \ DOMAIN ask : Result(now, ask)[s] = now[s]
      /\ \A s \in DOMAIN ask :
            Result(now, ask)[s] = IF s \in Single THEN Merged(ask[s], now[s])
                                  ELSE IF s \in Keeping THEN Keep(now[s], ask[s])
                                  ELSE ask[s]
  BY DEF Result
<1>4. \A s \in Parts : IsTable(Result(now, ask)[s])
  BY <1>1, <1>2, <1>3
<1>. QED
  BY <1>3, <1>4 DEF IsTables

LEMMA TablesWith ==
    ASSUME NEW ts, IsTables(ts), NEW s \in DOMAIN ts, NEW t, IsTable(t)
    PROVE  IsTables([ts EXCEPT ![s] = t]) /\ DOMAIN [ts EXCEPT ![s] = t] = DOMAIN ts
BY DEF IsTables

\* Sequences of cachelinks.
LEMMA OrdersAre ==
    ASSUME NEW rows, rows \subseteq LinkRows, IsFiniteSet(rows), NEW q \in Orders(rows)
    PROVE  q \in Seq(LinkRows) /\ Range(q) = rows /\ DOMAIN q = 1 .. Len(q)
<1>1. Cardinality(rows) \in Nat
  BY FS_CardinalityType
<1>2. q \in [1 .. Cardinality(rows) -> LinkRows] /\ Range(q) = rows
  BY DEF Orders
<1>3. q \in Seq(LinkRows)
  BY <1>1, <1>2, IsASeq
<1>. QED
  BY <1>2, <1>3

LEMMA OthersStay ==
    ASSUME NEW rows, rows \subseteq LinkRows, IsFiniteSet(rows), NEW l \in Links,
           NEW q \in Creation(rows, l) \cup FolderAddition(rows, l) \cup Update(rows, l)
                    \cup Deletion(rows, l) \cup FolderDeletion(rows, l)
    PROVE  q \in Seq(LinkRows) /\ \A m \in Links \ {l} : Of(Range(q), m) = Of(rows, m)
<1>1. ASSUME NEW urls \in SUBSET (Urls \cup {NoUrl}), q \in Appended(rows, l, urls)
      PROVE  q \in Seq(LinkRows) /\ \A m \in Links \ {l} : Of(Range(q), m) = Of(rows, m)
  <2>1. PICK p \in Orders(rows), u \in urls : q = Append(p, Row(l, u))
    BY <1>1 DEF Appended
  <2>. DEFINE row == Row(l, u)
  <2>2. row \in LinkRows /\ row.id = l
    BY <2>1 DEF LinkRows, Row
  <2>3. p \in Seq(LinkRows) /\ Range(p) = rows
    BY <2>1, OrdersAre
  <2>. HIDE DEF row
  <2>4. q \in Seq(LinkRows) /\ Range(q) = rows \cup {row}
    <3>1. q = Append(p, row)
      BY <2>1 DEF row
    <3>2. /\ q \in Seq(LinkRows) /\ Len(q) = Len(p) + 1
          /\ \A i \in 1 .. Len(p) : q[i] = p[i]
          /\ q[Len(q)] = row
      BY <2>2, <2>3, <3>1, AppendProperties
    <3>3. DOMAIN q = 1 .. Len(p) + 1 /\ DOMAIN p = 1 .. Len(p) /\ Len(p) \in Nat
      BY <2>3, <3>2, LenProperties
    <3>4. DOMAIN q = DOMAIN p \cup {Len(q)}
      BY <3>2, <3>3
    <3>. QED
      BY <2>3, <3>2, <3>3, <3>4 DEF Range
  <2>. QED
    BY <2>2, <2>4 DEF Of
<1>2. ASSUME q \in Update(rows, l)
      PROVE  q \in Seq(LinkRows) /\ \A m \in Links \ {l} : Of(Range(q), m) = Of(rows, m)
  <2>. DEFINE Changed(p, i, u) == [p EXCEPT ![i].url = u]
              firsts(p) == {k \in DOMAIN p : p[k].id = l /\ \A j \in 1 .. k - 1 : p[j].id # l}
  <2>0. /\ q \in UNION {{Changed(p, i, u) : i \in firsts(p), u \in Urls \cup {NoUrl}} :
                            p \in Orders(rows)}
        /\ \A p : firsts(p) \subseteq {k \in DOMAIN p : p[k].id = l}
    BY <1>2 DEF Update
  <2>. HIDE DEF Changed, firsts
  <2>1. PICK p \in Orders(rows) : \E i \in firsts(p), u \in Urls \cup {NoUrl} : q = Changed(p, i, u)
    BY <2>0
  <2>2a. PICK i \in firsts(p), u \in Urls \cup {NoUrl} : q = Changed(p, i, u)
    BY <2>1
  <2>2. i \in DOMAIN p /\ p[i].id = l /\ q = [p EXCEPT ![i].url = u]
    BY <2>0, <2>2a DEF Changed
  <2>3. p \in Seq(LinkRows) /\ Range(p) = rows /\ DOMAIN p = 1 .. Len(p) /\ Len(p) \in Nat
    BY OrdersAre, LenProperties
  <2>4. p[i] \in LinkRows
    BY <2>2, <2>3, ElementOfSeq
  <2>5. [p[i] EXCEPT !.url = u] \in LinkRows /\ [p[i] EXCEPT !.url = u].id = l
    BY <2>2, <2>4 DEF LinkRows
  <2>. DEFINE row == [p[i] EXCEPT !.url = u]
  <2>6. q = [p EXCEPT ![i] = row]
    BY <2>2
  <2>. HIDE DEF row
  <2>7. q \in Seq(LinkRows) /\ DOMAIN q = DOMAIN p /\ q[i] = row /\ \A j \in DOMAIN p \ {i} : q[j] = p[j]
    <3>1. row \in LinkRows
      BY <2>5 DEF row
    <3>2. q \in Seq(LinkRows)
      BY <2>2, <2>3, <2>6, <3>1, ExceptSeq
    <3>. QED
      BY <2>6, <3>2
  <2>8. row.id = l /\ p[i].id = l
    BY <2>2, <2>5 DEF row
  <2>9. \A m \in Links \ {l} : Of(Range(q), m) = Of(Range(p), m)
    BY <2>7, <2>8 DEF Of, Range
  <2>. QED
    BY <2>3, <2>7, <2>9
<1>3. ASSUME q \in Deletion(rows, l)
      PROVE  q \in Seq(LinkRows) /\ \A m \in Links \ {l} : Of(Range(q), m) = Of(rows, m)
  <2>1. q \in Orders(rows \ Of(rows, l))
    BY <1>3 DEF Deletion
  <2>2. IsFiniteSet(rows \ Of(rows, l)) /\ rows \ Of(rows, l) \subseteq LinkRows
    BY FS_Subset
  <2>3. q \in Seq(LinkRows) /\ Range(q) = rows \ Of(rows, l)
    BY <2>1, <2>2, OrdersAre
  <2>. QED
    BY <2>3 DEF Of
<1>. QED
  BY <1>1, <1>2, <1>3 DEF Creation, FolderAddition, FolderDeletion

-----------------------------------------------------------------------------
(* Requests.                                                               *)

ThreadFields == {"at", "todo", "doc", "own", "missed", "from", "ask", "stage", "put", "aim",
                 "clean", "found", "got"}
Shaped(t) == DOMAIN t = ThreadFields
WellTyped(t) == Shaped(t) /\ IsRequest(t)

LEMMA IdleIs == WellTyped(Idle) /\ Idle.at = "idle"
<1>1. /\ Shaped(Idle) /\ Idle.at = "idle" /\ Idle.from = "none" /\ Idle.own = {} /\ Idle.missed = {}
      /\ Idle.doc = {} /\ Idle.todo = <<>> /\ Idle.ask = NoRows /\ Idle.aim = NoRows
      /\ Idle.got = NoRows /\ Idle.stage = NoRows /\ Idle.put = NoRows
      /\ Idle.clean = TRUE /\ Idle.found = FALSE
  BY DEF Idle, Shaped, ThreadFields
<1>2. <<>> \in Seq(LinkRows) /\ Range(<<>>) = {}
  BY DEF Range
<1>3. NoRows \in [DOMAIN NoRows -> {"read", "wipe", "put"}]
  BY DEF NoRows
<1>. QED
  BY <1>1, <1>2, <1>3, NoRowsIs DEF WellTyped, IsRequest, Places

\* A request that begins to read or write cachelinks, or to export.
LEMMA BegunIs ==
    ASSUME NEW rows, rows \subseteq LinkRows, NEW p \in Places
    PROVE  /\ WellTyped([Idle EXCEPT !.at = p]) /\ [Idle EXCEPT !.at = p].at = p
           /\ WellTyped([Idle EXCEPT !.at = p, !.doc = rows])
           /\ [Idle EXCEPT !.at = p, !.doc = rows].at = p
           /\ [Idle EXCEPT !.at = p, !.doc = rows].doc = rows
<1>. DEFINE a == [Idle EXCEPT !.at = p]
            b == [Idle EXCEPT !.at = p, !.doc = rows]
<1>1. /\ Shaped(a) /\ a.at = p /\ \A f \in ThreadFields \ {"at"} : a[f] = Idle[f]
      /\ Shaped(b) /\ b.at = p /\ b.doc = rows
      /\ \A f \in ThreadFields \ {"at", "doc"} : b[f] = Idle[f]
  BY IdleIs DEF WellTyped, Shaped, ThreadFields
<1>2. Idle.todo = <<>>
  BY DEF Idle
<1>. HIDE DEF a, b
<1>3. Range(<<>>) = {}
  BY DEF Range
<1>4. IsRequest(a) /\ IsRequest(b)
  BY <1>1, <1>2, <1>3, IdleIs DEF WellTyped, IsRequest, ThreadFields
<1>. QED
  BY <1>1, <1>4 DEF WellTyped, a, b

LEMMA MovedIs ==
    ASSUME NEW t, WellTyped(t), NEW p \in Places
    PROVE  LET u == [t EXCEPT !.at = p] IN
           WellTyped(u) /\ u.at = p /\ \A f \in ThreadFields \ {"at"} : u[f] = t[f]
<1>. DEFINE u == [t EXCEPT !.at = p]
<1>1. Shaped(u) /\ u.at = p /\ \A f \in ThreadFields \ {"at"} : u[f] = t[f]
  BY DEF WellTyped, Shaped, ThreadFields
<1>. HIDE DEF u
<1>2. IsRequest(u)
  BY <1>1 DEF WellTyped, IsRequest, ThreadFields
<1>. QED
  BY <1>1, <1>2 DEF WellTyped, u

LEMMA DisturbedIs ==
    ASSUME NEW t, WellTyped(t)
    PROVE  LET u == [t EXCEPT !.clean = FALSE] IN
           WellTyped(u) /\ u.clean = FALSE /\ \A f \in ThreadFields \ {"clean"} : u[f] = t[f]
<1>. DEFINE u == [t EXCEPT !.clean = FALSE]
<1>1. Shaped(u) /\ u.clean = FALSE /\ \A f \in ThreadFields \ {"clean"} : u[f] = t[f]
  BY DEF WellTyped, Shaped, ThreadFields
<1>. HIDE DEF u
<1>2. IsRequest(u)
  BY <1>1 DEF WellTyped, IsRequest, ThreadFields
<1>. QED
  BY <1>1, <1>2 DEF WellTyped, u

LEMMA MissingIs ==
    ASSUME NEW t, WellTyped(t), NEW own, own \subseteq Links
    PROVE  LET u == [t EXCEPT !.missed = @ \cup own] IN
           /\ WellTyped(u) /\ u.missed = t.missed \cup own
           /\ \A f \in ThreadFields \ {"missed"} : u[f] = t[f]
<1>. DEFINE u == [t EXCEPT !.missed = @ \cup own]
<1>1. /\ Shaped(u) /\ u.missed = t.missed \cup own
      /\ \A f \in ThreadFields \ {"missed"} : u[f] = t[f]
  BY DEF WellTyped, Shaped, ThreadFields
<1>. HIDE DEF u
<1>2. IsRequest(u)
  BY <1>1 DEF WellTyped, IsRequest, ThreadFields
<1>. QED
  BY <1>1, <1>2 DEF WellTyped, u

Cleared(t, q, own) == [t EXCEPT !.at = "insert", !.todo = q, !.own = own, !.doc = Range(q)]

LEMMA ClearedIs ==
    ASSUME NEW t, WellTyped(t), NEW q \in Seq(LinkRows), NEW own, own \subseteq Links,
           NEW u, u = Cleared(t, q, own)
    PROVE  /\ WellTyped(u) /\ u.at = "insert" /\ u.todo = q /\ u.own = own /\ u.doc = Range(q)
           /\ \A f \in ThreadFields \ {"at", "todo", "own", "doc"} : u[f] = t[f]
<1>1. /\ Shaped(u) /\ u.at = "insert" /\ u.todo = q /\ u.own = own /\ u.doc = Range(q)
      /\ \A f \in ThreadFields \ {"at", "todo", "own", "doc"} : u[f] = t[f]
  BY DEF WellTyped, Shaped, ThreadFields, Cleared
<1>2. Range(q) \subseteq LinkRows
  <2>1. \A i \in 1 .. Len(q) : q[i] \in LinkRows
    BY ElementOfSeq
  <2>. QED
    BY <2>1, LenProperties DEF Range
<1>3. IsRequest(u)
  BY <1>1, <1>2 DEF WellTyped, IsRequest, ThreadFields, Places
<1>. QED
  BY <1>1, <1>3 DEF WellTyped

LEMMA ShorterIs ==
    ASSUME NEW t, WellTyped(t), t.todo # <<>>
    PROVE  LET u == [t EXCEPT !.todo = Tail(@)] IN
           /\ WellTyped(u) /\ u.todo = Tail(t.todo)
           /\ Range(t.todo) = {Head(t.todo)} \cup Range(u.todo) /\ Head(t.todo) \in LinkRows
           /\ \A f \in ThreadFields \ {"todo"} : u[f] = t[f]
<1>. DEFINE u == [t EXCEPT !.todo = Tail(@)]
<1>1. /\ Shaped(u) /\ u.todo = Tail(t.todo) /\ \A f \in ThreadFields \ {"todo"} : u[f] = t[f]
  BY DEF WellTyped, Shaped, ThreadFields
<1>. HIDE DEF u
<1>2. t.todo \in Seq(LinkRows) /\ Range(t.todo) \subseteq t.doc
  BY DEF WellTyped, IsRequest
<1>3. /\ Tail(t.todo) \in Seq(LinkRows) /\ Head(t.todo) = t.todo[1]
      /\ Head(t.todo) \in LinkRows
      /\ Len(Tail(t.todo)) = Len(t.todo) - 1 /\ Len(t.todo) \in Nat \ {0}
      /\ \A i \in 1 .. Len(t.todo) - 1 : Tail(t.todo)[i] = t.todo[i + 1]
  BY <1>2, HeadTailProperties, LenProperties, EmptySeq
<1>4. DOMAIN t.todo = 1 .. Len(t.todo) /\ DOMAIN Tail(t.todo) = 1 .. Len(t.todo) - 1
  BY <1>2, <1>3, LenProperties
<1>5. Range(t.todo) = {Head(t.todo)} \cup Range(Tail(t.todo))
  <2>1. Range(t.todo) \subseteq {Head(t.todo)} \cup Range(Tail(t.todo))
    <3>. SUFFICES ASSUME NEW i \in 1 .. Len(t.todo), i # 1 PROVE t.todo[i] \in Range(Tail(t.todo))
      BY <1>3, <1>4 DEF Range
    <3>1. i - 1 \in 1 .. Len(t.todo) - 1 /\ i - 1 + 1 = i
      BY <1>3
    <3>2. t.todo[i] = Tail(t.todo)[i - 1]
      BY <1>3, <3>1
    <3>. QED
      BY <1>4, <3>1, <3>2 DEF Range
  <2>2. ASSUME NEW i \in 1 .. Len(t.todo) - 1 PROVE Tail(t.todo)[i] \in Range(t.todo)
    <3>1. i + 1 \in 1 .. Len(t.todo) /\ Tail(t.todo)[i] = t.todo[i + 1]
      BY <1>3
    <3>. QED
      BY <1>4, <3>1 DEF Range
  <2>3. Head(t.todo) \in Range(t.todo)
    <3>1. 1 \in 1 .. Len(t.todo)
      BY <1>3
    <3>. QED
      BY <1>3, <1>4, <3>1 DEF Range
  <2>4. Range(Tail(t.todo)) \subseteq Range(t.todo)
    BY <1>4, <2>2 DEF Range
  <2>. QED
    BY <2>1, <2>3, <2>4
<1>6. IsRequest(u)
  BY <1>1, <1>2, <1>3, <1>5 DEF WellTyped, IsRequest, ThreadFields
<1>. QED
  BY <1>1, <1>3, <1>5, <1>6 DEF WellTyped, u

\* A request that begins an update or an import of the settings.
NonePut(ask) == [s \in DOMAIN ask |-> {}]
AsUpdated(p, ask, stage, aim, c) ==
    [Idle EXCEPT !.at = p, !.from = p, !.ask = ask, !.aim = aim,
                 !.stage = stage, !.put = NonePut(ask), !.clean = c]

LEMMA UpdatedFields ==
    ASSUME NEW p, NEW ask, NEW stage, NEW aim, NEW c
    PROVE  LET u == AsUpdated(p, ask, stage, aim, c) IN
           /\ u.at = p /\ u.from = p /\ u.ask = ask /\ u.aim = aim /\ u.stage = stage
           /\ u.put = NonePut(ask) /\ u.clean = c
           /\ \A f \in {"todo", "doc", "own", "missed", "found", "got"} : u[f] = Idle[f]
           /\ Shaped(u)
BY IdleIs DEF WellTyped, Shaped, ThreadFields, AsUpdated, NonePut

LEMMA UpdateBegunIs ==
    ASSUME NEW p, p \in {"update", "restore"}, NEW ask, IsTables(ask), DOMAIN ask \subseteq Parts,
           NEW stage, stage \in [DOMAIN ask -> {"read", "wipe", "put"}],
           NEW aim, IsTables(aim), NEW c, c \in BOOLEAN
    PROVE  WellTyped(AsUpdated(p, ask, stage, aim, c))
<1>. DEFINE u == AsUpdated(p, ask, stage, aim, c)
<1>1. /\ Shaped(u) /\ u.at = p /\ u.from = p /\ u.ask = ask /\ u.aim = aim /\ u.stage = stage
      /\ u.put = NonePut(ask) /\ u.clean = c
      /\ \A f \in {"todo", "doc", "own", "missed", "found", "got"} : u[f] = Idle[f]
  BY UpdatedFields
<1>. HIDE DEF u
<1>2. IsRequest(u)
  BY <1>1, IdleIs DEF WellTyped, IsRequest, Places, NonePut
<1>. QED
  BY <1>1, <1>2 DEF WellTyped, u

KeptBy(t, s, table) == [t EXCEPT !.stage[s] = "wipe", !.ask[s] = Keep(table, t.ask[s])]

LEMMA KeptIs ==
    ASSUME NEW t, WellTyped(t), NEW s \in DOMAIN t.ask, NEW table, IsTable(table)
    PROVE  LET u == KeptBy(t, s, table) IN
           /\ WellTyped(u)
           /\ \A f \in ThreadFields \ {"stage", "ask"} : u[f] = t[f]
<1>. DEFINE u == KeptBy(t, s, table)
<1>1. /\ Shaped(u) /\ u.stage = [t.stage EXCEPT ![s] = "wipe"]
      /\ u.ask = [t.ask EXCEPT ![s] = Keep(table, t.ask[s])]
      /\ \A f \in ThreadFields \ {"stage", "ask"} : u[f] = t[f]
  BY DEF WellTyped, Shaped, ThreadFields, KeptBy
<1>. HIDE DEF u
<1>2. IsTables(t.ask) /\ IsTable(t.ask[s])
  BY DEF WellTyped, IsRequest, IsTables
<1>3. IsTable(Keep(table, t.ask[s])) /\ DOMAIN Keep(table, t.ask[s]) = DOMAIN t.ask[s]
  BY <1>2, KeepIs
<1>4. IsTables(u.ask) /\ DOMAIN u.ask = DOMAIN t.ask
  BY <1>1, <1>2, <1>3, TablesWith
<1>5. \A r \in DOMAIN t.ask : DOMAIN u.ask[r] = DOMAIN t.ask[r]
  BY <1>1, <1>3
<1>6. u.stage \in [DOMAIN u.ask -> {"read", "wipe", "put"}]
  BY <1>1, <1>4 DEF WellTyped, IsRequest
<1>7. u.put = [r \in DOMAIN u.ask |-> u.put[r]] /\ \A r \in DOMAIN u.ask : u.put[r] \subseteq DOMAIN u.ask[r]
  BY <1>1, <1>4, <1>5 DEF WellTyped, IsRequest, ThreadFields
<1>8. IsRequest(u)
  BY <1>1, <1>4, <1>6, <1>7 DEF WellTyped, IsRequest, ThreadFields
<1>. QED
  BY <1>1, <1>8 DEF WellTyped, u

LEMMA WipedIs ==
    ASSUME NEW t, WellTyped(t), NEW s \in DOMAIN t.ask
    PROVE  LET u == [t EXCEPT !.stage[s] = "put"] IN
           /\ WellTyped(u) /\ u.stage = [t.stage EXCEPT ![s] = "put"]
           /\ \A f \in ThreadFields \ {"stage"} : u[f] = t[f]
<1>. DEFINE u == [t EXCEPT !.stage[s] = "put"]
<1>1. /\ Shaped(u) /\ u.stage = [t.stage EXCEPT ![s] = "put"]
      /\ \A f \in ThreadFields \ {"stage"} : u[f] = t[f]
  BY DEF WellTyped, Shaped, ThreadFields
<1>. HIDE DEF u
<1>2. IsRequest(u)
  BY <1>1 DEF WellTyped, IsRequest, ThreadFields
<1>. QED
  BY <1>1, <1>2 DEF WellTyped, u

StoredBy(t, s, n) ==
    [t EXCEPT !.at = "stored", !.found = TRUE, !.put[s] = t.put[s] \cup {n}]
PassedBy(t, s, n) == [t EXCEPT !.put[s] = t.put[s] \cup {n}, !.clean = FALSE]

LEMMA StoredIs ==
    ASSUME NEW t, WellTyped(t), NEW s \in DOMAIN t.ask, NEW n \in DOMAIN t.ask[s]
    PROVE  LET u == StoredBy(t, s, n)
               v == PassedBy(t, s, n) IN
           /\ WellTyped(u) /\ u.at = "stored" /\ u.found = TRUE
           /\ \A f \in ThreadFields \ {"at", "found", "put"} : u[f] = t[f]
           /\ WellTyped(v) /\ v.clean = FALSE
           /\ \A f \in ThreadFields \ {"put", "clean"} : v[f] = t[f]
<1>. DEFINE u == StoredBy(t, s, n)
            v == PassedBy(t, s, n)
            puts == [t.put EXCEPT ![s] = t.put[s] \cup {n}]
<1>1. /\ t.put = [r \in DOMAIN t.ask |-> t.put[r]] /\ s \in DOMAIN t.put
      /\ \A r \in DOMAIN t.ask : t.put[r] \subseteq DOMAIN t.ask[r]
  BY DEF WellTyped, IsRequest
<1>2. /\ puts = [r \in DOMAIN t.ask |-> puts[r]]
      /\ \A r \in DOMAIN t.ask : puts[r] \subseteq DOMAIN t.ask[r]
  BY <1>1
<1>3. /\ Shaped(u) /\ u.at = "stored" /\ u.found = TRUE /\ u.put = puts
      /\ \A f \in ThreadFields \ {"at", "found", "put"} : u[f] = t[f]
  BY DEF WellTyped, Shaped, ThreadFields, StoredBy, PassedBy
<1>4. /\ Shaped(v) /\ v.clean = FALSE /\ v.put = puts
      /\ \A f \in ThreadFields \ {"put", "clean"} : v[f] = t[f]
  BY DEF WellTyped, Shaped, ThreadFields, StoredBy, PassedBy
<1>. HIDE DEF u, v, puts
<1>5. IsRequest(u)
  BY <1>2, <1>3 DEF WellTyped, IsRequest, ThreadFields, Places
<1>6. IsRequest(v)
  BY <1>2, <1>4 DEF WellTyped, IsRequest, ThreadFields
<1>. QED
  BY <1>3, <1>4, <1>5, <1>6 DEF WellTyped, u, v, puts

GotBy(t, s, table) == [t EXCEPT !.got = Merged([r \in {s} |-> table], t.got)]

LEMMA GotIs ==
    ASSUME NEW t, WellTyped(t), NEW s \in Parts, NEW table, IsTable(table)
    PROVE  LET u == GotBy(t, s, table) IN
           WellTyped(u) /\ \A f \in ThreadFields \ {"got"} : u[f] = t[f]
<1>. DEFINE got == Merged([r \in {s} |-> table], t.got)
            u == GotBy(t, s, table)
<1>1. Shaped(u) /\ u.got = got /\ \A f \in ThreadFields \ {"got"} : u[f] = t[f]
  BY DEF WellTyped, Shaped, ThreadFields, GotBy
<1>2. IsTables(got) /\ DOMAIN got \subseteq Parts
  <2>1. DOMAIN got = {s} \cup DOMAIN t.got /\ got = [r \in DOMAIN got |-> got[r]]
    BY DEF Merged
  <2>2. got[s] = table /\ \A r \in DOMAIN t.got \ {s} : got[r] = t.got[r]
    BY DEF Merged
  <2>3. DOMAIN t.got \subseteq Parts /\ \A r \in DOMAIN t.got : IsTable(t.got[r])
    BY DEF WellTyped, IsRequest, IsTables
  <2>. HIDE DEF got
  <2>4. \A r \in DOMAIN got : IsTable(got[r])
    BY <2>1, <2>2, <2>3
  <2>. QED
    BY <2>1, <2>3, <2>4 DEF IsTables
<1>. HIDE DEF u, got
<1>3. IsRequest(u)
  BY <1>1, <1>2 DEF WellTyped, IsRequest, ThreadFields
<1>. QED
  BY <1>1, <1>3 DEF WellTyped, u, got

-----------------------------------------------------------------------------
(* Types.                                                                  *)

StoreTyped(d) ==
    /\ DOMAIN d = {"links", "tables"}
    /\ d.links \subseteq LinkRows /\ IsFiniteSet(d.links)
    /\ IsTables(d.tables) /\ DOMAIN d.tables = Parts

\* What is known of a request by where it is.
Course(t) ==
    /\ t.at = "edit" => IsFiniteSet(t.doc)
    /\ t.at \in {"update", "restore"} => t.from = t.at
    /\ t.at \in {"update", "restore", "stored", "load"} =>
          t.from \in {"update", "restore"} /\ DOMAIN t.aim = Parts

Sound(t) == WellTyped(t) /\ Course(t)

DataTyped ==
    /\ StoreTyped(disk) /\ StoreTyped(work)
    /\ \A t \in {loaded, asked, exported} : IsTables(t) /\ DOMAIN t = Parts
    /\ \A l \in Links : told[l] \subseteq Of(LinkRows, l)
    /\ lost \subseteq Links
    /\ requests \in 0..MaxRequests /\ faults \in 0..MaxFaults

ThreadsTyped ==
    /\ DOMAIN thread = Editors /\ closed \subseteq Editors
    /\ \A e \in Editors : Sound(thread[e]) /\ (e \in closed => ~At(e, "idle"))

TypeInv == DataTyped /\ ThreadsTyped

LEMMA TypeInvTypes == TypeInv => ConfigTypeOK
BY DEF TypeInv, DataTyped, ThreadsTyped, ConfigTypeOK, StoreTyped, Sound, WellTyped

LEMMA TypeInvInit == ConfigInit => TypeInv
<1>. SUFFICES ASSUME ConfigInit PROVE TypeInv
  OBVIOUS
<1>1. StoreTyped(disk) /\ work = disk
  BY ConfigAssumption DEF ConfigInit, StoreTyped, ConfigAssumption
<1>2. Sound(Idle) /\ closed = {}
  BY IdleIs DEF Sound, Course, ConfigInit
<1>3. \A l \in Links : told[l] \subseteq Of(LinkRows, l)
  BY ConfigAssumption DEF ConfigInit, ConfigAssumption, Of
<1>4. DOMAIN thread = Editors /\ \A e \in Editors : thread[e] = Idle
  BY DEF ConfigInit
<1>5. \A t \in {loaded, asked, exported} : IsTables(t) /\ DOMAIN t = Parts
  BY ConfigAssumption DEF ConfigInit, ConfigAssumption
<1>6. lost = {} /\ closed = {} /\ requests \in 0..MaxRequests /\ faults \in 0..MaxFaults
  BY ConfigAssumption DEF ConfigInit, ConfigAssumption
<1>. QED
  BY <1>1, <1>2, <1>3, <1>4, <1>5, <1>6 DEF TypeInv, DataTyped, ThreadsTyped, At

\* A step of one request.
LEMMA BecomeIs ==
    ASSUME DOMAIN thread = Editors, NEW e \in Editors, NEW r, Become(e, r)
    PROVE  /\ DOMAIN thread' = Editors /\ thread'[e] = r
           /\ \A o \in Editors \ {e} : thread'[o] = thread[o]
BY DEF Become

LEMMA GotoIs ==
    ASSUME TypeInv, NEW e \in Editors, NEW p \in Places, Goto(e, p)
    PROVE  /\ DOMAIN thread' = Editors
           /\ WellTyped(thread'[e]) /\ thread'[e].at = p
           /\ \A f \in ThreadFields \ {"at"} : thread'[e][f] = thread[e][f]
           /\ \A o \in Editors \ {e} : thread'[o] = thread[o]
<1>1. thread'[e] = [thread[e] EXCEPT !.at = p] /\ DOMAIN thread' = Editors
      /\ \A o \in Editors \ {e} : thread'[o] = thread[o]
  BY DEF Goto, TypeInv, ThreadsTyped
<1>. QED
  BY <1>1, MovedIs DEF TypeInv, ThreadsTyped, Sound

\* The requests are typed again if the one that moved is.
LEMMA OneStep ==
    ASSUME TypeInv, NEW e \in Editors,
           DOMAIN thread' = Editors, \A o \in Editors \ {e} : thread'[o] = thread[o],
           Sound(thread'[e]),
           thread'[e].at = "idle" => e \notin closed',
           \A o \in Editors \ {e} : o \in closed' => o \in closed, closed' \subseteq Editors
    PROVE  ThreadsTyped'
BY DEF TypeInv, ThreadsTyped, At

LEMMA StepTo ==
    ASSUME TypeInv, NEW e \in Editors, NEW r, Become(e, r), Sound(r), r.at # "idle",
           closed' \subseteq closed
    PROVE  ThreadsTyped' /\ thread'[e] = r /\ \A o \in Editors \ {e} : thread'[o] = thread[o]
<1>1. DOMAIN thread = Editors /\ closed \subseteq Editors
  BY DEF TypeInv, ThreadsTyped
<1>2. DOMAIN thread' = Editors /\ thread'[e] = r /\ \A o \in Editors \ {e} : thread'[o] = thread[o]
  BY <1>1, BecomeIs
<1>. QED
  BY <1>1, <1>2, OneStep

LEMMA StepToIdle ==
    ASSUME TypeInv, NEW e \in Editors, Become(e, Idle), closed' \subseteq closed, e \notin closed'
    PROVE  ThreadsTyped' /\ thread'[e] = Idle /\ \A o \in Editors \ {e} : thread'[o] = thread[o]
<1>1. DOMAIN thread = Editors /\ closed \subseteq Editors
  BY DEF TypeInv, ThreadsTyped
<1>2. DOMAIN thread' = Editors /\ thread'[e] = Idle /\ \A o \in Editors \ {e} : thread'[o] = thread[o]
  BY <1>1, BecomeIs
<1>3. Sound(Idle)
  BY IdleIs DEF Sound, Course
<1>. QED
  BY <1>1, <1>2, <1>3, OneStep

LEMMA CountersAre ==
    ASSUME TypeInv
    PROVE  /\ requests < MaxRequests => requests + 1 \in 0..MaxRequests
           /\ Fault => faults' \in 0..MaxFaults
           /\ \A e \in Editors : Raises(e) \/ Works(e) => faults' \in 0..MaxFaults
BY ConfigAssumption DEF ConfigAssumption, TypeInv, DataTyped, Fault, Raises, Works

\* A section of the tables is replaced.
LEMMA SectionIs ==
    ASSUME NEW d, StoreTyped(d), NEW s \in Parts, NEW t, IsTable(t)
    PROVE  LET u == [d EXCEPT !.tables[s] = t] IN
           /\ StoreTyped(u) /\ u.links = d.links
           /\ u.tables = [d.tables EXCEPT ![s] = t]
<1>. DEFINE u == [d EXCEPT !.tables[s] = t]
<1>1. DOMAIN u = {"links", "tables"} /\ u.links = d.links /\ u.tables = [d.tables EXCEPT ![s] = t]
  BY DEF StoreTyped
<1>. HIDE DEF u
<1>2. IsTables(u.tables) /\ DOMAIN u.tables = Parts
  BY <1>1, TablesWith DEF StoreTyped
<1>3. StoreTyped(u)
  BY <1>1, <1>2 DEF StoreTyped
<1>. QED
  BY <1>1, <1>3 DEF u

LEMMA LinksWith ==
    ASSUME NEW d, StoreTyped(d), NEW rows, rows \subseteq LinkRows, IsFiniteSet(rows)
    PROVE  LET u == [d EXCEPT !.links = rows] IN
           StoreTyped(u) /\ u.links = rows /\ u.tables = d.tables
BY DEF StoreTyped

\* What a save of cachelinks does first.
LEMMA ClearKeepsTypes ==
    ASSUME TypeInv, NEW e \in Editors, thread[e].at # "idle",
           NEW q \in Seq(LinkRows), NEW own, own \subseteq Links, Clear(e, q, own)
    PROVE  TypeInv'
<1>1. CASE /\ Works(e) /\ work' = [work EXCEPT !.links = {}]
           /\ Become(e, [thread[e] EXCEPT !.at = "insert", !.todo = q, !.own = own,
                                          !.doc = Range(q)])
           /\ UNCHANGED closed
  <2>. DEFINE r == Cleared(thread[e], q, own)
  <2>0. WellTyped(thread[e])
    BY DEF TypeInv, ThreadsTyped, Sound
  <2>1a. WellTyped(r) /\ r.at = "insert"
    BY <2>0, ClearedIs
  <2>1. Sound(r) /\ r.at = "insert"
    BY <2>1a DEF Sound, Course
  <2>2. Become(e, r) /\ closed' = closed
    BY <1>1 DEF Cleared
  <2>3. ThreadsTyped'
    BY <2>1, <2>2, StepTo
  <2>4. {} \subseteq LinkRows /\ IsFiniteSet({})
    BY FS_EmptySet
  <2>5. StoreTyped(work')
    BY <1>1, <2>4, LinksWith DEF TypeInv, DataTyped
  <2>. QED
    BY <1>1, <2>3, <2>5, CountersAre DEF Clear, history, TypeInv, DataTyped
<1>2. CASE Raises(e) /\ UNCHANGED work /\ Become(e, Idle) /\ closed' = closed \ {e}
  <2>1. ThreadsTyped'
    BY <1>2, StepToIdle
  <2>. QED
    BY <1>2, <2>1, CountersAre DEF Clear, history, TypeInv, DataTyped
<1>. QED
  BY <1>1, <1>2 DEF Clear

LEMMA EditLinksKeepsTypes ==
    ASSUME TypeInv, NEW e \in Editors, EditLinks(e)
    PROVE  TypeInv'
<1>1. CASE ReadLinks(e)
  <2>. DEFINE r == [Idle EXCEPT !.at = "edit", !.doc = work.links]
  <2>0. work.links \subseteq LinkRows /\ "edit" \in Places
    BY DEF TypeInv, DataTyped, StoreTyped, Places
  <2>1. WellTyped(r) /\ r.at = "edit" /\ r.doc = work.links
    BY <2>0, BegunIs
  <2>2. Sound(r)
    BY <2>1 DEF Sound, Course, TypeInv, DataTyped, StoreTyped
  <2>. HIDE DEF r
  <2>3. Become(e, r) /\ closed' = closed /\ requests < MaxRequests /\ requests' = requests + 1
    BY <1>1 DEF r, ReadLinks, Begin, memory
  <2>4. ThreadsTyped'
    BY <2>1, <2>2, <2>3, StepTo
  <2>. QED
    BY <1>1, <2>3, <2>4, CountersAre DEF ReadLinks, memory, store, history, TypeInv, DataTyped
<1>2. CASE Edit(e)
  <2>1. thread[e].doc \subseteq LinkRows /\ IsFiniteSet(thread[e].doc) /\ thread[e].at = "edit"
    BY <1>2 DEF Edit, At, TypeInv, ThreadsTyped, Sound, Course, WellTyped, IsRequest
  <2>2. PICK l \in Links :
          \E q \in Creation(thread[e].doc, l) \cup FolderAddition(thread[e].doc, l)
                   \cup Update(thread[e].doc, l) \cup Deletion(thread[e].doc, l)
                   \cup FolderDeletion(thread[e].doc, l) : Clear(e, q, {l})
    BY <1>2 DEF Edit
  <2>3. PICK q \in Creation(thread[e].doc, l) \cup FolderAddition(thread[e].doc, l)
                   \cup Update(thread[e].doc, l) \cup Deletion(thread[e].doc, l)
                   \cup FolderDeletion(thread[e].doc, l) : Clear(e, q, {l})
    BY <2>2
  <2>4. q \in Seq(LinkRows)
    BY <2>1, OthersStay
  <2>. QED
    BY <2>1, <2>3, <2>4, ClearKeepsTypes
<1>3. CASE Refuse(e)
  <2>1. ThreadsTyped'
    BY <1>3, StepToIdle DEF Refuse
  <2>. QED
    BY <1>3, <2>1 DEF Refuse, store, history, TypeInv, DataTyped
<1>4. CASE BeginImport(e)
  <2>. DEFINE r == [Idle EXCEPT !.at = "import"]
  <2>1. Sound(r) /\ r.at = "import"
    BY BegunIs DEF Sound, Course, Places
  <2>. HIDE DEF r
  <2>2. Become(e, r) /\ closed' = closed /\ requests < MaxRequests /\ requests' = requests + 1
    BY <1>4 DEF r, BeginImport, Begin, memory
  <2>3. ThreadsTyped'
    BY <2>1, <2>2, StepTo
  <2>. QED
    BY <1>4, <2>2, <2>3, CountersAre DEF BeginImport, memory, store, history, TypeInv, DataTyped
<1>5. CASE ImportLinks(e)
  <2>1. PICK q \in Imports : Clear(e, q, Links)
    BY <1>5 DEF ImportLinks
  <2>2. q \in Seq(LinkRows) /\ thread[e].at # "idle"
    BY <1>5, ConfigAssumption DEF ConfigAssumption, ImportLinks, At
  <2>. QED
    BY <2>1, <2>2, ClearKeepsTypes
<1>6. CASE Insert(e)
  <2>. DEFINE row == Head(thread[e].todo)
  <2>0. WellTyped(thread[e]) /\ thread[e].at = "insert" /\ thread[e].todo # <<>>
    BY <1>6 DEF Insert, At, TypeInv, ThreadsTyped, Sound
  <2>. DEFINE u == [thread[e] EXCEPT !.todo = Tail(@)]
  <2>1a. /\ WellTyped(u) /\ row \in LinkRows
         /\ \A f \in ThreadFields \ {"todo"} : u[f] = thread[e][f]
    BY <2>0, ShorterIs
  <2>1. /\ WellTyped(u) /\ u.at = "insert" /\ row \in LinkRows
        /\ Range(thread[e].todo) \subseteq LinkRows
    <3>. HIDE DEF u, row
    <3>1. u.at = "insert"
      BY <2>0, <2>1a DEF ThreadFields
    <3>2. Range(thread[e].todo) \subseteq LinkRows
      BY <2>0 DEF WellTyped, IsRequest
    <3>. QED
      BY <2>1a, <3>1, <3>2
  <2>2. Sound(u)
    BY <2>1 DEF Sound, Course
  <2>. HIDE DEF u
  <2>3. CASE /\ Works(e) /\ work' = [work EXCEPT !.links = @ \cup {row}]
             /\ Become(e, u) /\ UNCHANGED <<closed, lost>>
    <3>1. ThreadsTyped'
      BY <2>1, <2>2, <2>3, StepTo
    <3>2. work.links \cup {row} \subseteq LinkRows /\ IsFiniteSet(work.links \cup {row})
      BY <2>1, FS_AddElement DEF TypeInv, DataTyped, StoreTyped
    <3>3. StoreTyped(work')
      BY <2>3, <3>2, LinksWith DEF TypeInv, DataTyped
    <3>. QED
      BY <1>6, <2>3, <3>1, <3>3, CountersAre DEF Insert, TypeInv, DataTyped
  <2>4. CASE /\ Raises(e) \/ Works(e)
             /\ lost' = IF e \in closed THEN lost ELSE lost \cup AtRisk(e)
             /\ Become(e, Idle) /\ closed' = closed \ {e} /\ UNCHANGED work
    <3>1. ThreadsTyped'
      BY <2>4, StepToIdle
    <3>2. AtRisk(e) \subseteq Links
      BY <2>0, <2>1 DEF AtRisk, WellTyped, IsRequest, Ids, LinkRows
    <3>. QED
      BY <1>6, <2>4, <3>1, <3>2, CountersAre DEF Insert, TypeInv, DataTyped
  <2>. QED
    BY <1>6, <2>3, <2>4 DEF Insert, u
<1>7. CASE CommitLinks(e)
  <2>. DEFINE own == thread[e].own
              r == [Idle EXCEPT !.at = "refresh"]
  <2>1. own \subseteq Links /\ thread[e].missed \subseteq Links /\ thread[e].doc \subseteq LinkRows
    BY DEF TypeInv, ThreadsTyped, Sound, WellTyped, IsRequest
  <2>2. Sound(r) /\ r.at = "refresh" /\ Sound(Idle)
    BY BegunIs, IdleIs DEF Sound, Course, Places
  <2>3. \A o \in Editors : /\ Sound([thread[o] EXCEPT !.missed = @ \cup own])
                           /\ [thread[o] EXCEPT !.missed = @ \cup own].at = thread[o].at
    <3>. TAKE o \in Editors
    <3>. DEFINE u == [thread[o] EXCEPT !.missed = @ \cup own]
    <3>1. WellTyped(thread[o]) /\ Course(thread[o])
      BY DEF TypeInv, ThreadsTyped, Sound
    <3>2. WellTyped(u) /\ \A f \in ThreadFields \ {"missed"} : u[f] = thread[o][f]
      BY <2>1, <3>1, MissingIs
    <3>. HIDE DEF u
    <3>3. Sound(u) /\ u.at = thread[o].at
      BY <3>1, <3>2 DEF Sound, Course, ThreadFields
    <3>. QED
      BY <3>3 DEF u
  <2>4. /\ thread'[e] = IF own = Links THEN r ELSE Idle
        /\ \A o \in Editors \ {e} :
              thread'[o] \in {thread[o], [thread[o] EXCEPT !.missed = @ \cup own]}
        /\ DOMAIN thread' = Editors
    BY <1>7 DEF CommitLinks
  <2>. HIDE DEF r, own
  <2>5. /\ closed' \subseteq closed
        /\ own # Links => e \notin closed'
    BY <1>7 DEF CommitLinks, own
  <2>6. ThreadsTyped'
    <3>1. \A o \in Editors \ {e} : Sound(thread'[o]) /\ thread'[o].at = thread[o].at
      BY <2>3, <2>4 DEF TypeInv, ThreadsTyped
    <3>2. Sound(thread'[e]) /\ (e \in closed' => thread'[e].at # "idle")
      BY <2>2, <2>4, <2>5
    <3>. QED
      BY <2>4, <2>5, <3>1, <3>2 DEF TypeInv, ThreadsTyped, At
  <2>7. StoreTyped(disk') /\ work' = work
    BY <1>7 DEF CommitLinks, Committed, TypeInv, DataTyped
  <2>8. lost' \subseteq Links
    BY <1>7, <2>1 DEF CommitLinks, TypeInv, DataTyped, own
  <2>9. \A l \in Links : told'[l] \subseteq Of(LinkRows, l)
    <3>1. \A l \in Links : Of(thread[e].doc, l) \subseteq Of(LinkRows, l)
      BY <2>1 DEF Of
    <3>2. \A l \in Links : told'[l] \in {Of(thread[e].doc, l), told[l]}
      BY <1>7 DEF CommitLinks
    <3>. QED
      BY <3>1, <3>2 DEF TypeInv, DataTyped
  <2>. QED
    BY <1>7, <2>6, <2>7, <2>8, <2>9 DEF CommitLinks, TypeInv, DataTyped
<1>. QED
  BY <1>1, <1>2, <1>3, <1>4, <1>5, <1>6, <1>7 DEF EditLinks

LEMMA DisturbedAre ==
    ASSUME TypeInv
    PROVE  /\ DOMAIN Disturbed = Editors
           /\ \A e \in Editors :
                 /\ Sound(Disturbed[e])
                 /\ \A f \in ThreadFields \ {"clean"} : Disturbed[e][f] = thread[e][f]
                 /\ Updating(e) => Disturbed[e].clean = FALSE
                 /\ ~Updating(e) => Disturbed[e] = thread[e]
<1>1. \A e \in Editors : Disturbed[e] = IF Updating(e) THEN [thread[e] EXCEPT !.clean = FALSE]
                                        ELSE thread[e]
  BY DEF Disturbed
<1>2. ASSUME NEW e \in Editors, Updating(e)
      PROVE  /\ Sound(Disturbed[e]) /\ Disturbed[e].clean = FALSE
             /\ \A f \in ThreadFields \ {"clean"} : Disturbed[e][f] = thread[e][f]
  <2>. DEFINE u == [thread[e] EXCEPT !.clean = FALSE]
  <2>1. WellTyped(thread[e]) /\ Course(thread[e])
    BY DEF TypeInv, ThreadsTyped, Sound
  <2>2. WellTyped(u) /\ u.clean = FALSE /\ \A f \in ThreadFields \ {"clean"} : u[f] = thread[e][f]
    BY <2>1, DisturbedIs
  <2>. HIDE DEF u
  <2>3. Sound(u)
    BY <2>1, <2>2 DEF Sound, Course, ThreadFields
  <2>4. Disturbed[e] = u
    BY <1>1, <1>2 DEF u
  <2>. QED
    BY <2>2, <2>3, <2>4
<1>3. \A e \in Editors : ~Updating(e) => Disturbed[e] = thread[e] /\ Sound(Disturbed[e])
  BY <1>1 DEF TypeInv, ThreadsTyped
<1>. QED
  BY <1>2, <1>3 DEF Disturbed

\* What a request to update is from the beginning on.
Asks(t, p, ask, stage, aim) ==
    /\ Sound(t) /\ t.at = p /\ t.from = p /\ t.ask = ask /\ t.aim = aim /\ t.stage = stage
    /\ t.put = NonePut(ask) /\ t.found = FALSE

LEMMA UpdateBegins ==
    ASSUME TypeInv, NEW e \in Editors, NEW p \in {"update", "restore"}, NEW ask, IsTables(ask),
           DOMAIN ask \subseteq Parts,
           NEW stage \in [DOMAIN ask -> {"read", "wipe", "put"}],
           NEW aim, IsTables(aim), DOMAIN aim = Parts,
           BeginUpdate(e, p, ask, stage, aim), closed' = closed
    PROVE  /\ ThreadsTyped' /\ requests' \in 0..MaxRequests /\ thread[e].at = "idle"
           /\ Asks(thread'[e], p, ask, stage, aim) /\ thread'[e].clean = ~InUpdate
           /\ \A o \in Editors \ {e} : thread'[o] = Disturbed[o]
<1>1. PICK c \in BOOLEAN : c = ~InUpdate
  BY DEF InUpdate
<1>. DEFINE r == AsUpdated(p, ask, stage, aim, c)
<1>2a. WellTyped(r)
  BY <1>1, UpdateBegunIs
<1>2. /\ WellTyped(r) /\ r.at = p /\ r.from = p /\ r.ask = ask /\ r.aim = aim /\ r.stage = stage
      /\ r.put = NonePut(ask) /\ r.clean = c /\ r.found = FALSE
  <2>1. Idle.found = FALSE
    BY DEF Idle
  <2>. QED
    BY <1>2a, <2>1, UpdatedFields
<1>. HIDE DEF r
<1>3. Sound(r)
  BY <1>2 DEF Sound, Course
<1>4. thread' = [Disturbed EXCEPT ![e] = r] /\ thread[e].at = "idle"
  BY <1>1 DEF BeginUpdate, AsUpdated, NonePut, At, r
<1>5. /\ DOMAIN thread' = Editors /\ thread'[e] = r
      /\ \A o \in Editors \ {e} : thread'[o] = Disturbed[o]
  BY <1>4, DisturbedAre
<1>6. \A o \in Editors \ {e} : Sound(thread'[o]) /\ thread'[o].at = thread[o].at
  <2>. TAKE o \in Editors \ {e}
  <2>1. "at" \in ThreadFields \ {"clean"}
    BY DEF ThreadFields
  <2>2. Sound(Disturbed[o]) /\ Disturbed[o]["at"] = thread[o]["at"]
    BY <2>1, DisturbedAre
  <2>. QED
    BY <1>5, <2>2
<1>7. ThreadsTyped'
  BY <1>2, <1>3, <1>5, <1>6 DEF TypeInv, ThreadsTyped, At
<1>8. requests' \in 0..MaxRequests
  BY CountersAre DEF BeginUpdate
<1>. QED
  BY <1>1, <1>2, <1>3, <1>4, <1>5, <1>7, <1>8 DEF Asks

LEMMA AskBegins ==
    ASSUME TypeInv, NEW e \in Editors, NEW ask, IsTables(ask), DOMAIN ask \subseteq Parts,
           Ask(e, ask), closed' = closed
    PROVE  /\ ThreadsTyped' /\ requests' \in 0..MaxRequests /\ thread[e].at = "idle"
           /\ Asks(thread'[e], "update", ask, [s \in DOMAIN ask |-> FirstStage(s)],
                   Result(asked, ask))
           /\ thread'[e].clean = ~InUpdate
           /\ \A o \in Editors \ {e} : thread'[o] = Disturbed[o]
<1>. DEFINE stage == [s \in DOMAIN ask |-> FirstStage(s)]
            aim == Result(asked, ask)
<1>1. stage \in [DOMAIN ask -> {"read", "wipe", "put"}]
  BY DEF FirstStage
<1>2. IsTables(aim) /\ DOMAIN aim = Parts
  BY ResultIs DEF TypeInv, DataTyped
<1>3. BeginUpdate(e, "update", ask, stage, aim)
  BY DEF Ask
<1>. HIDE DEF stage, aim
<1>4. /\ ThreadsTyped' /\ requests' \in 0..MaxRequests /\ thread[e].at = "idle"
      /\ Asks(thread'[e], "update", ask, stage, aim)
      /\ thread'[e].clean = ~InUpdate
      /\ \A o \in Editors \ {e} : thread'[o] = Disturbed[o]
  BY <1>1, <1>2, <1>3, UpdateBegins
<1>. QED
  BY <1>4 DEF stage, aim

\* What a payload, the settings in memory and an export ask for are tables.
LEMMA PayloadIs ==
    ASSUME NEW payload \in Payloads
    PROVE  LET ask == [s \in DOMAIN payload |-> Rows(payload[s])] IN
           IsTables(ask) /\ DOMAIN ask \subseteq Parts
<1>1. /\ DOMAIN payload \subseteq Parts
      /\ \A s \in DOMAIN payload : \A n \in DOMAIN payload[s] : payload[s][n] \in Given
  BY ConfigAssumption DEF ConfigAssumption
<1>2. \A s \in DOMAIN payload : IsTable(Rows(payload[s]))
  BY <1>1, RowsIs
<1>. QED
  BY <1>1, <1>2 DEF IsTables

LEMMA PolicyIs ==
    ASSUME NEW ts, IsTables(ts), DOMAIN ts = Parts, NEW s \in Parts,
           NEW name \in DOMAIN ts[s], NEW kept \in SUBSET Kept
    PROVE  LET us == [ts EXCEPT ![s][name].kept = kept] IN
           IsTables(us) /\ DOMAIN us = Parts
<1>1. IsTable(ts[s])
  BY DEF IsTables
<1>. DEFINE row == [ts[s][name] EXCEPT !.kept = kept]
            table == [ts[s] EXCEPT ![name] = row]
            us == [ts EXCEPT ![s][name].kept = kept]
<1>2. row \in PartRows
  BY <1>1 DEF IsTable, PartRows
<1>3. us = [ts EXCEPT ![s] = table]
  OBVIOUS
<1>. HIDE DEF row, us
<1>4. IsTable(table)
  BY <1>1, <1>2 DEF IsTable
<1>. HIDE DEF table
<1>5. IsTables(us) /\ DOMAIN us = Parts
  BY <1>3, <1>4, TablesWith
<1>. QED
  BY <1>5 DEF us

LEMMA SharesIs ==
    ASSUME TypeInv, "shares" \in Parts
    PROVE  LET ask == [s \in {"shares"} |-> Keep(NoRows, loaded["shares"])] IN
           IsTables(ask) /\ DOMAIN ask \subseteq Parts
<1>1. IsTable(loaded["shares"])
  BY DEF TypeInv, DataTyped, IsTables
<1>2. IsTable(Keep(NoRows, loaded["shares"]))
  BY <1>1, KeepIs, NoRowsIs
<1>. QED
  BY <1>2 DEF IsTables

LEMMA AcceptedIs ==
    ASSUME TypeInv
    PROVE  LET ask == [s \in Parts |-> Accepted(s)]
               aim == [s \in Parts |-> Merged(ask[s], asked[s])] IN
           /\ IsTables(ask) /\ DOMAIN ask = Parts
           /\ IsTables(aim) /\ DOMAIN aim = Parts
           /\ \A s \in Parts : aim[s] = Merged(ask[s], asked[s])
<1>. DEFINE ask == [s \in Parts |-> Accepted(s)]
            aim == [s \in Parts |-> Merged(ask[s], asked[s])]
<1>1. \A s \in Parts : IsTable(exported[s]) /\ IsTable(asked[s])
  BY DEF TypeInv, DataTyped, IsTables
<1>2. \A s \in Parts : IsTable(Accepted(s))
  BY <1>1 DEF Accepted, IsTable
<1>3. \A s \in Parts : ask[s] = Accepted(s)
  OBVIOUS
<1>4. \A s \in Parts : IsTable(Merged(ask[s], asked[s]))
  BY <1>1, <1>2, <1>3, MergedIs
<1>5. IsTables(ask)
  BY <1>2 DEF IsTables
<1>. HIDE DEF ask
<1>6. IsTables(aim)
  BY <1>4 DEF IsTables
<1>. QED
  BY <1>3, <1>5, <1>6 DEF ask

\* The tables when row n of section s is put.
RowPut(ts, t, s, n) ==
    [ts EXCEPT ![s] = Merged([m \in {n} |-> t.ask[s][n]], ts[s])]

LEMMA StoresKeepsTypes ==
    ASSUME TypeInv, NEW e \in Editors, thread[e].at \in {"update", "restore"},
           NEW s \in DOMAIN thread[e].ask, NEW n \in DOMAIN thread[e].ask[s],
           Stores(e, s, n), closed' = closed
    PROVE  /\ ThreadsTyped' /\ StoreTyped(work')
           /\ work'.links = work.links
           /\ work'.tables = RowPut(work.tables, thread[e], s, n)
<1>. DEFINE row == [m \in {n} |-> thread[e].ask[s][n]]
            table == Merged(row, work.tables[s])
            u == StoredBy(thread[e], s, n)
<1>1. /\ WellTyped(thread[e]) /\ Course(thread[e]) /\ s \in Parts
      /\ IsTable(thread[e].ask[s]) /\ IsTable(work.tables[s])
  BY DEF TypeInv, ThreadsTyped, DataTyped, StoreTyped, Sound, WellTyped, IsRequest, IsTables
<1>2. IsTable(row)
  BY <1>1 DEF IsTable
<1>3. work' = [work EXCEPT !.tables[s] = table] /\ Become(e, u)
  BY DEF Stores, StoredBy
<1>4. WellTyped(u) /\ u.at = "stored" /\ \A f \in ThreadFields \ {"at", "found", "put"} : u[f] = thread[e][f]
  BY <1>1, StoredIs
<1>. HIDE DEF u, row
<1>5. IsTable(table)
  BY <1>1, <1>2, MergedIs
<1>6. Sound(u)
  BY <1>1, <1>4 DEF Sound, Course, ThreadFields
<1>7. ThreadsTyped'
  BY <1>3, <1>4, <1>6, StepTo
<1>. HIDE DEF table
<1>8. /\ StoreTyped(work') /\ work'.links = work.links
      /\ work'.tables = [work.tables EXCEPT ![s] = table]
  BY <1>1, <1>3, <1>5, SectionIs DEF TypeInv, DataTyped
<1>. QED
  BY <1>7, <1>8 DEF table, row, RowPut

LEMMA MovesTo ==
    ASSUME TypeInv, NEW e \in Editors, NEW p \in {"update", "restore", "load"}, Goto(e, p),
           thread[e].from \in {"update", "restore"}, DOMAIN thread[e].aim = Parts,
           p \in {"update", "restore"} => thread[e].from = p, closed' = closed
    PROVE  ThreadsTyped'
<1>1. p \in Places
  BY DEF Places
<1>2. /\ DOMAIN thread' = Editors
      /\ WellTyped(thread'[e]) /\ thread'[e].at = p
      /\ \A f \in ThreadFields \ {"at"} : thread'[e][f] = thread[e][f]
      /\ \A o \in Editors \ {e} : thread'[o] = thread[o]
  BY <1>1, GotoIs
<1>3. Sound(thread'[e])
  BY <1>2 DEF Sound, Course, ThreadFields
<1>4. closed' \subseteq closed /\ closed \subseteq Editors
  BY DEF TypeInv, ThreadsTyped
<1>. QED
  BY <1>2, <1>3, <1>4, OneStep

LEMMA ExposedIs ==
    ASSUME TypeInv
    PROVE  Exposed \subseteq Links
<1>1. ASSUME NEW e \in Editors PROVE AtRisk(e) \subseteq Links
  <2>1. /\ Range(thread[e].todo) \subseteq LinkRows
        /\ thread[e].own \subseteq Links /\ thread[e].missed \subseteq Links
    BY DEF TypeInv, ThreadsTyped, Sound, WellTyped, IsRequest
  <2>. QED
    BY <2>1 DEF AtRisk, Ids, LinkRows
<1>. QED
  BY <1>1 DEF Exposed, Saving

\* Steps of a request that read or write tables.
LEMMA EditSettingsKeepsTypes ==
    ASSUME TypeInv, NEW e \in Editors, EditSettings(e)
    PROVE  TypeInv'
<1>0. /\ WellTyped(thread[e]) /\ Course(thread[e]) /\ IsTables(thread[e].ask)
      /\ DOMAIN thread[e].ask \subseteq Parts
      /\ closed \subseteq Editors
  BY DEF TypeInv, ThreadsTyped, Sound, WellTyped, IsRequest
<1>0a. \A s \in Parts : IsTable(work.tables[s]) /\ IsTable(loaded[s])
  BY DEF TypeInv, DataTyped, StoreTyped, IsTables
<1>1. CASE ImportBackup(e)
  <2>. DEFINE ask == [s \in Parts |-> Accepted(s)]
              stage == [s \in Parts |-> PutAtOnce(s)]
              aim == [s \in Parts |-> Merged(ask[s], asked[s])]
  <2>1. IsTables(ask) /\ DOMAIN ask = Parts /\ IsTables(aim) /\ DOMAIN aim = Parts
    BY AcceptedIs
  <2>2. stage \in [DOMAIN ask -> {"read", "wipe", "put"}]
    BY DEF PutAtOnce
  <2>3. BeginUpdate(e, "restore", ask, stage, aim) /\ closed' = closed
    BY <1>1 DEF ImportBackup, memory
  <2>. HIDE DEF ask, stage, aim
  <2>4. ThreadsTyped' /\ requests' \in 0..MaxRequests
    BY <2>1, <2>2, <2>3, UpdateBegins
  <2>. QED
    BY <1>1, <2>4 DEF ImportBackup, store, memory, BeginUpdate, Mixing, TypeInv, DataTyped
<1>2. CASE RestoreRow(e)
  <2>1. PICK s \in Parts : /\ Current(e, s)
                           /\ \E n \in DOMAIN thread[e].ask[s] \ thread[e].put[s] :
                                \/ Works(e) /\ Stores(e, s, n) /\ UNCHANGED mixed
                                \/ /\ Raises(e) /\ UNCHANGED work
                                   /\ Become(e, [thread[e] EXCEPT
                                         !.put[s] = thread[e].put[s] \cup {n}, !.clean = FALSE])
                                   /\ mixed' = (mixed \/ Updating(e))
    BY <1>2 DEF RestoreRow
  <2>2. PICK n \in DOMAIN thread[e].ask[s] \ thread[e].put[s] :
                                \/ Works(e) /\ Stores(e, s, n) /\ UNCHANGED mixed
                                \/ /\ Raises(e) /\ UNCHANGED work
                                   /\ Become(e, [thread[e] EXCEPT
                                         !.put[s] = thread[e].put[s] \cup {n}, !.clean = FALSE])
                                   /\ mixed' = (mixed \/ Updating(e))
    BY <2>1
  <2>3. s \in DOMAIN thread[e].ask /\ closed' = closed /\ thread[e].at = "restore"
    BY <1>2, <2>1 DEF Current, RestoreRow, memory, At
  <2>4. CASE Works(e) /\ Stores(e, s, n)
    <3>1. ThreadsTyped' /\ StoreTyped(work')
      BY <1>0, <2>2, <2>3, <2>4, StoresKeepsTypes
    <3>. QED
      BY <1>2, <2>4, <3>1, CountersAre DEF RestoreRow, memory, TypeInv, DataTyped
  <2>5. CASE Raises(e) /\ UNCHANGED work
             /\ Become(e, [thread[e] EXCEPT !.put[s] = thread[e].put[s] \cup {n}, !.clean = FALSE])
    <3>. DEFINE v == PassedBy(thread[e], s, n)
    <3>1. WellTyped(v) /\ \A f \in ThreadFields \ {"put", "clean"} : v[f] = thread[e][f]
      BY <1>0, <2>2, <2>3, StoredIs
    <3>. HIDE DEF v
    <3>2. Sound(v) /\ v.at # "idle"
      BY <1>0, <2>3, <3>1 DEF Sound, Course, ThreadFields
    <3>3. Become(e, v)
      BY <2>5 DEF v, PassedBy
    <3>4. ThreadsTyped'
      BY <2>3, <3>2, <3>3, StepTo
    <3>. QED
      BY <1>2, <2>5, <3>4, CountersAre DEF RestoreRow, memory, TypeInv, DataTyped
  <2>. QED
    BY <2>2, <2>4, <2>5
<1>3. CASE RestoreEnds(e)
  <2>1. CASE thread[e].found /\ Goto(e, "load") /\ UNCHANGED closed
    <3>1. thread[e].from \in {"update", "restore"} /\ DOMAIN thread[e].aim = Parts
      BY <1>0, <1>3 DEF RestoreEnds, At, Course
    <3>2. ThreadsTyped'
      BY <1>0, <2>1, <3>1, MovesTo DEF Places
    <3>. QED
      BY <1>3, <3>2 DEF RestoreEnds, store, history, TypeInv, DataTyped
  <2>2. CASE Become(e, Idle) /\ closed' = closed \ {e}
    <3>1. ThreadsTyped'
      BY <2>2, StepToIdle
    <3>. QED
      BY <1>3, <3>1 DEF RestoreEnds, store, history, TypeInv, DataTyped
  <2>. QED
    BY <1>3, <2>1, <2>2 DEF RestoreEnds
<1>4. CASE BeginExport(e)
  <2>. DEFINE r == [Idle EXCEPT !.at = "export"]
  <2>1. Sound(r) /\ r.at = "export"
    BY BegunIs DEF Sound, Course, Places
  <2>. HIDE DEF r
  <2>2. Become(e, r) /\ closed' = closed /\ requests < MaxRequests /\ requests' = requests + 1
    BY <1>4 DEF r, BeginExport, Begin, memory
  <2>3. ThreadsTyped'
    BY <2>1, <2>2, StepTo
  <2>. QED
    BY <1>4, <2>2, <2>3, CountersAre DEF BeginExport, memory, store, history, TypeInv, DataTyped
<1>5. CASE ReadSection(e)
  <2>1. PICK s \in Parts :
          Become(e, [thread[e] EXCEPT
                 !.got = Merged([r \in {s} |-> work.tables[s]], thread[e].got)])
    BY <1>5 DEF ReadSection
  <2>. DEFINE u == GotBy(thread[e], s, work.tables[s])
  <2>2. WellTyped(u) /\ \A f \in ThreadFields \ {"got"} : u[f] = thread[e][f]
    BY <1>0, <1>0a, GotIs
  <2>. HIDE DEF u
  <2>3. Sound(u) /\ u.at # "idle"
    BY <1>0, <1>5, <2>2 DEF Sound, Course, ThreadFields, ReadSection, At
  <2>4. Become(e, u) /\ closed' = closed
    BY <1>5, <2>1 DEF u, GotBy, ReadSection, memory
  <2>5. ThreadsTyped'
    BY <2>3, <2>4, StepTo
  <2>. QED
    BY <1>5, <2>5, CountersAre DEF ReadSection, store, memory, history, TypeInv, DataTyped
<1>6. CASE ExportEnds(e)
  <2>1. ThreadsTyped'
    BY <1>6, StepToIdle DEF ExportEnds
  <2>2. IsTables(thread[e].got) /\ DOMAIN thread[e].got = Parts
    BY <1>0, <1>6 DEF ExportEnds, WellTyped, IsRequest
  <2>. QED
    BY <1>6, <2>1, <2>2 DEF ExportEnds, store, history, TypeInv, DataTyped
<1>7. CASE UpdateSettings(e)
  <2>1. PICK payload \in Payloads : Ask(e, [s \in DOMAIN payload |-> Rows(payload[s])])
    BY <1>7 DEF UpdateSettings
  <2>. DEFINE ask == [s \in DOMAIN payload |-> Rows(payload[s])]
  <2>2. IsTables(ask) /\ DOMAIN ask \subseteq Parts
    BY PayloadIs
  <2>3. Ask(e, ask) /\ closed' = closed
    BY <1>7, <2>1 DEF UpdateSettings, memory
  <2>. HIDE DEF ask
  <2>4. ThreadsTyped' /\ requests' \in 0..MaxRequests
    BY <2>2, <2>3, AskBegins
  <2>. QED
    BY <1>7, <2>4 DEF UpdateSettings, store, memory, TypeInv, DataTyped
<1>8. CASE MutateShare(e)
  <2>. DEFINE ask == [s \in {"shares"} |-> Keep(NoRows, loaded["shares"])]
  <2>1. "shares" \in Parts /\ Ask(e, ask) /\ closed' = closed
    BY <1>8 DEF MutateShare
  <2>2. IsTables(ask) /\ DOMAIN ask \subseteq Parts
    BY <2>1, SharesIs
  <2>. HIDE DEF ask
  <2>3. ThreadsTyped' /\ requests' \in 0..MaxRequests
    BY <2>1, <2>2, AskBegins
  <2>4. PICK name \in DOMAIN loaded["shares"], kept \in SUBSET Kept :
          loaded' = [loaded EXCEPT !["shares"][name].kept = kept]
    BY <1>8 DEF MutateShare
  <2>5. IsTables(loaded') /\ DOMAIN loaded' = Parts
    BY <2>1, <2>4, PolicyIs DEF TypeInv, DataTyped
  <2>. QED
    BY <1>8, <2>3, <2>5 DEF MutateShare, store, TypeInv, DataTyped
<1>9. CASE ReadKept(e)
  <2>1. PICK s \in Parts :
          /\ Current(e, s)
          /\ Become(e, [thread[e] EXCEPT !.stage[s] = "wipe",
                            !.ask[s] = Keep(work.tables[s], thread[e].ask[s])])
    BY <1>9 DEF ReadKept
  <2>. DEFINE u == KeptBy(thread[e], s, work.tables[s])
  <2>2. s \in DOMAIN thread[e].ask
    BY <2>1 DEF Current
  <2>3. WellTyped(u) /\ \A f \in ThreadFields \ {"stage", "ask"} : u[f] = thread[e][f]
    BY <1>0, <1>0a, <2>2, KeptIs
  <2>. HIDE DEF u
  <2>4. Sound(u) /\ u.at # "idle"
    BY <1>0, <1>9, <2>3 DEF Sound, Course, ThreadFields, ReadKept, At
  <2>5. Become(e, u) /\ closed' = closed
    BY <1>9, <2>1 DEF u, KeptBy, ReadKept, memory
  <2>6. ThreadsTyped'
    BY <2>4, <2>5, StepTo
  <2>. QED
    BY <1>9, <2>6, CountersAre DEF ReadKept, store, memory, history, TypeInv, DataTyped
<1>10. CASE Wipe(e)
  <2>1. PICK s \in Parts :
          /\ Current(e, s)
          /\ work' = [work EXCEPT !.tables[s] = NoRows]
          /\ Become(e, [thread[e] EXCEPT !.stage[s] = "put"])
    BY <1>10 DEF Wipe
  <2>. DEFINE u == [thread[e] EXCEPT !.stage[s] = "put"]
  <2>2. s \in DOMAIN thread[e].ask
    BY <2>1 DEF Current
  <2>3. WellTyped(u) /\ \A f \in ThreadFields \ {"stage"} : u[f] = thread[e][f]
    BY <1>0, <2>2, WipedIs
  <2>. HIDE DEF u
  <2>4. Sound(u) /\ u.at # "idle"
    BY <1>0, <1>10, <2>3 DEF Sound, Course, ThreadFields, Wipe, At
  <2>5. Become(e, u) /\ closed' = closed
    BY <1>10, <2>1 DEF u, Wipe, memory
  <2>6. ThreadsTyped'
    BY <2>4, <2>5, StepTo
  <2>7. StoreTyped(work')
    BY <2>1, NoRowsIs, SectionIs DEF TypeInv, DataTyped
  <2>. QED
    BY <1>10, <2>6, <2>7, CountersAre DEF Wipe, memory, history, TypeInv, DataTyped
<1>11. CASE Put(e)
  <2>1. PICK s \in Parts : /\ Current(e, s)
                           /\ \E n \in DOMAIN thread[e].ask[s] \ thread[e].put[s] : Stores(e, s, n)
    BY <1>11 DEF Put
  <2>2. PICK n \in DOMAIN thread[e].ask[s] \ thread[e].put[s] : Stores(e, s, n)
    BY <2>1
  <2>3. s \in DOMAIN thread[e].ask /\ closed' = closed /\ thread[e].at = "update"
    BY <1>11, <2>1 DEF Current, Put, memory, At
  <2>4. ThreadsTyped' /\ StoreTyped(work')
    BY <1>0, <2>2, <2>3, StoresKeepsTypes
  <2>. QED
    BY <1>11, <2>4, CountersAre DEF Put, memory, history, TypeInv, DataTyped
<1>12. CASE CommitRow(e)
  <2>1. thread[e].from \in {"update", "restore"} /\ DOMAIN thread[e].aim = Parts
    BY <1>0, <1>12 DEF CommitRow, At, Course
  <2>2. ThreadsTyped'
    BY <1>0, <1>12, <2>1, MovesTo DEF Places, CommitRow, memory
  <2>3. StoreTyped(disk')
    BY <1>12 DEF CommitRow, Committed, TypeInv, DataTyped
  <2>. QED
    BY <1>12, <2>2, <2>3 DEF CommitRow, memory, history, TypeInv, DataTyped
<1>13. CASE CommitUpdate(e)
  <2>1. thread[e].from \in {"update", "restore"} /\ DOMAIN thread[e].aim = Parts
    BY <1>0, <1>13 DEF CommitUpdate, At, Course
  <2>2. ThreadsTyped'
    BY <1>0, <1>13, <2>1, MovesTo DEF Places, CommitUpdate, memory
  <2>3. StoreTyped(disk')
    BY <1>13 DEF CommitUpdate, Committed, TypeInv, DataTyped
  <2>4. lost' \subseteq Links
    BY <1>13, ExposedIs DEF CommitUpdate, TypeInv, DataTyped
  <2>. QED
    BY <1>13, <2>2, <2>3, <2>4 DEF CommitUpdate, memory, TypeInv, DataTyped
<1>14. CASE LoadSettings(e)
  <2>1. e \notin closed /\ closed' = closed /\ faults' = faults
    BY <1>14 DEF LoadSettings, Works
  <2>2. ThreadsTyped'
    BY <1>14, <2>1, StepToIdle DEF LoadSettings
  <2>3. thread[e].at = "load" => IsTables(thread[e].aim) /\ DOMAIN thread[e].aim = Parts
    BY <1>0 DEF Course, WellTyped, IsRequest
  <2>4. IsTables(asked') /\ DOMAIN asked' = Parts
    BY <1>14, <2>3 DEF LoadSettings, At, TypeInv, DataTyped, StoreTyped
  <2>. QED
    BY <1>14, <2>1, <2>2, <2>4 DEF LoadSettings, store, TypeInv, DataTyped, StoreTyped
<1>15. CASE UpdateFails(e)
  <2>1. ThreadsTyped'
    BY <1>15, StepToIdle DEF UpdateFails
  <2>. QED
    BY <1>15, <2>1, CountersAre DEF UpdateFails, store, TypeInv, DataTyped
<1>. QED
  BY <1>1, <1>2, <1>3, <1>4, <1>5, <1>6, <1>7, <1>8, <1>9, <1>10, <1>11, <1>12, <1>13, <1>14,
     <1>15 DEF EditSettings

LEMMA OtherStepsKeepTypes ==
    ASSUME TypeInv, OtherCommit \/ OtherRollback \/ ReloadServices \/ Crash
    PROVE  TypeInv'
<1>1. CASE OtherCommit
  BY <1>1, ExposedIs DEF OtherCommit, memory, TypeInv, DataTyped, ThreadsTyped, At
<1>2. CASE OtherRollback
  <2>1. \A e \in Editors : Sound([thread[e] EXCEPT !.clean = FALSE])
                           /\ [thread[e] EXCEPT !.clean = FALSE].at = thread[e].at
    <3>. TAKE e \in Editors
    <3>. DEFINE u == [thread[e] EXCEPT !.clean = FALSE]
    <3>1. WellTyped(thread[e]) /\ Course(thread[e])
      BY DEF TypeInv, ThreadsTyped, Sound
    <3>2. WellTyped(u) /\ \A f \in ThreadFields \ {"clean"} : u[f] = thread[e][f]
      BY <3>1, DisturbedIs
    <3>. HIDE DEF u
    <3>3. Sound(u) /\ u.at = thread[e].at
      BY <3>1, <3>2 DEF Sound, Course, ThreadFields
    <3>. QED
      BY <3>3 DEF u
  <2>2. \A e \in Editors : Sound(Disturbed[e]) /\ Disturbed[e].at = thread[e].at
    <3>. TAKE e \in Editors
    <3>1. "at" \in ThreadFields \ {"clean"}
      BY DEF ThreadFields
    <3>2. Sound(Disturbed[e]) /\ Disturbed[e]["at"] = thread[e]["at"]
      BY <3>1, DisturbedAre
    <3>. QED
      BY <3>2
  <2>3. /\ DOMAIN thread' = Editors /\ closed' = closed
        /\ \A e \in Editors : Sound(thread'[e]) /\ thread'[e].at = thread[e].at
    BY <1>2, <2>1, <2>2 DEF OtherRollback, memory
  <2>4. ThreadsTyped'
    BY <2>3 DEF TypeInv, ThreadsTyped, At
  <2>. QED
    BY <1>2, <2>4, CountersAre DEF OtherRollback, memory, TypeInv, DataTyped
<1>3. CASE ReloadServices
  <2>1. ThreadsTyped'
    BY <1>3 DEF ReloadServices, TypeInv, ThreadsTyped, At
  <2>. QED
    BY <1>3, <2>1 DEF ReloadServices, TypeInv, DataTyped, StoreTyped
<1>4. CASE Crash
  <2>1. ThreadsTyped'
    BY <1>4, IdleIs DEF Crash, ThreadsTyped, Sound, Course
  <2>. QED
    BY <1>4, <2>1, CountersAre DEF Crash, TypeInv, DataTyped, StoreTyped
<1>. QED
  BY <1>1, <1>2, <1>3, <1>4

LEMMA TypeInvNext == TypeInv /\ [ConfigNext]_configVars => TypeInv'
<1>1. ASSUME TypeInv, UNCHANGED configVars PROVE TypeInv'
  BY <1>1 DEF configVars, store, memory, history, TypeInv, DataTyped, ThreadsTyped, At
<1>. QED
  BY <1>1, EditLinksKeepsTypes, EditSettingsKeepsTypes, OtherStepsKeepTypes DEF ConfigNext

\* The rows of cachelinks and of every section, the requests of administrators
\* and what is known of them are always of the types the code gives them.
THEOREM ConfigTypeCorrect == ConfigSpec => []ConfigTypeOK
<1>1. ConfigSpec => []TypeInv
  BY TypeInvInit, TypeInvNext, PTL DEF ConfigSpec
<1>. QED
  BY <1>1, TypeInvTypes, PTL

-----------------------------------------------------------------------------
(* Cachelinks: what is known of them while they are edited and saved.      *)

\* Who has written rows that are not committed.
Writes(e) == e \notin closed /\ thread[e].at \in {"insert", "stored"}
OneWriter == \A e, o \in Editors : Writes(e) /\ Writes(o) => e = o

\* Until it saves, a rollback does not concern an edit.
Fresh(e) == thread[e].at \in {"edit", "import"} => thread[e].clean

\* What an edit has read is what was told, but for what others did since.
SeenByEdit(e) ==
    thread[e].at = "edit" /\ e \notin closed =>
        \A l \in Links \ (lost \cup thread[e].missed) : Of(thread[e].doc, l) = told[l]

\* A save has written what it was made of but for what it still has to do, or,
\* after a rollback, there is again what was committed.
SaveIsKnown(e) ==
    e \in Saving =>
        /\ thread[e].clean => work.links \cup Range(thread[e].todo) = thread[e].doc
        /\ \A l \in Links \ (lost \cup thread[e].own \cup thread[e].missed) :
              /\ ~thread[e].clean => Of(work.links, l) = told[l]
              /\ Of(thread[e].doc, l) = told[l]

WorkIsTold == Saving = {} => \A l \in Links \ lost : Of(work.links, l) = told[l]

LinksKnown ==
    /\ \A e \in Editors : Fresh(e) /\ SeenByEdit(e) /\ SaveIsKnown(e)
    /\ WorkIsTold /\ AcknowledgedIsStored
LinkInv == OneWriter /\ LinksKnown

LEMMA LinkInvInit == ConfigInit => LinkInv
<1>. SUFFICES ASSUME ConfigInit PROVE LinkInv
  OBVIOUS
<1>1. \A e \in Editors : thread[e].at = "idle"
  BY IdleIs DEF ConfigInit
<1>2. \A l \in Links : told[l] = Of(FirstLinks, l) /\ work.links = FirstLinks /\ disk.links = FirstLinks
  BY DEF ConfigInit
<1>. QED
  BY <1>1, <1>2 DEF LinkInv, LinksKnown, OneWriter, Writes, Fresh, SeenByEdit, SaveIsKnown, Saving,
     At, WorkIsTold, AcknowledgedIsStored

\* There is no second save, and none when another request has the lock.
LEMMA OneSave ==
    ASSUME OneWriter, NEW e \in Editors, Writes(e)
    PROVE  /\ Saving \subseteq {e}
           /\ thread[e].at = "stored" => Saving = {}
BY DEF OneWriter, Writes, Saving, At

LEMMA NoSave ==
    ASSUME NEW e \in Editors, Unlocked(e), thread[e].at # "insert"
    PROVE  Saving = {}
BY DEF Unlocked, Saving, At

LEMMA WriterStays ==
    ASSUME OneWriter, NEW e \in Editors,
           \A o \in Editors \ {e} : Writes(o)' => Writes(o),
           Writes(e)' => Writes(e) \/ Unlocked(e)
    PROVE  OneWriter'
<1>1. Unlocked(e) => \A o \in Editors \ {e} : ~Writes(o)
  BY DEF Unlocked, Writes, At
<1>. QED
  BY <1>1 DEF OneWriter

\* What the threads see is what was told, but for what a save has at risk.
LEMMA WorkKnown ==
    ASSUME LinkInv
    PROVE  \A l \in Links \ (lost \cup Exposed) : Of(work.links, l) = told[l]
<1>1. CASE Saving = {}
  BY <1>1 DEF LinkInv, LinksKnown, WorkIsTold
<1>2. CASE Saving # {}
  <2>1. PICK e \in Editors : e \in Saving
    BY <1>2 DEF Saving
  <2>. SUFFICES ASSUME NEW l \in Links \ (lost \cup AtRisk(e)) PROVE Of(work.links, l) = told[l]
    BY <2>1 DEF Exposed
  <2>2. l \notin lost \cup thread[e].own \cup thread[e].missed /\ l \notin Ids(Range(thread[e].todo))
    BY DEF AtRisk
  <2>3. SaveIsKnown(e)
    BY DEF LinkInv, LinksKnown
  <2>4. Of(thread[e].doc, l) = told[l] /\ (~thread[e].clean => Of(work.links, l) = told[l])
    BY <2>1, <2>2, <2>3 DEF SaveIsKnown
  <2>5. ASSUME thread[e].clean PROVE Of(work.links, l) = Of(thread[e].doc, l)
    <3>1. work.links \cup Range(thread[e].todo) = thread[e].doc
      BY <2>1, <2>3, <2>5 DEF SaveIsKnown
    <3>. QED
      BY <2>2, <3>1 DEF Of, Ids
  <2>. QED
    BY <2>4, <2>5
<1>. QED
  BY <1>1, <1>2

\* A step that leaves the cachelinks and those who edit them alone, or commits.
LEMMA QuietForLinks ==
    ASSUME LinkInv,
           \A o \in Editors : thread'[o].at \in {"edit", "insert"} =>
                                 thread'[o] = thread[o] /\ (o \in closed' <=> o \in closed),
           \A o \in Editors : thread'[o].at = "import" => thread'[o].clean,
           \A o \in Saving : thread'[o] = thread[o] /\ o \notin closed',
           work'.links = work.links, told' = told, lost \subseteq lost',
           \/ disk'.links = disk.links
           \/ disk'.links = work.links /\ Exposed \subseteq lost'
    PROVE  LinksKnown'
<1>1. Saving' = Saving
  BY DEF Saving, At
<1>2. ASSUME NEW o \in Editors PROVE Fresh(o)' /\ SeenByEdit(o)' /\ SaveIsKnown(o)'
  <2>0. Fresh(o) /\ SeenByEdit(o) /\ SaveIsKnown(o)
    BY DEF LinkInv, LinksKnown
  <2>1. Fresh(o)'
    BY <2>0 DEF Fresh
  <2>2. SeenByEdit(o)'
    BY <2>0 DEF SeenByEdit
  <2>3. SaveIsKnown(o)'
    BY <1>1, <2>0 DEF SaveIsKnown, Saving, At
  <2>. QED
    BY <2>1, <2>2, <2>3
<1>3. WorkIsTold'
  BY <1>1 DEF LinkInv, LinksKnown, WorkIsTold
<1>4. AcknowledgedIsStored'
  BY WorkKnown DEF LinkInv, LinksKnown, AcknowledgedIsStored
<1>. QED
  BY <1>2, <1>3, <1>4 DEF LinksKnown

\* A step of one request that has nothing to do with cachelinks.
LEMMA SettingsAreQuiet ==
    ASSUME TypeInv, LinkInv, NEW e \in Editors,
           thread[e].at \notin {"edit", "import", "insert"},
           thread'[e].at \notin {"edit", "import", "insert"},
           \A o \in Editors \ {e} : thread'[o] = thread[o] \/ thread'[o] = Disturbed[o],
           closed' \in {closed, closed \ {e}},
           work'.links = work.links, told' = told, lost \subseteq lost',
           \/ disk'.links = disk.links
           \/ disk'.links = work.links /\ Exposed \subseteq lost',
           Writes(e)' => Writes(e) \/ Unlocked(e)
    PROVE  LinkInv'
<1>1. ASSUME NEW o \in Editors \ {e}
      PROVE  /\ thread'[o].at = thread[o].at
             /\ thread[o].at \in {"edit", "import", "insert"} => thread'[o] = thread[o]
             /\ o \in closed' <=> o \in closed
  <2>1. "at" \in ThreadFields \ {"clean"}
    BY DEF ThreadFields
  <2>2. Disturbed[o]["at"] = thread[o]["at"] /\ (~Updating(o) => Disturbed[o] = thread[o])
    BY <2>1, DisturbedAre
  <2>3. thread[o].at \in {"edit", "import", "insert"} => ~Updating(o)
    BY DEF Updating
  <2>. QED
    BY <2>2, <2>3
<1>2. \A o \in Editors : thread'[o].at = "import" => thread'[o].clean
  BY <1>1 DEF LinkInv, LinksKnown, Fresh
<1>3. \A o \in Saving : thread'[o] = thread[o] /\ o \notin closed'
  BY <1>1 DEF Saving, At
<1>4. \A o \in Editors : thread'[o].at \in {"edit", "insert"} =>
                             thread'[o] = thread[o] /\ (o \in closed' <=> o \in closed)
  BY <1>1
<1>5. LinksKnown'
  BY <1>2, <1>3, <1>4, QuietForLinks
<1>6. \A o \in Editors \ {e} : Writes(o)' => Writes(o)
  BY <1>1 DEF Writes
<1>7. OneWriter'
  BY <1>6, WriterStays DEF LinkInv
<1>. QED
  BY <1>5, <1>7 DEF LinkInv

LEMMA ClearKeepsLinks ==
    ASSUME TypeInv, LinkInv, NEW e \in Editors, thread[e].at \in {"edit", "import"},
           NEW q \in Seq(LinkRows), NEW own, own \subseteq Links, Clear(e, q, own),
           e \notin closed => \A l \in Links \ (lost \cup own \cup thread[e].missed) :
                                  Of(Range(q), l) = told[l]
    PROVE  LinkInv'
<1>0. /\ DOMAIN thread = Editors /\ WellTyped(thread[e])
      /\ Unlocked(e) /\ Saving = {}
      /\ UNCHANGED <<disk, told, lost>>
  BY NoSave DEF TypeInv, ThreadsTyped, Sound, Clear, history
<1>1. CASE /\ Works(e) /\ work' = [work EXCEPT !.links = {}]
           /\ Become(e, [thread[e] EXCEPT !.at = "insert", !.todo = q, !.own = own,
                                          !.doc = Range(q)])
           /\ UNCHANGED closed
  <2>. DEFINE r == Cleared(thread[e], q, own)
  <2>1. Become(e, r)
    BY <1>1 DEF Cleared
  <2>2. /\ r.at = "insert" /\ r.todo = q /\ r.own = own /\ r.doc = Range(q)
        /\ \A f \in ThreadFields \ {"at", "todo", "own", "doc"} : r[f] = thread[e][f]
    BY <1>0, ClearedIs
  <2>. HIDE DEF r
  <2>3. r.clean /\ r.missed = thread[e].missed
    BY <2>2 DEF ThreadFields, LinkInv, LinksKnown, Fresh
  <2>4. thread'[e] = r /\ \A o \in Editors \ {e} : thread'[o] = thread[o]
    BY <1>0, <2>1, BecomeIs
  <2>5. e \notin closed /\ closed' = closed
    BY <1>1 DEF Works
  <2>6. Saving' = {e}
    BY <1>0, <2>2, <2>4, <2>5 DEF Saving, At
  <2>7. work'.links = {}
    BY <1>1 DEF TypeInv, DataTyped, StoreTyped
  <2>8. SaveIsKnown(e)'
    BY <1>0, <2>2, <2>3, <2>4, <2>5, <2>7 DEF SaveIsKnown
  <2>9. Fresh(e)' /\ SeenByEdit(e)'
    BY <2>2, <2>4 DEF Fresh, SeenByEdit
  <2>10. \A o \in Editors \ {e} : Fresh(o)' /\ SeenByEdit(o)' /\ SaveIsKnown(o)'
    BY <1>0, <2>4, <2>5, <2>6 DEF LinkInv, LinksKnown, Fresh, SeenByEdit, SaveIsKnown
  <2>11. WorkIsTold' /\ AcknowledgedIsStored'
    BY <1>0, <2>6 DEF WorkIsTold, LinkInv, LinksKnown, AcknowledgedIsStored
  <2>12. \A o \in Editors \ {e} : Writes(o)' => Writes(o)
    BY <2>4, <2>5 DEF Writes
  <2>13. OneWriter'
    BY <1>0, <2>12, WriterStays DEF LinkInv
  <2>. QED
    BY <2>8, <2>9, <2>10, <2>11, <2>13 DEF LinkInv, LinksKnown
<1>2. CASE Raises(e) /\ UNCHANGED work /\ Become(e, Idle) /\ closed' = closed \ {e}
  <2>1. thread'[e] = Idle /\ Idle.at = "idle" /\ \A o \in Editors \ {e} : thread'[o] = thread[o]
    BY <1>0, <1>2, BecomeIs, IdleIs
  <2>2. LinksKnown'
    <3>1. \A o \in Editors : thread'[o].at \in {"edit", "insert"} =>
                                 thread'[o] = thread[o] /\ (o \in closed' <=> o \in closed)
      BY <1>2, <2>1
    <3>2. \A o \in Editors : thread'[o].at = "import" => thread'[o].clean
      BY <2>1 DEF LinkInv, LinksKnown, Fresh
    <3>. QED
      BY <1>0, <1>2, <3>1, <3>2, QuietForLinks
  <2>3. OneWriter'
    <3>1. \A o \in Editors \ {e} : Writes(o)' => Writes(o)
      BY <1>2, <2>1 DEF Writes
    <3>. QED
      BY <1>0, <3>1, WriterStays DEF LinkInv
  <2>. QED
    BY <2>2, <2>3 DEF LinkInv
<1>. QED
  BY <1>1, <1>2 DEF Clear

LEMMA InsertKeepsLinks ==
    ASSUME TypeInv, LinkInv, NEW e \in Editors, Insert(e)
    PROVE  LinkInv'
<1>. DEFINE row == Head(thread[e].todo)
            u == [thread[e] EXCEPT !.todo = Tail(@)]
<1>0. /\ WellTyped(thread[e]) /\ thread[e].at = "insert" /\ thread[e].todo # <<>>
      /\ DOMAIN thread = Editors /\ UNCHANGED <<disk, told>>
  BY DEF Insert, At, TypeInv, ThreadsTyped, Sound
<1>1. /\ Range(thread[e].todo) = {row} \cup Range(u.todo)
      /\ \A f \in ThreadFields \ {"todo"} : u[f] = thread[e][f]
      /\ Range(thread[e].todo) \subseteq thread[e].doc
  <2>1. Range(thread[e].todo) = {row} \cup Range(u.todo) /\ \A f \in ThreadFields \ {"todo"} : u[f] = thread[e][f]
    BY <1>0, ShorterIs
  <2>2. Range(thread[e].todo) \subseteq thread[e].doc
    BY <1>0 DEF WellTyped, IsRequest
  <2>. QED
    BY <2>1, <2>2
<1>2. CASE /\ Works(e) /\ work' = [work EXCEPT !.links = @ \cup {row}]
           /\ Become(e, u) /\ UNCHANGED <<closed, lost>>
  <2>. HIDE DEF u, row
  <2>1. e \notin closed /\ closed' = closed /\ lost' = lost /\ work'.links = work.links \cup {row}
    BY <1>2 DEF Works, TypeInv, DataTyped, StoreTyped
  <2>2. thread'[e] = u /\ \A o \in Editors \ {e} : thread'[o] = thread[o]
    BY <1>0, <1>2, BecomeIs
  <2>3. /\ u.at = "insert" /\ u.doc = thread[e].doc /\ u.own = thread[e].own
        /\ u.missed = thread[e].missed /\ u.clean = thread[e].clean
    BY <1>0, <1>1 DEF ThreadFields
  <2>4. Saving' = {e} /\ Saving = {e}
    <3>1. Writes(e) /\ e \in Saving
      BY <1>0, <2>1 DEF Writes, Saving, At
    <3>2. Saving = {e}
      BY <3>1, OneSave DEF LinkInv
    <3>. QED
      BY <1>0, <2>1, <2>2, <2>3, <3>2 DEF Saving, At
  <2>5. SaveIsKnown(e)'
    <3>1. SaveIsKnown(e)
      BY DEF LinkInv, LinksKnown
    <3>2. ASSUME u.clean PROVE work'.links \cup Range(u.todo) = u.doc
      BY <1>1, <2>1, <2>3, <2>4, <3>1, <3>2 DEF SaveIsKnown
    <3>3. ASSUME NEW l \in Links \ (lost \cup u.own \cup u.missed), ~u.clean
          PROVE  Of(work'.links, l) = told[l]
      <4>1. Of(work.links, l) = told[l] /\ Of(thread[e].doc, l) = told[l]
        BY <2>3, <2>4, <3>1, <3>3 DEF SaveIsKnown
      <4>2. row \in thread[e].doc
        BY <1>1
      <4>. QED
        BY <2>1, <4>1, <4>2 DEF Of
    <3>4. \A l \in Links \ (lost \cup u.own \cup u.missed) : Of(u.doc, l) = told[l]
      BY <2>3, <2>4, <3>1 DEF SaveIsKnown
    <3>. QED
      BY <1>0, <2>1, <2>2, <3>2, <3>3, <3>4 DEF SaveIsKnown
  <2>6. Fresh(e)' /\ SeenByEdit(e)'
    BY <2>2, <2>3 DEF Fresh, SeenByEdit
  <2>7. \A o \in Editors \ {e} : Fresh(o)' /\ SeenByEdit(o)' /\ SaveIsKnown(o)'
    BY <1>0, <2>1, <2>2, <2>4 DEF LinkInv, LinksKnown, Fresh, SeenByEdit, SaveIsKnown
  <2>8. WorkIsTold' /\ AcknowledgedIsStored'
    BY <1>0, <2>1, <2>4 DEF WorkIsTold, LinkInv, LinksKnown, AcknowledgedIsStored
  <2>9. \A o \in Editors : Writes(o)' => Writes(o)
    BY <1>0, <2>1, <2>2 DEF Writes
  <2>10. OneWriter'
    BY <2>9, WriterStays DEF LinkInv
  <2>. QED
    BY <2>5, <2>6, <2>7, <2>8, <2>10 DEF LinkInv, LinksKnown
<1>3. CASE /\ lost' = IF e \in closed THEN lost ELSE lost \cup AtRisk(e)
           /\ Become(e, Idle) /\ closed' = closed \ {e} /\ UNCHANGED work
  <2>. HIDE DEF u, row
  <2>1. thread'[e] = Idle /\ Idle.at = "idle" /\ \A o \in Editors \ {e} : thread'[o] = thread[o]
    BY <1>0, <1>3, BecomeIs, IdleIs
  <2>2. \A o \in Editors : Writes(o)' => Writes(o)
    BY <1>3, <2>1 DEF Writes
  <2>3. OneWriter'
    BY <2>2, WriterStays DEF LinkInv
  <2>4. CASE e \in closed
    <3>1. /\ \A o \in Editors : thread'[o].at \in {"edit", "insert"} =>
                                    thread'[o] = thread[o] /\ (o \in closed' <=> o \in closed)
          /\ \A o \in Editors : thread'[o].at = "import" => thread'[o].clean
          /\ \A o \in Saving : thread'[o] = thread[o] /\ o \notin closed'
      BY <1>3, <2>1, <2>4 DEF LinkInv, LinksKnown, Fresh, Saving
    <3>2. LinksKnown'
      BY <1>0, <1>3, <2>4, <3>1, QuietForLinks
    <3>. QED
      BY <2>3, <3>2 DEF LinkInv
  <2>5. CASE e \notin closed
    <3>1. Saving = {e} /\ Saving' = {}
      <4>1. Writes(e) /\ e \in Saving
        BY <1>0, <2>5 DEF Writes, Saving, At
      <4>2. Saving = {e}
        BY <4>1, OneSave DEF LinkInv
      <4>. QED
        BY <1>3, <2>1, <4>2 DEF Saving, At
    <3>2. lost' = lost \cup Exposed
      BY <1>3, <2>5, <3>1 DEF Exposed
    <3>3. WorkIsTold'
      BY <1>0, <1>3, <3>2, WorkKnown DEF WorkIsTold
    <3>4. \A o \in Editors : Fresh(o)' /\ SeenByEdit(o)' /\ SaveIsKnown(o)'
      BY <1>0, <1>3, <2>1, <3>1, <3>2 DEF LinkInv, LinksKnown, Fresh, SeenByEdit, SaveIsKnown
    <3>5. AcknowledgedIsStored'
      BY <1>0, <3>2 DEF LinkInv, LinksKnown, AcknowledgedIsStored
    <3>. QED
      BY <2>3, <3>3, <3>4, <3>5 DEF LinkInv, LinksKnown
  <2>. QED
    BY <2>4, <2>5
<1>. QED
  BY <1>2, <1>3 DEF Insert

LEMMA CommitKeepsLinks ==
    ASSUME TypeInv, LinkInv, NEW e \in Editors, CommitLinks(e)
    PROVE  LinkInv'
<1>. DEFINE own == thread[e].own
            missed == thread[e].missed
<1>0. /\ thread[e].at = "insert" /\ Range(thread[e].todo) = {} /\ work' = work
      /\ disk' = Committed(e)
      /\ \A l \in Links : told'[l] = IF l \in own THEN Of(thread[e].doc, l) ELSE told[l]
      /\ lost' = (lost \ own) \cup (IF e \in closed \/ ~thread[e].clean THEN own ELSE {})
                     \cup (IF e \in closed THEN {} ELSE missed \ own)
      /\ own \subseteq Links
  <2>1. Range(<<>>) = {}
    BY DEF Range
  <2>2. own \subseteq Links
    BY DEF TypeInv, ThreadsTyped, Sound, WellTyped, IsRequest
  <2>. QED
    BY <2>1, <2>2 DEF CommitLinks, At
<1>1. /\ thread'[e].at \in {"idle", "refresh"}
      /\ \A o \in Editors \ {e} :
            thread'[o] = IF thread[o].at = "edit" /\ e \notin closed
                         THEN [thread[o] EXCEPT !.missed = @ \cup own] ELSE thread[o]
  <2>1. Idle.at = "idle" /\ [Idle EXCEPT !.at = "refresh"].at = "refresh"
    BY BegunIs, IdleIs DEF Places
  <2>. QED
    BY <2>1 DEF CommitLinks, At
<1>2. \A o \in Editors \ {e} : o \in closed' <=> o \in closed
  BY DEF CommitLinks
<1>3. ASSUME NEW o \in Editors \ {e}
      PROVE  /\ thread'[o].at = thread[o].at /\ thread'[o].doc = thread[o].doc
             /\ thread'[o].clean = thread[o].clean
             /\ thread'[o].missed = IF thread[o].at = "edit" /\ e \notin closed
                                    THEN thread[o].missed \cup own ELSE thread[o].missed
  <2>. DEFINE u == [thread[o] EXCEPT !.missed = @ \cup own]
  <2>1. WellTyped(thread[o])
    BY DEF TypeInv, ThreadsTyped, Sound
  <2>2. u.missed = thread[o].missed \cup own /\ \A f \in ThreadFields \ {"missed"} : u[f] = thread[o][f]
    BY <1>0, <2>1, MissingIs
  <2>. HIDE DEF u
  <2>3. u.at = thread[o].at /\ u.doc = thread[o].doc /\ u.clean = thread[o].clean
    BY <2>2 DEF ThreadFields
  <2>4. thread'[o] \in {u, thread[o]} /\ (thread'[o] = u <=> thread'[o] = u)
    BY <1>1 DEF u
  <2>5. thread'[o] = IF thread[o].at = "edit" /\ e \notin closed THEN u ELSE thread[o]
    BY <1>1 DEF u
  <2>. QED
    BY <2>2, <2>3, <2>5
<1>4. OneWriter'
  <2>1. \A o \in Editors : Writes(o)' => Writes(o)
    BY <1>1, <1>2, <1>3 DEF Writes
  <2>. QED
    BY <2>1, WriterStays DEF LinkInv
<1>5. \A o \in Editors : Fresh(o)'
  BY <1>1, <1>3 DEF LinkInv, LinksKnown, Fresh
<1>6. CASE e \in closed
  <2>1. lost' = lost \cup own /\ disk' = disk
    BY <1>0, <1>6 DEF Committed
  <2>2. \A l \in Links \ lost' : told'[l] = told[l]
    BY <1>0, <2>1
  <2>3. Saving' = Saving /\ \A o \in Saving : o # e /\ thread'[o] = thread[o]
    BY <1>0, <1>1, <1>2, <1>3, <1>6 DEF Saving, At
  <2>4. ASSUME NEW o \in Editors PROVE SeenByEdit(o)' /\ SaveIsKnown(o)'
    <3>1. SeenByEdit(o) /\ SaveIsKnown(o)
      BY DEF LinkInv, LinksKnown
    <3>2. SeenByEdit(o)'
      BY <1>1, <1>2, <1>3, <1>6, <2>1, <2>2, <3>1 DEF SeenByEdit
    <3>3. SaveIsKnown(o)'
      BY <1>0, <2>1, <2>2, <2>3, <3>1 DEF SaveIsKnown
    <3>. QED
      BY <3>2, <3>3
  <2>5. WorkIsTold' /\ AcknowledgedIsStored'
    BY <1>0, <2>1, <2>2, <2>3 DEF LinkInv, LinksKnown, WorkIsTold, AcknowledgedIsStored
  <2>. QED
    BY <1>4, <1>5, <2>4, <2>5 DEF LinkInv, LinksKnown
<1>7. CASE e \notin closed
  <2>1. Saving = {e} /\ Saving' = {}
    <3>1. Writes(e) /\ e \in Saving
      BY <1>0, <1>7 DEF Writes, Saving, At
    <3>2. Saving = {e}
      BY <3>1, OneSave DEF LinkInv
    <3>3. \A o \in Editors \ {e} : o \in Saving' => o \in Saving
      BY <1>2, <1>3 DEF Saving, At
    <3>4. e \notin Saving'
      BY <1>1 DEF Saving, At
    <3>5. Saving' \subseteq Editors
      BY DEF Saving
    <3>. QED
      BY <3>2, <3>3, <3>4, <3>5
  <2>2. disk' = work
    BY <1>0, <1>7 DEF Committed
  <2>3. SaveIsKnown(e)
    BY DEF LinkInv, LinksKnown
  <2>4. ASSUME NEW l \in Links \ lost' PROVE Of(work.links, l) = told'[l]
    <3>1. thread[e].clean => work.links = thread[e].doc
      BY <1>0, <2>1, <2>3 DEF SaveIsKnown
    <3>2. CASE l \in own
      BY <1>0, <2>4, <3>1, <3>2
    <3>3. CASE l \notin own
      <4>1. l \notin lost \cup own \cup missed /\ told'[l] = told[l]
        BY <1>0, <1>7, <2>4, <3>3
      <4>. QED
        BY <2>1, <2>3, <3>1, <4>1 DEF SaveIsKnown
    <3>. QED
      BY <3>2, <3>3
  <2>5. WorkIsTold' /\ AcknowledgedIsStored'
    BY <1>0, <2>2, <2>4 DEF WorkIsTold, AcknowledgedIsStored
  <2>6. ASSUME NEW o \in Editors PROVE SeenByEdit(o)'
    <3>. SUFFICES ASSUME o # e, thread[o].at = "edit", o \notin closed,
                         NEW l \in Links \ (lost' \cup thread'[o].missed)
                  PROVE  Of(thread'[o].doc, l) = told'[l]
      BY <1>1, <1>2, <1>3 DEF SeenByEdit
    <3>1. l \notin own /\ l \notin thread[o].missed /\ l \notin lost /\ told'[l] = told[l]
      BY <1>0, <1>3, <1>7
    <3>. QED
      BY <1>3, <3>1 DEF LinkInv, LinksKnown, SeenByEdit
  <2>7. \A o \in Editors : SaveIsKnown(o)'
    BY <2>1 DEF SaveIsKnown
  <2>. QED
    BY <1>4, <1>5, <2>5, <2>6, <2>7 DEF LinkInv, LinksKnown
<1>. QED
  BY <1>6, <1>7

LEMMA EditLinksKeepsLinks ==
    ASSUME TypeInv, LinkInv, NEW e \in Editors, EditLinks(e)
    PROVE  LinkInv'
<1>0. DOMAIN thread = Editors /\ Idle.at = "idle" /\ (e \in closed => thread[e].at # "idle")
  BY IdleIs DEF TypeInv, ThreadsTyped, At
<1>1. CASE ReadLinks(e)
  <2>. DEFINE r == [Idle EXCEPT !.at = "edit", !.doc = work.links]
  <2>1. r.at = "edit" /\ r.doc = work.links /\ r.clean
    BY IdleIs DEF WellTyped, Shaped, ThreadFields, Idle
  <2>. HIDE DEF r
  <2>2. /\ Become(e, r) /\ thread[e].at = "idle" /\ Unlocked(e)
        /\ UNCHANGED <<disk, work, told, lost, closed>>
    BY <1>1 DEF r, ReadLinks, Begin, At, store, history, memory
  <2>3. thread'[e] = r /\ \A o \in Editors \ {e} : thread'[o] = thread[o]
    BY <1>0, <2>2, BecomeIs
  <2>4. Saving = {} /\ Saving' = {}
    BY <2>1, <2>2, <2>3, NoSave DEF Saving, At
  <2>5. Fresh(e)' /\ SeenByEdit(e)' /\ SaveIsKnown(e)'
    <3>1. SeenByEdit(e)'
      BY <2>1, <2>2, <2>3, <2>4 DEF SeenByEdit, LinkInv, LinksKnown, WorkIsTold
    <3>. QED
      BY <2>1, <2>3, <2>4, <3>1 DEF Fresh, SaveIsKnown
  <2>6. \A o \in Editors \ {e} : Fresh(o)' /\ SeenByEdit(o)' /\ SaveIsKnown(o)'
    BY <2>2, <2>3, <2>4 DEF LinkInv, LinksKnown, Fresh, SeenByEdit, SaveIsKnown
  <2>7. WorkIsTold' /\ AcknowledgedIsStored'
    BY <2>2, <2>4 DEF LinkInv, LinksKnown, WorkIsTold, AcknowledgedIsStored
  <2>8. OneWriter'
    <3>1. \A o \in Editors : Writes(o)' => Writes(o)
      BY <2>1, <2>2, <2>3 DEF Writes
    <3>. QED
      BY <3>1, WriterStays DEF LinkInv
  <2>. QED
    BY <2>5, <2>6, <2>7, <2>8 DEF LinkInv, LinksKnown
<1>2. CASE Edit(e)
  <2>1. /\ thread[e].doc \subseteq LinkRows /\ IsFiniteSet(thread[e].doc) /\ thread[e].at = "edit"
    BY <1>2 DEF Edit, At, TypeInv, ThreadsTyped, Sound, Course, WellTyped, IsRequest
  <2>2. PICK l \in Links :
          \E q \in Creation(thread[e].doc, l) \cup FolderAddition(thread[e].doc, l)
                   \cup Update(thread[e].doc, l) \cup Deletion(thread[e].doc, l)
                   \cup FolderDeletion(thread[e].doc, l) : Clear(e, q, {l})
    BY <1>2 DEF Edit
  <2>3. PICK q \in Creation(thread[e].doc, l) \cup FolderAddition(thread[e].doc, l)
                   \cup Update(thread[e].doc, l) \cup Deletion(thread[e].doc, l)
                   \cup FolderDeletion(thread[e].doc, l) : Clear(e, q, {l})
    BY <2>2
  <2>4. q \in Seq(LinkRows) /\ \A m \in Links \ {l} : Of(Range(q), m) = Of(thread[e].doc, m)
    BY <2>1, OthersStay
  <2>5. e \notin closed => \A m \in Links \ (lost \cup {l} \cup thread[e].missed) :
                               Of(Range(q), m) = told[m]
    BY <2>1, <2>4 DEF LinkInv, LinksKnown, SeenByEdit
  <2>6. {l} \subseteq Links
    OBVIOUS
  <2>. QED
    BY <2>1, <2>3, <2>4, <2>5, <2>6, ClearKeepsLinks
<1>3. CASE Refuse(e)
  <2>1. thread[e].at = "edit" /\ UNCHANGED <<disk, work, told, lost>> /\ closed' = closed \ {e}
    BY <1>3 DEF Refuse, At, store, history
  <2>2. thread'[e] = Idle /\ \A o \in Editors \ {e} : thread'[o] = thread[o]
    BY <1>0, <1>3, BecomeIs DEF Refuse
  <2>3. /\ \A o \in Editors : thread'[o].at \in {"edit", "insert"} =>
                                  thread'[o] = thread[o] /\ (o \in closed' <=> o \in closed)
        /\ \A o \in Editors : thread'[o].at = "import" => thread'[o].clean
        /\ \A o \in Saving : thread'[o] = thread[o] /\ o \notin closed'
    BY <1>0, <2>1, <2>2 DEF LinkInv, LinksKnown, Fresh, Saving, At
  <2>4. LinksKnown'
    BY <2>1, <2>3, QuietForLinks
  <2>5. \A o \in Editors : Writes(o)' => Writes(o)
    BY <1>0, <2>1, <2>2 DEF Writes
  <2>. QED
    BY <2>4, <2>5, WriterStays DEF LinkInv
<1>4. CASE BeginImport(e)
  <2>. DEFINE r == [Idle EXCEPT !.at = "import"]
  <2>1. r.at = "import" /\ r.clean
    BY IdleIs DEF WellTyped, Shaped, ThreadFields, Idle
  <2>. HIDE DEF r
  <2>2. /\ Become(e, r) /\ thread[e].at = "idle"
        /\ UNCHANGED <<disk, work, told, lost, closed>>
    BY <1>4 DEF r, BeginImport, Begin, At, store, history, memory
  <2>3. thread'[e] = r /\ \A o \in Editors \ {e} : thread'[o] = thread[o]
    BY <1>0, <2>2, BecomeIs
  <2>4. /\ \A o \in Editors : thread'[o].at \in {"edit", "insert"} =>
                                  thread'[o] = thread[o] /\ (o \in closed' <=> o \in closed)
        /\ \A o \in Editors : thread'[o].at = "import" => thread'[o].clean
        /\ \A o \in Saving : thread'[o] = thread[o] /\ o \notin closed'
    BY <2>1, <2>2, <2>3 DEF LinkInv, LinksKnown, Fresh, Saving, At
  <2>5. LinksKnown'
    BY <2>2, <2>4, QuietForLinks
  <2>6. \A o \in Editors : Writes(o)' => Writes(o)
    BY <2>1, <2>2, <2>3 DEF Writes
  <2>. QED
    BY <2>5, <2>6, WriterStays DEF LinkInv
<1>5. CASE ImportLinks(e)
  <2>1. PICK q \in Imports : Clear(e, q, Links)
    BY <1>5 DEF ImportLinks
  <2>2. q \in Seq(LinkRows) /\ thread[e].at = "import"
    BY <1>5, ConfigAssumption DEF ConfigAssumption, ImportLinks, At
  <2>. QED
    BY <2>1, <2>2, ClearKeepsLinks
<1>. QED
  BY <1>1, <1>2, <1>3, <1>4, <1>5, InsertKeepsLinks, CommitKeepsLinks DEF EditLinks

\* A request of settings that neither writes to the database nor commits.
LEMMA ReadsAreQuiet ==
    ASSUME TypeInv, LinkInv, NEW e \in Editors,
           thread[e].at \notin {"edit", "import", "insert"},
           thread'[e].at \notin {"edit", "import", "insert", "stored"},
           \A o \in Editors \ {e} : thread'[o] = thread[o] \/ thread'[o] = Disturbed[o],
           closed' \in {closed, closed \ {e}},
           UNCHANGED <<disk, work, told, lost>>
    PROVE  LinkInv'
<1>1. Writes(e)' => Writes(e) \/ Unlocked(e)
  BY DEF Writes
<1>. QED
  BY <1>1, SettingsAreQuiet

LEMMA StoresKeepsLinks ==
    ASSUME TypeInv, LinkInv, NEW e \in Editors, thread[e].at \in {"update", "restore"}, Unlocked(e),
           NEW s \in DOMAIN thread[e].ask, NEW n \in DOMAIN thread[e].ask[s],
           Stores(e, s, n), UNCHANGED <<disk, told, lost, closed>>
    PROVE  LinkInv'
<1>. DEFINE u == StoredBy(thread[e], s, n)
<1>1. WellTyped(thread[e]) /\ DOMAIN thread = Editors
  BY DEF TypeInv, ThreadsTyped, Sound
<1>2. u.at = "stored"
  BY <1>1, StoredIs
<1>3. Become(e, u)
  BY DEF Stores, StoredBy
<1>. HIDE DEF u
<1>4. thread'[e] = u /\ \A o \in Editors \ {e} : thread'[o] = thread[o]
  BY <1>1, <1>3, BecomeIs
<1>5. work'.links = work.links
  BY StoresKeepsTypes
<1>. QED
  BY <1>2, <1>4, <1>5, SettingsAreQuiet

LEMMA EditSettingsKeepsLinks ==
    ASSUME TypeInv, LinkInv, NEW e \in Editors, EditSettings(e)
    PROVE  LinkInv'
<1>0. /\ WellTyped(thread[e]) /\ Course(thread[e]) /\ DOMAIN thread = Editors
      /\ Idle.at = "idle"
  BY IdleIs DEF TypeInv, ThreadsTyped, Sound
<1>0a. \A s \in Parts : IsTable(work.tables[s])
  BY DEF TypeInv, DataTyped, StoreTyped, IsTables
<1>1. CASE ImportBackup(e)
  <2>. DEFINE ask == [s \in Parts |-> Accepted(s)]
              stage == [s \in Parts |-> PutAtOnce(s)]
              aim == [s \in Parts |-> Merged(ask[s], asked[s])]
  <2>1. IsTables(ask) /\ DOMAIN ask = Parts /\ IsTables(aim) /\ DOMAIN aim = Parts
    BY AcceptedIs
  <2>2. stage \in [DOMAIN ask -> {"read", "wipe", "put"}]
    BY DEF PutAtOnce
  <2>3. BeginUpdate(e, "restore", ask, stage, aim) /\ UNCHANGED <<disk, work, told, lost, closed>>
    BY <1>1 DEF ImportBackup, memory, store
  <2>. HIDE DEF ask, stage, aim
  <2>4. /\ thread[e].at = "idle" /\ thread'[e].at = "restore"
        /\ \A o \in Editors \ {e} : thread'[o] = Disturbed[o]
    BY <2>1, <2>2, <2>3, UpdateBegins DEF Asks
  <2>. QED
    BY <2>3, <2>4, ReadsAreQuiet
<1>2. CASE RestoreRow(e)
  <2>1. PICK s \in Parts : /\ Current(e, s)
                           /\ \E n \in DOMAIN thread[e].ask[s] \ thread[e].put[s] :
                                \/ Stores(e, s, n)
                                \/ /\ UNCHANGED work
                                   /\ Become(e, [thread[e] EXCEPT
                                         !.put[s] = thread[e].put[s] \cup {n}, !.clean = FALSE])
    BY <1>2 DEF RestoreRow
  <2>2. PICK n \in DOMAIN thread[e].ask[s] \ thread[e].put[s] :
                                \/ Stores(e, s, n)
                                \/ /\ UNCHANGED work
                                   /\ Become(e, [thread[e] EXCEPT
                                         !.put[s] = thread[e].put[s] \cup {n}, !.clean = FALSE])
    BY <2>1
  <2>3. /\ s \in DOMAIN thread[e].ask /\ thread[e].at = "restore" /\ Unlocked(e)
        /\ UNCHANGED <<disk, told, lost, closed>>
    BY <1>2, <2>1 DEF Current, RestoreRow, memory, At
  <2>4. CASE Stores(e, s, n)
    BY <2>2, <2>3, <2>4, StoresKeepsLinks
  <2>5. CASE /\ UNCHANGED work
             /\ Become(e, [thread[e] EXCEPT !.put[s] = thread[e].put[s] \cup {n}, !.clean = FALSE])
    <3>. DEFINE v == PassedBy(thread[e], s, n)
    <3>2. Become(e, v)
      BY <2>5 DEF PassedBy
    <3>0. n \in DOMAIN thread[e].ask[s] /\ s \in DOMAIN thread[e].ask /\ WellTyped(thread[e])
      BY <1>0, <2>2, <2>3
    <3>1. \A f \in ThreadFields \ {"put", "clean"} : v[f] = thread[e][f]
      BY <3>0, StoredIs
    <3>. HIDE DEF v
    <3>3. v.at = "restore"
      BY <2>3, <3>1 DEF ThreadFields
    <3>4. thread'[e] = v /\ \A o \in Editors \ {e} : thread'[o] = thread[o]
      BY <1>0, <3>2, BecomeIs
    <3>. QED
      BY <2>3, <2>5, <3>3, <3>4, ReadsAreQuiet
  <2>. QED
    BY <2>2, <2>4, <2>5
<1>3. CASE RestoreEnds(e) \/ ExportEnds(e) \/ LoadSettings(e) \/ UpdateFails(e)
  <2>1. /\ thread[e].at \notin {"edit", "import", "insert"}
        /\ closed' \in {closed, closed \ {e}}
        /\ UNCHANGED <<disk, work, told, lost>>
    BY <1>3 DEF RestoreEnds, ExportEnds, LoadSettings, UpdateFails, At, store, history
  <2>2. /\ thread'[e].at \in {"idle", "load"}
        /\ \A o \in Editors \ {e} : thread'[o] = thread[o]
    <3>1. CASE Become(e, Idle)
      BY <1>0, <3>1, BecomeIs
    <3>2. CASE Goto(e, "load")
      BY <3>2, GotoIs DEF Places
    <3>. QED
      BY <1>3, <3>1, <3>2 DEF RestoreEnds, ExportEnds, LoadSettings, UpdateFails
  <2>. QED
    BY <2>1, <2>2, ReadsAreQuiet
<1>4. CASE BeginExport(e)
  <2>. DEFINE r == [Idle EXCEPT !.at = "export"]
  <2>1. r.at = "export"
    BY BegunIs DEF Places
  <2>. HIDE DEF r
  <2>2. /\ Become(e, r) /\ thread[e].at = "idle"
        /\ UNCHANGED <<disk, work, told, lost, closed>>
    BY <1>4 DEF r, BeginExport, Begin, At, store, history, memory
  <2>3. thread'[e] = r /\ \A o \in Editors \ {e} : thread'[o] = thread[o]
    BY <1>0, <2>2, BecomeIs
  <2>. QED
    BY <2>1, <2>2, <2>3, ReadsAreQuiet
<1>5. CASE ReadSection(e)
  <2>1. PICK s \in Parts :
          Become(e, [thread[e] EXCEPT
                 !.got = Merged([r \in {s} |-> work.tables[s]], thread[e].got)])
    BY <1>5 DEF ReadSection
  <2>. DEFINE u == GotBy(thread[e], s, work.tables[s])
  <2>2. WellTyped(u) /\ \A f \in ThreadFields \ {"got"} : u[f] = thread[e][f]
    BY <1>0, <1>0a, GotIs
  <2>. HIDE DEF u
  <2>3. u.at = "export" /\ thread[e].at = "export"
    BY <1>5, <2>2 DEF ThreadFields, ReadSection, At
  <2>4. Become(e, u) /\ UNCHANGED <<disk, work, told, lost, closed>>
    BY <1>5, <2>1 DEF u, GotBy, ReadSection, memory, store, history
  <2>5. thread'[e] = u /\ \A o \in Editors \ {e} : thread'[o] = thread[o]
    BY <1>0, <2>4, BecomeIs
  <2>. QED
    BY <2>3, <2>4, <2>5, ReadsAreQuiet
<1>6. CASE UpdateSettings(e)
  <2>1. PICK payload \in Payloads : Ask(e, [s \in DOMAIN payload |-> Rows(payload[s])])
    BY <1>6 DEF UpdateSettings
  <2>. DEFINE ask == [s \in DOMAIN payload |-> Rows(payload[s])]
  <2>2. IsTables(ask) /\ DOMAIN ask \subseteq Parts
    BY PayloadIs
  <2>3. Ask(e, ask) /\ UNCHANGED <<disk, work, told, lost, closed>>
    BY <1>6, <2>1 DEF UpdateSettings, memory, store
  <2>. HIDE DEF ask
  <2>4. /\ thread[e].at = "idle" /\ thread'[e].at = "update"
        /\ \A o \in Editors \ {e} : thread'[o] = Disturbed[o]
    BY <2>2, <2>3, AskBegins DEF Asks
  <2>. QED
    BY <2>3, <2>4, ReadsAreQuiet
<1>7. CASE MutateShare(e)
  <2>. DEFINE ask == [s \in {"shares"} |-> Keep(NoRows, loaded["shares"])]
  <2>1. "shares" \in Parts /\ Ask(e, ask) /\ UNCHANGED <<disk, work, told, lost, closed>>
    BY <1>7 DEF MutateShare, store
  <2>2. IsTables(ask) /\ DOMAIN ask \subseteq Parts
    BY <2>1, SharesIs
  <2>. HIDE DEF ask
  <2>3. /\ thread[e].at = "idle" /\ thread'[e].at = "update"
        /\ \A o \in Editors \ {e} : thread'[o] = Disturbed[o]
    BY <2>1, <2>2, AskBegins DEF Asks
  <2>. QED
    BY <2>1, <2>3, ReadsAreQuiet
<1>8. CASE ReadKept(e)
  <2>1. PICK s \in Parts :
          /\ Current(e, s)
          /\ Become(e, [thread[e] EXCEPT !.stage[s] = "wipe",
                            !.ask[s] = Keep(work.tables[s], thread[e].ask[s])])
    BY <1>8 DEF ReadKept
  <2>. DEFINE u == KeptBy(thread[e], s, work.tables[s])
  <2>2. s \in DOMAIN thread[e].ask
    BY <2>1 DEF Current
  <2>3. WellTyped(u) /\ \A f \in ThreadFields \ {"stage", "ask"} : u[f] = thread[e][f]
    BY <1>0, <1>0a, <2>2, KeptIs
  <2>. HIDE DEF u
  <2>4. u.at = "update" /\ thread[e].at = "update"
    BY <1>8, <2>3 DEF ThreadFields, ReadKept, At
  <2>5. Become(e, u) /\ UNCHANGED <<disk, work, told, lost, closed>>
    BY <1>8, <2>1 DEF u, KeptBy, ReadKept, memory, store, history
  <2>6. thread'[e] = u /\ \A o \in Editors \ {e} : thread'[o] = thread[o]
    BY <1>0, <2>5, BecomeIs
  <2>. QED
    BY <2>4, <2>5, <2>6, ReadsAreQuiet
<1>9. CASE Wipe(e)
  <2>1. PICK s \in Parts :
          /\ Current(e, s)
          /\ work' = [work EXCEPT !.tables[s] = NoRows]
          /\ Become(e, [thread[e] EXCEPT !.stage[s] = "put"])
    BY <1>9 DEF Wipe
  <2>. DEFINE u == [thread[e] EXCEPT !.stage[s] = "put"]
  <2>2. s \in DOMAIN thread[e].ask
    BY <2>1 DEF Current
  <2>3. WellTyped(u) /\ \A f \in ThreadFields \ {"stage"} : u[f] = thread[e][f]
    BY <1>0, <2>2, WipedIs
  <2>. HIDE DEF u
  <2>4. u.at = "update" /\ thread[e].at = "update"
    BY <1>9, <2>3 DEF ThreadFields, Wipe, At
  <2>5. Become(e, u) /\ UNCHANGED <<disk, told, lost, closed>>
    BY <1>9, <2>1 DEF u, Wipe, memory, history
  <2>6. thread'[e] = u /\ \A o \in Editors \ {e} : thread'[o] = thread[o]
    BY <1>0, <2>5, BecomeIs
  <2>7. work'.links = work.links
    BY <2>1, NoRowsIs, SectionIs DEF TypeInv, DataTyped
  <2>8. Writes(e)' => Writes(e) \/ Unlocked(e)
    BY <2>4, <2>6 DEF Writes
  <2>. QED
    BY <2>4, <2>5, <2>6, <2>7, <2>8, SettingsAreQuiet
<1>10. CASE Put(e)
  <2>1. PICK s \in Parts : /\ Current(e, s)
                           /\ \E n \in DOMAIN thread[e].ask[s] \ thread[e].put[s] : Stores(e, s, n)
    BY <1>10 DEF Put
  <2>2. PICK n \in DOMAIN thread[e].ask[s] \ thread[e].put[s] : Stores(e, s, n)
    BY <2>1
  <2>3. /\ s \in DOMAIN thread[e].ask /\ thread[e].at = "update" /\ Unlocked(e)
        /\ UNCHANGED <<disk, told, lost, closed>>
    BY <1>10, <2>1 DEF Current, Put, memory, At, history
  <2>. QED
    BY <2>2, <2>3, StoresKeepsLinks
<1>11. CASE CommitRow(e) \/ CommitUpdate(e)
  <2>1. /\ thread[e].at \in {"stored", "update"} /\ UNCHANGED <<work, told, closed>>
        /\ disk' = Committed(e)
    BY <1>11 DEF CommitRow, CommitUpdate, At, memory, history
  <2>2. /\ thread'[e].at \in {"update", "restore", "load"}
        /\ \A o \in Editors \ {e} : thread'[o] = thread[o]
    <3>1. CASE CommitRow(e)
      <4>1. thread[e].from \in Places /\ thread[e].from \in {"update", "restore"}
        BY <1>0, <3>1 DEF CommitRow, At, Course, Places
      <4>. QED
        BY <3>1, <4>1, GotoIs DEF CommitRow
    <3>2. CASE CommitUpdate(e)
      BY <3>2, GotoIs DEF CommitUpdate, Places
    <3>. QED
      BY <1>11, <3>1, <3>2
  <2>3. lost \subseteq lost' /\ (disk'.links = disk.links \/ (disk'.links = work.links /\ Exposed \subseteq lost'))
    <3>1. CASE e \in closed
      BY <1>11, <2>1, <3>1 DEF CommitRow, CommitUpdate, Committed, history
    <3>2. CASE e \notin closed /\ CommitRow(e)
      <4>1. Writes(e) /\ thread[e].at = "stored"
        BY <3>2 DEF Writes, CommitRow, At
      <4>2. Exposed = {}
        BY <4>1, OneSave DEF LinkInv, Exposed
      <4>. QED
        BY <2>1, <3>2, <4>2 DEF Committed, CommitRow, history
    <3>3. CASE e \notin closed /\ CommitUpdate(e)
      BY <2>1, <3>3 DEF Committed, CommitUpdate
    <3>. QED
      BY <1>11, <3>1, <3>2, <3>3
  <2>4. Writes(e)' => Writes(e) \/ Unlocked(e)
    BY <2>2 DEF Writes
  <2>. QED
    BY <2>1, <2>2, <2>3, <2>4, SettingsAreQuiet
<1>. QED
  BY <1>1, <1>2, <1>3, <1>4, <1>5, <1>6, <1>7, <1>8, <1>9, <1>10, <1>11 DEF EditSettings

LEMMA OtherStepsKeepLinks ==
    ASSUME TypeInv, LinkInv, OtherCommit \/ OtherRollback \/ ReloadServices \/ Crash
    PROVE  LinkInv'
<1>1. CASE OtherCommit
  <2>1. /\ UNCHANGED <<work, thread, told, closed>> /\ disk' = work /\ lost' = lost \cup Exposed
    BY <1>1 DEF OtherCommit, memory
  <2>2. LinksKnown'
    <3>1. /\ \A o \in Editors : thread'[o].at \in {"edit", "insert"} =>
                                    thread'[o] = thread[o] /\ (o \in closed' <=> o \in closed)
          /\ \A o \in Editors : thread'[o].at = "import" => thread'[o].clean
          /\ \A o \in Saving : thread'[o] = thread[o] /\ o \notin closed'
      BY <2>1 DEF LinkInv, LinksKnown, Fresh, Saving
    <3>. QED
      BY <2>1, <3>1, QuietForLinks
  <2>. QED
    BY <2>1, <2>2 DEF LinkInv, OneWriter, Writes
<1>2. CASE OtherRollback
  <2>1. UNCHANGED <<disk, told, lost, closed>> /\ work' = disk
    BY <1>2 DEF OtherRollback, memory
  <2>2. ASSUME NEW e \in Editors
        PROVE  /\ \A f \in {"at", "doc", "own", "missed", "todo"} : thread'[e][f] = thread[e][f]
               /\ e \in Saving => thread'[e].clean = FALSE
               /\ thread[e].at \in {"edit", "import"} => thread'[e].clean = thread[e].clean
    <3>. DEFINE u == [thread[e] EXCEPT !.clean = FALSE]
    <3>1. WellTyped(thread[e])
      BY DEF TypeInv, ThreadsTyped, Sound
    <3>2. u.clean = FALSE /\ \A f \in ThreadFields \ {"clean"} : u[f] = thread[e][f]
      BY <3>1, DisturbedIs
    <3>3. thread'[e] = IF e \in Saving THEN u ELSE Disturbed[e]
      BY <1>2 DEF OtherRollback
    <3>. HIDE DEF u
    <3>4. /\ \A f \in ThreadFields \ {"clean"} : Disturbed[e][f] = thread[e][f]
          /\ ~Updating(e) => Disturbed[e] = thread[e]
      BY DisturbedAre
    <3>5. \A f \in ThreadFields \ {"clean"} : thread'[e][f] = thread[e][f]
      BY <3>2, <3>3, <3>4
    <3>6. {"at", "doc", "own", "missed", "todo"} \subseteq ThreadFields \ {"clean"}
      BY DEF ThreadFields
    <3>7. thread[e].at \in {"edit", "import"} => ~Updating(e) /\ e \notin Saving
      BY DEF Updating, Saving, At
    <3>. QED
      BY <3>2, <3>3, <3>4, <3>5, <3>6, <3>7
  <2>3. Saving' = Saving
    BY <2>1, <2>2 DEF Saving, At
  <2>4. ASSUME NEW e \in Editors PROVE Fresh(e)' /\ SeenByEdit(e)' /\ SaveIsKnown(e)'
    <3>1. Fresh(e) /\ SeenByEdit(e) /\ SaveIsKnown(e) /\ AcknowledgedIsStored
      BY DEF LinkInv, LinksKnown
    <3>2. Fresh(e)' /\ SeenByEdit(e)'
      BY <2>1, <2>2, <3>1 DEF Fresh, SeenByEdit
    <3>3. SaveIsKnown(e)'
      BY <2>1, <2>2, <2>3, <3>1 DEF SaveIsKnown, AcknowledgedIsStored
    <3>. QED
      BY <3>2, <3>3
  <2>5. WorkIsTold' /\ AcknowledgedIsStored'
    BY <2>1 DEF WorkIsTold, LinkInv, LinksKnown, AcknowledgedIsStored
  <2>6. OneWriter'
    BY <2>1, <2>2 DEF LinkInv, OneWriter, Writes
  <2>. QED
    BY <2>4, <2>5, <2>6 DEF LinkInv, LinksKnown
<1>3. CASE ReloadServices \/ Crash
  <2>1. UNCHANGED <<disk, told, lost>> /\ work' = disk
    BY <1>3 DEF ReloadServices, Crash
  <2>2. \A e \in Editors : /\ ~Writes(e)' /\ ~(e \in Saving')
                           /\ thread'[e].at = "edit" => e \in closed'
                           /\ Fresh(e)'
    <3>1. CASE ReloadServices
      BY <3>1 DEF ReloadServices, Writes, Saving, At, Fresh, LinkInv, LinksKnown
    <3>2. CASE Crash
      BY <3>2, IdleIs DEF Crash, Writes, Saving, At, Fresh
    <3>. QED
      BY <1>3, <3>1, <3>2
  <2>3. \A e \in Editors : SeenByEdit(e)' /\ SaveIsKnown(e)'
    BY <2>2 DEF SeenByEdit, SaveIsKnown
  <2>4. WorkIsTold' /\ AcknowledgedIsStored'
    BY <2>1 DEF WorkIsTold, LinkInv, LinksKnown, AcknowledgedIsStored
  <2>. QED
    BY <2>2, <2>3, <2>4 DEF LinkInv, LinksKnown, OneWriter
<1>. QED
  BY <1>1, <1>2, <1>3

LEMMA LinkInvNext == TypeInv /\ LinkInv /\ [ConfigNext]_configVars => LinkInv'
<1>1. ASSUME LinkInv, UNCHANGED configVars PROVE LinkInv'
  BY <1>1 DEF configVars, store, memory, history, LinkInv, LinksKnown, OneWriter, Writes, Fresh,
     SeenByEdit, SaveIsKnown, Saving, At, WorkIsTold, AcknowledgedIsStored
<1>. QED
  BY <1>1, EditLinksKeepsLinks, EditSettingsKeepsLinks, OtherStepsKeepLinks DEF ConfigNext

\* What an edit of the cachelinks was told that succeeded is what is committed,
\* for any number of administrators, whatever else the threads of the process,
\* its reloads that do not dump and its crashes do, unless one of the causes that
\* lost names struck this cachelink.
THEOREM AcknowledgedEditsAreStored == ConfigSpec => []AcknowledgedIsStored
<1>1. ConfigInit => TypeInv /\ LinkInv
  BY TypeInvInit, LinkInvInit
<1>2. TypeInv /\ LinkInv /\ [ConfigNext]_configVars => (TypeInv /\ LinkInv)'
  BY TypeInvNext, LinkInvNext
<1>3. LinkInv => AcknowledgedIsStored
  BY DEF LinkInv, LinksKnown
<1>. QED
  BY <1>1, <1>2, <1>3, PTL DEF ConfigSpec

-----------------------------------------------------------------------------
(* The settings: where an update is that nothing has disturbed.            *)

CleanUpdate(e) == Updating(e) /\ thread[e].clean
CleanAlone == \A e, o \in Editors : CleanUpdate(e) /\ Updating(o) => e = o
UncleanMixes == \A e \in Editors : Updating(e) /\ ~thread[e].clean => mixed

\* Of a section that was now at the beginning of the request t: what is under
\* the rows it puts, the rows it puts, and what it has made of the section.
Chosen(rows, N) == [n \in N |-> rows[n]]
Under(t, s, now) == IF t.from = "update" /\ s \notin Single THEN NoRows ELSE now[s]
ToPut(t, s, now) == IF t.stage[s] = "read" THEN Keep(now[s], t.ask[s]) ELSE t.ask[s]
DoneSoFar(t, s, now) ==
    IF t.stage[s] = "put" THEN Merged(Chosen(t.ask[s], t.put[s]), Under(t, s, now)) ELSE now[s]

SectionOnCourse(t, s, table, now) ==
    /\ t.stage[s] = "read" => s \in Keeping
    /\ t.stage[s] # "put" => t.put[s] = {} /\ t.from = "update" /\ s \notin Single
    /\ t.aim[s] = Merged(ToPut(t, s, now), Under(t, s, now))
    /\ table = DoneSoFar(t, s, now)

OnCourse(t, ts, now) ==
    /\ \A s \in Parts \ DOMAIN t.ask : t.aim[s] = now[s] /\ ts[s] = now[s]
    /\ \A s \in DOMAIN t.ask : SectionOnCourse(t, s, ts[s], now)

\* An import that has not found a valid row has changed nothing.
NothingYet(e) ==
    thread[e].from = "restore" /\ ~thread[e].found =>
        /\ \A s \in DOMAIN thread[e].ask : thread[e].put[s] = {}
        /\ work.tables = asked /\ disk.tables = asked /\ loaded = asked

\* What it has written is committed when it says so.
Settled(e) ==
    /\ (At(e, "restore") /\ thread[e].found) \/ At(e, "load") => work.tables = disk.tables
    /\ At(e, "load") => AllComplete(e)
    /\ At(e, "stored") => thread[e].found

Steady(e) ==
    /\ ~mixed => OnCourse(thread[e], work.tables, asked) /\ NothingYet(e)
    /\ Settled(e)

AllAsAsked ==
    ~mixed /\ ~InUpdate => work.tables = asked /\ disk.tables = asked /\ loaded = asked

TablesInv ==
    /\ CleanAlone /\ UncleanMixes
    /\ \A e \in Editors : CleanUpdate(e) => Steady(e)
    /\ AllAsAsked

LEMMA ChosenIs ==
    ASSUME NEW f, IsTable(f), NEW g, IsTable(g)
    PROVE  /\ Merged(Chosen(f, {}), g) = g
           /\ Merged(g, NoRows) = g
           /\ Chosen(f, DOMAIN f) = f
           /\ \A N \in SUBSET DOMAIN f : IsTable(Chosen(f, N)) /\ DOMAIN Chosen(f, N) = N
<1>1. g = [n \in DOMAIN g |-> g[n]] /\ f = [n \in DOMAIN f |-> f[n]]
  BY DEF IsTable
<1>2. Merged(Chosen(f, {}), g) = g
  BY <1>1 DEF Merged, Chosen
<1>3. Merged(g, NoRows) = g
  BY <1>1 DEF Merged, NoRows
<1>4. Chosen(f, DOMAIN f) = f
  BY <1>1 DEF Chosen
<1>5. \A N \in SUBSET DOMAIN f : IsTable(Chosen(f, N)) /\ DOMAIN Chosen(f, N) = N
  BY DEF IsTable, Chosen
<1>. QED
  BY <1>2, <1>3, <1>4, <1>5

LEMMA AddedRow ==
    ASSUME NEW f, IsTable(f), NEW g, IsTable(g), NEW N, N \subseteq DOMAIN f, NEW n \in DOMAIN f
    PROVE  Merged([m \in {n} |-> f[m]], Merged(Chosen(f, N), g)) = Merged(Chosen(f, N \cup {n}), g)
<1>. DEFINE row == [m \in {n} |-> f[m]]
            h == Merged(Chosen(f, N), g)
            k == Merged(Chosen(f, N \cup {n}), g)
<1>1. DOMAIN row = {n} /\ row[n] = f[n]
  OBVIOUS
<1>2. /\ DOMAIN h = N \cup DOMAIN g /\ \A m \in N : h[m] = f[m]
      /\ \A m \in DOMAIN g \ N : h[m] = g[m]
  BY DEF Merged, Chosen
<1>3. /\ DOMAIN k = N \cup {n} \cup DOMAIN g /\ \A m \in N \cup {n} : k[m] = f[m]
      /\ \A m \in DOMAIN g \ (N \cup {n}) : k[m] = g[m]
      /\ k = [m \in DOMAIN k |-> k[m]]
  BY DEF Merged, Chosen
<1>. HIDE DEF row, h, k
<1>4. /\ DOMAIN Merged(row, h) = {n} \cup DOMAIN h
      /\ Merged(row, h) = [m \in DOMAIN Merged(row, h) |-> Merged(row, h)[m]]
      /\ Merged(row, h)[n] = f[n]
      /\ \A m \in DOMAIN h \ {n} : Merged(row, h)[m] = h[m]
  BY <1>1 DEF Merged
<1>5. DOMAIN Merged(row, h) = DOMAIN k
  BY <1>2, <1>3, <1>4
<1>6. \A m \in DOMAIN k : Merged(row, h)[m] = k[m]
  BY <1>2, <1>3, <1>4
<1>7. Merged(row, h) = k
  BY <1>3, <1>4, <1>5, <1>6
<1>. QED
  BY <1>7 DEF row, h, k

\* Tables of sections are equal when the tables of every section are.
LEMMA SameTables ==
    ASSUME NEW f, NEW g, IsTables(f), IsTables(g), DOMAIN f = Parts, DOMAIN g = Parts,
           \A s \in Parts : f[s] = g[s]
    PROVE  f = g
BY DEF IsTables

LEMMA UpdateOnCourse ==
    ASSUME NEW t, NEW ask, NEW now, IsTables(ask), DOMAIN ask \subseteq Parts,
           IsTables(now), DOMAIN now = Parts,
           Asks(t, "update", ask, [s \in DOMAIN ask |-> FirstStage(s)], Result(now, ask))
    PROVE  OnCourse(t, now, now)
<1>1. /\ t.from = "update" /\ t.ask = ask /\ t.aim = Result(now, ask)
      /\ \A s \in DOMAIN ask : t.stage[s] = FirstStage(s) /\ t.put[s] = {}
  <2>1. t.stage = [s \in DOMAIN ask |-> FirstStage(s)] /\ t.put = [s \in DOMAIN ask |-> {}]
    BY DEF Asks, NonePut
  <2>2. t.from = "update" /\ t.ask = ask /\ t.aim = Result(now, ask)
    BY DEF Asks
  <2>. QED
    BY <2>1, <2>2
<1>2. \A s \in Parts \ DOMAIN ask : t.aim[s] = now[s]
  BY <1>1, ResultIs
<1>3. ASSUME NEW s \in DOMAIN ask PROVE SectionOnCourse(t, s, now[s], now)
  <2>1. IsTable(ask[s]) /\ IsTable(now[s])
    BY DEF IsTables
  <2>2. t.aim[s] = IF s \in Single THEN Merged(ask[s], now[s])
                   ELSE IF s \in Keeping THEN Keep(now[s], ask[s]) ELSE ask[s]
    BY <1>1, ResultIs
  <2>3. Merged(Chosen(ask[s], {}), now[s]) = now[s] /\ Merged(ask[s], NoRows) = ask[s]
    BY <2>1, ChosenIs
  <2>4. IsTable(Keep(now[s], ask[s]))
    BY <2>1, KeepIs
  <2>5. Merged(Keep(now[s], ask[s]), NoRows) = Keep(now[s], ask[s])
    BY <2>4, ChosenIs
  <2>6. CASE s \in Single
    BY <1>1, <2>2, <2>3, <2>6 DEF SectionOnCourse, FirstStage, ToPut, Under, DoneSoFar
  <2>7. CASE s \notin Single /\ s \in Keeping
    BY <1>1, <2>2, <2>5, <2>7 DEF SectionOnCourse, FirstStage, ToPut, Under, DoneSoFar
  <2>8. CASE s \notin Single /\ s \notin Keeping
    BY <1>1, <2>2, <2>3, <2>8 DEF SectionOnCourse, FirstStage, ToPut, Under, DoneSoFar
  <2>. QED
    BY <2>6, <2>7, <2>8
<1>. QED
  BY <1>1, <1>2, <1>3 DEF OnCourse

LEMMA RestoreOnCourse ==
    ASSUME NEW t, NEW ask, NEW aim, NEW now, IsTables(ask), DOMAIN ask = Parts,
           IsTables(now), DOMAIN now = Parts, \A s \in Parts : aim[s] = Merged(ask[s], now[s]),
           Asks(t, "restore", ask, [s \in Parts |-> PutAtOnce(s)], aim)
    PROVE  OnCourse(t, now, now)
<1>1. /\ t.from = "restore" /\ t.ask = ask /\ t.aim = aim
      /\ \A s \in Parts : t.stage[s] = "put" /\ t.put[s] = {}
  <2>1. t.stage = [s \in Parts |-> PutAtOnce(s)] /\ t.put = [s \in DOMAIN ask |-> {}]
    BY DEF Asks, NonePut
  <2>2. t.from = "restore" /\ t.ask = ask /\ t.aim = aim
    BY DEF Asks
  <2>. QED
    BY <2>1, <2>2 DEF PutAtOnce
<1>2. ASSUME NEW s \in Parts PROVE SectionOnCourse(t, s, now[s], now)
  <2>1. IsTable(ask[s]) /\ IsTable(now[s])
    BY DEF IsTables
  <2>2. Merged(Chosen(ask[s], {}), now[s]) = now[s]
    BY <2>1, ChosenIs
  <2>. QED
    BY <1>1, <2>2 DEF SectionOnCourse, ToPut, Under, DoneSoFar
<1>. QED
  BY <1>1, <1>2 DEF OnCourse

LEMMA KeptOnCourse ==
    ASSUME NEW t, WellTyped(t), NEW ts, NEW now, OnCourse(t, ts, now),
           NEW s \in DOMAIN t.ask, t.stage[s] = "read"
    PROVE  OnCourse(KeptBy(t, s, ts[s]), ts, now)
<1>. DEFINE u == KeptBy(t, s, ts[s])
<1>1. /\ u.stage = [t.stage EXCEPT ![s] = "wipe"]
      /\ u.ask = [t.ask EXCEPT ![s] = Keep(ts[s], t.ask[s])]
      /\ u.from = t.from /\ u.put = t.put /\ u.aim = t.aim
  BY DEF KeptBy, WellTyped, Shaped, ThreadFields
<1>. HIDE DEF u
<1>2. /\ DOMAIN u.ask = DOMAIN t.ask /\ u.stage[s] = "wipe"
      /\ u.ask[s] = Keep(ts[s], t.ask[s])
      /\ \A r \in DOMAIN t.ask \ {s} : u.stage[r] = t.stage[r] /\ u.ask[r] = t.ask[r]
  BY <1>1 DEF WellTyped, IsRequest
<1>3. SectionOnCourse(t, s, ts[s], now)
  BY DEF OnCourse
<1>4. ts[s] = now[s]
  BY <1>3 DEF SectionOnCourse, DoneSoFar
<1>5. SectionOnCourse(u, s, ts[s], now)
  BY <1>1, <1>2, <1>3, <1>4 DEF SectionOnCourse, DoneSoFar, ToPut, Under
<1>6. ASSUME NEW r \in DOMAIN t.ask \ {s} PROVE SectionOnCourse(u, r, ts[r], now)
  <2>1. SectionOnCourse(t, r, ts[r], now)
    BY DEF OnCourse
  <2>. QED
    BY <1>1, <1>2, <2>1 DEF SectionOnCourse, DoneSoFar, ToPut, Under
<1>. QED
  BY <1>1, <1>2, <1>5, <1>6 DEF OnCourse, u

WipedBy(t, s) == [t EXCEPT !.stage[s] = "put"]
Emptied(ts, s) == [ts EXCEPT ![s] = NoRows]

LEMMA WipedOnCourse ==
    ASSUME NEW t, WellTyped(t), NEW ts, DOMAIN ts = Parts, NEW now, OnCourse(t, ts, now),
           NEW s \in DOMAIN t.ask, t.stage[s] = "wipe"
    PROVE  OnCourse(WipedBy(t, s), Emptied(ts, s), now)
<1>. DEFINE u == WipedBy(t, s)
            after == Emptied(ts, s)
<1>1. /\ u.stage = [t.stage EXCEPT ![s] = "put"]
      /\ u.from = t.from /\ u.put = t.put /\ u.aim = t.aim /\ u.ask = t.ask
  BY DEF WipedBy, WellTyped, Shaped, ThreadFields
<1>2. s \in Parts /\ IsTable(t.ask[s])
  BY DEF WellTyped, IsRequest, IsTables
<1>3. after[s] = NoRows /\ \A r \in Parts \ {s} : after[r] = ts[r]
  BY <1>2 DEF Emptied
<1>. HIDE DEF u, after
<1>4. /\ u.stage[s] = "put" /\ \A r \in DOMAIN t.ask \ {s} : u.stage[r] = t.stage[r]
  BY <1>1 DEF WellTyped, IsRequest
<1>5. SectionOnCourse(t, s, ts[s], now)
  BY DEF OnCourse
<1>6. Merged(Chosen(t.ask[s], {}), NoRows) = NoRows
  BY <1>2, NoRowsIs, ChosenIs
<1>7. SectionOnCourse(u, s, after[s], now)
  BY <1>1, <1>3, <1>4, <1>5, <1>6 DEF SectionOnCourse, DoneSoFar, ToPut, Under
<1>8. ASSUME NEW r \in DOMAIN t.ask \ {s} PROVE SectionOnCourse(u, r, after[r], now)
  <2>1. SectionOnCourse(t, r, ts[r], now) /\ r \in Parts
    BY DEF OnCourse, WellTyped, IsRequest
  <2>. QED
    BY <1>1, <1>3, <1>4, <2>1 DEF SectionOnCourse, DoneSoFar, ToPut, Under
<1>. QED
  BY <1>1, <1>3, <1>7, <1>8 DEF OnCourse, u, after

LEMMA StoredOnCourse ==
    ASSUME NEW t, WellTyped(t), NEW ts, DOMAIN ts = Parts, NEW now, OnCourse(t, ts, now),
           IsTables(now), DOMAIN now = Parts,
           NEW s \in DOMAIN t.ask, t.stage[s] = "put", NEW n \in DOMAIN t.ask[s]
    PROVE  OnCourse(StoredBy(t, s, n), RowPut(ts, t, s, n), now)
<1>. DEFINE u == StoredBy(t, s, n)
            table == Merged([m \in {n} |-> t.ask[s][n]], ts[s])
            after == [ts EXCEPT ![s] = table]
<1>1. /\ u.put = [t.put EXCEPT ![s] = t.put[s] \cup {n}]
      /\ u.from = t.from /\ u.stage = t.stage /\ u.aim = t.aim /\ u.ask = t.ask
  BY DEF StoredBy, WellTyped, Shaped, ThreadFields
<1>2. s \in Parts /\ IsTable(t.ask[s]) /\ t.put[s] \subseteq DOMAIN t.ask[s] /\ IsTable(now[s])
  BY DEF WellTyped, IsRequest, IsTables
<1>3. after[s] = table /\ \A r \in Parts \ {s} : after[r] = ts[r]
  BY <1>2
<1>. HIDE DEF u, after
<1>4. u.put[s] = t.put[s] \cup {n} /\ \A r \in DOMAIN t.ask \ {s} : u.put[r] = t.put[r]
  BY <1>1 DEF WellTyped, IsRequest
<1>5. SectionOnCourse(t, s, ts[s], now)
  BY DEF OnCourse
<1>6. IsTable(Under(t, s, now))
  BY <1>2, NoRowsIs DEF Under
<1>7. table = Merged(Chosen(t.ask[s], t.put[s] \cup {n}), Under(t, s, now))
  <2>1. ts[s] = Merged(Chosen(t.ask[s], t.put[s]), Under(t, s, now))
    BY <1>5 DEF SectionOnCourse, DoneSoFar
  <2>2. [m \in {n} |-> t.ask[s][n]] = [m \in {n} |-> t.ask[s][m]]
    OBVIOUS
  <2>. QED
    BY <1>2, <1>6, <2>1, <2>2, AddedRow
<1>. HIDE DEF table
<1>8. SectionOnCourse(u, s, after[s], now)
  BY <1>1, <1>3, <1>4, <1>5, <1>7 DEF SectionOnCourse, DoneSoFar, ToPut, Under
<1>9. ASSUME NEW r \in DOMAIN t.ask \ {s} PROVE SectionOnCourse(u, r, after[r], now)
  <2>1. SectionOnCourse(t, r, ts[r], now) /\ r \in Parts
    BY DEF OnCourse, WellTyped, IsRequest
  <2>. QED
    BY <1>1, <1>3, <1>4, <2>1 DEF SectionOnCourse, DoneSoFar, ToPut, Under
<1>. QED
  BY <1>1, <1>3, <1>8, <1>9 DEF OnCourse, u, after, table, RowPut

\* At its end an update has made of the tables what it should.
LEMMA CourseEnds ==
    ASSUME NEW t, WellTyped(t), DOMAIN t.aim = Parts, NEW ts, IsTables(ts), DOMAIN ts = Parts,
           NEW now, OnCourse(t, ts, now),
           \A s \in DOMAIN t.ask : t.stage[s] = "put" /\ t.put[s] = DOMAIN t.ask[s]
    PROVE  ts = t.aim
<1>1. IsTables(t.aim) /\ \A s \in DOMAIN t.ask : IsTable(t.ask[s])
  BY DEF WellTyped, IsRequest, IsTables
<1>2. ASSUME NEW s \in DOMAIN t.ask PROVE ts[s] = t.aim[s]
  <2>1. SectionOnCourse(t, s, ts[s], now)
    BY DEF OnCourse
  <2>2. Chosen(t.ask[s], t.put[s]) = t.ask[s]
    BY <1>1, ChosenIs
  <2>. QED
    BY <2>1, <2>2 DEF SectionOnCourse, DoneSoFar, ToPut
<1>3. \A s \in Parts : ts[s] = t.aim[s]
  BY <1>2 DEF OnCourse
<1>. QED
  BY <1>1, <1>3, SameTables

LEMMA TablesInvInit == ConfigInit => TablesInv
<1>. SUFFICES ASSUME ConfigInit PROVE TablesInv
  OBVIOUS
<1>1. \A e \in Editors : ~Updating(e)
  BY IdleIs DEF ConfigInit, Updating
<1>2. work.tables = FirstTables /\ disk.tables = FirstTables /\ loaded = FirstTables /\ asked = FirstTables
  BY DEF ConfigInit
<1>. QED
  BY <1>1, <1>2 DEF TablesInv, CleanAlone, CleanUpdate, UncleanMixes, AllAsAsked

\* A step after which no update is undisturbed.
LEMMA Disturbs ==
    ASSUME mixed', \A e \in Editors : ~CleanUpdate(e)'
    PROVE  TablesInv'
BY DEF TablesInv, CleanAlone, UncleanMixes, AllAsAsked

\* A step that leaves the updates alone, or commits or loads what there is.
LEMMA QuietForTables ==
    ASSUME TablesInv,
           \A o \in Editors : Updating(o)' <=> Updating(o),
           \A o \in Editors : Updating(o) => thread'[o] = thread[o],
           work'.tables = work.tables, disk'.tables \in {disk.tables, work.tables},
           loaded' \in {loaded, work.tables}, asked' = asked, mixed' <=> mixed
    PROVE  TablesInv'
<1>1. \A o \in Editors : CleanUpdate(o)' <=> CleanUpdate(o)
  BY DEF CleanUpdate
<1>2. InUpdate' <=> InUpdate
  BY DEF InUpdate
<1>3. CleanAlone' /\ UncleanMixes'
  BY <1>1 DEF TablesInv, CleanAlone, UncleanMixes
<1>4. ASSUME NEW o \in Editors, CleanUpdate(o) PROVE Steady(o)'
  <2>1. Steady(o) /\ thread'[o] = thread[o]
    BY <1>4 DEF TablesInv, CleanUpdate
  <2>2. (~mixed => OnCourse(thread[o], work.tables, asked))'
    BY <2>1 DEF Steady
  <2>3. (~mixed => NothingYet(o))'
    BY <2>1 DEF Steady, NothingYet
  <2>4. Settled(o)'
    BY <2>1 DEF Steady, Settled, At, AllComplete, Complete
  <2>. QED
    BY <2>2, <2>3, <2>4 DEF Steady
<1>5. AllAsAsked'
  BY <1>2 DEF TablesInv, AllAsAsked
<1>. QED
  BY <1>1, <1>3, <1>4, <1>5 DEF TablesInv

\* A step of an update that goes on.
LEMMA UpdateGoesOn ==
    ASSUME TablesInv, NEW e \in Editors, Updating(e), Updating(e)',
           \A o \in Editors \ {e} : thread'[o] = thread[o], closed' = closed,
           thread'[e].clean => thread[e].clean /\ Steady(e)',
           thread'[e].clean \/ mixed', mixed => mixed'
    PROVE  TablesInv'
<1>1. \A o \in Editors \ {e} : ~CleanUpdate(o) /\ (Updating(o)' <=> Updating(o))
  BY DEF TablesInv, CleanAlone, Updating
<1>2. \A o \in Editors \ {e} : ~CleanUpdate(o)'
  BY <1>1 DEF CleanUpdate
<1>3. CleanAlone'
  <2>. SUFFICES ASSUME NEW o \in Editors, CleanUpdate(e)', Updating(o)' PROVE o = e
    BY <1>2 DEF CleanAlone
  <2>1. CleanUpdate(e)
    BY DEF CleanUpdate
  <2>. QED
    BY <1>1, <2>1 DEF TablesInv, CleanAlone
<1>4. UncleanMixes'
  BY <1>1 DEF TablesInv, UncleanMixes
<1>5. CleanUpdate(e)' => Steady(e)'
  BY DEF CleanUpdate
<1>6. AllAsAsked'
  BY DEF AllAsAsked, InUpdate
<1>. QED
  BY <1>2, <1>3, <1>4, <1>5, <1>6 DEF TablesInv

\* No other update is clean while there is this one.
LEMMA OthersUnclean ==
    ASSUME TablesInv, NEW e \in Editors, Updating(e)
    PROVE  \A o \in Editors \ {e} : ~CleanUpdate(o)
BY DEF TablesInv, CleanAlone

\* An update that ends or breaks off leaves none undisturbed.
LEMMA UpdateBreaksOff ==
    ASSUME TypeInv, TablesInv, NEW e \in Editors, Updating(e), mixed', Become(e, Idle),
           closed' = closed \ {e}
    PROVE  TablesInv'
<1>1. thread'[e] = Idle /\ Idle.at = "idle" /\ \A o \in Editors \ {e} : thread'[o] = thread[o]
  BY BecomeIs, IdleIs DEF TypeInv, ThreadsTyped
<1>2. ASSUME NEW o \in Editors PROVE ~CleanUpdate(o)'
  <2>1. CASE o = e
    BY <1>1, <2>1 DEF CleanUpdate, Updating
  <2>2. CASE o # e
    <3>1. ~CleanUpdate(o)
      BY <2>2, OthersUnclean
    <3>. QED
      BY <1>1, <2>2, <3>1 DEF CleanUpdate, Updating
  <2>. QED
    BY <2>1, <2>2
<1>. QED
  BY <1>2, Disturbs

\* A request begins to update.
LEMMA UpdateBeginsSteadily ==
    ASSUME TypeInv, TablesInv, NEW e \in Editors, thread[e].at = "idle",
           thread'[e].at \in {"update", "restore"}, thread'[e].clean = ~InUpdate,
           thread'[e].from = thread'[e].at, thread'[e].found = FALSE,
           thread'[e].at = "restore" => \A s \in DOMAIN thread'[e].ask : thread'[e].put[s] = {},
           \A o \in Editors \ {e} : thread'[o] = Disturbed[o],
           thread'[e].at = "restore" => loaded' = loaded,
           OnCourse(thread'[e], asked, asked), mixed' = (mixed \/ InUpdate),
           UNCHANGED <<disk, work, asked, closed>>
    PROVE  TablesInv'
<1>1. ASSUME NEW o \in Editors \ {e}
      PROVE  (Updating(o)' <=> Updating(o)) /\ ~CleanUpdate(o)'
  <2>1. "at" \in ThreadFields \ {"clean"}
    BY DEF ThreadFields
  <2>2. Disturbed[o]["at"] = thread[o]["at"] /\ (Updating(o) => Disturbed[o].clean = FALSE)
    BY <2>1, DisturbedAre
  <2>3. Updating(o)' <=> Updating(o)
    BY <2>2 DEF Updating
  <2>. QED
    BY <2>2, <2>3 DEF CleanUpdate
<1>2. Updating(e)'
  BY DEF Updating, TypeInv, ThreadsTyped, At
<1>3. CASE InUpdate
  <2>1. ~CleanUpdate(e)' /\ mixed'
    BY <1>3 DEF CleanUpdate
  <2>. QED
    BY <1>1, <2>1, Disturbs
<1>4. CASE ~InUpdate
  <2>1. (mixed' <=> mixed) /\ thread'[e].clean /\ \A o \in Editors \ {e} : ~Updating(o)'
    BY <1>1, <1>4 DEF InUpdate
  <2>2. CleanAlone' /\ UncleanMixes'
    BY <2>1 DEF CleanAlone, UncleanMixes, CleanUpdate
  <2>3. ~mixed => work.tables = asked /\ disk.tables = asked /\ loaded = asked
    BY <1>4 DEF TablesInv, AllAsAsked
  <2>4. Steady(e)'
    <3>1. (~mixed => OnCourse(thread[e], work.tables, asked))'
      BY <2>1, <2>3
    <3>2. (~mixed => NothingYet(e))'
      BY <2>1, <2>3 DEF NothingYet
    <3>3. Settled(e)'
      BY DEF Settled, At
    <3>. QED
      BY <3>1, <3>2, <3>3 DEF Steady
  <2>5. AllAsAsked'
    BY <1>2 DEF AllAsAsked, InUpdate
  <2>. QED
    BY <2>1, <2>2, <2>4, <2>5 DEF TablesInv, CleanUpdate
<1>. QED
  BY <1>3, <1>4

LEMMA EditLinksKeepsTables ==
    ASSUME TypeInv, TablesInv, NEW e \in Editors, EditLinks(e)
    PROVE  TablesInv'
<1>0. /\ DOMAIN thread = Editors /\ WellTyped(thread[e]) /\ DOMAIN work = {"links", "tables"}
      /\ Idle.at = "idle" /\ DOMAIN Idle = ThreadFields /\ DOMAIN thread[e] = ThreadFields
  BY IdleIs DEF TypeInv, ThreadsTyped, DataTyped, StoreTyped, Sound, WellTyped, Shaped
<1>. DEFINE LinksOnly ==
       /\ thread[e].at \in {"idle", "edit", "import", "insert"}
       /\ thread'[e].at \in {"idle", "edit", "import", "insert", "refresh"}
       /\ \A o \in Editors \ {e} : Updating(o) => thread'[o] = thread[o]
       /\ \A o \in Editors \ {e} : thread'[o].at = thread[o].at
       /\ closed' \in {closed, closed \ {e}}
       /\ work'.tables = work.tables /\ disk' \in {disk, work}
       /\ UNCHANGED <<loaded, asked, mixed>>
<1>1. ASSUME NEW q, NEW own, Clear(e, q, own), thread[e].at \in {"edit", "import"} PROVE LinksOnly
  <2>1. UNCHANGED <<disk, loaded, asked, mixed>> /\ closed' \in {closed, closed \ {e}}
    BY <1>1 DEF Clear, history
  <2>2. work'.tables = work.tables
    BY <1>0, <1>1 DEF Clear
  <2>3. /\ thread'[e].at \in {"insert", "idle"}
        /\ \A o \in Editors \ {e} : thread'[o] = thread[o]
    <3>1. CASE Become(e, Idle)
      BY <1>0, <3>1, BecomeIs
    <3>2. CASE Become(e, [thread[e] EXCEPT !.at = "insert", !.todo = q, !.own = own,
                                           !.doc = Range(q)])
      BY <1>0, <3>2 DEF Become, ThreadFields
    <3>. QED
      BY <1>1, <3>1, <3>2 DEF Clear
  <2>. QED
    BY <1>1, <2>1, <2>2, <2>3
<1>2. ASSUME ReadLinks(e) \/ BeginImport(e) PROVE LinksOnly
  <2>1. /\ UNCHANGED <<disk, work, loaded, asked, mixed, closed>> /\ thread[e].at = "idle"
        /\ \/ Become(e, [Idle EXCEPT !.at = "edit", !.doc = work.links])
           \/ Become(e, [Idle EXCEPT !.at = "import"])
    BY <1>2 DEF ReadLinks, BeginImport, Begin, At, store, memory, history
  <2>2. /\ thread'[e].at \in {"edit", "import"}
        /\ \A o \in Editors \ {e} : thread'[o] = thread[o]
    BY <1>0, <2>1 DEF Become, ThreadFields
  <2>. QED
    BY <2>1, <2>2
<1>3. ASSUME Edit(e) PROVE LinksOnly
  <2>1. PICK l \in Links : \E q : Clear(e, q, {l})
    BY <1>3 DEF Edit
  <2>2. thread[e].at = "edit"
    BY <1>3 DEF Edit, At
  <2>. HIDE DEF LinksOnly
  <2>. QED
    BY <1>1, <2>1, <2>2
<1>4. ASSUME Refuse(e) PROVE LinksOnly
  <2>1. UNCHANGED <<disk, work, loaded, asked, mixed>> /\ closed' = closed \ {e} /\ thread[e].at = "edit"
    BY <1>4 DEF Refuse, At, store, history
  <2>2. thread'[e] = Idle /\ \A o \in Editors \ {e} : thread'[o] = thread[o]
    BY <1>0, <1>4, BecomeIs DEF Refuse
  <2>. QED
    BY <1>0, <2>1, <2>2
<1>5. ASSUME ImportLinks(e) PROVE LinksOnly
  <2>1. PICK q : Clear(e, q, Links)
    BY <1>5 DEF ImportLinks
  <2>2. thread[e].at = "import"
    BY <1>5 DEF ImportLinks, At
  <2>. HIDE DEF LinksOnly
  <2>. QED
    BY <1>1, <2>1, <2>2
<1>6. ASSUME Insert(e) PROVE LinksOnly
  <2>1. /\ UNCHANGED <<disk, loaded, asked, mixed>> /\ closed' \in {closed, closed \ {e}}
        /\ thread[e].at = "insert" /\ work'.tables = work.tables
    BY <1>0, <1>6 DEF Insert, At
  <2>2. /\ thread'[e].at \in {"insert", "idle"}
        /\ \A o \in Editors \ {e} : thread'[o] = thread[o]
    <3>1. CASE Become(e, Idle)
      BY <1>0, <3>1, BecomeIs
    <3>2. CASE Become(e, [thread[e] EXCEPT !.todo = Tail(@)])
      BY <1>0, <2>1, <3>2 DEF Become, ThreadFields
    <3>. QED
      BY <1>6, <3>1, <3>2 DEF Insert
  <2>. QED
    BY <2>1, <2>2
<1>7. ASSUME CommitLinks(e) PROVE LinksOnly
  <2>1. /\ UNCHANGED <<work, loaded, asked, mixed>> /\ closed' \in {closed, closed \ {e}}
        /\ thread[e].at = "insert" /\ disk' \in {disk, work}
    BY <1>7 DEF CommitLinks, At, Committed
  <2>2. thread'[e].at \in {"idle", "refresh"}
    <3>1. [Idle EXCEPT !.at = "refresh"].at = "refresh"
      BY BegunIs DEF Places
    <3>. QED
      BY <1>0, <1>7, <3>1 DEF CommitLinks
  <2>3. ASSUME NEW o \in Editors \ {e}
        PROVE  (Updating(o) => thread'[o] = thread[o]) /\ thread'[o].at = thread[o].at
    <3>. DEFINE u == [thread[o] EXCEPT !.missed = @ \cup thread[e].own]
    <3>1. WellTyped(thread[o]) /\ thread[e].own \subseteq Links
      BY DEF TypeInv, ThreadsTyped, Sound, WellTyped, IsRequest
    <3>2. \A f \in ThreadFields \ {"missed"} : u[f] = thread[o][f]
      BY <3>1, MissingIs
    <3>3. thread'[o] = IF thread[o].at = "edit" /\ e \notin closed THEN u ELSE thread[o]
      BY <1>7 DEF CommitLinks, At
    <3>. HIDE DEF u
    <3>4. u.at = thread[o].at
      BY <3>2 DEF ThreadFields
    <3>. QED
      BY <3>3, <3>4 DEF Updating
  <2>. QED
    BY <2>1, <2>2, <2>3
<1>8. LinksOnly
  <2>. HIDE DEF LinksOnly
  <2>. QED
    BY <1>2, <1>3, <1>4, <1>5, <1>6, <1>7 DEF EditLinks
<1>9. \A o \in Editors : Updating(o)' <=> Updating(o)
  BY <1>8 DEF Updating
<1>10. ~Updating(e)
  BY <1>8 DEF Updating
<1>11. \A o \in Editors : Updating(o) => thread'[o] = thread[o]
  BY <1>8, <1>10
<1>12. /\ work'.tables = work.tables /\ disk'.tables \in {disk.tables, work.tables}
       /\ loaded' \in {loaded, work.tables} /\ asked' = asked /\ (mixed' <=> mixed)
  BY <1>8
<1>. QED
  BY <1>9, <1>11, <1>12, QuietForTables

LEMMA OtherStepsKeepTables ==
    ASSUME TypeInv, TablesInv, OtherCommit \/ OtherRollback \/ ReloadServices \/ Crash
    PROVE  TablesInv'
<1>1. CASE OtherCommit
  <2>1. UNCHANGED <<work, thread, closed, loaded, asked, mixed>> /\ disk' = work
    BY <1>1 DEF OtherCommit, memory
  <2>2. \A o \in Editors : Updating(o)' <=> Updating(o)
    BY <2>1 DEF Updating
  <2>. QED
    BY <2>1, <2>2, QuietForTables
<1>2. CASE OtherRollback \/ ReloadServices \/ Crash
  <2>1. /\ UNCHANGED <<disk, asked>> /\ work' = disk /\ (mixed' <=> mixed \/ InUpdate)
        /\ loaded' \in {loaded, disk.tables}
    BY <1>2 DEF OtherRollback, ReloadServices, Crash, memory, Mixing
  <2>2. \A o \in Editors : ~CleanUpdate(o)' /\ (Updating(o)' => Updating(o))
    <3>1. CASE OtherRollback
      <4>. TAKE o \in Editors
      <4>. DEFINE u == [thread[o] EXCEPT !.clean = FALSE]
      <4>1. WellTyped(thread[o]) /\ "at" \in ThreadFields \ {"clean"}
        BY DEF TypeInv, ThreadsTyped, Sound, ThreadFields
      <4>2. u.clean = FALSE /\ u["at"] = thread[o]["at"]
        BY <4>1, DisturbedIs
      <4>3. thread'[o] = (IF o \in Saving THEN u ELSE Disturbed[o]) /\ closed' = closed
        BY <3>1 DEF OtherRollback, memory
      <4>. HIDE DEF u
      <4>4. Disturbed[o]["at"] = thread[o]["at"] /\ (Updating(o) => Disturbed[o].clean = FALSE)
        BY <4>1, DisturbedAre
      <4>. QED
        BY <4>2, <4>3, <4>4 DEF CleanUpdate, Updating
    <3>2. CASE ReloadServices
      BY <3>2 DEF ReloadServices, CleanUpdate, Updating, At
    <3>3. CASE Crash
      BY <3>3, IdleIs DEF Crash, CleanUpdate, Updating
    <3>. QED
      BY <1>2, <3>1, <3>2, <3>3
  <2>3. CASE mixed \/ InUpdate
    BY <2>1, <2>2, <2>3, Disturbs
  <2>4. CASE ~(mixed \/ InUpdate)
    <3>1. \A o \in Editors : ~Updating(o)'
      BY <2>2, <2>4 DEF InUpdate
    <3>2. AllAsAsked'
      BY <2>1, <2>4 DEF AllAsAsked, TablesInv
    <3>. QED
      BY <3>1, <3>2 DEF TablesInv, CleanAlone, CleanUpdate, UncleanMixes
  <2>. QED
    BY <2>3, <2>4
<1>. QED
  BY <1>1, <1>2

\* A step of a request that is not an update, or whose connection is closed.
LEMMA OtherRequests ==
    ASSUME TablesInv, NEW e \in Editors, ~Updating(e), ~Updating(e)',
           \A o \in Editors \ {e} : thread'[o] = thread[o], closed' \in {closed, closed \ {e}},
           work'.tables = work.tables, disk'.tables \in {disk.tables, work.tables},
           loaded' \in {loaded, work.tables}, asked' = asked, mixed' <=> mixed
    PROVE  TablesInv'
<1>1. \A o \in Editors : Updating(o)' <=> Updating(o)
  BY DEF Updating
<1>. QED
  BY <1>1, QuietForTables

\* Only these fields say where an update is.
LEMMA SameCourse ==
    ASSUME NEW t, NEW u, NEW ts, NEW now, OnCourse(t, ts, now),
           \A f \in {"from", "ask", "stage", "put", "aim"} : u[f] = t[f]
    PROVE  OnCourse(u, ts, now)
<1>1. u.from = t.from /\ u.ask = t.ask /\ u.stage = t.stage /\ u.put = t.put /\ u.aim = t.aim
  OBVIOUS
<1>. QED
  BY <1>1 DEF OnCourse, SectionOnCourse, ToPut, Under, DoneSoFar

LEMMA StoresKeepsTables ==
    ASSUME TypeInv, TablesInv, NEW e \in Editors, Updating(e), thread[e].at \in {"update", "restore"},
           NEW s \in DOMAIN thread[e].ask, NEW n \in DOMAIN thread[e].ask[s],
           thread[e].stage[s] = "put" \/ thread[e].at = "restore",
           Stores(e, s, n), UNCHANGED <<disk, loaded, asked, mixed, closed>>
    PROVE  TablesInv'
<1>. DEFINE u == StoredBy(thread[e], s, n)
<1>1. WellTyped(thread[e]) /\ Course(thread[e]) /\ DOMAIN thread = Editors
  BY DEF TypeInv, ThreadsTyped, Sound
<1>2. u.at = "stored" /\ u.found = TRUE /\ u.clean = thread[e].clean
  BY <1>1 DEF StoredBy, WellTyped, Shaped, ThreadFields
<1>3. Become(e, u)
  BY DEF Stores, StoredBy
<1>4. thread'[e] = u /\ \A o \in Editors \ {e} : thread'[o] = thread[o]
  BY <1>1, <1>3, BecomeIs
<1>5. work'.tables = RowPut(work.tables, thread[e], s, n)
  BY StoresKeepsTypes
<1>6. ASSUME OnCourse(thread[e], work.tables, asked) PROVE OnCourse(u, work'.tables, asked)
  <2>1. SectionOnCourse(thread[e], s, work.tables[s], asked)
    BY <1>6 DEF OnCourse
  <2>2. thread[e].stage[s] = "put"
    BY <1>1, <2>1 DEF SectionOnCourse, Course
  <2>3. DOMAIN work.tables = Parts /\ IsTables(asked) /\ DOMAIN asked = Parts
    BY DEF TypeInv, DataTyped, StoreTyped
  <2>. QED
    BY <1>1, <1>5, <1>6, <2>2, <2>3, StoredOnCourse
<1>. HIDE DEF u
<1>7. Updating(e)'
  BY <1>2, <1>4 DEF Updating
<1>8. ASSUME u.clean PROVE Steady(e)'
  <2>1. Steady(e)
    BY <1>2, <1>8 DEF TablesInv, CleanUpdate
  <2>2. (~mixed => OnCourse(thread[e], work.tables, asked))'
    BY <1>4, <1>6, <2>1 DEF Steady
  <2>3. NothingYet(e)' /\ Settled(e)'
    BY <1>2, <1>4 DEF NothingYet, Settled, At
  <2>. QED
    BY <2>2, <2>3 DEF Steady
<1>9. thread'[e].clean \/ mixed'
  BY <1>2, <1>4 DEF TablesInv, UncleanMixes
<1>. QED
  BY <1>2, <1>4, <1>7, <1>8, <1>9, UpdateGoesOn

LEMMA BeginsKeepTables ==
    ASSUME TypeInv, TablesInv, NEW e \in Editors,
           ImportBackup(e) \/ UpdateSettings(e) \/ MutateShare(e)
    PROVE  TablesInv'
<1>1. IsTables(asked) /\ DOMAIN asked = Parts
  BY DEF TypeInv, DataTyped
<1>2. CASE ImportBackup(e)
  <2>. DEFINE ask == [s \in Parts |-> Accepted(s)]
              stage == [s \in Parts |-> PutAtOnce(s)]
              aim == [s \in Parts |-> Merged(ask[s], asked[s])]
  <2>1. /\ IsTables(ask) /\ DOMAIN ask = Parts /\ IsTables(aim) /\ DOMAIN aim = Parts
        /\ \A s \in Parts : aim[s] = Merged(ask[s], asked[s])
    BY AcceptedIs
  <2>2. stage \in [DOMAIN ask -> {"read", "wipe", "put"}]
    BY DEF PutAtOnce
  <2>3. BeginUpdate(e, "restore", ask, stage, aim) /\ UNCHANGED <<disk, work, loaded, asked, closed>>
    BY <1>2 DEF ImportBackup, memory, store
  <2>4. Asks(thread'[e], "restore", ask, stage, aim) => OnCourse(thread'[e], asked, asked)
    BY <1>1, <2>1, RestoreOnCourse
  <2>. HIDE DEF ask, stage, aim
  <2>5. /\ thread[e].at = "idle" /\ Asks(thread'[e], "restore", ask, stage, aim)
        /\ thread'[e].clean = ~InUpdate
        /\ \A o \in Editors \ {e} : thread'[o] = Disturbed[o]
    BY <2>1, <2>2, <2>3, UpdateBegins
  <2>6. /\ thread'[e].at = "restore" /\ thread'[e].from = "restore" /\ thread'[e].found = FALSE
        /\ thread'[e].put = NonePut(ask) /\ thread'[e].ask = ask
    BY <2>5 DEF Asks
  <2>7. \A s \in DOMAIN thread'[e].ask : thread'[e].put[s] = {}
    BY <2>6 DEF NonePut
  <2>8. mixed' = (mixed \/ InUpdate)
    BY <2>3 DEF BeginUpdate, Mixing
  <2>. QED
    BY <2>3, <2>4, <2>5, <2>6, <2>7, <2>8, UpdateBeginsSteadily
<1>3. ASSUME NEW ask, IsTables(ask), DOMAIN ask \subseteq Parts, Ask(e, ask),
             UNCHANGED <<disk, work, asked, closed>>
      PROVE  TablesInv'
  <2>. DEFINE stage == [s \in DOMAIN ask |-> FirstStage(s)]
              aim == Result(asked, ask)
  <2>1. Asks(thread'[e], "update", ask, stage, aim) => OnCourse(thread'[e], asked, asked)
    BY <1>1, <1>3, UpdateOnCourse
  <2>. HIDE DEF stage, aim
  <2>2. /\ thread[e].at = "idle" /\ Asks(thread'[e], "update", ask, stage, aim)
        /\ thread'[e].clean = ~InUpdate
        /\ \A o \in Editors \ {e} : thread'[o] = Disturbed[o]
    BY <1>3, AskBegins DEF stage, aim
  <2>3. thread'[e].at = "update" /\ thread'[e].from = "update" /\ thread'[e].found = FALSE
    BY <2>2 DEF Asks
  <2>4. mixed' = (mixed \/ InUpdate)
    BY <1>3 DEF Ask, BeginUpdate, Mixing
  <2>. QED
    BY <1>3, <2>1, <2>2, <2>3, <2>4, UpdateBeginsSteadily
<1>4. CASE UpdateSettings(e)
  <2>1. PICK payload \in Payloads : Ask(e, [s \in DOMAIN payload |-> Rows(payload[s])])
    BY <1>4 DEF UpdateSettings
  <2>. DEFINE ask == [s \in DOMAIN payload |-> Rows(payload[s])]
  <2>2. IsTables(ask) /\ DOMAIN ask \subseteq Parts
    BY PayloadIs
  <2>3. Ask(e, ask) /\ UNCHANGED <<disk, work, asked, closed>>
    BY <1>4, <2>1 DEF UpdateSettings, memory, store
  <2>. HIDE DEF ask
  <2>. QED
    BY <1>3, <2>2, <2>3
<1>5. CASE MutateShare(e)
  <2>. DEFINE ask == [s \in {"shares"} |-> Keep(NoRows, loaded["shares"])]
  <2>1. "shares" \in Parts /\ Ask(e, ask) /\ UNCHANGED <<disk, work, asked, closed>>
    BY <1>5 DEF MutateShare, store
  <2>2. IsTables(ask) /\ DOMAIN ask \subseteq Parts
    BY <2>1, SharesIs
  <2>. HIDE DEF ask
  <2>. QED
    BY <1>3, <2>1, <2>2
<1>. QED
  BY <1>2, <1>4, <1>5

\* An update that reads, wipes or commits goes on.
LEMMA UpdateStepsKeepTables ==
    ASSUME TypeInv, TablesInv, NEW e \in Editors,
           ReadKept(e) \/ Wipe(e) \/ Put(e) \/ CommitRow(e) \/ CommitUpdate(e)
    PROVE  TablesInv'
<1>0. /\ WellTyped(thread[e]) /\ Course(thread[e]) /\ DOMAIN thread = Editors
      /\ DOMAIN work.tables = Parts /\ DOMAIN work = {"links", "tables"}
  BY DEF TypeInv, ThreadsTyped, DataTyped, StoreTyped, Sound
<1>1. CleanUpdate(e) => Steady(e)
  BY DEF TablesInv
<1>2. Updating(e) => thread[e].clean \/ mixed
  BY DEF TablesInv, UncleanMixes
<1>3. CASE ReadKept(e)
  <2>1. PICK s \in Parts :
          /\ Current(e, s) /\ thread[e].stage[s] = "read"
          /\ Become(e, [thread[e] EXCEPT !.stage[s] = "wipe",
                            !.ask[s] = Keep(work.tables[s], thread[e].ask[s])])
    BY <1>3 DEF ReadKept
  <2>. DEFINE u == KeptBy(thread[e], s, work.tables[s])
  <2>2. s \in DOMAIN thread[e].ask
    BY <2>1 DEF Current
  <2>3. u.at = thread[e].at /\ u.from = thread[e].from /\ u.clean = thread[e].clean
    BY <1>0 DEF KeptBy, WellTyped, Shaped, ThreadFields
  <2>4. OnCourse(thread[e], work.tables, asked) => OnCourse(u, work.tables, asked)
    BY <1>0, <2>1, <2>2, KeptOnCourse
  <2>5. Become(e, u)
    BY <2>1 DEF KeptBy
  <2>. HIDE DEF u
  <2>6. /\ thread[e].at = "update" /\ thread[e].from = "update" /\ Updating(e)
        /\ UNCHANGED <<disk, work, loaded, asked, mixed, closed>>
    BY <1>0, <1>3 DEF ReadKept, Course, At, Works, Updating, store, memory, history
  <2>7. thread'[e] = u /\ \A o \in Editors \ {e} : thread'[o] = thread[o]
    BY <1>0, <2>5, BecomeIs
  <2>8. Updating(e)'
    BY <2>3, <2>6, <2>7 DEF Updating
  <2>9. thread'[e].clean => thread[e].clean /\ Steady(e)'
    BY <1>1, <2>3, <2>4, <2>6, <2>7 DEF Steady, NothingYet, Settled, At, CleanUpdate
  <2>. QED
    BY <1>2, <2>3, <2>6, <2>7, <2>8, <2>9, UpdateGoesOn
<1>4. CASE Wipe(e)
  <2>1. PICK s \in Parts :
          /\ Current(e, s) /\ thread[e].stage[s] = "wipe"
          /\ work' = [work EXCEPT !.tables[s] = NoRows]
          /\ Become(e, [thread[e] EXCEPT !.stage[s] = "put"])
    BY <1>4 DEF Wipe
  <2>. DEFINE u == WipedBy(thread[e], s)
  <2>2. s \in DOMAIN thread[e].ask
    BY <2>1 DEF Current
  <2>3. u.at = thread[e].at /\ u.from = thread[e].from /\ u.clean = thread[e].clean
    BY <1>0 DEF WipedBy, WellTyped, Shaped, ThreadFields
  <2>4. work'.tables = Emptied(work.tables, s)
    BY <1>0, <2>1 DEF Emptied
  <2>5. OnCourse(thread[e], work.tables, asked) => OnCourse(u, work'.tables, asked)
    BY <1>0, <2>1, <2>2, <2>4, WipedOnCourse
  <2>6. Become(e, u)
    BY <2>1 DEF WipedBy
  <2>. HIDE DEF u
  <2>7. /\ thread[e].at = "update" /\ thread[e].from = "update" /\ Updating(e)
        /\ UNCHANGED <<disk, loaded, asked, mixed, closed>>
    BY <1>0, <1>4 DEF Wipe, Course, At, Works, Updating, memory, history
  <2>8. thread'[e] = u /\ \A o \in Editors \ {e} : thread'[o] = thread[o]
    BY <1>0, <2>6, BecomeIs
  <2>9. Updating(e)'
    BY <2>3, <2>7, <2>8 DEF Updating
  <2>10. thread'[e].clean => thread[e].clean /\ Steady(e)'
    BY <1>1, <2>3, <2>5, <2>7, <2>8 DEF Steady, NothingYet, Settled, At, CleanUpdate
  <2>. QED
    BY <1>2, <2>3, <2>7, <2>8, <2>9, <2>10, UpdateGoesOn
<1>5. CASE Put(e)
  <2>1. PICK s \in Parts : /\ Current(e, s) /\ thread[e].stage[s] = "put"
                           /\ \E n \in DOMAIN thread[e].ask[s] \ thread[e].put[s] : Stores(e, s, n)
    BY <1>5 DEF Put
  <2>2. PICK n \in DOMAIN thread[e].ask[s] \ thread[e].put[s] : Stores(e, s, n)
    BY <2>1
  <2>3. /\ s \in DOMAIN thread[e].ask /\ thread[e].at = "update" /\ Updating(e)
        /\ UNCHANGED <<disk, loaded, asked, mixed, closed>>
    BY <1>5, <2>1 DEF Current, Put, Works, Updating, memory, history, At
  <2>. QED
    BY <2>1, <2>2, <2>3, StoresKeepsTables
<1>6. CASE CommitRow(e) \/ CommitUpdate(e)
  <2>1. /\ UNCHANGED <<work, loaded, asked, mixed, closed>> /\ disk' = Committed(e)
        /\ thread[e].at \in {"stored", "update"}
    BY <1>6 DEF CommitRow, CommitUpdate, At, memory, history
  <2>2. PICK q \in {"update", "restore", "load"} :
          /\ Goto(e, q)
          /\ thread[e].at = "stored" => q = thread[e].from
          /\ thread[e].at = "update" => q = "load" /\ AllComplete(e)
    BY <1>0, <1>6 DEF CommitRow, CommitUpdate, At, Course
  <2>3. /\ thread'[e].at = q /\ \A f \in ThreadFields \ {"at"} : thread'[e][f] = thread[e][f]
        /\ \A o \in Editors \ {e} : thread'[o] = thread[o]
    BY <2>2, GotoIs DEF Places
  <2>4. /\ thread'[e].clean = thread[e].clean /\ thread'[e].found = thread[e].found
        /\ thread'[e].from = thread[e].from /\ thread'[e].ask = thread[e].ask
        /\ thread'[e].stage = thread[e].stage /\ thread'[e].put = thread[e].put
        /\ \A f \in {"from", "ask", "stage", "put", "aim"} : thread'[e][f] = thread[e][f]
    <3>1. {"clean", "found", "from", "ask", "stage", "put", "aim"} \subseteq ThreadFields \ {"at"}
      BY DEF ThreadFields
    <3>. QED
      BY <2>3, <3>1
  <2>5. CASE e \in closed
    <3>1. ~Updating(e) /\ ~Updating(e)' /\ disk' = disk
      BY <2>1, <2>5 DEF Updating, Committed
    <3>. QED
      BY <2>1, <2>3, <3>1, OtherRequests
  <2>6. CASE e \notin closed
    <3>1. Updating(e) /\ Updating(e)' /\ disk' = work
      BY <2>1, <2>3, <2>6 DEF Updating, Committed
    <3>2. ASSUME thread[e].clean PROVE Steady(e)'
      <4>1. Steady(e)
        BY <1>1, <3>1, <3>2 DEF CleanUpdate
      <4>2. (~mixed => OnCourse(thread[e], work.tables, asked))'
        BY <2>1, <2>4, <4>1, SameCourse DEF Steady
      <4>3. thread[e].from = "restore" => thread[e].found
        BY <1>0, <2>1, <4>1 DEF Steady, Settled, At, Course
      <4>4. NothingYet(e)'
        BY <2>4, <4>3 DEF NothingYet
      <4>5. Settled(e)'
        <5>1. thread[e].at = "stored" => q # "load"
          BY <1>0, <2>2 DEF Course
        <5>2. q = "load" => AllComplete(e)'
          BY <2>1, <2>2, <2>4, <5>1 DEF AllComplete, Complete
        <5>. QED
          BY <2>1, <2>3, <3>1, <5>2 DEF Settled, At
      <4>. QED
        BY <4>2, <4>4, <4>5 DEF Steady
    <3>. QED
      BY <1>2, <2>1, <2>3, <2>4, <3>1, <3>2, UpdateGoesOn
  <2>. QED
    BY <2>5, <2>6
<1>. QED
  BY <1>3, <1>4, <1>5, <1>6

LEMMA RestoreStepsKeepTables ==
    ASSUME TypeInv, TablesInv, NEW e \in Editors, RestoreRow(e) \/ RestoreEnds(e)
    PROVE  TablesInv'
<1>0. /\ WellTyped(thread[e]) /\ Course(thread[e]) /\ DOMAIN thread = Editors
      /\ Idle.at = "idle"
  BY IdleIs DEF TypeInv, ThreadsTyped, Sound
<1>1. CleanUpdate(e) => Steady(e)
  BY DEF TablesInv
<1>2. Updating(e) => thread[e].clean \/ mixed
  BY DEF TablesInv, UncleanMixes
<1>3. CASE RestoreRow(e)
  <2>1. PICK s \in Parts : /\ Current(e, s)
                           /\ \E n \in DOMAIN thread[e].ask[s] \ thread[e].put[s] :
                                \/ Works(e) /\ Stores(e, s, n) /\ UNCHANGED mixed
                                \/ /\ UNCHANGED work
                                   /\ Become(e, [thread[e] EXCEPT
                                         !.put[s] = thread[e].put[s] \cup {n}, !.clean = FALSE])
                                   /\ mixed' = (mixed \/ Updating(e))
    BY <1>3 DEF RestoreRow
  <2>2. PICK n \in DOMAIN thread[e].ask[s] \ thread[e].put[s] :
                                \/ Works(e) /\ Stores(e, s, n) /\ UNCHANGED mixed
                                \/ /\ UNCHANGED work
                                   /\ Become(e, [thread[e] EXCEPT
                                         !.put[s] = thread[e].put[s] \cup {n}, !.clean = FALSE])
                                   /\ mixed' = (mixed \/ Updating(e))
    BY <2>1
  <2>3. /\ s \in DOMAIN thread[e].ask /\ thread[e].at = "restore"
        /\ n \in DOMAIN thread[e].ask[s]
        /\ UNCHANGED <<disk, loaded, asked, closed>>
    BY <1>3, <2>1, <2>2 DEF Current, RestoreRow, memory, At
  <2>4. CASE Works(e) /\ Stores(e, s, n) /\ UNCHANGED mixed
    <3>1. Updating(e)
      BY <2>3, <2>4 DEF Works, Updating
    <3>. QED
      BY <2>3, <2>4, <3>1, StoresKeepsTables
  <2>5. CASE /\ UNCHANGED work
             /\ Become(e, [thread[e] EXCEPT !.put[s] = thread[e].put[s] \cup {n}, !.clean = FALSE])
             /\ mixed' = (mixed \/ Updating(e))
    <3>. DEFINE v == PassedBy(thread[e], s, n)
    <3>1. v.at = thread[e].at /\ v.clean = FALSE
      BY <1>0 DEF PassedBy, WellTyped, Shaped, ThreadFields
    <3>2. Become(e, v)
      BY <2>5 DEF PassedBy
    <3>. HIDE DEF v
    <3>3. thread'[e] = v /\ \A o \in Editors \ {e} : thread'[o] = thread[o]
      BY <1>0, <3>2, BecomeIs
    <3>4. Updating(e)' <=> Updating(e)
      BY <2>3, <3>1, <3>3 DEF Updating
    <3>5. CASE Updating(e)
      <4>1. mixed' /\ ~thread'[e].clean
        BY <2>5, <3>1, <3>3, <3>5
      <4>. QED
        BY <2>3, <3>3, <3>4, <3>5, <4>1, UpdateGoesOn
    <3>6. CASE ~Updating(e)
      <4>1. mixed' <=> mixed
        BY <2>5, <3>6
      <4>. QED
        BY <2>3, <2>5, <3>3, <3>4, <3>6, <4>1, OtherRequests
    <3>. QED
      BY <3>5, <3>6
  <2>. QED
    BY <2>2, <2>4, <2>5
<1>4. CASE RestoreEnds(e)
  <2>1. /\ thread[e].at = "restore" /\ AllComplete(e)
        /\ UNCHANGED <<disk, work, loaded, asked, mixed>>
    BY <1>4 DEF RestoreEnds, At, store, history
  <2>2. thread[e].from = "restore"
    BY <1>0, <2>1 DEF Course
  <2>3. CASE thread[e].found /\ Goto(e, "load") /\ UNCHANGED closed
    <3>1. /\ thread'[e].at = "load" /\ \A f \in ThreadFields \ {"at"} : thread'[e][f] = thread[e][f]
          /\ \A o \in Editors \ {e} : thread'[o] = thread[o]
      BY <2>3, GotoIs DEF Places
    <3>2. /\ thread'[e].clean = thread[e].clean /\ thread'[e].found
          /\ thread'[e].ask = thread[e].ask
          /\ thread'[e].stage = thread[e].stage /\ thread'[e].put = thread[e].put
          /\ \A f \in {"from", "ask", "stage", "put", "aim"} : thread'[e][f] = thread[e][f]
      <4>1. {"clean", "found", "from", "ask", "stage", "put", "aim"} \subseteq ThreadFields \ {"at"}
        BY DEF ThreadFields
      <4>. QED
        BY <2>3, <3>1, <4>1
    <3>3. Updating(e)' <=> Updating(e)
      BY <2>1, <2>3, <3>1 DEF Updating
    <3>4. CASE Updating(e)
      <4>1. ASSUME thread[e].clean PROVE Steady(e)'
        <5>1. Steady(e)
          BY <1>1, <3>4, <4>1 DEF CleanUpdate
        <5>2. (~mixed => OnCourse(thread[e], work.tables, asked))'
          BY <2>1, <3>2, <5>1, SameCourse DEF Steady
        <5>3. NothingYet(e)'
          BY <3>2 DEF NothingYet
        <5>4. AllComplete(e)'
          BY <2>1, <3>2 DEF AllComplete, Complete
        <5>5. Settled(e)'
          BY <2>1, <2>3, <3>1, <5>1, <5>4 DEF Steady, Settled, At
        <5>. QED
          BY <5>2, <5>3, <5>5 DEF Steady
      <4>. QED
        BY <1>2, <2>1, <2>3, <3>1, <3>2, <3>3, <3>4, <4>1, UpdateGoesOn
    <3>5. CASE ~Updating(e)
      BY <2>1, <2>3, <3>1, <3>3, <3>5, OtherRequests
    <3>. QED
      BY <3>4, <3>5
  <2>4. CASE ~thread[e].found /\ Become(e, Idle) /\ closed' = closed \ {e}
    <3>1. thread'[e] = Idle /\ \A o \in Editors \ {e} : thread'[o] = thread[o]
      BY <1>0, <2>4, BecomeIs
    <3>2. ~Updating(e)'
      BY <1>0, <3>1 DEF Updating
    <3>3. CASE ~Updating(e)
      BY <2>1, <2>4, <3>1, <3>2, <3>3, OtherRequests
    <3>4. CASE Updating(e) /\ mixed
      <4>1. mixed'
        BY <2>1, <3>4
      <4>. QED
        BY <2>4, <3>4, <4>1, UpdateBreaksOff
    <3>5. CASE Updating(e) /\ ~mixed
      <4>1. CleanUpdate(e) /\ Steady(e)
        BY <1>1, <1>2, <3>5 DEF CleanUpdate
      <4>2. work.tables = asked /\ disk.tables = asked /\ loaded = asked
        BY <2>2, <2>4, <3>5, <4>1 DEF Steady, NothingYet
      <4>3. \A o \in Editors \ {e} : ~Updating(o)
        BY <4>1 DEF TablesInv, CleanAlone
      <4>4. \A o \in Editors : ~Updating(o)'
        BY <2>4, <3>1, <3>2, <4>3 DEF Updating
      <4>5. AllAsAsked'
        BY <2>1, <4>2 DEF AllAsAsked
      <4>. QED
        BY <4>4, <4>5 DEF TablesInv, CleanAlone, UncleanMixes, CleanUpdate
    <3>. QED
      BY <3>3, <3>4, <3>5
  <2>. QED
    BY <1>4, <2>3, <2>4 DEF RestoreEnds
<1>. QED
  BY <1>3, <1>4

LEMMA LoadKeepsTables ==
    ASSUME TypeInv, TablesInv, NEW e \in Editors, LoadSettings(e)
    PROVE  TablesInv'
<1>0. /\ WellTyped(thread[e]) /\ Course(thread[e]) /\ DOMAIN thread = Editors
      /\ Idle.at = "idle"
      /\ IsTables(work.tables) /\ DOMAIN work.tables = Parts
  BY IdleIs DEF TypeInv, ThreadsTyped, DataTyped, StoreTyped, Sound
<1>1. /\ thread[e].at \in {"load", "refresh"} /\ e \notin closed
      /\ UNCHANGED <<disk, work, closed>> /\ loaded' = work.tables
      /\ asked' = IF thread[e].at # "load" THEN asked
                  ELSE IF mixed THEN disk.tables ELSE thread[e].aim
      /\ mixed' = (mixed /\ ~(thread[e].at = "load" /\ thread[e].clean))
      /\ Become(e, Idle)
  BY DEF LoadSettings, Works, At, store
<1>2. thread'[e] = Idle /\ \A o \in Editors \ {e} : thread'[o] = thread[o]
  BY <1>0, <1>1, BecomeIs
<1>3. ~Updating(e)' /\ \A o \in Editors \ {e} : Updating(o)' <=> Updating(o)
  BY <1>0, <1>1, <1>2 DEF Updating
<1>4. CASE thread[e].at = "refresh"
  <2>1. ~Updating(e) /\ asked' = asked /\ (mixed' <=> mixed)
    BY <1>1, <1>4 DEF Updating
  <2>. QED
    BY <1>1, <1>2, <1>3, <2>1, OtherRequests
<1>5. CASE thread[e].at = "load" /\ ~thread[e].clean
  <2>1. Updating(e)
    BY <1>1, <1>5 DEF Updating
  <2>2. mixed'
    BY <1>1, <1>5, <2>1 DEF TablesInv, UncleanMixes
  <2>3. closed' = closed \ {e}
    BY <1>1
  <2>. QED
    BY <1>1, <2>1, <2>2, <2>3, UpdateBreaksOff
<1>6. CASE thread[e].at = "load" /\ thread[e].clean
  <2>1. CleanUpdate(e) /\ Steady(e)
    BY <1>1, <1>6 DEF CleanUpdate, Updating, TablesInv
  <2>2. work.tables = disk.tables /\ AllComplete(e)
    BY <1>6, <2>1 DEF Steady, Settled, At
  <2>3. \A o \in Editors : ~Updating(o)'
    BY <1>3, <2>1 DEF TablesInv, CleanAlone
  <2>4. ~mixed => work.tables = thread[e].aim
    <3>1. DOMAIN thread[e].aim = Parts
      BY <1>0, <1>6 DEF Course
    <3>2. \A s \in DOMAIN thread[e].ask :
             thread[e].stage[s] = "put" /\ thread[e].put[s] = DOMAIN thread[e].ask[s]
      BY <2>2 DEF AllComplete, Complete
    <3>3. ~mixed => OnCourse(thread[e], work.tables, asked)
      BY <2>1 DEF Steady
    <3>. QED
      BY <1>0, <3>1, <3>2, <3>3, CourseEnds
  <2>5. AllAsAsked'
    BY <1>1, <1>6, <2>2, <2>4 DEF AllAsAsked
  <2>. QED
    BY <2>3, <2>5 DEF TablesInv, CleanAlone, UncleanMixes, CleanUpdate
<1>. QED
  BY <1>1, <1>4, <1>5, <1>6

LEMMA OthersKeepTables ==
    ASSUME TypeInv, TablesInv, NEW e \in Editors,
           BeginExport(e) \/ ReadSection(e) \/ ExportEnds(e) \/ UpdateFails(e)
    PROVE  TablesInv'
<1>0. DOMAIN thread = Editors /\ Idle.at = "idle" /\ Shaped(Idle) /\ Shaped(thread[e])
  BY IdleIs DEF TypeInv, ThreadsTyped, Sound, WellTyped
<1>1. CASE BeginExport(e) \/ ReadSection(e) \/ ExportEnds(e)
  <2>1. /\ thread[e].at \in {"idle", "export"} /\ closed' \in {closed, closed \ {e}}
        /\ UNCHANGED <<disk, work, loaded, asked, mixed>>
    BY <1>1 DEF BeginExport, Begin, ReadSection, ExportEnds, At, store, memory, history
  <2>2. /\ thread'[e].at \in {"idle", "export"}
        /\ \A o \in Editors \ {e} : thread'[o] = thread[o]
    <3>1. CASE BeginExport(e)
      <4>1. Become(e, [Idle EXCEPT !.at = "export"])
        BY <3>1 DEF BeginExport, Begin
      <4>. QED
        BY <1>0, <4>1 DEF Become, Shaped, ThreadFields
    <3>2. CASE ReadSection(e)
      <4>1. PICK s : Become(e, [thread[e] EXCEPT
                                  !.got = Merged([r \in {s} |-> work.tables[s]], thread[e].got)])
        BY <3>2 DEF ReadSection
      <4>2. thread'[e].at = thread[e].at /\ \A o \in Editors \ {e} : thread'[o] = thread[o]
        BY <1>0, <4>1 DEF Become, Shaped, ThreadFields
      <4>. QED
        BY <2>1, <4>2
    <3>3. CASE ExportEnds(e)
      BY <1>0, <3>3, BecomeIs DEF ExportEnds
    <3>. QED
      BY <1>1, <3>1, <3>2, <3>3
  <2>3. ~Updating(e) /\ ~Updating(e)'
    BY <2>1, <2>2 DEF Updating
  <2>. QED
    BY <2>1, <2>2, <2>3, OtherRequests
<1>2. CASE UpdateFails(e)
  <2>1. /\ Become(e, Idle) /\ closed' = closed \ {e} /\ mixed' = (mixed \/ Updating(e))
        /\ UNCHANGED <<disk, work, loaded, asked>>
    BY <1>2 DEF UpdateFails, store
  <2>2. thread'[e] = Idle /\ \A o \in Editors \ {e} : thread'[o] = thread[o]
    BY <1>0, <2>1, BecomeIs
  <2>3. CASE Updating(e)
    BY <2>1, <2>3, UpdateBreaksOff
  <2>4. CASE ~Updating(e)
    <3>1. ~Updating(e)' /\ (mixed' <=> mixed)
      BY <1>0, <2>1, <2>2, <2>4 DEF Updating
    <3>. QED
      BY <2>1, <2>2, <2>4, <3>1, OtherRequests
  <2>. QED
    BY <2>3, <2>4
<1>. QED
  BY <1>1, <1>2

LEMMA TablesInvNext == TypeInv /\ TablesInv /\ [ConfigNext]_configVars => TablesInv'
<1>1. ASSUME TablesInv, UNCHANGED configVars PROVE TablesInv'
  <2>1. /\ UNCHANGED <<thread, closed, work, disk, loaded, asked, mixed>>
    BY <1>1 DEF configVars, store, memory, history
  <2>2. \A o \in Editors : Updating(o)' <=> Updating(o)
    BY <2>1 DEF Updating
  <2>. QED
    BY <1>1, <2>1, <2>2, QuietForTables
<1>2. ASSUME TypeInv, TablesInv, NEW e \in Editors, EditSettings(e) PROVE TablesInv'
  BY <1>2, BeginsKeepTables, UpdateStepsKeepTables, RestoreStepsKeepTables, LoadKeepsTables,
     OthersKeepTables DEF EditSettings
<1>. QED
  BY <1>1, <1>2, EditLinksKeepsTables, OtherStepsKeepTables DEF ConfigNext

\* Updates of the settings that nothing disturbed leave in the database and in
\* memory the rows they name, with what was to be kept of those there were, for
\* all payloads and all sections, and for any number of administrators.
THEOREM UpdatesAreKept == ConfigSpec => []UpdatesStick
<1>1. ConfigInit => TypeInv /\ TablesInv
  BY TypeInvInit, TablesInvInit
<1>2. TypeInv /\ TablesInv /\ [ConfigNext]_configVars => (TypeInv /\ TablesInv)'
  BY TypeInvNext, TablesInvNext
<1>3. TablesInv => UpdatesStick
  BY DEF TablesInv, AllAsAsked, UpdatesStick
<1>. QED
  BY <1>1, <1>2, <1>3, PTL DEF ConfigSpec
=============================================================================
