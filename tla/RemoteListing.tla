---------------------------- MODULE RemoteListing ----------------------------
(***************************************************************************)
(* What becomes of a remote listing on its way into the database, in       *)
(* app/net/indexer.py: anchors of a page or rows of a server are parsed    *)
(* into entries, entries are hashed, and recorded as files.                *)
(*                                                                         *)
(* A path is any value.  What the filters distinguish of an href is its    *)
(* shape, what they distinguish of a text its form.  Sizes are numbers and *)
(* dates are [iso |-> ..., value |-> ...], or None.                        *)
(***************************************************************************)
EXTENDS Naturals, FiniteSets, SequencesExt

CONSTANT Missing   \* None, in an entry or a record

\* "file" and "folder" are relative, the latter with a slash at its end.
\* "schemeless" starts with two slashes and a host, apart from archive.org.
\* "short" has at most two characters, none of them a slash at its end.
Shapes == {"file", "folder", "parent", "self", "rooted", "wayback", "archive",
           "archive_download", "schemeless", "anchor", "query", "absolute",
           "padded", "short"}

\* A text is empty, a name, or a name with a slash at its end.  "letter" stands
\* for any anchor whose name comes out as at most one character.
Texts == {"empty", "name", "name/", "letter"}

Link(path, shape, text) == [path |-> path, shape |-> shape, text |-> text]

-----------------------------------------------------------------------------
(* Pages.                                                                  *)

\* _AnchorHTMLParser: events are tags that open and close anchors, and texts.
\* An anchor that opens within one begins anew, unless it has no href; the end
\* of an anchor files what was read since.
Anchors(events) ==
    LET Read(state, event) ==
            CASE event.tag = "open" /\ event.href # Missing ->
                    [state EXCEPT !.href = event.href, !.text = "empty"]
              [] event.tag = "text" /\ state.href # Missing ->
                    [state EXCEPT !.text = event.text]
              [] event.tag = "close" /\ state.href # Missing ->
                    [href |-> Missing, text |-> "empty",
                     links |-> Append(state.links,
                                      Link(state.href.path, state.href.shape,
                                           state.text))]
              [] OTHER -> state
    IN  FoldLeft(Read, [href |-> Missing, text |-> "empty", links |-> <<>>],
                 events).links

\* Links that lead up, to the page itself, elsewhere, or nowhere.
Navigation(link) ==
    link.shape \in {"parent", "self", "rooted", "wayback", "archive",
                    "anchor", "query", "absolute", "padded", "short"}

IsFolder(link) == link.shape = "folder" \/ link.text = "name/"

\* The name is the text, or the last part of the href if there is none.
Nameless(link) == link.text = "letter"

Entry(path, isDir, size, modified) ==
    [path |-> path, is_dir |-> isDir, size |-> size, modified |-> modified]

\* _parse_html_directory: folders are left out, too.
PageEntries(links) ==
    LET Wanted(link) == ~Navigation(link) /\ ~Nameless(link) /\ ~IsFolder(link)
        kept == SelectSeq(links, Wanted)
    IN  [i \in DOMAIN kept |-> Entry(kept[i].path, FALSE, Missing, Missing)]

-----------------------------------------------------------------------------
(* Rows.                                                                   *)

\* _parse_ftp_directory: a line has a kind, a name, a size that is digits or
\* not, and a date in words, or it is too short.
FtpEntries(lines) ==
    LET Whole(line) == line.fields >= 9
        kept == SelectSeq(lines, Whole)
    IN  [i \in DOMAIN kept |->
            Entry(kept[i].name, kept[i].kind = "d",
                  IF kept[i].size = Missing THEN 0 ELSE kept[i].size,
                  [iso |-> FALSE, value |-> kept[i].date])]

\* _fetch_rclone_listing.
RcloneEntries(rows) ==
    [i \in DOMAIN rows |->
        Entry(rows[i].Name, rows[i].IsDir, rows[i].Size, rows[i].ModTime)]

\* A listing that cannot be fetched has no entries but an error.
EntriesOf(how, body) ==
    CASE how = "http" -> PageEntries(body)
      [] how = "ftp" -> FtpEntries(body)
      [] how = "rclone" -> RcloneEntries(body)
      [] OTHER -> <<>>

-----------------------------------------------------------------------------
(* Into the database.                                                      *)

\* _listing_hash: the sorted lines, so how often each occurs.  An empty size
\* and zero are one.
HashLine(entry) ==
    [entry EXCEPT !.size = IF @ = Missing THEN 0 ELSE @]

ListingHash(entries) ==
    LET lines == {HashLine(entries[i]) : i \in DOMAIN entries}
    IN  [line \in lines |->
            Cardinality({i \in DOMAIN entries : HashLine(entries[i]) = line})]

\* _parse_modified knows ISO dates only.
ParsedDate(modified) ==
    IF modified # Missing /\ modified.iso THEN modified ELSE Missing

\* _entries_to_records.
Records(entries) ==
    [i \in DOMAIN entries |->
        [entries[i] EXCEPT !.modified = ParsedDate(@)]]

\* UNIQUE(target_id, path) of indexing_files.
Storable(records) ==
    \A i, j \in DOMAIN records : records[i].path = records[j].path => i = j

TooLarge(entries, limit) == limit > 0 /\ Len(entries) > limit

\* _partition_hint names folders.
PartitionHint(entries, most) ==
    LET Folder(entry) == entry.is_dir
        folders == SelectSeq(entries, Folder)
        first == {folders[i].path : i \in
                    {k \in DOMAIN folders :
                        Cardinality({folders[j].path : j \in 1 .. k}) <= most}}
    IN  IF most = 0 THEN {} ELSE first

\* _retry_after_seconds of a number, of a date that many seconds ahead, or of
\* anything else.
RetryAfterSeconds(value) ==
    IF value.kind \in {"number", "date"}
    THEN IF value.seconds < 0 THEN 0 ELSE value.seconds
    ELSE Missing

\* _parse_headers: of the headers of all answers, redirects included, the last
\* of a name counts.
ParsedHeaders(lines) ==
    LET at(name) == {i \in DOMAIN lines : lines[i].name = name}
    IN  [name \in {lines[i].name : i \in DOMAIN lines} |->
            lines[CHOOSE i \in at(name) : \A j \in at(name) : j <= i].value]
=============================================================================
