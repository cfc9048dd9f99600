----------------------------- MODULE MCIndexer -----------------------------
(***************************************************************************)
(* An instance of Indexer for TLC, whose versions are listings as          *)
(* RemoteListing reads them, and checks of RemoteListing on small inputs.  *)
(***************************************************************************)
EXTENDS Indexer, RemoteListing

File(name) == Link(name, "file", "name")

Parent == Link("..", "parent", "name")

\* The anchors on the page of each version: the second names a file twice, the
\* third has more entries than Limit.
Page == << <<Parent, File("a"), Link("sub", "folder", "name/")>>,
           <<Parent, File("a"), Link("a", "file", "empty")>>,
           <<File("a"), File("b"), File("c")>>,
           <<Parent, File("b"), File("a")>> >>

Limit == 2

ListingOf(version) == EntriesOf("http", Page[version])

Second == {2}
Third == {3}

\* These are the versions that cannot be stored and that are too large; and a
\* version stands for its hash: no two pages share one.
ASSUME VersionsAreListings ==
    /\ Doubled = {v \in DOMAIN Page : ~Storable(Records(ListingOf(v)))}
    /\ Giant = {v \in DOMAIN Page : TooLarge(ListingOf(v), Limit)}
    /\ \A v, w \in DOMAIN Page :
        ListingHash(ListingOf(v)) = ListingHash(ListingOf(w)) => v = w

-----------------------------------------------------------------------------
Links == {Link(p, s, t) : p \in {"a", "b"}, s \in Shapes, t \in Texts}

Pages == UNION {[1 .. n -> Links] : n \in 0 .. 2}

Paths(entries) == {entries[i].path : i \in DOMAIN entries}

\* A page yields the files it links to, wherever on it they are linked to:
\* nothing that leads away from it, and no folder.
ASSUME PagesYieldFiles ==
    \A links \in Pages :
        /\ Paths(PageEntries(links)) =
             {l.path : l \in {links[i] : i \in DOMAIN links}
                        \cap {Link(p, s, t) :
                                p \in {"a", "b"},
                                s \in {"file", "schemeless", "archive_download"},
                                t \in {"name", "empty"}}}
        /\ PartitionHint(PageEntries(links), 1) = {}

\* An anchor within an anchor takes its place; the outer one is lost.
ASSUME InnerAnchorCounts ==
    LET open(p) == [tag |-> "open", href |-> [path |-> p, shape |-> "file"]]
        close == [tag |-> "close"]
        bare == [tag |-> "open", href |-> Missing]
    IN  /\ Anchors(<<open("a"), open("b"), close, close>>) =
             <<Link("b", "file", "empty")>>
        /\ Anchors(<<open("a"), bare, [tag |-> "text", text |-> "name"], close>>)
             = <<File("a")>>

-----------------------------------------------------------------------------
Dates == {[iso |-> TRUE, value |-> 1], Missing}

RcloneRows == [Name : {"a", "b"}, IsDir : BOOLEAN, Size : {0, 1, Missing},
               ModTime : Dates]

Listings == UNION {[1 .. n -> RcloneRows] : n \in 0 .. 2}

Bag(seq) == {<<x, Cardinality({i \in DOMAIN seq : seq[i] = x})>> :
                x \in {seq[i] : i \in DOMAIN seq}}

SizesBlurred(records) ==
    [i \in DOMAIN records |->
        [records[i] EXCEPT !.size = IF @ = Missing THEN 0 ELSE @]]

\* Listings of equal hash are recorded alike, whatever their order, but for
\* empty files and files of unknown size: a check that finds the hash unchanged
\* misses nothing else of what would be recorded.
ASSUME HashTellsRecordsApart ==
    \A one, other \in Listings :
        (ListingHash(RcloneEntries(one)) = ListingHash(RcloneEntries(other)))
            <=> (Bag(SizesBlurred(Records(RcloneEntries(one)))) =
                 Bag(SizesBlurred(Records(RcloneEntries(other)))))

\* A dated line of an FTP server is hashed with its date, and recorded without.
ASSUME FtpDatesAreHashedOnly ==
    LET line(date) == <<[fields |-> 9, kind |-> "-", name |-> "a",
                         size |-> 1, date |-> date]>>
    IN  /\ ListingHash(FtpEntries(line(1))) # ListingHash(FtpEntries(line(2)))
        /\ Records(FtpEntries(line(1))) = Records(FtpEntries(line(2)))

ASSUME AnswersAreRead ==
    /\ RetryAfterSeconds([kind |-> "date", seconds |-> -5]) = 0
    /\ RetryAfterSeconds([kind |-> "number", seconds |-> 7]) = 7
    /\ RetryAfterSeconds([kind |-> "other"]) = Missing
    /\ ParsedHeaders(<<[name |-> "etag", value |-> 1],
                       [name |-> "etag", value |-> 2]>>) = [etag |-> 2]
=============================================================================
