------------------------------ MODULE ShareTree ------------------------------
(***************************************************************************)
(* The tree that WebDAV clients see (app/hosting/webdav.py): shares map    *)
(* frontend paths to folders of the datadir, and cachelinks overlay the    *)
(* datadir with the files of remote listings (app/cache/cachelinks.py).    *)
(* A request first asks WebDAVProvider.get_resource_inst for a resource    *)
(* and then calls a method of it; other requests and the indexer work in   *)
(* between.                                                                *)
(*                                                                         *)
(* A path is a sequence of names.  What is kept of a file is who made its  *)
(* name: a fetch, an upload that looked at the overlay first, or a call    *)
(* that did not.  The download and the checksum of GET are in ReadThrough. *)
(***************************************************************************)
EXTENDS Naturals, Sequences, SequencesExt

CONSTANTS
    Names,          \* the names of files and folders
    Paths,          \* the paths there may be (a bound)
    Shares,         \* records: front, base (paths), writable, overlay
    Policy,         \* Policy[s][u]: what share s lets user u do
    Users,
    Targets,        \* the destinations of COPY and MOVE (a bound)
    Rows,           \* the paths of the configured cachelinks
    Listings,       \* Listings[m]: what the remote side of a cachelink may list
    Requests        \* the requests that may be under way at once

Permissions == {"read", "write", "cache"}
Entries == [path : Paths, dir : BOOLEAN]

\* A listing is one of a tree: nothing in it is a file and a folder.
IsTree(l) ==
    \A e, f \in l :
        ~e.dir => ~IsStrictPrefix(e.path, f.path) /\ (e.path = f.path => ~f.dir)

ASSUME ShareTreeAssumption ==
    /\ Paths \subseteq Seq(Names)
    /\ <<>> \in Paths
    /\ \A p \in Paths : \A n \in 0..Len(p) : SubSeq(p, 1, n) \in Paths
    /\ \A s \in Shares : s.front \in Paths /\ s.base \in Paths
    /\ \A s, t \in Shares : s.front = t.front => s = t
    /\ Policy \in [Shares -> [Users -> SUBSET Permissions]]
    /\ Rows \subseteq Paths
    /\ Listings \in [Rows -> SUBSET SUBSET Entries]
    /\ \A m \in Rows : \A l \in Listings[m] : IsTree(l)

VARIABLES
    disk,           \* the datadir: what is at each path
    listing,        \* the rows of indexing_files of each cachelink
    relisted,       \* the paths that a listing made a folder of later on
    req             \* the requests under way

vars == <<disk, listing, relisted, req>>

Absent == "absent"
Folder == "folder"
Files == {"fetched", "uploaded", "unchecked"}
Idle == [op |-> "none"]

-----------------------------------------------------------------------------
(* Which cachelinks there are, and which share a path is in *)

\* A cachelink below another one is swallowed: the tree of rows is walked from
\* the top and a node with an url is not walked any further.
Mounts == {m \in Rows : ~\E r \in Rows : IsStrictPrefix(r, m)}

\* The frontend paths that some share serves, the share with the longest prefix
\* (_resolve_share) and the path in the datadir (_map_to_datadir).
Rest(path, prefix) == SubSeq(path, Len(prefix) + 1, Len(path))
Longest(path, s) ==
    /\ IsPrefix(s.front, path)
    /\ \A t \in Shares : IsPrefix(t.front, path) => Len(t.front) <= Len(s.front)
WebPaths ==
    {path \in Paths : \E s \in Shares :
                        Longest(path, s) /\ s.base \o Rest(path, s.front) \in Paths}
ShareOf == [path \in WebPaths |-> CHOOSE s \in Shares : Longest(path, s)]
At == [path \in WebPaths |-> ShareOf[path].base \o Rest(path, ShareOf[path].front)]

Overlays(s, u) == s.overlay /\ "cache" \in Policy[s][u]
MayWrite(s, u) == s.writable /\ "write" \in Policy[s][u]
MountsOf(s) == {m \in Mounts : IsPrefix(s.base, m)}
MountsAbove ==
    [s \in Shares |-> [d \in Paths |-> {m \in MountsOf(s) : IsPrefix(m, d)}]]
MountsBelow ==
    [s \in Shares |-> [d \in Paths |-> {m \in MountsOf(s) : IsStrictPrefix(d, m)}]]

-----------------------------------------------------------------------------
(* Looking a path up *)

Entry(m, sub) == {e \in listing[m] : e.path = sub}

\* Faulty: a folder that only the paths of its files imply is not listed.
DirectChildren(m, sub) ==
    {e.path[Len(sub) + 1] :
        e \in {f \in listing[m] : IsStrictPrefix(sub, f.path) /\ Len(f.path) = Len(sub) + 1}}

\* The names below sub that the entries name or imply (_cachelink_children).
Children(m, sub) ==
    {e.path[Len(sub) + 1] : e \in {f \in listing[m] : IsStrictPrefix(sub, f.path)}}

\* Faulty: only what has a row of its own is there.
OverlayRow(s, d) ==
    IF MountsAbove[s][d] = {} THEN "nothing"
    ELSE LET m == CHOOSE m \in MountsAbove[s][d] : TRUE
             sub == Rest(d, m)
         IN CASE sub = <<>> -> "folder"
              [] sub # <<>> /\ Entry(m, sub) # {} ->
                    IF \E e \in Entry(m, sub) : e.dir THEN "folder" ELSE "file"
              [] OTHER -> "nothing"

\* What the overlay has at datadir path d.
OverlayKind(s, d) ==
    IF MountsAbove[s][d] = {}
    THEN IF MountsBelow[s][d] # {} THEN "folder" ELSE "nothing"
    ELSE LET m == CHOOSE m \in MountsAbove[s][d] : TRUE
             sub == Rest(d, m)
         IN CASE sub = <<>> -> "folder"
              [] sub # <<>> /\ Entry(m, sub) # {} ->
                    IF \E e \in Entry(m, sub) : e.dir THEN "folder" ELSE "file"
              [] OTHER -> IF Children(m, sub) # {} THEN "folder" ELSE "nothing"

Creating == {"PUT", "MKCOL"}
Changing == Creating \cup {"DELETE", "MOVE", "COPY"}

\* The kind of resource get_resource_inst returns, or "none".
Resource(u, path, method) ==
    IF path \notin WebPaths THEN "none"
    ELSE LET s == ShareOf[path]
             d == At[path]
             new == IF method \in Creating
                    THEN IF method = "PUT" THEN "datadir_file" ELSE "datadir_folder"
                    ELSE "none"
         IN IF "read" \notin Policy[s][u] THEN "none"
            ELSE IF method \in Changing /\ ~MayWrite(s, u) THEN "none"
            ELSE IF disk[d] \in Files THEN "datadir_file"
            ELSE IF disk[d] = Folder THEN "datadir_folder"
            ELSE IF ~Overlays(s, u) THEN new
            ELSE IF OverlayKind(s, d) = "folder" THEN "cachelink_folder"
            ELSE IF OverlayKind(s, d) = "file" THEN "cachelink_file"
            ELSE IF MountsAbove[s][d] # {} THEN new ELSE "none"

FolderKinds == {"datadir_folder", "cachelink_folder"}
FileKinds == {"datadir_file", "cachelink_file"}

-----------------------------------------------------------------------------
(* Listing a folder *)

OnDisk(d) == {n \in Names : Append(d, n) \in Paths /\ disk[Append(d, n)] # Absent}

CachelinkMembers(s, d) ==
    {m[Len(d) + 1] : m \in MountsBelow[s][d]}
        \cup UNION {Children(m, Rest(d, m)) : m \in MountsAbove[s][d]}

\* get_member_names of the resource at path.
MemberNames(u, path) ==
    LET s == ShareOf[path]
        d == At[path]
        above == MountsAbove[s][d]
    IN OnDisk(d) \cup
       CASE ~Overlays(s, u) -> {}
         [] Overlays(s, u) /\ disk[d] = Folder -> CachelinkMembers(s, d)
         [] Overlays(s, u) /\ disk[d] # Folder ->
              IF above # {} THEN LET m == CHOOSE m \in above : TRUE
                                 IN Children(m, Rest(d, m))
                            ELSE CachelinkMembers(s, d)

-----------------------------------------------------------------------------
(* What the calls do to the disk *)

Parents == [d \in Paths |-> {p \in Paths : IsStrictPrefix(p, d)}]
Blocked(d) == \E p \in Parents[d] : disk[p] \in Files
Subtree == [d \in Paths |-> {p \in Paths : IsPrefix(d, p)}]

\* Faulty: nobody makes the folders above.
WithoutParents(d, x) == [disk EXCEPT ![d] = x]

\* The disk with the folders above d made and x at d (mkdir with parents, open).
With(d, x) == [p \in Paths |-> IF p = d THEN x
                               ELSE IF p \in Parents[d] THEN Folder ELSE disk[p]]

\* Where shutil puts a file or a folder called n that is sent to d.
Landing(d, n) == IF disk[d] = Folder THEN Append(d, n) ELSE d

\* The disk with the tree at src also at dst, and without src if it is moved.
Copy(src, dst, moved) ==
    [p \in Paths |->
        LET from == src \o Rest(p, dst)
        IN CASE p \in Subtree[dst] /\ from \in Paths /\ disk[from] # Absent ->
                    IF disk[from] = Folder THEN Folder ELSE "unchecked"
             [] p \in Parents[dst] -> Folder
             [] moved /\ p \in Subtree[src] -> Absent
             [] OTHER -> disk[p]]

\* A folder and a file in each other's place, which copytree reports.
Clash(src, dst) ==
    \E p \in Subtree[dst] :
        LET from == src \o Rest(p, dst)
        IN /\ from \in Paths
           /\ \/ disk[from] = Folder /\ disk[p] \in Files
              \/ disk[from] \in Files /\ disk[p] = Folder

\* Whether the tree at src, put at dst, stays within the paths there may be.
Fits(src, dst) ==
    \A p \in Subtree[src] : disk[p] # Absent => dst \o Rest(p, src) \in Paths

TypeOK ==
    /\ disk \in [Paths -> {Absent, Folder} \cup Files]
    /\ \A d \in Paths : disk[d] # Absent => \A p \in Parents[d] : disk[p] = Folder
    /\ \A m \in Mounts : listing[m] \in Listings[m]
    /\ relisted \subseteq Paths
    /\ \A r \in Requests :
        \/ req[r] = Idle
        \/ /\ req[r].op \in Changing \cup {"GET"}
           /\ req[r].at \in Paths
           /\ req[r].to \in Paths
           /\ req[r].checked \in BOOLEAN
           /\ req[r].kind \in FolderKinds \cup FileKinds

Init ==
    /\ disk = [d \in Paths |-> IF d = <<>> THEN Folder ELSE Absent]
    /\ listing \in {l \in [Mounts -> UNION {Listings[m] : m \in Mounts}] :
                        \A m \in Mounts : l[m] \in Listings[m]}
    /\ relisted = {}
    /\ req = [r \in Requests |-> Idle]

-----------------------------------------------------------------------------
(* Requests *)

\* Whether the lookup of path, for what is to be at d, asks all cachelinks that
\* are there: a file in the datadir is found before them, a user may lack
\* the permission, and a share that begins below a cachelink has none of it.
Checks(u, path, d) ==
    /\ path \in WebPaths /\ At[path] = d
    /\ "read" \in Policy[ShareOf[path]][u] /\ MayWrite(ShareOf[path], u)
    /\ disk[d] \notin Files
    /\ Overlays(ShareOf[path], u)
    /\ \A m \in Mounts : IsPrefix(m, d) \/ IsPrefix(d, m) => m \in MountsOf(ShareOf[path])

Receive(r, op, d, to, kind, checked) ==
    /\ req[r] = Idle
    /\ kind # "none"
    /\ req' = [req EXCEPT ![r] = [op |-> op, at |-> d, to |-> to, kind |-> kind,
                                  checked |-> checked]]
    /\ UNCHANGED <<disk, listing, relisted>>

\* GET, PUT and DELETE ask for the resource itself.
Resolve(r) ==
    \E u \in Users, path \in WebPaths, op \in {"GET", "PUT", "DELETE"} :
        LET d == At[path]
            kind == Resource(u, path, op)
        IN /\ op = "GET" => kind = "cachelink_file"
           /\ op = "PUT" => kind \in FileKinds
           /\ Receive(r, op, d, d, kind, Checks(u, path, d))

\* MKCOL and a PUT of something new ask for the folder it is to be in.
ResolveParent(r) ==
    \E u \in Users, path \in WebPaths, n \in Names, op \in Creating :
        LET d == At[path]
            kind == Resource(u, path, op)
        IN /\ op = "PUT" => Resource(u, Append(path, n), op) = "none"
           /\ Append(d, n) \in Paths
           /\ kind \in FolderKinds
           /\ Receive(r, op, Append(d, n), d, kind,
                      Checks(u, Append(path, n), Append(d, n)))

\* Faulty: only the source is looked up with the user's rights.
ResolveSource(r) ==
    \E u \in Users, path \in WebPaths, dest \in Targets \cap WebPaths, op \in {"COPY", "MOVE"} :
        /\ ~IsPrefix(path, dest)
        /\ Receive(r, op, At[path], At[dest], Resource(u, path, op), FALSE)

\* COPY and MOVE look the destination up in its share; WsgiDAV itself refuses
\* a destination at or below the source.
ResolveBoth(r) ==
    \E u \in Users, path \in WebPaths, dest \in Targets \cap WebPaths, op \in {"COPY", "MOVE"} :
        /\ ~IsPrefix(path, dest)
        /\ MayWrite(ShareOf[dest], u)
        /\ Receive(r, op, At[path], At[dest], Resource(u, path, op), FALSE)

Step(r, op, kinds) ==
    /\ req[r].op = op
    /\ req[r].kind \in kinds
    /\ req' = [req EXCEPT ![r] = Idle]
    /\ UNCHANGED <<listing, relisted>>

\* get_content of a file that is listed but not stored: fetched and stored.
GetContent(r) ==
    /\ Step(r, "GET", {"cachelink_file"})
    /\ disk' = LET d == req[r].at
               IN IF disk[d] = Absent /\ ~Blocked(d) THEN With(d, "fetched") ELSE disk

\* begin_write truncates or creates the file, end_write closes it.
Write(r) ==
    /\ Step(r, "PUT", FileKinds \cup FolderKinds)
    /\ disk' = LET d == req[r].at
               IN CASE disk[d] = Absent /\ ~Blocked(d) ->
                            With(d, IF req[r].checked THEN "uploaded" ELSE "unchecked")
                   [] disk[d] # Absent \/ Blocked(d) -> disk

CreateCollection(r) ==
    /\ Step(r, "MKCOL", FolderKinds)
    /\ disk' = LET d == req[r].at
               IN IF disk[d] # Absent \/ Blocked(d) THEN disk ELSE With(d, Folder)

DeleteFile(r) ==
    /\ Step(r, "DELETE", FileKinds)
    /\ disk' = LET d == req[r].at
               IN IF disk[d] \in Files THEN With(d, Absent) ELSE disk

DeleteFolder(r) ==
    /\ Step(r, "DELETE", FolderKinds)
    /\ disk' = LET d == req[r].at
               IN IF disk[d] = Folder /\ OnDisk(d) = {} /\ d # <<>>
                  THEN With(d, Absent) ELSE disk

\* copy2 to a path or into a folder; copytree merges folders.
CopyRecursive(r) ==
    LET src == req[r].at
        dst == IF req[r].kind \in FileKinds THEN Landing(req[r].to, Last(src))
                                            ELSE req[r].to
    IN /\ Step(r, "COPY", FileKinds \cup FolderKinds)
       /\ dst \in Paths
       /\ IF \/ disk[src] = Absent
             \/ (disk[src] = Folder) # (req[r].kind \in FolderKinds)
             \/ Blocked(dst)
             \/ Clash(src, dst)
             \/ src = dst
          THEN UNCHANGED disk
          ELSE Fits(src, dst) /\ disk' = Copy(src, dst, FALSE)

\* shutil.move: into a folder that is there, else in place of what is there.
MoveRecursive(r) ==
    LET src == req[r].at
        dst == Landing(req[r].to, Last(src))
    IN /\ Step(r, "MOVE", FileKinds \cup FolderKinds)
       /\ src # <<>> /\ dst \in Paths
       /\ IF \/ disk[src] = Absent
             \/ disk[dst] # Absent
                    /\ (dst # req[r].to \/ disk[src] = Folder)
             \/ Blocked(dst)
             \/ IsPrefix(src, dst)
          THEN UNCHANGED disk
          ELSE Fits(src, dst) /\ disk' = Copy(src, dst, TRUE)

-----------------------------------------------------------------------------
(* The indexer stores a new listing *)

FolderPaths(l) == {d \in Paths : \E e \in l : IsStrictPrefix(d, e.path)
                                              \/ (e.dir /\ e.path = d)}

Reindex(m) ==
    \E l \in Listings[m] \ {listing[m]} :
        /\ listing' = [listing EXCEPT ![m] = l]
        /\ relisted' = relisted \cup
              {d \in Paths : \E sub \in FolderPaths(l) \ FolderPaths(listing[m]) :
                                d = m \o sub}
        /\ UNCHANGED <<disk, req>>

Next ==
    \/ \E r \in Requests :
        \/ Resolve(r)
        \/ ResolveParent(r)
        \/ ResolveBoth(r)
        \/ GetContent(r)
        \/ Write(r)
        \/ CreateCollection(r)
        \/ DeleteFile(r)
        \/ DeleteFolder(r)
        \/ CopyRecursive(r)
        \/ MoveRecursive(r)
    \/ \E m \in Mounts : Reindex(m)

Spec == Init /\ [][Next]_vars

-----------------------------------------------------------------------------
(* Properties *)

\* A folder lists exactly the names that can be opened in it.  Listing
\* (get_member_names) and lookup (get_resource_inst) go through the datadir,
\* the cachelinks and their entries in two different ways, and a folder changes
\* from a cachelink's to a datadir's as soon as something in it is cached.
ListingAgrees ==
    \A u \in Users, path \in WebPaths, n \in Names :
        LET child == Append(path, n)
        IN (/\ child \in WebPaths
            /\ ShareOf[child] = ShareOf[path]
            /\ Resource(u, path, "PROPFIND") \in FolderKinds)
           => (n \in MemberNames(u, path) <=> Resource(u, child, "PROPFIND") # "none")

\* A file that a cachelink lists can be fetched into its place: a file stands
\* where one of its folders has to be only if a call that does not look at the
\* overlay (COPY, MOVE, a PUT whose file was deleted since, a PUT of a user who
\* does not see the cachelink) put it there, or if the remote side turned a file
\* into a folder.
BlockedOnlyByConflict ==
    \A u \in Users, path \in WebPaths :
        Resource(u, path, "GET") = "cachelink_file"
            => \A p \in Parents[At[path]] :
                    disk[p] \in Files => disk[p] = "unchecked" \/ p \in relisted

\* d lies in folders of the datadir that no share lets anybody write to.
WriteProtected(d) ==
    ~\E s \in Shares, u \in Users : IsPrefix(s.base, d) /\ MayWrite(s, u)

\* In a folder that no share lets anybody write to, files appear by caching and
\* nothing else ever changes, whatever other shares are written, copied or
\* moved: the two places that check for permission leave no gap.
ProtectedOnlyFills ==
    [][\A d \in Paths :
        WriteProtected(d) /\ disk'[d] # disk[d]
            => disk[d] = Absent /\ disk'[d] \in {"fetched", Folder}]_vars
=============================================================================
