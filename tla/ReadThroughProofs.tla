-------------------------- MODULE ReadThroughProofs --------------------------
(***************************************************************************)
(* What holds of ReadThrough for any number of requests, files and blocks. *)
(***************************************************************************)
EXTENDS ReadThrough, TLAPS

USE ConstantsAssumption

\* Empty inodes and complete files are file contents.
LEMMA ContentFacts ==
    /\ Empty \in Content
    /\ \A f \in Files : Whole(f) \in Content
BY DEF Empty, Whole, Content

\* Writing a tagged block into a file's content gives a content.
LEMMA ContentWrite ==
    ASSUME NEW c \in Content, NEW b \in Blocks,
           NEW v \in Files \cup Requests \cup {None}
    PROVE  [c EXCEPT ![b] = v] \in Content
BY DEF Content

\* A block of a content carries the tag of whoever wrote it, or none.
LEMMA ContentRead ==
    ASSUME NEW c \in Content, NEW b \in Blocks
    PROVE  c[b] \in Files \cup Requests \cup {None}
BY DEF Content

\* While blocks are left, the next one is a block of the file.
LEMMA NextBlock ==
    ASSUME NEW n \in 0 .. NumBlocks, n < NumBlocks
    PROVE  n + 1 \in Blocks /\ n + 1 \in 0 .. NumBlocks
BY DEF Blocks

\* A write through an open handle (copyfileobj, the PUT body) keeps types.
LEMMA WriteTyped ==
    ASSUME NEW r \in Requests, NEW v \in Files \cup Requests \cup {None},
           TypeOK, fd[r] \in Inodes, WriteNext(r, v)
    PROVE  /\ data' \in [Inodes -> Content]
           /\ pos' \in [Requests -> 0 .. NumBlocks]
<1>1. pos[r] \in 0 .. NumBlocks /\ pos[r] < NumBlocks
  BY DEF WriteNext, TypeOK
<1>2. pos[r] + 1 \in Blocks /\ pos[r] + 1 \in 0 .. NumBlocks
  BY <1>1, NextBlock
<1>3. data[fd[r]] \in Content
  BY DEF TypeOK
<1>4. [data[fd[r]] EXCEPT ![pos[r] + 1] = v] \in Content
  BY <1>2, <1>3, ContentWrite
<1> QED
  BY <1>2, <1>4 DEF WriteNext, TypeOK

\* open(path, "wb") keeps types and yields a handle.
LEMMA OpenTyped ==
    ASSUME NEW r \in Requests, TypeOK, file[r] \in Files, OpenForWriting(r)
    PROVE  /\ datadir' \in [Files -> Inodes \cup {None}]
           /\ data' \in [Inodes -> Content]
           /\ fd' \in [Requests -> Inodes \cup {None}]
           /\ fd'[r] \in Inodes
           /\ pos' \in [Requests -> 0 .. NumBlocks]
<1> DEFINE i == IF datadir[file[r]] = None THEN <<r, "datadir">>
                                           ELSE datadir[file[r]]
<1>1. i \in Inodes
  BY DEF TypeOK, Inodes
<1>2. /\ datadir' = [datadir EXCEPT ![file[r]] = i]
      /\ data' = [data EXCEPT ![i] = Empty]
      /\ fd' = [fd EXCEPT ![r] = i]
      /\ pos' = [pos EXCEPT ![r] = 0]
  BY DEF OpenForWriting
<1> HIDE DEF i
<1> QED
  BY <1>1, <1>2, ContentFacts DEF TypeOK

\* The type invariant holds of every behaviour: in particular a handler only
\* reads or writes through a handle it has, and never beyond the last block.
THEOREM TypeCorrect == Spec => []TypeOK
<1>1. Init => TypeOK
  <2> SUFFICES ASSUME Init PROVE TypeOK
    OBVIOUS
  <2>1. /\ oneVolume \in BOOLEAN
        /\ datadir \in [Files -> Inodes \cup {None}]
        /\ data \in [Inodes -> Content]
        /\ staging \subseteq Requests
        /\ checksum \in [Files -> Content \cup {None}]
        /\ needsFull \in BOOLEAN
    BY ContentFacts DEF Init
  <2>2. /\ pc \in [Requests -> States]
        /\ \A r \in Requests : pc[r] = "idle"
    BY DEF Init, States
  <2>3. /\ op \in [Requests -> Methods \cup {None}]
        /\ file \in [Requests -> Files \cup {None}]
        /\ fd \in [Requests -> Inodes \cup {None}]
        /\ pos \in [Requests -> 0 .. NumBlocks]
        /\ digest \in [Requests -> Content \cup {None}]
        /\ answer \in [Requests -> Answers]
    BY DEF Init, Answers
  <2>4. /\ body \in [Requests -> Content]
        /\ missers \in [Requests -> SUBSET Requests]
    BY ContentFacts DEF Init
  <2> QED
    BY <2>1, <2>2, <2>3, <2>4 DEF TypeOK
<1>2. TypeOK /\ [Next]_vars => TypeOK'
  <2> SUFFICES ASSUME TypeOK, [Next]_vars PROVE TypeOK'
    OBVIOUS
  <2> USE ContentFacts
      DEF TypeOK, States, Methods, Answers, disk, tables, request, local, result
  <2>1. ASSUME NEW r \in Requests, Dispatch(r) PROVE TypeOK'
    <3>1. PICK m \in Methods, f \in Files :
            /\ op' = [op EXCEPT ![r] = m]
            /\ file' = [file EXCEPT ![r] = f]
      BY <2>1 DEF Dispatch
    <3>2. /\ pc' \in [Requests -> States]
          /\ pc'[r] \notin {"copy", "serve", "write", "record"}
          /\ \A s \in Requests \ {r} : pc'[s] = pc[s]
      BY <2>1 DEF Dispatch, Goto
    <3> QED
      BY <2>1, <3>1, <3>2 DEF Dispatch
  <2>2. ASSUME NEW r \in Requests, GetContentHit(r) PROVE TypeOK'
    BY <2>2 DEF GetContentHit, Goto, Finish, Inodes
  <2>3. ASSUME NEW r \in Requests, GetContentMiss(r) PROVE TypeOK'
    BY <2>3 DEF GetContentMiss, Goto, Finish, Inodes
  <2>4. ASSUME NEW r \in Requests, DownloadSucceeds(r) PROVE TypeOK'
    BY <2>4 DEF DownloadSucceeds, Goto, Finish, Inodes, StagingFile
  <2>5. ASSUME NEW r \in Requests, DownloadFails(r) PROVE TypeOK'
    <3>1. PICK outcome \in {"error", "not_removed"} : Finish(r, outcome)
      BY <2>5 DEF DownloadFails
    <3>2. /\ pc' = [pc EXCEPT ![r] = "done"]
          /\ answer' \in [Requests -> Answers]
          /\ fd' = [fd EXCEPT ![r] = None] /\ pos' = [pos EXCEPT ![r] = 0]
          /\ digest' = [digest EXCEPT ![r] = None]
      BY <3>1 DEF Goto, Finish, Answers
    <3>3. staging' \subseteq Requests /\ needsFull' \in BOOLEAN
      BY <2>5 DEF DownloadFails
    <3> QED
      BY <2>5, <3>2, <3>3 DEF DownloadFails
  <2>6. ASSUME NEW r \in Requests, InstallByRename(r) PROVE TypeOK'
    BY <2>6 DEF InstallByRename, Goto, Finish, Inodes, StagingFile
  <2>7. ASSUME NEW r \in Requests, InstallByCopy(r) PROVE TypeOK'
    <3>1. file[r] \in Files
      BY <2>7 DEF InstallByCopy
    <3>2. OpenForWriting(r)
      BY <2>7 DEF InstallByCopy
    <3> QED
      <4>1. /\ datadir' \in [Files -> Inodes \cup {None}]
            /\ data' \in [Inodes -> Content]
            /\ fd' \in [Requests -> Inodes \cup {None}]
            /\ fd'[r] \in Inodes
            /\ pos' \in [Requests -> 0 .. NumBlocks]
        BY <3>1, <3>2, OpenTyped
      <4>2. \A s \in Requests \ {r} : fd'[s] = fd[s]
        BY <3>2 DEF OpenForWriting
      <4> QED
        BY <2>7, <4>1, <4>2 DEF InstallByCopy, Goto
  <2>8. ASSUME NEW r \in Requests, CopyBlock(r) PROVE TypeOK'
    <3>1. /\ data' \in [Inodes -> Content]
          /\ pos' \in [Requests -> 0 .. NumBlocks]
      <4> DEFINE v == data[StagingFile(r)][pos[r] + 1]
      <4>1. pos[r] + 1 \in Blocks
        BY <2>8, NextBlock DEF CopyBlock, WriteNext
      <4>2. data[StagingFile(r)] \in Content
        BY DEF StagingFile, Inodes
      <4>3. v \in Files \cup Requests \cup {None}
        BY <4>1, <4>2, ContentRead
      <4>4. WriteNext(r, v) /\ fd[r] \in Inodes
        BY <2>8 DEF CopyBlock
      <4> HIDE DEF v
      <4> QED
        BY <4>3, <4>4, WriteTyped
    <3> QED
      BY <2>8, <3>1 DEF CopyBlock
  <2>9. ASSUME NEW r \in Requests, CopyDone(r) PROVE TypeOK'
    BY <2>9 DEF CopyDone, Goto, Finish, Inodes
  <2>10. ASSUME NEW r \in Requests, InstallFails(r) PROVE TypeOK'
    BY <2>10 DEF InstallFails, Goto, Finish, Inodes
  <2>11. ASSUME NEW r \in Requests, HashFile(r) PROVE TypeOK'
    <3>1. CASE datadir[file[r]] # None
      <4>1. data[datadir[file[r]]] \in Content
        BY <2>11, <3>1 DEF HashFile
      <4>2. digest' \in [Requests -> Content \cup {None}] /\ digest'[r] \in Content
        BY <2>11, <3>1, <4>1 DEF HashFile
      <4> QED
        BY <2>11, <3>1, <4>2 DEF HashFile, Goto
    <3>2. CASE datadir[file[r]] = None
      BY <2>11, <3>2 DEF HashFile, Goto
    <3> QED
      BY <3>1, <3>2
  <2>12. ASSUME NEW r \in Requests, RecordChecksum(r) PROVE TypeOK'
    BY <2>12 DEF RecordChecksum, Goto, Finish, Inodes
  <2>13. ASSUME NEW r \in Requests, Open(r) PROVE TypeOK'
    BY <2>13 DEF Open, Goto, Finish, Inodes
  <2>14. ASSUME NEW r \in Requests, RequestFails(r) PROVE TypeOK'
    BY <2>14 DEF RequestFails, Goto, Finish, Inodes
  <2>15. ASSUME NEW r \in Requests, ServeBlock(r) PROVE TypeOK'
    <3>1. pos[r] + 1 \in Blocks /\ pos[r] + 1 \in 0 .. NumBlocks
      BY <2>15, NextBlock DEF ServeBlock
    <3>2. data[fd[r]] \in Content
      BY <2>15 DEF ServeBlock
    <3>3. [body[r] EXCEPT ![pos[r] + 1] = data[fd[r]][pos[r] + 1]] \in Content
      BY <3>1, <3>2, ContentRead, ContentWrite
    <3> QED
      BY <2>15, <3>1, <3>3 DEF ServeBlock
  <2>16. ASSUME NEW r \in Requests, ServeDone(r) PROVE TypeOK'
    BY <2>16 DEF ServeDone, Goto, Finish, Inodes
  <2>17. ASSUME NEW r \in Requests, BeginWrite(r) PROVE TypeOK'
    <3>1. file[r] \in Files
      BY <2>17 DEF BeginWrite
    <3>2. OpenForWriting(r)
      BY <2>17 DEF BeginWrite
    <3> QED
      <4>1. /\ datadir' \in [Files -> Inodes \cup {None}]
            /\ data' \in [Inodes -> Content]
            /\ fd' \in [Requests -> Inodes \cup {None}]
            /\ fd'[r] \in Inodes
            /\ pos' \in [Requests -> 0 .. NumBlocks]
        BY <3>1, <3>2, OpenTyped
      <4>2. \A s \in Requests \ {r} : fd'[s] = fd[s]
        BY <3>2 DEF OpenForWriting
      <4>3. missers' \in [Requests -> SUBSET Requests]
        BY <2>17 DEF BeginWrite, Fetching
      <4> QED
        BY <2>17, <4>1, <4>2, <4>3 DEF BeginWrite, Goto
  <2>18. ASSUME NEW r \in Requests, WriteBlock(r) PROVE TypeOK'
    <3>1. /\ data' \in [Inodes -> Content]
          /\ pos' \in [Requests -> 0 .. NumBlocks]
      BY <2>18, WriteTyped, ContentRead, NextBlock
         DEF WriteBlock
    <3> QED
      BY <2>18, <3>1 DEF WriteBlock
  <2>19. ASSUME NEW r \in Requests, EndWrite(r) PROVE TypeOK'
    BY <2>19 DEF EndWrite, Goto, Finish, Inodes
  <2>20. ASSUME NEW r \in Requests, AbortWrite(r) PROVE TypeOK'
    BY <2>20 DEF AbortWrite, Goto, Finish, Inodes
  <2>21. ASSUME NEW r \in Requests, Delete(r) PROVE TypeOK'
    <3>1. datadir' \in [Files -> Inodes \cup {None}]
      BY <2>21 DEF Delete
    <3>2. Finish(r, "ok") \/ Finish(r, "error")
      BY <2>21 DEF Delete
    <3>3. /\ pc' = [pc EXCEPT ![r] = "done"]
          /\ answer' \in [Requests -> Answers]
          /\ fd' = [fd EXCEPT ![r] = None] /\ pos' = [pos EXCEPT ![r] = 0]
          /\ digest' = [digest EXCEPT ![r] = None]
      BY <3>2 DEF Goto, Finish, Answers
    <3> QED
      BY <2>21, <3>1, <3>3 DEF Delete
  <2>22. ASSUME NEW r \in Requests, ReserveRaises(r) PROVE TypeOK'
    BY <2>22 DEF ReserveRaises, Goto, Finish, Inodes
  <2>23. ASSUME NEW r \in Requests, DownloadRaises(r) PROVE TypeOK'
    BY <2>23 DEF DownloadRaises, Goto, Finish, Inodes
  <2>c. CASE Crash
    BY <2>c DEF Crash
  <2>s. CASE UNCHANGED vars
    BY <2>s DEF vars
  <2> QED
    BY <2>1, <2>2, <2>3, <2>4, <2>5, <2>6, <2>7, <2>8, <2>9, <2>10,
       <2>11, <2>12, <2>13, <2>14, <2>15, <2>16, <2>17, <2>18, <2>19,
       <2>20, <2>21, <2>22, <2>23, <2>c, <2>s
       DEF Next, Handle
<1> QED
  BY <1>1, <1>2, PTL DEF Spec

-----------------------------------------------------------------------------
(***************************************************************************)
(* On one volume, a path without uploads holds complete files only.  The   *)
(* invariant CleanInv is inductive together with TypeOK: each action below *)
(* has one step per conjunct of it.                                        *)
(***************************************************************************)
\* The last conjunct of CleanInv.
CleanRequests ==
    \A r \in Requests :
        oneVolume /\ file[r] # None /\ NoUpload(file[r]) => CleanRequest(r)

\* Every step of a request, and a crash of the process, keeps CleanInv.
LEMMA CleanNext ==
    ASSUME TypeOK, CleanInv, [Next]_vars, TypeOK'
    PROVE  CleanInv'
<1> USE DEF disk, tables, request, local, result
<1>1. ASSUME NEW r \in Requests, Dispatch(r) PROVE CleanInv'
  <2>1. Ownership'
    BY <1>1 DEF TypeOK, CleanInv, Ownership, Creator, Dispatch, Goto
  <2>2. Roles'
    BY <1>1 DEF TypeOK, CleanInv, Roles, Dispatch, Goto
  <2>3. CleanFill'
    BY <1>1
       DEF TypeOK, CleanInv, Ownership, Roles, CleanFill,
           CleanRequest, Creator, NoUpload, Dispatch, Goto
  <2>4. CleanRequests'
    <3> SUFFICES ASSUME NEW s \in Requests, oneVolume, file'[s] # None,
                        NoUpload(file[s])'
                 PROVE  CleanRequest(s)'
      BY <1>1 DEF CleanRequests, Dispatch
    <3>1. CASE s = r
      <4>1. pc'[r] \in {"open", "get_content", "begin_write", "delete"}
        BY <1>1 DEF TypeOK, Dispatch, Goto
      <4>2. answer'[r] = "pending"
        BY <1>1 DEF CleanInv, Roles, Dispatch
      <4> QED
        BY <3>1, <4>1, <4>2 DEF CleanRequest
    <3>2. CASE s # r
      <4>1. file'[s] = file[s] /\ pc'[s] = pc[s] /\ op'[s] = op[s]
        BY <1>1, <3>2 DEF Dispatch, Goto, TypeOK
      <4>2. NoUpload(file[s])
        BY <1>1, <4>1 DEF Dispatch, NoUpload, TypeOK, CleanInv, Ownership
      <4>3. CleanRequest(s)
        BY <4>1, <4>2, <1>1 DEF CleanInv, Dispatch
      <4> QED
        BY <4>1, <4>3, <1>1 DEF CleanRequest, Dispatch, StagingFile
    <3> QED
      BY <3>1, <3>2
  <2> QED
    BY <2>1, <2>2, <2>3, <2>4 DEF CleanInv, CleanRequests
<1>2. ASSUME NEW r \in Requests, GetContentHit(r) PROVE CleanInv'
  <2>1. Ownership'
    BY <1>2 DEF TypeOK, CleanInv, Ownership, Creator, GetContentHit, Goto
  <2>2. Roles'
    BY <1>2 DEF TypeOK, CleanInv, Roles, GetContentHit, Goto
  <2>3. CleanFill'
    BY <1>2 DEF CleanInv, CleanFill, NoUpload, GetContentHit, Goto
  <2>4. CleanRequests'
    BY <1>2
       DEF TypeOK, CleanInv, Roles, CleanRequests, CleanRequest,
           NoUpload, GetContentHit, Goto, StagingFile
  <2> QED
    BY <2>1, <2>2, <2>3, <2>4 DEF CleanInv, CleanRequests
<1>3. ASSUME NEW r \in Requests, GetContentMiss(r) PROVE CleanInv'
  <2>1. Ownership'
    BY <1>3 DEF TypeOK, CleanInv, Ownership, Creator, GetContentMiss, Goto
  <2>2. Roles'
    BY <1>3 DEF TypeOK, CleanInv, Roles, GetContentMiss, Goto
  <2>3. CleanFill'
    BY <1>3 DEF CleanInv, CleanFill, NoUpload, GetContentMiss, Goto
  <2>4. CleanRequests'
    BY <1>3
       DEF TypeOK, CleanInv, Roles, CleanRequests, CleanRequest,
           NoUpload, GetContentMiss, Goto, StagingFile
  <2> QED
    BY <2>1, <2>2, <2>3, <2>4 DEF CleanInv, CleanRequests
<1>4. ASSUME NEW r \in Requests, DownloadSucceeds(r) PROVE CleanInv'
  <2>1. Ownership'
    BY <1>4
       DEF TypeOK, CleanInv, Ownership, Creator, DownloadSucceeds,
           Goto, StagingFile
  <2>2. Roles'
    BY <1>4 DEF TypeOK, CleanInv, Roles, DownloadSucceeds, Goto, StagingFile
  <2>3. CleanFill'
    BY <1>4
       DEF TypeOK, CleanInv, Ownership, Roles, CleanFill,
           CleanRequest, Creator, NoUpload, DownloadSucceeds, Goto,
           StagingFile
  <2>4. CleanRequests'
    <3> SUFFICES ASSUME NEW s \in Requests, oneVolume, file[s] # None,
                        NoUpload(file[s])
                 PROVE  CleanRequest(s)'
      BY <1>4 DEF CleanRequests, NoUpload, DownloadSucceeds
    <3>1. CleanRequest(s)
      BY DEF CleanInv
    <3>2. CASE file[s] = file[r]
      <4>1. /\ pc'[s] = "install" => data'[StagingFile(s)] = Whole(file[s])
            /\ pc'[s] = "serve" => data'[fd[s]] = Whole(file[s])
        BY <1>4, <3>1, <3>2
           DEF TypeOK, CleanRequest, DownloadSucceeds, Goto, StagingFile, Inodes
      <4> QED
        BY <1>4, <3>1, <4>1
           DEF TypeOK, CleanRequest, DownloadSucceeds, Goto
    <3>3. CASE file[s] # file[r]
      <4>1. s # r /\ pc'[s] = pc[s] /\ data'[StagingFile(s)] = data[StagingFile(s)]
        BY <1>4, <3>3 DEF TypeOK, DownloadSucceeds, Goto, StagingFile, Inodes
      <4>2. pc[s] = "serve" => data'[fd[s]] = data[fd[s]]
        BY <1>4, <3>3
           DEF TypeOK, CleanInv, Ownership, Creator, DownloadSucceeds, StagingFile
      <4> QED
        BY <1>4, <3>1, <4>1, <4>2 DEF CleanRequest, DownloadSucceeds
    <3> QED
      BY <3>2, <3>3
  <2> QED
    BY <2>1, <2>2, <2>3, <2>4 DEF CleanInv, CleanRequests
<1>5. ASSUME NEW r \in Requests, DownloadFails(r) PROVE CleanInv'
  <2>1. Ownership'
    BY <1>5
       DEF TypeOK, CleanInv, Ownership, Creator, DownloadFails, Goto,
           Finish
  <2>2. Roles'
    BY <1>5 DEF TypeOK, CleanInv, Roles, DownloadFails, Goto, Finish
  <2>3. CleanFill'
    BY <1>5 DEF CleanInv, CleanFill, NoUpload, DownloadFails, Goto, Finish
  <2>4. CleanRequests'
    BY <1>5
       DEF TypeOK, CleanInv, Roles, CleanRequests, CleanRequest,
           NoUpload, DownloadFails, Goto, Finish, StagingFile
  <2> QED
    BY <2>1, <2>2, <2>3, <2>4 DEF CleanInv, CleanRequests
<1>6. ASSUME NEW r \in Requests, InstallByRename(r) PROVE CleanInv'
  <2>1. Ownership'
    BY <1>6
       DEF TypeOK, CleanInv, Ownership, Creator, InstallByRename,
           Goto, StagingFile
  <2>2. Roles'
    BY <1>6 DEF TypeOK, CleanInv, Roles, InstallByRename, Goto, StagingFile
  <2>3. CleanFill'
    BY <1>6
       DEF TypeOK, CleanInv, Ownership, Roles, CleanFill,
           CleanRequest, Creator, NoUpload, InstallByRename, Goto,
           StagingFile
  <2>4. CleanRequests'
    BY <1>6
       DEF TypeOK, CleanInv, Ownership, Roles, CleanFill,
           CleanRequests, CleanRequest, Creator, NoUpload,
           InstallByRename, Goto, StagingFile
  <2> QED
    BY <2>1, <2>2, <2>3, <2>4 DEF CleanInv, CleanRequests
<1>7. ASSUME NEW r \in Requests, InstallByCopy(r) PROVE CleanInv'
  <2>1. Ownership'
    BY <1>7
       DEF TypeOK, CleanInv, Ownership, Creator, InstallByCopy, Goto,
           OpenForWriting
  <2>2. Roles'
    BY <1>7 DEF TypeOK, CleanInv, Roles, InstallByCopy, Goto, OpenForWriting
  <2>3. CleanFill'
    BY <1>7
       DEF TypeOK, CleanInv, Ownership, Roles, CleanFill,
           CleanRequest, Creator, NoUpload, InstallByCopy, Goto,
           OpenForWriting, StagingFile
  <2>4. CleanRequests'
    BY <1>7
       DEF TypeOK, CleanInv, Ownership, Roles, CleanFill,
           CleanRequests, CleanRequest, Creator, NoUpload,
           InstallByCopy, Goto, OpenForWriting, StagingFile
  <2> QED
    BY <2>1, <2>2, <2>3, <2>4 DEF CleanInv, CleanRequests
<1>8. ASSUME NEW r \in Requests, CopyBlock(r) PROVE CleanInv'
  <2>1. Ownership'
    BY <1>8 DEF TypeOK, CleanInv, Ownership, Creator, CopyBlock, WriteNext
  <2>2. Roles'
    BY <1>8 DEF TypeOK, CleanInv, Roles, CopyBlock, WriteNext
  <2>3. CleanFill'
    BY <1>8
       DEF TypeOK, CleanInv, Ownership, Roles, CleanFill,
           CleanRequest, Creator, NoUpload, CopyBlock, WriteNext,
           StagingFile
  <2>4. CleanRequests'
    BY <1>8
       DEF TypeOK, CleanInv, Roles, CleanRequests, CleanRequest,
           NoUpload, CopyBlock, WriteNext, StagingFile
  <2> QED
    BY <2>1, <2>2, <2>3, <2>4 DEF CleanInv, CleanRequests
<1>9. ASSUME NEW r \in Requests, CopyDone(r) PROVE CleanInv'
  <2>1. Ownership'
    BY <1>9 DEF TypeOK, CleanInv, Ownership, Creator, CopyDone, Goto
  <2>2. Roles'
    BY <1>9 DEF TypeOK, CleanInv, Roles, CopyDone, Goto
  <2>3. CleanFill'
    BY <1>9 DEF CleanInv, CleanFill, NoUpload, CopyDone, Goto
  <2>4. CleanRequests'
    BY <1>9
       DEF TypeOK, CleanInv, Roles, CleanRequests, CleanRequest,
           NoUpload, CopyDone, Goto, StagingFile
  <2> QED
    BY <2>1, <2>2, <2>3, <2>4 DEF CleanInv, CleanRequests
<1>10. ASSUME NEW r \in Requests, InstallFails(r) PROVE CleanInv'
  <2>1. Ownership'
    BY <1>10
       DEF TypeOK, CleanInv, Ownership, Creator, InstallFails, Goto,
           Finish
  <2>2. Roles'
    BY <1>10 DEF TypeOK, CleanInv, Roles, InstallFails, Goto, Finish
  <2>3. CleanFill'
    BY <1>10 DEF CleanInv, CleanFill, NoUpload, InstallFails, Goto, Finish
  <2>4. CleanRequests'
    BY <1>10
       DEF TypeOK, CleanInv, Roles, CleanRequests, CleanRequest,
           NoUpload, InstallFails, Goto, Finish, StagingFile
  <2> QED
    BY <2>1, <2>2, <2>3, <2>4 DEF CleanInv, CleanRequests
<1>11. ASSUME NEW r \in Requests, HashFile(r) PROVE CleanInv'
  <2>1. Ownership'
    BY <1>11 DEF TypeOK, CleanInv, Ownership, Creator, HashFile, Goto
  <2>2. Roles'
    BY <1>11 DEF TypeOK, CleanInv, Roles, HashFile, Goto
  <2>3. CleanFill'
    BY <1>11 DEF CleanInv, CleanFill, NoUpload, HashFile, Goto
  <2>4. CleanRequests'
    BY <1>11
       DEF TypeOK, CleanInv, Ownership, Roles, CleanFill,
           CleanRequests, CleanRequest, Creator, NoUpload, HashFile,
           Goto, StagingFile
  <2> QED
    BY <2>1, <2>2, <2>3, <2>4 DEF CleanInv, CleanRequests
<1>12. ASSUME NEW r \in Requests, RecordChecksum(r) PROVE CleanInv'
  <2>1. Ownership'
    BY <1>12 DEF TypeOK, CleanInv, Ownership, Creator, RecordChecksum, Goto
  <2>2. Roles'
    BY <1>12 DEF TypeOK, CleanInv, Roles, RecordChecksum, Goto
  <2>3. CleanFill'
    <3> SUFFICES ASSUME NEW f \in Files, oneVolume, NoUpload(f)
                 PROVE  /\ datadir[f] # None => data[datadir[f]] = Whole(f)
                        /\ checksum'[f] \in {None, Whole(f)}
      BY <1>12 DEF CleanFill, NoUpload, RecordChecksum
    <3>1. /\ datadir[f] # None => data[datadir[f]] = Whole(f)
          /\ checksum[f] \in {None, Whole(f)}
      BY DEF CleanInv, CleanFill
    <3>2. CASE file[r] = f
      <4>1. digest[r] = Whole(f)
        BY <1>12, <3>2 DEF CleanInv, CleanRequest, RecordChecksum
      <4> QED
        BY <1>12, <3>1, <4>1 DEF TypeOK, RecordChecksum
    <3>3. CASE file[r] # f
      BY <1>12, <3>1, <3>3 DEF TypeOK, RecordChecksum
    <3> QED
      BY <3>2, <3>3
  <2>4. CleanRequests'
    BY <1>12
       DEF TypeOK, CleanInv, Ownership, Roles, CleanFill,
           CleanRequests, CleanRequest, Creator, NoUpload,
           RecordChecksum, Goto, StagingFile
  <2> QED
    BY <2>1, <2>2, <2>3, <2>4 DEF CleanInv, CleanRequests
<1>13. ASSUME NEW r \in Requests, Open(r) PROVE CleanInv'
  <2>1. Ownership'
    BY <1>13 DEF TypeOK, CleanInv, Ownership, Creator, Open, Goto
  <2>2. Roles'
    BY <1>13 DEF TypeOK, CleanInv, Roles, Open, Goto
  <2>3. CleanFill'
    BY <1>13 DEF CleanInv, CleanFill, NoUpload, Open, Goto
  <2>4. CleanRequests'
    BY <1>13
       DEF TypeOK, CleanInv, Ownership, Roles, CleanFill,
           CleanRequests, CleanRequest, Creator, NoUpload, Open, Goto,
           StagingFile
  <2> QED
    BY <2>1, <2>2, <2>3, <2>4 DEF CleanInv, CleanRequests
<1>14. ASSUME NEW r \in Requests, RequestFails(r) PROVE CleanInv'
  <2>1. Ownership'
    BY <1>14
       DEF TypeOK, CleanInv, Ownership, Creator, RequestFails, Goto,
           Finish
  <2>2. Roles'
    BY <1>14 DEF TypeOK, CleanInv, Roles, RequestFails, Goto, Finish
  <2>3. CleanFill'
    BY <1>14 DEF CleanInv, CleanFill, NoUpload, RequestFails, Goto, Finish
  <2>4. CleanRequests'
    BY <1>14
       DEF TypeOK, CleanInv, Roles, CleanRequests, CleanRequest,
           NoUpload, RequestFails, Goto, Finish, StagingFile
  <2> QED
    BY <2>1, <2>2, <2>3, <2>4 DEF CleanInv, CleanRequests
<1>15. ASSUME NEW r \in Requests, ServeBlock(r) PROVE CleanInv'
  <2>1. Ownership'
    BY <1>15 DEF TypeOK, CleanInv, Ownership, Creator, ServeBlock
  <2>2. Roles'
    BY <1>15 DEF TypeOK, CleanInv, Roles, ServeBlock
  <2>3. CleanFill'
    BY <1>15 DEF CleanInv, CleanFill, NoUpload, ServeBlock
  <2>4. CleanRequests'
    <3> SUFFICES ASSUME NEW s \in Requests, oneVolume, file[s] # None,
                        NoUpload(file[s])
                 PROVE  CleanRequest(s)'
      BY <1>15 DEF CleanRequests, NoUpload, ServeBlock
    <3>1. CleanRequest(s)
      BY DEF CleanInv
    <3>2. CASE s = r
      <4>1. /\ data[fd[r]] = Whole(file[r]) /\ fd[r] \in Inodes
            /\ \A b \in 1 .. pos[r] : body[r][b] = file[r]
        BY <1>15, <3>1, <3>2 DEF TypeOK, CleanRequest, ServeBlock
      <4>2. pos[r] + 1 \in Blocks /\ pos[r] \in 0 .. NumBlocks
        BY <1>15, NextBlock DEF TypeOK, ServeBlock
      <4>3. data[fd[r]][pos[r] + 1] = file[r]
        BY <4>1, <4>2 DEF Whole
      <4>4. body'[r] = [body[r] EXCEPT ![pos[r] + 1] = file[r]]
        BY <1>15, <4>3 DEF TypeOK, ServeBlock
      <4>5. body[r] \in [Blocks -> Files \cup Requests \cup {None}]
        BY DEF TypeOK, Content
      <4>6. \A b \in 1 .. pos[r] + 1 : body'[r][b] = file[r]
        <5> SUFFICES ASSUME NEW b \in 1 .. pos[r] + 1 PROVE body'[r][b] = file[r]
          OBVIOUS
        <5>1. b \in Blocks
          BY <4>2 DEF Blocks
        <5>2. CASE b = pos[r] + 1
          BY <4>4, <4>5, <5>1, <5>2
        <5>3. CASE b # pos[r] + 1
          <6>1. b \in 1 .. pos[r]
            BY <4>2, <5>3
          <6> QED
            BY <4>1, <4>4, <4>5, <5>1, <5>3, <6>1
        <5> QED
          BY <5>2, <5>3
      <4>7. /\ pc'[r] = "serve" /\ pc[r] = "serve" /\ pos'[r] = pos[r] + 1
            /\ data' = data /\ fd' = fd /\ file' = file /\ answer' = answer
        BY <1>15 DEF TypeOK, ServeBlock
      <4>8. answer[r] # "ok"
        BY <4>7 DEF CleanInv, Roles
      <4> QED
        BY <3>2, <4>1, <4>6, <4>7, <4>8 DEF CleanRequest
    <3>3. CASE s # r
      BY <1>15, <3>1, <3>3 DEF TypeOK, CleanRequest, ServeBlock, StagingFile
    <3> QED
      BY <3>2, <3>3
  <2> QED
    BY <2>1, <2>2, <2>3, <2>4 DEF CleanInv, CleanRequests
<1>16. ASSUME NEW r \in Requests, ServeDone(r) PROVE CleanInv'
  <2>1. Ownership'
    BY <1>16
       DEF TypeOK, CleanInv, Ownership, Creator, ServeDone, Goto,
           Finish
  <2>2. Roles'
    BY <1>16 DEF TypeOK, CleanInv, Roles, ServeDone, Goto, Finish
  <2>3. CleanFill'
    BY <1>16 DEF CleanInv, CleanFill, NoUpload, ServeDone, Goto, Finish
  <2>4. CleanRequests'
    <3> SUFFICES ASSUME NEW s \in Requests, oneVolume, file[s] # None,
                        NoUpload(file[s])
                 PROVE  CleanRequest(s)'
      BY <1>16 DEF CleanRequests, NoUpload, ServeDone, Finish
    <3>1. CleanRequest(s)
      BY DEF CleanInv
    <3>2. CASE s = r
      <4>1. \A b \in Blocks : body[r][b] = file[r]
        BY <1>16, <3>1, <3>2 DEF CleanRequest, ServeDone, Blocks
      <4>2. body[r] \in [Blocks -> Files \cup Requests \cup {None}]
        BY DEF TypeOK, Content
      <4>3. body[r] = Whole(file[r])
        BY <4>1, <4>2 DEF Whole
      <4>4. pc'[r] = "done" /\ body' = body /\ file' = file
        BY <1>16 DEF TypeOK, ServeDone, Finish, Goto
      <4> QED
        BY <3>2, <4>3, <4>4 DEF CleanRequest
    <3>3. CASE s # r
      BY <1>16, <3>1, <3>3
         DEF TypeOK, CleanRequest, ServeDone, Finish, Goto, StagingFile
    <3> QED
      BY <3>2, <3>3
  <2> QED
    BY <2>1, <2>2, <2>3, <2>4 DEF CleanInv, CleanRequests
<1>17. ASSUME NEW r \in Requests, BeginWrite(r) PROVE CleanInv'
  <2>1. Ownership'
    BY <1>17
       DEF TypeOK, CleanInv, Ownership, Creator, BeginWrite, Goto,
           OpenForWriting
  <2>2. Roles'
    BY <1>17 DEF TypeOK, CleanInv, Roles, BeginWrite, Goto, OpenForWriting
  <2>3. CleanFill'
    BY <1>17
       DEF TypeOK, CleanInv, Ownership, Roles, CleanFill,
           CleanRequest, Creator, NoUpload, BeginWrite, Goto,
           OpenForWriting, StagingFile
  <2>4. CleanRequests'
    <3> SUFFICES ASSUME NEW s \in Requests, oneVolume, file[s] # None,
                        NoUpload(file[s])
                 PROVE  CleanRequest(s)'
      BY <1>17 DEF CleanRequests, NoUpload, BeginWrite
    <3>1. CleanRequest(s)
      BY DEF CleanInv
    <3>2. op[r] = "PUT" /\ file[s] # file[r] /\ s # r
      BY <1>17 DEF CleanInv, Roles, BeginWrite, NoUpload
    <3> DEFINE i == IF datadir[file[r]] = None THEN <<r, "datadir">>
                                               ELSE datadir[file[r]]
    <3>3. data' = [data EXCEPT ![i] = Empty] /\ fd' = [fd EXCEPT ![r] = i]
          /\ pos' = [pos EXCEPT ![r] = 0]
      BY <1>17 DEF BeginWrite, OpenForWriting
    <3>4. file[Creator(i)] = file[r]
      BY <1>17 DEF CleanInv, Ownership, Creator, TypeOK, BeginWrite
    <3>5. StagingFile(s) # i /\ (fd[s] # None => fd[s] # i)
      BY <3>2, <3>4 DEF CleanInv, Ownership, Creator, StagingFile
    <3> HIDE DEF i
    <3>6. /\ data'[StagingFile(s)] = data[StagingFile(s)]
          /\ pc[s] = "serve" => data'[fd[s]] = data[fd[s]]
          /\ pc'[s] = pc[s] /\ fd'[s] = fd[s] /\ pos'[s] = pos[s]
      BY <1>17, <3>2, <3>3, <3>5
         DEF TypeOK, BeginWrite, Goto, StagingFile, Inodes
    <3> QED
      BY <1>17, <3>1, <3>6 DEF CleanRequest, BeginWrite
  <2> QED
    BY <2>1, <2>2, <2>3, <2>4 DEF CleanInv, CleanRequests
<1>18. ASSUME NEW r \in Requests, WriteBlock(r) PROVE CleanInv'
  <2>1. Ownership'
    BY <1>18 DEF TypeOK, CleanInv, Ownership, Creator, WriteBlock, WriteNext
  <2>2. Roles'
    BY <1>18 DEF TypeOK, CleanInv, Roles, WriteBlock, WriteNext
  <2>3. CleanFill'
    BY <1>18
       DEF TypeOK, CleanInv, Ownership, Roles, CleanFill,
           CleanRequest, Creator, NoUpload, WriteBlock, WriteNext,
           StagingFile
  <2>4. CleanRequests'
    <3> SUFFICES ASSUME NEW s \in Requests, oneVolume, file[s] # None,
                        NoUpload(file[s])
                 PROVE  CleanRequest(s)'
      BY <1>18 DEF CleanRequests, NoUpload, WriteBlock
    <3>1. CleanRequest(s)
      BY DEF CleanInv
    <3>2. op[r] = "PUT" /\ file[s] # file[r] /\ s # r
      BY <1>18 DEF CleanInv, Roles, WriteBlock, NoUpload
    <3>3. StagingFile(s) # fd[r] /\ (fd[s] # None => fd[s] # fd[r])
      BY <1>18, <3>2
         DEF TypeOK, CleanInv, Ownership, Creator, StagingFile, WriteBlock, Inodes
    <3>4. /\ data'[StagingFile(s)] = data[StagingFile(s)]
          /\ pc[s] = "serve" => data'[fd[s]] = data[fd[s]]
          /\ pos'[s] = pos[s]
      BY <1>18, <3>2, <3>3 DEF TypeOK, WriteBlock, WriteNext, StagingFile, Inodes
    <3> QED
      BY <1>18, <3>1, <3>4 DEF CleanRequest, WriteBlock
  <2> QED
    BY <2>1, <2>2, <2>3, <2>4 DEF CleanInv, CleanRequests
<1>19. ASSUME NEW r \in Requests, EndWrite(r) PROVE CleanInv'
  <2>1. Ownership'
    BY <1>19 DEF TypeOK, CleanInv, Ownership, Creator, EndWrite, Goto, Finish
  <2>2. Roles'
    BY <1>19 DEF TypeOK, CleanInv, Roles, EndWrite, Goto, Finish
  <2>3. CleanFill'
    BY <1>19 DEF CleanInv, CleanFill, NoUpload, EndWrite, Goto, Finish
  <2>4. CleanRequests'
    BY <1>19
       DEF TypeOK, CleanInv, Roles, CleanRequests, CleanRequest,
           NoUpload, EndWrite, Goto, Finish, StagingFile
  <2> QED
    BY <2>1, <2>2, <2>3, <2>4 DEF CleanInv, CleanRequests
<1>20. ASSUME NEW r \in Requests, AbortWrite(r) PROVE CleanInv'
  <2>1. Ownership'
    BY <1>20
       DEF TypeOK, CleanInv, Ownership, Creator, AbortWrite, Goto,
           Finish
  <2>2. Roles'
    BY <1>20 DEF TypeOK, CleanInv, Roles, AbortWrite, Goto, Finish
  <2>3. CleanFill'
    BY <1>20
       DEF TypeOK, CleanInv, Ownership, Roles, CleanFill,
           CleanRequest, Creator, NoUpload, AbortWrite, Goto, Finish,
           StagingFile
  <2>4. CleanRequests'
    BY <1>20
       DEF TypeOK, CleanInv, Roles, CleanRequests, CleanRequest,
           NoUpload, AbortWrite, Goto, Finish, StagingFile
  <2> QED
    BY <2>1, <2>2, <2>3, <2>4 DEF CleanInv, CleanRequests
<1>21. ASSUME NEW r \in Requests, Delete(r) PROVE CleanInv'
  <2>1. Ownership'
    <3>1. \A f \in Files : datadir'[f] # None => datadir'[f] = datadir[f]
      BY <1>21 DEF TypeOK, Delete
    <3>2. pc' = [pc EXCEPT ![r] = "done"] /\ fd' = [fd EXCEPT ![r] = None]
      BY <1>21 DEF Delete, Finish, Goto
    <3>3. file' = file
      BY <1>21 DEF Delete
    <3> QED
      BY <3>1, <3>2, <3>3 DEF TypeOK, CleanInv, Ownership, Creator
  <2>2. Roles'
    BY <1>21 DEF TypeOK, CleanInv, Roles, Delete, Goto, Finish
  <2>3. CleanFill'
    BY <1>21
       DEF TypeOK, CleanInv, Ownership, Roles, CleanFill,
           CleanRequest, Creator, NoUpload, Delete, Goto, Finish,
           StagingFile
  <2>4. CleanRequests'
    BY <1>21
       DEF TypeOK, CleanInv, Roles, CleanRequests, CleanRequest,
           NoUpload, Delete, Goto, Finish, StagingFile
  <2> QED
    BY <2>1, <2>2, <2>3, <2>4 DEF CleanInv, CleanRequests
<1>24. ASSUME NEW r \in Requests, ReserveRaises(r) PROVE CleanInv'
  <2>1. Ownership'
    BY <1>24 DEF TypeOK, CleanInv, Ownership, Creator, ReserveRaises, Goto, Finish
  <2>2. Roles'
    BY <1>24 DEF TypeOK, CleanInv, Roles, ReserveRaises, Goto, Finish
  <2>3. CleanFill'
    BY <1>24 DEF CleanInv, CleanFill, NoUpload, ReserveRaises, Goto, Finish
  <2>4. CleanRequests'
    BY <1>24
       DEF TypeOK, CleanInv, Roles, CleanRequests, CleanRequest,
           NoUpload, ReserveRaises, Goto, Finish, StagingFile
  <2> QED
    BY <2>1, <2>2, <2>3, <2>4 DEF CleanInv, CleanRequests
<1>25. ASSUME NEW r \in Requests, DownloadRaises(r) PROVE CleanInv'
  <2>1. Ownership'
    BY <1>25 DEF TypeOK, CleanInv, Ownership, Creator, DownloadRaises, Goto, Finish
  <2>2. Roles'
    BY <1>25 DEF TypeOK, CleanInv, Roles, DownloadRaises, Goto, Finish
  <2>3. CleanFill'
    BY <1>25 DEF CleanInv, CleanFill, NoUpload, DownloadRaises, Goto, Finish
  <2>4. CleanRequests'
    BY <1>25
       DEF TypeOK, CleanInv, Roles, CleanRequests, CleanRequest,
           NoUpload, DownloadRaises, Goto, Finish, StagingFile
  <2> QED
    BY <2>1, <2>2, <2>3, <2>4 DEF CleanInv, CleanRequests
<1>22. CASE Crash
  <2>1. Ownership'
    BY <1>22 DEF TypeOK, CleanInv, Ownership, Creator, Crash
  <2>2. Roles'
    BY <1>22 DEF TypeOK, CleanInv, Roles, Crash
  <2>3. CleanFill'
    BY <1>22 DEF CleanInv, CleanFill, NoUpload, Crash
  <2>4. CleanRequests'
    BY <1>22
       DEF TypeOK, CleanInv, Roles, CleanRequests, CleanRequest,
           NoUpload, Crash, StagingFile
  <2> QED
    BY <2>1, <2>2, <2>3, <2>4 DEF CleanInv, CleanRequests
<1>23. CASE UNCHANGED vars
  <2>1. Ownership'
    BY <1>23 DEF TypeOK, CleanInv, Ownership, Creator, vars
  <2>2. Roles'
    BY <1>23 DEF TypeOK, CleanInv, Roles, vars
  <2>3. CleanFill'
    BY <1>23 DEF CleanInv, CleanFill, NoUpload, vars
  <2>4. CleanRequests'
    BY <1>23
       DEF TypeOK, CleanInv, Roles, CleanRequests, CleanRequest,
           NoUpload, vars, StagingFile
  <2> QED
    BY <2>1, <2>2, <2>3, <2>4 DEF CleanInv, CleanRequests
<1> QED
  BY <1>1, <1>2, <1>3, <1>4, <1>5, <1>6, <1>7, <1>8, <1>9, <1>10,
     <1>11, <1>12, <1>13, <1>14, <1>15, <1>16, <1>17, <1>18, <1>19,
     <1>20, <1>21, <1>22, <1>23, <1>24, <1>25
     DEF Next, Handle

\* Nothing is in the datadir, and no request has begun.
LEMMA CleanInit == Init => CleanInv
BY DEF Init, CleanInv, Ownership, Roles, CleanFill, CleanRequest

\* CleanInv is an invariant.
LEMMA CleanInvariant == Spec => []CleanInv
<1>1. TypeOK /\ TypeOK' /\ CleanInv /\ [Next]_vars => CleanInv'
  BY CleanNext
<1> QED
  BY <1>1, CleanInit, TypeCorrect, PTL DEF Spec

\* With the staging area and the datadir on one volume, a path that nobody
\* uploads to names complete files only, and its checksum row is the digest
\* of the complete file, for any number of concurrent fetches and deletes.
THEOREM FillsAreClean == Spec => []CleanFill
BY CleanInvariant, PTL DEF CleanInv

\* Under the same conditions a GET that ends well got the bytes of the file.
THEOREM ReadsAreClean == Spec => []CleanReads
<1>1. TypeOK /\ CleanInv => CleanReads
  <2> SUFFICES ASSUME TypeOK, CleanInv, NEW r \in Requests, oneVolume,
                      op[r] = "GET", answer[r] = "ok", NoUpload(file[r])
               PROVE  body[r] = Whole(file[r])
    BY DEF CleanReads
  <2>1. file[r] # None
    BY DEF TypeOK, CleanInv, Roles
  <2> QED
    BY <2>1 DEF CleanInv, CleanRequest
<1> QED
  BY <1>1, TypeCorrect, CleanInvariant, PTL
-----------------------------------------------------------------------------
\* Where a request can be whose temporary file exists.
StagingInv ==
    \A r \in staging : \/ pc[r] \in {"download", "install", "copy", "lost"}
                       \/ /\ pc[r] = "done"
                          /\ answer[r] \in {"raised", "not_removed",
                                           "install_failed"}

LEMMA StagingNext ==
    ASSUME TypeOK, StagingInv, [Next]_vars
    PROVE  StagingInv'
<1> USE DEF TypeOK, StagingInv, disk, tables, request, local, result
<1>1. ASSUME NEW r \in Requests, Dispatch(r) PROVE StagingInv'
  BY <1>1 DEF Dispatch, Goto
<1>2. ASSUME NEW r \in Requests, GetContentHit(r) PROVE StagingInv'
  BY <1>2 DEF GetContentHit, Goto
<1>3. ASSUME NEW r \in Requests, GetContentMiss(r) PROVE StagingInv'
  BY <1>3 DEF GetContentMiss, Goto
<1>4. ASSUME NEW r \in Requests, DownloadSucceeds(r) PROVE StagingInv'
  BY <1>4 DEF DownloadSucceeds, Goto
<1>5. ASSUME NEW r \in Requests, DownloadFails(r) PROVE StagingInv'
  BY <1>5 DEF DownloadFails, Finish, Goto
<1>6. ASSUME NEW r \in Requests, InstallByRename(r) PROVE StagingInv'
  BY <1>6 DEF InstallByRename, Goto
<1>7. ASSUME NEW r \in Requests, InstallByCopy(r) PROVE StagingInv'
  BY <1>7 DEF InstallByCopy, Goto
<1>8. ASSUME NEW r \in Requests, CopyBlock(r) PROVE StagingInv'
  BY <1>8 DEF CopyBlock
<1>9. ASSUME NEW r \in Requests, CopyDone(r) PROVE StagingInv'
  BY <1>9 DEF CopyDone, Goto
<1>10. ASSUME NEW r \in Requests, InstallFails(r) PROVE StagingInv'
  BY <1>10 DEF InstallFails, Finish, Goto
<1>11. ASSUME NEW r \in Requests, HashFile(r) PROVE StagingInv'
  BY <1>11 DEF HashFile, Goto
<1>12. ASSUME NEW r \in Requests, RecordChecksum(r) PROVE StagingInv'
  BY <1>12 DEF RecordChecksum, Goto
<1>13. ASSUME NEW r \in Requests, Open(r) PROVE StagingInv'
  BY <1>13 DEF Open, Goto
<1>14. ASSUME NEW r \in Requests, RequestFails(r) PROVE StagingInv'
  BY <1>14 DEF RequestFails, Finish, Goto
<1>15. ASSUME NEW r \in Requests, ServeBlock(r) PROVE StagingInv'
  BY <1>15 DEF ServeBlock
<1>16. ASSUME NEW r \in Requests, ServeDone(r) PROVE StagingInv'
  BY <1>16 DEF ServeDone, Finish, Goto
<1>17. ASSUME NEW r \in Requests, BeginWrite(r) PROVE StagingInv'
  BY <1>17 DEF BeginWrite, Goto
<1>18. ASSUME NEW r \in Requests, WriteBlock(r) PROVE StagingInv'
  BY <1>18 DEF WriteBlock
<1>19. ASSUME NEW r \in Requests, EndWrite(r) PROVE StagingInv'
  BY <1>19 DEF EndWrite, Finish, Goto
<1>20. ASSUME NEW r \in Requests, AbortWrite(r) PROVE StagingInv'
  BY <1>20 DEF AbortWrite, Finish, Goto
<1>21. ASSUME NEW r \in Requests, Delete(r) PROVE StagingInv'
  BY <1>21 DEF Delete, Finish, Goto
<1>24. ASSUME NEW r \in Requests, ReserveRaises(r) PROVE StagingInv'
  BY <1>24 DEF ReserveRaises, Finish, Goto
<1>25. ASSUME NEW r \in Requests, DownloadRaises(r) PROVE StagingInv'
  BY <1>25 DEF DownloadRaises, Finish, Goto
<1>22. CASE Crash
  BY <1>22 DEF Crash
<1>23. CASE UNCHANGED vars
  BY <1>23 DEF vars
<1> QED
  BY <1>1, <1>2, <1>3, <1>4, <1>5, <1>6, <1>7, <1>8, <1>9, <1>10,
     <1>11, <1>12, <1>13, <1>14, <1>15, <1>16, <1>17, <1>18, <1>19,
     <1>20, <1>21, <1>22, <1>23, <1>24, <1>25
     DEF Next, Handle

\* What is left in the staging area belongs to a request at work, to one that
\* died with the process, to one whose reservation, download or install raised
\* or to one whose failed download could not be removed, and to no other.
THEOREM StagingIsAccountedFor == Spec => []StagingAccountedFor
<1>1. Init => StagingInv
  BY DEF Init, StagingInv
<1>2. TypeOK /\ StagingInv => StagingAccountedFor
  BY DEF TypeOK, StagingInv, StagingAccountedFor, InFlight
<1> QED
  BY <1>1, <1>2, StagingNext, TypeCorrect, PTL DEF Spec
-----------------------------------------------------------------------------
\* While an upload that no other writer touches and no older fetch threatens
\* is written, and after it ended well, nobody fetches its file, and the file
\* is there and holds what was uploaded so far.
Alone(u) == op[u] = "PUT" /\ OnlyWriter(u) /\ missers[u] = {}

Held(u) ==
    Alone(u) /\ (pc[u] = "write" \/ answer[u] = "ok") =>
        /\ Fetching(file[u]) = {}
        /\ datadir[file[u]] # None
        /\ pc[u] = "write" => /\ datadir[file[u]] = fd[u]
                              /\ \A b \in 1 .. pos[u] : data[fd[u]][b] = u
        /\ answer[u] = "ok" => data[datadir[file[u]]] = Whole(u)

\* A request that does not write or delete is a GET.
GetsRead ==
    \A r \in Requests :
        pc[r] \notin {"idle", "begin_write", "write", "delete", "done", "lost"}
        => op[r] = "GET"

UploadInv == GetsRead /\ \A u \in Requests : Held(u)

LEMMA UploadNext ==
    ASSUME TypeOK, Ownership, Roles, UploadInv, [Next]_vars
    PROVE  UploadInv'
<1> USE DEF TypeOK, Ownership, Roles, Creator, UploadInv, GetsRead, Held, Alone,
            OnlyWriter, Fetching, disk, tables, request, local, result
<1>1. ASSUME NEW r \in Requests, Dispatch(r) PROVE UploadInv'
  BY <1>1 DEF Dispatch, Goto
<1>2. ASSUME NEW r \in Requests, GetContentHit(r) PROVE UploadInv'
  BY <1>2 DEF GetContentHit, Goto
<1>3. ASSUME NEW r \in Requests, GetContentMiss(r) PROVE UploadInv'
  BY <1>3 DEF GetContentMiss, Goto
<1>4. ASSUME NEW r \in Requests, DownloadSucceeds(r) PROVE UploadInv'
  BY <1>4 DEF DownloadSucceeds, Goto, StagingFile, Inodes
<1>5. ASSUME NEW r \in Requests, DownloadFails(r) PROVE UploadInv'
  BY <1>5 DEF DownloadFails, Finish, Goto
<1>6. ASSUME NEW r \in Requests, InstallByRename(r) PROVE UploadInv'
  BY <1>6 DEF InstallByRename, Goto
<1>7. ASSUME NEW r \in Requests, InstallByCopy(r) PROVE UploadInv'
  BY <1>7 DEF InstallByCopy, Goto, OpenForWriting
<1>8. ASSUME NEW r \in Requests, CopyBlock(r) PROVE UploadInv'
  BY <1>8 DEF CopyBlock, WriteNext
<1>9. ASSUME NEW r \in Requests, CopyDone(r) PROVE UploadInv'
  BY <1>9 DEF CopyDone, Goto
<1>10. ASSUME NEW r \in Requests, InstallFails(r) PROVE UploadInv'
  BY <1>10 DEF InstallFails, Finish, Goto
<1>11. ASSUME NEW r \in Requests, HashFile(r) PROVE UploadInv'
  BY <1>11 DEF HashFile, Goto
<1>12. ASSUME NEW r \in Requests, RecordChecksum(r) PROVE UploadInv'
  BY <1>12 DEF RecordChecksum, Goto
<1>13. ASSUME NEW r \in Requests, Open(r) PROVE UploadInv'
  BY <1>13 DEF Open, Goto
<1>14. ASSUME NEW r \in Requests, RequestFails(r) PROVE UploadInv'
  BY <1>14 DEF RequestFails, Finish, Goto
<1>15. ASSUME NEW r \in Requests, ServeBlock(r) PROVE UploadInv'
  BY <1>15 DEF ServeBlock
<1>16. ASSUME NEW r \in Requests, ServeDone(r) PROVE UploadInv'
  BY <1>16 DEF ServeDone, Finish, Goto
<1>17. ASSUME NEW r \in Requests, BeginWrite(r) PROVE UploadInv'
  <2>1. GetsRead'
    BY <1>17 DEF BeginWrite, Goto
  <2>2. PICK i \in Inodes :
          /\ datadir' = [datadir EXCEPT ![file[r]] = i]
          /\ fd' = [fd EXCEPT ![r] = i] /\ pos' = [pos EXCEPT ![r] = 0]
          /\ data' = [data EXCEPT ![i] = Empty]
          /\ file[Creator(i)] = file[r]
    <3> DEFINE i == IF datadir[file[r]] = None THEN <<r, "datadir">>
                                               ELSE datadir[file[r]]
    <3>1. /\ datadir' = [datadir EXCEPT ![file[r]] = i]
          /\ fd' = [fd EXCEPT ![r] = i] /\ pos' = [pos EXCEPT ![r] = 0]
          /\ data' = [data EXCEPT ![i] = Empty]
      BY <1>17 DEF BeginWrite, OpenForWriting
    <3>2. file[r] \in Files
      BY <1>17 DEF BeginWrite
    <3>3. <<r, "datadir">> \in Inodes /\ Creator(<<r, "datadir">>) = r
      BY DEF Inodes
    <3>4. i \in Inodes
      BY <3>2, <3>3
    <3>5. file[Creator(i)] = file[r]
      BY <3>2, <3>3
    <3> HIDE DEF i
    <3> QED
      BY <3>1, <3>4, <3>5
  <2>3. Held(r)'
    <3> SUFFICES ASSUME missers'[r] = {} PROVE
           /\ Fetching(file[r])' = {}
           /\ datadir'[file[r]] = fd'[r] /\ fd'[r] # None /\ pos'[r] = 0
           /\ answer'[r] # "ok"
      BY <1>17 DEF BeginWrite
    <3>1. Fetching(file[r]) = {}
      BY <1>17 DEF BeginWrite
    <3> QED
      BY <1>17, <2>2, <3>1 DEF BeginWrite, Goto
  <2>4. ASSUME NEW u \in Requests \ {r} PROVE Held(u)'
    <3>1. CASE file[u] = file[r]
      BY <1>17, <3>1 DEF BeginWrite
    <3>2. CASE file[u] # file[r]
      <4>1. /\ datadir'[file[u]] = datadir[file[u]]
            /\ fd'[u] = fd[u] /\ pos'[u] = pos[u] /\ pc'[u] = pc[u]
            /\ answer' = answer /\ missers'[u] = missers[u]
            /\ file' = file /\ op' = op
            /\ \A q \in Requests : pc'[q] \in {"download", "install", "copy"}
                                    => pc[q] = pc'[q]
        BY <1>17, <2>2, <3>2 DEF BeginWrite, Goto
      <4>2. pc[u] = "write" => fd[u] \in Inodes /\ fd[u] # i
        BY <2>2, <3>2
      <4>3. answer[u] = "ok" => pc[u] = "done" /\ file[u] \in Files
        OBVIOUS
      <4>4. answer[u] = "ok" /\ datadir[file[u]] # None
            => datadir[file[u]] \in Inodes /\ datadir[file[u]] # i
        BY <2>2, <3>2, <4>3
      <4>5. Alone(u)' => Alone(u)
        BY <4>1
      <4>6. Fetching(file[u]) = {} => Fetching(file[u])' = {}
        BY <4>1
      <4>7. pc[u] = "write" => data'[fd[u]] = data[fd[u]]
        BY <2>2, <4>2
      <4>8. answer[u] = "ok" /\ datadir[file[u]] # None
            => data'[datadir'[file[u]]] = data[datadir[file[u]]]
        BY <2>2, <4>1, <4>4
      <4>9. Held(u)
        OBVIOUS
      <4> QED
        BY <4>1, <4>5, <4>6, <4>7, <4>8, <4>9
    <3> QED
      BY <3>1, <3>2
  <2> QED
    BY <2>1, <2>3, <2>4
<1>18. ASSUME NEW r \in Requests, WriteBlock(r) PROVE UploadInv'
  <2>1. GetsRead'
    BY <1>18 DEF WriteBlock
  <2>2. /\ pc[r] = "write" /\ fd[r] \in Inodes /\ pos[r] \in 0 .. NumBlocks
        /\ pos[r] + 1 \in Blocks
        /\ pos' = [pos EXCEPT ![r] = pos[r] + 1]
        /\ data' = [data EXCEPT ![fd[r]] = [@ EXCEPT ![pos[r] + 1] = r]]
        /\ UNCHANGED <<datadir, pc, op, file, fd, answer, missers>>
    BY <1>18, NextBlock DEF WriteBlock, WriteNext
  <2>3. Held(r)'
    <3>1. data[fd[r]] \in [Blocks -> Files \cup Requests \cup {None}]
      BY <2>2 DEF Content
    <3>2. /\ data'[fd[r]][pos[r] + 1] = r
          /\ \A b \in Blocks : data[fd[r]][b] = r => data'[fd[r]][b] = r
      BY <2>2, <3>1
    <3>3. \A b \in 1 .. pos'[r] : b \in Blocks
                                 /\ (b \in 1 .. pos[r] \/ b = pos[r] + 1)
      BY <2>2 DEF Blocks
    <3>4. answer'[r] # "ok"
      BY <2>2
    <3>5. Alone(r)' => Alone(r)
      BY <2>2
    <3>6. Alone(r) => \A b \in 1 .. pos[r] : data[fd[r]][b] = r
      BY <2>2
    <3>7. Alone(r) => \A b \in 1 .. pos'[r] : data'[fd[r]][b] = r
      BY <3>2, <3>3, <3>6
    <3> QED
      BY <2>2, <3>4, <3>5, <3>7
  <2>4. ASSUME NEW u \in Requests \ {r} PROVE Held(u)'
    <3>1. CASE file[u] = file[r]
      BY <2>2, <3>1
    <3>2. CASE file[u] # file[r]
      <4>1. /\ pc[u] = "write" => data'[fd[u]] = data[fd[u]]
            /\ answer[u] = "ok" /\ datadir[file[u]] # None
               => data'[datadir[file[u]]] = data[datadir[file[u]]]
        BY <2>2, <3>2
      <4> QED
        BY <2>2, <4>1
    <3> QED
      BY <3>1, <3>2
  <2> QED
    BY <2>1, <2>3, <2>4
<1>19. ASSUME NEW r \in Requests, EndWrite(r) PROVE UploadInv'
  <2>1. GetsRead'
    BY <1>19 DEF EndWrite, Finish, Goto
  <2>2. Held(r)'
    <3> SUFFICES ASSUME Alone(r)'
                 PROVE  /\ Fetching(file[r])' = {}
                        /\ datadir'[file[r]] # None
                        /\ data'[datadir'[file[r]]] = Whole(r)
      BY <1>19 DEF EndWrite, Finish, Goto
    <3>1. Alone(r) /\ pc[r] = "write" /\ pos[r] = NumBlocks
      BY <1>19 DEF EndWrite
    <3>2. /\ Fetching(file[r]) = {} /\ datadir[file[r]] = fd[r]
          /\ \A b \in 1 .. NumBlocks : data[fd[r]][b] = r
      BY <3>1
    <3>3. data[fd[r]] \in [Blocks -> Files \cup Requests \cup {None}]
      BY <3>1 DEF Content
    <3>4. data[fd[r]] = Whole(r)
      BY <3>2, <3>3 DEF Whole, Blocks
    <3>5. fd[r] \in Inodes /\ fd[r] # None
      BY <3>1
    <3> QED
      BY <1>19, <3>2, <3>4, <3>5 DEF EndWrite, Finish, Goto
  <2>3. ASSUME NEW u \in Requests \ {r} PROVE Held(u)'
    BY <1>19 DEF EndWrite, Finish, Goto
  <2> QED
    BY <2>1, <2>2, <2>3
<1>20. ASSUME NEW r \in Requests, AbortWrite(r) PROVE UploadInv'
  BY <1>20 DEF AbortWrite, Finish, Goto
<1>21. ASSUME NEW r \in Requests, Delete(r) PROVE UploadInv'
  BY <1>21 DEF Delete, Finish, Goto
<1>24. ASSUME NEW r \in Requests, ReserveRaises(r) PROVE UploadInv'
  BY <1>24 DEF ReserveRaises, Finish, Goto
<1>25. ASSUME NEW r \in Requests, DownloadRaises(r) PROVE UploadInv'
  BY <1>25 DEF DownloadRaises, Finish, Goto
<1>22. CASE Crash
  BY <1>22 DEF Crash
<1>23. CASE UNCHANGED vars
  BY <1>23 DEF vars
<1> QED
  BY <1>1, <1>2, <1>3, <1>4, <1>5, <1>6, <1>7, <1>8, <1>9, <1>10,
     <1>11, <1>12, <1>13, <1>14, <1>15, <1>16, <1>17, <1>18, <1>19,
     <1>20, <1>21, <1>22, <1>23, <1>24, <1>25
     DEF Next, Handle

\* A completed upload that no other writer touches stays, unless a fetch found
\* the file missing before the upload began, for any number of requests.
THEOREM UploadsStay == Spec => []UploadDisplacedOnlyByOlderMiss
<1>1. Init => UploadInv
  BY DEF Init, UploadInv, GetsRead, Held, Alone
<1>2. TypeOK /\ Ownership /\ Roles /\ UploadInv /\ [Next]_vars => UploadInv'
  BY UploadNext
<1>3. UploadInv => UploadDisplacedOnlyByOlderMiss
  BY DEF UploadInv, Held, Alone, UploadDisplacedOnlyByOlderMiss
<1>4. CleanInv => Ownership /\ Roles
  BY DEF CleanInv
<1> QED
  BY <1>1, <1>2, <1>3, <1>4, CleanInvariant, TypeCorrect, PTL DEF Spec
=============================================================================
