--------------------------- MODULE ZipCacheProofs ----------------------------
(***************************************************************************)
(* What holds of ZipCache for any number of requests and archives, and     *)
(* archives of any size.                                                   *)
(***************************************************************************)
EXTENDS ZipCache, TLAPS

USE ZipAssumption

\* Positions in an archive.
LEMMA Positions ==
    /\ 1 \in 1 .. Size + 1
    /\ \A n \in 1 .. Size + 1 : n <= Size => n + 1 \in 1 .. Size + 1
    /\ \A a \in Archives, n \in 1 .. Size + 1 : n <= Size => <<a, n>> \in Paths
BY DEF Paths

\* There is a first provider, and the providers built so far are providers.
LEMMA FirstProvider ==
    /\ 1 \in Providers
    /\ \A m \in Providers : 1 .. m \subseteq Providers
    /\ \A m \in Providers : m < MaxProviders => m + 1 \in Providers
BY DEF Providers

\* The initial state has the types.
LEMMA TypeInit == Init => TypeOK
<1> SUFFICES ASSUME Init PROVE TypeOK
  OBVIOUS
<1>1. /\ oneAtATime \in [Providers -> BOOLEAN]
      /\ oversize \in [Providers -> SUBSET Archives]
      /\ provider \in Providers /\ locked \subseteq Providers
      /\ fell \subseteq Providers /\ stuck \subseteq Providers
      /\ zips \subseteq Requests /\ needsFull \in BOOLEAN
      /\ datadir \in [Paths -> Requests \cup {None, Whole}]
      /\ checksum \in [Paths -> Paths \cup {None, Torn}]
  BY FirstProvider DEF Init
<1>2. /\ pc \in [Requests -> States] /\ \A r \in Requests : pc[r] = "idle"
  BY DEF Init, States
<1>3. /\ path \in [Requests -> Paths \cup {None}]
      /\ home \in [Requests -> Providers]
      /\ acquired \in [Requests -> BOOLEAN]
      /\ fellBack \in [Requests -> BOOLEAN]
      /\ next \in [Requests -> 1 .. Size + 1]
      /\ answer \in [Requests -> Answers]
  BY Positions, FirstProvider DEF Init, Answers
<1> QED
  BY <1>1, <1>2, <1>3 DEF TypeOK, InFlight

\* A request that leaves the handler has locals of their types.
LEMMA LeaveTyped ==
    ASSUME TypeOK, NEW r \in Requests, Leave(r)
    PROVE  /\ pc' \in [Requests -> States]
           /\ pc'[r] = "done" /\ \A q \in Requests \ {r} : pc'[q] = pc[q]
           /\ path' \in [Requests -> Paths \cup {None}]
           /\ \A q \in Requests \ {r} : path'[q] = path[q]
           /\ home' \in [Requests -> Providers]
           /\ acquired' \in [Requests -> BOOLEAN]
           /\ fellBack' \in [Requests -> BOOLEAN]
           /\ next' \in [Requests -> 1 .. Size + 1]
           /\ \A q \in Requests \ {r} : next'[q] = next[q]
BY Positions, FirstProvider DEF TypeOK, Leave, Goto, States

\* Every step keeps the types.
LEMMA TypeNext ==
    ASSUME TypeOK, [Next]_vars
    PROVE  TypeOK'
<1> USE DEF TypeOK, InFlight, States, Answers
<1>1. ASSUME NEW r \in Requests, Hit(r) PROVE TypeOK'
  BY <1>1, LeaveTyped DEF Hit, Say, built, conf, local, history, files
<1>2. ASSUME NEW r \in Requests, Miss(r) PROVE TypeOK'
  <2>1. PICK p \in Paths : path' = [path EXCEPT ![r] = p]
    BY <1>2 DEF Miss, Begin
  <2>2. path' \in [Requests -> Paths \cup {None}] /\ path'[r] \in Paths
    BY <2>1
  <2>3. PICK state \in {"fetch_file", "reserve"} :
            pc' = [pc EXCEPT ![r] = state]
    BY <1>2 DEF Miss, Begin, Goto
  <2>4. /\ pc' \in [Requests -> States] /\ pc'[r] # "write"
        /\ \A q \in Requests \ {r} : pc'[q] = pc[q]
    BY <2>3
  <2>5. PICK m \in Providers : home' = [home EXCEPT ![r] = m]
    BY <1>2, FirstProvider DEF Miss, Begin
  <2>6. home' \in [Requests -> Providers] /\ home'[r] = m
    BY <2>5
  <2>7. \/ locked' = locked /\ acquired' = acquired
        \/ /\ locked' = locked \cup {m}
           /\ acquired' = [acquired EXCEPT ![r] = m \notin locked]
    BY <1>2, <2>6 DEF Miss
  <2>8. locked' \subseteq Providers
    BY <2>7
  <2>9. acquired' \in [Requests -> BOOLEAN]
    <3>1. acquired \in [Requests -> BOOLEAN] /\ (m \notin locked) \in BOOLEAN
      OBVIOUS
    <3> QED
      BY ONLY <2>7, <3>1
  <2> QED
    BY <1>2, <2>1, <2>2, <2>4, <2>6, <2>8, <2>9
       DEF Miss, built, conf, files, history
<1>3. ASSUME NEW r \in Requests, Reserve(r) PROVE TypeOK'
  BY <1>3 DEF Reserve, Goto, built, conf, local, history
<1>4. ASSUME NEW r \in Requests, ReserveFails(r) PROVE TypeOK'
  <2>1. stuck' \subseteq Providers /\ zips' \subseteq Requests
    BY <1>4 DEF ReserveFails, LeaveLocked
  <2> QED
    BY <1>4, <2>1, LeaveTyped
       DEF ReserveFails, LeaveLocked, Say, built, conf, files
<1>5. ASSUME NEW r \in Requests, FetchZip(r) PROVE TypeOK'
  BY <1>5 DEF FetchZip, Goto, built, conf, local, history, files
<1>6. ASSUME NEW r \in Requests, FetchZipFails(r) PROVE TypeOK'
  <2>1. /\ locked' \subseteq Providers /\ zips' \subseteq Requests
        /\ needsFull' \in BOOLEAN
    BY <1>6 DEF FetchZipFails, UnlockIfAcquired, MayRemoveZip, MayMarkForReindex
  <2> QED
    BY <1>6, <2>1, LeaveTyped DEF FetchZipFails, Say, built, conf, history
<1>7. ASSUME NEW r \in Requests, FallBack(r) PROVE TypeOK'
  BY <1>7 DEF FallBack, MayRemoveZip, Goto, UnlockIfAcquired, built, conf, local, history
<1>8. ASSUME NEW r \in Requests, BeginExtraction(r) PROVE TypeOK'
  BY <1>8 DEF BeginExtraction, Goto, built, conf, local, history, files
<1>9. ASSUME NEW r \in Requests, OpenMember(r) PROVE TypeOK'
  BY <1>9 DEF OpenMember, Goto, built, conf, local, history
<1>10. ASSUME NEW r \in Requests, CloseMember(r) PROVE TypeOK'
  <2> DEFINE p == <<path[r][1], next[r]>>
  <2>1. pc[r] = "write" /\ next[r] \in 1 .. Size + 1 /\ next[r] <= Size
    BY <1>10 DEF CloseMember
  <2>2. path[r][1] \in Archives
    BY <2>1 DEF Paths
  <2>3. p \in Paths /\ path[r] \in Paths
    BY <2>1, <2>2, Positions
  <2>4. /\ datadir' = [datadir EXCEPT ![p] = IF @ = r THEN Whole ELSE @]
        /\ checksum' \in {checksum,
                          [checksum EXCEPT ![path[r]] =
                              IF datadir'[p] = Whole THEN p ELSE Torn]}
        /\ next' = [next EXCEPT ![r] = @ + 1]
    BY <1>10 DEF CloseMember
  <2> HIDE DEF p
  <2>5. /\ datadir' \in [Paths -> Requests \cup {None, Whole}]
        /\ checksum' \in [Paths -> Paths \cup {None, Torn}]
    BY <2>3, <2>4
  <2>6. next' \in [Requests -> 1 .. Size + 1]
    BY <2>1, <2>4, Positions
  <2>7. /\ pc' = [pc EXCEPT ![r] = "extract"]
        /\ UNCHANGED <<oneAtATime, oversize, provider, locked, zips, needsFull,
                       path, home, acquired, fellBack, answer, fell, stuck>>
    BY <1>10 DEF CloseMember, Goto, built, conf, local, history
  <2>8. \A q \in Requests : /\ InFlight(q)' => path'[q] \in Paths
                            /\ pc'[q] = "write" => next'[q] <= Size
    BY <2>1, <2>3, <2>4, <2>7
  <2> QED
    BY <2>5, <2>6, <2>7, <2>8
<1>11. ASSUME NEW r \in Requests, ExtractFails(r) PROVE TypeOK'
  BY <1>11 DEF ExtractFails, Goto, Say, built, conf, local, history, files
<1>12. ASSUME NEW r \in Requests, Finish(r) PROVE TypeOK'
  BY <1>12 DEF Finish, Goto, Say, UnlockIfAcquired, ReleaseRaises, built, conf, local, history, files
<1>13. ASSUME NEW r \in Requests, FetchFile(r) PROVE TypeOK'
  <2>1. /\ datadir' \in [Paths -> Requests \cup {None, Whole}]
        /\ checksum' \in [Paths -> Paths \cup {None, Torn}]
        /\ answer' \in [Requests -> Answers]
        /\ needsFull' \in BOOLEAN
    BY <1>13 DEF FetchFile, Say, MayRemoveZip, MayMarkForReindex
  <2>2. CASE fellBack[r]
    BY <1>13, <2>1, <2>2 DEF FetchFile, Goto, built, conf, local, history
  <2>3. CASE ~fellBack[r]
    <3>1. Leave(r) /\ UNCHANGED <<built, locked, zips, history>>
      BY <1>13, <2>3 DEF FetchFile
    <3> QED
      BY <2>1, <3>1, LeaveTyped DEF built, conf, history
  <2> QED
    BY <2>2, <2>3
<1>14. ASSUME NEW r \in Requests, Finally(r) PROVE TypeOK'
  BY <1>14, LeaveTyped
     DEF Finally, MayRemoveZip, UnlockIfAcquired, built, conf, history
<1>15. CASE Crash
  <2>1. /\ pc' \in [Requests -> States]
        /\ \A q \in Requests : pc'[q] \in {"idle", "done", "lost"}
    BY <1>15 DEF Crash
  <2>2. next' \in [Requests -> 1 .. Size + 1]
    BY <1>15, Positions DEF Crash
  <2>3. provider' \in Providers /\ home' \in [Requests -> Providers]
    BY <1>15, FirstProvider DEF Crash
  <2> QED
    BY <1>15, <2>1, <2>2, <2>3 DEF Crash, built, conf, local, history, files
<1>16. CASE UNCHANGED vars
  BY <1>16 DEF vars, files, built, conf, local, history
<1>17. ASSUME NEW r \in Requests, FetchZipRaises(r) PROVE TypeOK'
  <2>1. stuck' \subseteq Providers
    BY <1>17 DEF FetchZipRaises, LeaveLocked
  <2> QED
    BY <1>17, <2>1, LeaveTyped
       DEF FetchZipRaises, LeaveLocked, Say, built, conf, files
<1>18. CASE Reload
  <2>1. provider' \in Providers
    BY <1>18, FirstProvider DEF Reload
  <2> QED
    BY <1>18, <2>1 DEF Reload, conf, files, local, history
<1> QED
  BY <1>1, <1>2, <1>3, <1>4, <1>5, <1>6, <1>7, <1>8, <1>9, <1>10, <1>11,
     <1>12, <1>13, <1>14, <1>15, <1>16, <1>17, <1>18 DEF Next, Handle

\* A request that begins has one of the providers.
LEMMA BeginAtHome ==
    ASSUME TypeOK, NEW r \in Requests, Begin(r)
    PROVE  \E m \in Providers : home' = [home EXCEPT ![r] = m] /\ home'[r] = m
<1>1. PICK m \in 1 .. provider : home' = [home EXCEPT ![r] = m]
  BY DEF Begin
<1>2. m \in Providers
  BY <1>1, FirstProvider DEF TypeOK
<1> QED
  BY <1>1, <1>2 DEF TypeOK

\* Every step keeps LockInv: a request enters a whole-archive job only by
\* taking the lock of its provider, and that lock is released only by who has
\* it, until a request of the provider falls back.
LEMMA LockNext ==
    ASSUME TypeOK, LockInv, [Next]_vars
    PROVE  LockInv'
<1> USE DEF TypeOK, LockInv, WholeZipJobs, Of
<1>1. ASSUME NEW r \in Requests, Hit(r) PROVE LockInv'
  BY <1>1 DEF Hit, Leave, Goto, Say, built, conf, local, history, files
<1>2. ASSUME NEW r \in Requests, Miss(r) PROVE LockInv'
  <2>1. PICK m \in Providers : /\ home' = [home EXCEPT ![r] = m]
                               /\ home'[r] = m
    BY <1>2, BeginAtHome DEF Miss
  <2>2. \A q \in Requests \ {r} : /\ home'[q] = home[q]
                                  /\ acquired'[q] = acquired[q]
                                  /\ pc'[q] = pc[q]
    BY <1>2, <2>1 DEF Miss, Goto
  <2>3. oneAtATime' = oneAtATime /\ fell' = fell
    BY <1>2 DEF Miss, built, conf, history
  <2> SUFFICES ASSUME NEW k \in Providers, oneAtATime[k], k \notin fell,
                      NEW q \in Requests, home'[q] = k
               PROVE  /\ q \in WholeZipJobs' => acquired'[q]
                      /\ acquired'[q] => /\ k \in locked'
                                         /\ \A s \in Requests :
                                              home'[s] = k /\ acquired'[s]
                                              => s = q
    BY <2>3
  <2>4. CASE k # m
    <3>1. q # r /\ (k \in locked => k \in locked')
      BY <1>2, <2>1, <2>4 DEF Miss
    <3> QED
      BY <2>1, <2>2, <2>4, <3>1
  <2>5. CASE k = m
    <3>1. /\ locked' = locked \cup {m}
          /\ acquired'[r] = (m \notin locked)
          /\ pc'[r] = IF m \in locked THEN "fetch_file" ELSE "reserve"
      BY <1>2, <2>1, <2>5 DEF Miss, Goto
    <3>2. CASE m \in locked
      <4>1. \A s \in Requests : acquired'[s] => acquired[s] /\ s # r
        BY <2>2, <3>1, <3>2
      <4> QED
        BY <2>1, <2>2, <2>5, <3>1, <3>2, <4>1
    <3>3. CASE m \notin locked
      <4>1. \A s \in Requests : home'[s] = m => (acquired'[s] <=> s = r)
        BY <2>1, <2>2, <2>5, <3>1, <3>3
      <4> QED
        BY <2>1, <2>2, <2>5, <3>1, <3>3, <4>1
    <3> QED
      BY <3>2, <3>3
  <2> QED
    BY <2>4, <2>5
<1>3. ASSUME NEW r \in Requests, Reserve(r) PROVE LockInv'
  BY <1>3 DEF Reserve, Goto, built, conf, local, history
<1>4. ASSUME NEW r \in Requests, ReserveFails(r) PROVE LockInv'
  BY <1>4 DEF ReserveFails, LeaveLocked, Leave, Goto, Say, built, conf, local, history, files
<1>5. ASSUME NEW r \in Requests, FetchZip(r) PROVE LockInv'
  BY <1>5 DEF FetchZip, Goto, built, conf, local, history, files
<1>6. ASSUME NEW r \in Requests, FetchZipFails(r) PROVE LockInv'
  BY <1>6
     DEF FetchZipFails, Leave, Goto, Say, UnlockIfAcquired,
         ReleaseRaises, MayRemoveZip, MayMarkForReindex, built, conf, local, history
<1>7. ASSUME NEW r \in Requests, FallBack(r) PROVE LockInv'
  BY <1>7 DEF FallBack, MayRemoveZip, Goto, UnlockIfAcquired, built, conf, local, history
<1>8. ASSUME NEW r \in Requests, BeginExtraction(r) PROVE LockInv'
  BY <1>8 DEF BeginExtraction, Goto, built, conf, local, history, files
<1>9. ASSUME NEW r \in Requests, OpenMember(r) PROVE LockInv'
  BY <1>9 DEF OpenMember, Goto, built, conf, local, history
<1>10. ASSUME NEW r \in Requests, CloseMember(r) PROVE LockInv'
  BY <1>10 DEF CloseMember, Goto, built, conf, local, history
<1>11. ASSUME NEW r \in Requests, ExtractFails(r) PROVE LockInv'
  BY <1>11 DEF ExtractFails, Goto, Say, built, conf, local, history, files
<1>12. ASSUME NEW r \in Requests, Finish(r) PROVE LockInv'
  BY <1>12 DEF Finish, Goto, Say, UnlockIfAcquired, ReleaseRaises, built, conf, local, history, files
<1>13. ASSUME NEW r \in Requests, FetchFile(r) PROVE LockInv'
  BY <1>13 DEF FetchFile, Leave, Goto, Say, MayRemoveZip, MayMarkForReindex, built, conf, local, history
<1>14. ASSUME NEW r \in Requests, Finally(r) PROVE LockInv'
  BY <1>14 DEF Finally, MayRemoveZip, Leave, Goto, UnlockIfAcquired, built, conf, local, history
<1>15. CASE Crash
  BY <1>15 DEF Crash, built, conf, local, history, files
<1>16. CASE UNCHANGED vars
  BY <1>16 DEF vars, files, built, conf, local, history
<1>17. ASSUME NEW r \in Requests, FetchZipRaises(r) PROVE LockInv'
  BY <1>17
     DEF FetchZipRaises, LeaveLocked, Leave, Goto, Say, built, conf, files
<1>18. CASE Reload
  BY <1>18 DEF Reload, conf, files, local, history
<1> QED
  BY <1>1, <1>2, <1>3, <1>4, <1>5, <1>6, <1>7, <1>8, <1>9, <1>10, <1>11,
     <1>12, <1>13, <1>14, <1>15, <1>16, <1>17, <1>18 DEF Next, Handle

\* Every step keeps HolderInv: a request that has the lock leaves the handler
\* only by releasing it, unless reserve_tempfile or download_file raised.
LEMMA HolderNext ==
    ASSUME TypeOK, HolderInv, [Next]_vars
    PROVE  HolderInv'
<1> USE DEF TypeOK, HolderInv, LockHasAHolder, InFlight, Of
<1>1. ASSUME NEW r \in Requests, Hit(r) PROVE HolderInv'
  BY <1>1 DEF Hit, Leave, Goto, Say, built, conf, local, history, files
<1>2. ASSUME NEW r \in Requests, Miss(r) PROVE HolderInv'
  <2>1. PICK m \in Providers : home' = [home EXCEPT ![r] = m] /\ home'[r] = m
    BY <1>2, BeginAtHome DEF Miss
  <2>2. /\ stuck' = stuck /\ fellBack' = fellBack /\ ~acquired[r]
        /\ \A q \in Requests \ {r} : /\ home'[q] = home[q]
                                     /\ acquired'[q] = acquired[q]
                                     /\ pc'[q] = pc[q]
    BY <1>2, <2>1 DEF Miss, Begin, Goto, history
  <2>3. /\ pc'[r] \in {"fetch_file", "reserve"}
        /\ acquired'[r] => pc'[r] = "reserve"
        /\ locked' \subseteq locked \cup {m}
        /\ m \in locked' \ locked => acquired'[r]
    BY <1>2, <2>1, <2>2 DEF Miss, Goto
  <2>4. LockHasAHolder'
    BY <2>1, <2>2, <2>3
  <2> QED
    BY <2>2, <2>3, <2>4
<1>3. ASSUME NEW r \in Requests, Reserve(r) PROVE HolderInv'
  BY <1>3 DEF Reserve, Goto, built, conf, local, history
<1>4. ASSUME NEW r \in Requests, ReserveFails(r) PROVE HolderInv'
  BY <1>4 DEF ReserveFails, LeaveLocked, Leave, Goto, Say, built, conf, local, history, files
<1>5. ASSUME NEW r \in Requests, FetchZip(r) PROVE HolderInv'
  BY <1>5 DEF FetchZip, Goto, built, conf, local, history, files
<1>6. ASSUME NEW r \in Requests, FetchZipFails(r) PROVE HolderInv'
  BY <1>6
     DEF FetchZipFails, Leave, Goto, Say, UnlockIfAcquired,
         ReleaseRaises, MayRemoveZip, MayMarkForReindex, built, conf, local, history
<1>7. ASSUME NEW r \in Requests, FallBack(r) PROVE HolderInv'
  BY <1>7 DEF FallBack, MayRemoveZip, Goto, UnlockIfAcquired, built, conf, local, history
<1>8. ASSUME NEW r \in Requests, BeginExtraction(r) PROVE HolderInv'
  BY <1>8 DEF BeginExtraction, Goto, built, conf, local, history, files
<1>9. ASSUME NEW r \in Requests, OpenMember(r) PROVE HolderInv'
  BY <1>9 DEF OpenMember, Goto, built, conf, local, history
<1>10. ASSUME NEW r \in Requests, CloseMember(r) PROVE HolderInv'
  BY <1>10 DEF CloseMember, Goto, built, conf, local, history
<1>11. ASSUME NEW r \in Requests, ExtractFails(r) PROVE HolderInv'
  BY <1>11 DEF ExtractFails, Goto, Say, built, conf, local, history, files
<1>12. ASSUME NEW r \in Requests, Finish(r) PROVE HolderInv'
  <2>1. /\ pc' = [pc EXCEPT ![r] = "finally"]
        /\ home' = home /\ stuck' = stuck /\ fellBack' = fellBack
        /\ \A q \in Requests \ {r} : acquired'[q] = acquired[q]
        /\ acquired'[r] => acquired[r]
    BY <1>12 DEF Finish, Goto, history
  <2>2. locked' = IF acquired[r] THEN locked \ {home[r]} ELSE locked
    BY <1>12 DEF Finish, UnlockIfAcquired
  <2>3. LockHasAHolder'
    BY <2>1, <2>2
  <2> QED
    BY <1>12, <2>1, <2>3 DEF Finish
<1>13. ASSUME NEW r \in Requests, FetchFile(r) PROVE HolderInv'
  <2>1. /\ locked' = locked /\ stuck' = stuck /\ pc[r] = "fetch_file"
        /\ \A q \in Requests \ {r} : /\ acquired'[q] = acquired[q]
                                     /\ pc'[q] = pc[q] /\ home'[q] = home[q]
                                     /\ fellBack'[q] = fellBack[q]
    BY <1>13 DEF FetchFile, Say, Leave, Goto, history, local
  <2>2. \/ acquired'[r] = acquired[r] /\ pc'[r] = "finally" /\ home'[r] = home[r]
        \/ ~acquired[r] /\ ~acquired'[r] /\ pc'[r] = "done"
    BY <1>13 DEF FetchFile, Leave, Goto, local
  <2>3. LockHasAHolder'
    BY <2>1, <2>2
  <2> QED
    BY <2>1, <2>2, <2>3
<1>14. ASSUME NEW r \in Requests, Finally(r) PROVE HolderInv'
  BY <1>14 DEF Finally, MayRemoveZip, Leave, Goto, UnlockIfAcquired, built, conf, local, history
<1>15. CASE Crash
  BY <1>15 DEF Crash, built, conf, local, history, files
<1>16. CASE UNCHANGED vars
  BY <1>16 DEF vars, files, built, conf, local, history
<1>17. ASSUME NEW r \in Requests, FetchZipRaises(r) PROVE HolderInv'
  BY <1>17
     DEF FetchZipRaises, LeaveLocked, Leave, Goto, Say, built, conf, files
<1>18. CASE Reload
  BY <1>18 DEF Reload, conf, files, local, history
<1> QED
  BY <1>1, <1>2, <1>3, <1>4, <1>5, <1>6, <1>7, <1>8, <1>9, <1>10, <1>11,
     <1>12, <1>13, <1>14, <1>15, <1>16, <1>17, <1>18 DEF Next, Handle

\* The type invariant: in particular a request in the handler has a path,
\* and writes a member the archive has.
THEOREM TypeCorrect == Spec => []TypeOK
BY TypeInit, TypeNext, PTL DEF Spec

\* With one_zip_cache_at_a_time, and as long as none of its requests fell back,
\* two whole-archive jobs of one provider never overlap, for any number of
\* requests, archives and reloads and whatever fails.
THEOREM WholeZipJobsExclude == Spec => []OneWholeZipJobUnlessFallback
<1>1. Init => LockInv
  BY DEF Init, LockInv, WholeZipJobs, Of
<1>2. LockInv => OneWholeZipJobUnlessFallback
  BY DEF LockInv, Of, OneWholeZipJobUnlessFallback, WholeZipJobs
<1> QED
  BY <1>1, <1>2, LockNext, TypeCorrect, PTL DEF Spec

\* Whatever double release does, a locked lock has a request of its provider at
\* work that will release it, or one left it locked when reserve_tempfile or
\* download_file raised, for any number of reloads.
THEOREM LockAlwaysHasAHolder == Spec => []LockHasAHolder
<1>1. Init => HolderInv
  BY DEF Init, HolderInv, LockHasAHolder, InFlight
<1>2. HolderInv => LockHasAHolder
  BY DEF HolderInv
<1> QED
  BY <1>1, <1>2, HolderNext, TypeCorrect, PTL DEF Spec
-----------------------------------------------------------------------------
\* Where the last request to truncate a member, which is not whole, can be:
\* it writes that very member, it failed, or the process died under it.
Truncator(r, p) ==
    \/ pc[r] = "write" /\ p = <<path[r][1], next[r]>>
    \/ pc[r] \in {"finally", "done"} /\ answer[r] = "failed"
    \/ pc[r] = "lost"

TornInv == \A p \in Paths : datadir[p] \in Requests => Truncator(datadir[p], p)

LEMMA TornNext ==
    ASSUME TypeOK, TornInv, [Next]_vars
    PROVE  TornInv'
<1> USE DEF TypeOK, TornInv, Truncator
<1>1. ASSUME NEW r \in Requests, Hit(r) PROVE TornInv'
  BY <1>1 DEF Hit, Leave, Goto, Say, built, conf, local, history, files
<1>2. ASSUME NEW r \in Requests, Miss(r) PROVE TornInv'
  BY <1>2 DEF Miss, Begin, Goto, built, conf, local, history, files
<1>3. ASSUME NEW r \in Requests, Reserve(r) PROVE TornInv'
  BY <1>3 DEF Reserve, Goto, built, conf, local, history
<1>4. ASSUME NEW r \in Requests, ReserveFails(r) PROVE TornInv'
  BY <1>4 DEF ReserveFails, LeaveLocked, Leave, Goto, Say, built, conf, local, history, files
<1>5. ASSUME NEW r \in Requests, FetchZip(r) PROVE TornInv'
  BY <1>5 DEF FetchZip, Goto, built, conf, local, history, files
<1>6. ASSUME NEW r \in Requests, FetchZipFails(r) PROVE TornInv'
  BY <1>6 DEF FetchZipFails, Leave, Goto, Say, built, conf, local, history
<1>7. ASSUME NEW r \in Requests, FallBack(r) PROVE TornInv'
  BY <1>7 DEF FallBack, MayRemoveZip, Goto, built, conf, local, history
<1>8. ASSUME NEW r \in Requests, BeginExtraction(r) PROVE TornInv'
  BY <1>8 DEF BeginExtraction, Goto, built, conf, local, history, files
<1>9. ASSUME NEW r \in Requests, OpenMember(r) PROVE TornInv'
  BY <1>9 DEF OpenMember, Goto, built, conf, local, history
<1>10. ASSUME NEW r \in Requests, CloseMember(r) PROVE TornInv'
  BY <1>10 DEF CloseMember, Goto, built, conf, local, history
<1>11. ASSUME NEW r \in Requests, ExtractFails(r) PROVE TornInv'
  BY <1>11 DEF ExtractFails, Goto, Say, built, conf, local, history, files
<1>12. ASSUME NEW r \in Requests, Finish(r) PROVE TornInv'
  BY <1>12 DEF Finish, Goto, Say, built, conf, local, history, files
<1>13. ASSUME NEW r \in Requests, FetchFile(r) PROVE TornInv'
  BY <1>13 DEF FetchFile, Leave, Goto, Say, built, conf, local, history
<1>14. ASSUME NEW r \in Requests, Finally(r) PROVE TornInv'
  BY <1>14 DEF Finally, MayRemoveZip, Leave, Goto, built, conf, local, history
<1>15. CASE Crash
  BY <1>15 DEF Crash, built, conf, local, history, files
<1>16. CASE UNCHANGED vars
  BY <1>16 DEF vars, files, built, conf, local, history
<1>17. ASSUME NEW r \in Requests, FetchZipRaises(r) PROVE TornInv'
  BY <1>17
     DEF FetchZipRaises, LeaveLocked, Leave, Goto, Say, built, conf, files
<1>18. CASE Reload
  BY <1>18 DEF Reload, conf, files, local, history
<1> QED
  BY <1>1, <1>2, <1>3, <1>4, <1>5, <1>6, <1>7, <1>8, <1>9, <1>10, <1>11,
     <1>12, <1>13, <1>14, <1>15, <1>16, <1>17, <1>18 DEF Next, Handle

\* An incomplete member is being written by the job that truncated it last, or
\* that job failed or died, for any number of requests and members: jobs that
\* overwrite each other and all end well leave nothing torn.
THEOREM TornFilesHaveCulprits == Spec => []TornFilesAccountedFor
<1>1. Init => TornInv
  BY DEF Init, TornInv
<1>2. TornInv => TornFilesAccountedFor
  BY DEF TornInv, Truncator, TornFilesAccountedFor, InFlight
<1> QED
  BY <1>1, <1>2, TornNext, TypeCorrect, PTL DEF Spec
=============================================================================
