--------------------------- MODULE SessionsProofs ---------------------------
(***************************************************************************)
(* Proofs about Sessions: its variables keep their types, an expired       *)
(* session is rejected, a live one is rejected only for a reason, and a    *)
(* user has one session, for any users, threads, logins, starts and        *)
(* failures.                                                               *)
(***************************************************************************)
EXTENDS Sessions, FiniteSetTheorems, TLAPS

USE SessionsAssumption

LoginPlaces == {"verify", "forget", "delete", "remember", "store"}
RequestPlaces == {"cache", "read", "expire", "touch", "recache"}

\* What a thread is at tells what it does; requests come with given tokens.
Kinds ==
    \A th \in Threads :
        /\ thread[th].at \in LoginPlaces => thread[th].op \in Logins
        /\ thread[th].at \in RequestPlaces => thread[th].op = "validate"
        /\ thread[th].op = "validate" => thread[th].token \in given

\* What a request knows of its token: that it was live when the request came if
\* it still is, or was when the row was read, and that a row it is to remove has
\* expired.
LiveKnown ==
    \A th \in Threads :
        thread[th].op = "validate" =>
            /\ Live(thread[th].token) => thread[th].live
            /\ thread[th].at \in {"touch", "recache"} => thread[th].live
            /\ thread[th].at = "expire" => ~Live(thread[th].token)

\* The live tokens that browsers have are stored, unless there is a reason.
GivenStored ==
    \A t \in given : Live(t) /\ t \notin superseded \cup lost => t \in rows

\* A login under way has a token of its own, and supersedes the others of its
\* user.
LoginsSupersede ==
    \A th \in Threads :
        thread[th].at \in LoginPlaces =>
            /\ thread[th].token \notin given
            /\ TokensOf(thread[th].user) \ {thread[th].token} \subseteq superseded
            /\ \A other \in Threads \ {th} :
                  thread[other].at \in LoginPlaces => thread[other].token # thread[th].token

\* Tokens in the table, in a memory, or on the way into them.
Present(t) ==
    \/ t \in rows
    \/ \E m \in Managers : t \in cache[m]
    \/ \E th \in Threads :
          /\ thread[th].token = t
          /\ thread[th].at \in {"touch", "recache", "remember", "store"}

OwnTokens ==
    \A th \in Threads : thread[th].at # "idle" => owner[thread[th].token] = thread[th].user

OnePresent ==
    \A u \in Users : \A t1, t2 \in TokensOf(u) \ escaped :
        Present(t1) /\ Present(t2) => t1 = t2

IInv ==
    /\ TypeOK /\ Kinds /\ LiveKnown /\ GivenStored /\ LoginsSupersede
    /\ RejectedForAReason /\ ExpiredIsOut

-----------------------------------------------------------------------------
(* Types.                                                                  *)

LEMMA ThreadTypes ==
    ASSUME TypeOK, NEW th \in Threads
    PROVE  /\ thread[th] \in Requests
           /\ thread[th].at # "idle" =>
                 /\ thread[th].user \in Users /\ thread[th].token \in Issued
                 /\ thread[th].manager \in Managers
BY DEF TypeOK, Managers

\* A request goes on: what it is about does not change.
Moved(th, r) ==
    /\ r \in Requests
    /\ thread' = [thread EXCEPT ![th] = r]
    /\ r.token = thread[th].token /\ r.user = thread[th].user /\ r.op = thread[th].op
    /\ r.manager = thread[th].manager /\ r.live = thread[th].live

LEMMA InitTyped == Init => TypeOK
<1>. SUFFICES ASSUME Init PROVE TypeOK
  OBVIOUS
<1>1. users \in [Users -> Rows \cup {NoRow}]
  BY DEF Init, AdminRow, DavRow, Rows
<1>2. owner \in Seq(Users) /\ Len(owner) = 0
  BY DEF Init
<1>3. Idle \in Requests
  BY DEF Idle, Requests, Logins
<1>4. age \in [Tokens -> {"live", "expired", "stale"}] /\ upsets \in 0..MaxUpsets
  BY DEF Init
<1>5. given = {} /\ rows = {} /\ superseded = {} /\ lost = {} /\ escaped = {}
  BY DEF Init
<1>6. cache \in [Managers -> SUBSET Issued]
  <2>1. cache = [m \in Managers |-> {}]
    BY DEF Init
  <2>. QED
    BY <2>1
<1>7. thread \in [Threads -> Requests] /\ \A th \in Threads : thread[th] = Idle
  BY <1>3 DEF Init
<1>8. up \in BOOLEAN
  BY Zenon DEF Init
<1>9. manager \in 0..MaxStarts /\ ~up
  BY DEF Init
<1>. QED
  BY <1>1, <1>2, <1>4, <1>5, <1>6, <1>7, <1>8, <1>9 DEF TypeOK, Idle

\* A step of a request that does not begin or end it.
Acts(th) ==
    \/ Verify(th) \/ Forget(th) \/ DeleteRows(th) \/ Remember(th) \/ StoreRow(th)
    \/ LookInCache(th) \/ ReadRow(th) \/ ExpireRow(th) \/ Touch(th) \/ Recache(th)

\* Where such steps lead, and on what grounds a token is accepted or rejected.
Leads(th, new) ==
    /\ Moved(th, new)
    /\ thread[th].at \in LoginPlaces \cup RequestPlaces
    /\ new.at # "idle"
    /\ new.at \in LoginPlaces => thread[th].at \in LoginPlaces
    /\ new.at \in RequestPlaces => thread[th].at \in RequestPlaces
    /\ new.at = "expire" => ~Live(thread[th].token)
    /\ new.at = "touch" => thread[th].token \in rows /\ Live(thread[th].token)
    /\ new.at = "recache" => thread[th].at = "touch"
    /\ new.at = "remember" => DeleteRows(th)
    /\ new.at = "store" => thread[th].at = "remember"
    /\ thread[th].at = "store" => new.at = "done"
    /\ new.result = "accepted" =>
          \/ thread[th].at \in LoginPlaces \cup {"recache"}
          \/ thread[th].at = "cache" /\ Live(thread[th].token)
          \/ thread[th].result = "accepted"
    /\ new.result = "rejected" =>
          \/ thread[th].at \in LoginPlaces \cup {"expire"}
          \/ thread[th].at = "read" /\ thread[th].token \notin rows
          \/ new.excused
          \/ thread[th].result = "rejected" /\ new.excused = thread[th].excused

LEMMA ActsLead ==
    ASSUME TypeOK, NEW th \in Threads, Acts(th)
    PROVE  Leads(th, thread'[th])
<1>0. /\ thread \in [Threads -> Requests] /\ thread[th] \in Requests
  BY DEF TypeOK
<1>. USE DEF Leads, Moved, Requests, At, Goto, Done, Fails, Logins, LoginPlaces,
             RequestPlaces
<1>1. CASE Verify(th)
  BY <1>0, <1>1 DEF Verify
<1>2. CASE Forget(th)
  BY <1>0, <1>2 DEF Forget
<1>3. CASE DeleteRows(th)
  BY <1>0, <1>3 DEF DeleteRows
<1>4. CASE Remember(th)
  BY <1>0, <1>4 DEF Remember
<1>5. CASE StoreRow(th)
  BY <1>0, <1>5 DEF StoreRow
<1>6. CASE LookInCache(th)
  BY <1>0, <1>6 DEF LookInCache
<1>7. CASE ReadRow(th)
  BY <1>0, <1>7 DEF ReadRow
<1>8. CASE ExpireRow(th)
  BY <1>0, <1>8 DEF ExpireRow
<1>9. CASE Touch(th)
  BY <1>0, <1>9 DEF Touch
<1>10. CASE Recache(th)
  BY <1>0, <1>10 DEF Recache
<1>. QED
  BY <1>1, <1>2, <1>3, <1>4, <1>5, <1>6, <1>7, <1>8, <1>9, <1>10 DEF Acts

\* What such steps do to the tables.
Keeps(th) ==
    /\ UNCHANGED <<users, owner, age, up, manager, superseded>>
    /\ lost \subseteq lost' /\ lost' \subseteq lost \cup {thread[th].token}
    /\ escaped \subseteq escaped' /\ escaped' \subseteq escaped \cup TokensOf(thread[th].user)
    /\ rows' \subseteq rows \cup {thread[th].token}
    /\ \A t \in rows \ rows' :
          \/ thread[th].at = "delete" /\ owner[t] = thread[th].user
          \/ thread[th].at = "expire" /\ t = thread[th].token
    /\ given \subseteq given'
    /\ \A t \in given' \ given :
          /\ thread[th].at = "store" /\ t = thread[th].token
          /\ t \in rows' \cup lost'
    /\ upsets' \in 0..MaxUpsets
    /\ cache' \in [Managers -> SUBSET Issued]
    /\ \A m \in Managers : cache'[m] \subseteq cache[m] \cup {thread[th].token}

LEMMA RaisesTyped ==
    ASSUME TypeOK, NEW th \in Threads, Raises(th) \/ Works(th)
    PROVE  upsets' \in 0..MaxUpsets
BY DEF TypeOK, Raises, Works, Upset

LEMMA ActsKeep ==
    ASSUME TypeOK, NEW th \in Threads, Acts(th)
    PROVE  Keeps(th)
<1>0. /\ cache \in [Managers -> SUBSET Issued] /\ upsets \in 0..MaxUpsets
      /\ rows \subseteq Issued
  BY DEF TypeOK
<1>. DEFINE u == thread[th].user
            t == thread[th].token
            m == thread[th].manager
<1>0a. t \in Issued /\ m \in Managers
  BY ThreadTypes DEF Acts, At, Verify, Forget, DeleteRows, Remember, StoreRow,
     LookInCache, ReadRow, ExpireRow, Touch, Recache
<1>. USE <1>0, <1>0a, RaisesTyped DEF Keeps, table, service, history, At
<1>1. CASE Verify(th)
  BY <1>1 DEF Verify
<1>2. CASE Forget(th)
  BY <1>2 DEF Forget
<1>3. CASE DeleteRows(th)
  BY <1>3 DEF DeleteRows, Returning
<1>4. CASE Remember(th)
  BY <1>4 DEF Remember
<1>5. CASE StoreRow(th)
  BY <1>5 DEF StoreRow, Hand
<1>6. CASE LookInCache(th)
  BY <1>6 DEF LookInCache
<1>7. CASE ReadRow(th)
  BY <1>7 DEF ReadRow
<1>8. CASE ExpireRow(th)
  BY <1>8 DEF ExpireRow
<1>9. CASE Touch(th)
  BY <1>9 DEF Touch
<1>10. CASE Recache(th)
  BY <1>10 DEF Recache
<1>. QED
  BY <1>1, <1>2, <1>3, <1>4, <1>5, <1>6, <1>7, <1>8, <1>9, <1>10 DEF Acts

-----------------------------------------------------------------------------
(* The types and the invariant, step by step.                              *)

LEMMA ActsTyped ==
    ASSUME TypeOK, NEW th \in Threads, Acts(th)
    PROVE  TypeOK'
<1>1. Leads(th, thread'[th]) /\ Keeps(th)
  BY ActsLead, ActsKeep
<1>2. thread' \in [Threads -> Requests]
  BY <1>1 DEF TypeOK, Leads, Moved
<1>3. /\ thread[th].token \in Issued /\ thread[th].at # "idle"
      /\ Issued' = Issued
  BY <1>1, ThreadTypes DEF Leads, LoginPlaces, RequestPlaces, Keeps, Issued
<1>4. ASSUME NEW o \in Threads, thread'[o].at # "idle"
      PROVE  /\ thread'[o].user \in Users /\ thread'[o].token \in Issued'
             /\ thread'[o].manager \in 1..manager'
  BY <1>1, <1>3, <1>4 DEF TypeOK, Leads, Moved, Keeps
<1>5. TokensOf(thread[th].user) \subseteq Issued
  BY DEF TokensOf
<1>. QED
  BY <1>1, <1>2, <1>3, <1>4, <1>5 DEF TypeOK, Keeps

LEMMA UpManager ==
    ASSUME TypeOK, up
    PROVE  manager \in 1..manager
<1>1. manager \in 0..MaxStarts
  BY DEF TypeOK
<1>2. manager # 0
  BY Zenon DEF TypeOK
<1>. QED
  BY <1>1, <1>2

LEMMA BeginsTyped ==
    ASSUME TypeOK, NEW th \in Threads,
           \/ \E u \in Users, op \in Logins : BeginLogin(th, u, op)
           \/ \E t \in given : BeginValidation(th, t)
           \/ Return(th)
    PROVE  TypeOK'
<1>1. ASSUME NEW u \in Users, NEW op \in Logins, BeginLogin(th, u, op) PROVE TypeOK'
  <2>1. /\ owner' \in Seq(Users) /\ Len(owner') = Len(owner) + 1
        /\ Len(owner') <= MaxTokens
    <3>1. owner \in Seq(Users) /\ owner' = Append(owner, u) /\ Len(owner) < MaxTokens
      BY <1>1 DEF BeginLogin, TypeOK
    <3>. QED
      BY <3>1
  <2>2. Issued \subseteq Issued' /\ Len(owner) + 1 \in Issued' /\ Len(owner) + 1 \in 0..MaxTokens
    BY <2>1 DEF Issued, TypeOK
  <2>3. superseded' \subseteq Issued'
    BY <1>1, <2>2 DEF BeginLogin, TokensOf, TypeOK
  <2>4. thread' \in [Threads -> Requests]
    BY <1>1, <2>2 DEF BeginLogin, TypeOK, Requests, Idle, Logins
  <2>5. ASSUME NEW o \in Threads, thread'[o].at # "idle"
        PROVE  /\ thread'[o].user \in Users /\ thread'[o].token \in Issued'
               /\ thread'[o].manager \in 1..manager'
    <3>1. manager \in 1..manager /\ manager' = manager
      BY <1>1, UpManager DEF BeginLogin, service
    <3>2. CASE o = th
      <4>1. /\ thread'[th].user = u /\ thread'[th].token = Len(owner) + 1
            /\ thread'[th].manager = manager
        BY <1>1 DEF BeginLogin, TypeOK, Idle
      <4>. QED
        BY <2>2, <3>1, <3>2, <4>1
    <3>3. CASE o # th
      <4>1. thread'[o] = thread[o]
        BY <1>1, <3>3 DEF BeginLogin, TypeOK
      <4>. QED
        BY <2>2, <2>5, <3>1, <4>1 DEF TypeOK
    <3>. QED
      BY <3>2, <3>3
  <2>. QED
    BY <1>1, <2>1, <2>2, <2>3, <2>4, <2>5 DEF BeginLogin, TypeOK, service
<1>2. ASSUME NEW t \in given, BeginValidation(th, t) PROVE TypeOK'
  <2>0. t \in Issued /\ t \in 0..MaxTokens /\ owner[t] \in Users
    BY <1>2 DEF TypeOK, Issued
  <2>1. thread' \in [Threads -> Requests]
    <3>1. [Idle EXCEPT !.op = "validate", !.at = "cache", !.user = owner[t], !.token = t,
                       !.manager = manager, !.live = Live(t)] \in Requests
      BY <2>0 DEF TypeOK, Requests, Idle, Live
    <3>. QED
      BY <1>2, <3>1 DEF BeginValidation, TypeOK
  <2>2. UNCHANGED <<users, rows, owner, age, given, up, manager, cache, superseded, lost,
                    escaped, upsets>>
    BY <1>2 DEF BeginValidation, table, service, history
  <2>3. ASSUME NEW o \in Threads, thread'[o].at # "idle"
        PROVE  /\ thread'[o].user \in Users /\ thread'[o].token \in Issued'
               /\ thread'[o].manager \in 1..manager'
    <3>1. manager \in 1..manager
      BY <1>2, UpManager DEF BeginValidation
    <3>2. CASE o = th
      <4>1. /\ thread'[th].user = owner[t] /\ thread'[th].token = t
            /\ thread'[th].manager = manager
        BY <1>2 DEF BeginValidation, TypeOK, Idle
      <4>. QED
        BY <2>0, <2>2, <3>1, <3>2, <4>1 DEF Issued
    <3>3. CASE o # th
      <4>1. thread'[o] = thread[o]
        BY <1>2, <3>3 DEF BeginValidation, TypeOK
      <4>. QED
        BY <2>2, <2>3, <4>1 DEF TypeOK, Issued
    <3>. QED
      BY <3>2, <3>3
  <2>. QED
    BY <2>1, <2>2, <2>3 DEF TypeOK, Issued
<1>3. CASE Return(th)
  <2>1. thread' \in [Threads -> Requests]
    BY <1>3 DEF Return, TypeOK, Requests, Idle, Logins
  <2>2. UNCHANGED <<users, rows, owner, age, given, up, manager, cache, superseded, lost,
                    escaped, upsets>>
    BY <1>3 DEF Return, table, service, history
  <2>3. ASSUME NEW o \in Threads, thread'[o].at # "idle"
        PROVE  /\ thread'[o].user \in Users /\ thread'[o].token \in Issued'
               /\ thread'[o].manager \in 1..manager'
    BY <1>3, <2>2, <2>3 DEF Return, TypeOK, Idle, Issued
  <2>. QED
    BY <2>1, <2>2, <2>3 DEF TypeOK, Issued
<1>. QED
  BY <1>1, <1>2, <1>3

LEMMA OthersTyped ==
    ASSUME TypeOK,
           \/ \E u \in Users : Disable(u) \/ ProxyRequest(u)
           \/ \E m \in Managers : CleanCache(m)
           \/ \E t \in given : Later(t)
           \/ CleanRows \/ Start \/ Reload \/ Crash
    PROVE  TypeOK'
<1>1. ASSUME NEW u \in Users, Disable(u) \/ ProxyRequest(u) PROVE TypeOK'
  <2>1. users' \in [Users -> Rows \cup {NoRow}]
    <3>1. users[u] \in Rows \cup {NoRow}
      BY DEF TypeOK
    <3>2. users[u].webui \in BOOLEAN
      <4>1. CASE users[u] \in Rows
        BY <4>1 DEF Rows
      <4>2. CASE users[u] = NoRow
        BY <4>2 DEF NoRow
      <4>. QED
        BY <3>1, <4>1, <4>2
    <3>3. [DavRow EXCEPT !.webui = users[u].webui] \in Rows
      BY <3>2 DEF DavRow, Rows
    <3>4. CASE ProxyRequest(u)
      BY <3>3, <3>4 DEF ProxyRequest, TypeOK
    <3>5. CASE Disable(u)
      <4>1. PICK webui \in BOOLEAN :
              users' = [users EXCEPT ![u] = [@ EXCEPT !.enabled = FALSE, !.webui = webui]]
        BY <3>2, <3>5 DEF Disable
      <4>2. [users[u] EXCEPT !.enabled = FALSE, !.webui = webui] \in Rows
        BY <3>1, <3>5 DEF Disable, Rows
      <4>. QED
        BY <4>1, <4>2 DEF TypeOK
    <3>. QED
      BY <1>1, <3>4, <3>5
  <2>2. upsets' \in 0..MaxUpsets
    BY <1>1 DEF Disable, ProxyRequest, TypeOK, Upset
  <2>3. UNCHANGED <<table, service, cache, thread, history>>
    BY <1>1 DEF Disable, ProxyRequest
  <2>. QED
    BY <2>1, <2>2, <2>3 DEF TypeOK, Issued, table, service, history
<1>2. ASSUME NEW m \in Managers, CleanCache(m) PROVE TypeOK'
  <2>1. cache' \in [Managers -> SUBSET Issued]
    BY <1>2 DEF CleanCache, TypeOK
  <2>. QED
    BY <1>2, <2>1 DEF CleanCache, TypeOK, Issued, table, service, history
<1>3. ASSUME NEW t \in given, Later(t) PROVE TypeOK'
  <2>1. age' \in [Tokens -> {"live", "expired", "stale"}]
    BY <1>3 DEF Later, TypeOK
  <2>. QED
    BY <1>3, <2>1 DEF Later, TypeOK, Issued, service, history
<1>4. CASE CleanRows
  BY <1>4 DEF CleanRows, TypeOK, Issued, service, history
<1>5. CASE Start \/ Reload
  <2>1. users' \in [Users -> Rows \cup {NoRow}]
    <3>1. AdminRow \in Rows
      BY DEF AdminRow, Rows
    <3>2. users' = users \/ users' = [users EXCEPT !["admin"] = AdminRow]
      BY <1>5 DEF Start, Reload, Populate
    <3>. QED
      BY <3>1, <3>2 DEF TypeOK
  <2>2. up' \in BOOLEAN
    BY <1>5, Zenon DEF Start, Reload, Populate, TypeOK
  <2>3. manager' \in 0..MaxStarts /\ manager' = manager + 1 /\ upsets' \in 0..MaxUpsets
    BY <1>5 DEF Start, Reload, TypeOK, Upset
  <2>4. UNCHANGED <<table, cache, thread, history>>
    BY <1>5 DEF Start, Reload
  <2>. QED
    BY <2>1, <2>2, <2>3, <2>4 DEF TypeOK, Issued, table, history
<1>6. CASE Crash
  <2>1. /\ thread' \in [Threads -> Requests]
        /\ \A th \in Threads : thread'[th].at = "idle"
        /\ cache' \in [Managers -> SUBSET Issued]
    BY <1>6 DEF Crash, Requests, Idle, Logins, TypeOK
  <2>2. up' \in BOOLEAN
    BY <1>6, Zenon DEF Crash
  <2>2a. ~up'
    BY <1>6 DEF Crash
  <2>3. upsets' \in 0..MaxUpsets
    BY <1>6 DEF Crash, Upset, TypeOK
  <2>4. UNCHANGED <<users, table, manager, history>>
    BY <1>6 DEF Crash
  <2>. QED
    BY <2>1, <2>2, <2>2a, <2>3, <2>4 DEF TypeOK, Issued, table, history
<1>. QED
  BY <1>1, <1>2, <1>3, <1>4, <1>5, <1>6

LEMMA NextTyped == TypeOK /\ [Next]_vars => TypeOK'
<1>. SUFFICES ASSUME TypeOK, [Next]_vars PROVE TypeOK'
  OBVIOUS
<1>1. ASSUME NEW th \in Threads, Step(th) PROVE TypeOK'
  BY <1>1, ActsTyped, BeginsTyped DEF Step, Acts
<1>2. CASE \/ \E u \in Users : Disable(u) \/ ProxyRequest(u)
           \/ \E m \in Managers : CleanCache(m)
           \/ \E t \in given : Later(t)
           \/ CleanRows \/ Start \/ Reload \/ Crash
  BY <1>2, OthersTyped
<1>3. CASE UNCHANGED vars
  BY <1>3 DEF vars, table, service, history, TypeOK, Issued
<1>. QED
  BY <1>1, <1>2, <1>3 DEF Next

\* Every reachable state is one of the declared types: a busy thread has a
\* manager that exists, and the tables and memories hold only tokens that were
\* made (the steps of credentials.py as Sessions models them).
THEOREM TypeCorrect == Spec => []TypeOK
<1>1. Init => TypeOK
  BY InitTyped
<1>. QED
  BY <1>1, NextTyped, PTL DEF Spec

-----------------------------------------------------------------------------
(* Who is accepted, and who is rejected.                                   *)

LEMMA InitInv == Init => IInv
<1>. SUFFICES ASSUME Init PROVE IInv
  OBVIOUS
<1>1. \A th \in Threads : thread[th] = Idle
  BY DEF Init
<1>2. given = {}
  BY DEF Init
<1>. QED
  BY <1>1, <1>2, InitTyped DEF IInv, Idle, Kinds, LiveKnown, GivenStored,
     LoginsSupersede, RejectedForAReason, ExpiredIsOut, LoginPlaces, RequestPlaces

LEMMA ActsInv ==
    ASSUME IInv, NEW th \in Threads, Acts(th)
    PROVE  Kinds' /\ LiveKnown' /\ GivenStored' /\ LoginsSupersede'
           /\ RejectedForAReason' /\ ExpiredIsOut'
<1>0. TypeOK /\ TypeOK'
  BY ActsTyped DEF IInv
<1>1. Leads(th, thread'[th]) /\ Keeps(th)
  BY <1>0, ActsLead, ActsKeep
<1>2. /\ thread'[th].token = thread[th].token /\ thread'[th].user = thread[th].user
      /\ thread'[th].op = thread[th].op /\ thread'[th].live = thread[th].live
      /\ \A o \in Threads \ {th} : thread'[o] = thread[o]
  BY <1>0, <1>1 DEF Leads, Moved, TypeOK
<1>3. /\ owner' = owner /\ age' = age /\ superseded' = superseded /\ lost \subseteq lost'
      /\ given \subseteq given' /\ \A t : Live(t)' <=> Live(t)
  BY <1>1 DEF Keeps, Live
<1>4. Kinds'
  BY <1>1, <1>2, <1>3 DEF IInv, Kinds, Leads
<1>5. LiveKnown'
  BY <1>1, <1>2, <1>3 DEF IInv, LiveKnown, Leads
<1>6. GivenStored'
  <2>. SUFFICES ASSUME NEW t \in given', Live(t), t \notin superseded \cup lost'
                PROVE  t \in rows'
    BY <1>3 DEF GivenStored
  <2>1. CASE t \notin given
    BY <1>1, <2>1 DEF Keeps
  <2>2. CASE t \in given
    <3>1. t \in rows
      BY <1>3, <2>2 DEF IInv, GivenStored
    <3>2. CASE thread[th].at = "delete" /\ owner[t] = thread[th].user
      <4>1. t \in TokensOf(thread[th].user)
        BY <1>0, <3>2, <2>2 DEF TypeOK, TokensOf
      <4>2. t # thread[th].token
        BY <2>2, <3>2 DEF IInv, LoginsSupersede, LoginPlaces
      <4>. QED
        BY <3>2, <4>1, <4>2 DEF IInv, LoginsSupersede, LoginPlaces
    <3>3. CASE thread[th].at = "expire" /\ t = thread[th].token
      BY <3>3 DEF IInv, LiveKnown, Kinds, RequestPlaces
    <3>. QED
      BY <1>1, <3>1, <3>2, <3>3 DEF Keeps
  <2>. QED
    BY <2>1, <2>2
<1>7. LoginsSupersede'
  <2>1. TokensOf(thread[th].user)' = TokensOf(thread[th].user)
        /\ \A o \in Threads : TokensOf(thread[o].user)' = TokensOf(thread[o].user)
    BY <1>2, <1>3 DEF TokensOf, Issued
  <2>2. \A o \in Threads : thread'[o].at \in LoginPlaces =>
             thread[o].at \in LoginPlaces /\ thread'[o].token = thread[o].token
    BY <1>1, <1>2 DEF Leads
  <2>3. \A o \in Threads : thread'[o].at \in LoginPlaces => thread'[o].token \notin given'
    <3>. SUFFICES ASSUME NEW o \in Threads, thread'[o].at \in LoginPlaces,
                         thread'[o].token \in given'
                  PROVE  FALSE
      OBVIOUS
    <3>1. thread[o].token \notin given
      BY <2>2 DEF IInv, LoginsSupersede
    <3>2. thread[th].at = "store" /\ thread[o].token = thread[th].token
      BY <1>1, <2>2, <3>1 DEF Keeps
    <3>3. o = th
      BY <2>2, <3>2 DEF IInv, LoginsSupersede, LoginPlaces
    <3>4. thread'[th].at = "done"
      BY <1>1, <3>2 DEF Leads
    <3>. QED
      BY <3>3, <3>4 DEF LoginPlaces
  <2>. QED
    BY <1>2, <1>3, <2>1, <2>2, <2>3 DEF IInv, LoginsSupersede
<1>8. RejectedForAReason'
  <2>. SUFFICES ASSUME NEW o \in Threads, thread'[o].op = "validate",
                       thread'[o].result = "rejected"
                PROVE  \/ ~Live(thread'[o].token)
                       \/ thread'[o].token \in superseded \cup lost'
                       \/ thread'[o].excused
    BY <1>3 DEF RejectedForAReason
  <2>1. CASE o # th
    BY <1>2, <1>3, <2>1 DEF IInv, RejectedForAReason
  <2>2. CASE o = th
    <3>1. thread[th].op = "validate" /\ thread[th].token \in given
      BY <1>2, <2>2 DEF IInv, Kinds
    <3>2. thread[th].at \notin LoginPlaces
      BY <3>1 DEF IInv, Kinds, Logins
    <3>3. CASE thread[th].at = "expire"
      BY <1>2, <2>2, <3>1, <3>3 DEF IInv, LiveKnown
    <3>4. CASE thread[th].token \notin rows
      BY <1>2, <1>3, <2>2, <3>1, <3>4 DEF IInv, GivenStored
    <3>5. CASE thread[th].result = "rejected" /\ thread'[th].excused = thread[th].excused
      BY <1>2, <1>3, <2>2, <3>1, <3>5 DEF IInv, RejectedForAReason
    <3>. QED
      BY <1>1, <2>2, <3>2, <3>3, <3>4, <3>5 DEF Leads
  <2>. QED
    BY <2>1, <2>2
<1>9. ExpiredIsOut'
  <2>. SUFFICES ASSUME NEW o \in Threads, thread'[o].op = "validate",
                       thread'[o].result = "accepted"
                PROVE  thread'[o].live
    BY DEF ExpiredIsOut
  <2>1. CASE o # th
    BY <1>2, <2>1 DEF IInv, ExpiredIsOut
  <2>2. CASE o = th
    <3>1. thread[th].at \notin LoginPlaces
      BY <1>2, <2>2 DEF IInv, Kinds, Logins
    <3>. QED
      BY <1>1, <1>2, <2>2, <3>1 DEF IInv, LiveKnown, ExpiredIsOut, Leads
  <2>. QED
    BY <2>1, <2>2
<1>. QED
  BY <1>4, <1>5, <1>6, <1>7, <1>8, <1>9

\* A request begins or ends, and nothing else changes.
LEMMA Unmoved ==
    ASSUME IInv, NEW th \in Threads,
           \A o \in Threads \ {th} : thread'[o] = thread[o],
           UNCHANGED <<owner, age, given, rows, lost, superseded>>,
           thread'[th].result = "none",
           \/ thread'[th].at = "idle" /\ thread'[th].op = "none"
           \/ /\ thread'[th].at = "cache" /\ thread'[th].op = "validate"
              /\ thread'[th].token \in given
              /\ thread'[th].live = Live(thread'[th].token)
    PROVE  Kinds' /\ LiveKnown' /\ GivenStored' /\ LoginsSupersede'
           /\ RejectedForAReason' /\ ExpiredIsOut'
<1>1. /\ \A t : Live(t)' <=> Live(t)
      /\ thread'[th].op = "validate" =>
            (Live(thread'[th].token) => thread'[th].live)
  BY DEF Live
<1>2. Kinds'
  BY DEF IInv, Kinds, LoginPlaces, RequestPlaces
<1>3. LiveKnown'
  BY <1>1 DEF IInv, LiveKnown
<1>4. GivenStored'
  BY <1>1 DEF IInv, GivenStored
<1>5. LoginsSupersede'
  <2>1. \A o \in Threads : thread'[o].at \in LoginPlaces =>
          thread'[o] = thread[o] /\ thread[o].at \in LoginPlaces
    BY DEF LoginPlaces
  <2>2. \A o \in Threads : thread'[o] = thread[o] =>
          TokensOf(thread[o].user)' = TokensOf(thread[o].user)
    BY DEF TokensOf, Issued
  <2>. QED
    BY <2>1, <2>2 DEF IInv, LoginsSupersede
<1>6. RejectedForAReason' /\ ExpiredIsOut'
  BY <1>1 DEF IInv, RejectedForAReason, ExpiredIsOut
<1>. QED
  BY <1>2, <1>3, <1>4, <1>5, <1>6

LEMMA BeginsInv ==
    ASSUME IInv, NEW th \in Threads,
           \/ \E u \in Users, op \in Logins : BeginLogin(th, u, op)
           \/ \E t \in given : BeginValidation(th, t)
           \/ Return(th)
    PROVE  Kinds' /\ LiveKnown' /\ GivenStored' /\ LoginsSupersede'
           /\ RejectedForAReason' /\ ExpiredIsOut'
<1>0. TypeOK
  BY DEF IInv
<1>1. ASSUME NEW u \in Users, NEW op \in Logins, BeginLogin(th, u, op)
      PROVE  Kinds' /\ LiveKnown' /\ GivenStored' /\ LoginsSupersede'
             /\ RejectedForAReason' /\ ExpiredIsOut'
  <2>. DEFINE new == Len(owner) + 1
  <2>1. /\ thread'[th].op = op /\ thread'[th].at = "verify" /\ thread'[th].user = u
        /\ thread'[th].token = new /\ thread'[th].result = "none"
        /\ \A o \in Threads \ {th} : thread'[o] = thread[o]
    BY <1>0, <1>1 DEF BeginLogin, TypeOK, Idle
  <2>2. /\ age' = age /\ given' = given /\ rows' = rows /\ lost' = lost
        /\ superseded \subseteq superseded' /\ op # "validate"
        /\ \A t : Live(t)' <=> Live(t)
    BY <1>1 DEF BeginLogin, Live, Logins
  <2>3. Kinds'
    BY <1>1, <2>1, <2>2 DEF IInv, Kinds, LoginPlaces, RequestPlaces
  <2>4. LiveKnown'
    BY <2>1, <2>2 DEF IInv, LiveKnown
  <2>5. GivenStored'
    BY <2>2 DEF IInv, GivenStored
  <2>6. RejectedForAReason' /\ ExpiredIsOut'
    BY <2>1, <2>2 DEF IInv, RejectedForAReason, ExpiredIsOut
  <2>7. /\ new \notin Issued /\ new \notin given
        /\ \A o \in Threads : thread[o].at \in LoginPlaces => thread[o].token # new
    BY <1>0 DEF TypeOK, Issued, LoginPlaces
  <2>8. \A v \in Users : TokensOf(v)' = TokensOf(v) \cup (IF v = u THEN {new} ELSE {})
    <3>1. /\ \A i \in Issued : owner'[i] = owner[i]
          /\ owner'[new] = u /\ Issued' = Issued \cup {new}
      <4>1. owner \in Seq(Users) /\ owner' = Append(owner, u)
        BY <1>0, <1>1 DEF BeginLogin, TypeOK
      <4>. QED
        BY <4>1 DEF Issued
    <3>. QED
      BY <3>1, <2>7 DEF TokensOf
  <2>9. \A o \in Threads \ {th} : thread[o].at \in LoginPlaces /\ thread[o].user = u =>
            new \in superseded'
    BY <1>0, <1>1 DEF BeginLogin, LogsIn, IInv, Kinds, LoginPlaces
  <2>10. TokensOf(u) \subseteq superseded'
    BY <1>1 DEF BeginLogin
  <2>11. \A o \in Threads : thread[o].at \in LoginPlaces => thread[o].user \in Users
    BY <1>0 DEF TypeOK, LoginPlaces
  <2>12. LoginsSupersede'
    <3>1. ASSUME NEW o \in Threads, thread'[o].at \in LoginPlaces
          PROVE  /\ thread'[o].token \notin given'
                 /\ TokensOf(thread[o].user)' \ {thread'[o].token} \subseteq superseded'
      <4>1. CASE o = th
        <5>1. TokensOf(thread[o].user)' = TokensOf(u)'
          BY <2>1, <4>1 DEF TokensOf
        <5>. QED
          BY <2>1, <2>2, <2>7, <2>8, <2>10, <4>1, <5>1
      <4>2. CASE o # th
        <5>1. /\ thread'[o] = thread[o] /\ thread[o].at \in LoginPlaces
              /\ thread[o].user \in Users
          BY <2>1, <2>11, <3>1, <4>2
        <5>2. TokensOf(thread[o].user)' \subseteq TokensOf(thread[o].user) \cup {new}
          <6>1. \A v : TokensOf(v)' = {i \in Issued' : owner'[i] = v}
            BY DEF TokensOf
          <6>. QED
            BY <2>8, <5>1, <6>1 DEF TokensOf
        <5>. QED
          BY <2>1, <2>2, <2>8, <2>9, <3>1, <4>2, <5>1, <5>2 DEF IInv, LoginsSupersede
      <4>. QED
        BY <4>1, <4>2
    <3>2. ASSUME NEW o \in Threads, NEW q \in Threads \ {o},
                 thread'[o].at \in LoginPlaces, thread'[q].at \in LoginPlaces
          PROVE  thread'[q].token # thread'[o].token
      BY <2>1, <2>7, <3>2 DEF IInv, LoginsSupersede
    <3>. QED
      BY <3>1, <3>2 DEF LoginsSupersede
  <2>. QED
    BY <2>3, <2>4, <2>5, <2>6, <2>12
<1>2. ASSUME NEW t \in given, BeginValidation(th, t)
      PROVE  Kinds' /\ LiveKnown' /\ GivenStored' /\ LoginsSupersede'
             /\ RejectedForAReason' /\ ExpiredIsOut'
  <2>1. /\ thread'[th].op = "validate" /\ thread'[th].at = "cache"
        /\ thread'[th].token = t /\ thread'[th].live = Live(t) /\ thread'[th].result = "none"
        /\ \A o \in Threads \ {th} : thread'[o] = thread[o]
    BY <1>0, <1>2 DEF BeginValidation, TypeOK, Idle
  <2>2. UNCHANGED <<owner, age, given, rows, lost, superseded>>
    BY <1>2 DEF BeginValidation, table, history
  <2>. QED
    BY <1>2, <2>1, <2>2, Unmoved
<1>3. CASE Return(th)
  <2>1. /\ thread'[th] = Idle
        /\ \A o \in Threads \ {th} : thread'[o] = thread[o]
    BY <1>0, <1>3 DEF Return, TypeOK
  <2>2. UNCHANGED <<owner, age, given, rows, lost, superseded>>
    BY <1>3 DEF Return, table, history
  <2>. QED
    BY <2>1, <2>2, Unmoved DEF Idle
<1>. QED
  BY <1>1, <1>2, <1>3

LEMMA OthersInv ==
    ASSUME IInv,
           \/ \E u \in Users : Disable(u) \/ ProxyRequest(u)
           \/ \E m \in Managers : CleanCache(m)
           \/ \E t \in given : Later(t)
           \/ CleanRows \/ Start \/ Reload \/ Crash \/ UNCHANGED vars
    PROVE  Kinds' /\ LiveKnown' /\ GivenStored' /\ LoginsSupersede'
           /\ RejectedForAReason' /\ ExpiredIsOut'
<1>1. UNCHANGED <<owner, given, superseded, lost>>
  BY DEF Disable, ProxyRequest, CleanCache, Later, CleanRows, Start, Reload, Crash, vars,
     table, history
<1>2. /\ \A t \in Issued : Live(t)' => Live(t)
      /\ \A t \in rows : Live(t) => t \in rows'
  <2>1. CASE \E t \in given : Later(t)
    <3>1. PICK t \in given : Later(t)
      BY <2>1
    <3>2. age \in [Tokens -> {"live", "expired", "stale"}] /\ Issued \subseteq Tokens
      BY DEF IInv, TypeOK, Tokens, Issued
    <3>. QED
      BY <3>1, <3>2 DEF Later, Live
  <2>2. CASE CleanRows
    BY <2>2 DEF CleanRows, Live
  <2>3. CASE UNCHANGED <<rows, age>>
    BY <2>3 DEF Live
  <2>4. \/ \E t \in given : Later(t)
        \/ CleanRows \/ UNCHANGED <<rows, age>>
    BY DEF Disable, ProxyRequest, CleanCache, Start, Reload, Crash, vars, table
  <2>. QED
    BY <2>1, <2>2, <2>3, <2>4
<1>3. thread' = thread \/ thread' = [th \in Threads |-> Idle]
  BY DEF Disable, ProxyRequest, CleanCache, Later, CleanRows, Start, Reload, Crash, vars
<1>4. \A th \in Threads : thread'[th] = thread[th] \/ thread'[th] = Idle
  BY <1>3
<1>5. \A th \in Threads : thread[th].op = "validate" => thread[th].token \in Issued
  BY DEF IInv, Kinds, TypeOK
<1>6. given \subseteq Issued
  BY DEF IInv, TypeOK
<1>7. Kinds' /\ ExpiredIsOut'
  BY <1>1, <1>4 DEF IInv, Kinds, ExpiredIsOut, Idle, LoginPlaces, RequestPlaces
<1>8. LiveKnown' /\ RejectedForAReason'
  BY <1>1, <1>2, <1>4, <1>5 DEF IInv, LiveKnown, RejectedForAReason, Idle
<1>9. GivenStored'
  BY <1>1, <1>2, <1>6 DEF IInv, GivenStored
<1>10. LoginsSupersede'
  BY <1>1, <1>4 DEF IInv, LoginsSupersede, Idle, LoginPlaces, TokensOf, Issued
<1>. QED
  BY <1>7, <1>8, <1>9, <1>10

LEMMA NextInv == IInv /\ [Next]_vars => IInv'
<1>. SUFFICES ASSUME IInv, [Next]_vars PROVE IInv'
  OBVIOUS
<1>1. TypeOK'
  BY NextTyped DEF IInv
<1>2. ASSUME NEW th \in Threads, Step(th) PROVE IInv'
  BY <1>1, <1>2, ActsInv, BeginsInv DEF Step, Acts, IInv
<1>3. CASE \/ \E u \in Users : Disable(u) \/ ProxyRequest(u)
           \/ \E m \in Managers : CleanCache(m)
           \/ \E t \in given : Later(t)
           \/ CleanRows \/ Start \/ Reload \/ Crash \/ UNCHANGED vars
  BY <1>1, <1>3, OthersInv DEF IInv
<1>. QED
  BY <1>2, <1>3 DEF Next

\* A live session is rejected only because its user logged in again, because it
\* was not stored, or because a statement of the request failed, over reloads,
\* crashes and cleanups (validate_session_token).
THEOREM RejectionsHaveReasons == Spec => []RejectedForAReason
<1>1. IInv => RejectedForAReason
  BY DEF IInv
<1>. QED
  BY <1>1, InitInv, NextInv, PTL DEF Spec

\* A request that comes after its token has expired is never accepted, though
\* memory, the table and the cleanup each have a test of their own.
THEOREM ExpiredTokensAreOut == Spec => []ExpiredIsOut
<1>1. IInv => ExpiredIsOut
  BY DEF IInv
<1>. QED
  BY <1>1, InitInv, NextInv, PTL DEF Spec

-----------------------------------------------------------------------------
(* One session per user.                                                   *)

\* Nothing comes to be present that was not, unless a login makes it so.
LEMMA OnePresentKept ==
    ASSUME TypeOK, OnePresent, owner' = owner, escaped \subseteq escaped',
           \A t \in Issued : Present(t)' => Present(t)
    PROVE  OnePresent'
<1>1. \A u \in Users : TokensOf(u)' = TokensOf(u)
  BY DEF TokensOf, Issued
<1>2. \A u \in Users : TokensOf(u) \subseteq Issued
  BY DEF TokensOf
<1>. QED
  BY <1>1, <1>2 DEF OnePresent

LEMMA PresentIssued ==
    ASSUME TypeOK, NEW t, Present(t)
    PROVE  t \in Issued
<1>1. \A m \in Managers : cache[m] \subseteq Issued
  BY DEF TypeOK
<1>2. rows \subseteq Issued
  BY DEF TypeOK
<1>3. \A th \in Threads : thread[th].at # "idle" => thread[th].token \in Issued
  BY DEF TypeOK
<1>. QED
  BY <1>1, <1>2, <1>3 DEF Present

\* After the rows are deleted, what is still present has escaped.
LEMMA DeletionLeavesOne ==
    ASSUME TypeOK, OwnTokens, OnePresent, NEW th \in Threads, DeleteRows(th)
    PROVE  OnePresent'
<1>. DEFINE u == thread[th].user
<1>1. /\ owner' = owner /\ cache' = cache /\ escaped \subseteq escaped'
      /\ Issued' = Issued /\ rows' \subseteq rows
      /\ thread' = [thread EXCEPT ![th].at = "remember"]
      /\ \/ rows' = {t \in rows : owner[t] # u} /\ escaped' = escaped \cup Returning(th, u)
         \/ escaped' = escaped \cup TokensOf(u)
  BY DEF DeleteRows, Goto, Issued
<1>2. /\ \A v \in Users : TokensOf(v)' = TokensOf(v) /\ TokensOf(v) \subseteq Issued
      /\ \A o \in Threads \ {th} : thread'[o] = thread[o]
      /\ thread'[th].token = thread[th].token
  BY <1>1 DEF TokensOf, TypeOK
<1>3. /\ u \in Users /\ owner[thread[th].token] = u /\ thread[th].token \in Issued
  BY DEF DeleteRows, At, OwnTokens, TypeOK
<1>4. ASSUME NEW t, Present(t)'
      PROVE  Present(t) \/ t = thread[th].token
  <2>1. ASSUME NEW o \in Threads \ {th}, thread'[o].token = t,
               thread'[o].at \in {"touch", "recache", "remember", "store"}
        PROVE  Present(t)
    BY <1>2, <2>1 DEF Present
  <2>. QED
    BY <1>1, <1>2, <1>4, <2>1 DEF Present
<1>5. ASSUME NEW v \in Users, v # u, NEW t1 \in TokensOf(v) \ escaped',
             NEW t2 \in TokensOf(v) \ escaped', Present(t1)', Present(t2)'
      PROVE  t1 = t2
  <2>1. owner[t1] = v /\ owner[t2] = v
    BY DEF TokensOf
  <2>. QED
    BY <1>1, <1>3, <1>4, <1>5, <2>1 DEF OnePresent
<1>6. ASSUME NEW t \in TokensOf(u) \ escaped', Present(t)'
      PROVE  t = thread[th].token
  <2>1. t \notin rows' /\ t \notin Returning(th, u)
    BY <1>1, <1>6 DEF TokensOf
  <2>. QED
    BY <1>1, <1>2, <1>6, <2>1 DEF Present, Returning
<1>. QED
  BY <1>2, <1>5, <1>6 DEF OnePresent

LEMMA OwnTokensKept ==
    ASSUME TypeOK, OwnTokens, [Next]_vars
    PROVE  OwnTokens'
<1>1. ASSUME NEW th \in Threads, Acts(th) PROVE OwnTokens'
  BY <1>1, ActsLead, ActsKeep DEF OwnTokens, Leads, Moved, Keeps, LoginPlaces, RequestPlaces,
     TypeOK
<1>2. ASSUME NEW th \in Threads, NEW u \in Users, NEW op \in Logins, BeginLogin(th, u, op)
      PROVE  OwnTokens'
  <2>1. /\ thread'[th].user = u /\ thread'[th].token = Len(owner) + 1
        /\ \A o \in Threads \ {th} : thread'[o] = thread[o]
    BY <1>2 DEF BeginLogin, TypeOK, Idle
  <2>2. owner \in Seq(Users) /\ owner' = Append(owner, u)
    BY <1>2 DEF BeginLogin, TypeOK
  <2>3. owner'[Len(owner) + 1] = u /\ \A i \in Issued : owner'[i] = owner[i]
    BY <2>2 DEF Issued
  <2>4. \A o \in Threads : thread[o].at # "idle" => thread[o].token \in Issued
    BY DEF TypeOK
  <2>. QED
    BY <2>1, <2>3, <2>4 DEF OwnTokens
<1>3. ASSUME NEW th \in Threads, NEW t \in given, BeginValidation(th, t) PROVE OwnTokens'
  BY <1>3 DEF BeginValidation, OwnTokens, TypeOK, Idle, table
<1>4. ASSUME NEW th \in Threads, Return(th) PROVE OwnTokens'
  BY <1>4 DEF Return, OwnTokens, TypeOK, Idle, table
<1>5. CASE \/ \E u \in Users : Disable(u) \/ ProxyRequest(u)
           \/ \E m \in Managers : CleanCache(m)
           \/ \E t \in given : Later(t)
           \/ CleanRows \/ Start \/ Reload \/ Crash \/ UNCHANGED vars
  <2>1. owner' = owner /\ (thread' = thread \/ thread' = [th \in Threads |-> Idle])
    BY <1>5 DEF Disable, ProxyRequest, CleanCache, Later, CleanRows, Start, Reload, Crash,
       vars, table
  <2>2. \A th \in Threads : thread'[th] = thread[th] \/ thread'[th] = Idle
    BY <2>1
  <2>. QED
    BY <2>1, <2>2 DEF OwnTokens, Idle
<1>. QED
  BY <1>1, <1>2, <1>3, <1>4, <1>5 DEF Next, Step, Acts

LEMMA NextOnePresent ==
    ASSUME TypeOK, OwnTokens, OnePresent, [Next]_vars
    PROVE  OnePresent'
<1>1. ASSUME NEW th \in Threads, DeleteRows(th) PROVE OnePresent'
  BY <1>1, DeletionLeavesOne
<1>2. ASSUME NEW th \in Threads, Acts(th), ~DeleteRows(th) PROVE OnePresent'
  <2>1. Leads(th, thread'[th]) /\ Keeps(th)
    BY <1>2, ActsLead, ActsKeep
  <2>2. \A o \in Threads \ {th} : thread'[o] = thread[o]
    BY <2>1 DEF Leads, Moved, TypeOK
  <2>3. /\ thread'[th].token = thread[th].token
        /\ thread'[th].at \in {"touch", "recache", "remember", "store"} =>
              Present(thread[th].token)
    BY <1>2, <2>1 DEF Leads, Moved, Present
  <2>4. \/ rows' \subseteq rows
        \/ thread[th].at = "store" /\ rows' \subseteq rows \cup {thread[th].token}
    BY <1>2 DEF Acts, Verify, Forget, Remember, StoreRow, LookInCache, ReadRow, ExpireRow,
       Touch, Recache, At, table
  <2>5. \/ \A m \in Managers : cache'[m] \subseteq cache[m]
        \/ /\ thread[th].at \in {"remember", "recache"}
           /\ \A m \in Managers : cache'[m] \subseteq cache[m] \cup {thread[th].token}
    BY <1>2 DEF Acts, Verify, Forget, Remember, StoreRow, LookInCache, ReadRow, ExpireRow,
       Touch, Recache, At, TypeOK
  <2>6. \A t \in Issued : Present(t)' => Present(t)
    BY <2>2, <2>3, <2>4, <2>5 DEF Present
  <2>. QED
    BY <2>1, <2>6, OnePresentKept DEF Keeps
<1>3. ASSUME NEW th \in Threads, NEW u \in Users, NEW op \in Logins, BeginLogin(th, u, op)
      PROVE  OnePresent'
  <2>. DEFINE new == Len(owner) + 1
  <2>1. /\ thread'[th].at = "verify" /\ \A o \in Threads \ {th} : thread'[o] = thread[o]
        /\ UNCHANGED <<rows, cache, escaped>>
    BY <1>3 DEF BeginLogin, TypeOK, Idle
  <2>2. ASSUME NEW t, Present(t)' PROVE Present(t)
    BY <2>1, <2>2 DEF Present
  <2>3. owner \in Seq(Users) /\ owner' = Append(owner, u)
    BY <1>3 DEF BeginLogin, TypeOK
  <2>4. new \notin Issued /\ Issued' = Issued \cup {new} /\ \A i \in Issued : owner'[i] = owner[i]
    BY <2>3 DEF Issued
  <2>5. ASSUME NEW v \in Users, NEW t \in TokensOf(v)', Present(t)'
        PROVE  t \in TokensOf(v) /\ Present(t)
    <3>1. Present(t) /\ t \in Issued
      BY <2>2, <2>5, PresentIssued
    <3>. QED
      BY <2>4, <3>1 DEF TokensOf
  <2>. QED
    BY <2>1, <2>5 DEF OnePresent
<1>4. ASSUME NEW th \in Threads,
             (\E t \in given : BeginValidation(th, t)) \/ Return(th)
      PROVE  OnePresent'
  <2>1. /\ thread'[th].at \in {"cache", "idle"}
        /\ \A o \in Threads \ {th} : thread'[o] = thread[o]
        /\ UNCHANGED <<rows, cache, escaped, owner>>
    <3>1. CASE \E t \in given : BeginValidation(th, t)
      BY <3>1 DEF BeginValidation, TypeOK, Idle, table, history
    <3>2. CASE Return(th)
      BY <3>2 DEF Return, TypeOK, Idle, table, history
    <3>. QED
      BY <1>4, <3>1, <3>2
  <2>2. \A t \in Issued : Present(t)' => Present(t)
    BY <2>1 DEF Present
  <2>. QED
    BY <2>1, <2>2, OnePresentKept
<1>5. CASE \/ \E u \in Users : Disable(u) \/ ProxyRequest(u)
           \/ \E m \in Managers : CleanCache(m)
           \/ \E t \in given : Later(t)
           \/ CleanRows \/ Start \/ Reload \/ Crash \/ UNCHANGED vars
  <2>1. owner' = owner /\ escaped' = escaped /\ rows' \subseteq rows
        /\ (thread' = thread \/ thread' = [th \in Threads |-> Idle])
    BY <1>5 DEF Disable, ProxyRequest, CleanCache, Later, CleanRows, Start, Reload, Crash,
       vars, table, history
  <2>2. \A m \in Managers : cache'[m] \subseteq cache[m]
    BY <1>5 DEF Disable, ProxyRequest, CleanCache, Later, CleanRows, Start, Reload, Crash,
       vars, TypeOK
  <2>3. \A th \in Threads : thread'[th] = thread[th] \/ thread'[th] = Idle
    BY <2>1
  <2>4. \A t \in Issued : Present(t)' => Present(t)
    BY <2>1, <2>2, <2>3 DEF Present, Idle
  <2>. QED
    BY <2>1, <2>4, OnePresentKept
<1>. QED
  BY <1>1, <1>2, <1>3, <1>4, <1>5 DEF Next, Step, Acts

LEMMA OneIsFew ==
    ASSUME TypeOK, OnePresent
    PROVE  OneSessionPerUser
<1>. SUFFICES ASSUME NEW u \in Users
              PROVE  Cardinality({t \in TokensOf(u) \ escaped :
                                     Live(t) /\ t \in rows \cup Remembered}) <= 1
  BY DEF OneSessionPerUser
<1>. DEFINE S == {t \in TokensOf(u) \ escaped : Live(t) /\ t \in rows \cup Remembered}
<1>1. \A t \in S : Present(t)
  <2>1. Remembered = {} \/ \E m \in Managers : Remembered = cache[m]
    BY DEF TypeOK, Remembered, Managers
  <2>. QED
    BY <2>1 DEF Present
<1>2. \A t1, t2 \in S : t1 = t2
  BY <1>1 DEF OnePresent
<1>3. CASE S = {}
  BY <1>3, FS_EmptySet
<1>4. CASE S # {}
  <2>1. PICK t \in S : S = {t}
    BY <1>2, <1>4
  <2>2. Cardinality({t}) = 1
    BY FS_Singleton
  <2>. QED
    BY <2>1, <2>2
<1>. QED
  BY <1>3, <1>4

\* Over logins of a user side by side, requests that bring a session back into a
\* memory, failing statements, reloads and crashes a user has one live session,
\* but for those a login could not end (_create_session_token).
THEOREM SessionsAreSingle == Spec => []OneSessionPerUser
<1>1. Init => TypeOK /\ OwnTokens /\ OnePresent
  <2>. SUFFICES ASSUME Init PROVE OwnTokens /\ OnePresent
    BY InitTyped
  <2>1. owner = <<>> /\ \A th \in Threads : thread[th] = Idle
    BY DEF Init
  <2>2. \A u \in Users : TokensOf(u) = {}
    BY <2>1 DEF TokensOf, Issued
  <2>. QED
    BY <2>1, <2>2 DEF OwnTokens, OnePresent, Idle
<1>2. TypeOK /\ OwnTokens /\ OnePresent /\ [Next]_vars => (TypeOK /\ OwnTokens /\ OnePresent)'
  BY NextTyped, OwnTokensKept, NextOnePresent
<1>3. TypeOK /\ OnePresent => OneSessionPerUser
  BY OneIsFew
<1>. QED
  BY <1>1, <1>2, <1>3, PTL DEF Spec
=============================================================================
