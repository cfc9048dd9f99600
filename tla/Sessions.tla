------------------------------ MODULE Sessions ------------------------------
(***************************************************************************)
(* Accounts and sessions: AuthenticationManager and ExternalAuthManager    *)
(* (app/auth/credentials.py) over the tables auth_users and auth_sessions  *)
(* (app/db/adapter.py, app/db/schema.py), as the WebUI, the administration *)
(* and the WebDAV domain controller call them.                             *)
(*                                                                         *)
(* A session is a row of auth_sessions and an entry of a manager's memory; *)
(* request threads look in memory first and bring a row back into it.  A   *)
(* login ends the sessions its user has, first in memory and then in the   *)
(* table.  Every reload makes a new manager with an empty memory and a new *)
(* connection, while requests that have begun go on with the old ones.     *)
(* A token is the number of the login that made it.                        *)
(***************************************************************************)
EXTENDS Naturals, FiniteSets, Sequences

CONSTANTS
    Users,          \* the names of accounts, "admin" among them
    Imported,       \* Imported[u]: "webui", "webdav" or "none", the account u had
                    \* from a bootstrap file before the first start
    Threads,        \* request threads
    AutoCreate,     \* proxy_header.auto_create
    MaxTokens,      \* how many logins there may be (a bound)
    MaxStarts,      \* how many times the services may start (a bound)
    MaxUpsets       \* how many failing statements, crashes, reloads and edits of
                    \* accounts there may be (a bound)

ASSUME SessionsAssumption ==
    /\ "admin" \in Users
    /\ Imported \in [Users -> {"none", "webui", "webdav"}]
    /\ AutoCreate \in BOOLEAN
    /\ MaxTokens \in Nat /\ MaxStarts \in Nat \ {0}
    /\ MaxUpsets \in Nat

Tokens == 1..MaxTokens
Managers == 1..MaxStarts
Logins == {"webui", "webdav"}

NoRow == [purpose |-> "none", enabled |-> FALSE, webui |-> FALSE]
AdminRow == [purpose |-> "webui", enabled |-> TRUE, webui |-> TRUE]
DavRow == [purpose |-> "webdav", enabled |-> TRUE, webui |-> FALSE]
Rows == [purpose : {"webui", "webdav"}, enabled : BOOLEAN, webui : BOOLEAN]

VARIABLES
    users,          \* auth_users
    up,             \* the services run
    manager,        \* the AuthenticationManager of the last start
    owner,          \* owner[t]: whom token t was made for
    age,            \* age[t]: "live", "expired", or "stale" a day later
    given,          \* the tokens a browser has received
    rows,           \* auth_sessions
    cache,          \* cache[m]: _sessions of manager m
    thread,         \* what each thread does
    superseded,     \* tokens whose user has logged in since, or meanwhile
    lost,           \* tokens that were not stored
    escaped,        \* tokens that another login did not end
    upsets          \* the failures, crashes, reloads and edits so far

table == <<rows, owner, age, given>>
service == <<up, manager>>
history == <<superseded, lost, escaped>>
vars == <<users, table, service, cache, thread, history, upsets>>

Idle == [op |-> "none", at |-> "idle", user |-> "none", token |-> 0, manager |-> 0,
         live |-> FALSE, excused |-> FALSE, result |-> "none"]

Issued == 1..Len(owner)
TokensOf(u) == {t \in Issued : owner[t] = u}
Live(t) == age[t] = "live"

\* The connection of a manager is closed by the reload that replaces it.
Connected(th) == thread[th].manager = manager

\* What the memory in use holds.
Remembered == IF manager = 0 THEN {} ELSE cache[manager]

Requests ==
    [op : Logins \cup {"none", "validate"},
     at : {"idle", "verify", "forget", "delete", "remember", "store", "cache", "read",
           "expire", "touch", "recache", "done"},
     user : Users \cup {"none"}, token : 0..MaxTokens, manager : 0..MaxStarts,
     live : BOOLEAN, excused : BOOLEAN, result : {"none", "accepted", "rejected"}]

\* The types of the variables; a thread that is busy has
\* a user, a token and a manager.
TypeOK ==
    /\ users \in [Users -> Rows \cup {NoRow}]
    /\ up \in BOOLEAN /\ manager \in 0..MaxStarts /\ (up => manager # 0)
    /\ owner \in Seq(Users) /\ Len(owner) <= MaxTokens
    /\ age \in [Tokens -> {"live", "expired", "stale"}]
    /\ given \subseteq Issued /\ rows \subseteq Issued
    /\ cache \in [Managers -> SUBSET Issued]
    /\ thread \in [Threads -> Requests]
    /\ \A th \in Threads : thread[th].at # "idle" =>
        /\ thread[th].user \in Users /\ thread[th].token \in Issued
        /\ thread[th].manager \in 1..manager
    /\ superseded \subseteq Issued /\ lost \subseteq Issued /\ escaped \subseteq Issued
    /\ upsets \in 0..MaxUpsets

Init ==
    /\ users = [u \in Users |-> CASE Imported[u] = "webui" -> AdminRow
                                  [] Imported[u] = "webdav" -> DavRow
                                  [] OTHER -> NoRow]
    /\ up = FALSE /\ manager = 0
    /\ owner = <<>>
    /\ age = [t \in Tokens |-> "live"]
    /\ given = {} /\ rows = {}
    /\ cache = [m \in Managers |-> {}]
    /\ thread = [th \in Threads |-> Idle]
    /\ superseded = {} /\ lost = {} /\ escaped = {}
    /\ upsets = 0

-----------------------------------------------------------------------------
(* The steps of a thread *)

At(th, at) == thread[th].at = at
Goto(th, at) == thread' = [thread EXCEPT ![th].at = at]
Done(th, result) == thread' = [thread EXCEPT ![th].at = "done", ![th].result = result]
Fails(th) == thread' = [thread EXCEPT ![th].at = "done", ![th].result = "rejected",
                                      ![th].excused = TRUE]

Upset == upsets < MaxUpsets /\ upsets' = upsets + 1

\* A statement raises: its connection is closed, or the database refuses it.
Raises(th) ==
    \/ ~Connected(th) /\ UNCHANGED upsets
    \/ Connected(th) /\ Upset
Works(th) == Connected(th) /\ UNCHANGED upsets

-----------------------------------------------------------------------------
(* Login: _validate_user_credentials and _create_session_token *)

LogsIn(th, u) == thread[th].user = u /\ thread[th].op \in Logins /\ thread[th].at # "done"

BeginLogin(th, u, op) ==
    /\ up /\ At(th, "idle") /\ Len(owner) < MaxTokens
    /\ owner' = Append(owner, u)
    /\ thread' = [thread EXCEPT ![th] =
                    [Idle EXCEPT !.op = op, !.at = "verify", !.user = u,
                                 !.token = Len(owner) + 1, !.manager = manager]]
    /\ superseded' = superseded \cup TokensOf(u)
                       \cup (IF \E other \in Threads : LogsIn(other, u)
                             THEN {Len(owner) + 1} ELSE {})
    /\ UNCHANGED <<users, rows, age, given, service, cache, lost, escaped, upsets>>

Admits(row, op) == row.enabled /\ row.purpose = op

\* The password may be right or wrong, for the database or for the external
\* provider that _login_user asks next.
Verify(th) ==
    /\ At(th, "verify")
    /\ \/ Works(th) /\ Admits(users[thread[th].user], thread[th].op) /\ Goto(th, "forget")
       \/ Works(th) /\ Done(th, "rejected")
       \/ Raises(th) /\ Fails(th)
    /\ UNCHANGED <<users, table, service, cache, history>>

\* _cleanup_expired_sessions, and _remove_user_sessions as far as memory goes.
Forget(th) ==
    LET m == thread[th].manager
    IN /\ At(th, "forget")
       /\ cache' = [cache EXCEPT ![m] = {t \in @ : Live(t) /\ owner[t] # thread[th].user}]
       /\ Goto(th, "delete")
       /\ UNCHANGED <<users, table, service, history, upsets>>

\* Tokens of u that come back, or come only now: in a memory or on the way
\* into one, or of a login that has already been here.
Returning(th, u) ==
    {t \in TokensOf(u) :
        \/ \E m \in Managers : t \in cache[m]
        \/ \E other \in Threads \ {th} :
              thread[other].token = t /\ thread[other].at \in {"touch", "recache",
                                                               "remember", "store"}}

\* Faulty: only the rows that have expired.
DeleteRowsExpired(th) ==
    LET u == thread[th].user
    IN /\ At(th, "delete")
       /\ \/ Works(th) /\ rows' = {t \in rows : owner[t] # u \/ Live(t)}
                       /\ escaped' = escaped \cup Returning(th, u)
          \/ Raises(th) /\ UNCHANGED rows /\ escaped' = escaped \cup TokensOf(u)
       /\ Goto(th, "remember")
       /\ UNCHANGED <<users, owner, age, given, service, cache, superseded, lost>>

\* A failure is logged, and the login goes on.
DeleteRows(th) ==
    LET u == thread[th].user
    IN /\ At(th, "delete")
       /\ \/ Works(th) /\ rows' = {t \in rows : owner[t] # u}
                       /\ escaped' = escaped \cup Returning(th, u)
          \/ Raises(th) /\ UNCHANGED rows /\ escaped' = escaped \cup TokensOf(u)
       /\ Goto(th, "remember")
       /\ UNCHANGED <<users, owner, age, given, service, cache, superseded, lost>>

Remember(th) ==
    /\ At(th, "remember")
    /\ cache' = [cache EXCEPT ![thread[th].manager] = @ \cup {thread[th].token}]
    /\ Goto(th, "store")
    /\ UNCHANGED <<users, table, service, history, upsets>>

\* The browser gets the token; WebDAV only wants to know that there is one.
Hand(th) == given' = IF thread[th].op = "webdav" THEN given ELSE given \cup {thread[th].token}

\* create_session; a failure is logged, and the token is returned all the same.
StoreRow(th) ==
    LET t == thread[th].token
    IN /\ At(th, "store")
       /\ \/ Works(th) /\ rows' = rows \cup {t} /\ UNCHANGED lost
          \/ Raises(th) /\ UNCHANGED rows /\ lost' = lost \cup {t}
       /\ Hand(th)
       /\ Done(th, "accepted")
       /\ UNCHANGED <<users, owner, age, service, cache, superseded, escaped>>

-----------------------------------------------------------------------------
(* A request with a session cookie: validate_session_token *)

BeginValidation(th, t) ==
    /\ up /\ At(th, "idle") /\ t \in given
    /\ thread' = [thread EXCEPT ![th] =
                    [Idle EXCEPT !.op = "validate", !.at = "cache", !.user = owner[t],
                                 !.token = t, !.manager = manager, !.live = Live(t)]]
    /\ UNCHANGED <<users, table, service, cache, history, upsets>>

LookInCache(th) ==
    LET t == thread[th].token
        m == thread[th].manager
    IN /\ At(th, "cache")
       /\ IF t \in cache[m] /\ Live(t)
          THEN Done(th, "accepted") /\ UNCHANGED cache
          ELSE Goto(th, "read") /\ cache' = [cache EXCEPT ![m] = @ \ {t}]
       /\ UNCHANGED <<users, table, service, history, upsets>>

\* Faulty: a row is good as long as it is there.
ReadRowUnchecked(th) ==
    LET t == thread[th].token
    IN /\ At(th, "read")
       /\ \/ Works(th) /\ IF t \in rows THEN Goto(th, "touch") ELSE Done(th, "rejected")
          \/ Raises(th) /\ Fails(th)
       /\ UNCHANGED <<users, table, service, cache, history>>

ReadRow(th) ==
    LET t == thread[th].token
    IN /\ At(th, "read")
       /\ \/ /\ Works(th)
             /\ CASE t \notin rows -> Done(th, "rejected")
                  [] t \in rows /\ Live(t) -> Goto(th, "touch")
                  [] OTHER -> Goto(th, "expire")
          \/ Raises(th) /\ Fails(th)
       /\ UNCHANGED <<users, table, service, cache, history>>

ExpireRow(th) ==
    /\ At(th, "expire")
    /\ \/ Works(th) /\ rows' = rows \ {thread[th].token} /\ Done(th, "rejected")
       \/ Raises(th) /\ UNCHANGED rows /\ Fails(th)
    /\ UNCHANGED <<users, owner, age, given, service, cache, history>>

\* UPDATE of last_used: it does not matter whether the row is still there.
Touch(th) ==
    /\ At(th, "touch")
    /\ \/ Works(th) /\ Goto(th, "recache")
       \/ Raises(th) /\ Fails(th)
    /\ UNCHANGED <<users, table, service, cache, history>>

Recache(th) ==
    /\ At(th, "recache")
    /\ cache' = [cache EXCEPT ![thread[th].manager] = @ \cup {thread[th].token}]
    /\ Done(th, "accepted")
    /\ UNCHANGED <<users, table, service, history, upsets>>

Return(th) ==
    /\ At(th, "done")
    /\ thread' = [thread EXCEPT ![th] = Idle]
    /\ UNCHANGED <<users, table, service, cache, history, upsets>>

-----------------------------------------------------------------------------
(* A WebDAV request whose user a proxy names: _proxy_header_allowed *)

\* The record is looked up by name and purpose, and created by name: an account
\* of another purpose is overwritten, but for webui_access.
ProxyRequest(u) ==
    /\ up /\ AutoCreate
    /\ users[u].purpose # "webdav"
    /\ Upset
    /\ users' = [users EXCEPT ![u] = [DavRow EXCEPT !.webui = users[u].webui]]
    /\ UNCHANGED <<table, service, cache, thread, history>>

-----------------------------------------------------------------------------
(* The administration, the cleanup, time, and the service *)

\* disable_auth_user, called for an administrator (webui_access is taken away)
\* or for a WebDAV user.  The sessions stay.
Disable(u) ==
    /\ up /\ Upset
    /\ users[u] # NoRow
    /\ \E webui \in {FALSE, users[u].webui} :
        users' = [users EXCEPT ![u].enabled = FALSE, ![u].webui = webui]
    /\ UNCHANGED <<table, service, cache, thread, history>>

\* The hourly loop that each manager has, and that nothing stops.
CleanCache(m) ==
    /\ m <= manager
    /\ \E t \in cache[m] : ~Live(t)
    /\ cache' = [cache EXCEPT ![m] = {t \in @ : Live(t)}]
    /\ UNCHANGED <<users, table, service, thread, history, upsets>>

\* Faulty: local time is compared with UTC, and rows go too early.
CleanRowsEarly ==
    /\ up /\ rows # {}
    /\ rows' = {}
    /\ UNCHANGED <<users, owner, age, given, service, cache, thread, history, upsets>>

\* Rows go a day after they have expired.
CleanRows ==
    /\ up
    /\ \E t \in rows : age[t] = "stale"
    /\ rows' = {t \in rows : age[t] # "stale"}
    /\ UNCHANGED <<users, owner, age, given, service, cache, thread, history, upsets>>

Later(t) ==
    /\ t \in given /\ age[t] # "stale"
    /\ age' = [age EXCEPT ![t] = IF @ = "live" THEN "expired" ELSE "stale"]
    /\ UNCHANGED <<users, rows, owner, given, service, cache, thread, history, upsets>>

NoAdmins == \A u \in Users : ~users[u].webui

\* any_admin_users: when no account has webui_access the default one is
\* inserted, which fails if the name is taken.
Populate ==
    IF ~NoAdmins THEN up' = TRUE /\ UNCHANGED users
    ELSE IF users["admin"] = NoRow
         THEN up' = TRUE /\ users' = [users EXCEPT !["admin"] = AdminRow]
         ELSE up' = FALSE /\ UNCHANGED users

Start ==
    /\ ~up /\ manager < MaxStarts
    /\ manager' = manager + 1
    /\ Populate
    /\ UNCHANGED <<table, cache, thread, history, upsets>>

\* The requests under way outlive a reload, with the manager they have.
Reload ==
    /\ up /\ manager < MaxStarts
    /\ Upset
    /\ manager' = manager + 1
    /\ Populate
    /\ UNCHANGED <<table, cache, thread, history>>

\* The process dies.
Crash ==
    /\ up /\ up' = FALSE
    /\ Upset
    /\ thread' = [th \in Threads |-> Idle]
    /\ cache' = [m \in Managers |-> {}]
    /\ UNCHANGED <<users, table, manager, history>>

Step(th) ==
    \/ \E u \in Users, op \in Logins : BeginLogin(th, u, op)
    \/ \E t \in given : BeginValidation(th, t)
    \/ Verify(th) \/ Forget(th) \/ DeleteRows(th) \/ Remember(th) \/ StoreRow(th)
    \/ LookInCache(th) \/ ReadRow(th) \/ ExpireRow(th) \/ Touch(th) \/ Recache(th)
    \/ Return(th)

Next ==
    \/ \E th \in Threads : Step(th)
    \/ \E u \in Users : Disable(u) \/ ProxyRequest(u)
    \/ \E m \in Managers : CleanCache(m)
    \/ \E t \in given : Later(t)
    \/ CleanRows \/ Start \/ Reload \/ Crash

Spec == Init /\ [][Next]_vars

-----------------------------------------------------------------------------
(* Properties *)

\* A user has one session: at most one live token of u is in the table or in the
\* memory in use, but for those that were in memory again, or not stored yet,
\* when another login deleted the rows, or whose deletion failed
\* (_create_session_token).
OneSessionPerUser ==
    \A u \in Users :
        Cardinality({t \in TokensOf(u) \ escaped :
                        Live(t) /\ t \in rows \cup Remembered}) <= 1

\* A session outlives reloads, restarts and cleanups: a live token is rejected
\* only after another login of its user has begun, or if it could not be
\* stored, or if a statement of the request fails (validate_session_token).
RejectedForAReason ==
    \A th \in Threads :
        thread[th].op = "validate" /\ thread[th].result = "rejected" =>
            \/ ~Live(thread[th].token)
            \/ thread[th].token \in superseded \cup lost
            \/ thread[th].excused

\* Whatever memory or row is found, a request that comes after its token has
\* expired is rejected.
ExpiredIsOut ==
    \A th \in Threads :
        thread[th].op = "validate" /\ thread[th].result = "accepted" => thread[th].live
=============================================================================
