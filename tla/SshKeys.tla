------------------------------- MODULE SshKeys -------------------------------
(***************************************************************************)
(* The SSH keys in the database: the public keys of a user, kept as the    *)
(* virtual file .ssh/authorized_keys that administrators edit in the web   *)
(* interface and users over SFTP, and the host keys of the SFTP server     *)
(* (app/auth/credentials.py, app/hosting/ftp.py, app/ui/backend.py).       *)
(*                                                                         *)
(* Administrators' requests run in threads and touch the tables row by     *)
(* row.  The SFTP handlers run in one event loop, one call at a time, so   *)
(* all SFTP sessions together are one more thread.  A line of the text is  *)
(* a key, a comment or Junk; lines are taken to be equally long, except    *)
(* that a write may cut the line after its last one.                       *)
(***************************************************************************)
EXTENDS Naturals, Sequences, SequencesExt

CONSTANTS
    TypeOrder,      \* the types of user keys, in the order of their names
    Ids,            \* the data a key may have
    Documents,      \* the texts that are sent (a bound)
    MaxLines,       \* the lines a text may have (a bound)
    Sessions,       \* SFTP sessions of one user
    Admins,         \* threads of administrators' requests
    HostTypes,      \* the types of host keys, in the order they are handled
    AsyncSSH,       \* whether asyncssh is installed
    MaxMade,        \* how many host keys are made (a bound)
    MaxFailures     \* how many statements fail (a bound)

Types == {TypeOrder[i] : i \in DOMAIN TypeOrder}
Keys == [type : Types, id : Ids]
Comment == [type |-> "comment", id |-> "none"]
Junk == [type |-> "junk", id |-> "none"]

ASSUME SshKeysAssumption ==
    /\ TypeOrder \in Seq(STRING) /\ HostTypes \in Seq(STRING)
    /\ HostTypes # <<>>
    /\ "none" \notin Ids
    /\ Types \cap {"comment", "junk"} = {}
    /\ Documents \subseteq Seq(Keys \cup {Comment, Junk})
    /\ AsyncSSH \in BOOLEAN
    /\ MaxLines \in Nat /\ MaxMade \in Nat /\ MaxFailures \in Nat

Loop == "loop"
Threads == Admins \cup {Loop}
HostNames == {HostTypes[i] : i \in DOMAIN HostTypes}

VARIABLES
    keys,           \* user_ssh_public_keys: the user's key of each type
    editable,       \* the user's ssh_keys_editable
    session,        \* what an SFTP session was granted when it began
    job,            \* what each thread is doing to a table
    host,           \* config_ssh_host_keys: the key of each type, 0 if none
    made,           \* the host keys made so far
    loading,        \* the host keys that load_or_generate_host_keys still loads
    served,         \* the host keys the SFTP server was started with
    failures,       \* the statements that have failed
    accepted,       \* ghost: the last document accepted, or Mixed
    renewed         \* ghost: host keys changed, or misread, since they were loaded

userVars == <<keys, editable, session, accepted>>
hostVars == <<host, made, loading, served, renewed>>
sshVars == <<userVars, hostVars, job, failures>>

Mixed == <<Junk>>
NoJob == [op |-> "none", todo |-> <<>>, whole |-> <<>>, clean |-> TRUE]
Out == [in |-> FALSE, reads |-> FALSE, open |-> FALSE]

-----------------------------------------------------------------------------
(* The text of the keys *)

\* The elements of s that are in S, in their order: SelectSeq by the places of
\* the elements, which proofs can speak of.
Kept(s, S) ==
    LET at == {i \in DOMAIN s : s[i] \in S}
        Nth(n) == CHOOSE i \in at : Cardinality({k \in at : k <= i}) = n
    IN [n \in 1..Cardinality(at) |-> s[Nth(n)]]

\* render_authorized_keys: the rows in the order of their types.
Rendered ==
    LET stored == Kept(TypeOrder, {t \in Types : keys[t] # "none"})
    IN [i \in DOMAIN stored |-> [type |-> stored[i], id |-> keys[stored[i]]]]

\* Faulty: comments are taken for keys.
ParsedComments(text) == Kept(text, Keys \cup {Comment})

\* parse_authorized_keys_content.
Parsed(text) == Kept(text, Keys)

\* validate_authorized_keys_content.
Valid(text) ==
    \/ text = <<>>
    \/ /\ AsyncSSH
       /\ \E i \in DOMAIN text : text[i] \in Keys
       /\ \A i \in DOMAIN text : text[i] \in Keys \cup {Comment}

\* The table has one row for a user and a type: the last key of a type stays.
LastOfType(doc, t) ==
    {i \in DOMAIN doc : doc[i].type = t /\ \A j \in i + 1..Len(doc) : doc[j].type # t}
Stored(doc) ==
    [t \in Types |-> IF LastOfType(doc, t) = {} THEN "none"
                     ELSE doc[CHOOSE i \in LastOfType(doc, t) : TRUE].id]

\* What an offset skips, filled up with zeros.
Before(old, offset) == [i \in 1..offset |-> IF i <= Len(old) THEN old[i] ELSE Junk]

\* _apply_write; the line after the new ones may be cut.
ApplyWrite(old, new, offset, cut) ==
    LET tail == SubSeq(old, offset + Len(new) + 1, Len(old))
    IN Before(old, offset) \o new
         \o IF cut /\ tail # <<>> THEN <<Junk>> \o Tail(tail) ELSE tail

SshTypeOK ==
    /\ keys \in [Types -> Ids \cup {"none"}]
    /\ editable \in BOOLEAN
    /\ session \in [Sessions -> [in : BOOLEAN, reads : BOOLEAN, open : BOOLEAN]]
    /\ \A t \in Threads :
        /\ job[t].op \in {"none", "delete", "save", "rotate"}
        /\ job[t].op = "rotate" => job[t].todo \in Seq(HostNames) /\ job[t].todo # <<>>
        /\ job[t].op # "rotate" => job[t].todo \in Seq(Keys) /\ job[t].whole \in Seq(Keys)
    /\ accepted \in Seq(Keys) \cup {Mixed}
    /\ host \in [HostNames -> 0..made] /\ served \in [HostNames -> 0..made]
    /\ loading.todo \in Seq(HostNames) /\ made <= MaxMade
    /\ failures <= MaxFailures
    /\ renewed \subseteq HostNames

SshInit ==
    /\ keys = [t \in Types |-> "none"]
    /\ editable \in BOOLEAN
    /\ session = [s \in Sessions |-> Out]
    /\ job = [t \in Threads |-> NoJob]
    /\ host = [t \in HostNames |-> 0]
    /\ made = 0
    /\ loading = [todo |-> <<>>, at |-> "look"]
    /\ served = [t \in HostNames |-> 0]
    /\ failures = 0
    /\ accepted = <<>>
    /\ renewed = {}

-----------------------------------------------------------------------------
(* Statements: each is committed, or fails, is rolled back and logged *)

Succeeds == UNCHANGED failures
Fails == failures < MaxFailures /\ failures' = failures + 1

Busy == \E t \in Threads : job[t].op \in {"delete", "save"}

\* The update of thread t begins; it and the ones under way are not clean.
Begin(t, doc) ==
    /\ job' = [u \in Threads |->
                IF u = t THEN [op |-> "delete", todo |-> doc, whole |-> doc, clean |-> ~Busy]
                ELSE IF job[u].op \in {"delete", "save"}
                     THEN [job[u] EXCEPT !.clean = FALSE] ELSE job[u]]

\* Faulty: a key that is already there stays.
SaveIfNew(t) ==
    /\ job[t].op = "save" /\ job[t].todo # <<>>
    /\ LET k == Head(job[t].todo)
       IN /\ \/ Succeeds /\ keys' = IF keys[k.type] = "none"
                                    THEN [keys EXCEPT ![k.type] = k.id] ELSE keys
             \/ Fails /\ keys' = keys
          /\ job' = [job EXCEPT ![t].todo = Tail(@),
                                ![t].clean = @ /\ failures' = failures]
    /\ UNCHANGED <<editable, session, accepted, hostVars>>

\* delete_all_user_ssh_keys, whose result nobody looks at.
DeleteAll(t) ==
    /\ job[t].op = "delete"
    /\ \/ Succeeds /\ keys' = [x \in Types |-> "none"]
       \/ Fails /\ keys' = keys
    /\ job' = [job EXCEPT ![t].op = "save", ![t].clean = @ /\ failures' = failures]
    /\ UNCHANGED <<editable, session, accepted, hostVars>>

\* save_user_ssh_key of the next key, whose result nobody looks at.
Save(t) ==
    /\ job[t].op = "save" /\ job[t].todo # <<>>
    /\ \/ Succeeds /\ keys' = [keys EXCEPT ![Head(job[t].todo).type] = Head(job[t].todo).id]
       \/ Fails /\ keys' = keys
    /\ job' = [job EXCEPT ![t].todo = Tail(@), ![t].clean = @ /\ failures' = failures]
    /\ UNCHANGED <<editable, session, accepted, hostVars>>

Finish(t) ==
    /\ job[t].op = "save" /\ job[t].todo = <<>>
    /\ accepted' = IF job[t].clean THEN job[t].whole ELSE Mixed
    /\ job' = [job EXCEPT ![t] = NoJob]
    /\ UNCHANGED <<keys, editable, session, hostVars, failures>>

-----------------------------------------------------------------------------
(* The user's keys *)

\* _update_ssh_user_keys: the administrator sends a whole text.
AdminUpdate(a) ==
    \E text \in Documents :
        /\ job[a] = NoJob
        /\ Valid(text)
        /\ Begin(a, Parsed(text))
        /\ UNCHANGED <<userVars, hostVars, failures>>

\* The event loop takes the next call when it is done with the last one.
LoopFree == job[Loop] = NoJob /\ loading.todo = <<>>

\* _check_read_permission of .ssh/authorized_keys: with one share it is the
\* share's; with several, .ssh would have to be a share; with none it is asked
\* of columns that auth_users does not have.
MayReadKeys(mode, read) == mode = "single" /\ read

\* begin_session: the shares the user may log in to are read once.
BeginSession(s) ==
    \E mode \in {"fallback", "single", "multi"}, read \in BOOLEAN :
        /\ LoopFree
        /\ ~session[s].in
        /\ session' = [session EXCEPT ![s] =
                        [in |-> TRUE, reads |-> MayReadKeys(mode, read), open |-> FALSE]]
        /\ UNCHANGED <<keys, editable, accepted, job, hostVars, failures>>

EndSession(s) ==
    /\ LoopFree
    /\ session[s].in
    /\ session' = [session EXCEPT ![s] = Out]
    /\ UNCHANGED <<keys, editable, accepted, job, hostVars, failures>>

\* open of .ssh/authorized_keys, for reading too unless it is write-only.
OpenKeys(s) ==
    \E reads, writes \in BOOLEAN :
        /\ LoopFree
        /\ session[s].in
        /\ reads \/ writes
        /\ reads => session[s].reads
        /\ writes => editable
        /\ session' = [session EXCEPT ![s].open = TRUE]
        /\ UNCHANGED <<keys, editable, accepted, job, hostVars, failures>>

\* close.
CloseKeys(s) ==
    /\ LoopFree
    /\ session[s].open
    /\ session' = [session EXCEPT ![s].open = FALSE]
    /\ UNCHANGED <<keys, editable, accepted, job, hostVars, failures>>

\* write to .ssh/authorized_keys: the text with the new lines in it is an
\* update like the administrator's.
WriteKeys(s) ==
    \E new \in Documents, offset \in 0..MaxLines, cut \in BOOLEAN :
        LET text == ApplyWrite(Rendered, new, offset, cut)
        IN /\ LoopFree
           /\ session[s].open
           /\ editable
           /\ Valid(text)
           /\ Begin(Loop, Parsed(text))
           /\ UNCHANGED <<userVars, hostVars, failures>>

\* remove of .ssh/authorized_keys.
RemoveKeys(s) ==
    /\ LoopFree
    /\ session[s].in
    /\ editable
    /\ Begin(Loop, <<>>)
    /\ UNCHANGED <<userVars, hostVars, failures>>

-----------------------------------------------------------------------------
(* The host keys *)

\* save_host_key of a key just made.
SaveHost(t) ==
    /\ made < MaxMade
    /\ made' = made + 1
    /\ \/ Succeeds /\ host' = [host EXCEPT ![t] = made']
       \/ Fails /\ host' = host

\* _generate_ssh_host_key.
GenerateHost(a) ==
    \E t \in HostNames :
        /\ AsyncSSH
        /\ job[a] = NoJob
        /\ SaveHost(t)
        /\ renewed' = renewed \cup {t}
        /\ UNCHANGED <<userVars, job, loading, served>>

\* _delete_ssh_host_key.
DeleteHost(a) ==
    \E t \in HostNames :
        /\ job[a] = NoJob
        /\ host[t] # 0
        /\ host' = [host EXCEPT ![t] = 0]
        /\ renewed' = renewed \cup {t}
        /\ UNCHANGED <<userVars, job, made, loading, served, failures>>

\* _rotate_ssh_host_keys, and one key of it.
BeginRotation(a) ==
    /\ AsyncSSH
    /\ job[a] = NoJob
    /\ job' = [job EXCEPT ![a] = [NoJob EXCEPT !.op = "rotate", !.todo = HostTypes]]
    /\ UNCHANGED <<userVars, hostVars, failures>>

RotateNext(a) ==
    /\ job[a].op = "rotate"
    /\ LET t == Head(job[a].todo)
           rest == Tail(job[a].todo)
       IN /\ SaveHost(t) /\ renewed' = renewed \cup {t}
          /\ job' = IF rest = <<>> THEN [job EXCEPT ![a] = NoJob]
                                   ELSE [job EXCEPT ![a].todo = rest]
    /\ UNCHANGED <<userVars, loading, served>>

\* start_sftp_server loads the host keys, in the thread of the event loop.
BeginLoading ==
    /\ LoopFree
    /\ \A s \in Sessions : ~session[s].in
    /\ loading' = [todo |-> HostTypes, at |-> "look"]
    /\ UNCHANGED <<userVars, host, made, served, renewed, job, failures>>

Serve(t) == served' = [served EXCEPT ![t] = host[t]] /\ renewed' = renewed \ {t}
NextHost == loading' = [todo |-> Tail(loading.todo), at |-> "look"]

\* Faulty: the row is looked up under the name of the file.
LookByFileName ==
    /\ loading.todo # <<>> /\ loading.at = "look"
    /\ loading' = [loading EXCEPT !.at = "make"]
    /\ UNCHANGED <<userVars, host, made, served, renewed, job, failures>>

\* A key that is in the table is served; get_host_key answers None as well when
\* the table cannot be read.
LookForHost ==
    /\ loading.todo # <<>> /\ loading.at = "look"
    /\ LET t == Head(loading.todo)
       IN \/ /\ host[t] # 0
             /\ Succeeds /\ Serve(t) /\ NextHost
          \/ /\ IF host[t] = 0 THEN Succeeds /\ UNCHANGED renewed
                               ELSE Fails /\ renewed' = renewed \cup {t}
             /\ IF AsyncSSH THEN loading' = [loading EXCEPT !.at = "make"] ELSE NextHost
             /\ UNCHANGED served
    /\ UNCHANGED <<userVars, host, made, job>>

\* _generate_and_save_host_key.
MakeHost ==
    /\ loading.todo # <<>> /\ loading.at = "make"
    /\ SaveHost(Head(loading.todo))
    /\ loading' = [loading EXCEPT !.at = "again"]
    /\ UNCHANGED <<userVars, served, renewed, job>>

\* What is served is what the table has after that.
LookAgain ==
    /\ loading.todo # <<>> /\ loading.at = "again"
    /\ LET t == Head(loading.todo)
       IN \/ host[t] # 0 /\ Succeeds /\ Serve(t)
          \/ /\ IF host[t] = 0 THEN Succeeds ELSE Fails
             /\ renewed' = renewed \cup {t} /\ UNCHANGED served
    /\ NextHost
    /\ UNCHANGED <<userVars, host, made, job>>

\* The process ends wherever it is, and another one starts.
Restart ==
    /\ job' = [t \in Threads |-> NoJob]
    /\ session' = [s \in Sessions |-> Out]
    /\ loading' = [todo |-> <<>>, at |-> "look"]
    /\ accepted' = IF Busy THEN Mixed ELSE accepted
    /\ UNCHANGED <<keys, editable, host, made, served, renewed, failures>>

SshNext ==
    \/ \E t \in Threads : DeleteAll(t) \/ Save(t) \/ Finish(t)
    \/ \E a \in Admins :
        \/ AdminUpdate(a)
        \/ GenerateHost(a)
        \/ DeleteHost(a)
        \/ BeginRotation(a)
        \/ RotateNext(a)
    \/ \E s \in Sessions :
        \/ BeginSession(s)
        \/ EndSession(s)
        \/ OpenKeys(s)
        \/ CloseKeys(s)
        \/ WriteKeys(s)
        \/ RemoveKeys(s)
    \/ BeginLoading
    \/ LookForHost
    \/ MakeHost
    \/ LookAgain
    \/ Restart

SshSpec == SshInit /\ [][SshNext]_sshVars

-----------------------------------------------------------------------------
(* Properties *)

\* When no update is under way the table holds the keys of the last document
\* that was accepted, and no other: updates that overlapped, a statement that
\* failed in one, or a crash between the DELETE and the last INSERT
\* (update_authorized_keys_text, _update_authorized_keys_from_content) are the
\* only ways to keys that nobody sent together.
KeysAreOneUpdate ==
    ~Busy /\ accepted # Mixed => keys = Stored(accepted)

\* The SFTP server shows its clients the host key they know until an
\* administrator renews it or the table cannot be read, over any number of
\* starts, and never a key that is not in the table (load_or_generate_host_keys).
HostKeysStable ==
    [][\A t \in HostNames : served'[t] # served[t] =>
            served'[t] = host'[t] /\ (served[t] # 0 => t \in renewed)]_sshVars
=============================================================================
