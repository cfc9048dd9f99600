------------------------------ MODULE Lifecycle ------------------------------
(***************************************************************************)
(* The life of the server process: ServiceManager (app/core/services.py)   *)
(* initialises, starts and stops the services in dependency order;         *)
(* run_server and the signal handlers (app/core/server.py) call it; the    *)
(* request threads look the current application up in its context          *)
(* (_ReloadableApp of app/hosting/webdav.py).                              *)
(*                                                                         *)
(* A Python signal handler runs in the main thread between two steps of    *)
(* what that thread was doing, so a second signal interrupts the handler   *)
(* of the first: the main thread is a stack of activations.  What a        *)
(* service builds is known by the pass of initialize_all that built it and *)
(* the passes of what it was built from.                                   *)
(***************************************************************************)
EXTENDS Naturals, Sequences, FiniteSets, SequencesExt

CONSTANTS
    Registered,     \* the services in the order of their registration
    Deps,           \* Deps[s]: the services that s depends on
    Threaded,       \* the services that start threads
    Databases,      \* the databases the settings may name
    Requests,       \* the requests that may be under way at once
    MaxSignals,     \* how many signals and edits there may be (a bound)
    MaxFailures     \* how many services may fail (a bound)

Services == ToSet(Registered)
N == Len(Registered)

-----------------------------------------------------------------------------
(* The order of the services *)

\* _resolve_order: a service goes when the last of its dependencies has gone;
\* in a cycle nobody goes, and the order is too short.
Resolve(registered, deps) ==
    LET Kahn[n \in Nat] ==
            IF n = 0
            THEN [queue |-> SelectSeq(registered, LAMBDA s : deps[s] = {}),
                  order |-> <<>>]
            ELSE LET p == Kahn[n - 1]
                     gone == ToSet(p.order) \cup {Head(p.queue)}
                     next == SelectSeq(registered, LAMBDA s :
                                Head(p.queue) \in deps[s] /\ deps[s] \subseteq gone)
                 IN IF p.queue = <<>> THEN p
                    ELSE [queue |-> Tail(p.queue) \o next,
                          order |-> Append(p.order, Head(p.queue))]
    IN Kahn[Len(registered)].order

Order == Resolve(Registered, Deps)

\* Every service is registered once and goes after the ones it depends on:
\* where Kahn's algorithm does not get there the server does not start.
ASSUME LifecycleAssumption ==
    /\ Registered \in Seq(STRING) /\ Cardinality(Services) = N
    /\ {"database", "config", "webdav"} \subseteq Services /\ "nothing" \notin Services
    /\ Deps \in [Services -> SUBSET Services]
    /\ "database" \in Deps["config"] \cap Deps["webdav"]
    /\ Order \in [1..N -> Services] /\ ToSet(Order) = Services
    /\ \A i \in 1..N : Deps[Order[i]] \subseteq {Order[j] : j \in 1..(i - 1)}
    /\ Threaded \subseteq Services \ {"database"}
    /\ "background" \in Services => "background" \in Threaded
    /\ MaxSignals \in Nat /\ MaxFailures \in Nat

-----------------------------------------------------------------------------
VARIABLES
    stack,          \* the activations of the main thread, the top one running
    context,        \* the services in ServiceManager._context
    made,           \* made[s]: what service s has built, and from what
    passes,         \* how many times initialize_all was called
    open,           \* the passes whose database connection is open
    event,          \* event[s]: the stop event of s, or 0
    told,           \* the services whose stop event is set
    events,         \* how many stop events there have been
    threads,        \* the threads whose stop event is not set
    named,          \* the database that the settings on disk name
    connected,      \* the database that DatabaseService has settings of
    configured,     \* the database that the settings of ConfigManagerService have
    permit,         \* reload.json: "none", or whether it has allow_switch
    shutdown,       \* shutdown_event
    req,            \* the requests under way
    overlapped,     \* "now" if a signal broke into the last reload or the shutdown
    failed,         \* where the last reload failed
    signals,        \* the signals and edits so far
    failures        \* the failures so far

process == <<stack, context, made, passes, open, event, told, events, threads>>
database == <<named, connected, configured, permit>>
history == <<overlapped, failed, signals, failures>>
vars == <<process, database, shutdown, req, history>>

Nothing == [pass |-> 0, from |-> [d \in {} |-> 0]]
Frame(who, phase) ==
    [who |-> who, phase |-> phase, at |-> 1, pass |-> 0,
     reads |-> Nothing, reading |-> FALSE, allow |-> FALSE, checked |-> "none",
     seen |-> "none", why |-> "nothing"]
Gone == Frame("main", "gone")
Idle == [state |-> "idle", uses |-> 0, quiet |-> FALSE]

Top == Last(stack)
Running(who, phase) == Top.who \in who /\ Top.phase = phase
Goto(frame) == stack' = [stack EXCEPT ![Len(stack)] = frame]
Return == stack' = Front(stack)
Current == Order[Top.at]

\* The main thread serves and no handler runs.
AtRest == Running({"main"}, "serve")
Up == stack[1].phase \in {"serve", "stop"}

TypeOK ==
    /\ stack # <<>> /\ stack[1].who = "main"
    /\ \A k \in 1..Len(stack) :
        /\ stack[k].phase \in {"options", "unlink", "check", "stop", "reset", "init",
                               "start", "undo", "tls", "serve", "gone"}
        /\ stack[k].at \in 0..(N + 1)
        /\ stack[k].pass \in 0..passes
        /\ stack[k].phase \in {"init", "start"} => stack[k].at \in 1..N
        /\ k > 1 => stack[k].who = "reload" /\ stack[1].phase \in {"serve", "stop"}
    /\ context \subseteq Services
    /\ \A s \in Services : made[s].pass \in 0..passes
    /\ open \subseteq 1..passes
    /\ \A s \in Services : event[s] \in 0..events /\ (s \notin Threaded => event[s] = 0)
    /\ told \subseteq Threaded
    /\ threads \subseteq [by : Threaded, event : 1..events, nr : 1..passes]
    /\ {connected, configured} \subseteq Databases \cup {"none"}
    /\ overlapped \in {"no", "now", "before"}
    /\ failed \in Services \cup {"nothing", "refused", "no_config", "tls"}
    /\ signals \in 0..MaxSignals
    /\ failures \in 0..MaxFailures

Init ==
    /\ stack = <<Frame("main", "reset")>>
    /\ context = {}
    /\ made = [s \in Services |-> Nothing]
    /\ passes = 0
    /\ open = {}
    /\ event = [s \in Services |-> 0]
    /\ told = {}
    /\ events = 0
    /\ threads = {}
    /\ named \in Databases
    /\ connected = "none"
    /\ configured = "none"
    /\ permit \in {"none", "plain", "allow"}
    /\ shutdown = FALSE
    /\ req = [r \in Requests |-> Idle]
    /\ overlapped = "no"
    /\ failed = "nothing"
    /\ signals = 0
    /\ failures = 0

-----------------------------------------------------------------------------
(* Stopping *)

\* Faulty: the threads are not told.
StopUntold(s) ==
    /\ open' = IF s = "database" THEN open \ {made[s].pass} ELSE open
    /\ UNCHANGED <<told, threads>>

\* What stop() of service s does: the connection is closed, the stop event is
\* set for the threads to see.  It waits a second for each and no longer.
Stop(s) ==
    /\ open' = IF s = "database" THEN open \ {made[s].pass} ELSE open
    /\ told' = IF event[s] # 0 THEN told \cup {s} ELSE told
    /\ threads' = {t \in threads : t.by # s \/ t.event # event[s]}

Quiet(r) == [req[r] EXCEPT !.quiet = FALSE]
Disturb == req' = [r \in Requests |-> Quiet(r)]

Exit ==
    /\ stack' = <<Gone>>
    /\ threads' = {}
    /\ open' = {}
    /\ req' = [r \in Requests |-> Idle]

\* An exception that nothing catches ends the process while it starts; the
\* handler of a reload logs it.
Raise(why) ==
    IF Top.who = "main"
    THEN Exit /\ UNCHANGED failed
    ELSE Return /\ failed' = why /\ UNCHANGED <<threads, open, req>>

StopOne ==
    /\ Running({"main", "reload"}, "stop")
    /\ IF Top.at = 0
       THEN /\ IF Top.who = "main"
               THEN Exit
               ELSE /\ Goto([Top EXCEPT !.phase = "reset"])
                    /\ UNCHANGED <<open, threads, req>>
            /\ UNCHANGED told
       ELSE /\ Stop(Current)
            /\ Goto([Top EXCEPT !.at = @ - 1])
            /\ UNCHANGED req
    /\ UNCHANGED <<context, made, passes, event, events, database, shutdown, history>>

\* The services before the one that failed are stopped in reverse order.
UndoOne ==
    /\ Running({"main", "reload"}, "undo")
    /\ IF Top.at = 0
       THEN Raise(Top.why) /\ UNCHANGED told
       ELSE /\ Stop(Current)
            /\ Goto([Top EXCEPT !.at = @ - 1])
            /\ UNCHANGED <<req, failed>>
    /\ UNCHANGED <<context, made, passes, event, events, database, shutdown,
                    overlapped, signals, failures>>

Undo(why) == Goto([Top EXCEPT !.phase = "undo", !.at = @ - 1, !.why = why])

-----------------------------------------------------------------------------
(* Initialising and starting *)

Reset ==
    /\ Running({"main", "reload"}, "reset")
    /\ context' = {}
    /\ passes' = passes + 1
    /\ Goto([Top EXCEPT !.phase = "init", !.at = 1, !.pass = passes + 1])
    /\ UNCHANGED <<made, open, event, told, events, threads, database, shutdown, req, history>>

\* initialize() reads what it needs from the context: a KeyError if it is not
\* there.
InitRead ==
    /\ Running({"main", "reload"}, "init") /\ ~Top.reading
    /\ IF Deps[Current] \subseteq context
       THEN Goto([Top EXCEPT !.reading = TRUE, !.seen = named,
                             !.reads = [pass |-> Top.pass,
                                        from |-> [d \in Deps[Current] |-> made[d].pass]]])
       ELSE Undo(Current)
    /\ UNCHANGED <<context, made, passes, open, event, told, events, threads, database,
                    shutdown, req, history>>

NewEvent(s) ==
    /\ events' = events + 1
    /\ event' = [event EXCEPT ![s] = events + 1]
    /\ told' = told \ {s}

\* Faulty: the database manager of an earlier pass is kept.
InitStoreReusing ==
    LET s == Current
    IN /\ Running({"main", "reload"}, "init") /\ Top.reading
       /\ made' = [made EXCEPT ![s] = IF s = "database" /\ @ # Nothing THEN @ ELSE Top.reads]
       /\ context' = context \cup {s}
       /\ open' = IF s = "database" /\ made[s] = Nothing THEN open \cup {Top.pass} ELSE open
       /\ connected' = IF s = "database" THEN Top.seen ELSE connected
       /\ configured' = IF s = "config" THEN connected ELSE configured
       /\ IF s = "background" THEN NewEvent(s) ELSE UNCHANGED <<event, events, told>>
       /\ Goto([Top EXCEPT !.reading = FALSE,
                           !.phase = IF Top.at = N THEN "start" ELSE "init",
                           !.at = IF Top.at = N THEN 1 ELSE @ + 1])
       /\ UNCHANGED <<passes, threads, named, permit, shutdown, req, history>>

\* and stores what it has made of it; initialize_all adds it to the context.
InitStore ==
    LET s == Current
    IN /\ Running({"main", "reload"}, "init") /\ Top.reading
       /\ made' = [made EXCEPT ![s] = Top.reads]
       /\ context' = context \cup {s}
       /\ open' = IF s = "database" THEN open \cup {Top.pass} ELSE open
       /\ connected' = IF s = "database" THEN Top.seen ELSE connected
       /\ configured' = IF s = "config" THEN connected ELSE configured
       /\ IF s = "background" THEN NewEvent(s) ELSE UNCHANGED <<event, events, told>>
       /\ Goto([Top EXCEPT !.reading = FALSE,
                           !.phase = IF Top.at = N THEN "start" ELSE "init",
                           !.at = IF Top.at = N THEN 1 ELSE @ + 1])
       /\ UNCHANGED <<passes, threads, named, permit, shutdown, req, history>>

Fails == failures < MaxFailures /\ failures' = failures + 1

InitFails ==
    /\ Running({"main", "reload"}, "init") /\ Top.reading
    /\ Fails
    /\ Goto([Top EXCEPT !.phase = "undo", !.at = @ - 1, !.why = Current, !.reading = FALSE])
    /\ UNCHANGED <<context, made, passes, open, event, told, events, threads, database,
                    shutdown, req, overlapped, failed, signals>>

\* Faulty: a service that has a stop event has been started.
StartThreadsOnce(s) ==
    IF s \notin Threaded \/ (s = "tls" /\ event[s] # 0)
    THEN UNCHANGED <<event, events, told, threads>>
    ELSE /\ IF s = "background" THEN UNCHANGED <<event, events, told>> ELSE NewEvent(s)
         /\ threads' = IF s \in told' THEN threads
                       ELSE threads \cup {[by |-> s, event |-> event'[s], nr |-> Top.pass]}

\* The threads of s run until they see its stop event.
StartThreads(s) ==
    IF s \notin Threaded
    THEN UNCHANGED <<event, events, told, threads>>
    ELSE /\ IF s = "background" THEN UNCHANGED <<event, events, told>> ELSE NewEvent(s)
         /\ threads' = IF s \in told' THEN threads
                       ELSE threads \cup {[by |-> s, event |-> event'[s], nr |-> Top.pass]}

StartOne ==
    /\ Running({"main", "reload"}, "start")
    /\ StartThreads(Current)
    /\ Goto([Top EXCEPT !.phase = IF Top.at = N THEN "tls" ELSE "start", !.at = @ + 1])
    /\ UNCHANGED <<context, made, passes, open, database, shutdown, req, history>>

\* start() may raise with some of its threads running.
StartFails ==
    /\ Running({"main", "reload"}, "start")
    /\ Fails
    /\ \/ StartThreads(Current)
       \/ UNCHANGED <<event, events, told, threads>>
    /\ Undo(Current)
    /\ UNCHANGED <<context, made, passes, open, database, shutdown, req, overlapped,
                    failed, signals>>

\* _configure_tls: the end of the start, and of a reload.
ConfigureTLS ==
    /\ Running({"main", "reload"}, "tls")
    /\ IF "config" \notin context
       THEN Raise("tls")
       ELSE /\ IF Top.who = "main" THEN Goto(Frame("main", "serve")) ELSE Return
            /\ failed' = "nothing"
            /\ UNCHANGED <<threads, open, req>>
    /\ UNCHANGED <<context, made, passes, event, told, events, database, shutdown,
                    overlapped, signals, failures>>

TLSFails ==
    /\ Running({"main", "reload"}, "tls")
    /\ Fails
    /\ Raise("tls")
    /\ UNCHANGED <<context, made, passes, event, told, events, database, shutdown,
                    overlapped, signals>>

-----------------------------------------------------------------------------
(* Reloading: _trigger_reload up to stop_all *)

ReadOptions ==
    /\ Running({"reload"}, "options")
    /\ Goto([Top EXCEPT !.phase = IF permit = "none" THEN "check" ELSE "unlink",
                        !.allow = (permit = "allow")])
    /\ UNCHANGED <<context, made, passes, open, event, told, events, threads, database,
                    shutdown, req, history>>

Unlink ==
    /\ Running({"reload"}, "unlink")
    /\ permit' = "none"
    /\ Goto([Top EXCEPT !.phase = "check"])
    /\ UNCHANGED <<context, made, passes, open, event, told, events, threads, named,
                    connected, configured, shutdown, req, history>>

\* Faulty: any reload may switch the database.
CheckNothing ==
    /\ Running({"reload"}, "check")
    /\ IF "config" \notin context
       THEN Raise("no_config")
       ELSE /\ Goto([Top EXCEPT !.phase = "stop", !.at = N, !.checked = named])
            /\ UNCHANGED <<failed, threads, open, req>>
    /\ UNCHANGED <<context, made, passes, event, told, events, database, shutdown,
                    overlapped, signals, failures>>

\* The settings of the database are compared with those in use.
Check ==
    /\ Running({"reload"}, "check")
    /\ CASE "config" \notin context -> Raise("no_config")
         [] "config" \in context /\ named # configured /\ ~Top.allow -> Raise("refused")
         [] OTHER -> /\ Goto([Top EXCEPT !.phase = "stop", !.at = N, !.checked = named])
                     /\ UNCHANGED <<failed, threads, open, req>>
    /\ UNCHANGED <<context, made, passes, event, told, events, database, shutdown,
                    overlapped, signals, failures>>

-----------------------------------------------------------------------------
(* Signals, and what the administrator writes *)

Signalled == Up /\ signals < MaxSignals /\ signals' = signals + 1

\* Faulty: the handler is installed before the services run.
HangUpAnytime ==
    /\ signals < MaxSignals /\ signals' = signals + 1
    /\ stack' = Append(stack, Frame("reload", "options"))
    /\ overlapped' = IF AtRest THEN IF overlapped = "no" THEN "no" ELSE "before" ELSE "now"
    /\ Disturb
    /\ UNCHANGED <<context, made, passes, open, event, told, events, threads, database,
                    shutdown, failed, failures>>

\* SIGHUP: the handler runs at once, over whatever the main thread was doing.
HangUp ==
    /\ Signalled
    /\ stack' = Append(stack, Frame("reload", "options"))
    /\ overlapped' = IF AtRest THEN IF overlapped = "no" THEN "no" ELSE "before" ELSE "now"
    /\ Disturb
    /\ UNCHANGED <<context, made, passes, open, event, told, events, threads, database,
                    shutdown, failed, failures>>

\* The first one stops the servers, the second one the process.
Terminate ==
    /\ Signalled
    /\ shutdown' = TRUE
    /\ IF shutdown THEN Exit ELSE UNCHANGED <<stack, threads, open, req>>
    /\ UNCHANGED <<context, made, passes, event, told, events, database, overlapped,
                    failed, failures>>

\* SIGUSR1: the process image is replaced.
Reinit ==
    /\ Signalled
    /\ stack' = <<Frame("main", "reset")>>
    /\ context' = {}
    /\ made' = [s \in Services |-> Nothing]
    /\ open' = {} /\ told' = {} /\ threads' = {}
    /\ passes' = 0 /\ events' = 0
    /\ event' = [s \in Services |-> 0]
    /\ connected' = "none" /\ configured' = "none"
    /\ shutdown' = FALSE
    /\ req' = [r \in Requests |-> Idle]
    /\ overlapped' = "no" /\ failed' = "nothing"
    /\ UNCHANGED <<named, permit, failures>>

\* Faulty: it waits for the requests to be answered.
WindDownDraining ==
    /\ AtRest /\ shutdown
    /\ \A r \in Requests : req[r].state # "running"
    /\ Goto([Top EXCEPT !.phase = "stop", !.at = N])
    /\ Disturb
    /\ UNCHANGED <<context, made, passes, open, event, told, events, threads, database,
                    shutdown, history>>

\* The servers have stopped, and run_server stops the services.
WindDown ==
    /\ AtRest /\ shutdown
    /\ Goto([Top EXCEPT !.phase = "stop", !.at = N])
    /\ Disturb
    /\ UNCHANGED <<context, made, passes, open, event, told, events, threads, database,
                    shutdown, history>>

\* _write_reload_options, before the signal; and an edit of database.yml.
Administer ==
    /\ Signalled
    /\ \/ permit' \in {"plain", "allow"} /\ UNCHANGED named
       \/ named' \in Databases \ {named} /\ UNCHANGED permit
    /\ UNCHANGED <<process, connected, configured, shutdown, req, overlapped, failed, failures>>

-----------------------------------------------------------------------------
(* Other threads *)

LookUp(r) ==
    /\ Up /\ req[r].state = "idle"
    /\ req' = [req EXCEPT ![r] =
                 IF "webdav" \in context
                 THEN [state |-> "running", uses |-> made["webdav"].from["database"],
                       quiet |-> AtRest]
                 ELSE [state |-> "failed", uses |-> 0, quiet |-> AtRest]]
    /\ UNCHANGED <<process, database, shutdown, history>>

Answer(r) ==
    /\ req[r].state = "running"
    /\ req' = [req EXCEPT ![r] = IF req[r].uses \in open THEN Idle
                                 ELSE [@ EXCEPT !.state = "failed"]]
    /\ UNCHANGED <<process, database, shutdown, history>>

Drop(r) ==
    /\ req[r].state = "failed"
    /\ req' = [req EXCEPT ![r] = Idle]
    /\ UNCHANGED <<process, database, shutdown, history>>

MainThread ==
    \/ StopOne \/ UndoOne \/ Reset \/ InitRead \/ InitStore \/ InitFails
    \/ StartOne \/ StartFails \/ ConfigureTLS \/ TLSFails
    \/ ReadOptions \/ Unlink \/ Check \/ WindDown

Next ==
    \/ MainThread
    \/ HangUp \/ Terminate \/ Reinit \/ Administer
    \/ \E r \in Requests : LookUp(r) \/ Answer(r) \/ Drop(r)

\* The main thread runs; whether a background thread ever looks at its event,
\* and whether a request is ever answered, is not assumed.
Spec == Init /\ [][Next]_vars /\ WF_vars(MainThread)

-----------------------------------------------------------------------------
(* Properties *)

\* The last start or reload went through, and no signal broke into it.
Healthy == AtRest /\ failed = "nothing" /\ overlapped # "now"

\* After a start or a reload that went through, whatever failed before, every
\* service is built from what its dependencies have now, the settings in use
\* are those of the open database, and each threaded service has its thread.
Coherent ==
    Healthy =>
        /\ context = Services
        /\ \A s \in Services : \A d \in Deps[s] : made[s].from[d] = made[d].pass
        /\ made["database"].pass \in open
        /\ configured = connected
        /\ \A s \in Threaded : \E t \in threads : t.by = s /\ t.event = event[s]

\* stop() reaches every thread: a thread that has not been told to stop has the
\* event that its service would set, and there is one of its kind, or a signal
\* once broke into a reload.
StopReaches ==
    overlapped = "no" =>
        \A t \in threads : t.event = event[t.by] /\ \A u \in threads : u.by = t.by => u = t

\* A request that no reload and no shutdown overlaps fails only if the last
\* reload failed or was broken into.
FaultsHaveACause ==
    \A r \in Requests :
        req[r].state = "failed" /\ req[r].quiet => failed # "nothing" \/ overlapped = "now"

\* The server moves to another database only in a reload with allow_switch,
\* unless the settings were edited after that reload had compared them.
SwitchNeedsPermit ==
    [][connected' # connected /\ connected # "none" /\ connected' # "none"
            => Top.allow \/ connected' # Top.checked \/ overlapped = "now"]_vars

\* A signal to shut down ends the process, or a reinit replaces it.
ShutdownEnds == shutdown ~> (~shutdown \/ stack[1].phase = "gone")
=============================================================================
