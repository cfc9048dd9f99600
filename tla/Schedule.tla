------------------------------ MODULE Schedule ------------------------------
(***************************************************************************)
(* Whose turn it is: the loop of start_indexer_thread in                   *)
(* app/net/indexer.py, the order in which get_targets_for_indexing takes   *)
(* targets, and the pauses that failures, Retry-After and giant listings   *)
(* impose on a target (next_retry_at in the database) and on its domain    *)
(* (_domain_state of the Indexer, in memory).  What an answer does to the  *)
(* stored listing is in the module Indexer.                                *)
(*                                                                         *)
(* Time is counted in ticks of the loop, and every clock in ticks that are *)
(* left.  The model looks at a few days and targets that are not hot: at   *)
(* least seven days lie between two full reindexes, so a target that had   *)
(* one asks for cheap checks only.                                         *)
(*                                                                         *)
(* The limits on a domain's rate and concurrency are left out: the thread  *)
(* asks for one listing a turn and rests a minute or more afterwards,      *)
(* while the rate limit never asks for more than a minute.  What a request *)
(* of a thread from before a reload adds to them is not counted anywhere.  *)
(***************************************************************************)
EXTENDS Integers, FiniteSets

CONSTANTS
    Targets, Domains, DomainOf,
    Rank,         \* order by due_in and id among full reindexes
    IdlePause,    \* idle_seconds
    Accelerated,  \* accelerated_seconds
    ErrorPause,   \* the rest after a turn that raised
    Hour,         \* how long the first access accelerates the loop
    Base,         \* per_domain_backoff_base_seconds
    MaxBackoff,   \* per_domain_backoff_max_seconds
    RetryAfters,  \* what servers ask for in Retry-After
    Cooldown,     \* giant_directory_cooldown_minutes
    Day,          \* bound: the longest rest until something is due again
    FullBudget,   \* daily_full_reindex_budget
    MaxFaults,    \* bound: failures of targets that are not broken, and of
                  \* the database
    MaxRestarts,  \* bound: reloads and restarts, each with a new Indexer
    None

ASSUME ScheduleAssumption ==
    /\ Targets # {} /\ DomainOf \in [Targets -> Domains]
    /\ Rank \in [Targets -> Int]
    /\ IdlePause \in Nat \ {0} /\ Accelerated \in Nat \ {0} /\ Hour \in Nat
    /\ ErrorPause \in Nat \ {0}
    /\ Base \in Nat /\ MaxBackoff \in Nat /\ Base <= MaxBackoff
    /\ RetryAfters \subseteq Nat /\ Cooldown \in Nat /\ Day \in Nat \ {0}
    /\ FullBudget \in Nat /\ MaxFaults \in Nat /\ MaxRestarts \in Nat
    /\ None \notin Targets

\* A server that answers with a listing, one that never does, one that says
\* 304 to the validators in the row, and one whose listing is giant.
Healths == {"sound", "broken", "unmoved", "giant"}

VARIABLES
    health,    \* the servers
    demand,    \* what a target is due for
    retry,     \* next_retry_at of a target
    backoff,   \* backoff_until of a domain
    power,     \* 2 to the failure_count of a domain, less one; 0 without any
    used,      \* full_used of the budget
    job,       \* the target whose listing is being fetched
    stray,     \* targets whose listings threads from before a reload fetch
    rest,      \* what is left of the wait for the stop event
    quick,     \* accelerated_until of the loop
    seen,      \* first_access_seen of the loop
    owed,      \* history: what is left of a Retry-After that the running
               \* Indexer was told, by domain
    promised,  \* history: ... and of one that was stored, by target
    faults, restarts

scheduleVars == <<health, demand, retry, backoff, power, used, job, stray, rest,
          quick, seen, owed, promised, faults, restarts>>

ScheduleInit ==
    /\ health \in [Targets -> Healths]
    /\ demand = [t \in Targets |-> "full"]
    /\ retry = [t \in Targets |-> 0]
    /\ backoff = [d \in Domains |-> 0]
    /\ power = [d \in Domains |-> 0]
    /\ used = 0
    /\ job = None
    /\ stray = {}
    /\ rest = 0
    /\ quick = 0
    /\ seen = FALSE
    /\ owed = [d \in Domains |-> 0]
    /\ promised = [t \in Targets |-> 0]
    /\ faults = 0
    /\ restarts = 0

-----------------------------------------------------------------------------
(* Time.                                                                   *)

Less(n) == IF n > 0 THEN n - 1 ELSE 0

Tick ==
    /\ job = None
    /\ rest > 0
    /\ rest' = rest - 1
    /\ quick' = Less(quick)
    /\ retry' = [t \in Targets |-> Less(retry[t])]
    /\ backoff' = [d \in Domains |-> Less(backoff[d])]
    /\ owed' = [d \in Domains |-> Less(owed[d])]
    /\ promised' = [t \in Targets |-> Less(promised[t])]
    /\ UNCHANGED <<health, demand, power, used, job, stray, seen, faults,
                   restarts>>

\* Budgets are full again, and targets are due for a cheap check.
DayPasses ==
    /\ used' = 0
    /\ demand' = [t \in Targets |->
                   IF demand[t] = "none" THEN "cheap" ELSE demand[t]]
    /\ UNCHANGED <<health, retry, backoff, power, job, stray, rest, quick,
                   seen, owed, promised, faults, restarts>>

-----------------------------------------------------------------------------
(* A turn of the loop.                                                     *)

Affordable(t) == demand[t] = "cheap" \/ used < FullBudget

\* Faulty: the retry time is looked at only when the listing is to be fetched.
DueWhileWaiting == {t \in Targets : demand[t] # "none" /\ Affordable(t)}

\* should_reindex_with_budget.
Due == {t \in Targets : /\ retry[t] = 0
                        /\ demand[t] # "none"
                        /\ Affordable(t)}

Candidates == {t \in Due : backoff[DomainOf[t]] = 0}

\* _priority: full reindexes first.  Among cheap checks the order is that of
\* the last checks, which is any order here.
First(t) ==
    /\ t \in Candidates
    /\ \A s \in Candidates \ {t} :
        \/ demand[t] = "cheap" /\ demand[s] = "cheap"
        \/ demand[t] = "full" /\ (demand[s] = "cheap" \/ Rank[t] < Rank[s])

\* What is left of the pauses of targets, or of their domains.
Pauses == {retry[t] : t \in {s \in Targets : retry[s] > 0}}
              \cup {backoff[DomainOf[t]] : t \in Due \ Candidates}

\* Targets that are not due before their next check or the next budget.
Later == {t \in Targets \ Due : retry[t] = 0}

\* first_access_seen and accelerated_until: the first access that is found
\* makes turns quick for an hour.
NoteAccess ==
    \/ /\ ~seen
       /\ seen' = TRUE
       /\ quick' = Hour
    \/ UNCHANGED <<seen, quick>>

BaseInterval == IF quick' > 0 THEN Accelerated ELSE IdlePause

\* index_target does not ask for the listing of a target that has to wait.
Refused(t) == retry[t] > 0 \/ backoff[DomainOf[t]] > 0

Ask ==
    /\ job = None /\ rest = 0
    /\ \E t \in Targets :
        /\ First(t)
        /\ IF Refused(t)
           THEN NoteAccess /\ rest' = BaseInterval /\ UNCHANGED job
           ELSE job' = t /\ UNCHANGED <<rest, quick, seen>>
    /\ UNCHANGED <<health, demand, retry, backoff, power, used, stray, owed,
                   promised, faults, restarts>>

\* No target may be asked for now.  The loop rests until the first is due,
\* also if that is longer than a turn, and only the stop event wakes it.
AskNothing ==
    /\ job = None /\ rest = 0
    /\ Candidates = {}
    /\ NoteAccess
    /\ rest' \in {n \in Pauses \cup (IF Later = {} THEN {} ELSE 1 .. Day) :
                  \A pause \in Pauses : n <= pause}
    /\ UNCHANGED <<health, demand, retry, backoff, power, used, job, stray,
                   owed, promised, faults, restarts>>

-----------------------------------------------------------------------------
(* What the server says.                                                   *)

EndTurn ==
    /\ job' = None
    /\ NoteAccess
    /\ rest' = BaseInterval

\* _clear_domain_backoff.
ClearDomain(d) ==
    /\ backoff' = [backoff EXCEPT ![d] = 0]
    /\ power' = [power EXCEPT ![d] = 0]

\* update_listing or record_cheap_check, for another listing than before or
\* the same.
Listed ==
    /\ job # None
    /\ health[job] = "sound"
    /\ demand' = [demand EXCEPT ![job] = "none"]
    /\ retry' = [retry EXCEPT ![job] = 0]
    /\ ClearDomain(DomainOf[job])
    /\ used' = IF demand[job] = "full" THEN used + 1 ELSE used
    /\ EndTurn
    /\ UNCHANGED <<health, stray, owed, promised, faults, restarts>>

\* record_cheap_check after a 304, also to a full reindex, which is counted as
\* one and leaves the target as due for one as it was.
NotModified ==
    /\ job # None
    /\ health[job] = "unmoved"
    /\ demand' = [demand EXCEPT ![job] = IF @ = "full" THEN @ ELSE "none"]
    /\ retry' = [retry EXCEPT ![job] = 0]
    /\ ClearDomain(DomainOf[job])
    /\ used' = IF demand[job] = "full" THEN used + 1 ELSE used
    /\ EndTurn
    /\ UNCHANGED <<health, stray, owed, promised, faults, restarts>>

\* mark_failure with giant_directory_cooldown_minutes; the domain is neither
\* paused nor cleared.
GiantListing ==
    /\ job # None
    /\ health[job] = "giant"
    /\ retry' = [retry EXCEPT ![job] = Cooldown]
    /\ EndTurn
    /\ UNCHANGED <<health, demand, backoff, power, used, stray, owed, promised,
                   faults, restarts>>

Least(m, n) == IF m <= n THEN m ELSE n
Greatest(m, n) == IF m <= n THEN n ELSE m

Doubled(p) == IF p = 0 THEN 1 ELSE IF Base * p >= MaxBackoff THEN p ELSE 2 * p

\* Faulty: a pause is never longer than the maximum.
DelaysCapped(p, after) ==
    LET delay == Least(MaxBackoff, Base * p)
    IN  IF after = None THEN {delay, Least(MaxBackoff, delay + 1)}
        ELSE {Least(MaxBackoff, Greatest(delay, after))}

\* _apply_domain_backoff.  Where the server does not name a time, the delay is
\* lengthened or shortened by up to a fifth, a tick at most.
Delays(p, after) ==
    LET delay == Least(MaxBackoff, Base * p)
    IN  IF after = None THEN {delay, Least(MaxBackoff, delay + 1)}
        ELSE {Greatest(after, Least(MaxBackoff, delay))}

\* _record_failure, for an answer >= 400 or no answer.  Any answer >= 400 has
\* "error" in its metadata: all failures make the delay grow, a 404 as well.
RunFails ==
    LET d == DomainOf[job]
    IN  /\ job # None
        /\ \/ health[job] = "broken" /\ UNCHANGED faults
           \/ /\ health[job] # "broken"
              /\ faults < MaxFaults
              /\ faults' = faults + 1
        /\ power' = [power EXCEPT ![d] = Doubled(@)]
        /\ \E after \in RetryAfters \cup {None} :
            \E delay \in Delays(Doubled(power[d]), after) :
             /\ backoff' = [backoff EXCEPT ![d] = IF delay > 0 THEN delay ELSE @]
             /\ retry' = [retry EXCEPT ![job] = delay]
             /\ owed' = [owed EXCEPT ![d] = IF after = None THEN 0 ELSE after]
             /\ promised' = [promised EXCEPT ![job] = owed'[d]]
        /\ EndTurn
        /\ UNCHANGED <<health, demand, used, stray, restarts>>

\* The row cannot be written.  The except clause counts one failure, the only
\* one or, if it was a failure that could not be recorded, one more, and pauses
\* the domain anew without the Retry-After; it stores that pause, or raises as
\* well, and the loop catches it and rests.
RecordRaises ==
    LET d == DomainOf[job]
    IN  /\ job # None
        /\ faults < MaxFaults
        /\ faults' = faults + 1
        /\ \E p \in {Doubled(power[d]), Doubled(Doubled(power[d]))} :
            /\ power' = [power EXCEPT ![d] = p]
            /\ \E delay \in Delays(p, None) :
                /\ backoff' = [backoff EXCEPT ![d] = IF delay > 0 THEN delay ELSE @]
                /\ \/ retry' = [retry EXCEPT ![job] = delay] /\ EndTurn
                   \/ /\ job' = None
                      /\ rest' = ErrorPause
                      /\ UNCHANGED <<retry, quick, seen>>
        /\ UNCHANGED <<health, demand, used, stray, owed, promised, restarts>>

-----------------------------------------------------------------------------
\* What the Indexer and the loop had in memory is gone, which the history of the
\* domains follows.
NewIndexer ==
    /\ restarts < MaxRestarts
    /\ restarts' = restarts + 1
    /\ backoff' = [d \in Domains |-> 0]
    /\ power' = [d \in Domains |-> 0]
    /\ used' = 0
    /\ job' = None
    /\ rest' = 0
    /\ quick' = 0
    /\ seen' = FALSE
    /\ owed' = [d \in Domains |-> 0]
    /\ UNCHANGED <<health, demand, retry, promised, faults>>

\* stop() waits a second for the old thread.  Its connection is closed, and the
\* fetch it is in goes on.
Reload ==
    /\ NewIndexer
    /\ stray' = IF job = None THEN stray ELSE stray \cup {job}

\* The process dies and is started again.
Restart ==
    /\ NewIndexer
    /\ stray' = {}

\* The answer to an old thread, whatever it says: the Indexer that may remember
\* it has no loop any more, and mark_failure and the rest raise on the closed
\* connection.  Also a Retry-After in it is heard by nobody.
StrayEnds ==
    /\ \E t \in stray : stray' = stray \ {t}
    /\ UNCHANGED <<health, demand, retry, backoff, power, used, job, rest, quick,
                   seen, owed, promised, faults, restarts>>

Turn == Ask \/ AskNothing
RunEnds == Listed \/ NotModified \/ GiantListing \/ RunFails \/ RecordRaises

ScheduleNext ==
    Tick \/ DayPasses \/ Turn \/ RunEnds \/ Reload \/ Restart \/ StrayEnds

ScheduleSpec == ScheduleInit /\ [][ScheduleNext]_scheduleVars

\* The loop turns, a fetch ends within its timeout, and time goes by.
ScheduleFairSpec ==
    /\ ScheduleSpec
    /\ WF_scheduleVars(Tick) /\ WF_scheduleVars(DayPasses)
    /\ WF_scheduleVars(Turn) /\ WF_scheduleVars(RunEnds)

-----------------------------------------------------------------------------
\* The types of the variables.
ScheduleTypeOK ==
    /\ health \in [Targets -> Healths]
    /\ demand \in [Targets -> {"full", "cheap", "none"}]
    /\ retry \in [Targets -> Nat]
    /\ backoff \in [Domains -> Nat]
    /\ power \in [Domains -> Nat]
    /\ used \in Nat
    /\ job \in Targets \cup {None} /\ stray \subseteq Targets
    /\ rest \in Nat /\ quick \in Nat /\ seen \in BOOLEAN
    /\ owed \in [Domains -> Nat]
    /\ promised \in [Targets -> Nat]
    /\ faults \in Nat /\ restarts \in Nat

\* SPEC.md:915 has the indexer respect Retry-After.  It does with those that the
\* running Indexer is told and can store: no target of the domain is asked for
\* within the time as long as that Indexer lasts, and the target it was named
\* for is not even after a reload or a restart.  It does not with one that comes
\* as the answer to a thread from before a reload, which is lost (StrayEnds),
\* nor with one that the database refuses (RecordRaises).
RetryAfterIsHonoured ==
    job # None => owed[DomainOf[job]] = 0 /\ promised[job] = 0

\* Targets that come before t whenever both are due for a full reindex.
Before(t, kind) == {s \in Targets : Rank[s] < Rank[t] /\ health[s] = kind}

Overdue(t) ==
    /\ demand[t] = "full" /\ health[t] = "sound"
    /\ Before(t, "broken") = {} /\ Before(t, "unmoved") = {}
    /\ Cardinality(Before(t, "giant")) * IdlePause < Cooldown

\* A target with a sound server gets its full reindex, over failures, giant
\* listings, budgets and restarts, unless one that keeps failing or keeps
\* being answered with 304 comes before it, or more giant ones than have a
\* turn before the cooldown of the first is over.
TurnComes ==
    FullBudget > 0 => \A t \in Targets : Overdue(t) ~> (demand[t] # "full")
=============================================================================
