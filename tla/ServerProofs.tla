---------------------------- MODULE ServerProofs ----------------------------
(***************************************************************************)
(* Proofs about Lifecycle, for any services with dependencies that can be  *)
(* ordered, any number of signals, failures, requests and reloads; and     *)
(* about Schedule, the work of the thread of the background service, for   *)
(* any targets, domains, settings and numbers of failures and restarts.    *)
(*                                                                         *)
(* The inductive invariant LInv says what every activation of the main     *)
(* thread knows, those that a signal broke into included.  Three parts     *)
(* carry the theorems.  OnCourse: initialize_all at service k has built    *)
(* the first k - 1 services from each other in this pass, and start_all    *)
(* has given them their threads.  Reachable: stop_all at service k has     *)
(* left threads of the first k services only, each with the event its      *)
(* service would set.  Compared: until the database service reads its      *)
(* settings again it has those that the reload compared.  GiveUp keeps an  *)
(* activation that was broken into from being overtaken: the reload that   *)
(* broke in finds no settings in the context and leaves.                   *)
(***************************************************************************)
EXTENDS Lifecycle, Schedule, FiniteSetTheorems, SequenceTheorems, TLAPS

-----------------------------------------------------------------------------
(* The order of the services *)

Earlier(k) == {Order[j] : j \in 1..k}

LEMMA Constants ==
    /\ N \in Nat
    /\ {"database", "config", "webdav"} \subseteq Services /\ "nothing" \notin Services
    /\ \A s \in Services : Deps[s] \subseteq Services
    /\ "database" \in Deps["config"] /\ "database" \in Deps["webdav"]
    /\ Threaded \subseteq Services /\ "database" \notin Threaded
    /\ "background" \in Services => "background" \in Threaded
    /\ MaxSignals \in Nat /\ MaxFailures \in Nat
<1>1. N \in Nat
  BY LifecycleAssumption DEF N
<1>. QED
  BY <1>1, LifecycleAssumption

\* No service comes twice in the order: there are as many places as services.
LEMMA OrderIsOneToOne ==
    \A i, j \in 1..N : Order[i] = Order[j] => i = j
<1>1. N \in Nat /\ Order \in [1..N -> Services] /\ Cardinality(Services) = N
  BY LifecycleAssumption, Constants
<1>2. \A s \in Services : \E i \in 1..N : Order[i] = s
  <2>1. ToSet(Order) = Services /\ DOMAIN Order = 1..N
    BY <1>1, LifecycleAssumption
  <2>. QED
    BY <2>1, Zenon DEF ToSet
<1>3. Order \in Surjection(1..N, Services)
  BY <1>1, <1>2 DEF Surjection
<1>4. IsFiniteSet(1..N) /\ Cardinality(1..N) = N
  BY <1>1, FS_Interval
<1>5. Order \in Injection(1..N, Services)
  BY <1>1, <1>3, <1>4, FS_Surjection
<1>. QED
  BY <1>5 DEF Injection, IsInjective

LEMMA BeforeIs ==
    /\ Earlier(0) = {} /\ Earlier(N) = Services
    /\ \A k \in 1..N : /\ Order[k] \in Services
                       /\ Earlier(k) = Earlier(k - 1) \cup {Order[k]}
                       /\ Order[k] \notin Earlier(k - 1)
                       /\ Deps[Order[k]] \subseteq Earlier(k - 1)
                       /\ Earlier(k) \subseteq Services
<1>1. N \in Nat /\ Order \in [1..N -> Services]
  BY LifecycleAssumption, Constants
<1>2. Earlier(0) = {}
  BY DEF Earlier
<1>3. Earlier(N) = Services
  <2>1. ToSet(Order) = Services /\ DOMAIN Order = 1..N
    BY <1>1, LifecycleAssumption
  <2>. QED
    BY <2>1, Zenon DEF ToSet, Earlier
<1>4. ASSUME NEW k \in 1..N
      PROVE  /\ Order[k] \in Services
             /\ Earlier(k) = Earlier(k - 1) \cup {Order[k]}
             /\ Order[k] \notin Earlier(k - 1)
             /\ Deps[Order[k]] \subseteq Earlier(k - 1)
             /\ Earlier(k) \subseteq Services
  <2>1. \A j \in 1..k : j \in 1..N /\ (j \in 1..(k - 1) \/ j = k)
    BY <1>1
  <2>2. \A j \in 1..(k - 1) : j \in 1..k /\ j # k
    BY <1>1
  <2>3. k \in 1..k
    BY <1>1
  <2>4. Earlier(k) = Earlier(k - 1) \cup {Order[k]}
    BY <2>1, <2>2, <2>3 DEF Earlier
  <2>5. Order[k] \notin Earlier(k - 1)
    BY <2>1, <2>2, OrderIsOneToOne DEF Earlier
  <2>6. Deps[Order[k]] \subseteq Earlier(k - 1)
    BY LifecycleAssumption DEF Earlier
  <2>7. Earlier(k) \subseteq Services
    BY <1>1, <2>1 DEF Earlier
  <2>. QED
    BY <1>1, <2>4, <2>5, <2>6, <2>7
<1>. QED
  BY <1>2, <1>3, <1>4

-----------------------------------------------------------------------------
(* The inductive invariant *)

Phases == {"options", "unlink", "check", "stop", "reset", "init", "start", "undo",
           "tls", "serve", "gone"}
Asking == {"options", "unlink", "check"}
Reads == [pass : Nat, from : UNION {[D -> Nat] : D \in SUBSET Services}]
Frames ==
    [who : {"main", "reload"}, phase : Phases, at : 0..N + 1, pass : Nat, reads : Reads,
     reading : BOOLEAN, allow : BOOLEAN, checked : Databases \cup {"none"},
     seen : Databases \cup {"none"}, why : Services \cup {"nothing"}]

\* The frames of initialize_all that have not come to the settings.
Unbuilt == {f \in Frames : f.phase = "init" /\ "config" \notin Earlier(f.at - 1)}

\* What an activation knows of itself.
Sound ==
    {f \in Frames :
        /\ f.pass <= passes
        /\ f.phase \in {"stop", "undo"} => f.at \in 0..N
        /\ f.phase \in {"init", "start"} => f.at \in 1..N
        /\ f.phase \in {"init", "start", "tls"} => f.pass \in 1..passes
        /\ f.phase = "init" /\ f.reading =>
                /\ f.reads.pass = f.pass
                /\ f.reads.from \in [Deps[Order[f.at]] -> 0..passes]
                /\ f.seen \in Databases
        /\ f.phase # "init" => ~f.reading
        /\ f.phase = "undo" => f.why \in Services}

\* An activation that has got past the background service has made its event.
Eventful ==
    {f \in Frames :
        "background" \in Services =>
            /\ f.phase = "start" => event["background"] # 0
            /\ f.phase = "init" /\ "background" \in Earlier(f.at - 1)
                    => event["background"] # 0}

StackTyped ==
    /\ stack \in Seq(Sound \cap Eventful) /\ stack # <<>>
    /\ stack[1].who = "main"
    /\ \A k \in 2..Len(stack) : stack[k].who = "reload"
    /\ Len(stack) > 1 => stack[1].phase \in {"serve", "stop"}

\* While an activation has yet to build the settings, those that broke into it
\* find none and give up.
GiveUp ==
    \A k \in 1..Len(stack) :
        stack[k] \in Unbuilt =>
            /\ "config" \notin context
            /\ \A m \in (k + 1)..Len(stack) : stack[m].phase \in Asking

BuildTyped ==
    /\ passes \in Nat
    /\ context \subseteq Services
    /\ made \in [Services -> Reads]
    /\ \A s \in Services : made[s].pass <= passes
    /\ \A s \in context : made[s].from \in [Deps[s] -> 0..passes]
    /\ open \subseteq 1..passes

ThreadsTyped ==
    /\ passes \in Nat /\ events \in Nat
    /\ event \in [Services -> 0..events]
    /\ \A s \in Services : s \notin Threaded => event[s] = 0
    /\ told \subseteq Threaded
    /\ threads \subseteq [by : Threaded, event : 1..events, nr : 1..passes]

DatabasesTyped ==
    /\ named \in Databases
    /\ {connected, configured} \subseteq Databases \cup {"none"}

HistoryTyped ==
    /\ overlapped \in {"no", "now", "before"}
    /\ failed \in Services \cup {"nothing", "refused", "no_config", "tls"}
    /\ signals \in 0..MaxSignals
    /\ failures \in 0..MaxFailures

RequestsTyped ==
    req \in [Requests -> [state : {"idle", "running", "failed"}, uses : Nat, quiet : BOOLEAN]]

\* No signal has broken into the last start or reload.
Calm == overlapped # "now"

OneAtATime ==
    Calm => /\ Len(stack) <= 2
            /\ Len(stack) = 2 => stack[1].phase = "serve"

\* How far the services are built from each other in the last pass.
Built ==
    {k \in 0..N :
        /\ context = Earlier(k)
        /\ \A s \in Earlier(k) :
            made[s].pass = passes /\ \A d \in Deps[s] : made[s].from[d] = passes
        /\ "database" \in Earlier(k) => passes \in open
        /\ "background" \in Earlier(k) => "background" \notin told}

\* How far they have their threads.
Runs ==
    {k \in 0..N : \A s \in Earlier(k) \cap Threaded :
                        \E t \in threads : t.by = s /\ t.event = event[s]}

Fresh ==
    {f \in Frames : /\ f.pass = passes
                    /\ f.reading => \A d \in Deps[Order[f.at]] : f.reads.from[d] = passes}

OnCourse ==
    Calm => /\ Top.phase = "init" => Top \in Fresh /\ Top.at - 1 \in Built
            /\ Top.phase = "start" => N \in Built /\ Top.at - 1 \in Runs
            /\ Top.phase = "tls" => N \in Built /\ N \in Runs
            /\ AtRest /\ failed = "nothing" => N \in Built /\ N \in Runs

\* The threads that run have the events that their services would set, and are
\* the only ones of their kind.
Single == \A t \in threads : t.event = event[t.by] /\ \A u \in threads : u.by = t.by => u = t
OfThese == {k \in 0..N : \A t \in threads : t.by \in Earlier(k)}

Reachable ==
    overlapped = "no" =>
        /\ Single
        /\ Top.phase = "stop" => Top.at \in OfThese
        /\ Top.phase \in {"reset", "init"} => threads = {}
        /\ Top.phase = "start" => Top.at - 1 \in OfThese

\* What a reload compared is what the database service still has.
Compared ==
    /\ "config" \in context => configured = connected
    /\ Calm => /\ Top.phase \in {"stop", "reset"} /\ Top.who = "reload" =>
                    Top.allow \/ connected = Top.checked
               /\ Top.phase = "init" /\ "database" \notin Earlier(Top.at - 1) /\ Top.who = "reload"
                    => Top.allow \/ connected = Top.checked
               /\ Top.phase = "reset" /\ Top.who = "main" => connected = "none"
               /\ Top.phase = "init" /\ "database" \notin Earlier(Top.at - 1) /\ Top.who = "main"
                    => connected = "none"

\* A request that is quiet began at rest and fails only if it finds less than
\* what a start or a reload leaves.
Requested ==
    \A r \in Requests :
        req[r].quiet =>
            /\ AtRest
            /\ Calm /\ failed = "nothing" =>
                    /\ req[r].state # "failed"
                    /\ req[r].state = "running" => req[r].uses \in open

LTyped ==
    /\ StackTyped /\ BuildTyped /\ ThreadsTyped /\ DatabasesTyped /\ HistoryTyped
    /\ RequestsTyped

LInv ==
    /\ LTyped /\ GiveUp /\ OneAtATime /\ OnCourse /\ Reachable /\ Compared /\ Requested

-----------------------------------------------------------------------------
(* The activations *)

\* The top of the stack.
LEMMA TopIs ==
    ASSUME StackTyped
    PROVE  /\ Len(stack) \in Nat \ {0} /\ Top = stack[Len(stack)]
           /\ Top \in Frames /\ Top \in Sound /\ Top \in Eventful
           /\ Top.who = "main" <=> Len(stack) = 1
           /\ Top.who = "reload" <=> Len(stack) > 1
<1>1. Len(stack) \in Nat \ {0} /\ Top = stack[Len(stack)]
  BY DEF StackTyped, Top, Last
<1>2. stack[Len(stack)] \in Sound \cap Eventful
  BY <1>1 DEF StackTyped
<1>3. Sound \subseteq Frames
  BY DEF Sound
<1>4. Len(stack) = 1 => Top.who = "main"
  BY <1>1 DEF StackTyped
<1>5. Len(stack) > 1 => Top.who = "reload"
  BY <1>1 DEF StackTyped
<1>6. Len(stack) = 1 \/ Len(stack) > 1
  BY <1>1
<1>7. /\ Top.who = "main" <=> Len(stack) = 1
      /\ Top.who = "reload" <=> Len(stack) > 1
  BY <1>1, <1>4, <1>5, <1>6
<1>. QED
  BY <1>1, <1>2, <1>3, <1>7

\* The activations below the top stay what they were.
LEMMA BelowStays ==
    ASSUME NEW f \in Sound \cap Eventful, BuildTyped,
           passes' \in Nat, passes' >= passes,
           "background" \in Services => (event["background"] # 0 => event'["background"] # 0)
    PROVE  f \in (Sound \cap Eventful)'
<1>1. f \in Sound'
  <2>1. passes \in Nat /\ 0..passes \subseteq 0..passes' /\ 1..passes \subseteq 1..passes'
    BY DEF BuildTyped
  <2>2. ASSUME NEW D, f.reads.from \in [D -> 0..passes]
        PROVE  f.reads.from \in [D -> 0..passes']
    BY <2>1, <2>2
  <2>3. f \in Frames /\ f.pass \in Nat
    BY DEF Sound, Frames
  <2>. QED
    BY <2>1, <2>2, <2>3 DEF Sound
<1>2. f \in Eventful'
  BY DEF Eventful
<1>. QED
  BY <1>1, <1>2

\* The running activation goes on.
LEMMA GoesOn ==
    ASSUME LInv, NEW f \in Frames, Goto(f), f.who = Top.who,
           f \in Sound', f \in Eventful',
           passes' \in Nat, passes' >= passes,
           "background" \in Services => (event["background"] # 0 => event'["background"] # 0),
           \/ Top.phase \in Asking /\ f.phase \in Asking
           \/ "config" \in context
           \/ Top.phase \notin Asking,
           f \in Unbuilt => "config" \notin context',
           context' \subseteq context \/ Top.phase \notin Asking,
           overlapped' = overlapped
    PROVE  StackTyped' /\ GiveUp' /\ OneAtATime' /\ Top' = f /\ Len(stack') = Len(stack)
<1>. DEFINE n == Len(stack)
            S == Sound \cap Eventful
<1>1. /\ n \in Nat \ {0} /\ Top = stack[n] /\ stack \in Seq(S) /\ n = Len(stack)
      /\ stack' = [stack EXCEPT ![n] = f]
  BY TopIs DEF LInv, LTyped, StackTyped, Goto
<1>2. \A k \in 1..n : stack[k] \in S'
  <2>1. \A g \in S : g \in S'
    BY BelowStays DEF LInv, LTyped
  <2>. QED
    BY <1>1, <2>1
<1>3. f \in S'
  OBVIOUS
<1>. HIDE DEF S
<1>4. /\ stack' \in Seq(S') /\ Len(stack') = n /\ stack'[n] = f
      /\ \A k \in 1..n : k # n => stack'[k] = stack[k]
  <2>. DEFINE new == [stack EXCEPT ![n] = f]
  <2>1. \A k \in 1..n : new[k] \in S'
    BY <1>1, <1>2, <1>3
  <2>2. DOMAIN new = 1..n /\ new = [k \in 1..n |-> new[k]]
    <3>1. DOMAIN stack = 1..n
      BY <1>1
    <3>. QED
      BY <3>1
  <2>6. stack' = new
    BY <1>1
  <2>3. new \in [1..n -> S']
    <3>. HIDE DEF new
    <3>. QED
      BY <2>1, <2>2
  <2>4. /\ new[n] = f
        /\ \A k \in 1..n : k # n => new[k] = stack[k]
    BY <1>1
  <2>. HIDE DEF new
  <2>5. new \in Seq(S') /\ Len(new) = n
    BY <1>1, <2>2, <2>3
  <2>. QED
    BY <2>4, <2>5, <2>6
<1>5. Top' = f
  BY <1>1, <1>4 DEF Top, Last
<1>. HIDE DEF n
<1>6. StackTyped'
  <2>1. n = 1 => f.who = "main"
    BY <1>1, TopIs DEF LInv, LTyped
  <2>2. n > 1 => f.who = "reload"
    BY <1>1, TopIs DEF LInv, LTyped
  <2>3. stack'[1].who = "main"
    BY <1>1, <1>4, <2>1 DEF LInv, LTyped, StackTyped
  <2>4. \A k \in 2..n : stack'[k].who = "reload"
    BY <1>1, <1>4, <2>2 DEF LInv, LTyped, StackTyped
  <2>5. n > 1 => stack'[1].phase \in {"serve", "stop"}
    BY <1>1, <1>4 DEF LInv, LTyped, StackTyped
  <2>6. stack' # <<>>
    BY <1>1, <1>4
  <2>. QED
    BY <1>4, <2>3, <2>4, <2>5, <2>6 DEF StackTyped, S
<1>7. ASSUME NEW k \in 1..n, k # n, stack[k] \in Unbuilt
      PROVE  "config" \notin context /\ Top.phase \in Asking /\ f.phase \in Asking
             /\ "config" \notin context' /\ \A m \in k + 1..n : stack'[m].phase \in Asking
  <2>1. "config" \notin context /\ \A m \in k + 1..n : stack[m].phase \in Asking
    BY <1>1, <1>7 DEF LInv, GiveUp
  <2>2. n \in k + 1..n
    BY <1>1, <1>7
  <2>3. Top.phase \in Asking /\ f.phase \in Asking /\ "config" \notin context'
    BY <1>1, <2>1, <2>2
  <2>4. \A m \in k + 1..n : stack'[m].phase \in Asking
    BY <1>1, <1>4, <2>1, <2>3
  <2>. QED
    BY <2>1, <2>3, <2>4
<1>8. GiveUp'
  <2>. SUFFICES ASSUME NEW k \in 1..n, stack'[k] \in Unbuilt
                PROVE  /\ "config" \notin context'
                       /\ \A m \in k + 1..n : stack'[m].phase \in Asking
    BY <1>4 DEF GiveUp
  <2>1. CASE k = n
    BY <1>1, <1>4, <2>1
  <2>2. CASE k # n
    BY <1>4, <1>7, <2>2
  <2>. QED
    BY <2>1, <2>2
<1>9. OneAtATime'
  BY <1>1, <1>4 DEF LInv, OneAtATime, Calm
<1>. QED
  BY <1>1, <1>4, <1>5, <1>6, <1>8, <1>9

LEMMA NothingIs == Nothing \in Reads /\ Nothing.pass = 0
<1>. DEFINE none == [d \in {} |-> 0]
<1>1. none \in [{} -> Nat] /\ [{} -> Nat] \in {[D -> Nat] : D \in SUBSET Services}
  OBVIOUS
<1>. HIDE DEF none
<1>2. none \in UNION {[D -> Nat] : D \in SUBSET Services}
  BY <1>1
<1>3. Nothing = [pass |-> 0, from |-> none]
  BY Zenon DEF Nothing, none
<1>. QED
  BY <1>2, <1>3 DEF Reads

LEMMA FrameIs ==
    ASSUME NEW who \in {"main", "reload"}, NEW phase \in Phases
    PROVE  /\ Frame(who, phase) \in Frames
           /\ Frame(who, phase).who = who /\ Frame(who, phase).phase = phase
           /\ Frame(who, phase).at = 1 /\ Frame(who, phase).pass = 0
           /\ ~Frame(who, phase).reading
<1>1. 1 \in 0..N + 1
  BY Constants
<1>. QED
  BY <1>1, NothingIs DEF Frame, Frames

\* The running activation, of a reload, gives way to the one below.
LEMMA GivesWay ==
    ASSUME LInv, Return, Top.who = "reload", passes' = passes,
           "background" \in Services => (event["background"] # 0 => event'["background"] # 0),
           context' \subseteq context, overlapped' = overlapped
    PROVE  /\ StackTyped' /\ GiveUp' /\ OneAtATime'
           /\ Calm => Top'.phase = "serve" /\ Top'.who = "main"
<1>. DEFINE n == Len(stack)
            S == Sound \cap Eventful
            less == SubSeq(stack, 1, n - 1)
<1>1. /\ n \in Nat \ {0, 1} /\ stack \in Seq(S) /\ n = Len(stack)
      /\ stack' = less
  BY TopIs DEF LInv, LTyped, StackTyped, Return, Front
<1>2. \A k \in 1..n : stack[k] \in S'
  <2>1. \A g \in S : g \in S'
    BY BelowStays DEF LInv, LTyped, BuildTyped
  <2>. QED
    BY <1>1, <2>1
<1>. HIDE DEF S
<1>3. less \in Seq(S') /\ Len(less) = n - 1 /\ \A k \in 1..n - 1 : less[k] = stack[k]
  <2>1. \A k \in 1..n - 1 : stack[k] \in S'
    BY <1>1, <1>2
  <2>2. 1 \in Int /\ n - 1 \in Int /\ 1 <= n - 1 /\ n - 1 - 1 + 1 = n - 1
    <3>1. \A x \in Nat \ {0, 1} :
            1 \in Int /\ x - 1 \in Int /\ 1 <= x - 1 /\ x - 1 - 1 + 1 = x - 1
      OBVIOUS
    <3>. QED
      BY <1>1, <3>1
  <2>3. \A k \in 1..n - 1 : 1 + k - 1 = k
    BY <1>1
  <2>4. /\ less \in Seq(S') /\ Len(less) = n - 1 - 1 + 1
        /\ \A k \in 1..n - 1 - 1 + 1 : less[k] = stack[1 + k - 1]
    BY <2>1, <2>2, SubSeqProperties
  <2>. HIDE DEF less
  <2>. QED
    BY <2>2, <2>3, <2>4
<1>. HIDE DEF less, n
<1>4. StackTyped'
  <2>1. stack'[1].who = "main"
    BY <1>1, <1>3 DEF LInv, LTyped, StackTyped
  <2>2. \A k \in 2..Len(stack') : stack'[k].who = "reload"
    BY <1>1, <1>3 DEF LInv, LTyped, StackTyped
  <2>3. Len(stack') > 1 => stack'[1].phase \in {"serve", "stop"}
    BY <1>1, <1>3 DEF LInv, LTyped, StackTyped
  <2>4. stack' # <<>>
    BY <1>1, <1>3
  <2>. QED
    BY <1>1, <1>3, <2>1, <2>2, <2>3, <2>4 DEF StackTyped, S
<1>5. GiveUp'
  <2>. SUFFICES ASSUME NEW k \in 1..n - 1, stack'[k] \in Unbuilt
                PROVE  /\ "config" \notin context'
                       /\ \A m \in k + 1..n - 1 : stack'[m].phase \in Asking
    BY <1>1, <1>3 DEF GiveUp
  <2>1. /\ stack[k] \in Unbuilt /\ k \in 1..Len(stack)
        /\ \A m \in k + 1..n - 1 : m \in k + 1..Len(stack) /\ stack'[m] = stack[m]
    <3>1. \A m \in k + 1..n - 1 : m \in k + 1..n /\ m \in 1..n - 1
      BY <1>1
    <3>2. k \in 1..n
      BY <1>1
    <3>. QED
      BY <1>1, <1>3, <3>1, <3>2
  <2>. QED
    BY <2>1 DEF LInv, GiveUp
<1>6. OneAtATime'
  BY <1>1, <1>3 DEF LInv, OneAtATime, Calm
<1>7. Calm => Top'.phase = "serve" /\ Top'.who = "main"
  <2>. SUFFICES ASSUME Calm PROVE Top'.phase = "serve" /\ Top'.who = "main"
    OBVIOUS
  <2>1. n = 2 /\ stack[1].phase = "serve"
    BY <1>1 DEF LInv, OneAtATime
  <2>2. Top' = stack[1]
    BY <1>1, <1>3, <2>1 DEF Top, Last
  <2>. QED
    BY <2>1, <2>2 DEF LInv, LTyped, StackTyped
<1>. QED
  BY <1>4, <1>5, <1>6, <1>7

\* The main thread is all there is: at the start, and when the process has ended.
LEMMA StandsAlone ==
    ASSUME NEW phase \in {"reset", "gone"}, passes' \in Nat,
           stack' = <<Frame("main", phase)>>
    PROVE  /\ StackTyped' /\ GiveUp' /\ OneAtATime'
           /\ Top' = Frame("main", phase) /\ Top'.phase = phase /\ Top'.who = "main"
<1>. DEFINE f == Frame("main", phase)
<1>1. /\ f \in Frames /\ f.who = "main" /\ f.phase = phase /\ f.pass = 0
      /\ ~f.reading /\ phase \in Phases
  BY FrameIs DEF Phases
<1>. HIDE DEF f
<1>2. f \in Sound' /\ f \in Eventful'
  BY <1>1 DEF Sound, Eventful
<1>3. stack' = <<f>>
  BY DEF f
<1>4. Top' = f
  BY <1>3 DEF Top, Last
<1>5. StackTyped'
  BY <1>1, <1>2, <1>3 DEF StackTyped
<1>6. GiveUp'
  BY <1>1, <1>3 DEF GiveUp, Unbuilt
<1>7. OneAtATime'
  BY <1>3 DEF OneAtATime
<1>. QED
  BY <1>1, <1>4, <1>5, <1>6, <1>7 DEF f

\* A signal handler runs over whatever there was.
LEMMA BreaksIn ==
    ASSUME LInv, Up, stack' = Append(stack, Frame("reload", "options")),
           UNCHANGED <<passes, event, context>>,
           overlapped' = "now" \/ AtRest
    PROVE  /\ StackTyped' /\ GiveUp' /\ OneAtATime'
           /\ Top' = Frame("reload", "options") /\ Top'.phase = "options"
<1>. DEFINE f == Frame("reload", "options")
            n == Len(stack)
            S == Sound \cap Eventful
<1>1. /\ f \in Frames /\ f.who = "reload" /\ f.phase = "options" /\ f.pass = 0
      /\ ~f.reading
  BY FrameIs DEF Phases
<1>. HIDE DEF f
<1>2. passes \in Nat /\ passes' = passes
  BY DEF LInv, LTyped, BuildTyped
<1>3. f \in Sound' /\ f \in Eventful'
  BY <1>1, <1>2 DEF Sound, Eventful
<1>4. /\ n \in Nat \ {0} /\ stack \in Seq(S) /\ n = Len(stack) /\ stack' = Append(stack, f)
  BY TopIs DEF LInv, LTyped, StackTyped, f
<1>5. \A k \in 1..n : stack[k] \in S'
  <2>1. \A g \in S : g \in S'
    BY <1>2, BelowStays DEF LInv, LTyped
  <2>. QED
    BY <1>4, <2>1
<1>6. f \in S'
  BY <1>3
<1>. HIDE DEF S
<1>7. /\ stack' \in Seq(S') /\ Len(stack') = n + 1 /\ stack'[n + 1] = f
      /\ \A k \in 1..n : stack'[k] = stack[k]
  <2>1. stack \in Seq(S')
    <3>1. stack = [k \in 1..n |-> stack[k]]
      BY <1>4
    <3>2. stack \in [1..n -> S']
      BY <1>5, <3>1
    <3>. QED
      BY <1>4, <3>2
  <2>. QED
    BY <1>4, <1>6, <2>1, AppendProperties
<1>. HIDE DEF n
<1>8. Top' = f
  BY <1>4, <1>7 DEF Top, Last
<1>9. StackTyped'
  <2>1. stack'[1].who = "main"
    BY <1>4, <1>7 DEF LInv, LTyped, StackTyped
  <2>2. \A k \in 2..n + 1 : stack'[k].who = "reload"
    BY <1>1, <1>4, <1>7 DEF LInv, LTyped, StackTyped
  <2>3. stack'[1].phase \in {"serve", "stop"}
    BY <1>4, <1>7 DEF Up
  <2>4. stack' # <<>>
    BY <1>4, <1>7
  <2>. QED
    BY <1>7, <2>1, <2>2, <2>3, <2>4 DEF StackTyped, S
<1>10. GiveUp'
  <2>. SUFFICES ASSUME NEW k \in 1..n + 1, stack'[k] \in Unbuilt
                PROVE  /\ "config" \notin context'
                       /\ \A m \in k + 1..n + 1 : stack'[m].phase \in Asking
    BY <1>7 DEF GiveUp
  <2>1. k # n + 1
    BY <1>1, <1>7 DEF Unbuilt
  <2>2. k \in 1..Len(stack) /\ stack[k] \in Unbuilt
    BY <1>4, <1>7, <2>1
  <2>3. "config" \notin context /\ \A m \in k + 1..n : stack[m].phase \in Asking
    BY <1>4, <2>2 DEF LInv, GiveUp
  <2>4. \A m \in k + 1..n + 1 : m = n + 1 \/ (m \in k + 1..n /\ m \in 1..n)
    BY <1>4
  <2>. QED
    BY <1>1, <1>7, <2>3, <2>4 DEF Asking
<1>11. OneAtATime'
  <2>1. CASE overlapped' = "now"
    BY <2>1 DEF OneAtATime, Calm
  <2>2. CASE AtRest
    <3>1. n = 1 /\ stack[1].phase = "serve"
      BY <1>4, <2>2, TopIs DEF LInv, LTyped, AtRest, Running
    <3>. QED
      BY <1>7, <3>1 DEF OneAtATime
  <2>. QED
    BY <2>1, <2>2
<1>. QED
  BY <1>1, <1>8, <1>9, <1>10, <1>11 DEF f

-----------------------------------------------------------------------------
(* Requests *)

LEMMA RestIsMain ==
    ASSUME LInv
    PROVE  /\ AtRest => Top.who = "main" /\ Top.phase = "serve"
           /\ Top.phase # "serve" => ~AtRest
           /\ Top.who = "reload" => ~AtRest
           /\ Top.phase = "serve" /\ Top.who = "main" => AtRest
BY DEF AtRest, Running

\* While the main thread does something no request is quiet.
LEMMA NoQuiet ==
    ASSUME LInv, ~AtRest, req' = req \/ req' = [r \in Requests |-> Idle]
    PROVE  RequestsTyped' /\ Requested'
<1>1. RequestsTyped /\ \A r \in Requests : ~req[r].quiet
  BY DEF LInv, LTyped, Requested
<1>3. RequestsTyped'
  <2>1. CASE req' = req
    BY <1>1, <2>1 DEF RequestsTyped
  <2>2. CASE req' = [r \in Requests |-> Idle]
    BY <2>2 DEF RequestsTyped, Idle
  <2>. QED
    BY <2>1, <2>2
<1>2. \A r \in Requests : ~req'[r].quiet
  <2>1. CASE req' = req
    BY <1>1, <2>1
  <2>2. CASE req' = [r \in Requests |-> Idle]
    BY <2>2 DEF Idle
  <2>. QED
    BY <2>1, <2>2
<1>. QED
  BY <1>2, <1>3 DEF Requested

LEMMA Disturbed ==
    ASSUME LInv, Disturb
    PROVE  RequestsTyped' /\ Requested'
<1>1. \A r \in Requests :
        /\ Quiet(r) \in [state : {"idle", "running", "failed"}, uses : Nat, quiet : BOOLEAN]
        /\ Quiet(r).quiet = FALSE
  BY DEF LInv, LTyped, RequestsTyped, Quiet
<1>2. req' = [r \in Requests |-> Quiet(r)]
  BY DEF Disturb
<1>3. RequestsTyped'
  <2>. HIDE DEF Quiet
  <2>1. req' \in [Requests -> [state : {"idle", "running", "failed"}, uses : Nat, quiet : BOOLEAN]]
    BY <1>1, <1>2
  <2>. QED
    BY <2>1 DEF RequestsTyped
<1>4. \A r \in Requests : ~req'[r].quiet
  BY <1>1, <1>2
<1>. QED
  BY <1>3, <1>4 DEF Requested

-----------------------------------------------------------------------------
(* The process ends; an exception is raised *)

LEMMA ExitKeeps ==
    ASSUME LInv, Exit, UNCHANGED <<context, made, passes, event, told, events, database>>,
           HistoryTyped'
    PROVE  LInv'
<1>1. passes' \in Nat /\ stack' = <<Frame("main", "gone")>>
  BY DEF LInv, LTyped, BuildTyped, Exit, Gone
<1>2. /\ StackTyped' /\ GiveUp' /\ OneAtATime'
      /\ Top'.phase = "gone" /\ Top'.who = "main"
  BY <1>1, StandsAlone
<1>3. BuildTyped' /\ ThreadsTyped' /\ DatabasesTyped'
  BY DEF LInv, LTyped, BuildTyped, ThreadsTyped, DatabasesTyped, Exit, database
<1>4. RequestsTyped' /\ Requested'
  <2>1. req' = [r \in Requests |-> Idle]
    BY DEF Exit
  <2>. QED
    BY <2>1 DEF RequestsTyped, Requested, Idle
<1>5. OnCourse'
  BY <1>2 DEF OnCourse, AtRest, Running
<1>6. Reachable'
  BY <1>2 DEF Reachable, Exit, Single
<1>7. Compared'
  BY <1>2 DEF LInv, Compared, database
<1>. QED
  BY <1>2, <1>3, <1>4, <1>5, <1>6, <1>7 DEF LInv, LTyped

\* What follows an exception in the reload is not what a reload leaves.
LEMMA RaiseKeeps ==
    ASSUME LInv, NEW why \in Services \cup {"refused", "no_config", "tls"}, Raise(why),
           Top.phase # "serve",
           UNCHANGED <<context, made, passes, event, told, events, database, overlapped, signals>>,
           failures' \in 0..MaxFailures
    PROVE  LInv'
<1>1. HistoryTyped'
  <2>1. failed' = failed \/ failed' = why
    BY DEF Raise
  <2>. QED
    BY <2>1 DEF LInv, LTyped, HistoryTyped
<1>2. CASE Top.who = "main"
  BY <1>1, <1>2, ExitKeeps DEF Raise
<1>3. CASE Top.who # "main"
  <2>1. Return /\ failed' = why /\ UNCHANGED <<threads, open, req>>
    BY <1>3 DEF Raise
  <2>2. Top.who = "reload"
    BY <1>3, TopIs DEF LInv, LTyped, Frames
  <2>3. /\ StackTyped' /\ GiveUp' /\ OneAtATime'
        /\ Calm => Top'.phase = "serve" /\ Top'.who = "main"
    BY <2>1, <2>2, GivesWay
  <2>4. BuildTyped' /\ ThreadsTyped' /\ DatabasesTyped'
    BY <2>1 DEF LInv, LTyped, BuildTyped, ThreadsTyped, DatabasesTyped, database
  <2>5. RequestsTyped' /\ Requested'
    BY <2>1, NoQuiet, RestIsMain
  <2>6. why # "nothing"
    BY Constants
  <2>7. Calm' <=> Calm
    BY DEF Calm
  <2>8. OnCourse'
    BY <2>1, <2>3, <2>6, <2>7 DEF OnCourse
  <2>9. Reachable'
    BY <2>1, <2>3 DEF LInv, Reachable, Single, Calm
  <2>10. Compared'
    BY <2>3, <2>7 DEF LInv, Compared, database
  <2>. QED
    BY <1>1, <2>3, <2>4, <2>5, <2>8, <2>9, <2>10 DEF LInv, LTyped
<1>. QED
  BY <1>2, <1>3

-----------------------------------------------------------------------------
(* Stopping *)

LEMMA StopIs ==
    ASSUME LInv, NEW s \in Services, Stop(s)
    PROVE  /\ open' \subseteq open /\ told' \subseteq Threaded
           /\ threads' = {t \in threads : t.by # s \/ t.event # event[s]}
           /\ threads' \subseteq threads
<1>1. event[s] # 0 => s \in Threaded
  BY DEF LInv, LTyped, ThreadsTyped
<1>. QED
  BY <1>1 DEF Stop, LInv, LTyped, ThreadsTyped

\* Fields of the running activation that change.
LEMMA Falls ==
    ASSUME LInv, Top.at \in 1..N, Top.phase \in {"stop", "undo"}
    PROVE  LET f == [Top EXCEPT !.at = @ - 1]
           IN /\ f \in Frames /\ f \in Sound /\ f \in Eventful /\ f \notin Unbuilt
              /\ f.who = Top.who /\ f.phase = Top.phase /\ f.at = Top.at - 1
              /\ f.allow = Top.allow /\ f.checked = Top.checked
<1>. DEFINE f == [Top EXCEPT !.at = Top.at - 1]
<1>1. Top \in Frames /\ Top \in Sound /\ Top \in Eventful
  BY TopIs DEF LInv, LTyped
<1>2. N \in Nat
  BY Constants
<1>3. Top.at - 1 \in 0..N
  BY <1>2
<1>4. /\ f \in Frames
      /\ f.who = Top.who /\ f.phase = Top.phase /\ f.at = Top.at - 1
      /\ f.allow = Top.allow /\ f.checked = Top.checked /\ f.pass = Top.pass
      /\ f.why = Top.why /\ f.reading = Top.reading
  BY <1>1, <1>2, <1>3 DEF Frames
<1>. HIDE DEF f
<1>5. f \in Sound /\ f \in Eventful /\ f \notin Unbuilt
  BY <1>1, <1>3, <1>4 DEF Sound, Eventful, Unbuilt
<1>. QED
  BY <1>4, <1>5 DEF f

\* A step of stopping: what is said of the threads that are left.
LEMMA StopStep ==
    ASSUME LInv, NEW f \in Frames, Goto(f), Top.phase \in {"stop", "undo"}, Top.at \in 1..N,
           f = [Top EXCEPT !.at = @ - 1], Stop(Order[Top.at]),
           req' = req,
           UNCHANGED <<context, made, passes, event, events, database, shutdown, history>>
    PROVE  LInv'
<1>. DEFINE s == Order[Top.at]
<1>1. s \in Services /\ Earlier(Top.at) = Earlier(Top.at - 1) \cup {s}
  BY BeforeIs
<1>2. /\ open' \subseteq open /\ told' \subseteq Threaded /\ threads' \subseteq threads
      /\ threads' = {t \in threads : t.by # s \/ t.event # event[s]}
  BY <1>1, StopIs
<1>3. /\ f \in Sound /\ f \in Eventful /\ f \notin Unbuilt
      /\ f.who = Top.who /\ f.phase = Top.phase /\ f.at = Top.at - 1
      /\ f.allow = Top.allow /\ f.checked = Top.checked
  BY Falls
<1>4. /\ passes \in Nat /\ passes' = passes /\ event' = event /\ context' = context
      /\ overlapped' = overlapped
  BY DEF LInv, LTyped, BuildTyped, history
<1>5. f \in Sound' /\ f \in Eventful'
  BY <1>3, <1>4, BelowStays DEF LInv, LTyped
<1>6. StackTyped' /\ GiveUp' /\ OneAtATime' /\ Top' = f
  <2>1. Top.phase \notin Asking /\ passes' >= passes
    BY <1>4 DEF Asking
  <2>. QED
    BY <1>3, <1>4, <1>5, <2>1, GoesOn
<1>7. BuildTyped' /\ ThreadsTyped' /\ DatabasesTyped' /\ HistoryTyped'
  BY <1>2 DEF LInv, LTyped, BuildTyped, ThreadsTyped, DatabasesTyped, HistoryTyped, database,
              history
<1>8. RequestsTyped' /\ Requested'
  BY NoQuiet, RestIsMain
<1>9. OnCourse'
  BY <1>3, <1>6 DEF OnCourse, AtRest, Running
<1>10. Reachable'
  <2>. SUFFICES ASSUME overlapped = "no" PROVE Single' /\ (f.phase = "stop" => f.at \in OfThese')
    BY <1>3, <1>4, <1>6 DEF Reachable
  <2>1. Single /\ (Top.phase = "stop" => Top.at \in OfThese)
    BY DEF LInv, Reachable
  <2>2. Single'
    BY <1>2, <1>4, <2>1 DEF Single
  <2>3. Top.at - 1 \in 0..N
    BY Constants
  <2>4. ASSUME Top.phase = "stop", NEW t \in threads' PROVE t.by \in Earlier(Top.at - 1)
    <3>1. t \in threads /\ t.event = event[t.by] /\ (t.by # s \/ t.event # event[s])
      BY <1>2, <2>1 DEF Single
    <3>2. t.by \in Earlier(Top.at)
      BY <2>1, <2>4, <3>1 DEF OfThese
    <3>. QED
      BY <1>1, <3>1, <3>2
  <2>. QED
    BY <1>3, <2>2, <2>3, <2>4 DEF OfThese
<1>11. Compared'
  <2>1. Compared
    BY DEF LInv
  <2>. QED
    BY <1>3, <1>4, <1>6, <2>1 DEF Compared, Calm, database
<1>. QED
  BY <1>6, <1>7, <1>8, <1>9, <1>10, <1>11 DEF LInv, LTyped

\* stop_all at a service, or at the end: the process ends, the reload goes on.
LEMMA StopOneKeeps == LInv /\ StopOne => LInv'
<1>. SUFFICES ASSUME LInv, StopOne PROVE LInv'
  OBVIOUS
<1>1. /\ Top.phase = "stop"
      /\ UNCHANGED <<context, made, passes, event, events, database, shutdown, history>>
  BY DEF StopOne, Running
<1>2. Top \in Frames /\ Top \in Sound /\ Top \in Eventful
  BY TopIs DEF LInv, LTyped
<1>3. Top.at \in 0..N /\ N \in Nat
  BY <1>1, <1>2, Constants DEF Sound
<1>4. CASE Top.at # 0
  <2>. DEFINE f == [Top EXCEPT !.at = @ - 1]
  <2>1. Stop(Order[Top.at]) /\ Goto(f) /\ req' = req
    BY <1>4 DEF StopOne, Current
  <2>2. Top.at \in 1..N
    BY <1>3, <1>4
  <2>3. f \in Frames
    BY <1>1, <2>2, Falls
  <2>. HIDE DEF f
  <2>4. f = [Top EXCEPT !.at = @ - 1]
    BY DEF f
  <2>. QED
    BY <1>1, <2>1, <2>2, <2>3, <2>4, StopStep
<1>5. CASE Top.at = 0 /\ Top.who = "main"
  <2>1. Exit /\ UNCHANGED told
    BY <1>5 DEF StopOne
  <2>2. HistoryTyped'
    BY <1>1 DEF LInv, LTyped, HistoryTyped, history
  <2>. QED
    BY <1>1, <2>1, <2>2, ExitKeeps
<1>6. CASE Top.at = 0 /\ Top.who # "main"
  <2>. DEFINE f == [Top EXCEPT !.phase = "reset"]
  <2>1. Goto(f) /\ UNCHANGED <<open, threads, req, told>>
    BY <1>6 DEF StopOne
  <2>2. /\ f \in Frames /\ f.who = Top.who /\ f.phase = "reset" /\ f.pass = Top.pass
        /\ f.allow = Top.allow /\ f.checked = Top.checked /\ f.reading = Top.reading
    BY <1>2 DEF Frames, Phases
  <2>. HIDE DEF f
  <2>3. f \in Sound /\ f \in Eventful /\ f \notin Unbuilt
    BY <1>1, <1>2, <2>2 DEF Sound, Eventful, Unbuilt
  <2>4. /\ passes \in Nat /\ passes' = passes /\ event' = event /\ context' = context
        /\ overlapped' = overlapped /\ passes' >= passes /\ Top.phase \notin Asking
    BY <1>1 DEF LInv, LTyped, BuildTyped, history, Asking
  <2>5. f \in Sound' /\ f \in Eventful'
    BY <2>3, <2>4, BelowStays DEF LInv, LTyped
  <2>6. StackTyped' /\ GiveUp' /\ OneAtATime' /\ Top' = f
    BY <2>1, <2>2, <2>3, <2>4, <2>5, GoesOn
  <2>7. BuildTyped' /\ ThreadsTyped' /\ DatabasesTyped' /\ HistoryTyped'
    BY <1>1, <2>1 DEF LInv, LTyped, BuildTyped, ThreadsTyped, DatabasesTyped, HistoryTyped,
                      database, history
  <2>8. RequestsTyped' /\ Requested'
    BY <1>1, <2>1, NoQuiet, RestIsMain
  <2>9. OnCourse'
    BY <2>2, <2>6 DEF OnCourse, AtRest, Running
  <2>10. Reachable'
    <3>. SUFFICES ASSUME overlapped = "no" PROVE Single' /\ threads = {}
      BY <2>1, <2>2, <2>4, <2>6 DEF Reachable
    <3>1. Single /\ 0 \in OfThese
      BY <1>1, <1>6 DEF LInv, Reachable
    <3>2. Single'
      BY <2>1, <2>4, <3>1 DEF Single
    <3>. QED
      BY <3>1, <3>2, BeforeIs DEF OfThese
  <2>11. Compared'
    <3>1. Compared
      BY DEF LInv
    <3>. QED
      BY <1>1, <1>6, <2>2, <2>4, <2>6, <3>1 DEF Compared, Calm, database
  <2>. QED
    BY <2>6, <2>7, <2>8, <2>9, <2>10, <2>11 DEF LInv, LTyped
<1>. QED
  BY <1>4, <1>5, <1>6

LEMMA UndoOneKeeps == LInv /\ UndoOne => LInv'
<1>. SUFFICES ASSUME LInv, UndoOne PROVE LInv'
  OBVIOUS
<1>1. /\ Top.phase = "undo"
      /\ UNCHANGED <<context, made, passes, event, events, database, shutdown, overlapped,
                     signals, failures>>
  BY DEF UndoOne, Running
<1>2. Top \in Frames /\ Top \in Sound
  BY TopIs DEF LInv, LTyped
<1>3. Top.at \in 0..N /\ N \in Nat /\ Top.why \in Services
  BY <1>1, <1>2, Constants DEF Sound
<1>4. CASE Top.at # 0
  <2>. DEFINE f == [Top EXCEPT !.at = @ - 1]
  <2>1. Stop(Order[Top.at]) /\ Goto(f) /\ UNCHANGED <<req, failed>>
    BY <1>4 DEF UndoOne, Current
  <2>2. Top.at \in 1..N
    BY <1>3, <1>4
  <2>3. f \in Frames
    BY <1>1, <2>2, Falls
  <2>. HIDE DEF f
  <2>4. f = [Top EXCEPT !.at = @ - 1]
    BY DEF f
  <2>5. UNCHANGED history
    BY <1>1, <2>1 DEF history
  <2>. QED
    BY <1>1, <2>1, <2>2, <2>3, <2>4, <2>5, StopStep
<1>5. CASE Top.at = 0
  <2>1. Raise(Top.why) /\ told' = told
    BY <1>5 DEF UndoOne
  <2>2. failures' \in 0..MaxFailures
    BY <1>1 DEF LInv, LTyped, HistoryTyped
  <2>. QED
    BY <1>1, <1>3, <2>1, <2>2, RaiseKeeps
<1>. QED
  BY <1>4, <1>5

-----------------------------------------------------------------------------
(* Initialising *)

LEMMA ResetKeeps == LInv /\ Reset => LInv'
<1>. SUFFICES ASSUME LInv, Reset PROVE LInv'
  OBVIOUS
<1>. DEFINE f == [Top EXCEPT !.phase = "init", !.at = 1, !.pass = passes + 1]
<1>1. /\ Top.phase = "reset" /\ context' = {} /\ passes' = passes + 1 /\ Goto(f)
      /\ UNCHANGED <<made, open, event, told, events, threads, database, shutdown, req, history>>
  BY DEF Reset, Running
<1>2. Top \in Frames /\ Top \in Sound
  BY TopIs DEF LInv, LTyped
<1>3. passes \in Nat /\ passes' \in Nat /\ passes' >= passes /\ N \in Nat /\ 1 \in 1..N
  <2>1. "database" \in Earlier(N) /\ Earlier(0) = {}
    BY BeforeIs, Constants
  <2>2. passes \in Nat /\ N \in Nat
    BY Constants DEF LInv, LTyped, BuildTyped
  <2>3. N # 0
    BY <2>1
  <2>. QED
    BY <1>1, <2>2, <2>3
<1>4. /\ f \in Frames /\ f.who = Top.who /\ f.phase = "init" /\ f.at = 1 /\ f.pass = passes + 1
      /\ f.allow = Top.allow /\ f.checked = Top.checked /\ f.reading = Top.reading
  <2>1. passes + 1 \in Nat /\ 1 \in 0..N + 1 /\ "init" \in Phases
    BY <1>3 DEF Phases
  <2>. QED
    BY <1>2, <2>1 DEF Frames
<1>5. ~f.reading
  BY <1>1, <1>2, <1>4 DEF Sound
<1>. HIDE DEF f
<1>6. f \in Sound' /\ f \in Eventful'
  <2>1. f \in Sound'
    BY <1>1, <1>3, <1>4, <1>5 DEF Sound
  <2>2. Earlier(f.at - 1) = {}
    BY <1>4, BeforeIs
  <2>. QED
    BY <1>4, <2>1, <2>2 DEF Eventful
<1>7. StackTyped' /\ GiveUp' /\ OneAtATime' /\ Top' = f
  <2>1. Top.phase \notin Asking /\ overlapped' = overlapped /\ event' = event
    BY <1>1 DEF Asking, history
  <2>. QED
    BY <1>1, <1>3, <1>4, <1>6, <2>1, GoesOn
<1>8. BuildTyped' /\ ThreadsTyped' /\ DatabasesTyped' /\ HistoryTyped'
  <2>1. BuildTyped'
    <3>1. 1..passes \subseteq 1..passes'
      BY <1>1, <1>3
    <3>2. open' \subseteq 1..passes'
      BY <1>1, <3>1 DEF LInv, LTyped, BuildTyped
    <3>3. made' \in [Services -> Reads] /\ \A s \in Services : made'[s].pass <= passes'
      <4>1. \A s \in Services : made[s].pass \in Nat /\ made[s].pass <= passes
        BY DEF LInv, LTyped, BuildTyped, Reads
      <4>. QED
        BY <1>1, <1>3, <4>1 DEF LInv, LTyped, BuildTyped
    <3>. QED
      BY <1>1, <1>3, <3>2, <3>3 DEF BuildTyped
  <2>2. ThreadsTyped'
    <3>1. 1..passes \subseteq 1..passes'
      BY <1>1, <1>3
    <3>. QED
      BY <1>1, <1>3, <3>1 DEF LInv, LTyped, ThreadsTyped
  <2>. QED
    BY <1>1, <2>1, <2>2 DEF LInv, LTyped, DatabasesTyped, HistoryTyped, database, history
<1>9. RequestsTyped' /\ Requested'
  BY <1>1, NoQuiet, RestIsMain
<1>10. 0 \in Built'
  BY <1>1, <1>3, BeforeIs DEF Built
<1>11. OnCourse'
  <2>1. f \in Fresh'
    BY <1>1, <1>4, <1>5 DEF Fresh
  <2>. QED
    BY <1>4, <1>7, <1>10, <2>1 DEF OnCourse, AtRest, Running
<1>12. Reachable'
  BY <1>1, <1>4, <1>7 DEF LInv, Reachable, Single, history
<1>13. Compared'
  <2>1. Compared
    BY DEF LInv
  <2>. QED
    BY <1>1, <1>4, <1>7, <2>1 DEF Compared, Calm, database, history
<1>. QED
  BY <1>7, <1>8, <1>9, <1>11, <1>12, <1>13 DEF LInv, LTyped

\* The services that have been built begin to be undone.
LEMMA Undoes ==
    ASSUME LInv, NEW f \in Frames, Goto(f), Top.phase \in {"init", "start"},
           f.phase = "undo", f.at = Top.at - 1, f.who = Top.who, f.pass = Top.pass,
           ~f.reading, f.why \in Services,
           UNCHANGED <<context, made, passes, open, database, req, overlapped, failed, signals>>,
           failures' \in 0..MaxFailures, ThreadsTyped',
           "background" \in Services => (event["background"] # 0 => event'["background"] # 0),
           overlapped = "no" => Single'
    PROVE  LInv'
<1>1. passes \in Nat /\ passes' = passes /\ N \in Nat
  BY Constants DEF LInv, LTyped, BuildTyped
<1>2. Top \in Sound
  BY TopIs DEF LInv, LTyped
<1>3. Top.at \in 1..N /\ Top.pass <= passes
  BY <1>2 DEF Sound
<1>4. f.at \in 0..N
  BY <1>1, <1>3
<1>5. f \in Sound' /\ f \in Eventful' /\ f \notin Unbuilt
  BY <1>1, <1>3, <1>4 DEF Sound, Eventful, Unbuilt
<1>6. StackTyped' /\ GiveUp' /\ OneAtATime' /\ Top' = f
  <2>1. Top.phase \notin Asking /\ passes' >= passes
    BY <1>1 DEF Asking
  <2>. QED
    BY <1>1, <1>5, <2>1, GoesOn
<1>7. BuildTyped' /\ DatabasesTyped' /\ HistoryTyped'
  BY DEF LInv, LTyped, BuildTyped, DatabasesTyped, HistoryTyped, database
<1>8. RequestsTyped' /\ Requested'
  BY NoQuiet, RestIsMain
<1>9. OnCourse'
  BY <1>6 DEF OnCourse, AtRest, Running
<1>10. Reachable'
  BY <1>6 DEF Reachable
<1>11. Compared'
  <2>1. Compared
    BY DEF LInv
  <2>. QED
    BY <1>6, <2>1 DEF Compared, database
<1>. QED
  BY <1>6, <1>7, <1>8, <1>9, <1>10, <1>11 DEF LInv, LTyped

\* The frame with which they do.
LEMMA UndoFrame ==
    ASSUME LInv, Top.phase \in {"init", "start"}
    PROVE  /\ Current \in Services /\ Top.at \in 1..N /\ Top \in Frames
           /\ LET f == [Top EXCEPT !.phase = "undo", !.at = @ - 1, !.why = Current]
              IN /\ f \in Frames /\ f.phase = "undo" /\ f.at = Top.at - 1 /\ f.who = Top.who
                 /\ f.pass = Top.pass /\ f.reading = Top.reading /\ f.why \in Services
           /\ LET f == [Top EXCEPT !.phase = "undo", !.at = @ - 1, !.why = Current,
                                   !.reading = FALSE]
              IN /\ f \in Frames /\ f.phase = "undo" /\ f.at = Top.at - 1 /\ f.who = Top.who
                 /\ f.pass = Top.pass /\ ~f.reading /\ f.why \in Services
<1>1. Top \in Frames /\ Top \in Sound /\ N \in Nat
  BY TopIs, Constants DEF LInv, LTyped
<1>2. Top.at \in 1..N
  BY <1>1 DEF Sound
<1>3. Current \in Services /\ Top.at - 1 \in 0..N + 1 /\ "undo" \in Phases
  BY <1>1, <1>2, BeforeIs DEF Current, Phases
<1>. QED
  BY <1>1, <1>2, <1>3 DEF Frames

LEMMA InitReadKeeps == LInv /\ InitRead => LInv'
<1>. SUFFICES ASSUME LInv, InitRead PROVE LInv'
  OBVIOUS
<1>1. /\ Top.phase = "init" /\ ~Top.reading
      /\ UNCHANGED <<context, made, passes, open, event, told, events, threads, database,
                     shutdown, req, history>>
  BY DEF InitRead, Running
<1>2. Top \in Frames /\ Top \in Sound /\ Top \in Eventful /\ N \in Nat
  BY TopIs, Constants DEF LInv, LTyped
<1>3. Top.at \in 1..N /\ Top.pass \in 1..passes
  BY <1>1, <1>2 DEF Sound
<1>4. CASE ~(Deps[Current] \subseteq context)
  <2>. DEFINE f == [Top EXCEPT !.phase = "undo", !.at = @ - 1, !.why = Current]
  <2>1. Goto(f)
    BY <1>4 DEF InitRead, Undo
  <2>2. /\ f \in Frames /\ f.phase = "undo" /\ f.at = Top.at - 1 /\ f.who = Top.who
        /\ f.pass = Top.pass /\ ~f.reading /\ f.why \in Services
    BY <1>1, UndoFrame
  <2>. HIDE DEF f
  <2>3. ThreadsTyped' /\ failures' \in 0..MaxFailures /\ event' = event
        /\ UNCHANGED <<overlapped, failed, signals>>
    BY <1>1 DEF LInv, LTyped, ThreadsTyped, HistoryTyped, history
  <2>4. overlapped = "no" => Single'
    BY <1>1 DEF LInv, Reachable, Single
  <2>. QED
    BY <1>1, <2>1, <2>2, <2>3, <2>4, Undoes
<1>5. CASE Deps[Current] \subseteq context
  <2>. DEFINE s == Current
              from == [d \in Deps[s] |-> made[d].pass]
              reads == [pass |-> Top.pass, from |-> from]
              f == [Top EXCEPT !.reading = TRUE, !.seen = named, !.reads = reads]
  <2>1. Goto(f)
    BY <1>5 DEF InitRead
  <2>2. s \in Services /\ s = Order[Top.at] /\ Deps[s] \subseteq Services
        /\ Deps[s] \subseteq Earlier(Top.at - 1)
    BY <1>3, BeforeIs, Constants DEF Current
  <2>. HIDE DEF s
  <2>3. from \in [Deps[s] -> 0..passes] /\ \A d \in Deps[s] : from[d] = made[d].pass
    <3>1. \A d \in Services : made[d].pass \in 0..passes
      BY DEF LInv, LTyped, BuildTyped, Reads
    <3>. QED
      BY <2>2, <3>1
  <2>. HIDE DEF from
  <2>4. reads \in Reads
    <3>1. from \in [Deps[s] -> Nat]
      <4>1. 0..passes \subseteq Nat
        OBVIOUS
      <4>. QED
        BY <2>3, <4>1
    <3>2. from \in UNION {[D -> Nat] : D \in SUBSET Services}
      BY <2>2, <3>1
    <3>3. Top.pass \in Nat
      BY <1>2 DEF Frames
    <3>. QED
      BY <3>2, <3>3 DEF Reads
  <2>5. reads.pass = Top.pass /\ reads.from = from
    OBVIOUS
  <2>. HIDE DEF reads
  <2>6. /\ f \in Frames /\ f.who = Top.who /\ f.phase = "init" /\ f.at = Top.at
        /\ f.pass = Top.pass /\ f.allow = Top.allow /\ f.checked = Top.checked
        /\ f.reading /\ f.seen = named /\ f.reads = reads
    <3>1. named \in Databases
      BY DEF LInv, LTyped, DatabasesTyped
    <3>. QED
      BY <1>1, <1>2, <2>4, <3>1 DEF Frames
  <2>. HIDE DEF f
  <2>7. f \in Sound /\ f \in Eventful
    <3>1. f \in Sound
      BY <1>3, <2>2, <2>3, <2>5, <2>6 DEF Sound, LInv, LTyped, BuildTyped, DatabasesTyped
    <3>. QED
      BY <1>1, <1>2, <2>6, <3>1 DEF Eventful
  <2>8. /\ passes \in Nat /\ passes' = passes /\ event' = event /\ context' = context
        /\ overlapped' = overlapped /\ passes' >= passes /\ Top.phase \notin Asking
    BY <1>1 DEF LInv, LTyped, BuildTyped, history, Asking
  <2>9. f \in Sound' /\ f \in Eventful'
    BY <2>7, <2>8, BelowStays DEF LInv, LTyped
  <2>10. f \in Unbuilt => "config" \notin context'
    <3>1. ASSUME f \in Unbuilt PROVE "config" \notin context
      <4>1. Top \in Unbuilt
        BY <1>1, <1>2, <2>6, <3>1 DEF Unbuilt
      <4>2. Len(stack) \in 1..Len(stack) /\ Top = stack[Len(stack)]
        BY TopIs DEF LInv, LTyped
      <4>. QED
        BY <4>1, <4>2 DEF LInv, GiveUp
    <3>. QED
      BY <2>8, <3>1
  <2>11. StackTyped' /\ GiveUp' /\ OneAtATime' /\ Top' = f
    BY <2>1, <2>6, <2>8, <2>9, <2>10, GoesOn
  <2>12. BuildTyped' /\ ThreadsTyped' /\ DatabasesTyped' /\ HistoryTyped'
    BY <1>1 DEF LInv, LTyped, BuildTyped, ThreadsTyped, DatabasesTyped, HistoryTyped,
                database, history
  <2>13. RequestsTyped' /\ Requested'
    BY <1>1, NoQuiet, RestIsMain
  <2>14. OnCourse'
    <3>. SUFFICES ASSUME Calm PROVE f \in Fresh' /\ f.at - 1 \in Built'
      BY <2>6, <2>8, <2>11 DEF OnCourse, AtRest, Running, Calm
    <3>1. Top \in Fresh /\ Top.at - 1 \in Built
      BY <1>1 DEF LInv, OnCourse
    <3>2. \A d \in Deps[s] : from[d] = passes
      BY <2>2, <2>3, <3>1 DEF Built
    <3>3. f \in Fresh'
      BY <2>2, <2>5, <2>6, <2>8, <3>1, <3>2 DEF Fresh
    <3>4. Built' = Built
      BY <1>1 DEF Built
    <3>. QED
      BY <2>6, <3>1, <3>3, <3>4
  <2>15. Reachable'
    BY <1>1, <2>6, <2>8, <2>11 DEF LInv, Reachable, Single
  <2>16. Compared'
    <3>1. Compared
      BY DEF LInv
    <3>. QED
      BY <1>1, <2>6, <2>8, <2>11, <3>1 DEF Compared, Calm, database
  <2>. QED
    BY <2>11, <2>12, <2>13, <2>14, <2>15, <2>16 DEF LInv, LTyped
<1>. QED
  BY <1>4, <1>5

LEMMA InitFailsKeeps == LInv /\ InitFails => LInv'
<1>. SUFFICES ASSUME LInv, InitFails PROVE LInv'
  OBVIOUS
<1>. DEFINE f == [Top EXCEPT !.phase = "undo", !.at = @ - 1, !.why = Current, !.reading = FALSE]
<1>1. /\ Top.phase = "init" /\ Goto(f) /\ Fails
      /\ UNCHANGED <<context, made, passes, open, event, told, events, threads, database,
                     shutdown, req, overlapped, failed, signals>>
  BY DEF InitFails, Running
<1>2. /\ f \in Frames /\ f.phase = "undo" /\ f.at = Top.at - 1 /\ f.who = Top.who
      /\ f.pass = Top.pass /\ ~f.reading /\ f.why \in Services
  BY <1>1, UndoFrame
<1>. HIDE DEF f
<1>3. ThreadsTyped' /\ failures' \in 0..MaxFailures /\ event' = event
  BY <1>1, Constants DEF LInv, LTyped, ThreadsTyped, HistoryTyped, Fails
<1>4. overlapped = "no" => Single'
  BY <1>1 DEF LInv, Reachable, Single
<1>. QED
  BY <1>1, <1>2, <1>3, <1>4, Undoes

\* A new stop event of a service that starts threads.
LEMMA NewEventIs ==
    ASSUME LInv, NEW s \in Threaded, NewEvent(s)
    PROVE  /\ events' \in Nat /\ events' >= events /\ event'[s] = events' /\ event'[s] # 0
           /\ event' \in [Services -> 0..events']
           /\ \A u \in Services : u # s => event'[u] = event[u]
           /\ \A u \in Services : u \notin Threaded => event'[u] = 0
           /\ told' \subseteq Threaded /\ told' \subseteq told /\ s \notin told'
<1>1. /\ events \in Nat /\ event \in [Services -> 0..events] /\ s \in Services
      /\ \A u \in Services : u \notin Threaded => event[u] = 0
      /\ told \subseteq Threaded
  BY Constants DEF LInv, LTyped, ThreadsTyped
<1>2. /\ events' = events + 1 /\ event' = [event EXCEPT ![s] = events + 1] /\ told' = told \ {s}
  BY DEF NewEvent
<1>. QED
  BY <1>1, <1>2

LEMMA InitStoreKeeps == LInv /\ InitStore => LInv'
<1>. SUFFICES ASSUME LInv, InitStore PROVE LInv'
  OBVIOUS
<1>. DEFINE s == Order[Top.at]
            last == Top.at = N
            f == [Top EXCEPT !.reading = FALSE, !.phase = IF last THEN "start" ELSE "init",
                             !.at = IF last THEN 1 ELSE @ + 1]
<1>1. /\ Top.phase = "init" /\ Top.reading
      /\ made' = [made EXCEPT ![s] = Top.reads]
      /\ context' = context \cup {s}
      /\ open' = IF s = "database" THEN open \cup {Top.pass} ELSE open
      /\ connected' = IF s = "database" THEN Top.seen ELSE connected
      /\ configured' = IF s = "config" THEN connected ELSE configured
      /\ IF s = "background" THEN NewEvent(s) ELSE UNCHANGED <<event, events, told>>
      /\ Goto(f)
      /\ UNCHANGED <<passes, threads, named, permit, shutdown, req, history>>
  BY DEF InitStore, Running, Current
<1>2. Top \in Frames /\ Top \in Sound /\ Top \in Eventful /\ N \in Nat
  BY TopIs, Constants DEF LInv, LTyped
<1>3. /\ Top.at \in 1..N /\ Top.pass \in 1..passes /\ Top.reads.pass = Top.pass
      /\ Top.reads.from \in [Deps[s] -> 0..passes] /\ Top.seen \in Databases /\ Top.reads \in Reads
  BY <1>1, <1>2 DEF Sound, Frames
<1>4. /\ s \in Services /\ Earlier(Top.at) = Earlier(Top.at - 1) \cup {s}
      /\ s \notin Earlier(Top.at - 1) /\ Deps[s] \subseteq Earlier(Top.at - 1)
  BY <1>3, BeforeIs
<1>5. /\ f \in Frames /\ f.who = Top.who /\ f.pass = Top.pass
      /\ f.allow = Top.allow /\ f.checked = Top.checked /\ ~f.reading
      /\ last => f.phase = "start" /\ f.at = 1
      /\ ~last => f.phase = "init" /\ f.at = Top.at + 1
  <2>1. 1 \in 0..N + 1 /\ (Top.at + 1) \in 0..N + 1 /\ "start" \in Phases /\ "init" \in Phases
    BY <1>2, <1>3 DEF Phases
  <2>2. CASE last
    BY <1>2, <2>1, <2>2 DEF Frames
  <2>3. CASE ~last
    BY <1>2, <2>1, <2>3 DEF Frames
  <2>. QED
    BY <2>2, <2>3
<1>6. /\ last => f.at - 1 = 0 /\ f.at \in 1..N
      /\ ~last => f.at - 1 = Top.at /\ f.at \in 1..N
  BY <1>2, <1>3, <1>5
<1>. HIDE DEF f, s
<1>7. /\ passes \in Nat /\ passes' = passes /\ passes' >= passes /\ overlapped' = overlapped
      /\ events \in Nat /\ event \in [Services -> 0..events]
  BY <1>1 DEF LInv, LTyped, BuildTyped, ThreadsTyped, history
<1>8. ThreadsTyped'
      /\ ("background" \in Services => (event["background"] # 0 => event'["background"] # 0))
      /\ (s = "background" => event'["background"] # 0)
      /\ ("background" \notin told \/ s = "background" => "background" \notin told')
  <2>1. CASE s = "background"
    <3>1. s \in Threaded
      BY <1>4, <2>1, Constants
    <3>2. /\ events' \in Nat /\ events' >= events /\ event'[s] # 0
          /\ event' \in [Services -> 0..events']
          /\ \A u \in Services : u \notin Threaded => event'[u] = 0
          /\ told' \subseteq Threaded /\ s \notin told'
      BY <1>1, <2>1, <3>1, NewEventIs
    <3>3. threads' \subseteq [by : Threaded, event : 1..events', nr : 1..passes']
      <4>1. threads \subseteq [by : Threaded, event : 1..events, nr : 1..passes]
        BY DEF LInv, LTyped, ThreadsTyped
      <4>2. 1..events \subseteq 1..events'
        BY <1>7, <3>2
      <4>. QED
        BY <1>1, <1>7, <4>1, <4>2
    <3>. QED
      BY <1>7, <2>1, <3>2, <3>3 DEF ThreadsTyped
  <2>2. CASE s # "background"
    BY <1>1, <1>7, <2>2 DEF LInv, LTyped, ThreadsTyped
  <2>. QED
    BY <2>1, <2>2
<1>9. f \in Sound' /\ f \in Eventful'
  <2>1. f \in Sound'
    BY <1>3, <1>5, <1>6, <1>7 DEF Sound
  <2>2. "background" \in Earlier(Top.at) => event'["background"] # 0
    <3>1. "background" \in Earlier(Top.at - 1) => event["background"] # 0
      <4>1. Earlier(Top.at - 1) \subseteq Services
        BY <1>3, <1>4, BeforeIs
      <4>. QED
        BY <1>1, <1>2, <4>1 DEF Eventful
    <3>. QED
      BY <1>3, <1>4, <1>8, <3>1, BeforeIs
  <2>3. last => Earlier(Top.at) = Services
    BY BeforeIs
  <2>. QED
    BY <1>5, <1>6, <2>1, <2>2, <2>3 DEF Eventful
<1>10. "config" \notin Earlier(Top.at - 1) => "config" \notin context
  <2>1. Len(stack) \in 1..Len(stack) /\ Top = stack[Len(stack)]
    BY TopIs DEF LInv, LTyped
  <2>. QED
    BY <1>1, <1>2, <2>1 DEF LInv, GiveUp, Unbuilt
<1>11. f \in Unbuilt => "config" \notin context'
  <2>1. ASSUME f \in Unbuilt PROVE "config" \notin Earlier(Top.at)
    BY <1>5, <1>6, <2>1 DEF Unbuilt
  <2>. QED
    BY <1>1, <1>4, <1>10, <2>1
<1>12. StackTyped' /\ GiveUp' /\ OneAtATime' /\ Top' = f
  <2>1. Top.phase \notin Asking
    BY <1>1 DEF Asking
  <2>. QED
    BY <1>1, <1>5, <1>7, <1>8, <1>9, <1>11, <2>1, GoesOn
<1>13. made'[s] = Top.reads /\ \A u \in Services : u # s => made'[u] = made[u]
  BY <1>1, <1>4 DEF LInv, LTyped, BuildTyped
<1>14. BuildTyped'
  <2>1. /\ context \subseteq Services /\ made \in [Services -> Reads] /\ open \subseteq 1..passes
        /\ \A u \in Services : made[u].pass <= passes
        /\ \A u \in context : made[u].from \in [Deps[u] -> 0..passes]
    BY DEF LInv, LTyped, BuildTyped
  <2>2. made' \in [Services -> Reads]
    BY <1>1, <1>3, <1>4, <2>1
  <2>3. \A u \in Services : made'[u].pass <= passes'
    BY <1>3, <1>7, <1>13, <2>1
  <2>4. \A u \in context' : made'[u].from \in [Deps[u] -> 0..passes']
    BY <1>1, <1>3, <1>7, <1>13, <2>1
  <2>5. open' \subseteq 1..passes'
    BY <1>1, <1>3, <1>7, <2>1
  <2>. QED
    BY <1>1, <1>4, <1>7, <2>1, <2>2, <2>3, <2>4, <2>5 DEF BuildTyped
<1>15. DatabasesTyped' /\ HistoryTyped'
  BY <1>1, <1>3 DEF LInv, LTyped, DatabasesTyped, HistoryTyped, history
<1>16. RequestsTyped' /\ Requested'
  BY <1>1, NoQuiet, RestIsMain
<1>17. ASSUME Calm PROVE Top.at \in Built' /\ Top.pass = passes
  <2>1. Top \in Fresh /\ Top.at - 1 \in Built
    BY <1>1, <1>17 DEF LInv, OnCourse
  <2>2. Top.pass = passes /\ \A d \in Deps[s] : Top.reads.from[d] = passes
    BY <1>1, <2>1 DEF Fresh, s
  <2>3. context' = Earlier(Top.at) /\ Earlier(Top.at - 1) \subseteq Services
    BY <1>1, <1>4, <2>1 DEF Built, LInv, LTyped, BuildTyped
  <2>4. \A u \in Earlier(Top.at) :
            made'[u].pass = passes /\ \A d \in Deps[u] : made'[u].from[d] = passes
    BY <1>3, <1>4, <1>13, <2>1, <2>2, <2>3 DEF Built
  <2>5. "database" \in Earlier(Top.at) => passes \in open'
    BY <1>1, <1>4, <2>1, <2>2 DEF Built
  <2>6. "background" \in Earlier(Top.at) => "background" \notin told'
    BY <1>4, <1>8, <2>1 DEF Built
  <2>7. Top.at \in 0..N
    BY <1>3
  <2>. QED
    BY <1>7, <2>2, <2>3, <2>4, <2>5, <2>6, <2>7 DEF Built
<1>18. OnCourse'
  <2>. SUFFICES ASSUME Calm
                PROVE  /\ ~last => f \in Fresh' /\ f.at - 1 \in Built'
                       /\ last => N \in Built' /\ f.at - 1 \in Runs'
    BY <1>5, <1>7, <1>12 DEF OnCourse, AtRest, Running, Calm
  <2>1. ~last => f \in Fresh' /\ f.at - 1 \in Built'
    BY <1>5, <1>6, <1>7, <1>17 DEF Fresh
  <2>2. 0 \in Runs'
    BY <1>2, BeforeIs DEF Runs
  <2>. QED
    BY <1>6, <1>17, <2>1, <2>2
<1>19. Reachable'
  <2>. SUFFICES ASSUME overlapped = "no" PROVE Single' /\ threads' = {} /\ 0 \in OfThese'
    BY <1>5, <1>6, <1>7, <1>12 DEF Reachable
  <2>1. threads' = {}
    BY <1>1 DEF LInv, Reachable
  <2>. QED
    BY <1>2, <2>1 DEF Single, OfThese
<1>20. Compared'
  <2>1. Compared
    BY DEF LInv
  <2>2. "config" \in context' => configured' = connected'
    <3>1. CASE s = "config"
      BY <1>1, <3>1
    <3>2. CASE s = "database"
      <4>1. "config" \notin Earlier(Top.at - 1)
        <5>. SUFFICES ASSUME NEW j \in 1..(Top.at - 1), Order[j] = "config" PROVE FALSE
          BY DEF Earlier
        <5>1. j \in 1..N /\ \A i \in 1..(j - 1) : i \in 1..(Top.at - 1)
          BY <1>2, <1>3
        <5>2. "database" \in Earlier(j - 1)
          BY <5>1, Constants, BeforeIs
        <5>3. "database" \in Earlier(Top.at - 1)
          BY <5>1, <5>2 DEF Earlier
        <5>. QED
          BY <1>4, <3>2, <5>3
      <4>. QED
        BY <1>1, <1>10, <3>2, <4>1
    <3>3. CASE s # "config" /\ s # "database"
      BY <1>1, <2>1, <3>3 DEF Compared
    <3>. QED
      BY <3>1, <3>2, <3>3
  <2>3. "database" \notin Earlier(Top.at) =>
            "database" \notin Earlier(Top.at - 1) /\ connected' = connected
    BY <1>1, <1>4
  <2>4. Calm' <=> Calm
    BY <1>7 DEF Calm
  <2>. QED
    BY <1>1, <1>5, <1>6, <1>12, <2>1, <2>2, <2>3, <2>4 DEF Compared
<1>. QED
  BY <1>8, <1>12, <1>14, <1>15, <1>16, <1>18, <1>19, <1>20 DEF LInv, LTyped

-----------------------------------------------------------------------------
(* Starting *)

\* What start() of the running activation's service leaves.
LEMMA StartThreadsIs ==
    ASSUME LInv, Top.phase = "start", StartThreads(Current), passes' = passes
    PROVE  /\ ThreadsTyped'
           /\ "background" \in Services => (event["background"] # 0 => event'["background"] # 0)
           /\ \A u \in Services : u # Current => event'[u] = event[u]
           /\ threads \subseteq threads' /\ told' \subseteq told
           /\ \A t \in threads' :
                t \in threads \/ t = [by |-> Current, event |-> event'[Current], nr |-> Top.pass]
           /\ Current \in Threaded /\ ("background" \notin told \/ Current # "background") =>
                \E t \in threads' : t.by = Current /\ t.event = event'[Current]
<1>. DEFINE s == Current
            t == [by |-> s, event |-> event'[s], nr |-> Top.pass]
<1>1. Top \in Frames /\ Top \in Sound /\ Top \in Eventful
  BY TopIs DEF LInv, LTyped
<1>2. Top.at \in 1..N /\ Top.pass \in 1..passes
  BY <1>1 DEF Sound
<1>3. s \in Services
  BY <1>2, BeforeIs DEF Current
<1>4. /\ passes \in Nat /\ events \in Nat /\ event \in [Services -> 0..events]
      /\ \A u \in Services : u \notin Threaded => event[u] = 0
      /\ told \subseteq Threaded
      /\ threads \subseteq [by : Threaded, event : 1..events, nr : 1..passes]
  BY DEF LInv, LTyped, ThreadsTyped
<1>5. s = "background" => event[s] # 0
  BY <1>1, <1>3 DEF Eventful
<1>6. CASE s \notin Threaded
  <2>1. UNCHANGED <<event, events, told, threads>>
    BY <1>6 DEF StartThreads
  <2>. QED
    BY <1>4, <1>6, <2>1 DEF ThreadsTyped
<1>7. CASE s \in Threaded
  <2>1. /\ IF s = "background" THEN UNCHANGED <<event, events, told>> ELSE NewEvent(s)
        /\ threads' = IF s \in told' THEN threads ELSE threads \cup {t}
    BY <1>7 DEF StartThreads
  <2>2. /\ events' \in Nat /\ events' >= events /\ event'[s] \in 1..events'
        /\ event' \in [Services -> 0..events']
        /\ \A u \in Services : u # s => event'[u] = event[u]
        /\ \A u \in Services : u \notin Threaded => event'[u] = 0
        /\ told' \subseteq Threaded /\ told' \subseteq told
        /\ "background" \notin told \/ s # "background" => s \notin told'
    <3>1. CASE s = "background"
      BY <1>3, <1>4, <1>5, <2>1, <3>1
    <3>2. CASE s # "background"
      <4>1. NewEvent(s)
        BY <2>1, <3>2
      <4>2. /\ events' \in Nat /\ events' >= events /\ event'[s] = events' /\ event'[s] # 0
            /\ event' \in [Services -> 0..events']
            /\ \A u \in Services : u # s => event'[u] = event[u]
            /\ \A u \in Services : u \notin Threaded => event'[u] = 0
            /\ told' \subseteq Threaded /\ told' \subseteq told /\ s \notin told'
        BY <1>7, <4>1, NewEventIs
      <4>3. event'[s] \in 1..events'
        BY <4>2
      <4>. QED
        BY <4>2, <4>3
    <3>. QED
      BY <3>1, <3>2
  <2>. HIDE DEF s
  <2>3. t \in [by : Threaded, event : 1..events', nr : 1..passes']
    BY <1>2, <1>7, <2>2
  <2>4. threads \subseteq [by : Threaded, event : 1..events', nr : 1..passes']
    <3>1. 1..events \subseteq 1..events'
      BY <1>4, <2>2
    <3>. QED
      BY <1>4, <3>1
  <2>5. t.by = s /\ t.event = event'[s]
    OBVIOUS
  <2>. HIDE DEF t
  <2>6. threads' \subseteq [by : Threaded, event : 1..events', nr : 1..passes']
    BY <2>1, <2>3, <2>4
  <2>7. ThreadsTyped'
    BY <1>4, <2>2, <2>6 DEF ThreadsTyped
  <2>8. "background" \in Services => (event["background"] # 0 => event'["background"] # 0)
    BY <1>4, <2>2
  <2>. QED
    BY <2>1, <2>2, <2>5, <2>7, <2>8 DEF s, t
<1>. QED
  BY <1>6, <1>7

\* Starting a service of which no thread runs.
LEMMA StartsAlone ==
    ASSUME LInv, overlapped = "no", Top.phase = "start", passes' = passes,
           StartThreads(Current) \/ UNCHANGED <<event, events, told, threads>>
    PROVE  Single' /\ \A t \in threads' : t.by \in Earlier(Top.at)
<1>1. Top \in Sound /\ N \in Nat
  BY TopIs, Constants DEF LInv, LTyped
<1>2. Top.at \in 1..N
  BY <1>1 DEF Sound
<1>3. /\ Current \in Services /\ Earlier(Top.at) = Earlier(Top.at - 1) \cup {Current}
      /\ Current \notin Earlier(Top.at - 1)
  BY <1>2, BeforeIs DEF Current
<1>4. Single /\ \A t \in threads : t.by \in Earlier(Top.at - 1) /\ t.by \in Services
  BY Constants DEF LInv, LTyped, ThreadsTyped, Reachable, OfThese
<1>5. CASE StartThreads(Current)
  <2>. DEFINE new == [by |-> Current, event |-> event'[Current], nr |-> Top.pass]
  <2>1. /\ \A u \in Services : u # Current => event'[u] = event[u]
        /\ \A t \in threads' : t \in threads \/ t = new
    BY <1>5, StartThreadsIs
  <2>2. new.by = Current /\ new.event = event'[Current]
    OBVIOUS
  <2>. HIDE DEF new
  <2>3. \A t \in threads' : t.by \in Earlier(Top.at) /\ (t.by = Current <=> t = new)
    BY <1>3, <1>4, <2>1, <2>2
  <2>4. \A t \in threads' : t.event = event'[t.by]
    BY <1>3, <1>4, <2>1, <2>2 DEF Single
  <2>5. ASSUME NEW t \in threads', NEW u \in threads', u.by = t.by PROVE u = t
    <3>1. CASE t = new
      BY <2>3, <2>5, <3>1
    <3>2. CASE t # new
      <4>1. t \in threads /\ u \in threads
        BY <2>1, <2>3, <2>5, <3>2
      <4>. QED
        BY <1>4, <2>5, <4>1 DEF Single
    <3>. QED
      BY <3>1, <3>2
  <2>. QED
    BY <2>3, <2>4, <2>5 DEF Single
<1>6. CASE UNCHANGED <<event, events, told, threads>>
  BY <1>3, <1>4, <1>6 DEF Single
<1>. QED
  BY <1>5, <1>6

LEMMA StartOneKeeps == LInv /\ StartOne => LInv'
<1>. SUFFICES ASSUME LInv, StartOne PROVE LInv'
  OBVIOUS
<1>. DEFINE last == Top.at = N
            f == [Top EXCEPT !.phase = IF last THEN "tls" ELSE "start", !.at = @ + 1]
<1>1. /\ Top.phase = "start" /\ StartThreads(Current) /\ Goto(f)
      /\ UNCHANGED <<context, made, passes, open, database, shutdown, req, history>>
  BY DEF StartOne, Running
<1>2. Top \in Frames /\ Top \in Sound /\ Top \in Eventful /\ N \in Nat
  BY TopIs, Constants DEF LInv, LTyped
<1>3. Top.at \in 1..N /\ Top.pass \in 1..passes
  BY <1>1, <1>2 DEF Sound
<1>4. /\ f \in Frames /\ f.who = Top.who /\ f.pass = Top.pass /\ f.at = Top.at + 1
      /\ f.reading = Top.reading
      /\ last => f.phase = "tls"
      /\ ~last => f.phase = "start"
  <2>1. Top.at + 1 \in 0..N + 1 /\ "start" \in Phases /\ "tls" \in Phases
    BY <1>2, <1>3 DEF Phases
  <2>2. CASE last
    BY <1>2, <2>1, <2>2 DEF Frames
  <2>3. CASE ~last
    BY <1>2, <2>1, <2>3 DEF Frames
  <2>. QED
    BY <2>2, <2>3
<1>5. /\ ~last => f.at \in 1..N
      /\ f.at - 1 = Top.at
  BY <1>2, <1>3, <1>4
<1>. HIDE DEF f
<1>6. /\ passes \in Nat /\ passes' = passes /\ passes' >= passes /\ overlapped' = overlapped
      /\ context' = context /\ Top.phase \notin Asking
  BY <1>1 DEF LInv, LTyped, BuildTyped, history, Asking
<1>7. /\ ThreadsTyped'
      /\ "background" \in Services => (event["background"] # 0 => event'["background"] # 0)
      /\ \A u \in Services : u # Current => event'[u] = event[u]
      /\ threads \subseteq threads' /\ told' \subseteq told
      /\ Current \in Threaded /\ ("background" \notin told \/ Current # "background") =>
            \E t \in threads' : t.by = Current /\ t.event = event'[Current]
  BY <1>1, <1>6, StartThreadsIs
<1>8. f \in Sound' /\ f \in Eventful' /\ f \notin Unbuilt
  <2>1. f \in Sound'
    BY <1>1, <1>2, <1>3, <1>4, <1>5, <1>6 DEF Sound
  <2>. QED
    BY <1>1, <1>2, <1>4, <1>7, <2>1 DEF Eventful, Unbuilt
<1>9. StackTyped' /\ GiveUp' /\ OneAtATime' /\ Top' = f
  BY <1>1, <1>4, <1>6, <1>7, <1>8, GoesOn
<1>10. BuildTyped' /\ DatabasesTyped' /\ HistoryTyped'
  BY <1>1 DEF LInv, LTyped, BuildTyped, DatabasesTyped, HistoryTyped, database, history
<1>11. RequestsTyped' /\ Requested'
  BY <1>1, NoQuiet, RestIsMain
<1>12. ASSUME Calm PROVE N \in Built' /\ Top.at \in Runs'
  <2>1. N \in Built /\ Top.at - 1 \in Runs
    BY <1>1, <1>12 DEF LInv, OnCourse
  <2>2. N \in Built'
    BY <1>1, <1>7, <2>1 DEF Built
  <2>3. /\ Current \in Services /\ Earlier(Top.at) = Earlier(Top.at - 1) \cup {Current}
        /\ Earlier(Top.at) \subseteq Services /\ Current \notin Earlier(Top.at - 1)
    BY <1>3, BeforeIs DEF Current
  <2>4. Current = "background" => "background" \notin told
    BY <2>1, <2>3, BeforeIs DEF Built
  <2>5. ASSUME NEW u \in Earlier(Top.at) \cap Threaded
        PROVE  \E t \in threads' : t.by = u /\ t.event = event'[u]
    <3>1. CASE u = Current
      BY <1>7, <2>4, <3>1
    <3>2. CASE u # Current
      <4>1. u \in Earlier(Top.at - 1) \cap Threaded /\ event'[u] = event[u]
        BY <1>7, <2>3, <3>2
      <4>. QED
        BY <1>7, <2>1, <4>1 DEF Runs
    <3>. QED
      BY <3>1, <3>2
  <2>6. Top.at \in 0..N
    BY <1>3
  <2>. QED
    BY <2>2, <2>5, <2>6 DEF Runs
<1>13. OnCourse'
  <2>. SUFFICES ASSUME Calm
                PROVE  N \in Built' /\ f.at - 1 \in Runs' /\ (last => N \in Runs')
    BY <1>4, <1>6, <1>9 DEF OnCourse, AtRest, Running, Calm
  <2>. QED
    BY <1>5, <1>12
<1>14. Reachable'
  <2>. SUFFICES ASSUME overlapped = "no" PROVE Single' /\ Top.at \in OfThese'
    BY <1>4, <1>5, <1>6, <1>9 DEF Reachable
  <2>1. Single' /\ \A t \in threads' : t.by \in Earlier(Top.at)
    BY <1>1, <1>6, StartsAlone
  <2>. QED
    BY <1>3, <2>1 DEF OfThese
<1>15. Compared'
  <2>1. Compared
    BY DEF LInv
  <2>. QED
    BY <1>1, <1>4, <1>6, <1>9, <2>1 DEF Compared, Calm, database
<1>. QED
  BY <1>7, <1>9, <1>10, <1>11, <1>13, <1>14, <1>15 DEF LInv, LTyped

LEMMA StartFailsKeeps == LInv /\ StartFails => LInv'
<1>. SUFFICES ASSUME LInv, StartFails PROVE LInv'
  OBVIOUS
<1>. DEFINE f == [Top EXCEPT !.phase = "undo", !.at = @ - 1, !.why = Current]
<1>1. /\ Top.phase = "start" /\ Goto(f) /\ Fails
      /\ StartThreads(Current) \/ UNCHANGED <<event, events, told, threads>>
      /\ UNCHANGED <<context, made, passes, open, database, shutdown, req, overlapped, failed,
                     signals>>
  BY DEF StartFails, Running, Undo
<1>2. /\ f \in Frames /\ f.phase = "undo" /\ f.at = Top.at - 1 /\ f.who = Top.who
      /\ f.pass = Top.pass /\ f.reading = Top.reading /\ f.why \in Services
  BY <1>1, UndoFrame
<1>. HIDE DEF f
<1>3. ~Top.reading
  <2>1. Top \in Sound
    BY TopIs DEF LInv, LTyped
  <2>. QED
    BY <1>1, <2>1 DEF Sound
<1>4. failures' \in 0..MaxFailures
  BY <1>1, Constants DEF LInv, LTyped, HistoryTyped, Fails
<1>5. ThreadsTyped'
      /\ ("background" \in Services => (event["background"] # 0 => event'["background"] # 0))
  <2>1. CASE StartThreads(Current)
    BY <1>1, <2>1, StartThreadsIs
  <2>2. CASE UNCHANGED <<event, events, told, threads>>
    BY <1>1, <2>2 DEF LInv, LTyped, ThreadsTyped
  <2>. QED
    BY <1>1, <2>1, <2>2
<1>6. overlapped = "no" => Single'
  BY <1>1, StartsAlone
<1>. QED
  BY <1>1, <1>2, <1>3, <1>4, <1>5, <1>6, Undoes

\* A start or a reload has gone through.
LEMMA ConfigureTLSKeeps == LInv /\ ConfigureTLS => LInv'
<1>. SUFFICES ASSUME LInv, ConfigureTLS PROVE LInv'
  OBVIOUS
<1>1. /\ Top.phase = "tls"
      /\ UNCHANGED <<context, made, passes, event, told, events, database, shutdown,
                     overlapped, signals, failures>>
  BY DEF ConfigureTLS, Running
<1>2. CASE "config" \notin context
  <2>1. Raise("tls") /\ failures' \in 0..MaxFailures
    BY <1>1, <1>2 DEF ConfigureTLS, LInv, LTyped, HistoryTyped
  <2>. QED
    BY <1>1, <2>1, RaiseKeeps
<1>3. CASE "config" \in context
  <2>1. /\ IF Top.who = "main" THEN Goto(Frame("main", "serve")) ELSE Return
        /\ failed' = "nothing"
        /\ UNCHANGED <<threads, open, req>>
    BY <1>3 DEF ConfigureTLS
  <2>2. /\ passes \in Nat /\ passes' = passes /\ passes' >= passes /\ overlapped' = overlapped
        /\ context' = context /\ event' = event
    BY <1>1 DEF LInv, LTyped, BuildTyped
  <2>3. StackTyped' /\ GiveUp' /\ OneAtATime' /\ (Calm => Top'.phase = "serve")
    <3>1. CASE Top.who = "main"
      <4>. DEFINE f == Frame("main", "serve")
      <4>1. /\ f \in Frames /\ f.who = "main" /\ f.phase = "serve" /\ f.pass = 0
            /\ ~f.reading
        BY FrameIs DEF Phases
      <4>2. Goto(f)
        BY <2>1, <3>1
      <4>. HIDE DEF f
      <4>3. f \in Sound' /\ f \in Eventful' /\ f \notin Unbuilt
        BY <2>2, <4>1 DEF Sound, Eventful, Unbuilt
      <4>4. StackTyped' /\ GiveUp' /\ OneAtATime' /\ Top' = f
        BY <1>3, <2>2, <3>1, <4>1, <4>2, <4>3, GoesOn
      <4>. QED
        BY <4>1, <4>4
    <3>2. CASE Top.who # "main"
      <4>1. Top.who = "reload" /\ Return
        BY <2>1, <3>2, TopIs DEF LInv, LTyped, Frames
      <4>. QED
        BY <2>2, <4>1, GivesWay
    <3>. QED
      BY <3>1, <3>2
  <2>4. BuildTyped' /\ ThreadsTyped' /\ DatabasesTyped' /\ HistoryTyped'
    BY <1>1, <2>1 DEF LInv, LTyped, BuildTyped, ThreadsTyped, DatabasesTyped, HistoryTyped,
                      database
  <2>5. RequestsTyped' /\ Requested'
    BY <1>1, <2>1, NoQuiet, RestIsMain
  <2>6. OnCourse'
    <3>. SUFFICES ASSUME Calm PROVE N \in Built' /\ N \in Runs'
      BY <2>2, <2>3 DEF OnCourse, Calm
    <3>1. N \in Built /\ N \in Runs
      BY <1>1 DEF LInv, OnCourse
    <3>. QED
      BY <1>1, <2>1, <3>1 DEF Built, Runs
  <2>7. Reachable'
    BY <2>1, <2>2, <2>3 DEF LInv, Reachable, Single, Calm
  <2>8. Compared'
    <3>1. Compared
      BY DEF LInv
    <3>. QED
      BY <1>1, <2>2, <2>3, <3>1 DEF Compared, Calm, database
  <2>. QED
    BY <2>3, <2>4, <2>5, <2>6, <2>7, <2>8 DEF LInv, LTyped
<1>. QED
  BY <1>2, <1>3

LEMMA TLSFailsKeeps == LInv /\ TLSFails => LInv'
<1>. SUFFICES ASSUME LInv, TLSFails PROVE LInv'
  OBVIOUS
<1>1. /\ Top.phase = "tls" /\ Raise("tls") /\ Fails
      /\ UNCHANGED <<context, made, passes, event, told, events, database, overlapped, signals>>
  BY DEF TLSFails, Running
<1>2. failures' \in 0..MaxFailures
  BY <1>1, Constants DEF LInv, LTyped, HistoryTyped, Fails
<1>. QED
  BY <1>1, <1>2, RaiseKeeps

-----------------------------------------------------------------------------
(* Reloading *)

\* The running activation goes on, and nothing else changes but the permit.
LEMMA Asks ==
    ASSUME LInv, NEW f \in Frames, Goto(f), f.who = Top.who, Top.phase \in {"options", "unlink", "check"},
           f.phase \in {"unlink", "check", "stop"}, f.phase = "stop" => f.at = N,
           f.phase \in Asking \/ "config" \in context,
           f.pass = Top.pass, f.reading = Top.reading,
           f.phase = "stop" => f.allow \/ connected = f.checked,
           UNCHANGED <<context, made, passes, open, event, told, events, threads, named,
                       connected, configured, req, history>>
    PROVE  LInv'
<1>1. /\ passes \in Nat /\ passes' = passes /\ passes' >= passes /\ overlapped' = overlapped
      /\ context' = context /\ event' = event /\ N \in Nat
  BY Constants DEF LInv, LTyped, BuildTyped, history
<1>2. Top \in Sound
  BY TopIs DEF LInv, LTyped
<1>3. f \in Sound' /\ f \in Eventful' /\ f \notin Unbuilt
  BY <1>1, <1>2 DEF Sound, Eventful, Unbuilt
<1>4. StackTyped' /\ GiveUp' /\ OneAtATime' /\ Top' = f
  <2>1. Top.phase \in Asking
    BY DEF Asking
  <2>. QED
    BY <1>1, <1>3, <2>1, GoesOn
<1>5. BuildTyped' /\ ThreadsTyped' /\ DatabasesTyped' /\ HistoryTyped'
  BY DEF LInv, LTyped, BuildTyped, ThreadsTyped, DatabasesTyped, HistoryTyped, history
<1>6. RequestsTyped' /\ Requested'
  BY NoQuiet, RestIsMain
<1>7. OnCourse'
  BY <1>4 DEF OnCourse, AtRest, Running
<1>8. Reachable'
  <2>. SUFFICES ASSUME overlapped = "no" PROVE Single' /\ N \in OfThese'
    BY <1>1, <1>4 DEF Reachable
  <2>1. \A t \in threads : t.by \in Services
    BY Constants DEF LInv, LTyped, ThreadsTyped
  <2>. QED
    BY <1>1, <2>1, BeforeIs DEF LInv, Reachable, Single, OfThese
<1>9. Compared'
  <2>1. Compared
    BY DEF LInv
  <2>. QED
    BY <1>1, <1>4, <2>1 DEF Compared, Calm
<1>. QED
  BY <1>4, <1>5, <1>6, <1>7, <1>8, <1>9 DEF LInv, LTyped

LEMMA ReadOptionsKeeps == LInv /\ ReadOptions => LInv'
<1>. SUFFICES ASSUME LInv, ReadOptions PROVE LInv'
  OBVIOUS
<1>. DEFINE f == [Top EXCEPT !.phase = IF permit = "none" THEN "check" ELSE "unlink",
                             !.allow = (permit = "allow")]
<1>1. /\ Top.phase = "options" /\ Goto(f)
      /\ UNCHANGED <<context, made, passes, open, event, told, events, threads, named,
                     connected, configured, req, history>>
  BY DEF ReadOptions, Running, database
<1>2. Top \in Frames
  BY TopIs DEF LInv, LTyped
<1>3. /\ f \in Frames /\ f.who = Top.who /\ f.phase \in {"check", "unlink"}
      /\ f.pass = Top.pass /\ f.reading = Top.reading
  BY <1>2 DEF Frames, Phases
<1>. HIDE DEF f
<1>. QED
  BY <1>1, <1>3, Asks DEF Asking

LEMMA UnlinkKeeps == LInv /\ Unlink => LInv'
<1>. SUFFICES ASSUME LInv, Unlink PROVE LInv'
  OBVIOUS
<1>. DEFINE f == [Top EXCEPT !.phase = "check"]
<1>1. /\ Top.phase = "unlink" /\ Goto(f)
      /\ UNCHANGED <<context, made, passes, open, event, told, events, threads, named,
                     connected, configured, req, history>>
  BY DEF Unlink, Running
<1>2. Top \in Frames
  BY TopIs DEF LInv, LTyped
<1>3. /\ f \in Frames /\ f.who = Top.who /\ f.phase = "check"
      /\ f.pass = Top.pass /\ f.reading = Top.reading
  BY <1>2 DEF Frames, Phases
<1>. HIDE DEF f
<1>. QED
  BY <1>1, <1>3, Asks DEF Asking

LEMMA CheckKeeps == LInv /\ Check => LInv'
<1>. SUFFICES ASSUME LInv, Check PROVE LInv'
  OBVIOUS
<1>. DEFINE f == [Top EXCEPT !.phase = "stop", !.at = N, !.checked = named]
            refused == "config" \in context /\ named # configured /\ ~Top.allow
<1>1. /\ Top.phase = "check"
      /\ UNCHANGED <<context, made, passes, event, told, events, database, shutdown,
                     overlapped, signals, failures>>
      /\ failures' \in 0..MaxFailures
  BY DEF Check, Running, LInv, LTyped, HistoryTyped
<1>2. CASE "config" \notin context
  <2>1. Raise("no_config")
    BY <1>2 DEF Check
  <2>. QED
    BY <1>1, <2>1, RaiseKeeps
<1>3. CASE refused
  <2>1. Raise("refused")
    BY <1>3 DEF Check
  <2>. QED
    BY <1>1, <2>1, RaiseKeeps
<1>4. CASE "config" \in context /\ ~refused
  <2>1. Goto(f) /\ UNCHANGED <<failed, threads, open, req>>
    BY <1>4 DEF Check
  <2>2. Top \in Frames /\ N \in 0..N + 1 /\ named \in Databases
    BY TopIs, Constants DEF LInv, LTyped, DatabasesTyped
  <2>3. /\ f \in Frames /\ f.who = Top.who /\ f.phase = "stop" /\ f.at = N
        /\ f.pass = Top.pass /\ f.reading = Top.reading /\ f.allow = Top.allow
        /\ f.checked = named
    BY <2>2 DEF Frames, Phases
  <2>. HIDE DEF f
  <2>4. f.allow \/ connected = f.checked
    BY <1>4, <2>3 DEF LInv, Compared
  <2>. QED
    BY <1>1, <1>4, <2>1, <2>3, <2>4, Asks DEF database, history
<1>. QED
  BY <1>2, <1>3, <1>4

-----------------------------------------------------------------------------
(* Signals, and the other threads *)

\* What the main thread and the services have stays as it is.
LEMMA Untouched ==
    ASSUME LInv,
           UNCHANGED <<stack, context, made, passes, open, event, told, events, threads,
                       connected, configured, overlapped, failed>>,
           DatabasesTyped', HistoryTyped', RequestsTyped', Requested'
    PROVE  LInv'
<1>1. StackTyped' /\ GiveUp' /\ OneAtATime' /\ Top' = Top
  BY DEF LInv, LTyped, StackTyped, GiveUp, OneAtATime, Calm, Sound, Eventful, Top, Last
<1>2. BuildTyped' /\ ThreadsTyped'
  BY DEF LInv, LTyped, BuildTyped, ThreadsTyped
<1>3. OnCourse' /\ Reachable'
  <2>1. /\ Calm' = Calm /\ AtRest' = AtRest /\ Built' = Built /\ Runs' = Runs /\ Fresh' = Fresh
        /\ Single' = Single /\ OfThese' = OfThese
    BY <1>1 DEF Calm, AtRest, Running, Built, Runs, Fresh, Single, OfThese
  <2>2. OnCourse /\ Reachable
    BY DEF LInv
  <2>. QED
    BY <1>1, <2>1, <2>2 DEF OnCourse, Reachable
<1>4. Compared'
  <2>1. Compared
    BY DEF LInv
  <2>. QED
    BY <1>1, <2>1 DEF Compared, Calm
<1>. QED
  BY <1>1, <1>2, <1>3, <1>4 DEF LInv, LTyped

\* The requests are what they were, and so is all that is said of them.
LEMMA SameRequests ==
    ASSUME LInv, UNCHANGED <<stack, req, open, overlapped, failed>>
    PROVE  RequestsTyped' /\ Requested'
<1>1. RequestsTyped /\ Requested
  BY DEF LInv, LTyped
<1>2. AtRest' = AtRest /\ Calm' = Calm
  BY DEF AtRest, Running, Top, Last, Calm
<1>. QED
  BY <1>1, <1>2 DEF RequestsTyped, Requested

LEMMA StutterKeeps == LInv /\ UNCHANGED vars => LInv'
<1>. SUFFICES ASSUME LInv, UNCHANGED vars PROVE LInv'
  OBVIOUS
<1>1. UNCHANGED <<stack, context, made, passes, open, event, told, events, threads,
                  connected, configured, overlapped, failed, named, signals, failures, req>>
  BY DEF vars, process, database, history
<1>2. DatabasesTyped' /\ HistoryTyped'
  BY <1>1 DEF LInv, LTyped, DatabasesTyped, HistoryTyped
<1>. QED
  BY <1>1, <1>2, SameRequests, Untouched

LEMMA HangUpKeeps == LInv /\ HangUp => LInv'
<1>. SUFFICES ASSUME LInv, HangUp PROVE LInv'
  OBVIOUS
<1>1. /\ Up /\ stack' = Append(stack, Frame("reload", "options"))
      /\ overlapped' = IF AtRest THEN IF overlapped = "no" THEN "no" ELSE "before" ELSE "now"
      /\ Disturb /\ signals < MaxSignals /\ signals' = signals + 1
      /\ UNCHANGED <<context, made, passes, open, event, told, events, threads, database,
                     shutdown, failed, failures>>
  BY DEF HangUp, Signalled
<1>2. /\ StackTyped' /\ GiveUp' /\ OneAtATime' /\ Top'.phase = "options"
  BY <1>1, BreaksIn
<1>3. BuildTyped' /\ ThreadsTyped' /\ DatabasesTyped' /\ HistoryTyped'
  BY <1>1, Constants DEF LInv, LTyped, BuildTyped, ThreadsTyped, DatabasesTyped, HistoryTyped,
                         database
<1>4. RequestsTyped' /\ Requested'
  BY <1>1, Disturbed
<1>5. OnCourse'
  BY <1>2 DEF OnCourse, AtRest, Running
<1>6. Reachable'
  BY <1>1, <1>2 DEF LInv, Reachable, Single
<1>7. Compared'
  <2>1. Compared
    BY DEF LInv
  <2>. QED
    BY <1>1, <1>2, <2>1 DEF Compared, database
<1>. QED
  BY <1>2, <1>3, <1>4, <1>5, <1>6, <1>7 DEF LInv, LTyped

LEMMA TerminateKeeps == LInv /\ Terminate => LInv'
<1>. SUFFICES ASSUME LInv, Terminate PROVE LInv'
  OBVIOUS
<1>1. /\ signals < MaxSignals /\ signals' = signals + 1
      /\ IF shutdown THEN Exit ELSE UNCHANGED <<stack, threads, open, req>>
      /\ UNCHANGED <<context, made, passes, event, told, events, database, overlapped,
                     failed, failures>>
  BY DEF Terminate, Signalled
<1>2. HistoryTyped' /\ DatabasesTyped'
  BY <1>1, Constants DEF LInv, LTyped, HistoryTyped, DatabasesTyped, database
<1>3. CASE shutdown
  BY <1>1, <1>2, <1>3, ExitKeeps
<1>4. CASE ~shutdown
  <2>1. /\ UNCHANGED <<stack, context, made, passes, open, event, told, events, threads, req,
                       overlapped, failed>>
        /\ UNCHANGED <<connected, configured>>
    BY <1>1, <1>4 DEF database
  <2>2. RequestsTyped' /\ Requested'
    BY <2>1, SameRequests
  <2>. QED
    BY <1>2, <2>1, <2>2, Untouched
<1>. QED
  BY <1>3, <1>4

LEMMA ReinitKeeps == LInv /\ Reinit => LInv'
<1>. SUFFICES ASSUME LInv, Reinit PROVE LInv'
  OBVIOUS
<1>1. /\ signals < MaxSignals /\ signals' = signals + 1
      /\ stack' = <<Frame("main", "reset")>>
      /\ context' = {}
      /\ made' = [s \in Services |-> Nothing]
      /\ open' = {} /\ told' = {} /\ threads' = {}
      /\ passes' = 0 /\ events' = 0
      /\ event' = [s \in Services |-> 0]
      /\ connected' = "none" /\ configured' = "none"
      /\ req' = [r \in Requests |-> Idle]
      /\ overlapped' = "no" /\ failed' = "nothing"
      /\ UNCHANGED <<named, permit, failures>>
  BY DEF Reinit, Signalled
<1>2. /\ StackTyped' /\ GiveUp' /\ OneAtATime' /\ Top'.phase = "reset" /\ Top'.who = "main"
  BY <1>1, StandsAlone
<1>3. BuildTyped'
  BY <1>1, NothingIs DEF BuildTyped
<1>4. ThreadsTyped'
  BY <1>1 DEF ThreadsTyped
<1>5. DatabasesTyped' /\ HistoryTyped'
  BY <1>1, Constants DEF LInv, LTyped, DatabasesTyped, HistoryTyped
<1>6. RequestsTyped' /\ Requested'
  BY <1>1 DEF RequestsTyped, Requested, Idle
<1>7. OnCourse'
  BY <1>2 DEF OnCourse, AtRest, Running
<1>8. Reachable'
  BY <1>1, <1>2 DEF Reachable, Single
<1>9. Compared'
  BY <1>1, <1>2 DEF Compared
<1>. QED
  BY <1>2, <1>3, <1>4, <1>5, <1>6, <1>7, <1>8, <1>9 DEF LInv, LTyped

LEMMA WindDownKeeps == LInv /\ WindDown => LInv'
<1>. SUFFICES ASSUME LInv, WindDown PROVE LInv'
  OBVIOUS
<1>. DEFINE f == [Top EXCEPT !.phase = "stop", !.at = N]
<1>1. /\ AtRest /\ Goto(f) /\ Disturb
      /\ UNCHANGED <<context, made, passes, open, event, told, events, threads, database,
                     shutdown, history>>
  BY DEF WindDown
<1>2. Top \in Frames /\ Top \in Sound /\ N \in 0..N + 1 /\ N \in 0..N
  BY TopIs, Constants DEF LInv, LTyped
<1>3. Top.who = "main" /\ Top.phase = "serve"
  BY <1>1, RestIsMain
<1>4. /\ f \in Frames /\ f.who = Top.who /\ f.phase = "stop" /\ f.at = N
      /\ f.pass = Top.pass /\ f.reading = Top.reading
  BY <1>2 DEF Frames, Phases
<1>. HIDE DEF f
<1>5. /\ passes \in Nat /\ passes' = passes /\ passes' >= passes /\ overlapped' = overlapped
      /\ context' = context /\ event' = event /\ Top.phase \notin Asking
  BY <1>1, <1>3 DEF LInv, LTyped, BuildTyped, history, Asking
<1>6. f \in Sound' /\ f \in Eventful' /\ f \notin Unbuilt
  BY <1>2, <1>3, <1>4, <1>5 DEF Sound, Eventful, Unbuilt
<1>7. StackTyped' /\ GiveUp' /\ OneAtATime' /\ Top' = f
  BY <1>1, <1>4, <1>5, <1>6, GoesOn
<1>8. BuildTyped' /\ ThreadsTyped' /\ DatabasesTyped' /\ HistoryTyped'
  BY <1>1 DEF LInv, LTyped, BuildTyped, ThreadsTyped, DatabasesTyped, HistoryTyped, database,
              history
<1>9. RequestsTyped' /\ Requested'
  BY <1>1, Disturbed
<1>10. OnCourse'
  BY <1>4, <1>7 DEF OnCourse, AtRest, Running
<1>11. Reachable'
  <2>. SUFFICES ASSUME overlapped = "no" PROVE Single' /\ N \in OfThese'
    BY <1>4, <1>5, <1>7 DEF Reachable
  <2>1. \A t \in threads : t.by \in Services
    BY Constants DEF LInv, LTyped, ThreadsTyped
  <2>. QED
    BY <1>1, <1>2, <2>1, BeforeIs DEF LInv, Reachable, Single, OfThese
<1>12. Compared'
  <2>1. Compared
    BY DEF LInv
  <2>. QED
    BY <1>1, <1>3, <1>4, <1>5, <1>7, <2>1 DEF Compared, Calm, database
<1>. QED
  BY <1>7, <1>8, <1>9, <1>10, <1>11, <1>12 DEF LInv, LTyped

LEMMA AdministerKeeps == LInv /\ Administer => LInv'
<1>. SUFFICES ASSUME LInv, Administer PROVE LInv'
  OBVIOUS
<1>1. /\ signals < MaxSignals /\ signals' = signals + 1
      /\ named' \in Databases \/ UNCHANGED named
      /\ UNCHANGED <<stack, context, made, passes, open, event, told, events, threads,
                     connected, configured, req, overlapped, failed, failures>>
  BY DEF Administer, Signalled, process
<1>2. DatabasesTyped' /\ HistoryTyped'
  BY <1>1, Constants DEF LInv, LTyped, DatabasesTyped, HistoryTyped
<1>. QED
  BY <1>1, <1>2, SameRequests, Untouched

\* A request thread changes nothing but its request.
LEMMA OneRequest ==
    ASSUME LInv, NEW r \in Requests,
           NEW q \in [state : {"idle", "running", "failed"}, uses : Nat, quiet : BOOLEAN],
           req' = [req EXCEPT ![r] = q],
           q.quiet => /\ AtRest
                      /\ Calm /\ failed = "nothing" =>
                            /\ q.state # "failed"
                            /\ q.state = "running" => q.uses \in open,
           UNCHANGED <<process, database, shutdown, history>>
    PROVE  LInv'
<1>1. UNCHANGED <<stack, context, made, passes, open, event, told, events, threads,
                  connected, configured, overlapped, failed, named, signals, failures>>
  BY DEF process, database, history
<1>2. DatabasesTyped' /\ HistoryTyped'
  BY <1>1 DEF LInv, LTyped, DatabasesTyped, HistoryTyped
<1>3. RequestsTyped /\ Requested
  BY DEF LInv, LTyped
<1>4. RequestsTyped' /\ req'[r] = q /\ \A s \in Requests : s # r => req'[s] = req[s]
  BY <1>3 DEF RequestsTyped
<1>5. AtRest' = AtRest /\ Calm' = Calm
  BY <1>1 DEF AtRest, Running, Top, Last, Calm
<1>6. Requested'
  BY <1>1, <1>3, <1>4, <1>5 DEF Requested
<1>. QED
  BY <1>1, <1>2, <1>4, <1>6, Untouched

LEMMA IdleIs ==
    /\ Idle \in [state : {"idle", "running", "failed"}, uses : Nat, quiet : BOOLEAN]
    /\ ~Idle.quiet
BY DEF Idle

LEMMA LookUpKeeps == LInv /\ (\E r \in Requests : LookUp(r)) => LInv'
<1>. SUFFICES ASSUME LInv, NEW r \in Requests, LookUp(r) PROVE LInv'
  OBVIOUS
<1>. DEFINE uses == made["webdav"].from["database"]
            q == IF "webdav" \in context
                 THEN [state |-> "running", uses |-> uses, quiet |-> AtRest]
                 ELSE [state |-> "failed", uses |-> 0, quiet |-> AtRest]
<1>1. req' = [req EXCEPT ![r] = q] /\ UNCHANGED <<process, database, shutdown, history>>
  BY DEF LookUp
<1>2. "webdav" \in context => uses \in Nat
  <2>. SUFFICES ASSUME "webdav" \in context PROVE uses \in Nat
    OBVIOUS
  <2>1. made["webdav"].from \in [Deps["webdav"] -> 0..passes]
    BY DEF LInv, LTyped, BuildTyped
  <2>2. "database" \in Deps["webdav"]
    BY Constants
  <2>3. uses \in 0..passes
    BY <2>1, <2>2
  <2>. QED
    BY <2>3
<1>3. AtRest \in BOOLEAN
  BY DEF AtRest, Running
<1>4. q \in [state : {"idle", "running", "failed"}, uses : Nat, quiet : BOOLEAN]
  <2>1. CASE "webdav" \in context
    BY <1>2, <1>3, <2>1
  <2>2. CASE "webdav" \notin context
    BY <1>3, <2>2
  <2>. QED
    BY <2>1, <2>2
<1>5. /\ q.quiet = AtRest
      /\ "webdav" \in context => q.state = "running" /\ q.uses = uses
  OBVIOUS
<1>6. AtRest /\ Calm /\ failed = "nothing" => "webdav" \in context /\ uses \in open
  <2>. SUFFICES ASSUME AtRest, Calm, failed = "nothing"
                PROVE  "webdav" \in context /\ uses \in open
    OBVIOUS
  <2>1. N \in Built
    BY DEF LInv, OnCourse
  <2>2. /\ Earlier(N) = Services /\ "webdav" \in Services /\ "database" \in Services
        /\ "database" \in Deps["webdav"]
    BY BeforeIs, Constants
  <2>. QED
    BY <2>1, <2>2 DEF Built
<1>. HIDE DEF q, uses
<1>7. q.quiet => /\ AtRest
                 /\ Calm /\ failed = "nothing" =>
                        /\ q.state # "failed"
                        /\ q.state = "running" => q.uses \in open
  BY <1>5, <1>6
<1>. QED
  BY <1>1, <1>4, <1>7, OneRequest

LEMMA AnswerKeeps == LInv /\ (\E r \in Requests : Answer(r)) => LInv'
<1>. SUFFICES ASSUME LInv, NEW r \in Requests, Answer(r) PROVE LInv'
  OBVIOUS
<1>. DEFINE q == [req[r] EXCEPT !.state = "failed"]
<1>1. /\ req[r].state = "running"
      /\ req' = [req EXCEPT ![r] = IF req[r].uses \in open THEN Idle ELSE q]
      /\ UNCHANGED <<process, database, shutdown, history>>
  BY DEF Answer
<1>2. req[r] \in [state : {"idle", "running", "failed"}, uses : Nat, quiet : BOOLEAN]
  BY DEF LInv, LTyped, RequestsTyped
<1>3. /\ q \in [state : {"idle", "running", "failed"}, uses : Nat, quiet : BOOLEAN]
      /\ q.quiet = req[r].quiet
  BY <1>2
<1>. HIDE DEF q
<1>4. CASE req[r].uses \in open
  <2>1. req' = [req EXCEPT ![r] = Idle]
    BY <1>1, <1>4
  <2>. QED
    BY <1>1, <2>1, IdleIs, OneRequest
<1>5. CASE req[r].uses \notin open
  <2>1. req' = [req EXCEPT ![r] = q]
    BY <1>1, <1>5
  <2>2. q.quiet => AtRest /\ ~(Calm /\ failed = "nothing")
    BY <1>1, <1>3, <1>5 DEF LInv, Requested
  <2>. QED
    BY <1>1, <1>3, <2>1, <2>2, OneRequest
<1>. QED
  BY <1>4, <1>5

LEMMA DropKeeps == LInv /\ (\E r \in Requests : Drop(r)) => LInv'
<1>. SUFFICES ASSUME LInv, NEW r \in Requests, Drop(r) PROVE LInv'
  OBVIOUS
<1>1. req' = [req EXCEPT ![r] = Idle] /\ UNCHANGED <<process, database, shutdown, history>>
  BY DEF Drop
<1>. QED
  BY <1>1, IdleIs, OneRequest

-----------------------------------------------------------------------------
(* The theorems *)

LEMMA LifecycleInit == Init => LInv
<1>. SUFFICES ASSUME Init PROVE LInv
  OBVIOUS
<1>. DEFINE f == Frame("main", "reset")
<1>1. /\ f \in Frames /\ f.who = "main" /\ f.phase = "reset" /\ f.pass = 0 /\ ~f.reading
  BY FrameIs DEF Phases
<1>. HIDE DEF f
<1>2. stack = <<f>> /\ passes = 0 /\ context = {} /\ made = [s \in Services |-> Nothing]
  BY DEF Init, f
<1>3. f \in Sound /\ f \in Eventful /\ f \notin Unbuilt
  BY <1>1, <1>2 DEF Sound, Eventful, Unbuilt
<1>4. Top = f
  BY <1>2 DEF Top, Last
<1>5. StackTyped /\ GiveUp /\ OneAtATime
  BY <1>1, <1>2, <1>3 DEF StackTyped, GiveUp, OneAtATime
<1>6. BuildTyped
  BY <1>2, NothingIs DEF BuildTyped, Init
<1>7. ThreadsTyped
  BY <1>2 DEF ThreadsTyped, Init
<1>8. DatabasesTyped /\ HistoryTyped
  BY Constants DEF DatabasesTyped, HistoryTyped, Init
<1>9. RequestsTyped /\ Requested
  BY DEF RequestsTyped, Requested, Init, Idle
<1>10. OnCourse
  BY <1>1, <1>4 DEF OnCourse, AtRest, Running
<1>11. Reachable
  BY <1>1, <1>4 DEF Reachable, Single, Init
<1>12. Compared
  BY <1>1, <1>2, <1>4 DEF Compared, Init
<1>. QED
  BY <1>5, <1>6, <1>7, <1>8, <1>9, <1>10, <1>11, <1>12 DEF LInv, LTyped

LEMMA LifecycleNext == LInv /\ [Next]_vars => LInv'
<1>1. LInv /\ MainThread => LInv'
  BY StopOneKeeps, UndoOneKeeps, ResetKeeps, InitReadKeeps, InitStoreKeeps, InitFailsKeeps,
     StartOneKeeps, StartFailsKeeps, ConfigureTLSKeeps, TLSFailsKeeps, ReadOptionsKeeps,
     UnlinkKeeps, CheckKeeps, WindDownKeeps DEF MainThread
<1>. QED
  BY <1>1, HangUpKeeps, TerminateKeeps, ReinitKeeps, AdministerKeeps, LookUpKeeps, AnswerKeeps,
     DropKeeps, StutterKeeps DEF Next

LEMMA LifecycleInvariant == Spec => []LInv
BY LifecycleInit, LifecycleNext, PTL DEF Spec

\* Every variable of ServiceManager and of the signal handlers holds what its type
\* allows, however many signals come.
THEOREM LifecycleTypeCorrect == Spec => []TypeOK
<1>1. LInv => TypeOK
  <2>. SUFFICES ASSUME LInv PROVE TypeOK
    OBVIOUS
  <2>1. /\ passes \in Nat /\ stack \in Seq(Sound \cap Eventful) /\ stack # <<>>
        /\ stack[1].who = "main" /\ N \in Nat
    BY Constants DEF LInv, LTyped, StackTyped, BuildTyped
  <2>2. ASSUME NEW k \in 1..Len(stack)
        PROVE  /\ stack[k].phase \in {"options", "unlink", "check", "stop", "reset", "init",
                                      "start", "undo", "tls", "serve", "gone"}
               /\ stack[k].at \in 0..(N + 1)
               /\ stack[k].pass \in 0..passes
               /\ stack[k].phase \in {"init", "start"} => stack[k].at \in 1..N
               /\ k > 1 => stack[k].who = "reload" /\ stack[1].phase \in {"serve", "stop"}
    <3>1. stack[k] \in Sound
      BY <2>1
    <3>2. stack[k] \in Frames /\ stack[k].pass <= passes
          /\ (stack[k].phase \in {"init", "start"} => stack[k].at \in 1..N)
      BY <3>1 DEF Sound
    <3>3. stack[k].pass \in 0..passes
      BY <2>1, <3>2 DEF Frames
    <3>4. k > 1 => stack[k].who = "reload" /\ stack[1].phase \in {"serve", "stop"}
      BY <2>1 DEF LInv, LTyped, StackTyped
    <3>. QED
      BY <3>2, <3>3, <3>4 DEF Frames, Phases
  <2>3. \A s \in Services : made[s].pass \in 0..passes
    BY <2>1 DEF LInv, LTyped, BuildTyped, Reads
  <2>4. /\ \A s \in Services : event[s] \in 0..events /\ (s \notin Threaded => event[s] = 0)
        /\ told \subseteq Threaded
        /\ threads \subseteq [by : Threaded, event : 1..events, nr : 1..passes]
    BY DEF LInv, LTyped, ThreadsTyped
  <2>5. context \subseteq Services /\ open \subseteq 1..passes
    BY DEF LInv, LTyped, BuildTyped
  <2>6. {connected, configured} \subseteq Databases \cup {"none"}
    BY DEF LInv, LTyped, DatabasesTyped
  <2>7. HistoryTyped
    BY DEF LInv, LTyped
  <2>. QED
    BY <2>1, <2>2, <2>3, <2>4, <2>5, <2>6, <2>7 DEF TypeOK, HistoryTyped
<1>. QED
  BY <1>1, LifecycleInvariant, PTL

\* After a start or a reload that went through, the services in ServiceManager's
\* context are built from each other, the connection of initialize_all's last pass
\* is open, the settings are those of that database, and every threaded service has
\* its thread: for any services, dependencies and number of reloads that failed before.
THEOREM ServicesAreCoherent == Spec => []Coherent
<1>1. LInv => Coherent
  <2>. SUFFICES ASSUME LInv, Healthy
                PROVE  /\ context = Services
                       /\ \A s \in Services : \A d \in Deps[s] : made[s].from[d] = made[d].pass
                       /\ made["database"].pass \in open
                       /\ configured = connected
                       /\ \A s \in Threaded : \E t \in threads : t.by = s /\ t.event = event[s]
    BY DEF Coherent
  <2>1. N \in Built /\ N \in Runs
    BY DEF Healthy, Calm, LInv, OnCourse
  <2>2. /\ Earlier(N) = Services /\ {"database", "config"} \subseteq Services
        /\ \A s \in Services : Deps[s] \subseteq Services
        /\ Threaded \subseteq Services
    BY BeforeIs, Constants
  <2>3. /\ context = Services
        /\ \A s \in Services : made[s].pass = passes /\ \A d \in Deps[s] : made[s].from[d] = passes
        /\ passes \in open
    BY <2>1, <2>2 DEF Built
  <2>4. \A s \in Services : \A d \in Deps[s] : made[s].from[d] = made[d].pass
    BY <2>2, <2>3
  <2>5. configured = connected
    BY <2>2, <2>3 DEF LInv, Compared
  <2>6. \A s \in Threaded : \E t \in threads : t.by = s /\ t.event = event[s]
    BY <2>1, <2>2 DEF Runs
  <2>. QED
    BY <2>2, <2>3, <2>4, <2>5, <2>6
<1>. QED
  BY <1>1, LifecycleInvariant, PTL

\* stop() reaches every thread that a service started, as long as no signal broke
\* into a start or a reload.
THEOREM StopReachesAll == Spec => []StopReaches
<1>1. LInv => StopReaches
  BY DEF LInv, Reachable, Single, StopReaches
<1>. QED
  BY <1>1, LifecycleInvariant, PTL

\* _ReloadableApp fails a request that no reload and no shutdown overlaps only when
\* the last reload failed or was broken into.
THEOREM QuietFaultsHaveACause == Spec => []FaultsHaveACause
<1>1. LInv => FaultsHaveACause
  BY DEF LInv, Requested, Calm, FaultsHaveACause
<1>. QED
  BY <1>1, LifecycleInvariant, PTL

\* DatabaseService connects to another database only in a reload whose options had
\* allow_switch, or that compared other settings than it then reads, or that a signal
\* broke into.
THEOREM SwitchesArePermitted == Spec => SwitchNeedsPermit
<1>1. ASSUME LInv, [Next]_vars, connected' # connected, connected # "none", connected' # "none"
      PROVE  Top.allow \/ connected' # Top.checked \/ overlapped = "now"
  <2>1. InitStore
    <3>1. UNCHANGED vars => connected' = connected
      BY DEF vars, database
    <3>2. MainThread => InitStore
      BY <1>1 DEF MainThread, StopOne, UndoOne, Reset, InitRead, InitFails, StartOne, StartFails,
                  ConfigureTLS, TLSFails, ReadOptions, Unlink, Check, WindDown, database
    <3>3. HangUp \/ Terminate \/ Reinit \/ Administer => FALSE
      BY <1>1 DEF HangUp, Terminate, Reinit, Administer, database
    <3>4. \A r \in Requests : LookUp(r) \/ Answer(r) \/ Drop(r) => FALSE
      BY <1>1 DEF LookUp, Answer, Drop, database
    <3>. QED
      BY <1>1, <3>1, <3>2, <3>3, <3>4 DEF Next
  <2>2. Top.phase = "init" /\ Order[Top.at] = "database"
    BY <1>1, <2>1 DEF InitStore, Running, Current
  <2>3. Top \in Sound /\ (Top.who = "main" \/ Top.who = "reload")
    BY <1>1, TopIs DEF LInv, LTyped, Frames
  <2>4. "database" \notin Earlier(Top.at - 1)
    BY <2>2, <2>3, BeforeIs DEF Sound
  <2>. QED
    BY <1>1, <2>2, <2>3, <2>4 DEF LInv, Compared, Calm
<1>2. LInv /\ [Next]_vars
        => [connected' # connected /\ connected # "none" /\ connected' # "none"
                => Top.allow \/ connected' # Top.checked \/ overlapped = "now"]_vars
  BY <1>1
<1>. QED
  BY <1>2, LifecycleInvariant, PTL DEF Spec, SwitchNeedsPermit

-----------------------------------------------------------------------------
(* Schedule: what is left of a Retry-After is never more than what is left of *)
(* the pause made of it, in the row of the target and in the memory of the    *)
(* Indexer.                                                                   *)

USE ScheduleAssumption

\* A pause lasts at least as long as the Retry-After it was made of.
Covered ==
    /\ \A t \in Targets : promised[t] <= retry[t]
    /\ \A d \in Domains : owed[d] <= backoff[d]

ScheduleInv == ScheduleTypeOK /\ Covered /\ RetryAfterIsHonoured

LEMMA LessIsNat == ASSUME NEW n \in Nat PROVE Less(n) \in Nat
BY DEF Less

LEMMA LessIsMonotone ==
    ASSUME NEW m \in Nat, NEW n \in Nat, m <= n PROVE Less(m) <= Less(n)
BY DEF Less

\* A delay is a number of ticks, and no shorter than the server asked for.
LEMMA DelaysCover ==
    ASSUME NEW p \in Nat, NEW after \in RetryAfters \cup {None},
           NEW delay \in Delays(p, after)
    PROVE  /\ delay \in Nat
           /\ after # None => after \in Nat /\ after <= delay
<1>1. Base * p \in Nat
  OBVIOUS
<1>2. Least(MaxBackoff, Base * p) \in Nat
  BY <1>1 DEF Least
<1>3. CASE after = None
  BY <1>2, <1>3 DEF Delays, Least
<1>4. CASE after # None
  <2>1. after \in Nat
    BY <1>4
  <2>2. Least(MaxBackoff, Least(MaxBackoff, Base * p)) \in Nat
    BY <1>2 DEF Least
  <2>3. delay = Greatest(after, Least(MaxBackoff, Least(MaxBackoff, Base * p)))
    BY <1>4 DEF Delays
  <2>. QED
    BY <2>1, <2>2, <2>3 DEF Greatest
<1>. QED
  BY <1>3, <1>4

LEMMA DoubledIsNat == ASSUME NEW p \in Nat PROVE Doubled(p) \in Nat
BY DEF Doubled

\* What ends a turn types the clocks of the loop.
LEMMA NoteAccessTypes ==
    ASSUME NoteAccess, quick \in Nat, seen \in BOOLEAN
    PROVE  quick' \in Nat /\ seen' \in BOOLEAN /\ BaseInterval \in Nat
BY DEF NoteAccess, BaseInterval

LEMMA ScheduleInvInit == ScheduleInit => ScheduleInv
<1>. SUFFICES ASSUME ScheduleInit PROVE ScheduleInv
  OBVIOUS
<1>1. ScheduleTypeOK
  BY DEF ScheduleInit, ScheduleTypeOK
<1>2. Covered
  BY DEF ScheduleInit, Covered
<1>3. RetryAfterIsHonoured
  BY DEF ScheduleInit, RetryAfterIsHonoured
<1>. QED
  BY <1>1, <1>2, <1>3 DEF ScheduleInv

LEMMA ScheduleInvNext == ScheduleInv /\ [ScheduleNext]_scheduleVars => ScheduleInv'
<1>. SUFFICES ASSUME ScheduleInv, [ScheduleNext]_scheduleVars PROVE ScheduleInv'
  OBVIOUS
<1>. USE DEF ScheduleInv
<1>1. CASE Tick
  <2>1. ScheduleTypeOK'
    BY <1>1, LessIsNat DEF Tick, ScheduleTypeOK
  <2>2. Covered'
    BY <1>1, LessIsMonotone DEF Tick, ScheduleTypeOK, Covered
  <2>3. RetryAfterIsHonoured'
    BY <1>1 DEF Tick, RetryAfterIsHonoured
  <2>. QED
    BY <2>1, <2>2, <2>3
<1>2. CASE DayPasses
  <2>1. demand' \in [Targets -> {"full", "cheap", "none"}]
    BY <1>2 DEF DayPasses, ScheduleTypeOK
  <2>. QED
    BY <1>2, <2>1 DEF DayPasses, ScheduleTypeOK, Covered, RetryAfterIsHonoured
<1>3. CASE Ask
  <2>1. PICK t \in Targets :
          /\ First(t)
          /\ IF Refused(t)
             THEN NoteAccess /\ rest' = BaseInterval /\ UNCHANGED job
             ELSE job' = t /\ UNCHANGED <<rest, quick, seen>>
    BY <1>3 DEF Ask
  <2>2. job = None
    BY <1>3 DEF Ask
  <2>3. rest' \in Nat /\ quick' \in Nat /\ seen' \in BOOLEAN
    BY <2>1, NoteAccessTypes DEF ScheduleTypeOK
  <2>4. job' \in Targets \cup {None}
    BY <2>1, <2>2
  <2>5. ScheduleTypeOK'
    BY <1>3, <2>3, <2>4 DEF Ask, ScheduleTypeOK
  <2>6. Covered'
    BY <1>3 DEF Ask, Covered
  <2>7. RetryAfterIsHonoured'
    <3>1. CASE Refused(t)
      BY <2>1, <2>2, <3>1 DEF RetryAfterIsHonoured
    <3>2. CASE ~Refused(t)
      <4>1. DomainOf[t] \in Domains /\ retry[t] = 0 /\ backoff[DomainOf[t]] = 0
        BY <3>2 DEF Refused, ScheduleTypeOK
      <4>2. promised[t] = 0 /\ owed[DomainOf[t]] = 0
        BY <4>1 DEF Covered, ScheduleTypeOK
      <4>. QED
        BY <1>3, <2>1, <3>2, <4>2 DEF Ask, RetryAfterIsHonoured
    <3>. QED
      BY <3>1, <3>2
  <2>. QED
    BY <2>5, <2>6, <2>7
<1>4. CASE AskNothing
  <2>1. \A n \in Pauses : n \in Nat
    BY DEF Pauses, Due, Candidates, ScheduleTypeOK
  <2>2. rest' \in Nat
    BY <1>4, <2>1 DEF AskNothing
  <2>3. quick' \in Nat /\ seen' \in BOOLEAN
    BY <1>4, NoteAccessTypes DEF AskNothing, ScheduleTypeOK
  <2>4. ScheduleTypeOK'
    BY <1>4, <2>2, <2>3 DEF AskNothing, ScheduleTypeOK
  <2>. QED
    BY <1>4, <2>4 DEF AskNothing, Covered, RetryAfterIsHonoured
<1>5. ASSUME Listed \/ NotModified PROVE ScheduleInv'
  <2>1. job \in Targets /\ promised[job] = 0 /\ owed[DomainOf[job]] = 0
    BY <1>5 DEF Listed, NotModified, ScheduleTypeOK, RetryAfterIsHonoured
  <2>2. /\ rest' \in Nat /\ quick' \in Nat /\ seen' \in BOOLEAN /\ job' = None
    BY <1>5, NoteAccessTypes DEF Listed, NotModified, EndTurn, ScheduleTypeOK
  <2>3. /\ backoff' = [backoff EXCEPT ![DomainOf[job]] = 0]
        /\ power' = [power EXCEPT ![DomainOf[job]] = 0]
        /\ retry' = [retry EXCEPT ![job] = 0]
        /\ UNCHANGED <<health, stray, owed, promised, faults, restarts>>
    BY <1>5 DEF Listed, NotModified, ClearDomain
  <2>4. demand' \in [Targets -> {"full", "cheap", "none"}]
    BY <1>5 DEF Listed, NotModified, ScheduleTypeOK
  <2>5. used' \in Nat
    BY <1>5 DEF Listed, NotModified, ScheduleTypeOK
  <2>6. ScheduleTypeOK'
    BY <2>2, <2>3, <2>4, <2>5 DEF ScheduleTypeOK
  <2>7. Covered'
    BY <2>1, <2>3 DEF Covered, ScheduleTypeOK
  <2>8. RetryAfterIsHonoured'
    BY <2>2 DEF RetryAfterIsHonoured
  <2>. QED
    BY <2>6, <2>7, <2>8
<1>6. CASE GiantListing
  <2>1. job \in Targets /\ promised[job] = 0
    BY <1>6 DEF GiantListing, ScheduleTypeOK, RetryAfterIsHonoured
  <2>2. /\ rest' \in Nat /\ quick' \in Nat /\ seen' \in BOOLEAN /\ job' = None
    BY <1>6, NoteAccessTypes DEF GiantListing, EndTurn, ScheduleTypeOK
  <2>3. ScheduleTypeOK'
    BY <1>6, <2>2 DEF GiantListing, ScheduleTypeOK
  <2>4. Covered'
    BY <1>6, <2>1 DEF GiantListing, Covered, ScheduleTypeOK
  <2>5. RetryAfterIsHonoured'
    BY <2>2 DEF RetryAfterIsHonoured
  <2>. QED
    BY <2>3, <2>4, <2>5
<1>7. CASE RunFails
  <2>. DEFINE d == DomainOf[job]
  <2>1. job \in Targets /\ d \in Domains
    BY <1>7 DEF RunFails, ScheduleTypeOK
  <2>14. PICK after \in RetryAfters \cup {None} :
          \E delay \in Delays(Doubled(power[d]), after) :
            /\ backoff' = [backoff EXCEPT ![d] = IF delay > 0 THEN delay ELSE @]
            /\ retry' = [retry EXCEPT ![job] = delay]
            /\ owed' = [owed EXCEPT ![d] = IF after = None THEN 0 ELSE after]
            /\ promised' = [promised EXCEPT ![job] = owed'[d]]
    BY <1>7 DEF RunFails
  <2>2. PICK delay \in Delays(Doubled(power[d]), after) :
          /\ backoff' = [backoff EXCEPT ![d] = IF delay > 0 THEN delay ELSE @]
          /\ retry' = [retry EXCEPT ![job] = delay]
          /\ owed' = [owed EXCEPT ![d] = IF after = None THEN 0 ELSE after]
          /\ promised' = [promised EXCEPT ![job] = owed'[d]]
    BY <2>14
  <2>3. Doubled(power[d]) \in Nat
    BY <2>1, DoubledIsNat DEF ScheduleTypeOK
  <2>4. delay \in Nat /\ (after # None => after \in Nat /\ after <= delay)
    BY <2>3, DelaysCover
  <2>5. /\ owed'[d] \in Nat /\ owed'[d] <= delay
        /\ owed' \in [Domains -> Nat]
        /\ \A e \in Domains \ {d} : owed'[e] = owed[e]
    BY <2>1, <2>2, <2>4 DEF ScheduleTypeOK
  <2>6. /\ rest' \in Nat /\ quick' \in Nat /\ seen' \in BOOLEAN /\ job' = None
    BY <1>7, NoteAccessTypes DEF RunFails, EndTurn, ScheduleTypeOK
  <2>7. /\ faults' \in Nat
        /\ power' \in [Domains -> Nat]
        /\ UNCHANGED <<health, demand, used, stray, restarts>>
    BY <1>7, <2>1, <2>3 DEF RunFails, ScheduleTypeOK
  <2>8. backoff' \in [Domains -> Nat] /\ retry' \in [Targets -> Nat]
    BY <2>1, <2>2, <2>4 DEF ScheduleTypeOK
  <2>9. promised' \in [Targets -> Nat]
    BY <2>1, <2>2, <2>5 DEF ScheduleTypeOK
  <2>10. ScheduleTypeOK'
    BY <2>5, <2>6, <2>7, <2>8, <2>9 DEF ScheduleTypeOK
  <2>11. \A t \in Targets : promised'[t] <= retry'[t]
    BY <2>1, <2>2, <2>5 DEF Covered, ScheduleTypeOK
  <2>12. \A e \in Domains : owed'[e] <= backoff'[e]
    BY <2>1, <2>2, <2>4, <2>5 DEF Covered, ScheduleTypeOK
  <2>13. RetryAfterIsHonoured'
    BY <2>6 DEF RetryAfterIsHonoured
  <2>. QED
    BY <2>10, <2>11, <2>12, <2>13 DEF Covered
<1>8. CASE RecordRaises
  <2>. DEFINE d == DomainOf[job]
  <2>1. job \in Targets /\ d \in Domains
    BY <1>8 DEF RecordRaises, ScheduleTypeOK
  <2>2. PICK p \in {Doubled(power[d]), Doubled(Doubled(power[d]))} :
          /\ power' = [power EXCEPT ![d] = p]
          /\ \E delay \in Delays(p, None) :
              /\ backoff' = [backoff EXCEPT ![d] = IF delay > 0 THEN delay ELSE @]
              /\ \/ retry' = [retry EXCEPT ![job] = delay] /\ EndTurn
                 \/ job' = None /\ rest' = ErrorPause /\ UNCHANGED <<retry, quick, seen>>
    BY <1>8 DEF RecordRaises
  <2>3. p \in Nat
    BY <2>1, DoubledIsNat DEF ScheduleTypeOK
  <2>4. PICK delay \in Delays(p, None) :
          /\ backoff' = [backoff EXCEPT ![d] = IF delay > 0 THEN delay ELSE @]
          /\ \/ retry' = [retry EXCEPT ![job] = delay] /\ EndTurn
             \/ job' = None /\ rest' = ErrorPause /\ UNCHANGED <<retry, quick, seen>>
    BY <2>2
  <2>5. delay \in Nat
    BY <2>3, DelaysCover
  <2>6. /\ rest' \in Nat /\ quick' \in Nat /\ seen' \in BOOLEAN /\ job' = None
    BY <2>4, NoteAccessTypes DEF EndTurn, ScheduleTypeOK
  <2>7. /\ faults' \in Nat
        /\ UNCHANGED <<health, demand, used, stray, owed, promised, restarts>>
    BY <1>8 DEF RecordRaises, ScheduleTypeOK
  <2>8. promised[job] = 0 /\ owed[d] = 0
    BY <2>1 DEF RetryAfterIsHonoured, ScheduleTypeOK
  <2>9. /\ backoff' \in [Domains -> Nat] /\ retry' \in [Targets -> Nat]
        /\ power' \in [Domains -> Nat]
    BY <2>1, <2>2, <2>3, <2>4, <2>5 DEF ScheduleTypeOK
  <2>10. ScheduleTypeOK'
    BY <2>6, <2>7, <2>9 DEF ScheduleTypeOK
  <2>11. \A t \in Targets : promised'[t] <= retry'[t]
    BY <2>1, <2>4, <2>5, <2>7, <2>8 DEF Covered, ScheduleTypeOK
  <2>12. \A e \in Domains : owed'[e] <= backoff'[e]
    BY <2>1, <2>4, <2>5, <2>7, <2>8 DEF Covered, ScheduleTypeOK
  <2>13. RetryAfterIsHonoured'
    BY <2>6 DEF RetryAfterIsHonoured
  <2>. QED
    BY <2>10, <2>11, <2>12, <2>13 DEF Covered
<1>9. ASSUME Reload \/ Restart PROVE ScheduleInv'
  <2>0. NewIndexer
    BY <1>9 DEF Reload, Restart
  <2>4. backoff' \in [Domains -> Nat] /\ power' \in [Domains -> Nat]
    BY <2>0 DEF NewIndexer
  <2>5. owed' \in [Domains -> Nat] /\ restarts' \in Nat
    BY <2>0 DEF NewIndexer, ScheduleTypeOK
  <2>6. stray' \subseteq Targets
    BY <1>9 DEF Reload, Restart, ScheduleTypeOK
  <2>1. ScheduleTypeOK'
    BY <2>0, <2>4, <2>5, <2>6 DEF NewIndexer, ScheduleTypeOK
  <2>2. Covered'
    BY <2>0 DEF NewIndexer, Covered
  <2>3. RetryAfterIsHonoured'
    BY <2>0 DEF NewIndexer, RetryAfterIsHonoured
  <2>. QED
    BY <2>1, <2>2, <2>3
<1>10. CASE StrayEnds
  BY <1>10 DEF StrayEnds, ScheduleTypeOK, Covered, RetryAfterIsHonoured
<1>11. CASE UNCHANGED scheduleVars
  BY <1>11 DEF scheduleVars, ScheduleTypeOK, Covered, RetryAfterIsHonoured
<1>. QED
  BY <1>1, <1>2, <1>3, <1>4, <1>5, <1>6, <1>7, <1>8, <1>9, <1>10, <1>11
     DEF ScheduleNext, Turn, RunEnds

\* The variables have their types: rests and pauses are never negative,
\* whatever the settings, the answers and the order of events.
THEOREM ScheduleTypeCorrect == ScheduleSpec => []ScheduleTypeOK
<1>1. ScheduleInv => ScheduleTypeOK
  BY DEF ScheduleInv
<1>. QED
  BY ScheduleInvInit, ScheduleInvNext, <1>1, PTL DEF ScheduleSpec

\* The indexer respects Retry-After when it is told and can store it: a domain
\* that named a time is left alone for it by the Indexer that was told, and the
\* target by any later one, while threads from before a reload still ask; what
\* those are told is no part of the claim.
THEOREM RetryAfterHonoured == ScheduleSpec => []RetryAfterIsHonoured
<1>1. ScheduleInv => RetryAfterIsHonoured
  BY DEF ScheduleInv
<1>. QED
  BY ScheduleInvInit, ScheduleInvNext, <1>1, PTL DEF ScheduleSpec
=============================================================================
