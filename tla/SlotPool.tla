------------------------------ MODULE SlotPool ------------------------------
(***************************************************************************)
(* What Fetcher.download_file promises of max_concurrent: a counting       *)
(* semaphore whose slots are each held by at most one download, from       *)
(* before its first attempt until after its last.  Fetcher implements it.  *)
(***************************************************************************)
EXTENDS Naturals

CONSTANTS Downloads, MaxConcurrent

VARIABLES free, holders

Init == free = MaxConcurrent /\ holders = {}

Take(d) ==
    /\ d \notin holders
    /\ free > 0
    /\ free' = free - 1
    /\ holders' = holders \cup {d}

Give(d) ==
    /\ d \in holders
    /\ free' = free + 1
    /\ holders' = holders \ {d}

Next == \E d \in Downloads : Take(d) \/ Give(d)

Spec == Init /\ [][Next]_<<free, holders>>
=============================================================================
