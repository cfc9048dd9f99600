----------------------------- MODULE MCSchedule -----------------------------
(* Constants for checking Schedule on small instances. *)
EXTENDS Schedule

CONSTANTS t1, t2, t3, d1, d2

\* The first and the last target are of one domain.
MCDomainOf == [t \in Targets |-> IF t = t2 THEN d2 ELSE d1]
MCRank == [t \in Targets |-> IF t = t1 THEN 1 ELSE IF t = t2 THEN 2 ELSE 3]
=============================================================================
