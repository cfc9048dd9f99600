---------------------------- MODULE MCDownloadQueue ----------------------------
(* Constants for checking DownloadQueue on small instances.                *)
EXTENDS DownloadQueue

CONSTANTS j1, j2, u1, p1, p2

TwoJobs == {j1, j2}
OneUrl == {u1}
TwoPaths == {p1, p2}
OnePath == {p1}
SameUrl == [j \in Jobs |-> u1]
OwnPaths == [j \in Jobs |-> IF j = j1 THEN p1 ELSE p2]
FirstChecked == {j1}

\* A second job is looked at while the first thread is the only one and at most
\* one fault has happened; reloads, restarts and more faults with one job.
MCOneTrouble == status[j2] = "new" \/ (current = 1 /\ faults <= 1)
=============================================================================
