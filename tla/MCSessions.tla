----------------------------- MODULE MCSessions -----------------------------
(* Two request threads and two accounts. *)
EXTENDS Sessions, TLC

MCImported == [u \in Users |-> IF u = "admin" THEN "none" ELSE "webdav"]
MCSymmetry == Permutations(Threads)
=============================================================================
