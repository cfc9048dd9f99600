---------------------------- MODULE MCReadThrough ----------------------------
(* Constants for checking ReadThrough on small instances.                  *)
EXTENDS ReadThrough, TLC

CONSTANTS f1, r1, r2, r3

OneFile == {f1}
ThreeRequests == {r1, r2, r3}

AnyRequest == Permutations(ThreeRequests)
=============================================================================
