----------------------------- MODULE MCZipCache ------------------------------
(* Constants and a constraint for checking ZipCache on small instances.    *)
EXTENDS ZipCache

CONSTANTS r1, r2, r3, a1

ThreeRequests == {r1, r2, r3}
OneArchive == {a1}

\* Requests, and providers of the same settings, differ by their names only, so
\* that it is enough to look at requests in one order of their first steps, the
\* first one of the first provider.  No step reads a checksum row, the mark for
\* a reindex or what a job that ended left in the staging area: what comes
\* after they were written is what comes where they were not.
MCUpToNames ==
    /\ pc[r2] # "idle" => pc[r1] # "idle"
    /\ pc[r3] # "idle" => pc[r2] # "idle"
    /\ home[r1] = 1
    /\ oneAtATime[1] = oneAtATime[2] /\ oversize[1] = oversize[2]
    /\ \A p \in Paths : checksum[p] = None
    /\ \A r \in zips : pc[r] # "done"
    /\ ~needsFull
=============================================================================
