----------------------------- MODULE MCShareTree -----------------------------
(* A share that may be written beside one that may not, over one cachelink    *)
(* each; the row below a cachelink is one that the tree of rows swallows.     *)
EXTENDS ShareTree, TLC

MCPaths ==
    {<<>>, <<"a">>, <<"a", "a">>, <<"a", "b">>, <<"a", "a", "a">>, <<"b">>, <<"b", "a">>}
MCTargets == {<<"a", "a">>, <<"b", "a">>}
MCShares ==
    {[front |-> <<"a">>, base |-> <<"a">>, writable |-> TRUE, overlay |-> TRUE],
     [front |-> <<"b">>, base |-> <<"b">>, writable |-> FALSE, overlay |-> TRUE]}
MCPolicy == [s \in MCShares |-> [u \in Users |->
                CASE u = "writer" -> Permissions [] u = "plain" -> {"read", "write"}
                  [] u = "reader" -> {"read"}]]
MCRows == {<<"a">>, <<"b">>, <<"a", "a">>}
MCFile == {[path |-> <<"a">>, dir |-> FALSE]}
MCFolder == {[path |-> <<"a", "a">>, dir |-> FALSE], [path |-> <<"b">>, dir |-> TRUE]}
MCListings == (<<"a">> :> {MCFile, MCFolder}) @@ (<<"b">> :> {MCFile})
                @@ (<<"a", "a">> :> {MCFile})
MCSymmetry == Permutations(Requests)
=============================================================================
