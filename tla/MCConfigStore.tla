----------------------------- MODULE MCConfigStore -----------------------------
(* Constants for checking ConfigStore on small instances.                  *)
EXTENDS ConfigStore, TLC

CONSTANTS e1, e2, u, v

\* Two folders at the root, the first with a cachelink in it; a cachelink that
\* an import may give twice.
MCLinks == 1..3
MCFolderOf == <<0, 0, 1>>
MCFirstLinks == {Row(1, NoUrl), Row(2, u), Row(3, v)}
MCImports == {<<Row(2, u), Row(3, u)>>, <<Row(1, u), Row(2, u), Row(3, v)>>}

Stored(set, kept) == [set |-> set, kept |-> kept]
MCFirstTables ==
    [shares |-> "a" :> Stored(TRUE, {"x"}) @@ "b" :> Stored(TRUE, {"x"}),
     paths |-> "backend_a" :> Stored(TRUE, {}) @@ "datadir_1" :> Stored(TRUE, {}),
     limits |-> "limits" :> Stored(TRUE, {})]
MCPayloads ==
    {[shares |-> "b" :> FALSE],
     [paths |-> "datadir_1" :> FALSE, limits |-> "limits" :> FALSE,
      shares |-> "a" :> FALSE @@ "b" :> TRUE]}
MCRank == [paths |-> 1, limits |-> 2, shares |-> 3]
=============================================================================
