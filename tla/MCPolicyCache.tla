--------------------------- MODULE MCPolicyCache ---------------------------
(* Three policy files in a cache of two entries, so that entries are evicted *)
(* while others are stale, reloaded or nameless.                             *)
EXTENDS PolicyCache, TLC

CONSTANTS f1, f2, f3, good1, good2, bad

MCFiles == {f1, f2, f3}
MCContents == {good1, good2, bad}
MCValid == {good1, good2}

Interchangeable == Permutations(MCFiles) \cup Permutations(MCValid)
=============================================================================
