------------------------------ MODULE MCConsole ------------------------------
(* Console of an incident with up to two failure clusters; two calls of      *)
(* load() may be under way at the same time.  The clusters are symmetric, in *)
(* the liveness property too: it names none, and as a cluster only ever goes *)
(* forward, no cycle of states permutes them.                                *)
EXTENDS Console, TLC

Symmetry == Permutations(Clusters)
==============================================================================
