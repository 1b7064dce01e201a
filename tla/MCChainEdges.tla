---------------------------- MODULE MCChainEdges ----------------------------
(* One task to depend on, which ends or is deleted, so that its name may   *)
(* be given again; two names for the tasks created later, of which others  *)
(* may give one; two calls.                                                *)
EXTENDS ChainEdges, TLC

CONSTANTS k1, k2

OneRoot == {1}
TwoSpares == {2, 3}
TwoCalls == {k1, k2}

Modes == {"package_writer", "takt_add"}

Interchangeable == Permutations(TwoCalls)
=============================================================================
