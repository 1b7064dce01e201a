------------------------- MODULE MCComposerSession -------------------------
(* Two calls at a time of a service with two sessions, in two workspaces;  *)
(* calls and workspaces are interchangeable.                               *)
EXTENDS ComposerSession, TLC

CONSTANTS c1, c2, w1, w2

MCCalls == {c1, c2}
MCWorkspaces == {w1, w2}

Interchangeable == Permutations(MCCalls) \cup Permutations(MCWorkspaces)
=============================================================================
