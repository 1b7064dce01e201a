------------------------- MODULE MCWorkspaceWatch -------------------------
(***************************************************************************)
(* An instance of WorkspaceWatch: one workspace, closed, reopened and      *)
(* restored after crashes, with two commands in flight.                    *)
(***************************************************************************)
EXTENDS WorkspaceWatch, TLC

CONSTANTS a, c1, c2, p1, p2, p3

\* Processes are interchangeable: no definition tells one pid from another.
PidSymmetry == Permutations({p1, p2, p3})
===========================================================================
