---------------------------- MODULE MCTasksFile ----------------------------
(* Two commands of any kind, and a third that deletes or, the workspace    *)
(* being opened, migrates, over a file with up to two rows from before,    *)
(* and one takt process that run now can start.  The two commands and the  *)
(* seed rows are interchangeable, so the safety run is taken up to         *)
(* permutation.                                                            *)
EXTENDS TasksFile, TLC

CONSTANTS c1, c2, c3, s1, s2, p1

MCCommands == {c1, c2, c3}
TwoCommands == {c1, c2}
MCSeeds == {s1, s2}
OneSeed == {s1}
MCPids == {p1}

Modes == {"package_writer", "takt_add"}

AnyOperation == [c \in TwoCommands |-> Ops]
OneIsLimited == [c \in MCCommands |-> IF c = c3 THEN {"delete", "migrate"}
                                   ELSE Ops \ {"migrate"}]

Interchangeable == Permutations(TwoCommands) \cup Permutations(MCSeeds)
=============================================================================
