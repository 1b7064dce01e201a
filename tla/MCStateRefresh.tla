--------------------------- MODULE MCStateRefresh ---------------------------
(* One task, refreshes of the watcher that overlap each other and those of *)
(* commands, and file events that may get lost.                            *)
EXTENDS StateRefresh

CONSTANTS t1, w1, w2, a1

OneTask == {t1}
MCWatched == {w1, w2}
MCAsked == {a1}
=============================================================================
