--------------------------- MODULE MCIntentLedger ---------------------------
(* Two passes that overlap or follow each other, the second of which may   *)
(* be of the next session, and two adoptions at a time.                    *)
EXTENDS IntentLedger, TLC

CONSTANTS u1, u2

MCUsers == {u1, u2}
Interchangeable == Permutations(MCUsers)
=============================================================================
