-------------------------- MODULE MCChatThreadSend --------------------------
(* Two sends, one of which may be left behind, two loads, and one thread   *)
(* more than the two there are.                                            *)
EXTENDS ChatThreadSend

CONSTANTS s1, s2, l1, l2

MCSends == {s1, s2}
MCLoads == {l1, l2}
=============================================================================
