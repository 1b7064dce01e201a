-------------------------- MODULE MCTasksYamlLock --------------------------
(* Four calls contend for one tasks.yaml while a fifth uses another.       *)
EXTENDS TasksYamlLock

CONSTANTS c1, c2, c3, c4, c5, main, isolated

MCCalls == {c1, c2, c3, c4, c5}
MCKeys == {main, isolated}
MCKeyOf == [c \in MCCalls |-> IF c = c5 THEN isolated ELSE main]
=============================================================================
