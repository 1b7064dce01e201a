------------------------- MODULE ExclusiveSection -------------------------
(***************************************************************************)
(* What `withTasksYamlLock` promises its callers: an exclusive section per *)
(* file path, entered in the order in which the calls were made.  The      *)
(* promise chain that provides it is in TasksYamlLock, which implements    *)
(* this module.                                                            *)
(***************************************************************************)

CONSTANTS
    Calls,      \* the invocations of withTasksYamlLock
    Keys,       \* lock keys: absolute paths of tasks.yaml files
    KeyOf       \* the key each call passes, a function from Calls to Keys

VARIABLES
    stage,      \* where each call is: "idle", "waiting", "inside" or "left"
    ahead       \* per call, the calls of its key that were active when it arrived

vars == <<stage, ahead>>

Stages == {"idle", "waiting", "inside", "left"}

\* A call that holds the section of key k or waits for it.
Active(k) == {c \in Calls : KeyOf[c] = k /\ stage[c] \in {"waiting", "inside"}}

Init ==
    /\ stage = [c \in Calls |-> "idle"]
    /\ ahead = [c \in Calls |-> {}]

Request(c) ==
    /\ stage[c] = "idle"
    /\ stage' = [stage EXCEPT ![c] = "waiting"]
    /\ ahead' = [ahead EXCEPT ![c] = Active(KeyOf[c])]

\* First come, first served: whoever was there before has left.
Enter(c) ==
    /\ stage[c] = "waiting"
    /\ \A d \in ahead[c] : stage[d] = "left"
    /\ stage' = [stage EXCEPT ![c] = "inside"]
    /\ UNCHANGED ahead

Leave(c) ==
    /\ stage[c] = "inside"
    /\ stage' = [stage EXCEPT ![c] = "left"]
    /\ UNCHANGED ahead

Next == \E c \in Calls : Request(c) \/ Enter(c) \/ Leave(c)

Spec == Init /\ [][Next]_vars

\* Nobody who is let in stays inside, and nobody who may enter is forgotten.
Fairness == \A c \in Calls : WF_vars(Enter(c)) /\ WF_vars(Leave(c))

FairSpec == Spec /\ Fairness
===========================================================================
