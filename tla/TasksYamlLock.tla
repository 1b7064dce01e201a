--------------------------- MODULE TasksYamlLock ---------------------------
(***************************************************************************)
(* lib/tasks-yaml-lock.ts: the promise chain that serializes every         *)
(* read-modify-write of a tasks.yaml file inside the Electron main process.*)
(*                                                                         *)
(* A call appends its own `next` promise to the tail it finds in the       *)
(* `queues` map, waits for that tail, runs `fn`, opens its gate and, when  *)
(* no later call has replaced it as the tail, removes the map entry.       *)
(* A promise does not settle in the step that resolves what it waits for:  *)
(* `next = tail.then(() => gate)` settles in a later microtask, and only   *)
(* then can the call behind it resume.  Those microtasks are steps here.   *)
(***************************************************************************)
EXTENDS FiniteSets

CONSTANTS
    Calls,      \* invocations of withTasksYamlLock, each made at most once
    Keys,       \* lock keys: absolute paths of tasks.yaml files
    KeyOf,      \* the key each call passes
    NoCall      \* Promise.resolve(): the tail of a key absent from the map

ASSUME KeyOfAssumption == KeyOf \in [Calls -> Keys]
ASSUME NoCallAssumption == NoCall \notin Calls

VARIABLES
    stage,      \* each call's program counter: "idle", "waiting" (await tail),
                \* "inside" (fn runs) or "left" (the gate is open)
    queues,     \* the map: per key the call whose `next` is the tail, or NoCall
    tail,       \* per call, the call whose `next` it awaits, or NoCall
    settled,    \* the calls whose `next` promise has settled
    ahead       \* history: the calls of the same key active when it arrived

vars == <<stage, queues, tail, settled, ahead>>

Active(k) == {c \in Calls : KeyOf[c] = k /\ stage[c] \in {"waiting", "inside"}}

\* The promise of call t has settled; an absent tail is a resolved promise.
Resolved(t) == t = NoCall \/ t \in settled

Init ==
    /\ stage = [c \in Calls |-> "idle"]
    /\ queues = [k \in Keys |-> NoCall]
    /\ tail = [c \in Calls |-> NoCall]
    /\ settled = {}
    /\ ahead = [c \in Calls |-> {}]

\* The synchronous prefix of the function, up to `await tail`.
Request(c) ==
    /\ stage[c] = "idle"
    /\ tail' = [tail EXCEPT ![c] = queues[KeyOf[c]]]
    /\ queues' = [queues EXCEPT ![KeyOf[c]] = c]
    /\ stage' = [stage EXCEPT ![c] = "waiting"]
    /\ ahead' = [ahead EXCEPT ![c] = Active(KeyOf[c])]
    /\ UNCHANGED settled

\* `await tail` resumes and `fn` starts.
Enter(c) ==
    /\ stage[c] = "waiting"
    /\ Resolved(tail[c])
    /\ stage' = [stage EXCEPT ![c] = "inside"]
    /\ UNCHANGED <<queues, tail, settled, ahead>>

\* Removing the entry without asking whether a later call is now the tail.
ForgetAlways(c) == [queues EXCEPT ![KeyOf[c]] = NoCall]

\* The map after the finally block of c: the entry goes only if it is still c's.
Forget(c) ==
    [queues EXCEPT ![KeyOf[c]] = IF @ = c THEN NoCall ELSE @]

\* Opening the gate only when the call is still the tail of its key.
LeaveWhenTail(c) ==
    /\ stage[c] = "inside"
    /\ queues[KeyOf[c]] = c
    /\ stage' = [stage EXCEPT ![c] = "left"]
    /\ queues' = Forget(c)
    /\ UNCHANGED <<tail, settled, ahead>>

\* `fn` has returned or thrown: the finally block runs as one synchronous step.
Leave(c) ==
    /\ stage[c] = "inside"
    /\ stage' = [stage EXCEPT ![c] = "left"]
    /\ queues' = Forget(c)
    /\ UNCHANGED <<tail, settled, ahead>>

\* Settling as soon as the tail does, without waiting for the gate.
SettleWithoutGate(c) ==
    /\ stage[c] # "idle"
    /\ c \notin settled
    /\ Resolved(tail[c])
    /\ settled' = settled \cup {c}
    /\ UNCHANGED <<stage, queues, tail, ahead>>

\* `next` settles: the tail it chains on has settled and the gate is open.
Settle(c) ==
    /\ stage[c] = "left"
    /\ c \notin settled
    /\ Resolved(tail[c])
    /\ settled' = settled \cup {c}
    /\ UNCHANGED <<stage, queues, tail, ahead>>

Step(c) == Enter(c) \/ Leave(c) \/ Settle(c)

Next == \E c \in Calls : Request(c) \/ Step(c)

Spec == Init /\ [][Next]_vars

\* The event loop runs every ready microtask, and `fn` is file I/O that ends.
Fairness == \A c \in Calls : WF_vars(Enter(c)) /\ WF_vars(Leave(c)) /\ WF_vars(Settle(c))

FairSpec == Spec /\ Fairness
-----------------------------------------------------------------------------
TypeOK ==
    /\ stage \in [Calls -> {"idle", "waiting", "inside", "left"}]
    /\ queues \in [Keys -> Calls \cup {NoCall}]
    /\ tail \in [Calls -> Calls \cup {NoCall}]
    /\ settled \in SUBSET Calls
    /\ ahead \in [Calls -> SUBSET Calls]

(* Two calls on one tasks.yaml are never inside fn at the same time: the   *)
(* read-modify-write of one cannot straddle that of the other.             *)
MutualExclusion ==
    \A c, d \in Calls :
        c # d /\ KeyOf[c] = KeyOf[d] => ~(stage[c] = "inside" /\ stage[d] = "inside")

(* The promise chain grants the section in call order: a call that runs or *)
(* has run was preceded out of the section by every call of its key that   *)
(* was active when it arrived, however the microtasks interleave.          *)
FirstComeFirstServed ==
    \A c \in Calls :
        stage[c] \in {"inside", "left"} => \A d \in ahead[c] : stage[d] = "left"

(* The map entry is dropped exactly when the key is idle: dropping it any  *)
(* earlier lets the next call start a second chain, dropping it any later  *)
(* leaks one entry per path.                                               *)
EntryIffActive ==
    \A k \in Keys : queues[k] = NoCall <=> Active(k) = {}

(* The section the callers see: where each call is and whom it waits for;  *)
(* the map of tails, the captured tails and the settled promises are how   *)
(* the chain keeps it.                                                     *)
Abstract == INSTANCE ExclusiveSection WITH
                Calls <- Calls, Keys <- Keys, KeyOf <- KeyOf,
                stage <- stage, ahead <- ahead

(* The chain implements the first-come-first-served exclusive section,     *)
(* with its fairness: no call is starved by later ones.                    *)
ImplementsExclusiveSection == Abstract!FairSpec

(* Every call that asked for the file eventually runs and leaves.          *)
EveryCallLeaves ==
    \A c \in Calls : stage[c] = "waiting" ~> stage[c] = "left"
=============================================================================
