----------------------------- MODULE ChainEdges -----------------------------
(***************************************************************************)
(* Chains of dependent tasks: an edge reserves a task to be created once   *)
(* the task it depends on has completed, and `materialize` creates it.     *)
(* The calls of ChainWorkflowService and the refresh that reconciles the   *)
(* stored edges with tasks.yaml run concurrently, each with the snapshot   *)
(* of tasks.yaml it read when it began.                                    *)
(*                                                                         *)
(* The chain store is SQLite behind an open connection: ChainFileStore     *)
(* load, the pure mutation and ChainFileStore save follow each other       *)
(* without giving up the event loop, so they are one step here.  Reading   *)
(* tasks.yaml, enqueuing and git do give it up, and separate the steps.    *)
(***************************************************************************)
EXTENDS Naturals, FiniteSets

CONSTANTS
    Roots,          \* tasks that exist at start
    Spare,          \* names for tasks enqueued later, numbered as they are first given
    Settling,       \* bound: the tasks that end or are deleted
    Outside,        \* bound: the names that others give
    EnqueueModes,   \* what PLANETZ_ENQUEUE_MODE may be set to
    Calls,          \* invocations of ChainWorkflowService, each at most once
    Watcher,        \* the refresh that follows a change of tasks.yaml
    None,           \* no task, no chain, no call
    Settable,       \* bound: the statuses setChainEdgeStatus is called with
    TornReads       \* may a snapshot be taken in the middle of a write?

ASSUME DisjointAssumption ==
    /\ Roots \cup Spare \subseteq Nat /\ \A r \in Roots, s \in Spare : r < s
    /\ None \notin Roots \cup Spare \cup Calls
    /\ Watcher \notin Calls
ASSUME SettlingAssumption == Settling \cup Outside \subseteq Roots \cup Spare
ASSUME ModeAssumption == EnqueueModes \subseteq {"package_writer", "takt_add"}
ASSUME TornAssumption == TornReads \in BOOLEAN
ASSUME SettableAssumption ==
    Settable \subseteq {"waiting_for_dependency", "ready_to_create", "created", "blocked",
                        "invalid"}

VARIABLES
    tasks,      \* tasks.yaml: the status of each task, "absent" when not in it
    edges,      \* the chain_groups table, flattened: each edge with its chain
    flight,     \* materializeInFlight
    seen,       \* per process, its snapshot of tasks.yaml
    call,       \* per call: program counter, arguments and locals
    watch,      \* the watcher's program counter
    made,       \* history: what the task of each name was created for
    again       \* history: the names given again after a task was deleted

vars == <<tasks, edges, flight, seen, call, watch, made, again>>
history == <<made, again>>

Tasks == Roots \cup Spare
EdgeStatus == {"waiting_for_dependency", "ready_to_create", "created", "blocked", "invalid"}

\* A task in the file is open while it is queued or runs: chains do not tell
\* these apart, nor "exceeded" from "failed".
TaskStatus == {"absent", "open", "completed", "failed"}

\* A chain is named after the task its first edge starts from.  `plan` is the
\* call that reserved the task, None if that was before the app started: the
\* identity of the planned payload.
Edge == [chain : Tasks, from : Tasks, to : Tasks \cup {None},
         status : EdgeStatus, plan : Calls \cup {None}]

\* What a task was enqueued for: at once or for a reserved edge, for which plan,
\* and the status its upstream task had then; or by another command, or `takt`.
Origin == [op : {"now", "materialize", "elsewhere"}, plan : Calls \cup {None},
           upstream : TaskStatus]
ASSUME NoneAssumption == None \notin Origin

Present(snapshot) == {t \in Tasks : snapshot[t] # "absent"}
Torn == [t \in Tasks |-> "absent"]      \* readTasksFromYaml of a truncated file

-----------------------------------------------------------------------------
(* The pure functions of lib/chain.                                        *)

\* deriveEdgeStatusFromUpstream.
Derived(upstream) ==
    CASE upstream = "completed" -> "ready_to_create"
      [] upstream = "failed" -> "blocked"
      [] OTHER -> "waiting_for_dependency"

OnlyForward(current, upstream) ==
    CASE upstream = "completed" /\ current = "waiting_for_dependency" -> "ready_to_create"
      [] upstream = "failed" -> "blocked"
      [] OTHER -> current

\* syncEdgeStatusWithUpstream: a blocked edge is not unblocked by completion,
\* and a ready one whose upstream has not completed is taken back.
WithUpstream(current, upstream) ==
    CASE upstream = "completed" ->
            IF current = "waiting_for_dependency" THEN "ready_to_create" ELSE current
      [] upstream = "failed" -> "blocked"
      [] OTHER -> Derived(upstream)

\* syncChainGroupsWithTaskIds, then syncChainEdgeStatuses.
Synced(e, snapshot) ==
    IF {e.from, e.to} \ {None} \subseteq Present(snapshot)
    THEN IF e.status \in {"invalid", "created"} THEN e
         ELSE [e EXCEPT !.status = WithUpstream(@, snapshot[e.from])]
    ELSE [e EXCEPT !.status = "invalid"]

Sync(es, snapshot) == {Synced(e, snapshot) : e \in es}

\* edgeMatches, within a chain.
Matches(e, chain, from, to) == e.chain = chain /\ e.from = from /\ e.to = to
Without(es, chain, from, to) == {e \in es : ~Matches(e, chain, from, to)}

ChainsOf(es, t) == {e.chain : e \in {x \in es : t \in {x.from, x.to}}}
Exists(es, chain) == \E e \in es : e.chain = chain

\* upsertChainEdge with a chainId: a chain that is gone swallows the edge.
Upsert(es, e) ==
    IF Exists(es, e.chain) THEN Without(es, e.chain, e.from, e.to) \cup {e} ELSE es

\* upsertChainEdge without one: a chain the task is in, or a new one named after it.
UpsertAnywhere(es, e) ==
    IF ChainsOf(es, e.from) # {}
    THEN {Upsert(es, [e EXCEPT !.chain = k]) : k \in ChainsOf(es, e.from)}
    ELSE {es \cup {e}}

\* INSERT fails on a second group of the same id, which the save then reports.
IdTaken(es, from) == ChainsOf(es, from) = {} /\ Exists(es, from)

-----------------------------------------------------------------------------
(* What a call makes of the edges once its store step is reached: the set  *)
(* of possible outcomes, empty when the call throws.                       *)

Reserved(c) == [chain |-> call[c].from, from |-> call[c].from, to |-> None,
                status |-> Derived(seen[c][call[c].from]), plan |-> c]

Materialized(c) == [chain |-> call[c].from, from |-> call[c].from, to |-> call[c].to,
                    status |-> "created", plan |-> call[c].plan]

Link(es, c, e) ==
    IF call[c].chain # None THEN {Upsert(es, [e EXCEPT !.chain = call[c].chain])}
    ELSE IF IdTaken(es, e.from) THEN {} ELSE UpsertAnywhere(es, e)

UpdateInPlace(es, c) ==
    {Upsert(es, [e EXCEPT !.to = call[c].to, !.status = "created"]) :
        e \in {x \in es : Matches(x, call[c].chain, call[c].from, None)}}

\* updateEdge: the planned edge must still be there; it is found by
\* toTaskId = undefined, and the edge that replaces it has a toTaskId.
Update(es, c) ==
    IF \E e \in es : Matches(e, call[c].chain, call[c].from, None)
    THEN {Upsert(es, [Materialized(c) EXCEPT !.chain = call[c].chain])}
    ELSE {}

Marked(es, c) ==
    {IF Matches(e, call[c].chain, call[c].from, call[c].to)
     THEN [e EXCEPT !.status = call[c].status] ELSE e : e \in es}

Outcomes(es, c) ==
    CASE call[c].op = "reserve" -> Link(es, c, Reserved(c))
      [] call[c].op = "now" -> Link(es, c, Materialized(c))
      [] call[c].op = "materialize" -> Update(es, c)
      [] call[c].op = "removeChain" -> {{e \in es : e.chain # call[c].chain}}
      [] call[c].op = "removeEdge" -> {Without(es, call[c].chain, call[c].from, call[c].to)}
      [] call[c].op = "setStatus" -> {Marked(es, c)}

-----------------------------------------------------------------------------
(* The calls.                                                              *)

Snapshots == {tasks} \cup (IF TornReads THEN {Torn} ELSE {})

Forget(p) == seen' = [seen EXCEPT ![p] = Torn]     \* a snapshot nobody uses any more

Key(c) == <<call[c].chain, call[c].from>>
Goto(c, pc) == call' = [call EXCEPT ![c].pc = pc]

LandOnSuccess(c) ==
    flight' = IF call[c].op = "materialize" /\ call[c].pc = "reconcile"
              THEN flight \ {Key(c)} ELSE flight

\* `finally` takes the key of the call out of materializeInFlight.
Land(c) == flight' = IF call[c].op = "materialize" THEN flight \ {Key(c)} ELSE flight

End(c, pc) == Goto(c, pc) /\ Land(c)

\* A call starts; materialize refuses a key that is in flight.
Begin(c, op, chain, from, to, status) ==
    /\ call[c].pc = "idle"
    /\ op = "materialize" => <<chain, from>> \notin flight
    /\ call' = [call EXCEPT ![c] = [@ EXCEPT !.pc = "list", !.op = op, !.chain = chain,
                                    !.from = from, !.to = to, !.status = status]]
    /\ flight' = flight \cup (IF op = "materialize" THEN {<<chain, from>>} ELSE {})
    /\ UNCHANGED <<tasks, edges, seen, watch, history>>

NeedsOrigin == {"reserve", "now", "materialize"}
AfterList(op) == IF op = "materialize" THEN "check" ELSE IF op = "now" THEN "enqueue" ELSE "store"

\* chainSyncContext reads tasks.yaml; the task to start from must be there.
List(c) ==
    /\ call[c].pc = "list"
    /\ \E snapshot \in Snapshots :
        IF call[c].op \in NeedsOrigin /\ call[c].from \notin Present(snapshot)
        THEN End(c, "failed") /\ UNCHANGED seen
        ELSE /\ Goto(c, AfterList(call[c].op))
             /\ seen' = [seen EXCEPT ![c] = snapshot]
             /\ UNCHANGED flight
    /\ UNCHANGED <<tasks, edges, watch, history>>

Planned(c) == {e \in Sync(edges, seen[c]) : Matches(e, call[c].chain, call[c].from, None)}

CheckStored(c) ==
    /\ call[c].pc = "check"
    /\ IF \E e \in edges : Matches(e, call[c].chain, call[c].from, None)
       THEN Goto(c, "enqueue") /\ UNCHANGED <<flight, seen>>
       ELSE End(c, "failed") /\ Forget(c)
    /\ UNCHANGED <<tasks, edges, watch, history>>

\* materializeChainEdge: the planned edge of the key, if it is ready once the
\* stored edges are synced with the snapshot.  Without a planned edge the call
\* answers with a task created before, or throws; either way it changes nothing.
Check(c) ==
    /\ call[c].pc = "check"
    /\ \/ \E e \in Planned(c) :
            /\ e.status = "ready_to_create"
            /\ call' = [call EXCEPT ![c].pc = "enqueue", ![c].plan = e.plan]
            /\ UNCHANGED flight
            /\ UNCHANGED seen
       \/ /\ \A e \in Planned(c) : e.status # "ready_to_create"
          /\ End(c, "failed")
          /\ Forget(c)
    /\ UNCHANGED <<tasks, edges, watch, history>>

\* A new row: its name was never given before, or its last task has been deleted.
AddRow(t, origin) ==
    /\ tasks[t] = "absent" /\ \A u \in Tasks : u < t => made[u] # None
    /\ tasks' = [tasks EXCEPT ![t] = "open"]
    /\ made' = [made EXCEPT ![t] = origin]
    /\ again' = IF made[t] = None THEN again ELSE again \cup {t}

\* connector.enqueueTask.  The package writer avoids the names that the call has
\* seen and knows the one it gave; after `takt add` the name is looked for.
Enqueue(c) ==
    /\ call[c].pc = "enqueue"
    /\ \E t \in Tasks :
        /\ AddRow(t, [op |-> call[c].op, plan |-> call[c].plan,
                      upstream |-> tasks[call[c].from]])
        /\ \/ call[c].mode = "takt_add" /\ Goto(c, "discover")
           \/ /\ call[c].mode = "package_writer" /\ t \notin Present(seen[c])
              /\ call' = [call EXCEPT ![c].pc = "store", ![c].to = t]
    /\ UNCHANGED <<edges, flight, seen, watch>>

\* enqueueViaTaktAdd: the first listed id that the snapshot of the call lacks, if
\* any.  A name given again stands wherever its new row is.
Discover(c) ==
    /\ call[c].pc = "discover"
    /\ \E snapshot \in Snapshots :
        LET new == Present(snapshot) \ Present(seen[c])
        IN \/ \E t \in new :
                 /\ t \in again \/ \A u \in new \ again : t <= u
                 /\ call' = [call EXCEPT ![c].pc = "store", ![c].to = t]
                 /\ UNCHANGED <<flight, seen>>
           \/ new = {} /\ End(c, "failed") /\ Forget(c)
    /\ UNCHANGED <<tasks, edges, watch, history>>

EnqueueFails(c) ==
    /\ call[c].pc = "enqueue"
    /\ End(c, "failed")
    /\ Forget(c)
    /\ UNCHANGED <<tasks, edges, watch, history>>

\* ChainCoordinator: reload and sync, mutate, sync and save - with the
\* snapshot the call began with.
Store(c) ==
    LET loaded == Sync(edges, seen[c])
    IN /\ call[c].pc = "store"
       /\ \/ \E outcome \in Outcomes(loaded, c) :
                /\ edges' = Sync(outcome, seen[c])
                /\ Goto(c, "refresh")
                /\ UNCHANGED flight
          \/ /\ Outcomes(loaded, c) = {}
             /\ End(c, "failed")
             /\ UNCHANGED edges
       /\ Forget(c)
       /\ UNCHANGED <<tasks, watch, history>>

\* onAfterChainMutation: refreshState reads tasks.yaml again...
Refresh(c) ==
    /\ call[c].pc = "refresh"
    /\ \E snapshot \in Snapshots : seen' = [seen EXCEPT ![c] = snapshot]
    /\ Goto(c, "reconcile")
    /\ UNCHANGED <<tasks, edges, flight, watch, history>>

\* ...and, some awaits later, reconciles the edges with what it read.
Reconcile(c) ==
    /\ call[c].pc = "reconcile"
    /\ edges' = Sync(edges, seen[c])
    /\ Forget(c)
    /\ End(c, "done")
    /\ UNCHANGED <<tasks, watch, history>>

-----------------------------------------------------------------------------
(* The refresh on its own, started by the file watcher.                    *)

WatchRefresh ==
    /\ watch = "idle"
    /\ watch' = "reconcile"
    /\ \E snapshot \in Snapshots : seen' = [seen EXCEPT ![Watcher] = snapshot]
    /\ UNCHANGED <<tasks, edges, flight, call, history>>

WatchReconcile ==
    /\ watch = "reconcile"
    /\ watch' = "idle"
    /\ edges' = Sync(edges, seen[Watcher])
    /\ Forget(Watcher)
    /\ UNCHANGED <<tasks, flight, call, history>>

(* takt runs the tasks, the user deletes queued ones, other commands and   *)
(* `takt add` in a terminal enqueue.                                       *)
Advance(t, status) ==
    /\ tasks[t] = "open" /\ status # "open"
    /\ tasks' = [tasks EXCEPT ![t] = status]
    /\ UNCHANGED <<edges, flight, seen, call, watch, history>>

Elsewhere == [op |-> "elsewhere", plan |-> None, upstream |-> "absent"]

EnqueueElsewhere ==
    /\ \E t \in Outside : AddRow(t, Elsewhere)
    /\ UNCHANGED <<edges, flight, seen, call, watch>>

-----------------------------------------------------------------------------
\* An edge reserved in an earlier session.
Waiting(t) == [chain |-> t, from |-> t, to |-> None,
               status |-> "waiting_for_dependency", plan |-> None]

Init ==
    /\ tasks = [t \in Tasks |-> IF t \in Roots THEN "open" ELSE "absent"]
    /\ edges \in {{}} \cup {{Waiting(t)} : t \in Roots}
    /\ flight = {} /\ watch = "idle"
    /\ seen = [p \in Calls \cup {Watcher} |-> Torn]
    /\ \E mode \in EnqueueModes :
         call = [c \in Calls |-> [pc |-> "idle", op |-> "none", mode |-> mode, chain |-> None,
                                  from |-> None, to |-> None, status |-> "invalid",
                                  plan |-> c]]
    /\ made = [t \in Tasks |-> IF t \in Roots THEN Elsewhere ELSE None]
    /\ again = {}

\* The calls the user interface offers, on the tasks and edges there are when
\* they are made; other calls may have removed those by the time it matters.
Ask(c) ==
    \/ \E op \in {"reserve", "now"}, from \in Present(tasks) :
            \E chain \in ChainsOf(edges, from) \cup {None} :
                Begin(c, op, chain, from, None, "invalid")
    \/ \E e \in edges :
            \/ e.to = None /\ Begin(c, "materialize", e.chain, e.from, None, "invalid")
            \/ Begin(c, "removeChain", e.chain, None, None, "invalid")
            \/ Begin(c, "removeEdge", e.chain, e.from, e.to, "invalid")
            \/ \E status \in Settable :
                    Begin(c, "setStatus", e.chain, e.from, e.to, status)

Step(c) ==
    \/ List(c) \/ Check(c) \/ Enqueue(c) \/ EnqueueFails(c) \/ Discover(c)
    \/ Store(c) \/ Refresh(c) \/ Reconcile(c)

Next ==
    \/ \E c \in Calls : Ask(c) \/ Step(c)
    \/ WatchRefresh \/ WatchReconcile
    \/ \E t \in Settling, status \in TaskStatus : Advance(t, status)
    \/ EnqueueElsewhere

Spec == Init /\ [][Next]_vars

-----------------------------------------------------------------------------
Operations == {"reserve", "now", "materialize", "removeChain", "removeEdge", "setStatus"}
Pcs == {"idle", "list", "check", "enqueue", "discover", "store", "refresh", "reconcile",
        "done", "failed"}
CallRecord == [pc : Pcs, op : Operations \cup {"none"},
               mode : {"package_writer", "takt_add"}, chain : Tasks \cup {None},
               from : Tasks \cup {None}, to : Tasks \cup {None}, status : EdgeStatus,
               plan : Calls \cup {None}]

TypeOK ==
    /\ tasks \in [Tasks -> TaskStatus]
    /\ edges \subseteq Edge
    /\ flight \subseteq Tasks \X Tasks
    /\ seen \in [Calls \cup {Watcher} -> [Tasks -> TaskStatus]]
    /\ call \in [Calls -> CallRecord]
    /\ watch \in {"idle", "reconcile"}
    /\ made \in [Tasks -> {None} \cup Origin]
    /\ again \subseteq Tasks

(* A reserved task is created only once the task it depends on completed,  *)
(* whatever stale or torn snapshot the call works with and whatever status *)
(* the user has set on the edge.                                           *)
CreatedAfterUpstream ==
    \A t \in Tasks :
        made[t] # None /\ made[t].op = "materialize" => made[t].upstream = "completed"

(* A stored edge that says ready really waits for nothing any more.        *)
ReadyNeedsCompletedUpstream ==
    \A e \in edges : e.status = "ready_to_create" => tasks[e.from] = "completed"

(* No edge leads from a task to itself, and but for names given again each *)
(* leads to a task enqueued after the one it depends on, so that chains    *)
(* have no cycle; and with the package writer, to the one that was created *)
(* for the plan the edge carries, not for one that lost a race.  With      *)
(* `takt add` it may be the task of another call.                          *)
LinksAreReal ==
    \A e \in edges : e.to # None =>
        /\ made[e.to] # None /\ e.to # e.from
        /\ e.to \notin again =>
             /\ e.from < e.to
             /\ (\A c \in Calls : call[c].mode = "package_writer") => made[e.to].plan = e.plan

(* While a call creates the task of an edge no other one may: every key in *)
(* materializeInFlight belongs to exactly one materialize that still runs. *)
FlightsAreExclusive ==
    \A k \in Tasks \X Tasks :
        LET holders == {c \in Calls : call[c].op = "materialize" /\ Key(c) = k
                                      /\ call[c].pc \notin {"done", "failed"}}
        IN Cardinality(holders) = IF k \in flight THEN 1 ELSE 0

(* A reserved task is created once: materializing its edge again finds the *)
(* task that is there.                                                     *)
PlanCreatedOnce ==
    \A s, t \in Tasks :
        made[s] # None /\ made[t] # None /\ s # t
        /\ made[s].op = "materialize" /\ made[t].op = "materialize"
            => made[s].plan # made[t].plan
=============================================================================
