-------------------------- MODULE WorkspaceSwitch --------------------------
(***************************************************************************)
(* Opening, switching and closing workspaces (WorkspaceOpenService), with  *)
(* the cache of SQLite connections and the state refreshes that are under  *)
(* way meanwhile.  Transitions wait for each other in a promise queue;     *)
(* refreshes do not: they hold the paths they started with and read the    *)
(* shared port again after each await.  A transition asked for by path     *)
(* (openWorkspace, teardownWorkspaceRuntime) begins at once to stop what   *)
(* runs; one from the list of recent workspaces or for the last one opened *)
(* looks first whether there is such a directory.                          *)
(*                                                                         *)
(* A step is what runs between two awaits that leave the event loop.       *)
(* Production mode (no mock queue).                                        *)
(***************************************************************************)
EXTENDS Naturals, FiniteSets, WorkspacePaths

CONSTANTS
    MaxTransitions, \* bound: calls that open or close a workspace
    Askable,        \* per transition, the calls it may be a request of
    MaxLeaks,       \* bound: per workspace, connections leaked
    Refreshes       \* slots for refreshes of the watcher and of commands

VARIABLES
    path, side, config, tools,  \* port.workspacePath, .sidecarPaths, .config, .connector
    cached,     \* port.cachedState
    conn,       \* sqliteConnections: the workspaces with a connection
    promised,   \* sqliteOpenPromises: the workspaces with a promise
    opens,      \* per workspace, the connections being created
    handles,    \* per workspace, the open DatabaseSync objects
    leaked,     \* per workspace, those of them whose initialization has thrown
    requested,  \* how many transitions have been requested: 1 is the oldest
    job,        \* per transition, its stage, the call it is of and its target
    refresh     \* per refresh, its stage and what it holds

portVars == <<path, side, config, tools>>
dbVars == <<conn, promised, opens, handles, leaked>>
vars == <<portVars, cached, dbVars, requested, job, refresh>>

ASSUME NoneIsNoWorkspace == {None, "switching"} \cap Workspaces = {} /\ None # "switching"
ASSUME BoundAssumption == MaxTransitions \in Nat /\ MaxLeaks \in Nat

Transitions == 1..MaxTransitions
Refreshers == Refreshes \cup Transitions    \* an open ends with a refresh of its own
NoRefresh == [pc |-> "idle", ws |-> None, label |-> None]

\* cachedState: whose tasks it shows and under which workspace, or half an object.
NoState == [kind |-> "null", tasks |-> None, label |-> None]
HalfState == [kind |-> "half", tasks |-> None, label |-> None]
FullState(r) == [kind |-> "full", tasks |-> refresh[r].ws, label |-> refresh[r].label]

Paths == Workspaces \cup {None}

\* openWorkspace or teardownWorkspaceRuntime (None), openRecentWorkspace, and
\* openLastWorkspaceIfAvailable, which does not know its target yet.
Asked == [how : {"switch"}, ws : Paths] \cup [how : {"recent"}, ws : Workspaces]
            \cup [how : {"last"}, ws : {None}]

ASSUME AskableAssumption == Askable \in [Transitions -> SUBSET Asked]

\* Refused: the call threw or answered null before it touched the port.
Ended == {"done", "failed", "refused"}

\* The transition that is changing the port.
Running == {t \in Transitions : job[t].pc \notin {"idle", "waiting", "look"} \cup Ended}

Init ==
    /\ path = None /\ side = None /\ config = None /\ tools = None
    /\ cached = NoState
    /\ conn = {}
    /\ promised = {}
    /\ opens = [w \in Workspaces |-> 0]
    /\ handles = [w \in Workspaces |-> 0]
    /\ leaked = [w \in Workspaces |-> 0]
    /\ requested = 0
    /\ job = [t \in Transitions |-> [pc |-> "idle", how |-> "switch", ws |-> None]]
    /\ refresh = [r \in Refreshers |-> NoRefresh]

GoTo(t, pc) == job' = [job EXCEPT ![t].pc = pc]
Proceed(r, pc) == refresh' = [refresh EXCEPT ![r].pc = pc]
-----------------------------------------------------------------------------
\* The connection cache

\* A variant of Connect that looks in the cache only.
ConnectAlways(w) ==
    /\ IF w \in conn
       THEN UNCHANGED <<promised, opens>>
       ELSE /\ promised' = promised \cup {w}
            /\ opens' = [opens EXCEPT ![w] = @ + 1]
    /\ UNCHANGED <<conn, handles, leaked>>

\* `openSidecarSqlite`: the cached connection, else the promise of one being created.
Connect(w) ==
    /\ IF w \in conn \cup promised
       THEN UNCHANGED <<promised, opens>>
       ELSE /\ promised' = promised \cup {w}
            /\ opens' = [opens EXCEPT ![w] = @ + 1]
    /\ UNCHANGED <<conn, handles, leaked>>

\* `createSqliteConnection` has made the directory and the schema.
Connected(w) ==
    /\ opens[w] > 0
    /\ opens' = [opens EXCEPT ![w] = @ - 1]
    /\ handles' = [handles EXCEPT ![w] = @ + 1]
    /\ conn' = conn \cup {w}
    /\ promised' = promised \ {w}
    /\ UNCHANGED <<leaked, portVars, cached, requested, job, refresh>>

\* The directory or the file cannot be opened; or the file is open and the pragmas
\* or the schema throw: nobody closes that object, no map holds it.
ConnectFails(w) ==
    /\ opens[w] > 0
    /\ opens' = [opens EXCEPT ![w] = @ - 1]
    /\ \/ UNCHANGED <<handles, leaked>>
       \/ /\ leaked[w] < MaxLeaks
          /\ handles' = [handles EXCEPT ![w] = @ + 1]
          /\ leaked' = [leaked EXCEPT ![w] = @ + 1]
    /\ promised' = promised \ {w}
    /\ UNCHANGED <<conn, portVars, cached, requested, job, refresh>>

\* `closeSidecarSqlite` closes a cached connection; one being created is left to it.
Close(w) ==
    IF w \in conn
    THEN /\ conn' = conn \ {w}
         /\ promised' = promised \ {w}
         /\ handles' = [handles EXCEPT ![w] = @ - 1]
         /\ UNCHANGED <<opens, leaked>>
    ELSE UNCHANGED dbVars
-----------------------------------------------------------------------------
\* Transitions

Request(t, q) ==
    /\ t = requested + 1
    /\ requested' = t
    /\ job' = [job EXCEPT ![t] = [pc |-> "waiting", how |-> q.how, ws |-> q.ws]]
    /\ UNCHANGED <<portVars, cached, dbVars, refresh>>

Before(t) == {u \in Transitions : u < t}

FirstStage(t) == IF job[t].how = "switch" THEN "stop" ELSE "look"

\* A variant of Turn that goes on only after success: `then(action)`.
TurnAfterSuccess(t) ==
    /\ job[t].pc = "waiting"
    /\ \A u \in Before(t) : job[u].pc = "done"
    /\ GoTo(t, FirstStage(t))
    /\ UNCHANGED <<portVars, cached, dbVars, requested, refresh>>

\* A variant of Turn without the queue.
TurnAtOnce(t) ==
    /\ job[t].pc = "waiting"
    /\ GoTo(t, FirstStage(t))
    /\ UNCHANGED <<portVars, cached, dbVars, requested, refresh>>

\* `runExclusiveWorkspaceTransition`: after every earlier one, settled either way.
\* It starts to stop the watchers and the integrations of the old workspace, or to
\* look for the directory of the new one.
Turn(t) ==
    /\ job[t].pc = "waiting"
    /\ \A u \in Before(t) : job[u].pc \in Ended
    /\ GoTo(t, FirstStage(t))
    /\ UNCHANGED <<portVars, cached, dbVars, requested, refresh>>

\* Forget the old workspace, close its database.
Teardown ==
    /\ tools' = None
    /\ cached' = NoState
    /\ IF side = None THEN UNCHANGED dbVars ELSE Close(side)
    /\ side' = None
    /\ config' = None

\* The directory is there; the last one opened is what the session store says.
Look(t) ==
    /\ job[t].pc = "look"
    /\ \E w \in Workspaces :
         /\ job[t].how = "recent" => w = job[t].ws
         /\ job' = [job EXCEPT ![t].pc = "stop", ![t].ws = w]
    /\ UNCHANGED <<portVars, cached, dbVars, requested, refresh>>

\* A variant of NotThere that has closed the old workspace by then.
NotThereAnyMore(t) ==
    /\ job[t].pc = "look"
    /\ Teardown
    /\ path' = None
    /\ GoTo(t, "refused")
    /\ UNCHANGED <<requested, refresh>>

\* It is not, or there is none to look for: the open workspace stays.
NotThere(t) ==
    /\ job[t].pc = "look"
    /\ GoTo(t, "refused")
    /\ UNCHANGED <<portVars, cached, dbVars, requested, refresh>>

\* What runs has stopped.
Stopped(t) ==
    /\ job[t].pc = "stop"
    /\ Teardown
    /\ path' = job[t].ws
    /\ GoTo(t, IF job[t].ws = None THEN "done" ELSE "paths")
    /\ UNCHANGED <<requested, refresh>>

\* The isolated repository is there and the sidecar paths are resolved.
Resolve(t) ==
    /\ job[t].pc = "paths"
    /\ side' = job[t].ws
    /\ Connect(job[t].ws)
    /\ GoTo(t, "database")
    /\ UNCHANGED <<path, config, tools, cached, requested, refresh>>

\* The promise of the connection is fulfilled; a closed one would throw (Fail).
LoadConfig(t) ==
    /\ job[t].pc = "database"
    /\ job[t].ws \in conn
    /\ config' = job[t].ws
    /\ GoTo(t, "services")
    /\ UNCHANGED <<path, side, tools, cached, dbVars, requested, refresh>>

\* Migrations and bootstraps are done: connector, watch manager, then the first refresh.
CreateServices(t) ==
    /\ job[t].pc = "services"
    /\ tools' = job[t].ws
    /\ refresh' = [refresh EXCEPT ![t] = [pc |-> "load", ws |-> side, label |-> None]]
    /\ GoTo(t, "refresh")
    /\ UNCHANGED <<path, side, config, cached, dbVars, requested>>

Opened(t) ==
    /\ job[t].pc = "refresh"
    /\ refresh[t].pc = "done"
    /\ refresh' = [refresh EXCEPT ![t] = NoRefresh]
    /\ GoTo(t, "done")
    /\ UNCHANGED <<portVars, cached, dbVars, requested>>

\* A variant of Fail that leaves the half-opened workspace behind.
FailBare(t) ==
    /\ job[t].pc \in {"paths", "database", "services", "refresh"}
    /\ job[t].pc = "refresh" => refresh[t].pc = "failed"
    /\ GoTo(t, "failed")
    /\ refresh' = [refresh EXCEPT ![t] = NoRefresh]
    /\ UNCHANGED <<portVars, cached, dbVars, requested>>

\* Any await of the opening may throw: the catch clause tears down again.
Fail(t) ==
    /\ job[t].pc \in {"paths", "database", "services", "refresh"}
    /\ job[t].pc = "refresh" => refresh[t].pc = "failed"
    /\ GoTo(t, "failing")
    /\ refresh' = [refresh EXCEPT ![t] = NoRefresh]
    /\ UNCHANGED <<portVars, cached, dbVars, requested>>

Failed(t) ==
    /\ job[t].pc = "failing"
    /\ Teardown
    /\ path' = None
    /\ GoTo(t, "failed")
    /\ UNCHANGED <<requested, refresh>>

Transition(t) ==
    \/ Turn(t) \/ Look(t) \/ NotThere(t) \/ Stopped(t) \/ Resolve(t) \/ LoadConfig(t)
    \/ CreateServices(t) \/ Opened(t) \/ Fail(t) \/ Failed(t)
-----------------------------------------------------------------------------
\* refreshState

\* The guard, then the paths and the tasks are those of this moment.
Begin(r) ==
    /\ r \in Refreshes
    /\ refresh[r].pc = "idle"
    /\ None \notin {path, side, config}
    /\ refresh' = [refresh EXCEPT ![r] = [pc |-> "load", ws |-> side, label |-> None]]
    /\ UNCHANGED <<portVars, cached, dbVars, requested, job>>

Throw(r) == Proceed(r, "failed") /\ UNCHANGED <<portVars, cached, dbVars, requested, job>>

\* tasks.yaml is read; `loadProjectionContext` needs an open workspace.
Load(r) ==
    /\ refresh[r].pc = "load"
    /\ IF side = None
       THEN Throw(r)
       ELSE Proceed(r, "context") /\ UNCHANGED <<portVars, cached, dbVars, requested, job>>

\* `getSidecarSqlite(paths)` opens the connection again if it has been closed.
Reconnect(r) ==
    /\ refresh[r].pc = "context"
    /\ Connect(refresh[r].ws)
    /\ Proceed(r, "reconcile")
    /\ UNCHANGED <<portVars, cached, requested, job>>

\* The chains are reconciled in that database, or it could not be opened, or was
\* closed since.
Reconcile(r) ==
    /\ refresh[r].pc = "reconcile"
    /\ IF refresh[r].ws \in conn
       THEN Proceed(r, "project") /\ UNCHANGED <<portVars, cached, dbVars, requested, job>>
       ELSE refresh[r].ws \notin promised /\ Throw(r)

\* The arguments of the projection: the workspace is the one open by now.
Project(r) ==
    /\ refresh[r].pc = "project"
    /\ IF None \in {path, config}
       THEN Throw(r)
       ELSE /\ refresh' = [refresh EXCEPT ![r].pc = "store", ![r].label = path]
            /\ UNCHANGED <<portVars, cached, dbVars, requested, job>>

Store(r) ==
    /\ refresh[r].pc = "store"
    /\ cached' = FullState(r)
    /\ Proceed(r, "overlay")
    /\ UNCHANGED <<portVars, dbVars, requested, job>>

\* After syncActiveRunUiState: overlays and model history need the tasks of cachedState.
Overlay(r) ==
    /\ refresh[r].pc = "overlay"
    /\ IF cached.kind = "full"
       THEN Proceed(r, "links") /\ UNCHANGED <<portVars, cached, dbVars, requested, job>>
       ELSE Throw(r)

\* `enrichCachedResultsWithPullRequests` reads the links, unless there is no state.
Links(r) ==
    /\ refresh[r].pc = "links"
    /\ IF cached = NoState THEN UNCHANGED dbVars ELSE Connect(refresh[r].ws)
    /\ Proceed(r, "finish")
    /\ UNCHANGED <<portVars, cached, requested, job>>

\* The last assignment spreads whatever cachedState is by now, null included.
Finish(r) ==
    /\ refresh[r].pc = "finish"
    /\ refresh[r].ws \notin promised
    /\ cached' = IF cached = NoState THEN HalfState ELSE cached
    /\ Proceed(r, "done")
    /\ UNCHANGED <<portVars, dbVars, requested, job>>

\* The caller of a refresh has its answer; the slot is free for the next one.
Return(r) ==
    /\ r \in Refreshes
    /\ refresh[r].pc \in Ended
    /\ refresh' = [refresh EXCEPT ![r] = NoRefresh]
    /\ UNCHANGED <<portVars, cached, dbVars, requested, job>>

Refresh(r) ==
    \/ Load(r) \/ Reconnect(r) \/ Reconcile(r) \/ Project(r) \/ Store(r)
    \/ Overlay(r) \/ Links(r) \/ Finish(r) \/ Return(r)
-----------------------------------------------------------------------------
Next ==
    \/ \E t \in Transitions :
         Transition(t) \/ \E q \in Askable[t] : Request(t, q)
    \/ \E r \in Refreshers : Begin(r) \/ Refresh(r)
    \/ \E w \in Workspaces : Connected(w) \/ ConnectFails(w)

Spec == Init /\ [][Next]_vars

\* Every await ends, and the event loop runs what is ready.
Fairness ==
    /\ \A t \in Transitions : WF_vars(Transition(t))
    /\ \A r \in Refreshers : WF_vars(Refresh(r))
    /\ \A w \in Workspaces : WF_vars(Connected(w) \/ ConnectFails(w))

FairSpec == Spec /\ Fairness
-----------------------------------------------------------------------------
TypeOK ==
    /\ {path, side, config, tools} \subseteq Paths
    /\ cached \in [kind : {"null", "half", "full"}, tasks : Paths, label : Paths]
    /\ conn \subseteq Workspaces
    /\ promised \subseteq Workspaces
    /\ opens \in [Workspaces -> Nat]
    /\ handles \in [Workspaces -> Nat]
    /\ leaked \in [Workspaces -> 0..MaxLeaks]
    /\ requested \in 0..MaxTransitions
    /\ job \in [Transitions ->
         [pc : {"idle", "waiting", "look", "stop", "paths", "database", "services",
                "refresh", "failing"} \cup Ended,
          how : {"switch", "recent", "last"}, ws : Paths]]
    /\ refresh \in [Refreshers ->
         [pc : {"idle", "load", "context", "reconcile", "project", "store", "overlay",
                "links", "finish"} \cup Ended, ws : Paths, label : Paths]]

(* While no transition is changing it the shared port is of one piece:     *)
(* paths, config and services of one workspace whose database is           *)
(* connected, or nothing at all - whatever failed half-way and whatever    *)
(* refreshes go on.                                                        *)
PortIsWhole ==
    Running = {} =>
        /\ Cardinality({path, side, config, tools}) = 1
        /\ side # None => side \in conn

(* No workspace ever has two connections in use or being made, and each    *)
(* open one is in the map, where closing the workspace and quitting look   *)
(* for it - except those that threw while they were initialized.           *)
ConnectionsAreTracked ==
    \A w \in Workspaces :
        LET inUse == IF w \in conn THEN 1 ELSE 0
        IN handles[w] = inUse + leaked[w] /\ inUse + opens[w] <= 1

\* What t leaves open if it was not refused.
Result(t) == IF job[t].pc = "done" THEN job[t].ws ELSE None

\* The last of the requests that were not refused.
Decisive(t) ==
    /\ t \in 1..requested /\ job[t].pc # "refused"
    /\ \A u \in 1..requested : u > t => job[u].pc = "refused"

(* When all requests are served, the open workspace is that of the last    *)
(* one that was not refused, however they overlapped; if that failed, or   *)
(* there is none, none is open.  A refused request leaves what it found.   *)
LastRequestWins ==
    (\A t \in 1..requested : job[t].pc \in Ended) =>
        \/ \E t \in 1..requested : Decisive(t) /\ path = Result(t)
        \/ (\A t \in 1..requested : job[t].pc = "refused") /\ path = None

(* A transition that fails does not keep the later ones from being served. *)
EveryTransitionEnds ==
    \A t \in Transitions : job[t].pc = "waiting" ~> job[t].pc \in Ended

Register == INSTANCE WorkspaceRegister WITH
    Workspaces <- Workspaces, None <- None,
    Switching <- "switching", MaxRequests <- MaxTransitions,
    requests <- [i \in 1..requested |->
                    [how |-> job[i].how, ws |-> IF job[i].how = "last" THEN None ELSE job[i].ws]],
    served <- Cardinality({t \in Transitions : job[t].pc \in Ended}),
    current <- IF Running # {} THEN "switching" ELSE path

(* The runtime implements the queue of whole switches, with its progress.  *)
ImplementsRegister == Register!FairSpec
=============================================================================
