--------------------------- MODULE WorkspaceWatch ---------------------------
(***************************************************************************)
(* The `takt watch` process of a workspace: the manager that spawns it     *)
(* detached, the pid it records in the sidecar database so that a later    *)
(* session finds the process again, and the commands (start, stop,         *)
(* restart, stop task, open workspace) that run as interleaved async       *)
(* functions of one event loop.                                            *)
(*                                                                         *)
(* `load`, `save` and `clear` of the record take no turn of the event loop *)
(* while the database is open, so what WatchManager does after its last    *)
(* file access is one step.  A process that has ended is a zombie, alive   *)
(* for `kill(pid, 0)`, until the event loop reaps it and runs its 'exit'   *)
(* handler.  Pids are not reused.                                          *)
(***************************************************************************)
EXTENDS Naturals, WorkspacePaths

CONSTANTS
    Calls,          \* slots for the commands that may be in flight
    Pids,           \* the processes that can be spawned
    MaxSessions,    \* bound: workspaces opened in one behaviour
    NoPid,          \* no process
    Broken          \* a ChildProcess object whose spawn failed: it has no pid

ASSUME SessionsAssumption == MaxSessions \in Nat \ {0}

VARIABLES
    proc,       \* what the operating system says of each process
    cwd,        \* the workspace whose isolated repository a process serves
    spawner,    \* the session whose manager spawned it
    stored,     \* per workspace, the pid in its sidecar record `watch.state`
    wsOf,       \* the workspace of each session, None before it is opened
    child,      \* per session, `this.child` of its WatchManager
    shown,      \* per session, `connection.watch`
    last,       \* the sessions opened so far
    cur,        \* the session that port.watchManager belongs to, 0 for null
    opening,    \* the transition in progress: its stage and its workspace
    calls       \* per slot, the command in flight

watchVars == <<proc, cwd, spawner, stored, wsOf, child, shown, last, cur, opening, calls>>
appVars == <<wsOf, last, cur, opening>>

Sessions == 1..MaxSessions
NoCall == [pc |-> "idle", ws |-> None, mgr |-> 0, pid |-> NoPid]
NoSwitch == [stage |-> "none", ws |-> None]

\* isProcessAlive: signal 0 reaches a process that nobody has reaped yet.
Alive(p) == p \in Pids /\ proc[p] \in {"running", "stopping", "zombie"}

WatchInit ==
    /\ proc = [p \in Pids |-> "none"]
    /\ cwd = [p \in Pids |-> None]
    /\ spawner = [p \in Pids |-> 0]
    /\ stored = [w \in Workspaces |-> NoPid]
    /\ wsOf = [s \in Sessions |-> None]
    /\ child = [s \in Sessions |-> NoPid]
    /\ shown = [s \in Sessions |-> "unknown"]
    /\ last = 0
    /\ cur = 0
    /\ opening = NoSwitch
    /\ calls = [c \in Calls |-> NoCall]

SetCall(c, pc, w, m, p) ==
    calls' = [calls EXCEPT ![c] = [pc |-> pc, ws |-> w, mgr |-> m, pid |-> p]]
Done(c) == calls' = [calls EXCEPT ![c] = NoCall]
-----------------------------------------------------------------------------
\* WatchManager

\* A variant of HasWatch that trusts the manager's own child and ignores the record.
HasWatchChildOnly(m, w) == child[m] # NoPid

\* `start` already has a watch: the recorded process lives, or the manager has a child.
HasWatch(m, w) == Alive(stored[w]) \/ child[m] # NoPid

\* SIGTERM, to a process that is still running.
Signalled(p) == IF p \in Pids /\ proc[p] = "running" THEN [proc EXCEPT ![p] = "stopping"] ELSE proc

(* The end of `start`, after sanitizing tasks.yaml: manager m, record of w. *)
\* The spawn may fail with an 'error' event and no pid; nothing is recorded then.
Spawn(m, w) ==
    \/ /\ HasWatch(m, w)
       /\ UNCHANGED <<proc, cwd, spawner, stored, child>>
    \/ /\ ~HasWatch(m, w)
       /\ \E p \in Pids :
            /\ proc[p] = "none"
            /\ proc' = [proc EXCEPT ![p] = "running"]
            /\ cwd' = [cwd EXCEPT ![p] = wsOf[m]]
            /\ spawner' = [spawner EXCEPT ![p] = m]
            /\ child' = [child EXCEPT ![m] = p]
            /\ stored' = [stored EXCEPT ![w] = p]
    \/ /\ ~HasWatch(m, w)
       /\ child' = [child EXCEPT ![m] = Broken]
       /\ UNCHANGED <<proc, cwd, spawner, stored>>

\* `stop`: SIGTERM to the recorded process and to the child, forget both.
StopWith(m, w) ==
    /\ proc' = [p \in Pids |->
                  IF p \in {stored[w], child[m]} /\ proc[p] = "running" THEN "stopping" ELSE proc[p]]
    /\ child' = [child EXCEPT ![m] = NoPid]
    /\ stored' = [stored EXCEPT ![w] = NoPid]

\* `syncConnection`, `killed` is never set on a child the manager still holds.
Synced(m, w, record, kids) == IF Alive(record[w]) \/ kids[m] # NoPid THEN "running" ELSE "stopped"

\* 'exit' handler: it clears the manager's child, whichever process that is by now.
Exited(p) == [child EXCEPT ![spawner[p]] = NoPid]
-----------------------------------------------------------------------------
\* The commands, outside the transition queue

\* `startWatch`: takes the sidecar paths of the moment, then resolves the runtime env.
StartWatch(c) ==
    /\ calls[c] = NoCall
    /\ cur # 0
    /\ SetCall(c, "start env", wsOf[cur], 0, NoPid)
    /\ UNCHANGED <<proc, cwd, spawner, stored, child, shown, appVars>>

\* The env is there: `start` is called on the manager of this moment, or on null.
StartResolved(c) ==
    /\ calls[c].pc = "start env"
    /\ IF cur = 0 THEN Done(c) ELSE SetCall(c, "start", calls[c].ws, cur, NoPid)
    /\ UNCHANGED <<proc, cwd, spawner, stored, child, shown, appVars>>

\* The rest of `start`; the status goes to the connection object of the call's session.
StartSpawns(c) ==
    /\ calls[c].pc = "start"
    /\ Spawn(calls[c].mgr, calls[c].ws)
    /\ shown' = [shown EXCEPT ![calls[c].mgr] = "running"]
    /\ Done(c)
    /\ UNCHANGED appVars

\* The engine is missing, tasks.yaml cannot be repaired, or the env cannot be built.
StartThrows(c) ==
    /\ calls[c].pc \in {"start env", "start", "restart env"}
    /\ Done(c)
    /\ UNCHANGED <<proc, cwd, spawner, stored, child, shown, appVars>>

\* `stopWatch`
StopWatch(c) ==
    /\ calls[c] = NoCall
    /\ cur # 0
    /\ StopWith(cur, wsOf[cur])
    /\ shown' = [shown EXCEPT ![cur] = "stopped"]
    /\ UNCHANGED <<cwd, spawner, calls, appVars>>

\* `restartWatchIfRunning`, called when the engine configuration has been saved.
RestartWatch(c) ==
    /\ calls[c] = NoCall
    /\ cur # 0
    /\ shown' = [shown EXCEPT ![cur] = Synced(cur, wsOf[cur], stored, child)]
    /\ IF shown'[cur] = "running"
       THEN StopWith(cur, wsOf[cur]) /\ SetCall(c, "restart env", None, 0, NoPid)
       ELSE UNCHANGED <<proc, stored, child, calls>>
    /\ UNCHANGED <<cwd, spawner, appVars>>

\* It reads the manager and the paths again after resolving the env.
RestartResolved(c) ==
    /\ calls[c].pc = "restart env"
    /\ IF cur = 0 THEN Done(c) ELSE SetCall(c, "start", wsOf[cur], cur, NoPid)
    /\ UNCHANGED <<proc, cwd, spawner, stored, child, shown, appVars>>

\* `stopTask` on a task that the watch runs: SIGTERM to its owner process.
StopTask(c) ==
    /\ calls[c] = NoCall
    /\ cur # 0
    /\ \E p \in Pids :
        /\ proc[p] = "running"
        /\ cwd[p] = wsOf[cur]
        /\ proc' = Signalled(p)
        /\ SetCall(c, "stop task", None, 0, p)
    /\ UNCHANGED <<cwd, spawner, stored, child, shown, appVars>>

\* A variant of StopTaskSyncs that drops the record whichever process it names.
StopTaskSyncsUnmatched(c) ==
    /\ calls[c].pc = "stop task"
    /\ ~Alive(calls[c].pid)
    /\ Done(c)
    /\ cur # 0
    /\ stored' = [stored EXCEPT ![wsOf[cur]] = NoPid]
    /\ child' = [child EXCEPT ![cur] = NoPid]
    /\ shown' = [shown EXCEPT ![cur] = "stopped"]
    /\ UNCHANGED <<proc, cwd, spawner, appVars>>

\* `syncWatchConnection`, once the owner is gone: drop the record if it names the owner.
StopTaskSyncs(c) ==
    LET p == calls[c].pid
        w == wsOf[cur]
        match == stored[w] = p
    IN /\ calls[c].pc = "stop task"
       /\ ~Alive(p)
       /\ Done(c)
       /\ IF cur = 0
          THEN UNCHANGED <<stored, child, shown>>
          ELSE /\ stored' = IF match THEN [stored EXCEPT ![w] = NoPid] ELSE stored
               /\ child' = IF match /\ child[cur] = p
                           THEN [child EXCEPT ![cur] = NoPid] ELSE child
               /\ shown' = [shown EXCEPT ![cur] = Synced(cur, w, stored', child')]
       /\ UNCHANGED <<proc, cwd, spawner, appVars>>

\* The owner does not end in time: `stopTask` throws.
StopTaskTimesOut(c) ==
    /\ calls[c].pc = "stop task"
    /\ Alive(calls[c].pid)
    /\ Done(c)
    /\ UNCHANGED <<proc, cwd, spawner, stored, child, shown, appVars>>

\* `refreshConnection` and `syncRuntimeWatchers` without autoStart, when they sync.
SyncConnection ==
    /\ cur # 0
    /\ shown' = [shown EXCEPT ![cur] = Synced(cur, wsOf[cur], stored, child)]
    /\ UNCHANGED <<proc, cwd, spawner, stored, child, calls, appVars>>
-----------------------------------------------------------------------------
\* Transitions, one at a time

\* `teardownWatchResources`
TeardownWatch ==
    /\ IF cur = 0 THEN UNCHANGED <<proc, child, stored>> ELSE StopWith(cur, wsOf[cur])
    /\ cur' = 0

\* `openWorkspace` tears the old runtime down first.
OpenWorkspace(w) ==
    /\ opening = NoSwitch
    /\ last < MaxSessions
    /\ TeardownWatch
    /\ opening' = [stage |-> "prepare", ws |-> w]
    /\ UNCHANGED <<cwd, spawner, wsOf, shown, last, calls>>

\* A new WatchManager and a new connection object.
CreateManager ==
    /\ opening.stage = "prepare"
    /\ last' = last + 1
    /\ cur' = last'
    /\ wsOf' = [wsOf EXCEPT ![last'] = opening.ws]
    /\ opening' = [opening EXCEPT !.stage = "watch"]
    /\ UNCHANGED <<proc, cwd, spawner, stored, child, shown, calls>>

\* `syncRuntimeWatchers` with watch.autoStart, as for `startWatch`.
OpenStartsWatch ==
    /\ opening.stage = "watch"
    /\ Spawn(cur, opening.ws)
    /\ shown' = [shown EXCEPT ![cur] = "running"]
    /\ opening' = NoSwitch
    /\ UNCHANGED <<wsOf, last, cur, calls>>

\* `syncRuntimeWatchers` without it.
OpenSyncsWatch ==
    /\ opening.stage = "watch"
    /\ shown' = [shown EXCEPT ![cur] = Synced(cur, opening.ws, stored, child)]
    /\ opening' = NoSwitch
    /\ UNCHANGED <<proc, cwd, spawner, stored, child, wsOf, last, cur, calls>>

\* Opening fails: the runtime is torn down again.
OpenFails ==
    /\ opening # NoSwitch
    /\ TeardownWatch
    /\ opening' = NoSwitch
    /\ UNCHANGED <<cwd, spawner, wsOf, shown, last, calls>>

\* `setBootstrapOverride` and `initializeWorkspace` sync the watchers again.
Resync ==
    /\ opening = NoSwitch
    /\ cur # 0
    /\ opening' = [stage |-> "watch", ws |-> wsOf[cur]]
    /\ UNCHANGED <<proc, cwd, spawner, stored, child, shown, wsOf, last, cur, calls>>
-----------------------------------------------------------------------------
\* Processes, and the end of the application

\* A watch ends: on SIGTERM, or by itself.
ProcessEnds(p) ==
    /\ proc[p] \in {"running", "stopping"}
    \* a process of an earlier run of the application is reaped by init
    /\ proc' = [proc EXCEPT ![p] = IF spawner[p] = 0 THEN "dead" ELSE "zombie"]
    /\ UNCHANGED <<cwd, spawner, stored, child, shown, calls, appVars>>

\* The event loop reaps it and emits 'exit'.
ExitEvent(p) ==
    /\ proc[p] = "zombie"
    /\ proc' = [proc EXCEPT ![p] = "dead"]
    /\ child' = Exited(p)
    /\ UNCHANGED <<cwd, spawner, stored, shown, calls, appVars>>

\* The application crashes and is started again: the processes outlive it.
Crash ==
    /\ \E p \in Pids : proc[p] # "none"
    /\ proc' = [p \in Pids |-> IF proc[p] = "zombie" THEN "dead" ELSE proc[p]]
    /\ spawner' = [p \in Pids |-> 0]
    /\ child' = [s \in Sessions |-> NoPid]
    /\ cur' = 0
    /\ opening' = NoSwitch
    /\ calls' = [c \in Calls |-> NoCall]
    /\ UNCHANGED <<cwd, stored, wsOf, shown, last>>

Command(c) ==
    \/ StartWatch(c) \/ StartResolved(c) \/ StartSpawns(c) \/ StartThrows(c)
    \/ StopWatch(c)
    \/ RestartWatch(c) \/ RestartResolved(c)
    \/ StopTask(c) \/ StopTaskSyncs(c) \/ StopTaskTimesOut(c)

WatchTransition ==
    \/ \E w \in Workspaces : OpenWorkspace(w)
    \/ CreateManager \/ OpenStartsWatch \/ OpenSyncsWatch \/ OpenFails \/ Resync

WatchNext ==
    \/ \E c \in Calls : Command(c)
    \/ SyncConnection
    \/ WatchTransition
    \/ \E p \in Pids : ProcessEnds(p) \/ ExitEvent(p)
    \/ Crash

WatchSpec == WatchInit /\ [][WatchNext]_watchVars
-----------------------------------------------------------------------------
WatchTypeOK ==
    /\ proc \in [Pids -> {"none", "running", "stopping", "zombie", "dead"}]
    /\ cwd \in [Pids -> Workspaces \cup {None}]
    /\ spawner \in [Pids -> 0..MaxSessions]
    /\ stored \in [Workspaces -> Pids \cup {NoPid}]
    /\ wsOf \in [Sessions -> Workspaces \cup {None}]
    /\ child \in [Sessions -> Pids \cup {NoPid, Broken}]
    /\ shown \in [Sessions -> {"unknown", "running", "stopped"}]
    /\ last \in 0..MaxSessions
    /\ cur \in 0..last
    /\ opening \in [stage : {"none", "prepare", "watch"}, ws : Workspaces \cup {None}]
    /\ calls \in [Calls -> [pc : {"idle", "start env", "start", "restart env", "stop task"},
                            ws : Workspaces \cup {None}, mgr : 0..MaxSessions,
                            pid : Pids \cup {NoPid}]]

Serving(w) == {p \in Pids : proc[p] = "running" /\ cwd[p] = w}

(* However starts, stops, restarts, late exit events, crashes and reopened *)
(* sessions interleave, a workspace is never served by two watches that    *)
(* nobody has asked to stop: they would claim tasks from one tasks.yaml.   *)
OneWatchPerWorkspace == \A w \in Workspaces, p, q \in Pids :
    {p, q} \subseteq Serving(w) => p = q

(* A watch that runs is on record: the next stop, or the first session     *)
(* after a crash, can find it.                                             *)
RunningWatchIsRecorded == \A p \in Pids :
    proc[p] = "running" => \E w \in Workspaces : stored[w] = p
=============================================================================
