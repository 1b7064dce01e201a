# Planetz Desktop: specifications, model checks and proofs

Planetz is an Electron desktop application around `takt`, an external command-line program that runs
coding tasks from a queue, `tasks.yaml`. The application enqueues, edits, deletes, starts and stops
tasks, chains them (a task created once another has completed), watches the files takt writes, and keeps
data of its own in a SQLite "sidecar". Everything interesting happens in the Electron main process
(`src/apps/desktop/src/main`, "main" below): one thread, many commands interleaving at every `await`,
beside takt processes that read and write the same files without asking.

This directory holds TLA+ modules of that core, their TLC configurations, and proofs checked with TLAPS.
`PROJECT.json` lists components, runs, mutants, the source lines each definition stands for, findings,
hazards and theorems.

```
tlc -workers 2 -config TasksFile.cfg MCTasksFile      # one run
tlapm ChainEdgesProofs.tla                            # one proof module
```

## 1. Inventory

| Component (main/...) | State | Operations | Hard behaviour | What makes it correct |
|---|---|---|---|---|
| tasks.yaml lock, `lib/tasks-yaml-lock.ts` | `queues`: path -> last promise | `withTasksYamlLock` | promise microtasks; dropping the map entry at the right moment | one section per path at a time, in call order; entry exactly while needed; every call ends |
| Task commands, `session/task-command-service.ts`, `lib/tasks-yaml-*.ts`, `delete-task-package.ts`, `running-task-stop.ts`, ... | `tasks.yaml`, `.takt/tasks/<slug>` directories | enqueue, retry, delete, swap, run now, run pending, stop, sanitize, migrate | read-modify-write against other commands and takt; torn reads; polls, timers and grace periods | no row lost, packages and rows agree, runs are never contradicted, commands end |
| Package writer, `takt/task-package-writer.ts` | a package directory and its row | create under the lock | unique names from a stale list | the new id is new |
| Takt connector, `takt/connector-cli.ts` | none | enqueue by file or by `takt add`, run, annotate | the id of the new task is guessed from two listings | the id returned is the task made |
| Chains, `session/chain-*.ts`, `lib/chain/*.ts` | `chain_groups` table, `materializeInFlight` | reserve, enqueue now, materialize, remove, set status, reconcile | stale snapshots of tasks.yaml across awaits; torn reads; partial failure | nothing created before its upstream completed, no ready edge over unfinished work, links real, flights exclusive |
| State refresh, `session/state-refresh-coordinator.ts`, `task-catalog.ts`, `state-projector.ts` | `cachedState`, statuses the failure tracker has seen | `refreshState`, notifications | overlapping refreshes finishing out of order | every change is shown, a failure is notified once |
| Runs watcher, `lib/runs-watcher.ts`, `session/workspace-watch-service.ts` | timers, file watchers | debounce, fallback poll | lost events, a refresh under way | a finished task does not stay running in the window |
| Takt watch process, `takt/watch-manager.ts`, `sidecar/watch-state-store.ts` | `child`, stored pid | start, stop, restart, exit events, restart of the app | a detached process that outlives its session; late exit events | at most one watch on a workspace, and it is on record |
| Workspace runtime, `session/workspace-*-service.ts` | the shared port: paths, configuration, services; the transition queue | open, open recent or last, switch, close | some twenty awaits that may throw, requests refused before any; refreshes beside the queue | the port is whole, the last request not refused wins, every request is served |
| Sidecar storage, `storage/sqlite/*`, `sidecar/*` | one connection per workspace, tables | transactions | opening while closing | one tracked connection each; transactions are atomic |
| Composer assistant, `session/composer-assistant-service.ts` | `sessions`, `activeSessionId`, abort controllers, the stored snapshot | start, resume, message, interrupt, finalize, accept, play, cancel | calls that hold a session for half an hour while others delete or restore it | answers are kept, the active session exists |
| Conversation ledgers, `sidecar/conversation-ledger-store.ts` | threads, the session bound to each, turns | create, rebind, append, delete | late answers after a rebinding | turns belong to the thread's session |
| Chat session apply, `session/chat-session-apply-service.ts` | registry of sessions | register, apply (git) | the registry follows sessions that are replaced | what can be applied is found |
| Intent ledger, `planetz/intent-ledger-*.ts`, `storage/sqlite/repositories/intent-ledger-repository.ts` | `pendingIngest`, `previousStatuses`; ledger rows; `requirements.md` | track, ingest, retry, backfill, judge, adopt | overlapping passes, torn reports, verdicts during an ingestion | reports not forgotten, verdicts locked, adopted once |
| Chat view, renderer `hooks/use-chat-thread-send.ts` | stream state, active thread, turns, generation counters | send, cancel, retry, select, new chat, finalize | continuations that resume after the view has moved on | busy while and only while something will end it; turns of the selected thread |
| Task mutation pipeline, `session/task-mutation-pipeline.ts` | conversation, history | persist after enqueue, roll back the mock queue | one of several steps failing | - |
| Mock queue, `mock/*` | an in-memory queue | animate | demonstration mode | - |
| Isolated repository, `planetz/isolated-repo-sync.ts` | a git clone | sync, apply back | interrupted git sequences | the user's changes survive |
| Workflow routing, selection, library; settings; local models; pull requests; integrations | see `PROJECT.json` | | mostly data and single calls | |
| IPC, shared package, agent-belay | - | forwarding, types, an installer | | |

Interactions. The renderer calls the main process over IPC; each call is an async function, and the calls
interleave at every `await`. Task commands and the connector share `tasks.yaml` through
`withTasksYamlLock`; takt shares the same file and does not take that lock, since the lock is a `Map` in
the memory of the main process. A change of the file wakes the watcher, which refreshes the state; a
refresh reconciles the chains and ends with a pass of the intent-ledger tracker. Chain calls read the file,
enqueue through the connector and store edges in SQLite. All services reach the open workspace through one
mutable port, which a switch of the workspace replaces field by field. The chat view awaits calls of the
composer assistant, which binds its sessions to threads of the conversation ledger and registers them for
apply.

The hazards this leads to are listed under `hazards` in `PROJECT.json`, each at its line, with the
properties that cover it or the reason none does.

## 2. Modules

| Module | Models |
|---|---|
| `ExclusiveSection` | abstract: callers of a path ask, are granted one at a time in order, release |
| `TasksYamlLock` | `withTasksYamlLock`, microtask by microtask; implements `ExclusiveSection` |
| `TasksFile` | everything that rewrites `tasks.yaml`, with takt beside it |
| `ChainEdges` | the chain store, the chain calls and the reconcile of the refresh |
| `StateRefresh` | the runs watcher, overlapping refreshes, what they show and notify |
| `WorkspaceRegister` | abstract: requests to open or close are served whole, one at a time, in order |
| `WorkspaceSwitch` | the transition queue, the shared port, SQLite connections, refreshes beside them; implements `WorkspaceRegister` |
| `WorkspacePaths` | the constants those two share |
| `WorkspaceWatch` | the detached `takt watch` process, its record, sessions of the app and crashes |
| `IntentLedger` | ingestion of a task's reports, verdicts, adoption into `requirements.md` |
| `ComposerSession` | assistant sessions, their snapshot, threads and the apply registry, with restarts |
| `ChatThreadSend` | the renderer's chat view |
| `...Proofs` | proofs about the module of that name (`WorkspaceProofs`: about `WorkspaceSwitch` and `WorkspaceWatch`), for all values of its constants |
| `MC...` | the instances TLC checks |

The modules meet where the code does, each taking of the other what it relies on. `TasksFile` uses the lock as a
variable `section` that at most one command holds; that the promise chain provides that is what `TasksYamlLock` shows.
`ChainEdges` uses of `tasks.yaml` only the status of each task, and of the connector only that enqueuing adds a row
under a name that is not in the file; which one the connector answers with depends on the mode, as in `TasksFile`.
`StateRefresh` takes the file as a sequence of contents. `WorkspaceWatch` takes a switch of the workspace as two
stages, which `WorkspaceSwitch` has in full. `ChatThreadSend` takes the assistant as calls that answer or fail at any
time, and `ComposerSession` its callers as calls in any order.

The operators that a module defines and its specification does not use (`KeepDuplicates`, `DeleteAnyStatus`,
`ConnectAlways`, ...) are plausible mistakes, kept beside what they would replace; `mutants` in
`PROJECT.json` says which property catches each one.

### 2.1 TasksYamlLock

A call appends a promise to the chain of its path and awaits the previous one. The state is, per call, its
place (`pc`), the call it awaits and whether its gate and its tail promise have settled, and the map
`queues`. One action is one synchronous run: `Request` (up to `await previous`), `Enter` and `Leave` (the
section, `finally`, opening the gate and the conditional `queues.delete`), `Settle` (the microtask in which a
tail resolves once its predecessor and its gate have). Fairness is weak fairness of each `Step` of a call:
microtasks run, and the section that is passed in ends - the sections of this code are file operations.
Deadlock checking is off because each call is made at most once, so the instance ends.

### 2.2 TasksFile

The file is a set of rows, each with its position (`at`): what the code does with an array - push, find the first,
drop all but the last of a name, splice - compares positions, and nothing depends on their gaps. Rows carry a name
(titles that share a slug, and their numbered variants), a status, the pid of the takt process that owns them, and
who set the workflow and the issue number. A row is identified by the command
that made it, which the program cannot see: that is what lets properties tell two rows of the same name
apart. An in-app section is three steps: `Read` (the lock is granted and `readFile` returns), `Truncate`
(package directories change, `writeFile` opens the file with truncation), `Store` (`writeFile` completes, the
lock is released). Whoever reads without the lock between the last two finds a torn file, which
`tasks-yaml-reader.ts` reports as an empty queue. What a section writes is a pure operator of the rows it
read (`Create`, `Delete`, `Swap`, `Annotate`, `ForceFail`, `Dedupe`); sanitizing and the migration to direct
execution also rewrite the whole file for fields that the model does not have (`RewritesUnmodelled`).

Enqueuing is the same for a new task, run now and retry (`Enqueues`, `derive`): `resolveEnqueueMode` decides between the
package writer, which knows the name it has given, and `takt add`, the default, after which the connector takes the first
id that its earlier list lacks (`AfterSection`, `Discover`). The mode is one for the whole behaviour, as it is one for
the process. A `takt add` has no timeout (`connector-cli.ts:220`), so a command may stay in `add` for ever; it holds no
lock there.

Outside the section a command checks its preconditions on an unlocked read (`ListExisting`, `FindOrigin`,
`CheckSwap`, `CheckRun`, `CheckStop`), starts takt, waits for a process or polls. Run now and run pending
`Dispatch`: they start takt themselves or, if a watch is shown as running, leave the task to it and look again
when a timer fires (`Fallback`; a later dispatch of the same task replaces the timer). `takt` is external: it
adds rows (`TaktAdd`), claims a pending row when the names are unique (`Claim`), finishes it (`Finish`) or dies
with it (`Exit`), all of it modelled only as far as the application relies on it. `TaktOverlaps` says whether
takt may write while an in-app section is open. In reality it may; the run `tasks_overlap` shows what follows,
and the run `tasks_file` sets it to FALSE to show that everything else is sound.

`ForceFail` writes "stopped" where the code writes "failed", so that `OutcomeIsFinal` can tell a stop by the
user from an outcome takt reported. Each row has a package directory of its own; pids are not reused.

### 2.3 ChainEdges

The `chain_groups` table is a set of edges, each with the chain it is in; order is dropped. A call reads the file
(`List`), for `materialize` checks the planned edge (`Check`), enqueues (`Enqueue` or `EnqueueFails`), stores
(`Store`: load, sync, mutate, sync, save) and refreshes (`Refresh`, `Reconcile`). Store steps are atomic because with
an open connection `load`, the mutation and `save` run in successive microtasks with no I/O between them, and the save
is a synchronous transaction; reading `tasks.yaml`, enqueuing and git leave the event loop and separate the steps.
With the package writer `Enqueue` answers with the row it has added; with `takt add` a step of its own (`Discover`)
lists the file again and takes the first name that the snapshot of the call lacks, which may be the task of another
call, or fails if there is none. Every call works with the snapshot it took when it began, and a snapshot may be torn
(no tasks at all) when `TornReads` is TRUE. `made` is a history variable: for which plan a task was enqueued and what
the status of its upstream was at that moment.

Names are numbers in the order in which they are first given, which is the order of the rows in the file. A task that is
deleted frees its name, and `AddRow`, on behalf of a call or of anybody else (`EnqueueElsewhere`), may give it again:
`again` remembers for which names that has happened, because such a row need not stand where its number says, and an
edge may still name the task that had the name before.

"open" stands for queued and running tasks, "failed" also for exceeded ones: the chain code does not tell
these apart. Two chains made from the same task at the same instant share an id in the model, which the
primary key of the table then refuses, as in the code.

### 2.4 StateRefresh

The contents that `tasks.yaml` has had are kept in order in `log`, so that a snapshot is a position in it and
"older" has a meaning. takt and the in-app sections write in two steps (`Truncate`, `Write`), and each raises a
file event, or loses it (`EventsLost`: the file was replaced, or did not exist when the watcher started; `lost`
remembers that one was). `Deliver` is `schedule` of the runs watcher (one debounce timer at a time), `Fallback`
the interval with `shouldFallbackPoll`, `Fire` the timer that starts `refreshAndNotify`; `Ask` is a command that
calls `refreshState` itself, without notifications. A refresh reads the file (`Read`; the empty queue if it is
torn), assigns `cachedState` (`Project`) and, when the watcher started it, runs the failure tracker over the
`cachedState` there is by then (`Settle`). Nothing orders two refreshes; `back` remembers that one has replaced a
newer view.

`task-catalog.ts` looks like state shared between refreshes and is not: `invalidate` and `loadCached` follow each
other without an await, and the one caller that would read the cache again needs a pending attribution, which
nothing sets. `Read` is therefore always a read of its own. Statuses are reduced to what the tracker and the poll
tell apart: "stopped" is "pending", "exceeded" is "failed".

### 2.5 WorkspaceSwitch and WorkspaceRegister

A call of `openWorkspace`, `openRecentWorkspace`, `openLastWorkspaceIfAvailable` or `teardownWorkspaceRuntime` is a
transition that waits for the ones before it. One from the list of recent workspaces, or for the last one opened,
looks first whether the directory is there (`Look`); if it is not, the call throws or answers null before it has
touched anything (`NotThere`, "refused"). The others, and those that have found it, go through the stages of the code:
stop what runs, set the paths, open the database, build the services, refresh; or fail at any of them and tear down
(`failing`). The port is the four fields that the rest of the program reads (`path`, `side`, `config`, `tools`) and
the cached state. `openSidecarSqlite` is modelled with its two maps and the objects they stand for: a connection in
`conn`, a promise of one in `promised`, how many are being opened (`opens`) and are open (`handles`). Creating one may
fail (`ConnectFails`), before the file is open or after it, in the pragmas or the schema; then the object stays open
and nobody knows it (`leaked`), and the next caller creates another. Refreshes run beside the queue: they keep the
paths they started with and read the port again after each await.

The offer to import, the bootstrap override and the initialization run in the same queue and change none of this
state. The UI state that a switch also replaces is not modelled, nor is the list of recent workspaces: a recent one is
there or not, and the last one opened is any. With an open connection the key-value operations take no turn of the event
loop and are atomic.

`WorkspaceRegister` says what all this amounts to: a request takes effect whole; or it fails and nothing is open; or, if
it is one that looks first, it is refused and what was open stays open. The refinement maps the transitions requested so
far to its queue, and any transition between its first and last stage to "switching"; looking for a directory is not
switching yet.

### 2.6 WorkspaceWatch

A process is running, stopping (signalled), a zombie (ended, not yet reaped by the event loop) or dead; a crash of
the application leaves a detached watch running. `stored` is the pid in the sidecar record, `child` the field of
each session's `WatchManager`, of which there is one per opening of a workspace. Commands (start, stop, restart,
stop task) hold the manager they read before an await. What `WatchManager` does after its last file access is one
step, since load, save and clear of the record are synchronous on an open connection. A spawn may fail, which
leaves a `child` without a pid (`Broken`).

Its operators carry `Watch` in their names where `WorkspaceSwitch` has the same ones (`WatchInit`, `WatchNext`,
`WatchSpec`, ...), so that one module can prove things about both.

### 2.7 IntentLedger

One task, whose reports takt writes while the passes of the tracker, one per state refresh, notice its completion and
ingest them. A pass is a chain of awaits: count what the ledger has, locate the run, read and upsert decisions,
observations, links. The entry in `pendingIngest` is an object known by the pass that made it, and passes share it, as
in the code. The tasks that a pass is given may have been read at any time before (`old`). Reading a report and
upserting its rows is one step, since what is upserted depends on the report only. One assumed decision and one
observation stand for the rows of a report; required and designed decisions take no verdict. The operator ratifies,
reverses, fixes or adopts, and an adoption goes on for three awaits, into `requirements.md` (`ReadRequirements`,
`WriteRequirements`) and back to the row. A read that fails, for whatever reason, is taken for a file without blocks;
links may be stored in part before a failure is reported.

`NoReportForgotten` wants each channel that this session is not through with to be not just on record but open in
the entry that the next pass will find: a closed channel is never tried again.

### 2.8 ComposerSession

A call of the service is a record in one of the slots with the place it waits at and what it has read. A step goes
from the end of one await to the next. Session objects are told apart from their ids, because a call may hold one that
has been deleted from the map and restored from the snapshot as another. Of a conversation only the number of answers
is kept: all turns up to the limit stay in the snapshot, since the number of recent turns a compaction keeps is the
limit (`RECENT_TURNS_KEEP` is `COMPOSER_ASSISTANT_MAX_TURNS`). Turns are not appended to the thread if the answer is
empty (`AppendTurns`). The process may end at any moment, which clears memory, calls and the registry; workspaces are
switched, threads deleted.

Three histories qualify the properties: `overlapped` (calls have met one another), `spoiled` (a restart of a thread
failed after it had unregistered the session it was to replace) and `acked` (answers that a caller has seen).

### 2.9 ChatThreadSend

The hook's continuations learn whether the view has moved on by comparing two counters or the active thread. The
counters are modelled by what they are compared for: `sender` is the send whose generation is the current one,
`latest` the load whose request is. A send goes through `start`, `restart`, `message`, `refresh`, or after an error
`recover`, `resend`, `rerefresh`; every call may answer or fail at any time. `overruled` and `taken` remember the
continuations that do not ask (section 4).

## 3. Runs

| Run | Instance | Distinct states | Shows |
|---|---|---|---|
| `lock` | 4 calls on one path, 1 on another | 21 705 | exclusion, order, exact map, refinement, every call leaves |
| `tasks_file` | 2 commands of any kind, a third that deletes or migrates, 2 rows from before, 1 takt process, 2 polls, either enqueue mode; takt outside sections | 1 629 065 | rows, packages, names, runs and outcomes |
| `commands_end` | 2 commands, 1 row, 1 process, either mode, takt anywhere | 541 314 | every command frees the lock and ends, or waits for `takt add` |
| `tasks_overlap` | the same | violation | takt and a section at once: a running task is deleted or reverted |
| `chain_edges` | 1 task, which may end or be deleted, 2 names for new ones, of which others may give one; 2 calls, either mode, the watcher, torn reads | 2 926 997 | the four safety properties of chains |
| `chain_plan_twice` | 1 task, 2 names, 2 calls, either mode | violation | materializing twice creates two tasks |
| `state_refresh` | 1 task, 2 refreshes of the watcher, 1 of a command, 2 contents of the file, events may get lost | 292 365 | every change is shown, notices match failures, nothing runs for ever |
| `switch` | 2 workspaces, 3 transitions of any kind, 1 refresh, 1 leaked connection per workspace | 287 641 | the port, the connections, the order, progress, the refinement |
| `watch` | 1 workspace opened twice, 2 commands in flight, 3 processes | 265 375 | one watch, on record |
| `ledger` | 2 passes, 2 attempts, 2 openings, 2 adoptions in flight | 649 384 | reports, verdicts, requirements |
| `chat_send` | 2 sends, 2 loads, 2 threads | 701 253 | busy exactly while served, turns of the thread, busy ends |
| `composer` | 2 calls in flight of 4 in all, 2 sessions, 2 turns, 2 workspaces | 1 098 080 | bindings, memory, apply, restarts |

All type invariants are proved; those of `TasksFile`, `IntentLedger` and `ComposerSession` are run as well.
Every safety property of a passing run is also proved (section 5).

Bounds, and why they are enough. Three commands are the least at which two interfere with a third that checked before
them; that the third only deletes or migrates keeps the run small, and the theorems of section 5 are about any number
of commands of any kind. Two old rows give one name entered twice, which deduplication needs. One takt process
suffices since a second one could only take another row. The code polls eight times (`MaxPolls`), the model twice: the
polls differ only in number, and two already have a first and a last one. Every call is made at most once, so
`CHECK_DEADLOCK FALSE`: an instance stops when all have been made; the same holds for the bounded numbers of
transitions, passes, sessions and calls. For the chains, two calls race on one edge and the watcher adds a third
actor, others who enqueue (`Outside`) a fourth. Only the first task ends or is deleted (`Settling`): it is the one
that edges depend on, and whose name can be given again while they name it. The two calls choose among all six
operations, and `setStatus` sets `ready_to_create`, the one status that grants something (`Settable`; the proofs cover
all of them). For the refreshes, tasks are independent of each other in the tracker and in the view, so one is enough,
and a write may leave it as it was, which is what a write to another task looks like; three refreshes let one be
overtaken twice, and the proof of `NoticesAreOfFailures` covers histories of any length. Three transitions are a
running one, one that waits and one that comes after a failure; each is one of two kinds of call (`Askable`), between
them all kinds and both workspaces, the last a switch or the last one opened. One leak per workspace (`MaxLeaks`)
shows that a leaked connection does not keep the next one from being tracked. Two passes with two attempts overlap,
follow each other or are of different openings. Two sends are one left behind and its successor. In `composer` a
start, a message and a restart that overlaps it need three calls; the fourth is a switch or a deletion.

`watch` is the one run whose bounds hide something: `OneWatchPerWorkspace` holds for an application that opens one
workspace, and with two workspaces and three sessions it does not (section 4). The theorem `OneWorkspaceOneWatch`
states the assumption, and `RunningIsRecorded`, from which it follows, needs none.

Symmetry is taken over commands, calls, rows, processes, operators and workspaces, which occur in the modules
only under equality; `UniqueTaskId` chooses among names, which are numbers and not permuted. No run with a liveness
property uses symmetry.

Fairness is weak and assumed only of what the event loop or an operating system call owes the program:

- lock: the steps of each started call, which wait for microtasks, and that a section ends: it is file operations.
- task commands: the steps of a started command (`OwnStep`), which wait for file I/O, for timers, or for a process
  that the code watches with grace periods and a bounded number of polls. Nothing is assumed of the user, of takt at
  work, or of `takt add`, which the code waits for without a timeout (`connector-cli.ts:220`). Hence `CommandsEnd`
  lets a command be left waiting there, without the lock; once `takt add` has ended there is no way back to it.
- refreshes: a write that has truncated the file completes, an event on its way arrives, the poll interval and the
  debounce timer fire, the awaits of a refresh return. That a refresh throws is not modelled.
- switch: every await of a transition or a refresh ends, well or badly, and the event loop runs what is ready.
- chat view: a call to the main process ends, because the runner's processes have timeouts
  (`orbit-interactive-client.ts`); the cancel timer fires. The user owes nothing.

`watch`, `ledger` and `composer` have no liveness property and assume no fairness.

## 4. Findings and observations

Two runs show the program doing what a comment or a type says it does not:

1. **A section can undo takt's claim** (`tasks_overlap`). The lock orders the main process only. takt sets a row
   to running after `deletePendingTaskPackage` has read it as pending: the write removes a running task and its
   package; a workflow swap, or the migration when a workspace is opened, reverts it to pending and takt may run it
   twice.
2. **A plan can be created twice** (`chain_plan_twice`). `updateEdge` finds the planned edge by its missing
   `toTaskId` and upserts an edge that has one; `upsertChainEdge` filters by the new id, so the planned edge
   stays, ready to be materialized again.

Other behaviours met while modelling, which nothing in the repository promises against. The modules have the steps
that lead to them unless they are marked "not modelled":

- The default mode is `takt add` (`enqueue-mode.ts:18`), and two of them at once: the connector takes the first id its
  earlier listing lacks, so an enqueue, run now or retry can return, annotate with its issue number and, with a watch
  running, wait for the other's task (`connector-cli.ts:234`). In the same way a materialized edge, or one made at
  once, can lead to another call's task; with the package writer it cannot. In either mode, a name that is given again
  before a reconcile has missed its deleted task leaves the edge at the later one. `PackageEnqueueReturnsOwnTask` and
  `LinksAreReal` say what remains.
- A connection whose pragmas or schema throw stays open without a reference (`connection.ts:29`), and since the
  promise is dropped as well (`:50`), the next caller opens another; quitting closes only the latter.
  `ConnectionsAreTracked` excepts it.
- Run pending checks that its task is the only pending one and then awaits several things before it starts takt,
  which runs the whole queue (`task-command-service.ts:776`).
- The edge of a task just materialized can be stored as invalid, since edges are synced with the task ids from before
  the enqueue, and `invalid` is never left (`chain-workflow-service.ts:290`); a torn read does the same
  (`chain-mutations.ts:107`).
- A refresh that read a task as failed is overtaken by one that read it as queued again; when the first ends, the
  failure is notified a second time (`state-refresh-coordinator.ts:188`). `NoticesMatchFailures` excepts a view that
  went back.
- A spawn that fails leaves `child` set without a pid, and the manager takes it for a running watch
  (`watch-manager.ts:75`). A start takes the sidecar paths of the moment and the manager there is after it has
  resolved the environment: across a switch its watch serves the new workspace and is recorded under the former one,
  and the new workspace can get a second watch.
- After a switch, a refresh that started before it can store the state of the former workspace as `cachedState`, under
  the name of the new one (`WorkspaceSwitch`, `FullState`); the next refresh replaces it.
- Two adoptions at once read `requirements.md` and write it whole: the later write loses the requirement of the
  earlier, and both rows carry the same id (`requirements-promotion-service.ts:57`). A read that fails for whatever
  reason counts as a new file, which then replaces the one there is (`:42`).
- A report read in the middle of takt's write counts as one without rows, and its channel is closed
  (`intent-ledger-tracker.ts:134`); the backfill counts rows per task, not per channel (`:109`). `NoReportForgotten`
  has them as reasons to be through with a channel.
- Some continuations of the chat view act without asking whether the view has moved on (`use-chat-thread-send.ts:156`,
  `:268`, `:366`; `:587`, `:596`): a late start, change of mode or handoff selects or loads its thread, a late end of
  reading back or of a recovery frees the view. They set `taken` or `overruled`.
- A restart of a thread that fails after it has unregistered the old session leaves the thread without one that apply
  would find (`composer-assistant-service.ts:357`); `clearAll` does not abort a start or a finalize (`:424`, `:603`); the
  `finally` of a first message deletes the controller of the second (`:529`). A compaction stores its summary under
  the session's id, which the foreign key refuses for a restarted thread (`conversation-context-pipeline.ts:72`).
- Not modelled: synchronizations of the isolated repository interleave, and hard-reset it when the user has committed
  to its main branch; its marker is written before it is seeded. Apply does not see untracked files of the user, since
  `git diff` does not list them, and can overwrite them.

## 5. Proofs

| Theorem | States | For every |
|---|---|---|
| `TypeCorrect`, `Exclusion`, `Order`, `MapExact` (`TasksYamlLockProofs`) | `TypeOK` and the invariants of the run `lock` | set of calls and paths |
| `Refinement` | the promise chain implements `ExclusiveSection` | the same |
| `NothingIsLost`, `NoRunIsTakenAway`, `OutcomesAreFinal`, `QueuedTasksKeepTheirPackage`, `TaktNeverRefuses`, `EnqueueAnswersWithItsTask`, `TypeIsKept` (`TasksFileProofs`) | `NoRowLost`, `RunsAreOnFile`, `OutcomeIsFinal`, `QueuedHasPackage`, `TaktAcceptsFile`, `PackageEnqueueReturnsOwnTask`, `TypeOK` | finite set of commands and rows, set of processes, number of polls, operations offered to each command, both enqueue modes; under `~TaktOverlaps` |
| `ChainsTyped`, `NeverCreatedEarly`, `ReadyIsTrue`, `LinksLeadToTheirPlan`, `OneFlightPerKey` (`ChainEdgesProofs`) | `TypeOK`, `CreatedAfterUpstream`, `ReadyNeedsCompletedUpstream`, `LinksAreReal`, `FlightsAreExclusive` | set of tasks and calls, names given again, both enqueue modes, every status set by hand, torn reads or not |
| `TypeCorrect`, `NothingMissed`, `NoticesAreOfFailures` (`StateRefreshProofs`) | `TypeOK`, `EveryChangeIsShown`, `NoticesMatchFailures` | set of tasks, number of overlapping refreshes, length of the log, events lost or not |
| `TypeCorrect`, `NoConnectionIsLost`, `NothingHalfOpen`, `LastOneWins` (`WorkspaceProofs`) | `TypeOK` and the invariants of the run `switch` | set of workspaces and refreshes, number of transitions, of leaked connections, calls that may be asked for |
| `SwitchesAreServedWhole` | the safety part of `ImplementsRegister` | the same |
| `WatchTypeCorrect`, `RunningIsRecorded` | `WatchTypeOK`, `RunningWatchIsRecorded` | set of workspaces, processes and commands, number of sessions |
| `OneWorkspaceOneWatch` | `OneWatchPerWorkspace` | the same, with one workspace |
| `VerdictsStay`, `AdoptedOnce`, `ReportsAreRemembered`, `LedgerTypeIsKept` (`IntentLedgerProofs`) | `VerdictIsLocked`, `RequirementsAreAdopted`, `NoReportForgotten`, `TypeOK` | number of passes, attempts and openings, set of adoptions in flight |
| `TypeIsKept`, `ActiveSessionIsInMemory`, `TurnsStayTogether`, `ApplyAlwaysFindsThread`, `RestartNeverLoses` (`ComposerSessionProofs`) | `TypeOK`, `ActiveIsInMemory`, `TurnsFollowBindings`, `ApplyFindsThread`, `RestartLosesNothing` | set of workspaces, finite set of calls in flight, number of sessions, turns and calls |
| `ViewIsTyped`, `BusyViewIsServed`, `OneMessageAtATime`, `NoForeignTurns` (`ChatThreadSendProofs`) | `TypeOK` and the invariants of the run `chat_send` | set of sends and loads, number of threads |

*The lock.* Exclusion is not inductive: that two calls are not inside together rests on the shape of the chain.
The invariant adds that the calls of a path form one chain without gaps, that a call awaits the one before it,
that a tail has settled only if the one it waits for has and its gate is open, and that the map points at the
last call while one is active. A call enters only when the tail it awaits has settled, hence all calls before it
have left. The refinement follows from the same invariant: `Request` is the abstract request, `Enter` the grant,
`Leave` the release, `Settle` a stutter.

*The file.* All of `TasksFileProofs` rests on one inductive invariant, `IInv`. Rows are `Sound`: no two share an id or
a position. `NamesGiven` says that the names an enqueue has to avoid, those of the file and those of the list it took
before, were all given to rows ever stored. There are fewer of these than names, since the row about to be made is not
among them, so the suffix that `uniqueTaskId` looks for exists: a pigeonhole over two finite sets, and the reason why
commands and rows are assumed finite. `SectionHeld` says what a lock is worth: whoever is between its read and its write
holds exactly what its edit makes of the rows that are *still* on file. This is where `~TaktOverlaps` is needed and where
the run `tasks_overlap` breaks it. `Agrees` ties the locals of a command to the file, above all what a stop is after
(`Target`: the row it found running is there and, while it runs, has the pid that the stop looks at, whatever else
happens in the polls between). Once `Edit` is known to revise the rows it gets and to drop only duplicates and the pending
one it deletes (`EditRevises`), each property follows section by section. `OutcomesAreFinal` is an action property of the
same invariant: the rows that a step replaces are not settled.

*The chains.* That a task is never created early rests on a fact about time: a snapshot lags behind the file, but
never overtakes it, and completion is final in the file (`SnapshotsLag`: what a snapshot shows as completed is
completed). From it, `CheckedUpstream` (a `materialize` that got past its check has an upstream that has completed)
and `ReadyNeedsCompletedUpstream` follow; a status set by hand does not survive since the edges are synced before
they are saved and whenever they are read. `UnusedAbsent` (a name not used yet is in no file) and `ArgsTyped`
(a call past `idle` has arguments of its operation) close the induction.

`LinksAreReal` relates an edge to an enqueue several steps earlier, with stores of other calls and syncs from old
snapshots in between. With the package writer, what carries the link over is the call about to store (`StoredIsMade`),
and that every rewrite of the edges keeps the plan and the task of an edge together. With `takt add` a call only knows
what it has seen: that a link leads to a later task rests on the order of names (`OrderInv`). Names are first given in
order (`MadeInOrder`), snapshots show only what has been made (`SeenIsMade`), so a task that is on file and not in a
snapshot comes after all those that are (`UnseenIsLater`), among which is the one the call starts from (`OriginSeen`);
unless its name has been given again, which is why the property has to except those. `again` never shrinks, so an
exception never turns back into a claim. `FlightsAreExclusive` needs the converse of what it says: each key in the set
is that of one call in flight (`FlightInv`), so `finally` takes out no other call's key.

*The refreshes.* `EveryChangeIsShown` speaks of quiet states only. The inductive invariant says where the newest
contents are at any moment (`OnItsWay`): shown already, or in the hands of a write that has truncated the file, an
event, the timer, a refresh that has still to read, or one that has read them. Each step passes them on: a
write raises an event, `schedule` turns it into the timer or finds it set, the timer into a refresh, which reads
them or finds the file torn, in which case the write is still to come. `NothingFromTheFuture` (no snapshot is newer
than the file) makes "newest" the present.

`NoticesMatchFailures` counts, and counting needs to know up to where the tracker has got. The invariant
(`InOrder`) says that, as long as the view has not gone back, there is for each task a position in the log, no later
than the newest view, up to which the tracker `Remembers`: notices so far are at most the failures up to it, and an
active status it holds is the one at that position. Passing from there to a view in which the task has failed
crosses a failure (`FailsBetween`: between a content in which a task has not failed and a later one in which it has,
it fails), so the count of failures (`FailedBy`) grows with that of notices.

*The switch.* The invariant says which stage the running transition has reached and what of the port is set by then
(`Progress`), that transitions begin in turn (`InTurn`) and that there is a boundary (`Frontier`) between those that
have begun and those that wait. The step from one stage to the next preserves it because nothing else writes the port:
refreshes open databases but close none (`Tracked`), and what a later transition finds is what the last one left,
whole; a refused one stands between the two and changes nothing, so the claim about the last request is about the last
that was not refused. The handles of a workspace are the one in the cache and those leaked, a count that each way of
creating and closing one keeps. The refinement maps the boundary to `served`: a refusal moves it in one abstract step,
without "switching"; counting the transitions that have ended is counting up to it, which needs the cardinality of an
initial segment, from `FiniteSetTheorems`.

*The watch.* `RunningWatchIsRecorded` is inductive together with the types, and its proof is a look at whatever
touches a record: the save after a spawn replaces one only if the process it names is gone (`HasWatch`), the clear of
a stop comes with a signal to that process, and the sync after a stop task clears only if the record still names the
owner that has ended. Late exit events and crashes touch no record. An application with one workspace has one
record, hence one watch.

*The intent ledger.* `VerdictIsLocked` follows from what a step may do to the rows: nothing, an upsert, which leaves a
row with a verdict alone, or a verdict, which the WHERE clause grants only to a row without one. `RequirementsAreAdopted`
needs to know what an adoption in flight holds: the blocks it has seen (`seen`), of which it is about to write a
superset, are sound themselves, and no two adoptions in flight are of the same decision, since the second would not
have got past the verdict of the first.

`NoReportForgotten` has to follow an entry through the hands of passes that share it. The invariant `NothingForgotten`
accounts for the entry in the map, for the one each pass of this session works on, though it may no longer be in the map,
and for the absence of an entry: then this session is through with every channel. A pass that still counts what the ledger
has (`countLinks`) is about to make an entry, and carries its promise in the meantime. That types are kept is not
immediate either: attempts stay below the limit because a channel is closed at it, and an adoption numbers its block
after the ones it has read, which are at most one since no two adoptions write the same decision (`Numbered`).

*The composer.* The invariant has four layers, each of which uses those before it. `Types` includes what the objects
in memory are: a call goes on with an object of the session it is about, and everything kept is referred to by the map
or a call. There are therefore at most as many objects as sessions and calls, and a new one always finds a slot
(`FreeSlotIsFree`, a pigeonhole again). `Bindings` is `TurnsFollowBindings` with what makes it inductive: a session
being started is in no thread yet and started by one call only, a binding is of one thread, and the turns of the
session bound are the last of its thread. `Registered` adds to `ApplyFindsThread` that a start about to run or bind
has its registration, and that what a restart is about to unregister is bound, if at all, to the thread it restarts.
`OneByOne` concerns calls that have not overlapped: it says of the one call under way, stage by stage, what it has
read that is still so (`OnlyCall`), and of memory and snapshot that they agree (`InStore`) between and in the middle
of calls, which is why a crash in any of them loses nothing. As soon as two calls meet, it says nothing, and `acked`
starts over.

*The chat view.* Its properties are inductive together with the types: whoever frees the view also ends, or supersedes,
the send it was busy with. What makes the induction work is that the comparison with the counter is a comparison with
`sender`, so a send left behind can do nothing but end.

Assumptions are the named ASSUMEs of the modules: `Commands` and `Seeds`, and the sets of tasks and calls, are
disjoint; `None`, `Nobody`, `NoView` and `NoPid` are not members of what they stand beside; bounds are natural
numbers, positive where one is needed. `Commands` and `Seeds` of `TasksFile` and `Calls` of `ComposerSession` are
assumed finite: at any moment a program has made finitely many calls. No other set is. `~TaktOverlaps`, of
`TasksFile`, is not an assumption of the module but a hypothesis of the seven theorems about it. It is what the code
relies on and does not enforce (section 4); without it they are false, and the run `tasks_overlap` has the
counterexample of one.

Model-checked only: liveness (`EveryCallLeaves`, `CommandsEnd`, `RunningIsNotForever`, `EveryTransitionEnds`,
`BusyEnds` and the fairness in `ImplementsExclusiveSection` and `ImplementsRegister`), which is out of the prover's
reach. The prover cannot instantiate an induction over data either. The modules avoid it: `TasksFile` has its rows in
a set and not in a sequence to be folded over, and where a least number is needed (`LeastNat`, in the proofs) it comes
from the library's fact that a set with a well-founded relation has minimal elements, which is about sets and takes no
operator.

## 6. Not modelled

- *Mock queue.* Demonstration mode; the branches of commands and chains for it touch neither `tasks.yaml` nor takt.
- *Task mutation pipeline.* What is stored after an enqueue; in production nothing is rolled back when that fails.
- *Isolated repository, the git part of apply.* Sequences of git commands on the user's files. What makes them
  interesting (section 4) is not prevented by the code, and the code states no property that would then remain.
- *Workflow routing, library, selection, settings.* Data: scoring, merging of YAML, resolution of layers. The one
  process among them, the collection of materialized workflows, runs once when a workspace is opened.
- *Local models, pull requests and issues, integrations.* Single calls of external services.
- *IPC and the rest of the renderer.* Forwarding, schemas, presentation, messages.
- *Of modelled components:* the package fallback after a failed `takt add` (off by default), the retry with another
  model, merge; what `normalizeTaskRowForTakt` repairs in a row beyond duplicates; the formats of YAML and SQL; the
  projection of runs, results and agents; refreshes that throw; planning-only sessions, MCP servers, titles, metrics and
  archived threads of the assistant; the live stream and the drafts of the chat view; summaries, lists and approvals of
  the intent ledger; a crash of the application in the middle of a write of `tasks.yaml`. `lib/broadcast-throttle.ts`:
  nothing calls `broadcastThrottled`.

## 7. Plan

1. Proofs: every safety property that a run checks is proved. What is left is to say more: a property of `TasksFile` that
   survives `TaktOverlaps`, with the theorem that needs no hypothesis; and `OneWatchPerWorkspace` for several
   workspaces, restricted to those whose record no switch has left behind.
2. `WorkspaceWatch` with two workspaces: a property that tells what two watches on one file can do to it from what the
   record guarantees.
3. Synchronization and apply of the isolated repository, if the code comes to serialize them.
