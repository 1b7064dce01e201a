----------------------------- MODULE TasksFile -----------------------------
(***************************************************************************)
(* tasks.yaml and everything in the main process that rewrites it: enqueue *)
(* (package writer or `takt add`), retry, delete, workflow swap, run now,  *)
(* stop and the migration to direct execution when a workspace is opened,  *)
(* next to the external takt processes that claim and finish its rows.     *)
(*                                                                         *)
(* Every in-app read-modify-write runs inside withTasksYamlLock, here the  *)
(* variable `section`; that the promise chain behind it is an exclusive    *)
(* section is the subject of TasksYamlLock.  takt does not take that lock. *)
(* `writeFile` truncates before it writes, so a write takes two steps, and *)
(* whoever reads the file in between without the lock finds it torn, which *)
(* tasks-yaml-reader.ts reports as an empty queue.                         *)
(*                                                                         *)
(* The file is the set of its rows; `at` orders them.  Rows are appended   *)
(* and removed, never moved: a removal leaves a gap that means nothing.    *)
(***************************************************************************)
EXTENDS Naturals, FiniteSetsExt

CONSTANTS
    Commands,       \* invocations of TaskCommandService, each made at most once
    Seeds,          \* rows that were in the file before the app started
    Nobody,         \* the free lock; no row, no command, no issue
    Pids, NoPid,    \* takt processes; the owner_pid of a row that has none
    Offered,        \* per command, the operations it may be a call of
    EnqueueModes,   \* what PLANETZ_ENQUEUE_MODE may be set to
    MaxPolls,       \* bound: STALE_RUNNING_POLL_ATTEMPTS (8 in the code)
    TaktOverlaps    \* may takt write the file while a section is open?

ASSUME NobodyAssumption == Nobody \notin Commands \cup Seeds /\ NoPid \notin Pids
ASSUME IdsAssumption == /\ Commands \cap Seeds = {}
                        /\ IsFiniteSet(Commands) /\ IsFiniteSet(Seeds)
ASSUME BoundAssumption == MaxPolls \in Nat \ {0}
ASSUME OverlapAssumption == TaktOverlaps \in BOOLEAN
ASSUME ModeAssumption == EnqueueModes \subseteq {"package_writer", "takt_add"}

VARIABLES
    rows,       \* the rows of the last complete write
    writer,     \* the command whose writeFile has truncated the file, or Nobody
    packages,   \* rows whose task package directory is on disk
    section,    \* the command inside withTasksYamlLock, or Nobody
    plan,       \* per command, what it is about to write and the rows it drops
    cmd,        \* per command: program counter, arguments and locals
    procs,      \* takt processes: "none", "alive" or "dead"
    work,       \* per process, the row it is executing, or Nobody
    created,    \* history: every row ever stored
    removed     \* history: the rows deleted or deduplicated

file == <<rows, writer, packages>>
lock == <<section, plan>>
takt == <<procs, work>>
history == <<created, removed>>
vars == <<file, lock, cmd, takt, history>>

RowIds == Commands \cup Seeds       \* a row is known by who created it
Names == 1..Cardinality(RowIds)     \* a title and its numbered variants
Row == [at : Nat, name : Names, id : RowIds,
        status : {"pending", "running", "completed", "failed", "stopped"},
        owner : Pids \cup {NoPid}, workflow : Commands \cup {Nobody},
        issue : Commands \cup {Nobody}]

NewRow(at, n, id) == [at |-> at, name |-> n, id |-> id, status |-> "pending", owner |-> NoPid,
                      workflow |-> Nobody, issue |-> Nobody]

Plan == [rows : SUBSET Row, drop : SUBSET RowIds]
NoPlan == [rows |-> {}, drop |-> {}]

-----------------------------------------------------------------------------
(* Reading the file.                                                       *)

NamesIn(rs) == {r.name : r \in rs}
IdsIn(rs) == {r.id : r \in rs}
UniqueNames(rs) == \A r, s \in rs : r.name = s.name => r = s

\* readTasksFromYaml outside the section: a torn file is an empty queue.
ReadFresh == IF writer # Nobody THEN {} ELSE rows

\* The row that comes first, if there is any; Array.find by name.
Earliest(rs) == {r \in rs : \A s \in rs : r.at <= s.at}
Named(rs, n) == Earliest({r \in rs : r.name = n})
IsStatus(rs, n, s) == \E r \in Named(rs, n) : r.status = s
Pending(rs) == {r \in rs : r.status = "pending"}

\* uniqueTaskId for titles that share a slug: the first suffix not taken.
UniqueTaskId(taken) == CHOOSE n \in Names \ taken : \A m \in Names \ taken : n <= m

-----------------------------------------------------------------------------
(* The sections: what each one makes of the rows it reads.                 *)

KeepDuplicates(rs) == rs

\* dedupeTaskRowsByName: the last row of each name stays.
Dedupe(rs) == {r \in rs : \A s \in rs : s.name = r.name => s.at <= r.at}

\* A row pushed to the end of the file.
Appended(rs, n, id) == rs \cup {NewRow(1 + Max({0} \cup {r.at : r \in rs}), n, id)}

CreateFromStaleIds(rs, c) == Appended(rs, UniqueTaskId(cmd[c].existing), c)

\* createTaskPackageUnderLock: a name new to the file and to the caller's list.
Create(rs, c) == Appended(rs, UniqueTaskId(NamesIn(rs) \cup cmd[c].existing), c)

DeleteAnyStatus(rs, c) == rs \ Named(rs, cmd[c].name)

\* deletePendingTaskPackage: splice the first row of that name, if pending.
Delete(rs, c) == rs \ Pending(Named(rs, cmd[c].name))

\* updatePendingTaskWorkflow.
Swap(rs, c) ==
    {IF r \in Pending(Named(rs, cmd[c].name)) THEN [r EXCEPT !.workflow = c] ELSE r : r \in rs}

\* annotateTaskIssueNumber: on the row of the id the enqueue discovered.
Annotate(rs, c) ==
    {IF r \in Named(rs, cmd[c].name) THEN [r EXCEPT !.issue = c] ELSE r : r \in rs}

\* forceFailRunningTask: the first row of that name still running.  The code
\* stores "failed"; "stopped" tells that from an outcome takt reported.
ForceFail(rs, c) ==
    {IF r \in Named({x \in rs : x.status = "running"}, cmd[c].name)
     THEN [r EXCEPT !.status = "stopped", !.owner = NoPid] ELSE r : r \in rs}

SanitizingPcs == {"sanitize", "sanitizeAdded", "sanitizeRun"}

Edit(rs, c) ==
    CASE cmd[c].pc \in SanitizingPcs -> Dedupe(rs)
      [] cmd[c].pc = "create" -> Create(rs, c)
      [] cmd[c].pc = "delete" -> Delete(rs, c)
      [] cmd[c].pc = "swap" -> Swap(rs, c)
      [] cmd[c].pc = "annotate" -> Annotate(rs, c)
      [] cmd[c].pc = "forceFail" -> ForceFail(rs, c)
      [] cmd[c].pc \in {"resolve", "migrate"} -> rs

SectionPcs == SanitizingPcs \cup
    {"create", "delete", "swap", "annotate", "forceFail", "resolve", "migrate"}

-----------------------------------------------------------------------------
(* Where a command goes next.                                              *)

Goto(c, pc) == cmd' = [cmd EXCEPT ![c].pc = pc]

\* resolveRunningTaskOwnerPid: the owner of the first row of that name.
OwnerOf(rs, n) == IF IsStatus(rs, n, "running")
                  THEN (CHOOSE r \in Named(rs, n) : TRUE).owner ELSE NoPid

\* The task createPackage answers with: the one that the new row's name denotes.
Created(rs) == LET new == CHOOSE r \in rs : \A s \in rs : s.at <= r.at
               IN CHOOSE r \in Named(rs, new.name) : TRUE

\* runTaskNow goes on with the task it has enqueued.
AfterEnqueue(op) == IF op = "now" THEN "dispatch" ELSE "done"

\* The command after its section, which wrote the file or did not.  Enqueuing
\* is the same for enqueueTask, runTaskNow and deriveTask: resolveEnqueueMode
\* decides between the package writer and `takt add`, whose id is looked for after.
AfterSection(c, wrote) ==
    LET local == cmd[c]
        to(pc) == [local EXCEPT !.pc = pc]
    IN CASE local.pc = "sanitize" -> to(IF local.mode = "takt_add" THEN "add" ELSE "create")
         [] local.pc = "sanitizeAdded" -> to("annotate")
         [] local.pc = "annotate" -> to(AfterEnqueue(local.op))
         [] local.pc = "sanitizeRun" -> to("spawn")
         [] local.pc = "create" ->
              [to(AfterEnqueue(local.op)) EXCEPT
                    !.name = Created(plan[c].rows).name, !.got = Created(plan[c].rows).id]
         [] local.pc \in {"delete", "swap"} -> to(IF wrote THEN "done" ELSE "failed")
         [] local.pc = "resolve" ->
              IF OwnerOf(rows, local.name) = NoPid THEN to("failed")
              ELSE [to("signal") EXCEPT !.pid = OwnerOf(rows, local.name)]
         [] OTHER -> to("done")

Sanitizing(c) == cmd[c].pc \in SanitizingPcs

\* Sections that also rewrite the file for fields no property here reads: what
\* normalizeTaskRowForTakt repairs, and the worktree fields the migration
\* strips from rows that are queued or failed.
RewritesUnmodelled(c) ==
    \/ Sanitizing(c) /\ rows # {}
    \/ cmd[c].pc = "migrate" /\ \E r \in rows : r.status \in {"pending", "failed", "stopped"}

\* A section that changes nothing leaves at once, and one that does holds the
\* lock until it has written.
ReadThenLeaveOrHold(c) ==
    \/ /\ Edit(rows, c) = rows
       /\ cmd' = [cmd EXCEPT ![c] = AfterSection(c, FALSE)]
       /\ UNCHANGED lock
    \/ /\ Edit(rows, c) # rows \/ RewritesUnmodelled(c)
       /\ section' = c
       /\ plan' = [plan EXCEPT ![c] = [rows |-> Edit(rows, c),
                                       drop |-> IdsIn(rows) \ IdsIn(Edit(rows, c))]]
       /\ UNCHANGED cmd

ReadUnlocked(c) ==
    /\ cmd[c].pc \in SectionPcs /\ plan[c] = NoPlan
    /\ ReadThenLeaveOrHold(c)
    /\ UNCHANGED <<file, takt, history>>

\* The lock is granted and readFile returns.
Read(c) ==
    /\ cmd[c].pc \in SectionPcs
    /\ section = Nobody
    /\ ReadThenLeaveOrHold(c)
    /\ UNCHANGED <<file, takt, history>>

DropByName(c) ==
    IF Sanitizing(c)
    THEN {r.id : r \in {x \in rows : \E d \in rows : d.id \in plan[c].drop /\ d.name = x.name}}
    ELSE {}

\* removeDroppedTaskPackageDirs: the rows deduplication drops, before the write.
DroppedFirst(c) == IF Sanitizing(c) THEN plan[c].drop ELSE {}

\* The package directories change, then writeFile opens with O_TRUNC.
Truncate(c) ==
    /\ plan[c] # NoPlan /\ writer = Nobody
    /\ writer' = c
    /\ packages' = (packages \ DroppedFirst(c))
                        \cup (IF cmd[c].pc = "create" THEN {c} ELSE {})
    /\ UNCHANGED <<rows, lock, cmd, takt, history>>

\* writeFile completes, delete removes the package, the lock is released.
Store(c) ==
    /\ writer = c
    /\ rows' = plan[c].rows
    /\ writer' = Nobody
    /\ packages' = IF cmd[c].pc = "delete" THEN packages \ plan[c].drop ELSE packages
    /\ created' = created \cup IdsIn(plan[c].rows)
    /\ removed' = removed \cup plan[c].drop
    /\ section' = Nobody
    /\ plan' = [plan EXCEPT ![c] = NoPlan]
    /\ cmd' = [cmd EXCEPT ![c] = AfterSection(c, TRUE)]
    /\ UNCHANGED takt

-----------------------------------------------------------------------------
(* The steps of the commands outside the section.                          *)

\* What a command checks first, on a read without the lock.  Deleting has no
\* such check, deletePendingTaskPackage decides inside the section; nor has the
\* migration.
FirstPc(op) == IF op \in {"delete", "migrate"} THEN op ELSE "check"

Start(c, op, n) ==
    /\ cmd[c].pc = "idle"
    /\ cmd' = [cmd EXCEPT ![c].pc = FirstPc(op), ![c].op = op, ![c].name = n]
    /\ UNCHANGED <<file, lock, takt, history>>

\* enqueueTask and runTaskNow, of a new task.
Enqueues == {"enqueue", "now"}

\* enqueueResolvedTask lists the ids that exist before it enqueues.
ListExisting(c) ==
    /\ cmd[c].pc = "check" /\ cmd[c].op \in Enqueues
    /\ cmd' = [cmd EXCEPT ![c].pc = "sanitize", ![c].existing = NamesIn(ReadFresh)]
    /\ UNCHANGED <<file, lock, takt, history>>

\* deriveTask, for retry, resume and revise: a new task made from one on file,
\* of whatever status, enqueued like any other.
FindOrigin(c) ==
    /\ cmd[c].pc = "check" /\ cmd[c].op = "derive"
    /\ cmd' = [cmd EXCEPT ![c] =
        IF @.name \notin NamesIn(ReadFresh) THEN [@ EXCEPT !.pc = "failed"]
        ELSE [@ EXCEPT !.pc = "sanitize", !.existing = NamesIn(ReadFresh)]]
    /\ UNCHANGED <<file, lock, takt, history>>

\* swapTaskWorkflow refuses a task that is not queued.
CheckSwap(c) ==
    /\ cmd[c].pc = "check" /\ cmd[c].op = "swap"
    /\ Goto(c, IF IsStatus(ReadFresh, cmd[c].name, "pending") THEN "swap" ELSE "failed")
    /\ UNCHANGED <<file, lock, takt, history>>

\* assertExclusivePendingTask, after the look at the target itself.
RunsAlone(c) == IsStatus(ReadFresh, cmd[c].name, "pending") /\ Cardinality(Pending(ReadFresh)) <= 1

\* runPendingTask: the target must be pending, and the only pending task.
CheckRun(c) ==
    /\ cmd[c].pc = "check" /\ cmd[c].op = "run"
    /\ Goto(c, IF RunsAlone(c) THEN "dispatch" ELSE "failed")
    /\ UNCHANGED <<file, lock, takt, history>>

\* If the watch is shown as running, it may take the task: look again when the
\* timer of the task, which replaces an earlier one, fires.
Dispatch(c) ==
    /\ cmd[c].pc = "dispatch"
    /\ \/ Goto(c, "sanitizeRun")
       \/ cmd' = [d \in Commands |->
                    IF d = c THEN [cmd[c] EXCEPT !.pc = "wait"]
                    ELSE IF cmd[d].pc = "wait" /\ cmd[d].name = cmd[c].name
                         THEN [cmd[d] EXCEPT !.pc = "done"] ELSE cmd[d]]
    /\ UNCHANGED <<file, lock, takt, history>>

\* runWatchFallbackIfPending; the caller has had its answer, so an error is only traced.
Fallback(c) ==
    /\ cmd[c].pc = "wait"
    /\ Goto(c, IF RunsAlone(c) THEN "sanitizeRun" ELSE "done")
    /\ UNCHANGED <<file, lock, takt, history>>

\* stopTask refuses a task that is not running.
CheckStop(c) ==
    /\ cmd[c].pc = "check" /\ cmd[c].op = "stop"
    /\ Goto(c, IF IsStatus(ReadFresh, cmd[c].name, "running") THEN "resolve" ELSE "failed")
    /\ UNCHANGED <<file, lock, takt, history>>

\* enqueueViaTaktAdd: the first listed id that the caller's list lacks.
Discover(c) ==
    LET new == {r \in ReadFresh : r.name \notin cmd[c].existing}
    IN /\ cmd[c].pc = "list"
       /\ \/ \E r \in Earliest(new) :
               cmd' = [cmd EXCEPT ![c].pc = "sanitizeAdded", ![c].name = r.name, ![c].got = r.id]
          \/ new = {} /\ Goto(c, "failed")
       /\ UNCHANGED <<file, lock, takt, history>>

\* connector.runTaskNow starts `takt run`, detached.
Spawn(c) ==
    /\ cmd[c].pc = "spawn"
    /\ \/ \E p \in Pids :
            /\ procs[p] = "none"
            /\ procs' = [procs EXCEPT ![p] = "alive"]
            /\ Goto(c, "done")
       \/ /\ \A p \in Pids : procs[p] # "none"
          /\ Goto(c, "failed")
          /\ UNCHANGED procs
    /\ UNCHANGED <<file, lock, work, history>>

AwaitNothing(c) ==
    /\ cmd[c].pc = "signal"
    /\ Goto(c, "poll")
    /\ UNCHANGED <<file, lock, takt, history>>

\* stopProcessGracefully: the signals are sent and the process is gone...
AwaitExit(c) ==
    /\ cmd[c].pc = "signal"
    /\ procs[cmd[c].pid] = "dead"
    /\ Goto(c, "poll")
    /\ UNCHANGED <<file, lock, takt, history>>

\* ...or it has outlived the three grace periods.
StopTimeout(c) ==
    /\ cmd[c].pc = "signal"
    /\ procs[cmd[c].pid] = "alive"
    /\ Goto(c, "failed")
    /\ UNCHANGED <<file, lock, takt, history>>

PollForever(c) ==
    /\ cmd[c].pc = "poll"
    /\ IsStatus(ReadFresh, cmd[c].name, "running") = FALSE
    /\ Goto(c, "done")
    /\ UNCHANGED <<file, lock, takt, history>>

PollOnceMore(c) ==
    /\ cmd[c].pc = "poll"
    /\ IF ~IsStatus(ReadFresh, cmd[c].name, "running") THEN Goto(c, "done")
       ELSE IF cmd[c].polls < MaxPolls THEN cmd' = [cmd EXCEPT ![c].polls = @ + 1]
       ELSE Goto(c, "forceFail")
    /\ UNCHANGED <<file, lock, takt, history>>

\* reconcileStaleRunningAfterStop: give takt time to settle the row itself.
Poll(c) ==
    /\ cmd[c].pc = "poll"
    /\ IF ~IsStatus(ReadFresh, cmd[c].name, "running") THEN Goto(c, "done")
       ELSE IF cmd[c].polls + 1 < MaxPolls THEN cmd' = [cmd EXCEPT ![c].polls = @ + 1]
       ELSE Goto(c, "forceFail")
    /\ UNCHANGED <<file, lock, takt, history>>

-----------------------------------------------------------------------------
(* takt, an external program: what the code in src/ relies on.  It reads   *)
(* and writes tasks.yaml itself and knows nothing of the lock.             *)

TaktReady == writer = Nobody /\ (TaktOverlaps \/ section = Nobody)

\* `takt add` on behalf of c, if it ever ends, appends a row under a name of its own.
TaktAdd(c) ==
    /\ cmd[c].pc = "add" /\ TaktReady
    /\ rows' = Appended(rows, UniqueTaskId(NamesIn(rows)), c)
    /\ packages' = packages \cup {c}
    /\ created' = created \cup {c}
    /\ Goto(c, "list")
    /\ UNCHANGED <<writer, lock, takt, removed>>

TaktAddFails(c) ==
    /\ cmd[c].pc = "add"
    /\ Goto(c, "failed")
    /\ UNCHANGED <<file, lock, takt, history>>

\* A takt process takes a pending row; duplicate names make it refuse the file.
Claim(p, r) ==
    /\ procs[p] = "alive" /\ work[p] = Nobody /\ TaktReady
    /\ UniqueNames(rows)
    /\ r.status = "pending"
    /\ rows' = (rows \ {r}) \cup {[r EXCEPT !.status = "running", !.owner = p]}
    /\ work' = [work EXCEPT ![p] = r.id]
    /\ UNCHANGED <<writer, packages, lock, cmd, procs, history>>

Finish(p, outcome) ==
    /\ procs[p] = "alive" /\ work[p] # Nobody /\ TaktReady
    /\ rows' = {IF r.id = work[p] THEN [r EXCEPT !.status = outcome, !.owner = NoPid] ELSE r :
                    r \in rows}
    /\ work' = [work EXCEPT ![p] = Nobody]
    /\ UNCHANGED <<writer, packages, lock, cmd, procs, history>>

\* The process exits, is signalled or crashes; a row it had stays as it is.
Exit(p) ==
    /\ procs[p] = "alive"
    /\ procs' = [procs EXCEPT ![p] = "dead"]
    /\ work' = [work EXCEPT ![p] = Nobody]
    /\ UNCHANGED <<file, lock, cmd, history>>

-----------------------------------------------------------------------------
\* Rows the app may find at start: none, one, or one name entered twice, the
\* newer row still queued or done.
InitialRows ==
    {{}} \cup {{NewRow(1, 1, s)} : s \in Seeds}
         \cup {{NewRow(1, 1, s), [NewRow(2, 1, t) EXCEPT !.status = st]} :
                    s \in Seeds, t \in Seeds, st \in {"pending", "completed"}}

Init ==
    /\ rows \in {rs \in InitialRows : \A r, s \in rs : r.id = s.id => r = s}
    /\ writer = Nobody /\ section = Nobody
    /\ packages = IdsIn(rows) /\ created = IdsIn(rows) /\ removed = {}
    /\ plan = [c \in Commands |-> NoPlan]
    /\ \E mode \in EnqueueModes :
         cmd = [c \in Commands |-> [pc |-> "idle", op |-> "none", mode |-> mode, name |-> 1,
                                    existing |-> {}, pid |-> NoPid, polls |-> 0,
                                    got |-> Nobody]]
    /\ procs = [p \in Pids |-> "none"]
    /\ work = [p \in Pids |-> Nobody]

Ops == Enqueues \cup {"derive", "delete", "swap", "run", "stop", "migrate"}
ASSUME OfferedAssumption == Offered \in [Commands -> SUBSET Ops]

Begin(c) == \E op \in Offered[c], n \in Names :
                (op \in Enqueues \cup {"migrate"} => n = 1) /\ (n \in NamesIn(rows) \cup {1}) /\ Start(c, op, n)

OwnStep(c) ==
    \/ Read(c) \/ Truncate(c) \/ Store(c)
    \/ ListExisting(c) \/ FindOrigin(c) \/ CheckSwap(c) \/ CheckRun(c) \/ CheckStop(c)
    \/ Discover(c) \/ Dispatch(c) \/ Fallback(c) \/ Spawn(c) \/ AwaitExit(c) \/ StopTimeout(c) \/ Poll(c)

Step(c) == OwnStep(c) \/ TaktAdd(c) \/ TaktAddFails(c)

TaktStep(p) ==
    \/ \E r \in rows : Claim(p, r)
    \/ \E outcome \in {"completed", "failed"} : Finish(p, outcome)
    \/ Exit(p)

Next ==
    \/ \E c \in Commands : Begin(c) \/ Step(c)
    \/ \E p \in Pids : TaktStep(p)

Spec == Init /\ [][Next]_vars

\* Every await of a started command is on file I/O or a timer, except that of
\* `takt add`, which is run without a timeout; nothing obliges takt or the user
\* to act.
FairSpec == Spec /\ \A c \in Commands : WF_vars(OwnStep(c))
-----------------------------------------------------------------------------
Pcs == SectionPcs \cup {"idle", "check", "add", "list", "dispatch", "wait", "spawn", "signal",
                        "poll", "done", "failed"}

Local == [pc : Pcs, op : Ops \cup {"none"}, mode : {"package_writer", "takt_add"},
          name : Names, existing : SUBSET Names,
          pid : Pids \cup {NoPid}, polls : 0..(MaxPolls - 1), got : RowIds \cup {Nobody}]

TypeOK ==
    /\ rows \subseteq Row
    /\ writer \in Commands \cup {Nobody} /\ section \in Commands \cup {Nobody}
    /\ packages \subseteq RowIds /\ created \subseteq RowIds /\ removed \subseteq RowIds
    /\ plan \in [Commands -> Plan]
    /\ cmd \in [Commands -> Local]
    /\ procs \in [Pids -> {"none", "alive", "dead"}]
    /\ work \in [Pids -> RowIds \cup {Nobody}]

(* No enqueue, delete or swap undoes another: the file holds exactly the   *)
(* rows that were ever stored less those deleted or deduplicated, so none  *)
(* is lost to a stale write and none comes back.                           *)
NoRowLost == IdsIn(rows) = created \ removed

(* Once a command has sanitized the file for takt, names stay unique: a    *)
(* takt process started by run now never meets a file it would refuse.     *)
TaktAcceptsFile == (\E p \in Pids : procs[p] # "none") => UniqueNames(rows)

(* A queued task still has its package directory, unless the row is just   *)
(* being deduplicated: no delete and no sanitize removes another row's.    *)
QueuedHasPackage ==
    \A r \in rows :
        r.status = "pending" /\ r.id \notin packages
            => \E c \in Commands : Sanitizing(c) /\ r.id \in plan[c].drop

(* What a live takt process is executing is on file as running under its   *)
(* pid: nobody deletes it, reverts it to pending or declares it stopped.   *)
RunsAreOnFile ==
    \A p \in Pids : procs[p] = "alive" /\ work[p] # Nobody =>
        \E r \in rows : r.id = work[p] /\ r.status = "running" /\ r.owner = p

(* A settled task keeps its outcome: force-fail never overwrites what takt *)
(* reported, and takt never overwrites a task the user was told is stopped.*)
OutcomeIsFinal ==
    [][\A r \in rows : r.status \in {"completed", "failed", "stopped"} =>
          \A s \in rows' : s.id = r.id => s.status = r.status]_rows

(* The id that the package writer answers an enqueue, run now, retry,      *)
(* resume or revise with denotes, in the file it has just written, the     *)
(* task it made and no older namesake.  (With `takt add` it need not: the  *)
(* id is looked for afterwards, and another call's row may come first.)    *)
PackageEnqueueReturnsOwnTask ==
    \A c \in Commands :
        cmd[c].mode = "package_writer" /\ cmd[c].got # Nobody => cmd[c].got = c

(* Every command ends, with or without a result, or is left waiting for a  *)
(* `takt add` that does not end; either way it leaves the lock free.  Once *)
(* `takt add` has ended there is no way back to it: the command ends.      *)
CommandsEnd ==
    \A c \in Commands :
        cmd[c].pc # "idle" ~> cmd[c].pc \in {"done", "failed", "add"} /\ section # c
=============================================================================
