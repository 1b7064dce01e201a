---------------------------- MODULE StateRefresh ----------------------------
(***************************************************************************)
(* What the window shows of tasks.yaml.  The runs watcher turns changes of *)
(* the file into refreshes, after a debounce timer; a fallback poll helps  *)
(* while a running task is shown; commands refresh on their own.  Nothing  *)
(* orders refreshes: each reads the file, awaits the rest of its           *)
(* projection, and then replaces the cached state.  The ones the watcher   *)
(* started hand that state to the tracker of failure notifications.        *)
(*                                                                         *)
(* The contents the file has had are kept in order in `log`, so a snapshot *)
(* is a position in it: Empty stands for what a reader finds in the middle *)
(* of a write.                                                             *)
(***************************************************************************)
EXTENDS Naturals, Sequences, FiniteSets

CONSTANTS
    Tasks,
    Watched,        \* bound: refreshes of the watcher that can overlap
    Asked,          \* bound: refreshes of commands that can overlap
    NoView,         \* cachedState before the first refresh
    MaxLog,         \* bound: contents the file takes in a behaviour
    EventsLost      \* may a file event be lost?

ASSUME SlotsAssumption == Watched \cap Asked = {}
ASSUME NoViewAssumption == NoView \notin Nat
ASSUME BoundAssumption == MaxLog \in Nat \ {0}
ASSUME EventsAssumption == EventsLost \in BOOLEAN

VARIABLES
    log,        \* the contents of tasks.yaml so far, the present one last
    torn,       \* has a write truncated the file and not yet completed?
    event,      \* a file event is on its way
    lost,       \* history: has a file event been lost?
    timer,      \* the debounce timer of the runs watcher is set
    refresh,    \* per refresh, its program counter and the snapshot it read
    view,       \* cachedState: the snapshot projected last
    prev,       \* previousStatuses of the failure tracker
    notices,    \* history: failure notifications per task
    newest,     \* history: the newest snapshot that has been the view
    back        \* history: has the view gone back to an older snapshot?

vars == <<log, torn, event, lost, timer, refresh, view, prev, notices, newest, back>>

Refreshes == Watched \cup Asked
Active == {"pending", "running"}     \* "stopped" counts as "pending", "exceeded" as "failed"
Status == Active \cup {"absent", "completed", "failed"}
Empty == 0
Snapshot == 0..MaxLog

Present == Len(log)
Contents(v) == IF v \in {Empty, NoView} THEN [t \in Tasks |-> "absent"] ELSE log[v]

\* How takt and the commands change the status of a task.
MayFollow == {<<"absent", "pending">>, <<"pending", "absent">>, <<"pending", "running">>,
              <<"running", "completed">>, <<"running", "failed">>, <<"running", "pending">>,
              <<"failed", "pending">>, <<"failed", "absent">>, <<"completed", "absent">>}

-----------------------------------------------------------------------------
(* The file: takt or an in-app section writes it, in two steps, and may    *)
(* leave it as it was.                                                     *)

Notify ==
    \/ event' = TRUE /\ UNCHANGED lost
    \/ EventsLost /\ UNCHANGED event /\ lost' = TRUE

Truncate ==
    /\ ~torn /\ Present < MaxLog
    /\ torn' = TRUE
    /\ Notify
    /\ UNCHANGED <<log, timer, refresh, view, prev, notices, newest, back>>

Write(t, s) ==
    /\ torn
    /\ s = log[Present][t] \/ <<log[Present][t], s>> \in MayFollow
    /\ log' = Append(log, [log[Present] EXCEPT ![t] = s])
    /\ torn' = FALSE
    /\ Notify
    /\ UNCHANGED <<timer, refresh, view, prev, notices, newest, back>>

-----------------------------------------------------------------------------
(* The runs watcher.                                                       *)

DeliverUnlessRefreshing ==
    /\ event
    /\ event' = FALSE
    /\ timer' = (timer \/ \A r \in Watched : refresh[r].pc = "idle")
    /\ UNCHANGED <<log, torn, lost, refresh, view, prev, notices, newest, back>>

\* schedule: one timer at a time.
Deliver ==
    /\ event
    /\ event' = FALSE
    /\ timer' = TRUE
    /\ UNCHANGED <<log, torn, lost, refresh, view, prev, notices, newest, back>>

PollsBeforeFirstView == view = NoView

\* shouldFallbackPoll.
Polls == view = NoView \/ \E t \in Tasks : Contents(view)[t] = "running"

Fallback ==
    /\ Polls
    /\ timer' = TRUE
    /\ UNCHANGED <<log, torn, event, lost, refresh, view, prev, notices, newest, back>>

Begin(r) == refresh' = [refresh EXCEPT ![r].pc = "read"]

\* The timer fires: it is cleared first, then onChange starts a refresh.
Fire(r) ==
    /\ timer /\ refresh[r].pc = "idle"
    /\ Begin(r)
    /\ timer' = FALSE
    /\ UNCHANGED <<log, torn, event, lost, view, prev, notices, newest, back>>

-----------------------------------------------------------------------------
(* A refresh.                                                              *)

\* A command has changed something and refreshes, without notifications.
Ask(r) ==
    /\ refresh[r].pc = "idle"
    /\ Begin(r)
    /\ UNCHANGED <<log, torn, event, lost, timer, view, prev, notices, newest, back>>

\* invalidate and loadCached: always a read of its own, since nothing is
\* awaited between the two.
Read(r) ==
    /\ refresh[r].pc = "read"
    /\ refresh' = [refresh EXCEPT ![r] = [pc |-> "project",
                                          seen |-> IF torn THEN Empty ELSE Present]]
    /\ UNCHANGED <<log, torn, event, lost, timer, view, prev, notices, newest, back>>

\* projectAppState and the assignment of cachedState, many awaits later.
Project(r) ==
    LET mine == refresh[r].seen
    IN /\ refresh[r].pc = "project"
       /\ view' = mine
       /\ newest' = IF mine > newest THEN mine ELSE newest
       /\ back' = (back \/ (Empty < mine /\ mine < newest))
       /\ refresh' = [refresh EXCEPT ![r] = [pc |-> "settle", seen |-> Empty]]
       /\ UNCHANGED <<log, torn, event, lost, timer, prev, notices>>

\* The map of the tracker after a pass: tasks not listed are forgotten.
Tracked(t) == IF Contents(view)[t] = "absent" THEN "unseen" ELSE Contents(view)[t]

NewlyFailedOrUnseen(t) ==
    Contents(view)[t] = "failed" /\ prev[t] \in Active \cup {"unseen"}

\* collectNewFailures.
NewlyFailed(t) == Contents(view)[t] = "failed" /\ prev[t] \in Active

\* The rest of the refresh.  onStateChange passes the cached state there is by
\* now to the tracker, which is not necessarily the one this refresh made.
Settle(r) ==
    /\ refresh[r].pc = "settle"
    /\ refresh' = [refresh EXCEPT ![r].pc = "idle"]
    /\ IF r \in Watched
       THEN /\ notices' = [t \in Tasks |-> notices[t] + IF NewlyFailed(t) THEN 1 ELSE 0]
            /\ prev' = [t \in Tasks |-> Tracked(t)]
       ELSE UNCHANGED <<notices, prev>>
    /\ UNCHANGED <<log, torn, event, lost, timer, view, newest, back>>

-----------------------------------------------------------------------------
\* The workspace is open, its watcher runs, and the first refresh - one of a
\* command, without notifications - begins.
Init ==
    /\ log \in {<<c>> : c \in [Tasks -> Status]}
    /\ torn = FALSE /\ event = FALSE /\ lost = FALSE /\ timer = FALSE
    /\ \E first \in Asked :
        refresh = [r \in Refreshes |-> [pc |-> IF r = first THEN "read" ELSE "idle",
                                        seen |-> Empty]]
    /\ view = NoView
    /\ prev = [t \in Tasks |-> "unseen"]
    /\ notices = [t \in Tasks |-> 0]
    /\ newest = Empty /\ back = FALSE

Progress(r) == Read(r) \/ Project(r) \/ Settle(r)

Next ==
    \/ Truncate
    \/ \E t \in Tasks, s \in Status : Write(t, s)
    \/ Deliver \/ Fallback
    \/ \E r \in Watched : Fire(r)
    \/ \E r \in Asked : Ask(r)
    \/ \E r \in Refreshes : Progress(r)

Spec == Init /\ [][Next]_vars

\* Writes complete, events on their way arrive, timers fire and the awaits of
\* a refresh are file I/O.
Fairness ==
    /\ WF_vars(\E t \in Tasks, s \in Status : Write(t, s))
    /\ WF_vars(Deliver) /\ WF_vars(Fallback)
    /\ WF_vars(\E r \in Watched : Fire(r))
    /\ \A r \in Refreshes : WF_vars(Progress(r))

FairSpec == Spec /\ Fairness

-----------------------------------------------------------------------------
TypeOK ==
    /\ log \in Seq([Tasks -> Status]) /\ Len(log) \in 1..MaxLog
    /\ {torn, event, lost, timer, back} \subseteq BOOLEAN
    /\ refresh \in [Refreshes -> [pc : {"idle", "read", "project", "settle"},
                                  seen : Snapshot]]
    /\ view \in Snapshot \cup {NoView}
    /\ prev \in [Tasks -> (Status \ {"absent"}) \cup {"unseen"}]
    /\ notices \in [Tasks -> Nat]
    /\ newest \in Snapshot

(* Nothing is on its way: no write, event, timer or refresh.               *)
Quiet == ~torn /\ ~event /\ ~timer /\ \A r \in Refreshes : refresh[r].pc = "idle"

(* When all has settled, the present contents of the file have been shown, *)
(* unless an event was lost: no change falls between the debounce, the     *)
(* reads and the write that was torn.  (Being shown they may since have    *)
(* been overtaken.)                                                        *)
EveryChangeIsShown == Quiet /\ ~lost => newest = Present

(* How often t has failed while the app was watching.                      *)
Failures(t) ==
    Cardinality({i \in 2..Present : log[i][t] = "failed" /\ log[i - 1][t] # "failed"})

(* As long as refreshes finish in the order of their reads, torn or not, a *)
(* failure is notified at most once, and one from before the start never.  *)
NoticesMatchFailures == ~back => \A t \in Tasks : notices[t] <= Failures(t)

(* A task that has stopped running does not go on running in the window,   *)
(* although events get lost and refreshes overtake each other: the poll    *)
(* goes on as long as it would.                                            *)
RunningIsNotForever ==
    \A t \in Tasks : <>[](log[Present][t] # "running") =>
        <>[](view # NoView /\ Contents(view)[t] # "running")
=============================================================================
