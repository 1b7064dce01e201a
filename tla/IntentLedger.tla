---------------------------- MODULE IntentLedger ----------------------------
(***************************************************************************)
(* How the reports of a completed task get into the intent ledger, and how *)
(* the operator's verdicts on the recorded decisions survive it.           *)
(*                                                                         *)
(* Every state refresh ends with a pass of IntentLedgerTracker over the    *)
(* tasks.  It notices the completion, puts an entry with two channels      *)
(* (decisions and observations; requirement links) into `pendingIngest`,   *)
(* and tries the channels of whatever entry is there.  Refreshes overlap,  *)
(* so passes do: each await lets another pass replace, finish or delete    *)
(* the entry this one works on.  An entry is an object: it is known by the *)
(* pass that made it, and passes share it.  The tasks a pass is given may  *)
(* have been read any time before, also before a later pass read them.     *)
(*                                                                         *)
(* The tracker keeps all of this per task; the module follows one task,    *)
(* with one assumed decision and one observation in its reports (required  *)
(* and designed decisions get no verdict).  Reading a report and upserting *)
(* its rows is one step: the rows depend on the report only.               *)
(***************************************************************************)
EXTENDS Naturals, FiniteSetsExt

CONSTANTS
    MaxPasses,      \* bound: state refreshes in a behaviour
    MaxAttempts,    \* TASK_REPORT_INGEST_MAX_ATTEMPTS
    MaxSessions,    \* bound: openings of the workspace
    Users,          \* slots for adoptions in flight
    None

ASSUME BoundsAssumption ==
    MaxPasses \in Nat \ {0} /\ MaxAttempts \in Nat \ {0} /\ MaxSessions \in Nat \ {0}
ASSUME NoneAssumption == None \notin {"active", "completed"}

VARIABLES
    status,     \* of the task in tasks.yaml
    report,     \* per report file of its run, how far it is written
    spec,       \* is the task of the spec-driven workflow?
    rows,       \* per decision, its intent_ledger row: an authority or a verdict
    linked,     \* are there requirement links from this task?
    blocks,     \* the adopted requirements in requirements.md
    promoted,   \* per decision, the promoted_req_id of its row, 0 for none
    user,       \* per slot, the adoption in flight
    session,    \* the number of openings so far
    open,       \* is a workspace open?
    prev,       \* previousStatuses
    pending,    \* pendingIngest: the pass that made the entry, 0 for none
    entry,      \* per pass, the entry it made
    pass,       \* per pass, its program counter and locals
    through     \* history: the channels this session is through with

vars == <<status, report, spec, rows, linked, blocks, promoted, user, session, open,
          prev, pending, entry, pass, through>>
takt == <<status, report, spec>>
store == <<rows, linked, blocks, promoted, user>>
tracker == <<prev, pending, entry, through>>

Passes == 1..MaxPasses
Files == {"decisions", "observation"}
Channels == {"ledger", "link"}
Decisions == {"decision", "observation"}
Verdicts == {"ratify", "reverse", "adopt", "fix"}

Closed == [open |-> FALSE, tries |-> 0]
Fresh == [open |-> TRUE, tries |-> 0]
NoEntry == [c \in Channels |-> Closed]
NoPass == [pc |-> "idle", on |-> 0, got |-> "nothing", old |-> FALSE]
Over == [NoPass EXCEPT !.pc = "done"]
Idle == [pc |-> "idle", of |-> "decision", seen |-> {}, id |-> 0]
Running(p) == pass[p].pc \notin {"idle", "done"}

Init ==
    /\ status = "active"
    /\ report = [f \in Files |-> "none"]
    /\ spec \in BOOLEAN
    /\ rows = [d \in Decisions |-> "absent"]
    /\ linked = FALSE
    /\ blocks = {}
    /\ promoted = [d \in Decisions |-> 0]
    /\ user = [u \in Users |-> Idle]
    /\ session = 1
    /\ open = TRUE
    /\ prev = None
    /\ pending = 0
    /\ entry = [p \in Passes |-> NoEntry]
    /\ pass = [p \in Passes |-> NoPass]
    /\ through = {}

-----------------------------------------------------------------------------
(* takt, and tasks.yaml.  Pending, running and failed are "active" here; a *)
(* task that has completed stays so.  A reader finds no task in the middle *)
(* of a write, or when the row has been removed: "gone".                   *)

Complete ==
    /\ status = "active"
    /\ status' = "completed"
    /\ UNCHANGED <<report, spec, store, session, open, tracker, pass>>

\* A report is written in two steps, before or after the task is set to completed.
WriteReport(f) ==
    /\ report[f] # "whole"
    /\ report' = [report EXCEPT ![f] = IF @ = "none" THEN "torn" ELSE "whole"]
    /\ UNCHANGED <<status, spec, store, session, open, tracker, pass>>

-----------------------------------------------------------------------------
(* The turn of the task in a pass p.  A pass that began before the         *)
(* workspace was closed writes into the tracker of the next session.       *)

\* isChannelReady: after a failed attempt, only when the retry interval has passed.
MayTry(channel) == channel.open
MayWait(channel) == channel.open => channel.tries > 0
SomeOpen(channels) == \E c \in Channels : channels[c].open

At(p, pc) == pass' = [pass EXCEPT ![p].pc = pc]

\* The end of the task's turn.
Remember(p, task) == pass' = [pass EXCEPT ![p] = Over] /\ prev' = task

\* History: no pass of this session needs to try the channels cs again.
Through(p, cs) == through' = through \cup (IF pass[p].old THEN Channels ELSE cs)

\* The synchronous start of tryIngest on entry o, whose channels are given.
Try(p, o, channels) ==
    \/ /\ open
       /\ \/ MayTry(channels["ledger"]) /\ pass' = [pass EXCEPT ![p].pc = "locate", ![p].on = o]
          \/ /\ MayWait(channels["ledger"]) /\ MayTry(channels["link"])
             /\ pass' = [pass EXCEPT ![p].pc = "links", ![p].on = o]
       /\ pending' = o
       /\ UNCHANGED prev
    \/ /\ open /\ \A c \in Channels : MayWait(channels[c])
       /\ pending' = o
       /\ Remember(p, "completed")
    \/ /\ ~open                         \* resolveInput has no workspace to resolve in
       /\ pending' = 0
       /\ Remember(p, "completed")

\* A variant of Dropped that removes the entry as soon as one channel is through.
DroppedEarly(channels) == IF \A c \in Channels : channels[c].open THEN pending ELSE 0

\* tryIngest deletes whatever entry is in the map once its own has no open channel.
Dropped(channels) == IF SomeOpen(channels) THEN pending ELSE 0

Retriable(outcome) == outcome \in {"missing_report", "no_run", "persist_failed"}

\* A variant of Attempted that gives up one attempt too late.
AttemptedOnceMore(channel, outcome) ==
    IF channel.open /\ Retriable(outcome) /\ channel.tries < MaxAttempts
    THEN [open |-> TRUE, tries |-> channel.tries + 1]
    ELSE Closed

\* runChannel on a channel, which another pass may have closed meanwhile.
Attempted(channel, outcome) ==
    IF channel.open /\ Retriable(outcome) /\ channel.tries + 1 < MaxAttempts
    THEN [open |-> TRUE, tries |-> channel.tries + 1]
    ELSE Closed

\* What the tracker does not try again: done, refused, or tried often enough.
Final(channel, outcome) ==
    \/ outcome \in {"ok", "path_denied", "invalid_report", "no_context_snapshot"}
    \/ channel.tries + 1 >= MaxAttempts

\* The outcome of channel c; then the other channel, or the end of the task's turn.
Settle(p, c, outcome) ==
    LET o == pass[p].on
        after == [entry[o] EXCEPT ![c] = Attempted(@, outcome)]
    IN  /\ entry' = [entry EXCEPT ![o] = after]
        /\ Through(p, IF Final(entry[o][c], outcome) THEN {c} ELSE {})
        /\ \/ /\ c = "ledger" /\ MayTry(after["link"])
              /\ At(p, "links") /\ UNCHANGED <<prev, pending>>
           \/ /\ c = "ledger" => MayWait(after["link"])
              /\ pending' = Dropped(after)
              /\ Remember(p, "completed")

-----------------------------------------------------------------------------
\* The task is completed: a transition, a backfill, an entry that waits, or nothing to do.
TrackCompleted(p) ==
    \/ /\ prev = "active"
       /\ entry' = [entry EXCEPT ![p] = [c \in Channels |-> Fresh]]
       /\ Try(p, p, entry'[p])
       /\ Through(p, {})
    \/ /\ prev = None /\ spec /\ pending = 0
       /\ At(p, "count")
       /\ UNCHANGED tracker
    \/ /\ prev # "active" /\ pending # 0
       /\ Try(p, pending, entry[pending])
       /\ UNCHANGED <<entry, through>>
    \/ /\ pending = 0 /\ (prev = "completed" \/ (prev = None /\ ~spec))
       /\ Remember(p, "completed")
       /\ Through(p, IF prev = None THEN Channels ELSE {})
       /\ UNCHANGED <<pending, entry>>

\* onTasksUpdated; a task that is not there loses its entry.
Track(p) ==
    /\ open /\ pass[p].pc = "idle"
    /\ p > 1 => pass[p - 1].pc # "idle"
    /\ \/ /\ pending' = 0
          /\ Through(p, IF pending # 0 THEN Channels ELSE {})
          /\ At(p, "done")
          /\ UNCHANGED <<prev, entry>>
       \/ /\ Remember(p, "active")
          /\ UNCHANGED <<pending, entry, through>>
       \/ /\ status = "completed"
          /\ TrackCompleted(p)
    /\ UNCHANGED <<takt, store, session, open>>

\* Backfill: only the channels that have stored nothing for the task.
CountRows(p) ==
    /\ pass[p].pc = "count"
    /\ LET new == \A d \in Decisions : rows[d] = "absent"
       IN  /\ entry' = [entry EXCEPT ![p]["ledger"] = IF new THEN Fresh ELSE Closed]
           /\ Through(p, IF new THEN {} ELSE {"ledger"})
    /\ At(p, "countLinks")
    /\ UNCHANGED <<takt, store, session, open, prev, pending>>

CountLinks(p) ==
    /\ pass[p].pc = "countLinks"
    /\ entry' = [entry EXCEPT ![p]["link"] = IF linked THEN Closed ELSE Fresh]
    /\ Through(p, IF linked THEN {"link"} ELSE {})
    /\ LET there == IF SomeOpen(entry'[p]) THEN p ELSE pending
       IN  IF there # 0 THEN Try(p, there, entry'[there])
           ELSE Remember(p, "completed") /\ UNCHANGED pending
    /\ UNCHANGED <<takt, store, session, open>>

-----------------------------------------------------------------------------
(* Ingesting.  The reports are found through the row of tasks.yaml: none   *)
(* without the row or in the middle of a write.                            *)

Unresolved == {"no_run", "path_denied"}

\* A variant of Upserted that takes the authority of the report in every case.
UpsertedAlways(d, authority) == [rows EXCEPT ![d] = authority]

\* upsertIntentLedgerEntry: a row with a verdict keeps it.
Upserted(d, authority) == [rows EXCEPT ![d] = IF @ \in Verdicts THEN @ ELSE authority]

Authority(d) == IF d = "decision" THEN "assumed" ELSE "observed"

Locate(p) ==
    /\ pass[p].pc = "locate"
    /\ \/ \E outcome \in Unresolved : Settle(p, "ledger", outcome)
       \/ /\ report["decisions"] = "none" /\ report["observation"] = "none"
          /\ Settle(p, "ledger", "missing_report")
       \/ /\ report["decisions"] # "none" \/ report["observation"] # "none"
          /\ At(p, "decisions")
          /\ UNCHANGED tracker
    /\ UNCHANGED <<takt, store, session, open>>

\* Reading report f: what it has, and the row d that is stored of it.
Parsed(f) ==
    CASE report[f] = "none" -> "nothing"
      [] report[f] = "torn" -> "unreadable"
      [] report[f] = "whole" -> "rows"

StoreRow(f, d) == rows' = IF Parsed(f) = "rows" THEN Upserted(d, Authority(d)) ELSE rows

StoringFails(p, f) ==
    /\ Parsed(f) = "rows"
    /\ Settle(p, "ledger", "persist_failed")
    /\ UNCHANGED rows

IngestDecisions(p) ==
    /\ pass[p].pc = "decisions"
    /\ \/ /\ StoreRow("decisions", "decision")
          /\ pass' = [pass EXCEPT ![p].pc = "observations", ![p].got = Parsed("decisions")]
          /\ UNCHANGED tracker
       \/ StoringFails(p, "decisions")
    /\ UNCHANGED <<takt, linked, blocks, promoted, user, session, open>>

Outcome(got) == IF "rows" \in got THEN "ok"
                ELSE IF "unreadable" \in got THEN "invalid_report" ELSE "missing_report"

IngestObservations(p) ==
    /\ pass[p].pc = "observations"
    /\ \/ /\ StoreRow("observation", "observation")
          /\ Settle(p, "ledger", Outcome({Parsed("observation"), pass[p].got}))
       \/ StoringFails(p, "observation")
    /\ UNCHANGED <<takt, linked, blocks, promoted, user, session, open>>

\* RequirementIntentLinkIngestService, on reports that may be there or not.  A link to
\* no requirement is passed over, and a store that fails keeps the links before it.
IngestLinks(p) ==
    /\ pass[p].pc = "links"
    /\ \E outcome \in {"ok", "persist_failed", "no_context_snapshot", "missing_report",
                       "invalid_report"} \cup Unresolved :
         /\ linked' \in {linked} \cup (IF outcome \in {"ok", "persist_failed"} THEN {TRUE} ELSE {})
         /\ Settle(p, "link", outcome)
    /\ UNCHANGED <<takt, rows, blocks, promoted, user, session, open>>

-----------------------------------------------------------------------------
(* The operator.  Each UPDATE has its condition in its WHERE clause.       *)

\* A variant of Judgeable that lets a decision be adopted whatever was said of it.
JudgeableTwice(d, verdict) == rows[d] # "absent"

Judgeable(d, verdict) ==
    rows[d] \in IF verdict \in {"ratify", "reverse"} THEN {"assumed"} ELSE {"assumed", "observed"}

Judge(d, verdict) ==
    /\ open /\ verdict # "adopt"
    /\ Judgeable(d, verdict)
    /\ rows' = [rows EXCEPT ![d] = verdict]
    /\ UNCHANGED <<takt, linked, blocks, promoted, user, session, open, tracker, pass>>

Adopt(u, d) ==
    /\ open /\ user[u].pc = "idle"
    /\ Judgeable(d, "adopt")
    /\ rows' = [rows EXCEPT ![d] = "adopt"]
    /\ user' = [user EXCEPT ![u] = [Idle EXCEPT !.pc = "promote", !.of = d]]
    /\ UNCHANGED <<takt, linked, blocks, promoted, session, open, tracker, pass>>

\* promoteAdoptedEntry reads requirements.md, if it finds the reports; a read that
\* fails, for whatever reason, is taken for a file that is not there yet, ...
ReadRequirements(u) ==
    /\ user[u].pc = "promote"
    /\ \/ \E read \in {blocks, {}} : user' = [user EXCEPT ![u].pc = "write", ![u].seen = read]
       \/ user' = [user EXCEPT ![u] = Idle]
    /\ UNCHANGED <<takt, rows, linked, blocks, promoted, session, open, tracker, pass>>

\* ... and writes it with one more block, numbered after the greatest it has read.
WriteRequirements(u) ==
    LET new == 1 + Max({0} \cup {b.id : b \in user[u].seen})
    IN  /\ user[u].pc = "write"
        /\ \/ /\ blocks' = user[u].seen \cup {[id |-> new, of |-> user[u].of]}
              /\ user' = [user EXCEPT ![u].pc = "link", ![u].id = new, ![u].seen = {}]
           \/ user' = [user EXCEPT ![u] = Idle] /\ UNCHANGED blocks
        /\ UNCHANGED <<takt, rows, linked, promoted, session, open, tracker, pass>>

\* The link to the decided intent, if the task's thread has one, and setPromotedReqId.
LinkRequirement(u) ==
    /\ user[u].pc = "link"
    /\ \/ /\ linked' \in {linked, TRUE}
          /\ promoted' = [promoted EXCEPT ![user[u].of] =
                             IF rows[user[u].of] = "adopt" THEN user[u].id ELSE @]
       \/ UNCHANGED <<linked, promoted>>
    /\ user' = [user EXCEPT ![u] = Idle]
    /\ UNCHANGED <<takt, rows, blocks, session, open, tracker, pass>>

-----------------------------------------------------------------------------
(* Closing and opening the workspace, and a crash of the app.  The passes  *)
(* under way outlive a closing, not a crash.                               *)

\* resetModelHistoryTracker.
Reset ==
    /\ prev' = None
    /\ pending' = 0
    /\ through' = {}

Close ==
    /\ open
    /\ Reset
    /\ open' = FALSE
    /\ pass' = [p \in Passes |-> [pass[p] EXCEPT !.old = Running(p)]]
    /\ UNCHANGED <<takt, store, session, entry>>

Open ==
    /\ ~open /\ session < MaxSessions
    /\ open' = TRUE
    /\ session' = session + 1
    /\ UNCHANGED <<takt, store, tracker, pass>>

Crash ==
    /\ session < MaxSessions
    /\ Reset
    /\ open' = FALSE
    /\ user' = [u \in Users |-> Idle]
    /\ pass' = [p \in Passes |-> IF Running(p) THEN Over ELSE pass[p]]
    /\ entry' = [p \in Passes |-> NoEntry]
    /\ UNCHANGED <<takt, rows, linked, blocks, promoted, session>>

-----------------------------------------------------------------------------
Pass(p) ==
    \/ Track(p) \/ CountRows(p) \/ CountLinks(p)
    \/ Locate(p) \/ IngestDecisions(p) \/ IngestObservations(p) \/ IngestLinks(p)

Next ==
    \/ Complete
    \/ \E f \in Files : WriteReport(f)
    \/ \E p \in Passes : Pass(p)
    \/ \E d \in Decisions, v \in Verdicts : Judge(d, v)
    \/ \E u \in Users : \/ \E d \in Decisions : Adopt(u, d)
                        \/ ReadRequirements(u) \/ WriteRequirements(u) \/ LinkRequirement(u)
    \/ Close \/ Open \/ Crash

Spec == Init /\ [][Next]_vars

-----------------------------------------------------------------------------
Channel == [open : BOOLEAN, tries : 0..MaxAttempts - 1]
Pcs == {"idle", "count", "countLinks", "locate", "decisions", "observations", "links", "done"}
Statuses == {"active", "completed"}
Block == [id : 1..Cardinality(Decisions), of : Decisions]

TypeOK ==
    /\ status \in Statuses
    /\ report \in [Files -> {"none", "torn", "whole"}]
    /\ spec \in BOOLEAN
    /\ rows \in [Decisions -> {"absent", "assumed", "observed"} \cup Verdicts]
    /\ linked \in BOOLEAN
    /\ blocks \subseteq Block
    /\ user \in [Users -> [pc : {"idle", "promote", "write", "link"}, of : Decisions,
                        seen : SUBSET Block, id : 0..Cardinality(Decisions)]]
    /\ promoted \in [Decisions -> 0..Cardinality(Decisions)]
    /\ session \in 1..MaxSessions
    /\ open \in BOOLEAN
    /\ prev \in Statuses \cup {None}
    /\ pending \in {0} \cup Passes
    /\ entry \in [Passes -> [Channels -> Channel]]
    /\ pass \in [Passes -> [pc : Pcs, on : {0} \cup Passes,
                            got : {"nothing", "unreadable", "rows"}, old : BOOLEAN]]
    /\ through \subseteq Channels

(* The reports of a task whose completion the tracker has registered are   *)
(* not forgotten: a channel it is not through with - for a reason the code *)
(* names, or because a closing or a torn read got in between - is open in  *)
(* the pending entry, where the next pass will find it.                    *)
NoReportForgotten ==
    prev = "completed" => \A c \in Channels :
        c \in through \/ (pending # 0 /\ entry[pending][c].open)

(* A verdict is locked: neither a later ingestion, by passes that overlap  *)
(* or retry or backfill, nor a second verdict that was under way replaces  *)
(* it.                                                                     *)
VerdictIsLocked ==
    [][\A d \in Decisions : rows[d] \in Verdicts => rows'[d] = rows[d]]_rows

(* Only what was adopted becomes a requirement, and only once, though the  *)
(* promotion goes on after the verdict and adoptions overlap.              *)
RequirementsAreAdopted ==
    /\ \A b \in blocks : \A k \in blocks : k.of = b.of => k = b
    /\ \A d \in Decisions :
         promoted[d] # 0 \/ (\E b \in blocks : b.of = d) => rows[d] = "adopt"
=============================================================================
