-------------------------- MODULE ChainEdgesProofs --------------------------
(***************************************************************************)
(* Proofs about ChainEdges, for any number of tasks, chains and calls: a   *)
(* reserved task is created only after the task it depends on completed.   *)
(*                                                                         *)
(* The property is about the moment of the enqueue, but what justifies it  *)
(* happened two steps earlier, in a snapshot that may be old or torn.  The *)
(* inductive invariant carries it over: completion is final, so whatever   *)
(* any snapshot shows as completed still is (SnapshotsLag), and a call     *)
(* that got past its check has such an upstream (CheckedUpstream).         *)
(***************************************************************************)
EXTENDS ChainEdges, FiniteSetTheorems, TLAPS

USE DEF history

(* Arguments of a call are typed by what its operation needs.              *)
ArgsTyped ==
    \A c \in Calls :
        /\ call[c].op \in NeedsOrigin => call[c].from \in Tasks
        /\ call[c].op = "materialize" => call[c].chain \in Tasks
        /\ call[c].pc \in {"enqueue", "discover"} => call[c].op \in {"now", "materialize"}
        /\ call[c].pc = "discover" => call[c].mode = "takt_add"
        /\ call[c].pc = "check" => call[c].op = "materialize"
        /\ call[c].pc # "idle" => call[c].op \in Operations
        /\ call[c].pc = "store" /\ call[c].op \in {"now", "materialize"}
            => call[c].to \in Tasks

(* Completion is final: no snapshot runs ahead of the file.                *)
SnapshotsLag ==
    \A p \in Calls \cup {Watcher}, t \in Tasks :
        seen[p][t] = "completed" => tasks[t] = "completed"

(* A name that was never given is not in the file.                         *)
UnusedAbsent == \A t \in Tasks : made[t] = None => tasks[t] = "absent"

(* A materialize past its check has a completed upstream.                  *)
CheckedUpstream ==
    \A c \in Calls :
        call[c].pc = "enqueue" /\ call[c].op = "materialize"
            => tasks[call[c].from] = "completed"

IInv ==
    /\ TypeOK
    /\ ArgsTyped
    /\ SnapshotsLag
    /\ UnusedAbsent
    /\ CheckedUpstream
    /\ CreatedAfterUpstream
    /\ ReadyNeedsCompletedUpstream

-----------------------------------------------------------------------------
(* The pure functions.                                                     *)

(* A synced edge is an edge between the same tasks, in the same chain, for *)
(* the same plan: only its status may differ.                              *)
LEMMA SyncedShape ==
    ASSUME NEW e \in Edge, NEW s \in [Tasks -> TaskStatus]
    PROVE  /\ Synced(e, s) \in Edge
           /\ Synced(e, s).chain = e.chain /\ Synced(e, s).from = e.from
           /\ Synced(e, s).to = e.to /\ Synced(e, s).plan = e.plan
<1>1. WithUpstream(e.status, s[e.from]) \in EdgeStatus
  BY DEF WithUpstream, Derived, Edge, EdgeStatus, TaskStatus
<1> QED
  BY <1>1 DEF Synced, Edge, EdgeStatus

(* Syncing leaves an edge ready only if the snapshot shows its upstream    *)
(* completed, whatever its status was before.                              *)
LEMMA SyncedReady ==
    ASSUME NEW e \in Edge, NEW s \in [Tasks -> TaskStatus],
           Synced(e, s).status = "ready_to_create"
    PROVE  s[e.from] = "completed"
<1>1. {e.from, e.to} \ {None} \subseteq Present(s) /\ e.status \notin {"invalid", "created"}
  BY DEF Synced, Edge
<1>2. Synced(e, s).status = WithUpstream(e.status, s[e.from])
  BY <1>1 DEF Synced, Edge
<1> QED
  BY <1>2 DEF WithUpstream, Derived, Edge, TaskStatus

LEMMA SyncTyped ==
    ASSUME NEW es \in SUBSET Edge, NEW s \in [Tasks -> TaskStatus]
    PROVE  Sync(es, s) \in SUBSET Edge
  BY SyncedShape DEF Sync

LEMMA SyncReady ==
    ASSUME NEW es \in SUBSET Edge, NEW s \in [Tasks -> TaskStatus],
           NEW e \in Sync(es, s), e.status = "ready_to_create"
    PROVE  s[e.from] = "completed"
<1>1. PICK x \in es : e = Synced(x, s)
  BY DEF Sync
<1> QED
  BY <1>1, SyncedReady, SyncedShape

LEMMA UpsertTyped ==
    ASSUME NEW es \in SUBSET Edge, NEW e \in Edge
    PROVE  Upsert(es, e) \in SUBSET Edge
  BY DEF Upsert, Without

(* Whatever a call makes of typed edges is a set of edges.                 *)
LEMMA OutcomesTyped ==
    ASSUME TypeOK, ArgsTyped, NEW c \in Calls, call[c].pc = "store",
           NEW es \in SUBSET Edge, NEW out \in Outcomes(es, c)
    PROVE  out \in SUBSET Edge
<1>1. ASSUME NEW e \in Edge, e.from = e.chain, NEW o \in Link(es, c, e)
      PROVE  o \in SUBSET Edge
  <2>1. call[c].chain # None => [e EXCEPT !.chain = call[c].chain] \in Edge
    BY DEF TypeOK, CallRecord, Edge
  <2>2. \A k \in ChainsOf(es, e.from) : [e EXCEPT !.chain = k] \in Edge
    BY DEF ChainsOf, Edge
  <2> QED
    BY <1>1, <2>1, <2>2, UpsertTyped DEF Link, UpsertAnywhere
<1>2. CASE call[c].op = "reserve"
  <2>1. call[c].from \in Tasks
    BY <1>2 DEF ArgsTyped, NeedsOrigin
  <2>2. Reserved(c) \in Edge /\ Reserved(c).from = Reserved(c).chain
    BY <2>1 DEF Reserved, Edge, Derived, EdgeStatus
  <2> QED
    BY <1>1, <1>2, <2>2 DEF Outcomes
<1>3. CASE call[c].op \in {"now", "materialize"}
  <2>1. call[c].from \in Tasks /\ call[c].to \in Tasks
    BY <1>3 DEF ArgsTyped, NeedsOrigin
  <2>2. Materialized(c) \in Edge /\ Materialized(c).from = Materialized(c).chain
    BY <2>1 DEF Materialized, Edge, EdgeStatus, TypeOK, CallRecord
  <2>3. CASE call[c].op = "now"
    BY <1>1, <2>2, <2>3 DEF Outcomes
  <2>4. CASE call[c].op = "materialize"
    <3>1. [Materialized(c) EXCEPT !.chain = call[c].chain] \in Edge
      BY <2>2, <2>4 DEF ArgsTyped, Edge
    <3>2. out \in Update(es, c)
      BY <2>4 DEF Outcomes
    <3> QED
      BY <3>1, <3>2, UpsertTyped DEF Update
  <2> QED
    BY <1>3, <2>3, <2>4
<1>4. CASE call[c].op = "removeChain"
  BY <1>4 DEF Outcomes
<1>5. CASE call[c].op = "removeEdge"
  BY <1>5 DEF Outcomes, Without
<1>6. CASE call[c].op = "setStatus"
  <2>1. out = Marked(es, c)
    BY <1>6 DEF Outcomes
  <2>2. \A e \in es : [e EXCEPT !.status = call[c].status] \in Edge
    BY DEF TypeOK, CallRecord, Edge
  <2> QED
    BY <2>1, <2>2 DEF Marked
<1> QED
  BY <1>2, <1>3, <1>4, <1>5, <1>6 DEF ArgsTyped, Operations

-----------------------------------------------------------------------------
(* The invariant is inductive: one lemma per action.                       *)

LEMMA ElsewhereIsOrigin == Elsewhere \in Origin /\ Elsewhere # None
  BY NoneAssumption DEF Elsewhere, Origin, TaskStatus

LEMMA InitIInv == Init => IInv
<1> SUFFICES ASSUME Init PROVE IInv
  OBVIOUS
<1> USE DisjointAssumption DEF Init
<1>1. edges \in SUBSET Edge
  BY DEF Waiting, Edge, EdgeStatus, Tasks
<1>2. TypeOK
  BY <1>1, ModeAssumption, ElsewhereIsOrigin DEF TypeOK, Torn, TaskStatus, EdgeStatus, Tasks, CallRecord, Pcs, Operations
<1>3. ArgsTyped
  BY DEF ArgsTyped, NeedsOrigin
<1>4. SnapshotsLag /\ UnusedAbsent /\ CheckedUpstream
  BY ElsewhereIsOrigin DEF SnapshotsLag, UnusedAbsent, CheckedUpstream, Torn, Tasks
<1>5. CreatedAfterUpstream
  BY DEF CreatedAfterUpstream, Elsewhere
<1>6. ReadyNeedsCompletedUpstream
  BY DEF ReadyNeedsCompletedUpstream, Waiting
<1> QED
  BY <1>2, <1>3, <1>4, <1>5, <1>6 DEF IInv

(* A snapshot is the file or, torn, empty: it never runs ahead.            *)
LEMMA SnapshotTyped ==
    ASSUME TypeOK, NEW s \in Snapshots
    PROVE  /\ s \in [Tasks -> TaskStatus]
           /\ \A t \in Tasks : s[t] = "completed" => tasks[t] = "completed"
  BY DEF Snapshots, Torn, TypeOK, TaskStatus

(* Saving edges synced with a snapshot that lags keeps readiness justified.*)
LEMMA SavedEdges ==
    ASSUME IInv, NEW p \in Calls \cup {Watcher}, NEW es \in SUBSET Edge,
           edges' = Sync(es, seen[p]), UNCHANGED tasks
    PROVE  edges' \in SUBSET Edge /\ ReadyNeedsCompletedUpstream'
<1>1. seen[p] \in [Tasks -> TaskStatus]
  BY DEF IInv, TypeOK
<1>2. edges' \in SUBSET Edge
  BY <1>1, SyncTyped
<1>3. ASSUME NEW e \in edges', e.status = "ready_to_create" PROVE tasks'[e.from] = "completed"
  <2>1. seen[p][e.from] = "completed"
    BY <1>1, <1>3, SyncReady
  <2> QED
    BY <1>2, <1>3, <2>1 DEF IInv, SnapshotsLag, Edge
<1> QED
  BY <1>2, <1>3 DEF ReadyNeedsCompletedUpstream

(* Ending a call, or forgetting its snapshot, disturbs nothing.            *)
LEMMA ForgetTyped ==
    ASSUME IInv, NEW p \in Calls \cup {Watcher}, Forget(p)
    PROVE  /\ seen' \in [Calls \cup {Watcher} -> [Tasks -> TaskStatus]]
           /\ \A q \in Calls \cup {Watcher}, t \in Tasks :
                 seen'[q][t] = "completed" => tasks[t] = "completed"
  BY DEF IInv, TypeOK, SnapshotsLag, Forget, Torn, TaskStatus

LEMMA LandTyped ==
    ASSUME TypeOK, NEW c \in Calls, Land(c)
    PROVE  flight' \subseteq Tasks \X Tasks
  BY DEF TypeOK, Land

LEMMA GotoTyped ==
    ASSUME TypeOK, ArgsTyped, NEW c \in Calls, call[c].pc # "idle",
           NEW pc \in {"reconcile", "refresh", "done", "failed"}, Goto(c, pc)
    PROVE  /\ call' \in [Calls -> CallRecord]
           /\ ArgsTyped'
           /\ \A d \in Calls : call'[d].pc = "enqueue" => call'[d] = call[d]
<1>1. call[c] \in CallRecord
  BY DEF TypeOK
<1>2. call' = [call EXCEPT ![c] = [call[c] EXCEPT !.pc = pc]]
  BY DEF Goto
<1>3. [call[c] EXCEPT !.pc = pc] \in CallRecord
  BY <1>1 DEF CallRecord, Pcs
<1>4. call' \in [Calls -> CallRecord]
  BY <1>2, <1>3 DEF TypeOK
<1>5. /\ \A d \in Calls : d # c => call'[d] = call[d]
      /\ call'[c].pc = pc /\ call'[c].op = call[c].op
      /\ call'[c].chain = call[c].chain /\ call'[c].from = call[c].from
  BY <1>1, <1>2 DEF TypeOK, CallRecord
<1>6. ArgsTyped'
  BY <1>5 DEF ArgsTyped
<1> QED
  BY <1>4, <1>5, <1>6

(* Starting a call with typed arguments.                                   *)
LEMMA BeginIInv ==
    ASSUME IInv, NEW c \in Calls, NEW op \in Operations,
           NEW chain \in Tasks \cup {None}, NEW from \in Tasks \cup {None},
           NEW to \in Tasks \cup {None}, NEW status \in EdgeStatus,
           op \in NeedsOrigin => from \in Tasks,
           op = "materialize" => chain \in Tasks,
           Begin(c, op, chain, from, to, status)
    PROVE  IInv'
<1> DEFINE begun == [call[c] EXCEPT !.pc = "list", !.op = op, !.chain = chain,
                                    !.from = from, !.to = to, !.status = status]
<1>1. call[c] \in CallRecord
  BY DEF IInv, TypeOK
<1>2. call' = [call EXCEPT ![c] = begun] /\ UNCHANGED <<tasks, edges, seen, watch, made, again>>
  BY DEF Begin
<1>3. /\ begun \in CallRecord
      /\ begun.pc = "list" /\ begun.op = op /\ begun.chain = chain /\ begun.from = from
  BY <1>1 DEF CallRecord, Pcs
<1> HIDE DEF begun
<1>4. /\ call' \in [Calls -> CallRecord]
      /\ \A d \in Calls : call'[d] = IF d = c THEN begun ELSE call[d]
  BY <1>2, <1>3 DEF IInv, TypeOK
<1>5. flight' \subseteq Tasks \X Tasks
  BY DEF Begin, IInv, TypeOK, NeedsOrigin
<1>6. TypeOK'
  BY <1>2, <1>4, <1>5 DEF IInv, TypeOK
<1>7. ArgsTyped'
  BY <1>3, <1>4 DEF IInv, ArgsTyped
<1>8. CheckedUpstream'
  BY <1>2, <1>3, <1>4 DEF IInv, CheckedUpstream
<1> QED
  BY <1>2, <1>6, <1>7, <1>8 DEF IInv, SnapshotsLag, UnusedAbsent, CreatedAfterUpstream,
      ReadyNeedsCompletedUpstream

LEMMA AskIInv ==
    ASSUME IInv, NEW c \in Calls, Ask(c)
    PROVE  IInv'
<1>1. None \in Tasks \cup {None} /\ "invalid" \in EdgeStatus /\ Settable \subseteq EdgeStatus
  BY SettableAssumption DEF EdgeStatus
<1>2. ASSUME NEW op \in {"reserve", "now"}, NEW from \in Present(tasks),
             NEW chain \in ChainsOf(edges, from) \cup {None},
             Begin(c, op, chain, from, None, "invalid")
      PROVE  IInv'
  <2>1. from \in Tasks /\ chain \in Tasks \cup {None} /\ op \in Operations
    BY DEF Present, ChainsOf, IInv, TypeOK, Edge, Operations
  <2> QED
    BY <1>1, <1>2, <2>1, BeginIInv
<1>3. ASSUME NEW e \in edges
      PROVE  e.chain \in Tasks /\ e.from \in Tasks /\ e.to \in Tasks \cup {None}
  BY DEF IInv, TypeOK, Edge
<1>4. ASSUME NEW e \in edges, Begin(c, "materialize", e.chain, e.from, None, "invalid")
      PROVE  IInv'
  BY <1>1, <1>3, <1>4, BeginIInv DEF Operations
<1>5. ASSUME NEW e \in edges, Begin(c, "removeChain", e.chain, None, None, "invalid")
      PROVE  IInv'
  BY <1>1, <1>3, <1>5, BeginIInv DEF Operations, NeedsOrigin
<1>6. ASSUME NEW e \in edges, Begin(c, "removeEdge", e.chain, e.from, e.to, "invalid")
      PROVE  IInv'
  BY <1>1, <1>3, <1>6, BeginIInv DEF Operations
<1>7. ASSUME NEW e \in edges, NEW status \in Settable,
             Begin(c, "setStatus", e.chain, e.from, e.to, status)
      PROVE  IInv'
  BY <1>1, <1>3, <1>7, BeginIInv DEF Operations
<1> QED
  BY <1>2, <1>4, <1>5, <1>6, <1>7 DEF Ask

(* A call that ends, forgetting its snapshot or not, keeps the invariant.  *)
LEMMA EndIInv ==
    ASSUME IInv, NEW c \in Calls, call[c].pc # "idle", NEW pc \in {"done", "failed"},
           End(c, pc), Forget(c) \/ UNCHANGED seen,
           UNCHANGED <<tasks, watch, made, again>>,
           edges' \in SUBSET Edge, ReadyNeedsCompletedUpstream'
    PROVE  IInv'
<1>1. /\ call' \in [Calls -> CallRecord]
      /\ ArgsTyped'
      /\ \A d \in Calls : call'[d].pc = "enqueue" => call'[d] = call[d]
  BY GotoTyped DEF End, IInv
<1>2. flight' \subseteq Tasks \X Tasks
  BY LandTyped DEF End, IInv
<1>3. seen' \in [Calls \cup {Watcher} -> [Tasks -> TaskStatus]] /\ SnapshotsLag'
  BY ForgetTyped DEF IInv, TypeOK, SnapshotsLag
<1>4. TypeOK'
  BY <1>1, <1>2, <1>3 DEF IInv, TypeOK
<1> QED
  BY <1>1, <1>3, <1>4 DEF IInv, UnusedAbsent, CheckedUpstream, CreatedAfterUpstream

LEMMA ListIInv ==
    ASSUME IInv, NEW c \in Calls, List(c)
    PROVE  IInv'
<1>1. PICK s \in Snapshots :
        IF call[c].op \in NeedsOrigin /\ call[c].from \notin Present(s)
        THEN End(c, "failed") /\ UNCHANGED seen
        ELSE /\ Goto(c, AfterList(call[c].op))
             /\ seen' = [seen EXCEPT ![c] = s]
             /\ UNCHANGED flight
  BY DEF List
<1>2. UNCHANGED <<tasks, edges, watch, made, again>> /\ call[c].pc = "list"
  BY DEF List
<1>3. CASE End(c, "failed") /\ UNCHANGED seen
  BY <1>2, <1>3, EndIInv DEF IInv, TypeOK, ReadyNeedsCompletedUpstream
<1>4. CASE /\ Goto(c, AfterList(call[c].op))
           /\ seen' = [seen EXCEPT ![c] = s]
           /\ UNCHANGED flight
  <2> DEFINE listed == [call[c] EXCEPT !.pc = AfterList(call[c].op)]
  <2>1. call[c] \in CallRecord /\ call[c].op # "none"
    BY <1>2 DEF IInv, TypeOK, ArgsTyped, Operations
  <2>2. /\ listed \in CallRecord /\ listed.op = call[c].op /\ listed.chain = call[c].chain
        /\ listed.from = call[c].from /\ listed.pc = AfterList(call[c].op)
    BY <2>1 DEF CallRecord, Pcs, AfterList
  <2> HIDE DEF listed
  <2>3. /\ call' \in [Calls -> CallRecord]
        /\ \A d \in Calls : call'[d] = IF d = c THEN listed ELSE call[d]
    BY <1>4, <2>2 DEF Goto, IInv, TypeOK, listed
  <2>4. /\ seen' \in [Calls \cup {Watcher} -> [Tasks -> TaskStatus]]
        /\ SnapshotsLag'
    BY <1>2, <1>4, SnapshotTyped DEF IInv, TypeOK, SnapshotsLag
  <2>5. TypeOK'
    BY <1>2, <1>4, <2>3, <2>4 DEF IInv, TypeOK
  <2>6. ArgsTyped'
    BY <2>1, <2>2, <2>3 DEF IInv, ArgsTyped, AfterList, CallRecord, Operations
  <2>7. CheckedUpstream'
    BY <1>2, <2>2, <2>3 DEF IInv, CheckedUpstream, AfterList
  <2> QED
    BY <1>2, <2>4, <2>5, <2>6, <2>7 DEF IInv, UnusedAbsent, CreatedAfterUpstream,
        ReadyNeedsCompletedUpstream
<1> QED
  BY <1>1, <1>3, <1>4

(* Past its check, a materialize has seen its upstream completed.          *)
LEMMA CheckIInv ==
    ASSUME IInv, NEW c \in Calls, Check(c)
    PROVE  IInv'
<1>1. call[c].pc = "check" /\ UNCHANGED <<tasks, edges, watch, made, again>>
  BY DEF Check
<1>2. CASE End(c, "failed") /\ Forget(c)
  BY <1>1, <1>2, EndIInv DEF IInv, TypeOK, ReadyNeedsCompletedUpstream
<1>3. ASSUME NEW e \in Planned(c), e.status = "ready_to_create",
             call' = [call EXCEPT ![c].pc = "enqueue", ![c].plan = e.plan],
             UNCHANGED <<flight, seen>>
      PROVE  IInv'
  <2> DEFINE checked == [call[c] EXCEPT !.pc = "enqueue", !.plan = e.plan]
  <2>1. call[c] \in CallRecord /\ call[c].op = "materialize"
    BY <1>1 DEF IInv, TypeOK, ArgsTyped
  <2>2. seen[c] \in [Tasks -> TaskStatus] /\ edges \in SUBSET Edge
    BY DEF IInv, TypeOK
  <2>3. e \in Sync(edges, seen[c]) /\ e \in Edge /\ e.from = call[c].from
    BY <2>2, SyncTyped DEF Planned, Matches
  <2>4. tasks[call[c].from] = "completed"
    BY <1>3, <2>2, <2>3, SyncReady DEF IInv, SnapshotsLag, Edge
  <2>5. /\ checked \in CallRecord /\ checked.pc = "enqueue" /\ checked.op = call[c].op
        /\ checked.chain = call[c].chain /\ checked.from = call[c].from
    BY <2>1, <2>3 DEF CallRecord, Pcs, Edge
  <2>6. call' = [call EXCEPT ![c] = checked]
    BY <1>3
  <2> HIDE DEF checked
  <2>7. /\ call' \in [Calls -> CallRecord]
        /\ \A d \in Calls : call'[d] = IF d = c THEN checked ELSE call[d]
    BY <2>5, <2>6 DEF IInv, TypeOK
  <2>8. TypeOK'
    BY <1>1, <1>3, <2>7 DEF IInv, TypeOK
  <2>9. ArgsTyped'
    BY <2>1, <2>5, <2>7 DEF IInv, ArgsTyped, Operations
  <2>10. CheckedUpstream'
    BY <1>1, <2>4, <2>5, <2>7 DEF IInv, CheckedUpstream
  <2> QED
    BY <1>1, <1>3, <2>8, <2>9, <2>10 DEF IInv, SnapshotsLag, UnusedAbsent,
        CreatedAfterUpstream, ReadyNeedsCompletedUpstream
<1> QED
  BY <1>2, <1>3 DEF Check

(* A task enters the file open, under a name that is not in it: no task    *)
(* that had completed is reopened.                                         *)
LEMMA AddRowTyped ==
    ASSUME IInv, NEW t \in Tasks, NEW origin \in Origin, AddRow(t, origin)
    PROVE  /\ tasks' \in [Tasks -> TaskStatus]
           /\ \A u \in Tasks : tasks[u] = "completed" => tasks'[u] = "completed"
           /\ \A u \in Tasks : u # t => tasks'[u] = tasks[u]
           /\ made' \in [Tasks -> {None} \cup Origin]
           /\ made'[t] = origin /\ made'[t] # None
           /\ \A u \in Tasks : u # t => made'[u] = made[u]
           /\ again' \subseteq Tasks /\ again \subseteq again'
           /\ made[t] # None => t \in again'
           /\ UnusedAbsent'
<1>1. TypeOK /\ UnusedAbsent
  BY DEF IInv
<1>2. /\ tasks' \in [Tasks -> TaskStatus]
      /\ \A u \in Tasks : tasks[u] = "completed" => tasks'[u] = "completed"
      /\ \A u \in Tasks : u # t => tasks'[u] = tasks[u]
  BY <1>1 DEF AddRow, TypeOK, TaskStatus
<1>3. /\ made' \in [Tasks -> {None} \cup Origin]
      /\ made'[t] = origin /\ origin # None
      /\ \A u \in Tasks : u # t => made'[u] = made[u]
  BY <1>1, NoneAssumption DEF AddRow, TypeOK
<1>4. again' \subseteq Tasks /\ again \subseteq again' /\ (made[t] # None => t \in again')
  BY <1>1 DEF AddRow, TypeOK
<1>5. UnusedAbsent'
  BY <1>1, <1>2, <1>3 DEF UnusedAbsent
<1> QED
  BY <1>2, <1>3, <1>4, <1>5

LEMMA EnqueueIInv ==
    ASSUME IInv, NEW c \in Calls, Enqueue(c)
    PROVE  IInv'
<1> DEFINE origin == [op |-> call[c].op, plan |-> call[c].plan, upstream |-> tasks[call[c].from]]
<1>1. PICK t \in Tasks :
        /\ AddRow(t, origin)
        /\ \/ call[c].mode = "takt_add" /\ Goto(c, "discover")
           \/ call' = [call EXCEPT ![c].pc = "store", ![c].to = t]
  BY DEF Enqueue
<1>2. call[c].pc = "enqueue" /\ UNCHANGED <<edges, flight, seen, watch>>
  BY DEF Enqueue
<1>3. call[c] \in CallRecord /\ call[c].op \in {"now", "materialize"} /\ call[c].from \in Tasks
  BY <1>2 DEF IInv, TypeOK, ArgsTyped, NeedsOrigin
<1>4. origin \in Origin /\ origin.op = call[c].op /\ origin.upstream = tasks[call[c].from]
  BY <1>3 DEF Origin, CallRecord, IInv, TypeOK
<1>5. PICK stored :
        /\ call' = [call EXCEPT ![c] = stored]
        /\ stored \in CallRecord /\ stored.op = call[c].op
        /\ \/ stored.pc = "store" /\ stored.to = t
           \/ stored.pc = "discover" /\ stored.mode = "takt_add"
        /\ stored.chain = call[c].chain /\ stored.from = call[c].from
  <2>1. CASE call[c].mode = "takt_add" /\ Goto(c, "discover")
    <3> DEFINE found == [call[c] EXCEPT !.pc = "discover"]
    <3>1. /\ call' = [call EXCEPT ![c] = found] /\ found \in CallRecord
          /\ found.op = call[c].op /\ found.pc = "discover" /\ found.mode = "takt_add"
          /\ found.chain = call[c].chain /\ found.from = call[c].from
      BY <1>3, <2>1 DEF Goto, CallRecord, Pcs
    <3> QED
      BY <3>1
  <2>2. CASE call' = [call EXCEPT ![c].pc = "store", ![c].to = t]
    <3> DEFINE given == [call[c] EXCEPT !.pc = "store", !.to = t]
    <3>1. /\ call' = [call EXCEPT ![c] = given] /\ given \in CallRecord
          /\ given.op = call[c].op /\ given.pc = "store" /\ given.to = t
          /\ given.chain = call[c].chain /\ given.from = call[c].from
      BY <1>3, <2>2 DEF CallRecord, Pcs
    <3> QED
      BY <3>1
  <2> QED
    BY <1>1, <2>1, <2>2
<1> HIDE DEF origin
<1>6. /\ call' \in [Calls -> CallRecord]
      /\ \A d \in Calls : call'[d] = IF d = c THEN stored ELSE call[d]
  BY <1>5 DEF IInv, TypeOK
<1>7. TypeOK'
  BY <1>1, <1>2, <1>4, <1>6, AddRowTyped DEF IInv, TypeOK
<1>8. ArgsTyped'
  BY <1>3, <1>5, <1>6 DEF IInv, ArgsTyped, Operations
<1>9. SnapshotsLag' /\ UnusedAbsent'
  BY <1>1, <1>2, <1>4, AddRowTyped DEF IInv, SnapshotsLag
<1>10. CheckedUpstream'
  BY <1>1, <1>4, <1>5, <1>6, AddRowTyped DEF IInv, CheckedUpstream, ArgsTyped, NeedsOrigin
<1>11. CreatedAfterUpstream'
  BY <1>1, <1>2, <1>4, AddRowTyped DEF IInv, CreatedAfterUpstream, CheckedUpstream
<1>12. ReadyNeedsCompletedUpstream'
  BY <1>1, <1>2, <1>4, AddRowTyped DEF IInv, ReadyNeedsCompletedUpstream, TypeOK, Edge
<1> QED
  BY <1>7, <1>8, <1>9, <1>10, <1>11, <1>12 DEF IInv

LEMMA ElsewhereIInv ==
    ASSUME IInv, EnqueueElsewhere
    PROVE  IInv'
<1>1. PICK t \in Tasks : AddRow(t, Elsewhere)
  BY SettlingAssumption DEF EnqueueElsewhere, Tasks
<1>2. UNCHANGED <<edges, flight, seen, call, watch>>
  BY DEF EnqueueElsewhere
<1>3. TypeOK'
  BY <1>1, <1>2, AddRowTyped, ElsewhereIsOrigin DEF IInv, TypeOK
<1>4. ArgsTyped' /\ SnapshotsLag' /\ UnusedAbsent'
  BY <1>1, <1>2, AddRowTyped, ElsewhereIsOrigin DEF IInv, ArgsTyped, SnapshotsLag
<1>5. CheckedUpstream'
  BY <1>1, <1>2, AddRowTyped, ElsewhereIsOrigin DEF IInv, CheckedUpstream, ArgsTyped, NeedsOrigin
<1>6. CreatedAfterUpstream'
  <2>1. made'[t].op = "elsewhere" /\ \A u \in Tasks : u # t => made'[u] = made[u]
    BY <1>1, AddRowTyped, ElsewhereIsOrigin DEF Elsewhere
  <2> QED
    BY <2>1 DEF IInv, CreatedAfterUpstream
<1>7. ReadyNeedsCompletedUpstream'
  BY <1>1, <1>2, AddRowTyped, ElsewhereIsOrigin DEF IInv, ReadyNeedsCompletedUpstream, TypeOK, Edge
<1> QED
  BY <1>3, <1>4, <1>5, <1>6, <1>7 DEF IInv

(* What is discovered is some task.                                        *)
LEMMA DiscoverIInv ==
    ASSUME IInv, NEW c \in Calls, Discover(c)
    PROVE  IInv'
<1>1. call[c].pc = "discover" /\ UNCHANGED <<tasks, edges, watch, made, again>>
  BY DEF Discover
<1>2. CASE End(c, "failed") /\ Forget(c)
  BY <1>1, <1>2, EndIInv DEF IInv, TypeOK, ReadyNeedsCompletedUpstream
<1>3. ASSUME NEW t \in Tasks, call' = [call EXCEPT ![c].pc = "store", ![c].to = t],
             UNCHANGED <<flight, seen>>
      PROVE  IInv'
  <2> DEFINE stored == [call[c] EXCEPT !.pc = "store", !.to = t]
  <2>1. call[c] \in CallRecord /\ call[c].op \in {"now", "materialize"}
    BY <1>1 DEF IInv, TypeOK, ArgsTyped
  <2>2. /\ stored \in CallRecord /\ stored.pc = "store" /\ stored.op = call[c].op
        /\ stored.to = t /\ stored.chain = call[c].chain /\ stored.from = call[c].from
    BY <2>1 DEF CallRecord, Pcs
  <2>3. call' = [call EXCEPT ![c] = stored]
    BY <1>3
  <2> HIDE DEF stored
  <2>4. /\ call' \in [Calls -> CallRecord]
        /\ \A d \in Calls : call'[d] = IF d = c THEN stored ELSE call[d]
    BY <2>2, <2>3 DEF IInv, TypeOK
  <2>5. TypeOK'
    BY <1>1, <1>3, <2>4 DEF IInv, TypeOK
  <2>6. ArgsTyped'
    BY <2>1, <2>2, <2>4 DEF IInv, ArgsTyped, Operations
  <2>7. CheckedUpstream'
    BY <1>1, <2>2, <2>4 DEF IInv, CheckedUpstream
  <2> QED
    BY <1>1, <1>3, <2>5, <2>6, <2>7 DEF IInv, SnapshotsLag, UnusedAbsent,
        CreatedAfterUpstream, ReadyNeedsCompletedUpstream
<1> QED
  BY <1>2, <1>3 DEF Discover, Present

LEMMA EnqueueFailsIInv ==
    ASSUME IInv, NEW c \in Calls, EnqueueFails(c)
    PROVE  IInv'
  BY EndIInv DEF EnqueueFails, IInv, TypeOK, ReadyNeedsCompletedUpstream

(* A call that goes on to its refresh.                                     *)
LEMMA GoOnIInv ==
    ASSUME IInv, NEW c \in Calls, call[c].pc # "idle",
           NEW pc \in {"refresh", "reconcile"}, Goto(c, pc),
           seen' \in [Calls \cup {Watcher} -> [Tasks -> TaskStatus]], SnapshotsLag',
           UNCHANGED <<tasks, flight, watch, made, again>>,
           edges' \in SUBSET Edge, ReadyNeedsCompletedUpstream'
    PROVE  IInv'
<1>1. /\ call' \in [Calls -> CallRecord]
      /\ ArgsTyped'
      /\ \A d \in Calls : call'[d].pc = "enqueue" => call'[d] = call[d]
  BY GotoTyped DEF IInv
<1>2. TypeOK'
  BY <1>1 DEF IInv, TypeOK
<1> QED
  BY <1>1, <1>2 DEF IInv, UnusedAbsent, CheckedUpstream, CreatedAfterUpstream

LEMMA StoreIInv ==
    ASSUME IInv, NEW c \in Calls, Store(c)
    PROVE  IInv'
<1> DEFINE loaded == Sync(edges, seen[c])
<1>1. /\ call[c].pc = "store" /\ Forget(c) /\ UNCHANGED <<tasks, watch, made, again>>
  BY DEF Store
<1>2. seen[c] \in [Tasks -> TaskStatus] /\ loaded \in SUBSET Edge
  BY SyncTyped DEF IInv, TypeOK
<1>3. ASSUME NEW outcome \in Outcomes(loaded, c), edges' = Sync(outcome, seen[c]),
             Goto(c, "refresh"), UNCHANGED flight
      PROVE  IInv'
  <2>1. outcome \in SUBSET Edge
    BY <1>1, <1>2, OutcomesTyped DEF IInv
  <2>2. edges' \in SUBSET Edge /\ ReadyNeedsCompletedUpstream'
    BY <1>1, <1>3, <2>1, SavedEdges
  <2>3. seen' \in [Calls \cup {Watcher} -> [Tasks -> TaskStatus]] /\ SnapshotsLag'
    BY <1>1, ForgetTyped DEF SnapshotsLag
  <2> QED
    BY <1>1, <1>3, <2>2, <2>3, GoOnIInv
<1>4. CASE End(c, "failed") /\ UNCHANGED edges
  BY <1>1, <1>4, EndIInv DEF IInv, TypeOK, ReadyNeedsCompletedUpstream
<1> QED
  BY <1>3, <1>4 DEF Store

LEMMA RefreshIInv ==
    ASSUME IInv, NEW c \in Calls, Refresh(c)
    PROVE  IInv'
<1>1. PICK s \in Snapshots : seen' = [seen EXCEPT ![c] = s]
  BY DEF Refresh
<1>2. call[c].pc = "refresh" /\ Goto(c, "reconcile")
      /\ UNCHANGED <<tasks, edges, flight, watch, made, again>>
  BY DEF Refresh
<1>3. seen' \in [Calls \cup {Watcher} -> [Tasks -> TaskStatus]] /\ SnapshotsLag'
  BY <1>1, <1>2, SnapshotTyped DEF IInv, TypeOK, SnapshotsLag
<1> QED
  BY <1>2, <1>3, GoOnIInv DEF IInv, TypeOK, ReadyNeedsCompletedUpstream

LEMMA ReconcileIInv ==
    ASSUME IInv, NEW c \in Calls, Reconcile(c)
    PROVE  IInv'
<1>1. edges' \in SUBSET Edge /\ ReadyNeedsCompletedUpstream'
  BY SavedEdges DEF Reconcile, IInv, TypeOK
<1> QED
  BY <1>1, EndIInv DEF Reconcile

LEMMA WatcherIInv ==
    ASSUME IInv, WatchRefresh \/ WatchReconcile
    PROVE  IInv'
<1>1. CASE WatchRefresh
  <2>1. PICK s \in Snapshots : seen' = [seen EXCEPT ![Watcher] = s]
    BY <1>1 DEF WatchRefresh
  <2>2. watch' = "reconcile" /\ UNCHANGED <<tasks, edges, flight, call, made, again>>
    BY <1>1 DEF WatchRefresh
  <2>3. seen' \in [Calls \cup {Watcher} -> [Tasks -> TaskStatus]] /\ SnapshotsLag'
    BY <2>1, <2>2, SnapshotTyped DEF IInv, TypeOK, SnapshotsLag
  <2> QED
    BY <2>2, <2>3 DEF IInv, TypeOK, ArgsTyped, UnusedAbsent, CheckedUpstream,
        CreatedAfterUpstream, ReadyNeedsCompletedUpstream
<1>2. CASE WatchReconcile
  <2>1. watch' = "idle" /\ Forget(Watcher) /\ UNCHANGED <<tasks, flight, call, made, again>>
    BY <1>2 DEF WatchReconcile
  <2>2. edges' \in SUBSET Edge /\ ReadyNeedsCompletedUpstream'
    BY <1>2, SavedEdges DEF WatchReconcile, IInv, TypeOK
  <2>3. seen' \in [Calls \cup {Watcher} -> [Tasks -> TaskStatus]] /\ SnapshotsLag'
    BY <2>1, ForgetTyped DEF SnapshotsLag
  <2> QED
    BY <2>1, <2>2, <2>3 DEF IInv, TypeOK, ArgsTyped, UnusedAbsent, CheckedUpstream,
        CreatedAfterUpstream
<1> QED
  BY <1>1, <1>2

(* takt settles an open task: a completed one stays as it is.              *)
LEMMA AdvanceIInv ==
    ASSUME IInv, NEW t \in Tasks, NEW status \in TaskStatus, Advance(t, status)
    PROVE  IInv'
<1>1. /\ tasks' \in [Tasks -> TaskStatus]
      /\ \A u \in Tasks : tasks[u] \in {"completed", "absent"} => tasks'[u] = tasks[u]
      /\ UNCHANGED <<edges, flight, seen, call, watch, made, again>>
  BY DEF Advance, IInv, TypeOK, TaskStatus
<1>2. TypeOK' /\ ArgsTyped' /\ CreatedAfterUpstream'
  BY <1>1 DEF IInv, TypeOK, ArgsTyped, CreatedAfterUpstream
<1>3. SnapshotsLag' /\ UnusedAbsent'
  BY <1>1 DEF IInv, SnapshotsLag, UnusedAbsent, Tasks
<1>4. CheckedUpstream' /\ ReadyNeedsCompletedUpstream'
  BY <1>1 DEF IInv, TypeOK, ArgsTyped, NeedsOrigin, CheckedUpstream,
      ReadyNeedsCompletedUpstream, Edge
<1> QED
  BY <1>2, <1>3, <1>4 DEF IInv

LEMMA StutterIInv == IInv /\ UNCHANGED vars => IInv'
  BY DEF IInv, vars, TypeOK, ArgsTyped, SnapshotsLag, UnusedAbsent, CheckedUpstream,
     CreatedAfterUpstream, ReadyNeedsCompletedUpstream

LEMMA NextIInv == IInv /\ [Next]_vars => IInv'
<1> SUFFICES ASSUME IInv, [Next]_vars PROVE IInv'
  OBVIOUS
<1>1. ASSUME NEW c \in Calls, Ask(c) PROVE IInv'
  BY <1>1, AskIInv
<1>2. ASSUME NEW c \in Calls, Step(c) PROVE IInv'
  BY <1>2, ListIInv, CheckIInv, EnqueueIInv, EnqueueFailsIInv, DiscoverIInv, StoreIInv,
     RefreshIInv, ReconcileIInv DEF Step
<1>3. CASE WatchRefresh \/ WatchReconcile
  BY <1>3, WatcherIInv
<1>4. ASSUME NEW t \in Tasks, NEW status \in TaskStatus, Advance(t, status) PROVE IInv'
  BY <1>4, AdvanceIInv
<1>5. CASE EnqueueElsewhere
  BY <1>5, ElsewhereIInv
<1>6. CASE UNCHANGED vars
  BY <1>6, StutterIInv
<1> QED
  BY <1>1, <1>2, <1>3, <1>4, <1>5, <1>6, SettlingAssumption DEF Next, Tasks

LEMMA Invariance == Spec => []IInv
<1>1. Init => IInv
  BY InitIInv
<1>2. IInv /\ [Next]_vars => IInv'
  BY NextIInv
<1> QED
  BY <1>1, <1>2, PTL DEF Spec

-----------------------------------------------------------------------------
(* The order of the tasks.                                                 *)
(*                                                                         *)
(* Names are first given in their order.  What a snapshot lacks and the    *)
(* file has was enqueued after all that the snapshot shows, unless its     *)
(* name is given again, so a call that looks for a new id finds none that  *)
(* its origin depends on.                                                  *)

MadeInOrder == \A s, t \in Tasks : made[s] # None /\ made[t] = None => s < t

SeenIsMade == \A p \in Calls \cup {Watcher}, t \in Tasks : seen[p][t] # "absent" => made[t] # None

UnseenIsLater ==
    \A p \in Calls \cup {Watcher}, s, t \in Tasks :
        seen[p][s] # "absent" /\ seen[p][t] = "absent" /\ tasks[t] # "absent" /\ t \notin again
            => s < t

OriginSeen ==
    \A c \in Calls : call[c].pc \in {"check", "enqueue", "discover"} =>
        call[c].from \in Tasks /\ seen[c][call[c].from] # "absent"

OrderInv == MadeInOrder /\ SeenIsMade /\ UnseenIsLater /\ OriginSeen

(* A snapshot is taken, or forgotten, and nothing else known changes.      *)
LEMMA SeenOrder ==
    ASSUME IInv, OrderInv, NEW p \in Calls \cup {Watcher}, NEW s \in Snapshots \cup {Torn},
           seen' = [seen EXCEPT ![p] = s], UNCHANGED <<tasks, made, again>>
    PROVE  MadeInOrder' /\ SeenIsMade' /\ UnseenIsLater'
<1>1. s = tasks \/ s = Torn
  BY DEF Snapshots
<1>2. \A q \in Calls \cup {Watcher} : seen'[q] = IF q = p THEN s ELSE seen[q]
  BY DEF IInv, TypeOK
<1>3. SeenIsMade'
  BY <1>1, <1>2 DEF IInv, UnusedAbsent, OrderInv, SeenIsMade, Torn, Tasks
<1>4. UnseenIsLater'
  BY <1>1, <1>2 DEF OrderInv, UnseenIsLater, Torn
<1> QED
  BY <1>3, <1>4 DEF OrderInv, MadeInOrder

LEMMA SameOrder ==
    ASSUME OrderInv, UNCHANGED <<seen, tasks, made, again>>
    PROVE  MadeInOrder' /\ SeenIsMade' /\ UnseenIsLater'
  BY DEF OrderInv, MadeInOrder, SeenIsMade, UnseenIsLater

(* A step of c that does not take it to where it needs its origin.         *)
LEMMA OriginElsewhere ==
    ASSUME OrderInv, NEW c \in Calls, \A d \in Calls : d # c => call'[d] = call[d],
           \A d \in Calls : d # c => seen'[d] = seen[d],
           call'[c].pc \notin {"check", "enqueue", "discover"}
    PROVE  OriginSeen'
  BY DEF OrderInv, OriginSeen

LEMMA GotoElsewhere ==
    ASSUME TypeOK, NEW c \in Calls, NEW pc, Goto(c, pc)
    PROVE  /\ \A d \in Calls : d # c => call'[d] = call[d]
           /\ call'[c].pc = pc /\ call'[c].op = call[c].op /\ call'[c].mode = call[c].mode
           /\ call'[c].chain = call[c].chain /\ call'[c].from = call[c].from
  BY DEF Goto, TypeOK, CallRecord

LEMMA BeginElsewhere ==
    ASSUME TypeOK, NEW c \in Calls, NEW op, NEW chain, NEW from, NEW to, NEW status,
           Begin(c, op, chain, from, to, status)
    PROVE  /\ \A d \in Calls : d # c => call'[d] = call[d]
           /\ call'[c].pc = "list" /\ call'[c].op = op /\ call'[c].mode = call[c].mode
           /\ call'[c].chain = chain /\ call'[c].from = from
           /\ UNCHANGED <<tasks, edges, seen, made, again>>
  BY DEF Begin, TypeOK, CallRecord

(* A call goes on to create a task, or with the one it has.                *)
LEMMA PlanElsewhere ==
    ASSUME TypeOK, NEW c \in Calls, NEW e,
           call' = [call EXCEPT ![c].pc = "enqueue", ![c].plan = e.plan]
    PROVE  /\ \A d \in Calls : d # c => call'[d] = call[d]
           /\ call'[c].op = call[c].op /\ call'[c].mode = call[c].mode
           /\ call'[c].chain = call[c].chain /\ call'[c].from = call[c].from
           /\ call'[c].pc = "enqueue"
  BY DEF TypeOK, CallRecord

LEMMA ToElsewhere ==
    ASSUME TypeOK, NEW c \in Calls, NEW t,
           call' = [call EXCEPT ![c].pc = "store", ![c].to = t]
    PROVE  /\ \A d \in Calls : d # c => call'[d] = call[d]
           /\ call'[c].op = call[c].op /\ call'[c].mode = call[c].mode
           /\ call'[c].chain = call[c].chain /\ call'[c].from = call[c].from
           /\ call'[c].plan = call[c].plan
           /\ call'[c].pc = "store" /\ call'[c].to = t
  BY DEF TypeOK, CallRecord

LEMMA AddRowOrder ==
    ASSUME IInv, OrderInv, NEW t \in Tasks, NEW origin \in Origin, AddRow(t, origin),
           UNCHANGED seen
    PROVE  MadeInOrder' /\ SeenIsMade' /\ UnseenIsLater'
<1>1. /\ made'[t] # None /\ \A u \in Tasks : u # t => made'[u] = made[u]
      /\ \A u \in Tasks : u # t => tasks'[u] = tasks[u]
      /\ again \subseteq again' /\ (made[t] # None => t \in again')
  BY AddRowTyped
<1>2. \A u \in Tasks : u < t => made[u] # None
  BY DEF AddRow
<1>3. MadeInOrder'
  <2> SUFFICES ASSUME NEW s \in Tasks, NEW u \in Tasks, made'[s] # None, made'[u] = None
               PROVE  s < u
    BY DEF MadeInOrder
  <2>1. u # t /\ made[u] = None
    BY <1>1
  <2>2. CASE s = t
    <3>1. s \in Nat /\ u \in Nat /\ ~(u < t)
      BY <1>2, <2>1, DisjointAssumption DEF Tasks
    <3> QED
      BY <2>1, <2>2, <3>1
  <2>3. CASE s # t
    BY <1>1, <2>1, <2>3 DEF OrderInv, MadeInOrder
  <2> QED
    BY <2>2, <2>3
<1>4. SeenIsMade'
  BY <1>1 DEF OrderInv, SeenIsMade
<1>5. UnseenIsLater'
  <2> SUFFICES ASSUME NEW p \in Calls \cup {Watcher}, NEW s \in Tasks, NEW u \in Tasks,
                      seen[p][s] # "absent", seen[p][u] = "absent", tasks'[u] # "absent",
                      u \notin again'
               PROVE  s < u
    BY DEF UnseenIsLater
  <2>1. CASE u # t
    BY <1>1, <2>1 DEF OrderInv, UnseenIsLater
  <2>2. CASE u = t
    BY <1>1, <2>2 DEF OrderInv, SeenIsMade, MadeInOrder
  <2> QED
    BY <2>1, <2>2
<1> QED
  BY <1>3, <1>4, <1>5

LEMMA OriginGiven ==
    ASSUME IInv, NEW c \in Calls, call[c].pc = "enqueue"
    PROVE  [op |-> call[c].op, plan |-> call[c].plan, upstream |-> tasks[call[c].from]] \in Origin
<1>1. call[c] \in CallRecord /\ call[c].op \in {"now", "materialize"} /\ call[c].from \in Tasks
  BY DEF IInv, TypeOK, ArgsTyped, NeedsOrigin
<1> QED
  BY <1>1 DEF Origin, CallRecord, IInv, TypeOK

LEMMA EnqueueOrder ==
    ASSUME IInv, OrderInv, NEW c \in Calls, Enqueue(c)
    PROVE  OrderInv'
<1> DEFINE origin == [op |-> call[c].op, plan |-> call[c].plan, upstream |-> tasks[call[c].from]]
<1>1. PICK t \in Tasks :
        /\ AddRow(t, origin)
        /\ \/ Goto(c, "discover")
           \/ call' = [call EXCEPT ![c].pc = "store", ![c].to = t]
  BY DEF Enqueue
<1>2. UNCHANGED seen /\ call[c].pc = "enqueue" /\ TypeOK
  BY DEF Enqueue, IInv
<1>3. origin \in Origin
  BY <1>2, OriginGiven
<1> HIDE DEF origin
<1>4. MadeInOrder' /\ SeenIsMade' /\ UnseenIsLater'
  BY <1>1, <1>2, <1>3, AddRowOrder
<1>5. OriginSeen'
  <2>1. CASE Goto(c, "discover")
    BY <1>2, <2>1, GotoElsewhere DEF OrderInv, OriginSeen
  <2>2. CASE call' = [call EXCEPT ![c].pc = "store", ![c].to = t]
    BY <1>2, <2>2, ToElsewhere, OriginElsewhere
  <2> QED
    BY <1>1, <2>1, <2>2
<1> QED
  BY <1>4, <1>5 DEF OrderInv

LEMMA ElsewhereOrder ==
    ASSUME IInv, OrderInv, EnqueueElsewhere
    PROVE  OrderInv'
<1>1. PICK t \in Tasks : AddRow(t, Elsewhere)
  BY SettlingAssumption DEF EnqueueElsewhere, Tasks
<1>2. UNCHANGED <<seen, call>>
  BY DEF EnqueueElsewhere
<1>3. MadeInOrder' /\ SeenIsMade' /\ UnseenIsLater'
  BY <1>1, <1>2, AddRowOrder, ElsewhereIsOrigin
<1> QED
  BY <1>2, <1>3 DEF OrderInv, OriginSeen

LEMMA AdvanceOrder ==
    ASSUME IInv, OrderInv, NEW t \in Tasks, NEW status \in TaskStatus, Advance(t, status)
    PROVE  OrderInv'
<1>1. \A u \in Tasks : tasks'[u] # "absent" => tasks[u] # "absent"
  BY DEF Advance, IInv, TypeOK
<1>2. UNCHANGED <<seen, call, made, again>>
  BY DEF Advance
<1> QED
  BY <1>1, <1>2 DEF OrderInv, MadeInOrder, SeenIsMade, UnseenIsLater, OriginSeen

LEMMA StepOrder ==
    ASSUME IInv, OrderInv, NEW c \in Calls, Step(c)
    PROVE  OrderInv'
<1>0. TypeOK /\ ArgsTyped
  BY DEF IInv
<1>1. ASSUME UNCHANGED seen \/ Forget(c), UNCHANGED <<tasks, made, again>>,
             \A d \in Calls : d # c => call'[d] = call[d],
             call'[c].pc \notin {"check", "enqueue", "discover"}
      PROVE  OrderInv'
  <2>1. MadeInOrder' /\ SeenIsMade' /\ UnseenIsLater'
    BY <1>1, SameOrder, SeenOrder DEF Forget
  <2>2. \A d \in Calls : d # c => seen'[d] = seen[d]
    BY <1>0, <1>1 DEF Forget, TypeOK
  <2> QED
    BY <1>1, <2>1, <2>2, OriginElsewhere DEF OrderInv
<1>2. ASSUME UNCHANGED seen \/ Forget(c), UNCHANGED <<tasks, made, again>>,
             NEW pc \in {"done", "failed", "refresh"}, Goto(c, pc)
      PROVE  OrderInv'
  BY <1>0, <1>1, <1>2, GotoElsewhere
<1>3. CASE List(c)
  <2>1. PICK s \in Snapshots :
          IF call[c].op \in NeedsOrigin /\ call[c].from \notin Present(s)
          THEN End(c, "failed") /\ UNCHANGED seen
          ELSE /\ Goto(c, AfterList(call[c].op))
               /\ seen' = [seen EXCEPT ![c] = s]
               /\ UNCHANGED flight
    BY <1>3 DEF List
  <2>2. UNCHANGED <<tasks, made, again>>
    BY <1>3 DEF List
  <2>3. CASE End(c, "failed") /\ UNCHANGED seen
    BY <1>2, <2>2, <2>3 DEF End
  <2>4. CASE /\ ~(call[c].op \in NeedsOrigin /\ call[c].from \notin Present(s))
             /\ Goto(c, AfterList(call[c].op))
             /\ seen' = [seen EXCEPT ![c] = s]
    <3>1. /\ \A d \in Calls : d # c => call'[d] = call[d]
          /\ call'[c].pc = AfterList(call[c].op) /\ call'[c].from = call[c].from
      BY <1>0, <2>4, GotoElsewhere
    <3>2. seen'[c] = s /\ \A d \in Calls : d # c => seen'[d] = seen[d]
      BY <1>0, <2>4 DEF TypeOK
    <3>3. call'[c].pc \in {"check", "enqueue", "discover"} =>
              call'[c].from \in Tasks /\ s[call'[c].from] # "absent"
      BY <2>4, <3>1 DEF AfterList, NeedsOrigin, Present
    <3>4. OriginSeen'
      BY <3>1, <3>2, <3>3 DEF OrderInv, OriginSeen
    <3> QED
      BY <2>2, <2>4, <3>4, SeenOrder DEF OrderInv
  <2> QED
    BY <2>1, <2>3, <2>4
<1>4. CASE Check(c)
  <2>1. ASSUME NEW e, call' = [call EXCEPT ![c].pc = "enqueue", ![c].plan = e.plan],
               UNCHANGED <<seen, tasks, made, again>>, call[c].pc = "check"
        PROVE  OrderInv'
    <3>1. call'[c].from = call[c].from /\ \A d \in Calls : d # c => call'[d] = call[d]
      BY <1>0, <2>1, PlanElsewhere
    <3>2. OriginSeen'
      BY <2>1, <3>1 DEF OrderInv, OriginSeen
    <3> QED
      BY <2>1, <3>2, SameOrder DEF OrderInv
  <2> QED
    BY <1>2, <1>4, <2>1 DEF Check, End
<1>5. CASE Discover(c)
  <2>1. ASSUME NEW t, call' = [call EXCEPT ![c].pc = "store", ![c].to = t],
               UNCHANGED <<seen, tasks, made, again>>
        PROVE  OrderInv'
    BY <1>0, <1>1, <2>1, ToElsewhere
  <2> QED
    BY <1>2, <1>5, <2>1 DEF Discover, End
<1>6. CASE EnqueueFails(c) \/ Store(c) \/ Reconcile(c)
  BY <1>2, <1>6 DEF EnqueueFails, Store, Reconcile, End
<1>7. CASE Refresh(c)
  <2>1. PICK s \in Snapshots : seen' = [seen EXCEPT ![c] = s]
    BY <1>7 DEF Refresh
  <2>2. Goto(c, "reconcile") /\ UNCHANGED <<tasks, made, again>>
    BY <1>7 DEF Refresh
  <2>3. \A d \in Calls : d # c => seen'[d] = seen[d]
    BY <1>0, <2>1 DEF TypeOK
  <2>4. OriginSeen'
    BY <1>0, <2>2, <2>3, GotoElsewhere, OriginElsewhere
  <2> QED
    BY <2>1, <2>2, <2>4, SeenOrder DEF OrderInv
<1> QED
  BY <1>3, <1>4, <1>5, <1>6, <1>7, EnqueueOrder DEF Step

LEMMA OrderInvariance == Spec => []OrderInv
<1>1. Init => OrderInv
  BY ElsewhereIsOrigin, DisjointAssumption DEF Init, OrderInv, MadeInOrder, SeenIsMade, UnseenIsLater, OriginSeen, Torn, Tasks
<1>2. IInv /\ OrderInv /\ [Next]_vars => OrderInv'
  <2> SUFFICES ASSUME IInv, OrderInv, [Next]_vars PROVE OrderInv'
    OBVIOUS
  <2>1. ASSUME NEW c \in Calls, Ask(c) PROVE OrderInv'
    <3>1. /\ UNCHANGED <<tasks, seen, made, again>> /\ call'[c].pc = "list"
          /\ \A d \in Calls : d # c => call'[d] = call[d]
      BY <2>1, BeginElsewhere DEF Ask, IInv
    <3> QED
      BY <3>1, SameOrder, OriginElsewhere DEF OrderInv
  <2>2. CASE WatchRefresh \/ WatchReconcile
    <3>1. PICK s \in Snapshots \cup {Torn} : seen' = [seen EXCEPT ![Watcher] = s]
      BY <2>2 DEF WatchRefresh, WatchReconcile, Forget
    <3>2. UNCHANGED <<tasks, call, made, again>> /\ \A d \in Calls : seen'[d] = seen[d]
      BY <2>2, <3>1, DisjointAssumption DEF WatchRefresh, WatchReconcile, IInv, TypeOK
    <3>3. OriginSeen'
      BY <3>2 DEF OrderInv, OriginSeen
    <3> QED
      BY <3>1, <3>2, <3>3, SeenOrder DEF OrderInv
  <2>3. CASE UNCHANGED vars
    BY <2>3 DEF vars, OrderInv, MadeInOrder, SeenIsMade, UnseenIsLater, OriginSeen
  <2> QED
    BY <2>1, <2>2, <2>3, StepOrder, AdvanceOrder, ElsewhereOrder, SettlingAssumption
       DEF Next, Tasks
<1> QED
  BY <1>1, <1>2, Invariance, PTL DEF Spec

-----------------------------------------------------------------------------
(* The links of an edge.                                                   *)
(*                                                                         *)
(* The enqueue and the edge that records it are two steps, with stores of  *)
(* other calls and syncs from old snapshots in between.  What carries the  *)
(* link over is what a call about to store holds (StoredIsMade); every     *)
(* rewrite of the edges keeps `to` and `plan` together.                    *)

Packaged == \A c \in Calls : call[c].mode = "package_writer"

Later(from, to, plan) ==
    /\ to \in Tasks /\ made[to] # None /\ to # from
    /\ to \notin again => from < to /\ (Packaged => made[to].plan = plan)

RealLink(e) == e.to # None => Later(e.from, e.to, e.plan)

StoredIsMade ==
    \A c \in Calls : call[c].pc = "store" /\ call[c].op \in {"now", "materialize"} =>
        Later(call[c].from, call[c].to, call[c].plan)

\* The environment of the process, and so the mode, does not change.
ModeKept == \A c \in Calls : call'[c].mode = call[c].mode

LinkInv ==
    /\ StoredIsMade
    /\ \A e \in edges : RealLink(e)

LEMMA PackagedKept == ModeKept => (Packaged' <=> Packaged)
  BY DEF ModeKept, Packaged

LEMMA SyncLinks ==
    ASSUME NEW es \in SUBSET Edge, NEW s \in [Tasks -> TaskStatus], \A e \in es : RealLink(e)
    PROVE  \A e \in Sync(es, s) : RealLink(e)
<1>1. \A x \in es : /\ Synced(x, s).from = x.from /\ Synced(x, s).to = x.to
                    /\ Synced(x, s).plan = x.plan
  BY SyncedShape
<1> QED
  BY <1>1 DEF Sync, RealLink

(* Whatever a call makes of edges that lead where they say does too.       *)
LEMMA OutcomesLinks ==
    ASSUME TypeOK, ArgsTyped, StoredIsMade, NEW c \in Calls, call[c].pc = "store",
           NEW es \in SUBSET Edge, \A e \in es : RealLink(e), NEW out \in Outcomes(es, c)
    PROVE  \A e \in out : RealLink(e)
<1>1. ASSUME NEW e \in Edge, RealLink(e) PROVE \A x \in Upsert(es, e) : RealLink(x)
  BY <1>1 DEF Upsert, Without
<1>2. ASSUME NEW e \in Edge, RealLink(e), NEW k \in Tasks
      PROVE  [e EXCEPT !.chain = k] \in Edge /\ RealLink([e EXCEPT !.chain = k])
  BY <1>2 DEF Edge, RealLink
<1>3. ASSUME NEW e \in Edge, RealLink(e), NEW o \in Link(es, c, e)
      PROVE  \A x \in o : RealLink(x)
  <2>1. CASE call[c].chain # None
    <3>1. call[c].chain \in Tasks
      BY <2>1 DEF TypeOK, CallRecord
    <3> QED
      BY <1>1, <1>2, <1>3, <2>1, <3>1 DEF Link
  <2>2. CASE call[c].chain = None
    <3>1. \A k \in ChainsOf(es, e.from) : k \in Tasks
      BY DEF ChainsOf, Edge
    <3>2. o \in UpsertAnywhere(es, e)
      BY <1>3, <2>2 DEF Link
    <3> QED
      BY <1>1, <1>2, <1>3, <3>1, <3>2 DEF UpsertAnywhere
  <2> QED
    BY <2>1, <2>2
<1>4. CASE call[c].op = "reserve"
  <2>1. call[c].from \in Tasks
    BY <1>4 DEF ArgsTyped, NeedsOrigin
  <2>2. Reserved(c) \in Edge /\ RealLink(Reserved(c))
    BY <2>1 DEF Reserved, RealLink, Edge, Derived, EdgeStatus
  <2> QED
    BY <1>3, <1>4, <2>2 DEF Outcomes
<1>5. CASE call[c].op \in {"now", "materialize"}
  <2>1. call[c].from \in Tasks /\ call[c].to \in Tasks
    BY <1>5 DEF ArgsTyped, NeedsOrigin
  <2>2. Materialized(c) \in Edge
    BY <2>1 DEF Materialized, Edge, EdgeStatus, TypeOK, CallRecord
  <2>3. RealLink(Materialized(c))
    BY <1>5 DEF Materialized, RealLink, StoredIsMade
  <2>4. CASE call[c].op = "now"
    BY <1>3, <2>2, <2>3, <2>4 DEF Outcomes
  <2>5. CASE call[c].op = "materialize"
    <3>1. out \in Update(es, c) /\ call[c].chain \in Tasks
      BY <2>5 DEF Outcomes, ArgsTyped
    <3> QED
      BY <1>1, <1>2, <2>2, <2>3, <3>1 DEF Update
  <2> QED
    BY <1>5, <2>4, <2>5
<1>6. CASE call[c].op \in {"removeChain", "removeEdge"}
  BY <1>6 DEF Outcomes, Without
<1>7. CASE call[c].op = "setStatus"
  <2>1. out = Marked(es, c)
    BY <1>7 DEF Outcomes
  <2>2. ASSUME NEW e \in es
        PROVE  /\ [e EXCEPT !.status = call[c].status].to = e.to
               /\ [e EXCEPT !.status = call[c].status].from = e.from
               /\ [e EXCEPT !.status = call[c].status].plan = e.plan
    BY DEF Edge
  <2>3. \A e \in es : RealLink([e EXCEPT !.status = call[c].status])
    BY <2>2 DEF RealLink
  <2> QED
    BY <2>1, <2>3 DEF Marked
<1> QED
  BY <1>4, <1>5, <1>6, <1>7 DEF ArgsTyped, Operations

LEMMA SameLinks ==
    ASSUME LinkInv, ModeKept, UNCHANGED <<edges, made, again>>
    PROVE  (\A e \in edges : RealLink(e))'
  BY PackagedKept DEF LinkInv, RealLink, Later

(* The edges stored are synced with some snapshot.                         *)
LEMMA SavedLinks ==
    ASSUME TypeOK, NEW p \in Calls \cup {Watcher}, NEW es \in SUBSET Edge, ModeKept,
           \A e \in es : RealLink(e), edges' = Sync(es, seen[p]), UNCHANGED <<made, again>>
    PROVE  (\A e \in edges : RealLink(e))'
<1>1. seen[p] \in [Tasks -> TaskStatus]
  BY DEF TypeOK
<1>2. \A e \in edges' : RealLink(e)
  BY <1>1, SyncLinks
<1> QED
  BY <1>2, PackagedKept DEF RealLink, Later

(* A step of a call that leaves it elsewhere than about to store.          *)
LEMMA StoredElsewhere ==
    ASSUME TypeOK, StoredIsMade, ModeKept, NEW c \in Calls, UNCHANGED <<made, again>>,
           \A d \in Calls : d # c => call'[d] = call[d], call'[c].pc # "store"
    PROVE  StoredIsMade'
  BY PackagedKept DEF StoredIsMade, Later

LEMMA OneModeKept ==
    ASSUME NEW c \in Calls, \A d \in Calls : d # c => call'[d] = call[d],
           call'[c].mode = call[c].mode
    PROVE  ModeKept
  BY DEF ModeKept

LEMMA NextModeKept == IInv /\ [Next]_vars => ModeKept
<1> SUFFICES ASSUME IInv, [Next]_vars PROVE ModeKept
  OBVIOUS
<1>0. TypeOK
  BY DEF IInv
<1>1. ASSUME NEW c \in Calls, Ask(c) PROVE ModeKept
  BY <1>0, <1>1, BeginElsewhere, OneModeKept DEF Ask
<1>2. ASSUME NEW c \in Calls, NEW pc, Goto(c, pc) PROVE ModeKept
  BY <1>0, <1>2, GotoElsewhere, OneModeKept
<1>3. ASSUME NEW c \in Calls, NEW e,
             call' = [call EXCEPT ![c].pc = "enqueue", ![c].plan = e.plan]
      PROVE  ModeKept
  BY <1>0, <1>3, PlanElsewhere, OneModeKept
<1>4. ASSUME NEW c \in Calls, NEW t, call' = [call EXCEPT ![c].pc = "store", ![c].to = t]
      PROVE  ModeKept
  BY <1>0, <1>4, ToElsewhere, OneModeKept
<1>5. ASSUME NEW c \in Calls, Step(c) PROVE ModeKept
  <2>1. CASE List(c)
    BY <1>2, <2>1 DEF List, End
  <2>2. CASE Check(c)
    BY <1>2, <1>3, <2>2 DEF Check, End
  <2>3. CASE Enqueue(c)
    BY <1>2, <1>4, <2>3 DEF Enqueue
  <2>4. CASE Discover(c)
    BY <1>2, <1>4, <2>4 DEF Discover, End
  <2>5. CASE EnqueueFails(c) \/ Store(c) \/ Refresh(c) \/ Reconcile(c)
    BY <1>2, <2>5 DEF EnqueueFails, Store, Refresh, Reconcile, End
  <2> QED
    BY <1>5, <2>1, <2>2, <2>3, <2>4, <2>5 DEF Step
<1>6. CASE UNCHANGED call
  BY <1>6 DEF ModeKept
<1> QED
  BY <1>1, <1>5, <1>6 DEF Next, WatchRefresh, WatchReconcile, Advance, EnqueueElsewhere, vars

LEMMA AskLinks ==
    ASSUME IInv, LinkInv, ModeKept, NEW c \in Calls, Ask(c)
    PROVE  LinkInv'
<1>1. /\ UNCHANGED <<edges, made, again>>
      /\ \A d \in Calls : d # c => call'[d] = call[d]
      /\ call'[c].pc = "list"
  BY BeginElsewhere DEF Ask, IInv
<1> QED
  BY <1>1, StoredElsewhere, SameLinks DEF LinkInv, IInv

LEMMA ListLinks ==
    ASSUME IInv, LinkInv, ModeKept, NEW c \in Calls, List(c)
    PROVE  LinkInv'
<1>1. UNCHANGED <<edges, made, again>> /\ TypeOK /\ ArgsTyped
  BY DEF List, IInv
<1>2. PICK pc \in {"failed", AfterList(call[c].op)} : Goto(c, pc)
  BY DEF List, End
<1>3. CASE call'[c].pc # "store"
  BY <1>1, <1>2, <1>3, StoredElsewhere, GotoElsewhere, SameLinks DEF LinkInv
<1>4. CASE call'[c].pc = "store"
  <2>1. /\ call'[c].op \notin {"now", "materialize"}
        /\ \A d \in Calls : d # c => call'[d] = call[d]
    BY <1>1, <1>2, <1>4, GotoElsewhere DEF AfterList
  <2>2. StoredIsMade'
    BY <1>1, <2>1, PackagedKept DEF LinkInv, StoredIsMade, Later
  <2> QED
    BY <1>1, <2>2, SameLinks DEF LinkInv
<1> QED
  BY <1>3, <1>4

LEMMA CheckLinks ==
    ASSUME IInv, LinkInv, ModeKept, NEW c \in Calls, Check(c) \/ EnqueueFails(c) \/ Refresh(c)
    PROVE  LinkInv'
<1>1. UNCHANGED <<edges, made, again>> /\ TypeOK
  BY DEF Check, EnqueueFails, Refresh, IInv
<1>2. /\ \A d \in Calls : d # c => call'[d] = call[d]
      /\ call'[c].pc # "store"
  <2>1. CASE \E pc \in {"failed", "reconcile"} : Goto(c, pc)
    BY <1>1, <2>1, GotoElsewhere
  <2>2. ASSUME NEW e, call' = [call EXCEPT ![c].pc = "enqueue", ![c].plan = e.plan]
        PROVE  <1>2!1 /\ <1>2!2
    BY <1>1, <2>2, PlanElsewhere
  <2> QED
    BY <2>1, <2>2 DEF Check, EnqueueFails, Refresh, End
<1> QED
  BY <1>1, <1>2, StoredElsewhere, SameLinks DEF LinkInv

(* A new row breaks no link: either its name is new, and nothing leads to  *)
(* it yet, or it is given again.                                           *)
LEMMA AddRowLinks ==
    ASSUME IInv, LinkInv, ModeKept, NEW t \in Tasks, NEW origin \in Origin, AddRow(t, origin),
           UNCHANGED edges
    PROVE  /\ (\A e \in edges : RealLink(e))'
           /\ \A d \in Calls :
                 call'[d] = call[d] /\ call[d].pc = "store" /\ call[d].op \in {"now", "materialize"}
                    => Later(call[d].from, call[d].to, call[d].plan)'
<1>1. /\ made'[t] # None /\ \A u \in Tasks : u # t => made'[u] = made[u]
      /\ again \subseteq again' /\ (made[t] # None => t \in again')
  BY AddRowTyped
<1>2. Packaged' <=> Packaged
  BY PackagedKept
<1>3. \A from, to, plan :
        /\ to \in Tasks /\ made[to] # None /\ to # from
        /\ to \notin again => from < to /\ (Packaged => made[to].plan = plan)
        => /\ to \in Tasks /\ made'[to] # None /\ to # from
           /\ to \notin again' => from < to /\ (Packaged' => made'[to].plan = plan)
  BY <1>1, <1>2
<1>4. (\A e \in edges : RealLink(e))'
  <2> SUFFICES ASSUME NEW e \in edges PROVE (RealLink(e))'
    OBVIOUS
  <2>1. e.to # None => Later(e.from, e.to, e.plan)
    BY DEF LinkInv, RealLink
  <2>2. e.to # None =>
          /\ e.to \in Tasks /\ made'[e.to] # None /\ e.to # e.from
          /\ e.to \notin again' => e.from < e.to /\ (Packaged' => made'[e.to].plan = e.plan)
    BY <1>3, <2>1 DEF Later
  <2> QED
    BY <2>2 DEF RealLink, Later
<1>5. ASSUME NEW d \in Calls, call'[d] = call[d], call[d].pc = "store",
             call[d].op \in {"now", "materialize"}
      PROVE  Later(call[d].from, call[d].to, call[d].plan)'
  <2>1. Later(call[d].from, call[d].to, call[d].plan)
    BY <1>5 DEF LinkInv, StoredIsMade
  <2>2. PICK from, to, plan : from = call[d].from /\ to = call[d].to /\ plan = call[d].plan
    OBVIOUS
  <2>3. /\ to \in Tasks /\ made[to] # None /\ to # from
        /\ to \notin again => from < to /\ (Packaged => made[to].plan = plan)
    BY <2>1, <2>2 DEF Later
  <2>4. /\ to \in Tasks /\ made'[to] # None /\ to # from
        /\ to \notin again' => from < to /\ (Packaged' => made'[to].plan = plan)
    BY <1>3, <2>3
  <2> QED
    BY <1>5, <2>2, <2>4 DEF Later
<1> QED
  BY <1>4, <1>5

(* The task just enqueued is not its origin; if its name is new it comes   *)
(* after the origin, which the call has seen; and it carries the plan of   *)
(* the call.                                                               *)
LEMMA EnqueueLinks ==
    ASSUME IInv, OrderInv, LinkInv, ModeKept, NEW c \in Calls, Enqueue(c)
    PROVE  LinkInv'
<1> DEFINE origin == [op |-> call[c].op, plan |-> call[c].plan, upstream |-> tasks[call[c].from]]
<1>1. PICK t \in Tasks :
        /\ AddRow(t, origin)
        /\ \/ Goto(c, "discover")
           \/ /\ t \notin Present(seen[c])
              /\ call' = [call EXCEPT ![c].pc = "store", ![c].to = t]
  BY DEF Enqueue
<1>2. UNCHANGED edges /\ call[c].pc = "enqueue" /\ TypeOK
  BY DEF Enqueue, IInv
<1>3. origin \in Origin /\ origin.plan = call[c].plan
  BY <1>2, OriginGiven
<1> HIDE DEF origin
<1>4. \A d \in Calls : d # c => call'[d] = call[d]
  BY <1>1, <1>2, GotoElsewhere, ToElsewhere
<1>5. /\ (\A e \in edges : RealLink(e))'
      /\ \A d \in Calls :
            call'[d] = call[d] /\ call[d].pc = "store" /\ call[d].op \in {"now", "materialize"}
               => Later(call[d].from, call[d].to, call[d].plan)'
  BY <1>1, <1>2, <1>3, AddRowLinks
<1>6. ASSUME NEW d \in Calls, d # c, call'[d].pc = "store",
             call'[d].op \in {"now", "materialize"}
      PROVE  Later(call[d].from, call[d].to, call[d].plan)'
  BY <1>4, <1>5, <1>6
<1>7. CASE Goto(c, "discover")
  <2>1. call'[c].pc = "discover"
    BY <1>2, <1>7, GotoElsewhere
  <2> QED
    BY <1>5, <1>6, <2>1 DEF LinkInv, StoredIsMade
<1>8. CASE t \notin Present(seen[c]) /\ call' = [call EXCEPT ![c].pc = "store", ![c].to = t]
  <2>1. /\ call'[c].to = t /\ call'[c].plan = call[c].plan /\ call'[c].from = call[c].from
    BY <1>2, <1>8, ToElsewhere
  <2>2. /\ made'[t] = origin /\ made'[t] # None
        /\ made[t] # None => t \in again'
    BY <1>1, <1>3, AddRowTyped
  <2>3. call[c].from \in Tasks /\ seen[c][call[c].from] # "absent" /\ made[call[c].from] # None
    BY <1>2 DEF OrderInv, OriginSeen, SeenIsMade
  <2>4. t # call[c].from /\ (made[t] = None => call[c].from < t)
    BY <1>8, <2>3 DEF OrderInv, MadeInOrder, Present
  <2>5. Later(call[c].from, call[c].to, call[c].plan)'
    BY <1>3, <2>1, <2>2, <2>4 DEF Later
  <2> QED
    BY <1>5, <1>6, <2>5 DEF LinkInv, StoredIsMade
<1> QED
  BY <1>1, <1>7, <1>8

LEMMA ElsewhereLinks ==
    ASSUME IInv, LinkInv, ModeKept, EnqueueElsewhere
    PROVE  LinkInv'
<1>1. PICK t \in Tasks : AddRow(t, Elsewhere)
  BY SettlingAssumption DEF EnqueueElsewhere, Tasks
<1>2. UNCHANGED <<edges, call>>
  BY DEF EnqueueElsewhere
<1> QED
  BY <1>1, <1>2, AddRowLinks, ElsewhereIsOrigin DEF LinkInv, StoredIsMade

(* Whatever task the call finds, it is not its origin, and was enqueued    *)
(* after its origin unless its name is given again.                        *)
LEMMA DiscoverLinks ==
    ASSUME IInv, OrderInv, LinkInv, ModeKept, NEW c \in Calls, Discover(c)
    PROVE  LinkInv'
<1>1. UNCHANGED <<edges, made, again>> /\ TypeOK /\ call[c].pc = "discover"
  BY DEF Discover, IInv
<1>2. CASE End(c, "failed")
  BY <1>1, <1>2, StoredElsewhere, GotoElsewhere, SameLinks DEF LinkInv, End
<1>3. ASSUME NEW snapshot \in Snapshots, NEW t \in Present(snapshot) \ Present(seen[c]),
             call' = [call EXCEPT ![c].pc = "store", ![c].to = t]
      PROVE  LinkInv'
  <2>1. t \in Tasks /\ seen[c][t] = "absent" /\ tasks[t] # "absent"
    BY <1>3 DEF Snapshots, Present, Torn
  <2>2. /\ t # call[c].from /\ made[t] # None
        /\ t \notin again => call[c].from < t
    BY <1>1, <2>1 DEF OrderInv, OriginSeen, UnseenIsLater, IInv, UnusedAbsent
  <2>3. ~Packaged'
    BY <1>1, PackagedKept DEF Packaged, IInv, ArgsTyped
  <2>4. /\ \A d \in Calls : d # c => call'[d] = call[d]
        /\ call'[c].to = t /\ call'[c].from = call[c].from
    BY <1>1, <1>3, ToElsewhere
  <2>5. StoredIsMade'
    BY <1>1, <2>1, <2>2, <2>3, <2>4, PackagedKept DEF LinkInv, StoredIsMade, Later
  <2> QED
    BY <1>1, <2>5, SameLinks DEF LinkInv
<1> QED
  BY <1>2, <1>3 DEF Discover

LEMMA StoreLinks ==
    ASSUME IInv, LinkInv, ModeKept, NEW c \in Calls, Store(c)
    PROVE  LinkInv'
<1> DEFINE loaded == Sync(edges, seen[c])
<1>1. TypeOK /\ ArgsTyped /\ StoredIsMade /\ call[c].pc = "store" /\ UNCHANGED <<made, again>>
  BY DEF IInv, LinkInv, Store
<1>2. loaded \in SUBSET Edge /\ \A e \in loaded : RealLink(e)
  BY <1>1, SyncTyped, SyncLinks DEF TypeOK, LinkInv
<1> HIDE DEF loaded
<1>3. ASSUME NEW outcome \in Outcomes(loaded, c), edges' = Sync(outcome, seen[c]),
             Goto(c, "refresh")
      PROVE  LinkInv'
  <2>1. outcome \in SUBSET Edge /\ \A e \in outcome : RealLink(e)
    BY <1>1, <1>2, OutcomesTyped, OutcomesLinks
  <2>2. (\A e \in edges : RealLink(e))'
    BY <1>1, <1>3, <2>1, SavedLinks
  <2>3. StoredIsMade'
    BY <1>1, <1>3, StoredElsewhere, GotoElsewhere
  <2> QED
    BY <2>2, <2>3 DEF LinkInv
<1>4. CASE End(c, "failed") /\ UNCHANGED edges
  BY <1>1, <1>4, StoredElsewhere, GotoElsewhere, SameLinks DEF LinkInv, End
<1> QED
  BY <1>3, <1>4 DEF Store, loaded

LEMMA ReconcileLinks ==
    ASSUME IInv, LinkInv, ModeKept, NEW c \in Calls, Reconcile(c)
    PROVE  LinkInv'
<1>1. TypeOK /\ edges \in SUBSET Edge /\ UNCHANGED <<made, again>> /\ Goto(c, "done")
  BY DEF IInv, TypeOK, Reconcile, End
<1>2. (\A e \in edges : RealLink(e))'
  BY <1>1, SavedLinks DEF Reconcile, LinkInv
<1>3. StoredIsMade'
  BY <1>1, StoredElsewhere, GotoElsewhere DEF LinkInv
<1> QED
  BY <1>2, <1>3 DEF LinkInv

LEMMA OtherLinks ==
    ASSUME IInv, LinkInv, ModeKept,
           \/ WatchRefresh \/ WatchReconcile \/ UNCHANGED vars
           \/ \E t \in Settling, status \in TaskStatus : Advance(t, status)
    PROVE  LinkInv'
<1>1. UNCHANGED <<made, again, call>>
  BY DEF WatchRefresh, WatchReconcile, Advance, vars
<1>2. StoredIsMade'
  BY <1>1 DEF LinkInv, StoredIsMade, Later, Packaged
<1>3. (\A e \in edges : RealLink(e))'
  <2>1. CASE WatchReconcile
    BY <1>1, <2>1, SavedLinks DEF WatchReconcile, LinkInv, IInv, TypeOK
  <2>2. CASE UNCHANGED edges
    BY <1>1, <2>2, SameLinks
  <2> QED
    BY <2>1, <2>2 DEF WatchRefresh, Advance, vars
<1> QED
  BY <1>2, <1>3 DEF LinkInv

LEMMA LinkInvariance == Spec => []LinkInv
<1>1. Init => LinkInv
  BY DisjointAssumption DEF Init, LinkInv, StoredIsMade, RealLink, Waiting
<1>2. IInv /\ OrderInv /\ LinkInv /\ [Next]_vars => LinkInv'
  <2> SUFFICES ASSUME IInv, OrderInv, LinkInv, [Next]_vars PROVE LinkInv'
    OBVIOUS
  <2>0. ModeKept
    BY NextModeKept
  <2>1. ASSUME NEW c \in Calls, Ask(c) \/ Step(c) PROVE LinkInv'
    BY <2>0, <2>1, AskLinks, ListLinks, CheckLinks, EnqueueLinks, DiscoverLinks, StoreLinks,
       ReconcileLinks DEF Step
  <2> QED
    BY <2>0, <2>1, OtherLinks, ElsewhereLinks DEF Next
<1> QED
  BY <1>1, <1>2, Invariance, OrderInvariance, PTL DEF Spec

-----------------------------------------------------------------------------
(* The keys in flight.                                                     *)
(*                                                                         *)
(* A key is added where a materialize begins and is taken out by `finally` *)
(* whichever way the call ends; nothing in between touches the key.        *)

Flying(c) == call[c].op = "materialize" /\ call[c].pc \notin {"done", "failed"}

FlightInv ==
    /\ \A c \in Calls : Flying(c) => Key(c) \in flight
    /\ \A c, d \in Calls : Flying(c) /\ Flying(d) /\ Key(c) = Key(d) => c = d
    /\ \A k \in flight : \E c \in Calls : Flying(c) /\ Key(c) = k

(* A step of a call that stays in flight, or on the ground.                *)
LEMMA FlyOn ==
    ASSUME FlightInv, NEW c \in Calls, UNCHANGED flight,
           \A d \in Calls : d # c => call'[d] = call[d],
           call'[c].op = call[c].op, call'[c].chain = call[c].chain,
           call'[c].from = call[c].from,
           call[c].pc \notin {"done", "failed"}, call'[c].pc \notin {"done", "failed"}
    PROVE  FlightInv'
<1>1. \A d \in Calls : (Flying(d))' = Flying(d) /\ (Key(d))' = Key(d)
  BY DEF Flying, Key
<1> QED
  BY <1>1 DEF FlightInv

LEMMA LandInv ==
    ASSUME TypeOK, FlightInv, NEW c \in Calls, NEW pc \in {"done", "failed"}, End(c, pc),
           call[c].pc \notin {"done", "failed"}
    PROVE  FlightInv'
<1>1. /\ \A d \in Calls : d # c => call'[d] = call[d]
      /\ call'[c].pc = pc
  BY GotoElsewhere DEF End
<1>2. ~(Flying(c))' /\ \A d \in Calls : d # c => (Flying(d))' = Flying(d) /\ (Key(d))' = Key(d)
  BY <1>1 DEF Flying, Key
<1>3. flight' = IF Flying(c) THEN flight \ {Key(c)} ELSE flight
  BY DEF End, Land, Flying
<1> QED
  BY <1>2, <1>3 DEF FlightInv

LEMMA BeginFlight ==
    ASSUME TypeOK, FlightInv, NEW c \in Calls, NEW op, NEW chain, NEW from, NEW to, NEW status,
           call[c].op = "none", Begin(c, op, chain, from, to, status)
    PROVE  FlightInv'
<1>1. /\ \A d \in Calls : d # c => call'[d] = call[d]
      /\ call'[c].pc = "list" /\ call'[c].op = op
      /\ call'[c].chain = chain /\ call'[c].from = from
  BY BeginElsewhere
<1>2. ~Flying(c) /\ \A d \in Calls : d # c => (Flying(d))' = Flying(d) /\ (Key(d))' = Key(d)
  BY <1>1 DEF Flying, Key
<1>3. (Key(c))' = <<chain, from>> /\ (Flying(c))' = (op = "materialize")
  BY <1>1 DEF Flying, Key
<1>4. CASE op = "materialize"
  <2>1. flight' = flight \cup {<<chain, from>>} /\ <<chain, from>> \notin flight
    BY <1>4 DEF Begin
  <2>2. (\A d \in Calls : Flying(d) => Key(d) \in flight)'
    BY <1>2, <1>3, <2>1 DEF FlightInv
  <2>3. (\A d, e \in Calls : Flying(d) /\ Flying(e) /\ Key(d) = Key(e) => d = e)'
    <3> SUFFICES ASSUME NEW d \in Calls, NEW e \in Calls, (Flying(d))', (Flying(e))',
                        (Key(d))' = (Key(e))'
                 PROVE  d = e
      OBVIOUS
    <3>1. \A x \in Calls : x # c /\ (Flying(x))' => (Key(x))' # <<chain, from>>
      BY <1>2, <2>1 DEF FlightInv
    <3> QED
      BY <1>2, <1>3, <3>1 DEF FlightInv
  <2>4. (\A k \in flight : \E d \in Calls : Flying(d) /\ Key(d) = k)'
    <3> SUFFICES ASSUME NEW k \in flight'
                 PROVE  \E d \in Calls : (Flying(d))' /\ (Key(d))' = k
      OBVIOUS
    <3>1. CASE k = <<chain, from>>
      BY <1>3, <1>4, <3>1
    <3>2. CASE k \in flight
      <4>1. PICK d \in Calls : Flying(d) /\ Key(d) = k
        BY <3>2 DEF FlightInv
      <4> QED
        BY <1>2, <4>1
    <3> QED
      BY <2>1, <3>1, <3>2
  <2> QED
    BY <2>2, <2>3, <2>4 DEF FlightInv
<1>5. CASE op # "materialize"
  <2>1. flight' = flight /\ ~(Flying(c))'
    BY <1>3, <1>5 DEF Begin
  <2> QED
    BY <1>2, <2>1 DEF FlightInv
<1> QED
  BY <1>4, <1>5

(* Before it begins a call has no operation.                               *)
Unbegun == \A c \in Calls : call[c].pc = "idle" => call[c].op = "none"

LEMMA StepFlight ==
    ASSUME IInv, FlightInv, NEW c \in Calls, Step(c)
    PROVE  FlightInv'
<1>1. TypeOK /\ call[c].pc \notin {"done", "failed", "idle"}
  BY DEF IInv, Step, List, Check, Enqueue, EnqueueFails, Discover, Store, Refresh, Reconcile
<1>2. ASSUME NEW pc \in {"done", "failed"}, End(c, pc) PROVE FlightInv'
  BY <1>1, <1>2, LandInv
<1>3. ASSUME NEW pc, pc \notin {"done", "failed"}, Goto(c, pc), UNCHANGED flight
      PROVE  FlightInv'
  BY <1>1, <1>3, GotoElsewhere, FlyOn
<1>4. CASE List(c)
  BY <1>2, <1>3, <1>4 DEF List, AfterList
<1>5. CASE Check(c)
  <2>1. ASSUME NEW e, call' = [call EXCEPT ![c].pc = "enqueue", ![c].plan = e.plan],
               UNCHANGED flight
        PROVE  FlightInv'
    <3>1. /\ \A d \in Calls : d # c => call'[d] = call[d]
          /\ call'[c].op = call[c].op /\ call'[c].chain = call[c].chain
          /\ call'[c].from = call[c].from /\ call'[c].pc = "enqueue"
      BY <1>1, <2>1 DEF TypeOK, CallRecord
    <3> QED
      BY <1>1, <2>1, <3>1, FlyOn
  <2> QED
    BY <1>2, <1>5, <2>1 DEF Check
<1>6. CASE Enqueue(c) \/ Discover(c)
  <2>1. ASSUME NEW t, call' = [call EXCEPT ![c].pc = "store", ![c].to = t], UNCHANGED flight
        PROVE  FlightInv'
    BY <1>1, <2>1, ToElsewhere, FlyOn
  <2> QED
    BY <1>2, <1>3, <1>6, <2>1 DEF Enqueue, Discover
<1>7. CASE EnqueueFails(c) \/ Store(c) \/ Refresh(c) \/ Reconcile(c)
  BY <1>2, <1>3, <1>7 DEF EnqueueFails, Store, Refresh, Reconcile
<1> QED
  BY <1>4, <1>5, <1>6, <1>7 DEF Step

LEMMA StepBegun ==
    ASSUME IInv, Unbegun, NEW c \in Calls, Ask(c) \/ Step(c)
    PROVE  Unbegun'
<1>1. TypeOK
  BY DEF IInv
<1>2. ASSUME NEW pc, pc # "idle", Goto(c, pc) PROVE Unbegun'
  BY <1>1, <1>2, GotoElsewhere DEF Unbegun
<1>3. ASSUME NEW e, call' = [call EXCEPT ![c].pc = "enqueue", ![c].plan = e.plan]
      PROVE  Unbegun'
  <2>1. call'[c].pc = "enqueue" /\ \A d \in Calls : d # c => call'[d] = call[d]
    BY <1>1, <1>3 DEF TypeOK, CallRecord
  <2> QED
    BY <2>1 DEF Unbegun
<1>4. ASSUME NEW t, call' = [call EXCEPT ![c].pc = "store", ![c].to = t]
      PROVE  Unbegun'
  <2>1. call'[c].pc = "store" /\ \A d \in Calls : d # c => call'[d] = call[d]
    BY <1>1, <1>4 DEF TypeOK, CallRecord
  <2> QED
    BY <2>1 DEF Unbegun
<1>5. CASE Ask(c)
  <2>1. call'[c].pc = "list" /\ \A d \in Calls : d # c => call'[d] = call[d]
    BY <1>1, <1>5, BeginElsewhere DEF Ask
  <2> QED
    BY <2>1 DEF Unbegun
<1>6. CASE List(c)
  BY <1>2, <1>6 DEF List, End, AfterList
<1>7. CASE Check(c)
  BY <1>2, <1>3, <1>7 DEF Check, End
<1>8. CASE Enqueue(c) \/ Discover(c)
  BY <1>2, <1>4, <1>8 DEF Enqueue, Discover, End
<1>9. CASE EnqueueFails(c) \/ Store(c) \/ Refresh(c) \/ Reconcile(c)
  BY <1>2, <1>9 DEF EnqueueFails, Store, Refresh, Reconcile, End
<1> QED
  BY <1>5, <1>6, <1>7, <1>8, <1>9 DEF Step

LEMMA FlightInvariance == Spec => [](Unbegun /\ FlightInv)
<1>1. Init => Unbegun /\ FlightInv
  BY DEF Init, Unbegun, FlightInv, Flying
<1>2. IInv /\ Unbegun /\ FlightInv /\ [Next]_vars => (Unbegun /\ FlightInv)'
  <2> SUFFICES ASSUME IInv, Unbegun, FlightInv, [Next]_vars PROVE (Unbegun /\ FlightInv)'
    OBVIOUS
  <2>1. ASSUME NEW c \in Calls, Ask(c) PROVE FlightInv'
    <3>1. call[c].op = "none" /\ TypeOK
      BY <2>1 DEF Ask, Begin, Unbegun, IInv
    <3> QED
      BY <2>1, <3>1, BeginFlight DEF Ask
  <2>2. ASSUME UNCHANGED <<call, flight>> PROVE (Unbegun /\ FlightInv)'
    <3>1. \A c \in Calls : (Flying(c))' = Flying(c) /\ (Key(c))' = Key(c)
      BY <2>2 DEF Flying, Key
    <3> QED
      BY <2>2, <3>1 DEF FlightInv, Unbegun
  <2> QED
    BY <2>1, <2>2, StepFlight, StepBegun DEF Next, WatchRefresh, WatchReconcile, Advance,
       EnqueueElsewhere, vars
<1> QED
  BY <1>1, <1>2, Invariance, PTL DEF Spec

-----------------------------------------------------------------------------
(* What follows.                                                           *)

(* Every variable of the chain model keeps its type.                       *)
THEOREM ChainsTyped == Spec => []TypeOK
<1>1. IInv => TypeOK
  BY DEF IInv
<1> QED
  BY <1>1, Invariance, PTL

(* A reserved task is created only after the task it depends on completed, *)
(* however old the snapshots and whatever status the user sets on the edge.*)
THEOREM NeverCreatedEarly == Spec => []CreatedAfterUpstream
<1>1. IInv => CreatedAfterUpstream
  BY DEF IInv
<1> QED
  BY <1>1, Invariance, PTL

(* An edge stored as ready has a completed upstream.                       *)
THEOREM ReadyIsTrue == Spec => []ReadyNeedsCompletedUpstream
<1>1. IInv => ReadyNeedsCompletedUpstream
  BY DEF IInv
<1> QED
  BY <1>1, Invariance, PTL

(* Through every race between the enqueue, the discovery of its id, the    *)
(* store and the syncs, an edge leads to another task than the one it      *)
(* depends on and, unless its name was given again, to one enqueued later: *)
(* chains have no cycle.  With the package writer it is the task created   *)
(* for the plan the edge carries.                                          *)
THEOREM LinksLeadToTheirPlan == Spec => []LinksAreReal
<1>1. LinkInv => LinksAreReal
  BY DEF LinkInv, RealLink, Later, LinksAreReal, Packaged
<1> QED
  BY <1>1, LinkInvariance, PTL

(* materializeInFlight is exact: one running materialize for each key in   *)
(* it and none for a key that is not, however the calls end.               *)
THEOREM OneFlightPerKey == Spec => []FlightsAreExclusive
<1>1. FlightInv => FlightsAreExclusive
  <2> SUFFICES ASSUME FlightInv, NEW k \in Tasks \X Tasks
               PROVE  LET holders == {c \in Calls : call[c].op = "materialize" /\ Key(c) = k
                                                    /\ call[c].pc \notin {"done", "failed"}}
                      IN Cardinality(holders) = IF k \in flight THEN 1 ELSE 0
    BY DEF FlightsAreExclusive
  <2> DEFINE holders == {c \in Calls : call[c].op = "materialize" /\ Key(c) = k
                                       /\ call[c].pc \notin {"done", "failed"}}
  <2>1. CASE k \in flight
    <3>1. PICK c \in Calls : Flying(c) /\ Key(c) = k
      BY <2>1 DEF FlightInv
    <3>2. holders = {c}
      BY <3>1 DEF FlightInv, Flying
    <3> QED
      BY <2>1, <3>2, FS_Singleton
  <2>2. CASE k \notin flight
    <3>1. holders = {}
      BY <2>2 DEF FlightInv, Flying
    <3> QED
      BY <2>2, <3>1, FS_EmptySet
  <2> QED
    BY <2>1, <2>2
<1> QED
  BY <1>1, FlightInvariance, PTL
=============================================================================
