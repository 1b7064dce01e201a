------------------------- MODULE StateRefreshProofs -------------------------
(***************************************************************************)
(* Proofs about StateRefresh, for any tasks and any number of overlapping  *)
(* refreshes: unless an event of the watcher was lost, no change of the    *)
(* file goes unshown, and as long as refreshes finish in the order of      *)
(* their reads no failure is notified twice.                               *)
(*                                                                         *)
(* Quiet says nothing of the states on the way there.  The invariant that  *)
(* is inductive says where the newest contents are: shown already, or in   *)
(* the hands of a write, an event, the timer, or a refresh that has still  *)
(* to read or has read them.                                               *)
(***************************************************************************)
EXTENDS StateRefresh, FiniteSetTheorems, TLAPS

(* No snapshot is newer than the file.                                     *)
NothingFromTheFuture ==
    /\ newest <= Present
    /\ view # NoView => view <= Present
    /\ \A r \in Refreshes : refresh[r].seen <= Present

(* The present contents have been shown or something on its way will show  *)
(* them, or the event that would have brought them got lost.               *)
OnItsWay ==
    \/ newest = Present \/ lost
    \/ torn \/ event \/ timer
    \/ \E r \in Refreshes :
        \/ refresh[r].pc = "read"
        \/ refresh[r].pc = "project" /\ refresh[r].seen = Present

(* A write that has begun stays within the bound of the model.             *)
WritesFit == torn => Present < MaxLog

IInv == TypeOK /\ WritesFit /\ NothingFromTheFuture /\ OnItsWay

-----------------------------------------------------------------------------
(* What the view contains is an assignment of statuses to tasks.           *)
LEMMA ContentsTyped ==
    ASSUME TypeOK, NothingFromTheFuture
    PROVE  Contents(view) \in [Tasks -> Status]
<1>1. CASE view \in {Empty, NoView}
  BY <1>1 DEF Contents, Status
<1>2. CASE view \notin {Empty, NoView}
  <2>1. view \in 1..Len(log)
    BY <1>2, BoundAssumption DEF TypeOK, Snapshot, Empty, NothingFromTheFuture, Present
  <2> QED
    BY <1>2, <2>1 DEF TypeOK, Contents
<1> QED
  BY <1>1, <1>2

LEMMA InitIInv == Init => IInv
<1> SUFFICES ASSUME Init PROVE IInv
  OBVIOUS
<1> USE BoundAssumption DEF Init, Present, Empty, Snapshot
<1>1. Len(log) = 1 /\ log \in Seq([Tasks -> Status])
  <2>1. PICK c \in [Tasks -> Status] : log = <<c>>
    OBVIOUS
  <2> QED
    BY <2>1
<1>2. TypeOK
  <2>1. Len(log) \in 1..MaxLog
    BY <1>1
  <2>2. refresh \in [Refreshes -> [pc : {"idle", "read", "project", "settle"},
                                   seen : Snapshot]]
    OBVIOUS
  <2>3. /\ prev \in [Tasks -> (Status \ {"absent"}) \cup {"unseen"}]
        /\ notices \in [Tasks -> Nat]
    OBVIOUS
  <2> QED
    <3>1. /\ torn \in BOOLEAN /\ event \in BOOLEAN /\ timer \in BOOLEAN
          /\ lost \in BOOLEAN /\ back \in BOOLEAN
      BY Zenon
    <3>2. view \in Snapshot \cup {NoView}
      BY Zenon
    <3>3. newest \in Snapshot
      OBVIOUS
    <3> HIDE DEF Init
    <3> QED
      BY <1>1, <2>1, <2>2, <2>3, <3>1, <3>2, <3>3 DEF TypeOK
<1>3. NothingFromTheFuture
  BY <1>1 DEF NothingFromTheFuture
<1>4. OnItsWay
  BY DEF OnItsWay, Refreshes
<1> QED
  BY <1>2, <1>3, <1>4 DEF IInv, WritesFit

(* A write brings an event, or one is lost.                                *)
LEMMA TruncateIInv == IInv /\ Truncate => IInv'
  BY BoundAssumption
  DEF IInv, Truncate, Notify, TypeOK, WritesFit, NothingFromTheFuture, OnItsWay, Present

LEMMA WriteIInv ==
    ASSUME IInv, NEW t \in Tasks, NEW s \in Status, Write(t, s)
    PROVE  IInv'
<1>1. log[Present] \in [Tasks -> Status]
  BY DEF IInv, TypeOK, Present
<1>2. /\ log' \in Seq([Tasks -> Status])
      /\ Len(log') = Len(log) + 1
  BY <1>1 DEF IInv, TypeOK, Write
<1>3. event' \in BOOLEAN /\ lost' \in BOOLEAN /\ (event' \/ lost')
  BY DEF Write, Notify, IInv, TypeOK
<1>4. TypeOK' /\ WritesFit'
  <2>1. Len(log') \in 1..MaxLog
    BY <1>2, BoundAssumption DEF IInv, TypeOK, WritesFit, Write, Present
  <2>2. torn' = FALSE /\ UNCHANGED <<timer, refresh, view, prev, notices, newest, back>>
    BY DEF Write
  <2> QED
    BY <1>2, <1>3, <2>1, <2>2 DEF IInv, TypeOK, WritesFit
<1>5. NothingFromTheFuture'
  BY <1>2 DEF IInv, TypeOK, NothingFromTheFuture, Write, Present, Snapshot
<1>6. OnItsWay'
  BY <1>3 DEF OnItsWay
<1> QED
  BY <1>4, <1>5, <1>6 DEF IInv

LEMMA WatcherIInv ==
    ASSUME IInv, Deliver \/ Fallback
    PROVE  IInv'
<1>1. /\ timer' = TRUE /\ event' \in {event, FALSE}
      /\ UNCHANGED <<log, torn, lost, refresh, view, prev, notices, newest, back>>
  BY DEF Deliver, Fallback
<1>2. TypeOK' /\ WritesFit'
  BY <1>1 DEF IInv, TypeOK, WritesFit, Present
<1>3. NothingFromTheFuture'
  BY <1>1 DEF IInv, NothingFromTheFuture, Present
<1>4. OnItsWay'
  BY <1>1 DEF OnItsWay
<1> QED
  BY <1>2, <1>3, <1>4 DEF IInv

(* A refresh that begins will read.                                        *)
LEMMA BeginIInv ==
    ASSUME IInv, NEW r \in Refreshes, Fire(r) \/ Ask(r)
    PROVE  IInv'
<1>1. /\ refresh' = [refresh EXCEPT ![r].pc = "read"]
      /\ UNCHANGED <<log, torn, event, lost, view, prev, notices, newest, back>>
      /\ timer' \in BOOLEAN
  BY DEF Fire, Ask, Begin, IInv, TypeOK
<1>2. TypeOK' /\ WritesFit'
  BY <1>1 DEF IInv, TypeOK, WritesFit, Present
<1>3. NothingFromTheFuture'
  BY <1>1 DEF IInv, TypeOK, NothingFromTheFuture, Present
<1>4. refresh'[r].pc = "read"
  BY <1>1 DEF IInv, TypeOK
<1>5. OnItsWay'
  BY <1>4 DEF OnItsWay
<1> QED
  BY <1>2, <1>3, <1>5 DEF IInv

(* What it reads is the present contents, or a write is still to come.     *)
LEMMA ReadIInv ==
    ASSUME IInv, NEW r \in Refreshes, Read(r)
    PROVE  IInv'
<1> USE DEF Read, Present
<1>1. TypeOK' /\ WritesFit'
  BY BoundAssumption DEF IInv, TypeOK, WritesFit, Snapshot, Empty
<1>2. NothingFromTheFuture'
  BY BoundAssumption DEF IInv, TypeOK, NothingFromTheFuture, Empty
<1>3. torn \/ (refresh'[r].pc = "project" /\ refresh'[r].seen = Present)
  BY DEF IInv, TypeOK
<1>4. OnItsWay'
  BY <1>3 DEF OnItsWay
<1> QED
  BY <1>1, <1>2, <1>4 DEF IInv

(* Projecting the present contents shows them; any other projection leaves *)
(* what is on its way there.                                               *)
LEMMA ProjectIInv ==
    ASSUME IInv, NEW r \in Refreshes, Project(r)
    PROVE  IInv'
<1> DEFINE mine == refresh[r].seen
<1>1. /\ mine \in Snapshot /\ mine <= Present
      /\ newest \in Snapshot /\ newest <= Present /\ Present \in Nat
  BY DEF IInv, TypeOK, NothingFromTheFuture, Present
<1>2. /\ view' = mine /\ newest' = IF mine > newest THEN mine ELSE newest
      /\ back' \in BOOLEAN
      /\ refresh' = [refresh EXCEPT ![r] = [pc |-> "settle", seen |-> Empty]]
      /\ UNCHANGED <<log, torn, event, lost, timer, prev, notices>>
  BY DEF Project, IInv, TypeOK
<1>3. newest' \in Snapshot /\ newest' <= Present
  BY <1>1, <1>2
<1>4. TypeOK' /\ WritesFit'
  BY <1>1, <1>2, <1>3, BoundAssumption
  DEF IInv, TypeOK, WritesFit, Present, Snapshot, Empty
<1>5. NothingFromTheFuture'
  BY <1>1, <1>2, <1>3, BoundAssumption
  DEF IInv, TypeOK, NothingFromTheFuture, Present, Empty
<1>6. OnItsWay'
  <2>1. CASE mine = Present
    BY <1>1, <1>2, <2>1 DEF OnItsWay, Present, Snapshot
  <2>2. CASE newest = Present
    BY <1>1, <1>2, <2>2 DEF OnItsWay, Present, Snapshot
  <2>3. CASE torn \/ event \/ timer \/ lost
    BY <1>2, <2>3 DEF OnItsWay
  <2>4. ASSUME mine # Present, NEW q \in Refreshes,
               \/ refresh[q].pc = "read"
               \/ refresh[q].pc = "project" /\ refresh[q].seen = Present
        PROVE  OnItsWay'
    <3>1. q # r
      BY <2>4 DEF Project
    <3>2. refresh'[q] = refresh[q] /\ Present' = Present
      BY <1>2, <3>1 DEF IInv, TypeOK, Present
    <3> QED
      BY <2>4, <3>2 DEF OnItsWay
  <2> QED
    BY <2>1, <2>2, <2>3, <2>4 DEF IInv, OnItsWay
<1> QED
  BY <1>4, <1>5, <1>6 DEF IInv

LEMMA SettleIInv ==
    ASSUME IInv, NEW r \in Refreshes, Settle(r)
    PROVE  IInv'
<1>1. /\ refresh[r].pc = "settle"
      /\ refresh' = [refresh EXCEPT ![r].pc = "idle"]
      /\ UNCHANGED <<log, torn, event, lost, timer, view, newest, back>>
  BY DEF Settle
<1>2. Contents(view) \in [Tasks -> Status]
  BY ContentsTyped DEF IInv
<1>3. prev' \in [Tasks -> (Status \ {"absent"}) \cup {"unseen"}]
  BY <1>2 DEF Settle, IInv, TypeOK, Tracked
<1>4. notices' \in [Tasks -> Nat]
  <2>1. notices \in [Tasks -> Nat]
    BY DEF IInv, TypeOK
  <2>2. ASSUME NEW t \in Tasks
        PROVE  (notices[t] + IF NewlyFailed(t) THEN 1 ELSE 0) \in Nat
    BY <2>1
  <2> QED
    BY <2>1, <2>2 DEF Settle
<1>5. TypeOK' /\ WritesFit'
  BY <1>1, <1>3, <1>4 DEF IInv, TypeOK, WritesFit, Present
<1>6. NothingFromTheFuture'
  BY <1>1 DEF IInv, TypeOK, NothingFromTheFuture, Present
<1>7. OnItsWay'
  BY <1>1 DEF IInv, TypeOK, OnItsWay, Present
<1> QED
  BY <1>5, <1>6, <1>7 DEF IInv

LEMMA NextIInv == IInv /\ [Next]_vars => IInv'
<1> SUFFICES ASSUME IInv, [Next]_vars PROVE IInv'
  OBVIOUS
<1>1. CASE Truncate
  BY <1>1, TruncateIInv
<1>2. ASSUME NEW t \in Tasks, NEW s \in Status, Write(t, s) PROVE IInv'
  BY <1>2, WriteIInv
<1>3. CASE Deliver \/ Fallback
  BY <1>3, WatcherIInv
<1>4. ASSUME NEW r \in Watched, Fire(r) PROVE IInv'
  BY <1>4, BeginIInv DEF Refreshes
<1>5. ASSUME NEW r \in Asked, Ask(r) PROVE IInv'
  BY <1>5, BeginIInv DEF Refreshes
<1>6. ASSUME NEW r \in Refreshes, Progress(r) PROVE IInv'
  BY <1>6, ReadIInv, ProjectIInv, SettleIInv DEF Progress
<1>7. CASE UNCHANGED vars
  BY <1>7 DEF vars, IInv, TypeOK, WritesFit, NothingFromTheFuture, OnItsWay, Present
<1> QED
  BY <1>1, <1>2, <1>3, <1>4, <1>5, <1>6, <1>7 DEF Next

-----------------------------------------------------------------------------
(* Notices.  What the tracker remembers of a task is what some snapshot    *)
(* had, and the failures up to that snapshot are all it has notified.      *)

\* The contents up to k in which t has just failed.
FailedBy(t, k) == {i \in 2..k : log[i][t] = "failed" /\ log[i - 1][t] # "failed"}

\* Between a content in which t has not failed and one in which it has, it fails.
FailsBetween ==
    \A t \in Tasks, k, m \in 1..Present :
        k <= m /\ log[k][t] # "failed" /\ log[m][t] = "failed" => \E i \in FailedBy(t, m) : k < i

Remembers(t, k) ==
    /\ notices[t] <= Cardinality(FailedBy(t, k))
    /\ prev[t] \in Active => k # 0 /\ prev[t] = log[k][t]

InOrder ==
    /\ ~back => view \in {NoView, Empty, newest}
    /\ ~back => \A t \in Tasks : \E k \in 0..newest : Remembers(t, k)

NInv == IInv /\ FailsBetween /\ InOrder

LEMMA FailedByFinite ==
    ASSUME NEW t, NEW k \in Nat
    PROVE  IsFiniteSet(FailedBy(t, k)) /\ Cardinality(FailedBy(t, k)) \in Nat
<1>1. IsFiniteSet(2..k) /\ FailedBy(t, k) \in SUBSET (2..k)
  BY FS_Interval DEF FailedBy
<1> QED
  BY <1>1, FS_Subset, FS_CardinalityType

LEMMA FailedByGrows ==
    ASSUME NEW t, NEW k \in Nat, NEW m \in Nat, k <= m
    PROVE  Cardinality(FailedBy(t, k)) <= Cardinality(FailedBy(t, m))
<1>1. FailedBy(t, k) \in SUBSET FailedBy(t, m)
  BY DEF FailedBy
<1> QED
  BY <1>1, FailedByFinite, FS_Subset

\* One more failure after k.
LEMMA FailedByCounts ==
    ASSUME NEW t, NEW k \in Nat, NEW m \in Nat, k <= m, NEW i \in FailedBy(t, m), k < i
    PROVE  Cardinality(FailedBy(t, k)) + 1 <= Cardinality(FailedBy(t, m))
<1>1. /\ FailedBy(t, k) \cup {i} \in SUBSET FailedBy(t, m)
      /\ i \notin FailedBy(t, k)
  BY DEF FailedBy
<1>2. Cardinality(FailedBy(t, k) \cup {i}) = Cardinality(FailedBy(t, k)) + 1
  BY <1>1, FailedByFinite, FS_AddElement
<1>3. Cardinality(FailedBy(t, k) \cup {i}) <= Cardinality(FailedBy(t, m))
  BY <1>1, FailedByFinite, FS_Subset
<1> QED
  BY <1>2, <1>3

LEMMA InitNInv == Init => NInv
<1> SUFFICES ASSUME Init PROVE NInv
  OBVIOUS
<1>1. Present = 1 /\ newest = 0 /\ view = NoView
      /\ prev = [t \in Tasks |-> "unseen"] /\ notices = [t \in Tasks |-> 0]
  <2>1. PICK c \in [Tasks -> Status] : log = <<c>>
    BY DEF Init
  <2> QED
    BY <2>1 DEF Init, Present, Empty
<1>2. FailsBetween
  BY <1>1 DEF FailsBetween
<1>3. \A t \in Tasks : Remembers(t, 0)
  BY <1>1, FailedByFinite DEF Remembers, Active
<1>4. InOrder
  BY <1>1, <1>3 DEF InOrder
<1> QED
  BY <1>2, <1>4, InitIInv DEF NInv

\* Steps that neither write the file nor show or notify anything.
LEMMA OtherNInv ==
    ASSUME NInv, IInv', UNCHANGED <<log, view, prev, notices, newest, back>>
    PROVE  NInv'
  BY DEF NInv, FailsBetween, InOrder, Remembers, FailedBy, Present

LEMMA WriteNInv ==
    ASSUME NInv, NEW t \in Tasks, NEW s \in Status, Write(t, s)
    PROVE  NInv'
<1>1. /\ Present \in Nat \ {0} /\ newest \in 0..Present
      /\ log \in Seq([Tasks -> Status]) /\ Present = Len(log)
  BY DEF NInv, IInv, TypeOK, NothingFromTheFuture, Present, Snapshot
<1>2. /\ Present' = Present + 1
      /\ \A i \in 1..Present : log'[i] = log[i]
  BY <1>1 DEF Write, Present
<1>3. UNCHANGED <<view, prev, notices, newest, back>>
  BY DEF Write
<1>4. \A u \in Tasks, k \in 0..Present : FailedBy(u, k)' = FailedBy(u, k)
  BY <1>1, <1>2 DEF FailedBy
<1>5. InOrder'
  <2>1. \A u \in Tasks, k \in 0..newest : Remembers(u, k) => Remembers(u, k)'
    BY <1>1, <1>2, <1>3, <1>4 DEF Remembers
  <2> QED
    BY <1>3, <2>1 DEF NInv, InOrder
<1>6. FailsBetween'
  <2> SUFFICES ASSUME NEW u \in Tasks, NEW k \in 1..Present', NEW m \in 1..Present',
                      k <= m, log'[k][u] # "failed", log'[m][u] = "failed"
               PROVE  \E i \in FailedBy(u, m)' : k < i
    BY DEF FailsBetween
  <2>1. CASE m <= Present
    BY <1>1, <1>2, <1>4, <2>1 DEF NInv, FailsBetween
  <2>2. CASE m = Present + 1 /\ log[Present][u] = "failed"
    <3>1. k <= Present /\ k \in 1..Present /\ Present \in 1..Present
      BY <1>1, <1>2, <2>2
    <3>2. PICK i \in FailedBy(u, Present) : k < i
      BY <1>2, <2>2, <3>1 DEF NInv, FailsBetween
    <3>3. i \in FailedBy(u, m)'
      BY <1>1, <1>2, <2>2 DEF FailedBy
    <3> QED
      BY <3>2, <3>3
  <2>3. CASE m = Present + 1 /\ log[Present][u] # "failed"
    <3>1. m \in FailedBy(u, m)'
      BY <1>1, <1>2, <2>3 DEF FailedBy
    <3>2. k < m
      BY <1>1, <1>2, <2>3
    <3> QED
      BY <3>1, <3>2
  <2> QED
    BY <1>1, <1>2, <2>1, <2>2, <2>3
<1> QED
  BY <1>5, <1>6, WriteIInv DEF NInv

LEMMA ProjectNInv ==
    ASSUME NInv, NEW r \in Refreshes, Project(r)
    PROVE  NInv'
<1> DEFINE mine == refresh[r].seen
<1>1. /\ mine \in Nat /\ newest \in Nat
      /\ view' = mine /\ newest' = IF mine > newest THEN mine ELSE newest
      /\ back' = (back \/ (Empty < mine /\ mine < newest))
      /\ UNCHANGED <<log, prev, notices>>
  BY DEF NInv, IInv, TypeOK, Snapshot, Project
<1>2. FailsBetween'
  BY <1>1 DEF NInv, FailsBetween, FailedBy, Present
<1>3. ~back' => ~back /\ ~(Empty < mine /\ mine < newest)
  BY <1>1, Zenon
<1>4. newest <= newest' /\ newest' \in Nat
  BY <1>1
<1>5. ~(Empty < mine /\ mine < newest) => mine \in {NoView, Empty, newest'}
  BY <1>1 DEF Empty
<1>6. 0..newest \subseteq 0..newest'
  BY <1>1, <1>4
<1>7. ~back' => view' \in {NoView, Empty, newest'}
  BY <1>1, <1>3, <1>5, Zenon
<1>8. \A t \in Tasks, k \in Nat : Remembers(t, k)' = Remembers(t, k)
  BY <1>1 DEF Remembers, FailedBy
<1>9. ~back' => ~back /\ 0..newest \subseteq 0..newest'
  BY <1>3, <1>6, Zenon
<1>10. InOrder'
  BY <1>1, <1>7, <1>8, <1>9 DEF NInv, InOrder
<1> QED
  BY <1>2, <1>10, ProjectIInv DEF NInv

\* The tracker passes from what it remembers to the view, which is no older.
LEMMA SettleNInv ==
    ASSUME NInv, NEW r \in Refreshes, Settle(r)
    PROVE  NInv'
<1>1. UNCHANGED <<log, view, newest, back>>
  BY DEF Settle
<1>2. FailsBetween'
  BY <1>1 DEF NInv, FailsBetween, FailedBy, Present
<1>3. \A t \in Tasks, k \in Nat : FailedBy(t, k)' = FailedBy(t, k)
  BY <1>1 DEF FailedBy
<1>4. CASE r \in Asked
  <2>1. UNCHANGED <<prev, notices>>
    BY <1>4, SlotsAssumption DEF Settle
  <2> QED
    BY <1>1, <2>1, OtherNInv, SettleIInv DEF NInv
<1>5. CASE r \in Watched
  <2>1. /\ notices' = [t \in Tasks |-> notices[t] + IF NewlyFailed(t) THEN 1 ELSE 0]
        /\ prev' = [t \in Tasks |-> Tracked(t)]
    BY <1>5 DEF Settle
  <2>2. ASSUME ~back, NEW t \in Tasks PROVE \E k \in 0..newest : Remembers(t, k)'
    <3>1. PICK k \in 0..newest : Remembers(t, k)
      BY <2>2 DEF NInv, InOrder
    <3>2. newest \in 0..Present /\ Present \in Nat /\ notices[t] \in Nat
      BY DEF NInv, IInv, TypeOK, NothingFromTheFuture, Present, Snapshot
    <3>3. CASE view \in {NoView, Empty}
      <4>1. Contents(view)[t] = "absent"
        BY <3>3 DEF Contents
      <4>2. notices'[t] = notices[t] /\ prev'[t] = "unseen"
        BY <2>1, <3>2, <4>1 DEF NewlyFailed, Tracked
      <4> QED
        BY <1>3, <3>1, <3>2, <4>2 DEF Remembers, Active
    <3>4. CASE view = newest /\ view \notin {NoView, Empty}
      <4>1. newest # 0 /\ newest \in 1..Present /\ newest \in 0..newest
        BY <3>2, <3>4 DEF Empty
      <4>2. Contents(view)[t] = log[newest][t]
        BY <3>4 DEF Contents
      <4>3. prev'[t] \in Active => prev'[t] = log[newest][t]
        BY <2>1, <4>2 DEF Tracked, Active
      <4>4. Cardinality(FailedBy(t, k)) <= Cardinality(FailedBy(t, newest))
            /\ Cardinality(FailedBy(t, k)) \in Nat /\ Cardinality(FailedBy(t, newest)) \in Nat
        BY <3>1, <3>2, FailedByGrows, FailedByFinite
      <4>5. CASE NewlyFailed(t)
        <5>1. k # 0 /\ log[k][t] # "failed" /\ log[newest][t] = "failed"
          BY <3>1, <4>2, <4>5 DEF NewlyFailed, Remembers, Active
        <5>2. PICK i \in FailedBy(t, newest) : k < i
          BY <3>1, <3>2, <4>1, <5>1 DEF NInv, FailsBetween
        <5>3. Cardinality(FailedBy(t, k)) + 1 <= Cardinality(FailedBy(t, newest))
          BY <3>1, <3>2, <5>2, FailedByCounts
        <5>4. notices'[t] = notices[t] + 1
          BY <2>1, <4>5
        <5>5. notices'[t] <= Cardinality(FailedBy(t, newest))
          BY <3>1, <3>2, <4>4, <5>3, <5>4 DEF Remembers
        <5> QED
          BY <1>1, <1>3, <3>2, <4>1, <4>3, <5>5 DEF Remembers
      <4>6. CASE ~NewlyFailed(t)
        <5>1. notices'[t] = notices[t]
          BY <2>1, <3>2, <4>6
        <5>2. notices'[t] <= Cardinality(FailedBy(t, newest))
          BY <3>1, <3>2, <4>4, <5>1 DEF Remembers
        <5> QED
          BY <1>1, <1>3, <3>2, <4>1, <4>3, <5>2 DEF Remembers
      <4> QED
        BY <4>5, <4>6
    <3> QED
      BY <2>2, <3>3, <3>4 DEF NInv, InOrder
  <2>3. InOrder'
    BY <1>1, <2>2 DEF NInv, InOrder
  <2> QED
    BY <1>2, <2>3, SettleIInv DEF NInv
<1> QED
  BY <1>4, <1>5 DEF Refreshes

LEMMA NextNInv == NInv /\ [Next]_vars => NInv'
<1> SUFFICES ASSUME NInv, [Next]_vars PROVE NInv'
  OBVIOUS
<1>1. IInv'
  BY NextIInv DEF NInv
<1>2. CASE Truncate \/ Deliver \/ Fallback \/ UNCHANGED vars
  BY <1>1, <1>2, OtherNInv DEF Truncate, Deliver, Fallback, vars
<1>3. ASSUME NEW t \in Tasks, NEW s \in Status, Write(t, s) PROVE NInv'
  BY <1>3, WriteNInv
<1>4. ASSUME NEW r \in Refreshes, Fire(r) \/ Ask(r) \/ Read(r) PROVE NInv'
  BY <1>1, <1>4, OtherNInv DEF Fire, Ask, Read
<1>5. ASSUME NEW r \in Refreshes, Project(r) \/ Settle(r) PROVE NInv'
  BY <1>5, ProjectNInv, SettleNInv
<1> QED
  BY <1>2, <1>3, <1>4, <1>5 DEF Next, Progress, Refreshes

-----------------------------------------------------------------------------
(* What follows.                                                           *)

(* The variables keep their types in every behaviour.                      *)
THEOREM TypeCorrect == Spec => []TypeOK
<1>1. IInv => TypeOK
  BY DEF IInv
<1> QED
  BY <1>1, InitIInv, NextIInv, PTL DEF Spec

(* Unless an event of the watcher got lost, every change of tasks.yaml has *)
(* been shown by the time nothing is on its way any more, whatever the     *)
(* number of refreshes that overlap and whichever of them read a torn file.*)
THEOREM NothingMissed == Spec => []EveryChangeIsShown
<1>1. IInv => EveryChangeIsShown
  BY DEF IInv, OnItsWay, EveryChangeIsShown, Quiet
<1> QED
  BY <1>1, InitIInv, NextIInv, PTL DEF Spec

(* As long as refreshes finish in the order of their reads, torn or not, a *)
(* task is notified of no more failures than it has had since the start,   *)
(* whatever the number of refreshes, of the watcher and of commands.       *)
THEOREM NoticesAreOfFailures == Spec => []NoticesMatchFailures
<1>1. NInv => NoticesMatchFailures
  <2> SUFFICES ASSUME NInv, ~back, NEW t \in Tasks PROVE notices[t] <= Failures(t)
    BY DEF NoticesMatchFailures
  <2>1. PICK k \in 0..newest : Remembers(t, k)
    BY DEF NInv, InOrder
  <2>2. newest \in 0..Present /\ Present \in Nat /\ notices[t] \in Nat
    BY DEF NInv, IInv, TypeOK, NothingFromTheFuture, Present, Snapshot
  <2>3. Cardinality(FailedBy(t, k)) <= Cardinality(FailedBy(t, Present))
        /\ Cardinality(FailedBy(t, k)) \in Nat /\ Cardinality(FailedBy(t, Present)) \in Nat
    BY <2>1, <2>2, FailedByGrows, FailedByFinite
  <2> QED
    BY <2>1, <2>2, <2>3 DEF Remembers, Failures, FailedBy
<1> QED
  BY <1>1, InitNInv, NextNInv, PTL DEF Spec
=============================================================================
