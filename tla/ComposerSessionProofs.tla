----------------------- MODULE ComposerSessionProofs -----------------------
(***************************************************************************)
(* Proofs about ComposerSession, for any workspaces, any finite number of  *)
(* calls in flight, and any bounds on sessions and turns.                  *)
(*                                                                         *)
(* The inductive invariant has four layers, each of which uses those       *)
(* before it: Types, with what the objects in memory and the stages of the *)
(* calls are; Bindings, about threads and their turns; Registered, about   *)
(* the registry; and OneByOne, about calls that have not overlapped.  Each *)
(* has a lemma per action, and the last section reads the properties of    *)
(* ComposerSession off them.                                               *)
(***************************************************************************)
EXTENDS ComposerSession, FiniteSetTheorems, SequenceTheorems, TLAPS

-----------------------------------------------------------------------------
(* Types, in more detail than in TypeOK.                                   *)

MaybeIds == Ids \cup {None}
MaybePaths == Workspaces \cup {None}
MaybeSlots == Slots \cup {None}
Ops == {"start", "message", "finalize", "resume", "cancel", None}

ObjectShape == [id : MaybeIds, answers : 0..MaxTurns, ledger : MaybePaths]
ThreadShape == [db : MaybePaths, path : MaybePaths, bound : MaybeIds, agent : BOOLEAN,
                turns : Seq(Ids)]
CallShape == [op : Ops, pc : Pcs, id : MaybeIds, object : MaybeSlots, snap : Snapshots,
              found : MaybePaths \cup MaybeIds, seen : 0..MaxTurns, aborted : BOOLEAN,
              ledger : MaybeIds \cup {NewThread}, path : MaybePaths, agent : BOOLEAN]

Holding == {"attach", "prepare", "turn", "append", "summary", "bind"}
Named == Holding \cup {"previous", "register", "run", "hydrate", "forget", "cancel"}

\* What the fields of a call are at its stages.
Sound(r) ==
    /\ r.pc \in Holding <=> r.object # None
    /\ r.pc \in Named => r.id \in Ids
    /\ r.agent => r.ledger # None
    /\ r.ledger # None => r.path \in Workspaces
    /\ r.pc \in {"bind", "register", "previous"} => r.ledger # None
    /\ r.pc = "previous" => r.ledger # NewThread /\ r.found \in MaybeIds
    /\ r.pc \in {"previous", "register"} => r.agent
    /\ r.pc = "attach" => r.found \in MaybePaths
    /\ r.pc \in {"prepare", "turn"} => r.seen < MaxTurns

RestTyped ==
    /\ open \in MaybePaths
    /\ count \in 0..MaxSessions
    /\ calls \in 0..MaxCalls
    /\ aborts \in [Ids -> Calls \cup {None}]
    /\ meta \in [Ids -> MaybeIds]
    /\ stored \in [Workspaces -> Snapshots]
    /\ overlapped \in BOOLEAN
    /\ spoiled \subseteq Ids
    /\ acked \in [Ids -> Nat]

ThreadsTyped ==
    /\ thread \in [Ids -> ThreadShape]
    /\ \A t \in Ids : thread[t].db = None <=> thread[t] = NoThread

CallsTyped ==
    /\ call \in [Calls -> CallShape]
    /\ \A c \in Calls : Sound(call[c])

(* The objects in memory.  The map and the calls refer to objects of the   *)
(* session they are about; nothing else is kept.                           *)
MemorySound ==
    /\ object \in [Slots -> ObjectShape]
    /\ sessions \in [Ids -> MaybeSlots]
    /\ active \in MaybeIds
    /\ active # None => sessions[active] # None
    /\ \A s \in Ids : sessions[s] # None => object[sessions[s]].id = s
    /\ \A c \in Calls : call[c].object # None => object[call[c].object].id = call[c].id
    /\ \A o \in Slots : object[o].id \in Ids => o \in Referenced

Types == RestTyped /\ ThreadsTyped /\ CallsTyped /\ MemorySound

-----------------------------------------------------------------------------
(* Bindings.  A session that is being started is in no thread yet; one     *)
(* that is bound is bound to one thread and in the turns of no other.      *)
Starting(c) == call[c].pc \in {"previous", "register", "run", "bind"}
TurnsOf(t) == {thread[t].turns[i] : i \in DOMAIN thread[t].turns}

Bindings ==
    /\ \A t \in Ids : thread[t].bound # None => thread[t].bound <= count
    /\ \A t \in Ids : \A s \in TurnsOf(t) : s <= count
    /\ \A c \in Calls : Starting(c) =>
         /\ call[c].id <= count
         /\ \A t \in Ids : thread[t].bound # call[c].id /\ call[c].id \notin TurnsOf(t)
         /\ \A k \in Calls : Starting(k) /\ call[k].id = call[c].id => k = c
    /\ \A t, u \in Ids : thread[t].bound # None /\ thread[t].bound = thread[u].bound => t = u
    /\ \A t, u \in Ids : t # u => /\ thread[u].bound \notin TurnsOf(t)
                                  /\ TurnsOf(t) \cap TurnsOf(u) = {}
    /\ \A t \in Ids : LET q == thread[t].turns IN
         /\ \A i, k \in DOMAIN q : q[i] = q[k] => \A j \in i..k : q[j] = q[i]
         /\ \A i \in DOMAIN q : q[i] = thread[t].bound => \A j \in i..Len(q) : q[j] = q[i]

(* The registry.  What a restart will unregister is bound to its thread,   *)
(* if to any, and is none of those being started.                          *)
Registered ==
    /\ \A t \in Ids \ spoiled :
         thread[t].agent /\ thread[t].bound # None => meta[thread[t].bound] = t
    /\ \A c \in Calls : call[c].pc \in {"run", "bind"} /\ call[c].agent =>
         meta[call[c].id] = Registration(call[c])
    /\ \A c \in Calls : call[c].pc = "previous" /\ call[c].found # None =>
         /\ call[c].found <= count
         /\ \A t \in Ids : thread[t].bound = call[c].found => t = call[c].ledger
         /\ \A k \in Calls : Starting(k) => call[k].id # call[c].found

-----------------------------------------------------------------------------
(* Calls one after the other.                                              *)
CountIn(s, t) == Cardinality({i \in DOMAIN thread[t].turns : thread[t].turns[i] = s})
Unbound(s) == \A t \in Ids : thread[t].bound # s
Unused(s) == acked[s] = 0 /\ sessions[s] = None /\ \A w \in Workspaces : stored[w].id # s

\* What is so at any moment.
AtHome ==
    /\ \A t \in Ids : thread[t].path = thread[t].db
    /\ \A w \in Workspaces, t \in Ids :
         stored[w].id # None /\ stored[w].id = thread[t].bound => thread[t].db = w
    /\ \A w, v \in Workspaces : stored[w].id # None /\ stored[w].id = stored[v].id => w = v
    /\ \A s \in Ids : s > count => Unused(s)
    /\ \A s \in Ids : sessions[s] # None => s = active
    /\ active # None => open # None
    /\ \A w \in Workspaces : stored[w].id # None => acked[stored[w].id] <= stored[w].answers
    /\ \A t \in Ids : thread[t].bound # None =>
         acked[thread[t].bound] = CountIn(thread[t].bound, t)

InStore == active # None => stored[open] = SnapshotOf(object[sessions[active]])

\* What is so of the call under way.
OnlyCall(c) ==
    LET r == call[c] IN
    /\ \A k \in InFlight : k = c
    /\ open # None
    /\ r.path \in {None, open}
    /\ r.pc # "begin" => InStore
    /\ r.pc = "begin" => stored[open] = NoSnapshot
    /\ r.pc \in {"draft", "hydrate", "cancel"} => r.snap = stored[open]
    /\ r.pc \in {"profile", "previous", "register", "run"} => active = None
    /\ r.pc \in {"previous", "register", "run"} => Unused(r.id)
    /\ r.pc \in Holding => r.object = sessions[r.id]
    /\ r.pc = "attach" => r.found = IF object[r.object].ledger = None THEN WorkspaceOf(r.id) ELSE None
    /\ r.pc \in {"prepare", "turn", "append", "summary"} =>
         object[r.object].ledger # None \/ Unbound(r.id)
    /\ r.pc \in {"prepare", "turn"} => r.seen = object[r.object].answers
    /\ r.pc = "append" => acked[r.id] < object[r.object].answers
    /\ r.pc = "bind" => acked[r.id] = 0
    /\ r.pc = "forget" => active = r.id
    /\ r.pc = "cancel" => sessions[r.id] = None

OneByOne ==
    /\ \A s \in Ids : acked[s] <= MaxTurns
    /\ ~overlapped =>
         /\ AtHome
         /\ InFlight = {} => InStore
         /\ \A c \in InFlight : OnlyCall(c)

-----------------------------------------------------------------------------
(* Lemmas about the objects and the calls.                                 *)

LEMMA Constants ==
    /\ MaxSessions \in Nat \ {0} /\ MaxTurns \in Nat \ {0} /\ MaxCalls \in Nat \ {0}
    /\ Cardinality(Calls) \in Nat
    /\ None \notin Ids \cup Slots \cup Workspaces \cup Calls \cup {NewThread}
    /\ NewThread \notin Ids
<1>1. MaxSessions \in Nat \ {0} /\ MaxTurns \in Nat \ {0} /\ MaxCalls \in Nat \ {0}
  BY BoundsAssumption
<1>2. Cardinality(Calls) \in Nat
  BY CallsAssumption, FS_CardinalityType
<1> QED
  BY <1>1, <1>2, NoneAssumption DEF Ids, Slots, NewThread

(* There are more slots than sessions and calls can refer to, so as long   *)
(* as a call holds none there is a free one.                               *)
LEMMA FreeSlotIsFree ==
    ASSUME sessions \in [Ids -> MaybeSlots], NEW c \in Calls, call[c].object = None
    PROVE  FreeSlot \in Slots /\ FreeSlot \notin Referenced
<1> DEFINE others == Calls \ {c}
           held == [k \in others |-> call[k].object]
           S1 == {sessions[s] : s \in Ids}
           S2 == {held[k] : k \in others}
<1>1. IsFiniteSet(Ids) /\ Cardinality(Ids) = MaxSessions
  BY Constants, FS_Interval DEF Ids
<1>2. IsFiniteSet(S1) /\ Cardinality(S1) <= MaxSessions
  <2>1. sessions \in Surjection(Ids, S1)
    BY DEF Surjection
  <2> HIDE DEF S1
  <2> QED
    BY <1>1, <2>1, FS_Surjection
<1>3. IsFiniteSet(others) /\ Cardinality(others) = Cardinality(Calls) - 1
  BY CallsAssumption, FS_RemoveElement
<1>4. IsFiniteSet(S2) /\ Cardinality(S2) <= Cardinality(Calls) - 1
  <2>1. held \in Surjection(others, S2)
    BY DEF Surjection
  <2> HIDE DEF S2, held, others
  <2> QED
    BY <1>3, <2>1, FS_Surjection
<1>5. Referenced \subseteq S1 \cup S2 \cup {None}
  BY DEF Referenced
<1> HIDE DEF S1, S2
<1>6. IsFiniteSet(S1 \cup S2) /\ Cardinality(S1 \cup S2) < MaxSessions + Cardinality(Calls)
  <2>1. IsFiniteSet(S1 \cap S2) /\ Cardinality(S1 \cap S2) \in Nat
    BY <1>2, FS_Subset, FS_CardinalityType
  <2>2. Cardinality(S1) \in Nat /\ Cardinality(S2) \in Nat
    BY <1>2, <1>4, FS_CardinalityType
  <2> QED
    BY <1>2, <1>4, <2>1, <2>2, FS_Union, Constants
<1>7. Cardinality(Slots) = MaxSessions + Cardinality(Calls)
  BY Constants, FS_Interval DEF Slots
<1>8. ~(Slots \subseteq S1 \cup S2)
  BY <1>6, <1>7, FS_Subset, FS_CardinalityType, Constants
<1>9. \E o \in Slots : o \notin Referenced
  BY <1>5, <1>8, Constants
<1> QED
  BY <1>9 DEF FreeSlot

LEMMA NothingTyped ==
    /\ NoObject \in ObjectShape /\ NoObject.id = None
    /\ NoSnapshot \in Snapshots /\ NoSnapshot.id = None
    /\ NoCall \in CallShape /\ Sound(NoCall) /\ NoCall.object = None
    /\ NoThread \in ThreadShape /\ NoThread.db = None
<1> USE Constants
<1>1. NoObject \in ObjectShape /\ NoObject.id = None
  BY DEF NoObject, ObjectShape, MaybeIds, MaybePaths
<1>2. NoSnapshot \in Snapshots /\ NoSnapshot.id = None
  BY DEF NoSnapshot, Snapshots
<1>3. NoCall \in CallShape /\ NoCall.object = None /\ NoCall.pc = "idle"
  BY <1>2 DEF NoCall, CallShape, Ops, Pcs, MaybeIds, MaybePaths, MaybeSlots
<1>4. Sound(NoCall)
  BY <1>3 DEF Sound, Holding, Named, NoCall
<1>5. NoThread \in ThreadShape /\ NoThread.db = None
  BY DEF NoThread, ThreadShape, MaybeIds, MaybePaths
<1> QED
  BY <1>1, <1>2, <1>3, <1>4, <1>5

\* A call that goes on.
LEMMA CallStep ==
    ASSUME CallsTyped, NEW c \in Calls, NEW r \in CallShape, Sound(r), GoOn(c, r)
    PROVE  CallsTyped' /\ call'[c] = r /\ \A k \in Calls \ {c} : call'[k] = call[k]
  BY DEF CallsTyped, GoOn

LEMMA EndStep ==
    ASSUME CallsTyped, NEW c \in Calls, End(c)
    PROVE  CallsTyped' /\ call'[c] = NoCall /\ \A k \in Calls \ {c} : call'[k] = call[k]
  BY NothingTyped DEF CallsTyped, End

\* After a change of the objects into objs, those that are referred to are there.
LEMMA MemoryStep ==
    ASSUME NEW objs \in [Slots -> ObjectShape], Objects(objs), CallsTyped',
           sessions' \in [Ids -> MaybeSlots], active' \in MaybeIds,
           active' # None => sessions'[active'] # None,
           \A s \in Ids : sessions'[s] # None => objs[sessions'[s]].id = s,
           \A c \in Calls : call'[c].object # None => objs[call'[c].object].id = call'[c].id
    PROVE  /\ MemorySound'
           /\ \A s \in Ids : sessions'[s] # None => object'[sessions'[s]] = objs[sessions'[s]]
           /\ \A c \in Calls : call'[c].object # None =>
                object'[call'[c].object] = objs[call'[c].object]
<1>1. object' = [o \in Slots |-> IF o \in Referenced' THEN objs[o] ELSE NoObject]
  BY DEF Objects
<1>2. \A s \in Ids : sessions'[s] \in Referenced' /\ (sessions'[s] # None => sessions'[s] \in Slots)
  BY DEF Referenced, MaybeSlots
<1>3. \A c \in Calls : /\ call'[c].object \in Referenced'
                       /\ call'[c].object # None => call'[c].object \in Slots
  BY DEF Referenced, CallsTyped, CallShape, MaybeSlots
<1>4. object' \in [Slots -> ObjectShape]
  BY <1>1, NothingTyped
<1>5. \A s \in Ids : sessions'[s] # None => object'[sessions'[s]] = objs[sessions'[s]]
  BY <1>1, <1>2
<1>6. \A c \in Calls : call'[c].object # None => object'[call'[c].object] = objs[call'[c].object]
  BY <1>1, <1>3
<1>7. \A o \in Slots : object'[o].id \in Ids => o \in Referenced'
  BY <1>1, NothingTyped, Constants
<1> QED
  BY <1>4, <1>5, <1>6, <1>7 DEF MemorySound

\* A call that changes without the memory refers to the same object, or to one of the map.
LEMMA MemoryKept ==
    ASSUME MemorySound, UNCHANGED memory, CallsTyped,
           \A c \in Calls :
             \/ call'[c].object = call[c].object
                /\ (call[c].object # None => call'[c].id = call[c].id)
             \/ call[c].object = None /\ call'[c].id \in Ids
                /\ call'[c].object = sessions[call'[c].id]
    PROVE  MemorySound'
<1>1. \A o : o \in Referenced /\ o # None => o \in Referenced'
  BY DEF Referenced, memory
<1>2. \A o \in Slots : object[o].id \in Ids => o \in Referenced'
  BY <1>1, Constants DEF MemorySound
<1>3. \A c \in Calls : call'[c].object # None => object[call'[c].object].id = call'[c].id
  BY DEF MemorySound
<1> QED
  BY <1>2, <1>3 DEF MemorySound, memory

-----------------------------------------------------------------------------
(* Types, action by action.                                                *)

(* A service that has just been built holds nothing (the constructor of    *)
(* ComposerAssistantService), which is of the right type.                  *)
THEOREM InitTypes == Init => Types
<1> SUFFICES ASSUME Init
             PROVE  Types
  OBVIOUS
<1> USE Constants, NothingTyped
<1>1. RestTyped
  <2>1. open \in MaybePaths /\ count \in 0..MaxSessions /\ calls \in 0..MaxCalls
    BY DEF Init, MaybePaths
  <2>2. aborts \in [Ids -> Calls \cup {None}] /\ meta \in [Ids -> MaybeIds]
    BY DEF Init, MaybeIds
  <2>3. stored \in [Workspaces -> Snapshots]
    BY DEF Init
  <2>4. overlapped \in BOOLEAN /\ spoiled \subseteq Ids /\ acked \in [Ids -> Nat]
    BY DEF Init
  <2> QED
    BY <2>1, <2>2, <2>3, <2>4 DEF RestTyped
<1>2. ThreadsTyped
  BY DEF Init, ThreadsTyped
<1>3. CallsTyped
  BY DEF Init, CallsTyped
<1>4. MemorySound
  BY DEF Init, MemorySound, MaybeIds, MaybeSlots
<1> QED
  BY <1>1, <1>2, <1>3, <1>4 DEF Types

LEMMA StoreStep ==
    ASSUME RestTyped, NEW snapshot \in Snapshots, Store(snapshot)
    PROVE  stored' \in [Workspaces -> Snapshots]
  BY DEF RestTyped, Store

LEMMA SnapshotTyped ==
    ASSUME NEW obj \in ObjectShape
    PROVE  SnapshotOf(obj) \in Snapshots
  BY DEF SnapshotOf, ObjectShape, Snapshots, MaybeIds

LEMMA MeetStep ==
    ASSUME RestTyped, Meet
    PROVE  overlapped' \in BOOLEAN /\ acked' \in [Ids -> Nat]
  BY DEF RestTyped, Meet

LEMMA CountedStep ==
    ASSUME RestTyped, Counted
    PROVE  calls' \in 0..MaxCalls
  BY Constants DEF RestTyped, Counted

LEMMA ThreadsKept ==
    ASSUME ThreadsTyped, UNCHANGED thread
    PROVE  ThreadsTyped'
  BY DEF ThreadsTyped

LEMMA WorkspaceFound ==
    ASSUME ThreadsTyped, NEW s
    PROVE  WorkspaceOf(s) \in MaybePaths
<1> DEFINE rows == {t \in Ids : thread[t].db = open /\ thread[t].bound = s}
<1>1. CASE rows = {}
  BY <1>1 DEF WorkspaceOf, MaybePaths
<1>2. CASE rows # {}
  <2>1. PICK t : t = CHOOSE u \in rows : TRUE
    OBVIOUS
  <2>2. t \in Ids
    BY <1>2, <2>1
  <2>3. WorkspaceOf(s) = thread[t].path
    BY <1>2, <2>1 DEF WorkspaceOf
  <2> QED
    BY <2>2, <2>3 DEF ThreadsTyped, ThreadShape
<1> QED
  BY <1>1, <1>2

\* The call with which resume goes on, or begins.
LEMMA ResumingTyped ==
    ASSUME Types, open # None, NEW r \in CallShape, Sound(r), r.object = None, NEW s \in Ids
    PROVE  /\ Resuming(r, s) \in CallShape
           /\ Sound(Resuming(r, s))
           /\ Resuming(r, s).id = s
           /\ Resuming(r, s).object \in {None, sessions[s]}
<1> USE Constants
<1>1. open \in Workspaces /\ stored[open] \in Snapshots
  BY DEF Types, RestTyped, MaybePaths
<1>2. s \in MaybeIds
  BY DEF MaybeIds
<1>3. CASE active = s /\ sessions[s] # None
  <2>1. PICK found : found = IF object[sessions[s]].ledger = None THEN WorkspaceOf(s) ELSE None
    OBVIOUS
  <2>2. found \in MaybePaths
    BY <2>1, WorkspaceFound DEF Types, MaybePaths
  <2>3. PICK l : l = [r EXCEPT !.op = "resume", !.id = s, !.pc = "attach",
                               !.object = sessions[s], !.found = found]
    OBVIOUS
  <2>4. Resuming(r, s) = l
    BY <1>3, <2>1, <2>3 DEF Resuming
  <2>5. sessions[s] \in MaybeSlots
    BY DEF Types, MemorySound
  <2>6. l \in CallShape
    BY <1>2, <2>2, <2>3, <2>5 DEF CallShape, Ops, Pcs
  <2>7. l.id = s /\ l.object = sessions[s] /\ l.pc = "attach" /\ l.found = found
        /\ l.agent = r.agent /\ l.ledger = r.ledger /\ l.path = r.path
    BY <2>3 DEF CallShape
  <2>8. Sound(l)
    BY <1>3, <2>2, <2>7 DEF Sound, Holding, Named
  <2> QED
    BY <2>4, <2>6, <2>7, <2>8
<1>4. CASE ~(active = s /\ sessions[s] # None)
  <2>3. PICK l : l = [r EXCEPT !.op = "resume", !.id = s, !.pc = "hydrate",
                               !.snap = stored[open]]
    OBVIOUS
  <2>4. Resuming(r, s) = l
    BY <1>4, <2>3 DEF Resuming
  <2>6. l \in CallShape
    BY <1>1, <1>2, <2>3 DEF CallShape, Ops, Pcs
  <2>7. l.id = s /\ l.object = None /\ l.pc = "hydrate"
        /\ l.agent = r.agent /\ l.ledger = r.ledger /\ l.path = r.path
    BY <2>3 DEF CallShape
  <2>8. Sound(l)
    BY <2>7 DEF Sound, Holding, Named
  <2> QED
    BY <2>4, <2>6, <2>7, <2>8
<1> QED
  BY <1>3, <1>4

\* A call begins.
LEMMA BeginStep ==
    ASSUME Types, NEW c \in Calls, NEW r \in CallShape, Sound(r), Begin(c, r),
           r.object = None \/ (r.id \in Ids /\ r.object = sessions[r.id]),
           stored' \in [Workspaces -> Snapshots],
           UNCHANGED <<open, count, memory, aborts, meta, thread, spoiled>>
    PROVE  Types'
<1>1. call[c].pc = "idle" /\ GoOn(c, r) /\ Counted /\ Meet
  BY DEF Begin
<1>2. RestTyped'
  BY <1>1, MeetStep, CountedStep DEF Types, RestTyped
<1>3. ThreadsTyped'
  BY ThreadsKept DEF Types
<1>4. CallsTyped' /\ call'[c] = r /\ \A k \in Calls \ {c} : call'[k] = call[k]
  BY <1>1, CallStep DEF Types
<1>5. call[c].object = None
  BY <1>1 DEF Types, CallsTyped, Sound, Holding
<1>6. MemorySound'
  BY <1>4, <1>5, MemoryKept DEF Types
<1> QED
  BY <1>2, <1>3, <1>4, <1>6 DEF Types

LEMMA StartChatTypes ==
    ASSUME Types, NEW c \in Calls, NEW t \in Ids \cup {NewThread}, NEW agent \in BOOLEAN,
           StartChat(c, t, agent)
    PROVE  Types'
<1> USE Constants, NothingTyped
<1>1. PICK r : r = [NoCall EXCEPT !.op = "start", !.pc = "begin", !.ledger = t, !.path = open,
                                  !.agent = agent]
  OBVIOUS
<1>2. Begin(c, r) /\ Store(NoSnapshot)
  BY <1>1 DEF StartChat
<1>3. open \in Workspaces
  BY <1>2 DEF Begin, Types, RestTyped, MaybePaths
<1>4. r \in CallShape
  BY <1>1, <1>3 DEF CallShape, Ops, Pcs, MaybeIds, MaybePaths
<1>5. r.object = None /\ r.pc = "begin" /\ r.ledger = t /\ r.path = open
  BY <1>1 DEF CallShape
<1>6. Sound(r)
  BY <1>3, <1>5 DEF Sound, Holding, Named
<1>7. stored' \in [Workspaces -> Snapshots]
  BY <1>2, StoreStep DEF Types
<1> QED
  BY <1>2, <1>4, <1>5, <1>6, <1>7, BeginStep DEF StartChat

LEMMA StartAssistTypes ==
    ASSUME Types, NEW c \in Calls, StartAssist(c)
    PROVE  Types'
<1> USE Constants, NothingTyped
<1>1. UNCHANGED <<open, count, memory, aborts, meta, thread, spoiled>>
  BY DEF StartAssist
<1>2. CASE /\ Begin(c, [NoCall EXCEPT !.op = "start", !.pc = "begin"])
           /\ Store(NoSnapshot)
  <2>1. PICK r : r = [NoCall EXCEPT !.op = "start", !.pc = "begin"]
    OBVIOUS
  <2>2. r \in CallShape
    BY <2>1 DEF CallShape, Ops, Pcs
  <2>3. r.object = None /\ r.pc = "begin" /\ r.ledger = NoCall.ledger /\ r.agent = NoCall.agent
    BY <2>1 DEF CallShape
  <2>4. Sound(r)
    BY <2>3 DEF Sound, Holding, Named, NoCall
  <2>5. stored' \in [Workspaces -> Snapshots]
    BY <1>2, StoreStep DEF Types
  <2> QED
    BY <1>1, <1>2, <2>1, <2>2, <2>3, <2>4, <2>5, BeginStep
<1>3. CASE /\ Begin(c, [NoCall EXCEPT !.op = "start", !.pc = "draft", !.snap = stored[open]])
           /\ UNCHANGED stored
  <2>1. PICK r : r = [NoCall EXCEPT !.op = "start", !.pc = "draft", !.snap = stored[open]]
    OBVIOUS
  <2>2. stored[open] \in Snapshots
    BY <1>3 DEF Begin, Types, RestTyped, MaybePaths
  <2>3. r \in CallShape
    BY <2>1, <2>2 DEF CallShape, Ops, Pcs
  <2>4. r.object = None /\ r.pc = "draft" /\ r.ledger = NoCall.ledger /\ r.agent = NoCall.agent
    BY <2>1 DEF CallShape
  <2>5. Sound(r)
    BY <2>4 DEF Sound, Holding, Named, NoCall
  <2>6. stored' \in [Workspaces -> Snapshots]
    BY <1>3 DEF Types, RestTyped
  <2> QED
    BY <1>1, <1>3, <2>1, <2>3, <2>4, <2>5, <2>6, BeginStep
<1> QED
  BY <1>2, <1>3 DEF StartAssist

LEMMA UseTypes ==
    ASSUME Types, NEW c \in Calls, NEW op, NEW s \in Ids, Use(c, op, s)
    PROVE  Types'
<1> USE Constants, NothingTyped
<1>1. PICK r : r = [NoCall EXCEPT !.op = op, !.pc = "hydrate", !.id = s, !.snap = stored[open]]
  OBVIOUS
<1>2. Begin(c, r) /\ op \in Ops
  BY <1>1 DEF Use, Ops
<1>3. stored[open] \in Snapshots
  BY <1>2 DEF Begin, Types, RestTyped, MaybePaths
<1>4. r \in CallShape
  BY <1>1, <1>2, <1>3 DEF CallShape, Pcs, MaybeIds
<1>5. r.object = None /\ r.pc = "hydrate" /\ r.id = s /\ r.ledger = NoCall.ledger
      /\ r.agent = NoCall.agent
  BY <1>1 DEF CallShape
<1>6. Sound(r)
  BY <1>5 DEF Sound, Holding, Named, NoCall
<1>7. stored' \in [Workspaces -> Snapshots]
  BY DEF Types, RestTyped, Use
<1> QED
  BY <1>2, <1>4, <1>5, <1>6, <1>7, BeginStep DEF Use

LEMMA ResumeTypes ==
    ASSUME Types, NEW c \in Calls, NEW s \in Ids, Resume(c, s)
    PROVE  Types'
<1>1. PICK r : r = Resuming(NoCall, s)
  OBVIOUS
<1>2. Begin(c, r)
  BY <1>1 DEF Resume
<1>3. open # None
  BY <1>2 DEF Begin
<1>4. r \in CallShape /\ Sound(r) /\ r.id = s /\ r.object \in {None, sessions[s]}
  BY <1>1, <1>3, NothingTyped, ResumingTyped
<1>5. stored' \in [Workspaces -> Snapshots]
  BY DEF Types, RestTyped, Resume
<1> QED
  BY <1>2, <1>4, <1>5, BeginStep DEF Resume

LEMMA CancelStoredTypes ==
    ASSUME Types, NEW c \in Calls, NEW s \in Ids, CancelStored(c, s)
    PROVE  Types'
<1> USE Constants, NothingTyped
<1>1. PICK r : r = [NoCall EXCEPT !.op = "cancel", !.pc = "cancel", !.id = s,
                                  !.snap = stored[open]]
  OBVIOUS
<1>2. Begin(c, r)
  BY <1>1 DEF CancelStored
<1>3. stored[open] \in Snapshots
  BY <1>2 DEF Begin, Types, RestTyped, MaybePaths
<1>4. r \in CallShape
  BY <1>1, <1>2, <1>3 DEF CallShape, Ops, Pcs, MaybeIds
<1>5. r.object = None /\ r.pc = "cancel" /\ r.id = s /\ r.ledger = NoCall.ledger
      /\ r.agent = NoCall.agent
  BY <1>1 DEF CallShape
<1>6. Sound(r)
  BY <1>5 DEF Sound, Holding, Named, NoCall
<1>7. stored' \in [Workspaces -> Snapshots]
  BY DEF Types, RestTyped, CancelStored
<1> QED
  BY <1>2, <1>4, <1>5, <1>6, <1>7, BeginStep DEF CancelStored

\* The map with one object more, or less.
LEMMA WithoutTyped ==
    ASSUME MemorySound
    PROVE  /\ WithoutActive \in [Ids -> MaybeSlots]
           /\ \A s \in Ids : WithoutActive[s] \in {sessions[s], None}
           /\ \A s \in Ids : Without(s) \in [Ids -> MaybeSlots]
           /\ \A s, u \in Ids : Without(s)[u] = IF u = s THEN None ELSE sessions[u]
  BY DEF MemorySound, Without, WithoutActive, MaybeSlots

LEMMA ForgetStep ==
    ASSUME RestTyped, MemorySound, CallsTyped', NEW s \in Ids, Forget(s), Objects(object),
           \A c \in Calls : call'[c].object # None => object[call'[c].object].id = call'[c].id
    PROVE  MemorySound' /\ stored' \in [Workspaces -> Snapshots]
<1> USE Constants, NothingTyped
<1>1. sessions' = Without(s) /\ active' = (IF active = s THEN None ELSE active)
      /\ Store(NoSnapshot)
  BY DEF Forget
<1>2. sessions' \in [Ids -> MaybeSlots] /\ active' \in MaybeIds
  BY <1>1, WithoutTyped DEF MemorySound, MaybeIds
<1>3. active' # None => sessions'[active'] # None
  BY <1>1, WithoutTyped DEF MemorySound, MaybeIds
<1>4. \A u \in Ids : sessions'[u] # None => object[sessions'[u]].id = u
  BY <1>1, WithoutTyped DEF MemorySound
<1>5. object \in [Slots -> ObjectShape]
  BY DEF MemorySound
<1>6. MemorySound'
  BY <1>2, <1>3, <1>4, <1>5, MemoryStep
<1> QED
  BY <1>1, <1>6, StoreStep

LEMMA CancelNowTypes ==
    ASSUME Types, NEW s \in Ids, CancelNow(s)
    PROVE  Types'
<1>1. CallsTyped' /\ ThreadsTyped'
  BY DEF Types, CancelNow, CallsTyped, ThreadsTyped
<1>2. \A c \in Calls : call'[c].object # None => object[call'[c].object].id = call'[c].id
  BY DEF CancelNow, Types, MemorySound
<1>3. MemorySound' /\ stored' \in [Workspaces -> Snapshots]
  BY <1>1, <1>2, ForgetStep DEF Types, CancelNow
<1>4. RestTyped'
  BY <1>3, MeetStep DEF Types, RestTyped, CancelNow
<1> QED
  BY <1>1, <1>3, <1>4 DEF Types

\* What the calls are about does not change.
OnlyAborts ==
    \A c \in Calls :
        LET r == call[c]
            l == call'[c]
        IN  /\ l.op = r.op /\ l.pc = r.pc /\ l.id = r.id /\ l.object = r.object
            /\ l.snap = r.snap /\ l.found = r.found /\ l.seen = r.seen
            /\ l.ledger = r.ledger /\ l.path = r.path /\ l.agent = r.agent

LEMMA SameCalls ==
    ASSUME CallsTyped, call' = [c \in Calls |-> call'[c]],
           \A c \in Calls : \E b \in BOOLEAN : call'[c] = [call[c] EXCEPT !.aborted = b]
    PROVE  /\ CallsTyped'
           /\ OnlyAborts
<1>1. \A c \in Calls :
        LET r == call[c]
            l == call'[c]
        IN  /\ l \in CallShape
            /\ l.op = r.op /\ l.pc = r.pc /\ l.id = r.id /\ l.object = r.object
            /\ l.snap = r.snap /\ l.found = r.found /\ l.seen = r.seen
            /\ l.ledger = r.ledger /\ l.path = r.path /\ l.agent = r.agent
  BY DEF CallsTyped, CallShape
<1>2. \A c \in Calls : Sound(call'[c])
  <2>1. SUFFICES ASSUME NEW c \in Calls
                 PROVE  Sound(call'[c])
    OBVIOUS
  <2>2. Sound(call[c])
    BY DEF CallsTyped
  <2>3. PICK r, l : r = call[c] /\ l = call'[c]
    OBVIOUS
  <2>4. /\ l.op = r.op /\ l.pc = r.pc /\ l.id = r.id /\ l.object = r.object /\ l.found = r.found
        /\ l.seen = r.seen /\ l.ledger = r.ledger /\ l.path = r.path /\ l.agent = r.agent
    BY <1>1, <2>3
  <2>5. Sound(r)
    BY <2>2, <2>3
  <2>6. Sound(l)
    BY <2>4, <2>5 DEF Sound
  <2> QED
    BY <2>3, <2>6
<1>3. call' \in [Calls -> CallShape]
  BY <1>1
<1> QED
  BY <1>1, <1>2, <1>3 DEF CallsTyped, OnlyAborts

LEMMA InterruptTypes ==
    ASSUME Types, NEW s \in Ids, Interrupt(s)
    PROVE  /\ Types'
           /\ OnlyAborts
<1>1. aborts[s] \in Calls /\ call' = [call EXCEPT ![aborts[s]].aborted = TRUE]
  BY DEF Interrupt, Types, RestTyped
<1>2. \A c \in Calls : call[c].aborted \in BOOLEAN
                       /\ call[c] = [call[c] EXCEPT !.aborted = call[c].aborted]
  BY DEF Types, CallsTyped, CallShape
<1>3. \A c \in Calls : \E b \in BOOLEAN : call'[c] = [call[c] EXCEPT !.aborted = b]
  <2>1. SUFFICES ASSUME NEW c \in Calls
                 PROVE  \E b \in BOOLEAN : call'[c] = [call[c] EXCEPT !.aborted = b]
    OBVIOUS
  <2>2. CASE c = aborts[s]
    <3>1. call'[c] = [call[c] EXCEPT !.aborted = TRUE]
      BY <1>1, <2>2 DEF Types, CallsTyped
    <3> QED
      BY <3>1
  <2>3. CASE c # aborts[s]
    <3>1. call'[c] = call[c]
      BY <1>1, <2>3 DEF Types, CallsTyped
    <3> QED
      BY <1>2, <3>1
  <2> QED
    BY <2>2, <2>3
<1>4. call' = [c \in Calls |-> call'[c]]
  BY <1>1 DEF Types, CallsTyped
<1>5. CallsTyped'
      /\ OnlyAborts
  BY <1>3, <1>4, SameCalls DEF Types
<1>6. RestTyped' /\ ThreadsTyped'
  BY DEF Types, RestTyped, ThreadsTyped, Interrupt, history
<1>7. MemorySound'
  BY <1>5, MemoryKept DEF Types, Interrupt, OnlyAborts
<1> QED
  BY <1>5, <1>6, <1>7 DEF Types

LEMMA OpenTypes ==
    ASSUME Types, NEW w \in Workspaces, OpenWorkspace(w)
    PROVE  Types'
<1>1. RestTyped'
  BY MeetStep DEF Types, RestTyped, OpenWorkspace, MaybePaths
<1>2. ThreadsTyped' /\ CallsTyped'
  BY DEF Types, ThreadsTyped, CallsTyped, OpenWorkspace
<1>3. MemorySound'
  BY <1>2, MemoryKept DEF Types, OpenWorkspace
<1> QED
  BY <1>1, <1>2, <1>3 DEF Types

LEMMA CloseTypes ==
    ASSUME Types, CloseWorkspace
    PROVE  /\ Types'
           /\ OnlyAborts
<1>1. call' = [c \in Calls |->
                 [call[c] EXCEPT !.aborted = @ \/ \E s \in Ids : aborts[s] = c]]
  BY DEF CloseWorkspace
<1>2. \A c \in Calls : \E b \in BOOLEAN : call'[c] = [call[c] EXCEPT !.aborted = b]
  <2>1. SUFFICES ASSUME NEW c \in Calls
                 PROVE  \E b \in BOOLEAN : call'[c] = [call[c] EXCEPT !.aborted = b]
    OBVIOUS
  <2>2. PICK b : b = (call[c].aborted \/ \E s \in Ids : aborts[s] = c)
    OBVIOUS
  <2>3. b \in BOOLEAN
    BY <2>2 DEF Types, CallsTyped, CallShape
  <2>4. call'[c] = [call[c] EXCEPT !.aborted = b]
    BY <1>1, <2>2
  <2> QED
    BY <2>3, <2>4
<1>3. call' = [c \in Calls |-> call'[c]]
  BY <1>1
<1>4. CallsTyped'
      /\ OnlyAborts
  BY <1>2, <1>3, SameCalls DEF Types
<1>5. RestTyped'
  <2>1. overlapped' \in BOOLEAN /\ acked' \in [Ids -> Nat] /\ calls' \in 0..MaxCalls
    BY MeetStep, CountedStep DEF Types, CloseWorkspace
  <2>2. aborts' \in [Ids -> Calls \cup {None}] /\ open' \in MaybePaths
    BY DEF CloseWorkspace, MaybePaths
  <2> QED
    BY <2>1, <2>2 DEF Types, RestTyped, CloseWorkspace
<1>6. ThreadsTyped'
  BY ThreadsKept DEF Types, CloseWorkspace
<1>7. MemorySound'
  <2>1. sessions' \in [Ids -> MaybeSlots] /\ active' \in MaybeIds /\ active' = None
        /\ \A s \in Ids : sessions'[s] = None
    BY DEF CloseWorkspace, MaybeSlots, MaybeIds
  <2>2. \A c \in Calls : call'[c].object # None => object[call'[c].object].id = call'[c].id
    BY <1>4 DEF Types, MemorySound, OnlyAborts
  <2>3. object \in [Slots -> ObjectShape] /\ Objects(object)
    BY DEF Types, MemorySound, CloseWorkspace
  <2> QED
    BY <1>4, <2>1, <2>2, <2>3, MemoryStep
<1> QED
  BY <1>4, <1>5, <1>6, <1>7 DEF Types

LEMMA DeleteThreadTypes ==
    ASSUME Types, NEW t \in Ids, DeleteThread(t)
    PROVE  Types'
<1>1. RestTyped'
  BY MeetStep, CountedStep DEF Types, RestTyped, DeleteThread
<1>2. thread' = [thread EXCEPT ![t] = NoThread]
  BY DEF DeleteThread
<1>3. ThreadsTyped'
  BY <1>2, NothingTyped DEF Types, ThreadsTyped
<1>4. CallsTyped'
  BY DEF Types, CallsTyped, DeleteThread
<1>5. MemorySound'
  BY <1>4, MemoryKept DEF Types, DeleteThread
<1> QED
  BY <1>1, <1>3, <1>4, <1>5 DEF Types

LEMMA CrashTypes ==
    ASSUME Types, Crash
    PROVE  Types'
<1> USE Constants, NothingTyped
<1>1. RestTyped'
  <2>1. open' \in MaybePaths /\ aborts' \in [Ids -> Calls \cup {None}]
        /\ meta' \in [Ids -> MaybeIds] /\ spoiled' \subseteq Ids
    BY DEF Crash, MaybePaths, MaybeIds
  <2> QED
    BY <2>1 DEF Types, RestTyped, Crash
<1>2. ThreadsTyped'
  BY ThreadsKept DEF Types, Crash
<1>3. CallsTyped'
  BY DEF CallsTyped, Crash
<1>4. MemorySound'
  BY DEF MemorySound, Crash, MaybeIds, MaybeSlots
<1> QED
  BY <1>1, <1>2, <1>3, <1>4 DEF Types

LEMMA EndIsGoOn == \A c : End(c) => GoOn(c, NoCall)
  BY DEF End, GoOn

LEMMA CallAt ==
    ASSUME CallsTyped, NEW c \in Calls
    PROVE  call[c] \in CallShape /\ Sound(call[c])
  BY DEF CallsTyped

LEMMA EarlyTypes ==
    ASSUME RestTyped, ThreadsTyped, Early, stored' \in [Workspaces -> Snapshots],
           meta' \in [Ids -> MaybeIds], spoiled' \subseteq Ids
    PROVE  RestTyped' /\ ThreadsTyped'
  BY DEF RestTyped, ThreadsTyped, Early

\* A call goes on, and nothing happens in memory.
LEMMA OnStep ==
    ASSUME Types, RestTyped', ThreadsTyped', UNCHANGED memory,
           NEW c \in Calls, NEW r \in CallShape, Sound(r), GoOn(c, r),
           call[c].pc \notin Holding,
           r.object = None \/ (r.id \in Ids /\ r.object = sessions[r.id])
    PROVE  Types'
<1>1. CallsTyped' /\ call'[c] = r /\ \A k \in Calls \ {c} : call'[k] = call[k]
  BY CallStep DEF Types
<1>2. call[c].object = None
  BY CallAt DEF Types, Sound
<1>3. MemorySound'
  BY <1>1, <1>2, MemoryKept DEF Types
<1> QED
  BY <1>1, <1>3 DEF Types

LEMMA DraftTypes ==
    ASSUME Types, NEW c \in Calls, Draft(c)
    PROVE  Types'
<1> USE Constants, NothingTyped
<1>1. PICK r : r = call[c]
  OBVIOUS
<1>2. r \in CallShape /\ Sound(r) /\ r.pc = "draft"
  BY <1>1, CallAt DEF Types, Draft
<1>3. r.object = None
  BY <1>2 DEF Sound, Holding
<1>4. stored' \in [Workspaces -> Snapshots]
  <2>1. UNCHANGED stored \/ Store(NoSnapshot)
    BY DEF Draft
  <2> QED
    BY <2>1, StoreStep DEF Types, RestTyped
<1>5. UNCHANGED memory /\ Early /\ UNCHANGED <<meta, spoiled>>
  BY DEF Draft
<1>6. RestTyped' /\ ThreadsTyped'
  BY <1>4, <1>5, EarlyTypes DEF Types, RestTyped
<1>7. \E l \in CallShape : /\ Sound(l) /\ GoOn(c, l)
                           /\ l.object = None \/ (l.id \in Ids /\ l.object = sessions[l.id])
  <2>1. CASE GoOn(c, [r EXCEPT !.pc = "profile"])
    <3>1. PICK l : l = [r EXCEPT !.pc = "profile"]
      OBVIOUS
    <3>2. l \in CallShape /\ l.object = None
      BY <1>2, <1>3, <3>1 DEF CallShape, Pcs
    <3>3. l.pc = "profile" /\ l.agent = r.agent /\ l.ledger = r.ledger /\ l.path = r.path
      BY <1>2, <3>1 DEF CallShape
    <3>4. Sound(l)
      BY <1>2, <3>2, <3>3 DEF Sound, Holding, Named
    <3> QED
      BY <2>1, <3>1, <3>2, <3>4
  <2>2. CASE GoOn(c, [r EXCEPT !.pc = "profile", !.snap = NoSnapshot])
    <3>1. PICK l : l = [r EXCEPT !.pc = "profile", !.snap = NoSnapshot]
      OBVIOUS
    <3>2. l \in CallShape /\ l.object = None
      BY <1>2, <1>3, <3>1 DEF CallShape, Pcs
    <3>3. l.pc = "profile" /\ l.agent = r.agent /\ l.ledger = r.ledger /\ l.path = r.path
      BY <1>2, <3>1 DEF CallShape
    <3>4. Sound(l)
      BY <1>2, <3>2, <3>3 DEF Sound, Holding, Named
    <3> QED
      BY <2>2, <3>1, <3>2, <3>4
  <2>3. CASE GoOn(c, [r EXCEPT !.pc = "begin", !.snap = NoSnapshot])
    <3>1. PICK l : l = [r EXCEPT !.pc = "begin", !.snap = NoSnapshot]
      OBVIOUS
    <3>2. l \in CallShape /\ l.object = None
      BY <1>2, <1>3, <3>1 DEF CallShape, Pcs
    <3>3. l.pc = "begin" /\ l.agent = r.agent /\ l.ledger = r.ledger /\ l.path = r.path
      BY <1>2, <3>1 DEF CallShape
    <3>4. Sound(l)
      BY <1>2, <3>2, <3>3 DEF Sound, Holding, Named
    <3> QED
      BY <2>3, <3>1, <3>2, <3>4
  <2>4. CASE End(c)
    BY <2>4, EndIsGoOn
  <2>5. ASSUME open # None,
               NEW s, s = (IF active # None THEN active ELSE stored[open].id), s # None,
               GoOn(c, Resuming(r, s))
        PROVE  \E l \in CallShape : /\ Sound(l) /\ GoOn(c, l)
                                    /\ l.object = None \/ (l.id \in Ids /\ l.object = sessions[l.id])
    <3>1. s \in Ids
      BY <2>5 DEF Types, RestTyped, MemorySound, MaybeIds, MaybePaths, Snapshots
    <3>2. PICK l : l = Resuming(r, s)
      OBVIOUS
    <3>3. l \in CallShape /\ Sound(l) /\ l.id = s /\ l.object \in {None, sessions[s]}
      BY <1>2, <1>3, <2>5, <3>1, <3>2, ResumingTyped
    <3> QED
      BY <2>5, <3>1, <3>2, <3>3
  <2> QED
    BY <1>1, <2>1, <2>2, <2>3, <2>4, <2>5 DEF Draft
<1>8. call[c].pc \notin Holding
  BY <1>1, <1>2 DEF Holding
<1> QED
  BY <1>5, <1>6, <1>7, <1>8, OnStep

LEMMA PreviousTypes ==
    ASSUME Types, NEW c \in Calls, Previous(c)
    PROVE  Types'
<1> USE Constants, NothingTyped
<1>1. PICK r : r = call[c]
  OBVIOUS
<1>2. r \in CallShape /\ Sound(r) /\ r.pc = "previous"
  BY <1>1, CallAt DEF Types, Previous
<1>3. r.object = None /\ r.id \in Ids /\ r.agent /\ r.ledger \in Ids /\ r.found \in MaybeIds
      /\ r.path \in Workspaces
  BY <1>2 DEF Sound, Holding, Named, CallShape, MaybeIds
<1>4. PICK l : l = [r EXCEPT !.pc = "register", !.found = None]
  OBVIOUS
<1>5. l \in CallShape /\ l.object = None
  BY <1>2, <1>3, <1>4 DEF CallShape, Pcs, MaybePaths
<1>6. l.pc = "register" /\ l.id = r.id /\ l.agent = r.agent /\ l.ledger = r.ledger /\ l.path = r.path
  BY <1>2, <1>4 DEF CallShape
<1>7. Sound(l)
  BY <1>2, <1>3, <1>5, <1>6 DEF Sound, Holding, Named
<1>8. GoOn(c, l) /\ Early /\ UNCHANGED <<memory, stored>>
  BY <1>1, <1>4 DEF Previous
<1>9. meta' \in [Ids -> MaybeIds] /\ spoiled' \subseteq Ids
  BY <1>1, <1>3 DEF Previous, Types, RestTyped, MaybeIds
<1>10. RestTyped' /\ ThreadsTyped'
  BY <1>8, <1>9, EarlyTypes DEF Types, RestTyped
<1> QED
  BY <1>1, <1>2, <1>5, <1>7, <1>8, <1>10, OnStep DEF Holding

LEMMA RegisterTypes ==
    ASSUME Types, NEW c \in Calls, Register(c)
    PROVE  Types'
<1> USE Constants, NothingTyped
<1>1. PICK r : r = call[c]
  OBVIOUS
<1>2. r \in CallShape /\ Sound(r) /\ r.pc = "register"
  BY <1>1, CallAt DEF Types, Register
<1>3. r.object = None /\ r.id \in Ids /\ r.agent /\ r.ledger \in Ids \cup {NewThread}
      /\ r.path \in Workspaces
  BY <1>2 DEF Sound, Holding, Named, CallShape, MaybeIds
<1>4. Registration(r) \in Ids
  BY <1>3 DEF Registration
<1>5. meta' \in [Ids -> MaybeIds]
  BY <1>1, <1>4 DEF Register, Types, RestTyped, MaybeIds
<1>6. RestTyped' /\ ThreadsTyped' /\ UNCHANGED memory
  BY <1>5, EarlyTypes DEF Types, RestTyped, Register
<1>7. CASE End(c)
  BY <1>1, <1>2, <1>6, <1>7, EndIsGoOn, OnStep DEF Holding
<1>8. CASE GoOn(c, [r EXCEPT !.pc = "run"])
  <2>1. PICK l : l = [r EXCEPT !.pc = "run"]
    OBVIOUS
  <2>2. l \in CallShape /\ l.object = None
    BY <1>2, <1>3, <2>1 DEF CallShape, Pcs
  <2>3. l.pc = "run" /\ l.id = r.id /\ l.agent = r.agent /\ l.ledger = r.ledger /\ l.path = r.path
    BY <1>2, <2>1 DEF CallShape
  <2>4. Sound(l)
    BY <1>2, <1>3, <2>2, <2>3 DEF Sound, Holding, Named
  <2> QED
    BY <1>1, <1>2, <1>6, <1>8, <2>1, <2>2, <2>4, OnStep DEF Holding
<1> QED
  BY <1>1, <1>7, <1>8 DEF Register

LEMMA CancelLoadedTypes ==
    ASSUME Types, NEW c \in Calls, CancelLoaded(c)
    PROVE  Types'
<1> USE Constants, NothingTyped
<1>1. stored' \in [Workspaces -> Snapshots]
  BY StoreStep DEF Types, RestTyped, CancelLoaded
<1>2. RestTyped' /\ ThreadsTyped'
  BY <1>1 DEF Types, RestTyped, ThreadsTyped, CancelLoaded, history
<1> QED
  BY <1>2, EndIsGoOn, OnStep DEF CancelLoaded, Holding

\* A call goes on, and the objects and the map change: an object keeps its id.
LEMMA ObjectStep ==
    ASSUME Types, NEW objs \in [Slots -> ObjectShape], Objects(objs),
           NEW c \in Calls, NEW r \in CallShape, Sound(r), GoOn(c, r),
           \A o \in Referenced \ {None} : objs[o].id = object[o].id,
           r.object # None => objs[r.object].id = r.id,
           sessions' \in [Ids -> MaybeSlots], active' \in MaybeIds,
           active' # None => sessions'[active'] # None,
           \A s \in Ids : sessions'[s] \in {sessions[s], None} \/ objs[sessions'[s]].id = s
    PROVE  /\ CallsTyped' /\ MemorySound'
           /\ \A s \in Ids : sessions'[s] # None => object'[sessions'[s]] = objs[sessions'[s]]
           /\ \A k \in Calls : call'[k].object # None =>
                object'[call'[k].object] = objs[call'[k].object]
<1>1. CallsTyped' /\ call'[c] = r /\ \A k \in Calls \ {c} : call'[k] = call[k]
  BY CallStep DEF Types
<1>2. \A s \in Ids : sessions[s] # None => sessions[s] \in Referenced
  BY DEF Referenced
<1>3. \A k \in Calls : call[k].object # None => call[k].object \in Referenced
  BY DEF Referenced
<1>4. \A s \in Ids : sessions'[s] # None => objs[sessions'[s]].id = s
  BY <1>2 DEF Types, MemorySound
<1>5. \A k \in Calls : call'[k].object # None => objs[call'[k].object].id = call'[k].id
  BY <1>1, <1>3 DEF Types, MemorySound
<1> QED
  BY <1>1, <1>4, <1>5, MemoryStep

LEMMA ReferencedTyped ==
    ASSUME Types
    PROVE  Referenced \ {None} \subseteq Slots
  BY DEF Types, MemorySound, CallsTyped, CallShape, MaybeSlots, Referenced

LEMMA ClearTypes ==
    ASSUME Types, NEW c \in Calls, Clear(c)
    PROVE  Types'
<1> USE Constants, NothingTyped
<1>1. PICK r : r = call[c]
  OBVIOUS
<1>2. r \in CallShape /\ Sound(r) /\ r.pc = "begin"
  BY <1>1, CallAt DEF Types, Clear
<1>3. r.object = None
  BY <1>2 DEF Sound, Holding
<1>4. PICK l : l = [r EXCEPT !.pc = "profile"]
  OBVIOUS
<1>5. l \in CallShape /\ l.object = None
  BY <1>2, <1>3, <1>4 DEF CallShape, Pcs
<1>6. l.pc = "profile" /\ l.agent = r.agent /\ l.ledger = r.ledger /\ l.path = r.path
  BY <1>2, <1>4 DEF CallShape
<1>7. Sound(l)
  BY <1>2, <1>5, <1>6 DEF Sound, Holding, Named
<1>8. GoOn(c, l) /\ Early /\ UNCHANGED <<meta, stored, spoiled>> /\ sessions' = WithoutActive
      /\ active' = None /\ Objects(object)
  BY <1>1, <1>4 DEF Clear
<1>9. RestTyped' /\ ThreadsTyped'
  BY <1>8, EarlyTypes DEF Types, RestTyped
<1>10. sessions' \in [Ids -> MaybeSlots] /\ \A s \in Ids : sessions'[s] \in {sessions[s], None}
  BY <1>8, WithoutTyped DEF Types
<1>11. active' \in MaybeIds /\ object \in [Slots -> ObjectShape]
  BY <1>8 DEF MaybeIds, Types, MemorySound
<1>12. CallsTyped' /\ MemorySound'
  BY <1>5, <1>7, <1>8, <1>10, <1>11, ObjectStep
<1> QED
  BY <1>9, <1>12 DEF Types

LEMMA ProfileTypes ==
    ASSUME Types, NEW c \in Calls, Profile(c)
    PROVE  Types'
<1> USE Constants, NothingTyped
<1>1. PICK r : r = call[c]
  OBVIOUS
<1>2. r \in CallShape /\ Sound(r) /\ r.pc = "profile"
  BY <1>1, CallAt DEF Types, Profile
<1>3. r.object = None
  BY <1>2 DEF Sound, Holding
<1>4. count' \in 0..MaxSessions
  <2>1. UNCHANGED count \/ count' \in Ids
    BY DEF Profile
  <2> QED
    BY <2>1 DEF Types, RestTyped, Ids
<1>5. RestTyped' /\ ThreadsTyped'
  BY <1>4 DEF Types, RestTyped, ThreadsTyped, Profile, history
<1>6. sessions' \in [Ids -> MaybeSlots] /\ \A s \in Ids : sessions'[s] \in {sessions[s], None}
  BY WithoutTyped DEF Profile, Types, MemorySound
<1>7. active' \in MaybeIds /\ (active' # None => sessions'[active'] # None)
      /\ object \in [Slots -> ObjectShape] /\ Objects(object)
  BY DEF MaybeIds, Types, MemorySound, Profile
<1>8. \E l \in CallShape : Sound(l) /\ GoOn(c, l) /\ l.object = None
  <2>1. CASE End(c)
    BY <2>1, EndIsGoOn
  <2>2. ASSUME NEW next, next = (IF ~r.agent THEN "run"
                                 ELSE IF r.ledger = NewThread THEN "register" ELSE "previous"),
               NEW found, found = (IF next = "previous" /\ thread[r.ledger].db = open
                                   THEN thread[r.ledger].bound ELSE None),
               NEW id \in Ids,
               GoOn(c, [r EXCEPT !.pc = next, !.id = id, !.found = found])
        PROVE  \E l \in CallShape : Sound(l) /\ GoOn(c, l) /\ l.object = None
    <3>1. found \in MaybeIds
      <4>1. CASE next = "previous"
        <5>1. r.ledger \in Ids
          BY <1>2, <2>2, <4>1 DEF Sound, CallShape, MaybeIds
        <5> QED
          BY <2>2, <5>1 DEF Types, ThreadsTyped, ThreadShape, MaybeIds
      <4> QED
        BY <2>2, <4>1 DEF MaybeIds
    <3>2. PICK l : l = [r EXCEPT !.pc = next, !.id = id, !.found = found]
      OBVIOUS
    <3>3. id \in MaybeIds /\ next \in {"run", "register", "previous"}
      BY <2>2 DEF MaybeIds
    <3>4. l \in CallShape
      BY <1>2, <3>1, <3>2, <3>3 DEF CallShape, Pcs
    <3>5. l.pc = next /\ l.id = id /\ l.found = found /\ l.object = None
          /\ l.agent = r.agent /\ l.ledger = r.ledger /\ l.path = r.path
      BY <1>2, <1>3, <3>2 DEF CallShape
    <3>6. Sound(l)
      BY <1>2, <2>2, <3>1, <3>3, <3>5 DEF Sound, Holding, Named
    <3> QED
      BY <2>2, <3>2, <3>4, <3>5, <3>6
  <2> QED
    BY <1>1, <2>1, <2>2 DEF Profile
<1>9. PICK l \in CallShape : Sound(l) /\ GoOn(c, l) /\ l.object = None
  BY <1>8
<1>10. CallsTyped' /\ MemorySound'
  BY <1>6, <1>7, <1>9, ObjectStep
<1> QED
  BY <1>5, <1>10 DEF Types

LEMMA RunTypes ==
    ASSUME Types, NEW c \in Calls, Run(c)
    PROVE  Types'
<1> USE Constants, NothingTyped
<1>1. PICK r : r = call[c]
  OBVIOUS
<1>2. r \in CallShape /\ Sound(r) /\ r.pc = "run"
  BY <1>1, CallAt DEF Types, Run
<1>3. r.object = None /\ r.id \in Ids
  BY <1>2 DEF Sound, Holding, Named
<1>4. Early /\ UNCHANGED <<meta, spoiled>>
  BY DEF Run
<1>5. CASE End(c) /\ UNCHANGED <<sessions, active, stored>> /\ Objects(object)
  <2>1. RestTyped' /\ ThreadsTyped'
    BY <1>4, <1>5, EarlyTypes DEF Types, RestTyped
  <2>2. CallsTyped' /\ MemorySound'
    BY <1>5, EndIsGoOn, ObjectStep DEF Types, MemorySound
  <2> QED
    BY <2>1, <2>2 DEF Types
<1>6. ASSUME NEW new, new = [id |-> r.id, answers |-> 0, ledger |-> r.path],
             sessions' = [sessions EXCEPT ![r.id] = FreeSlot],
             active' = r.id,
             Store(SnapshotOf(new)),
             \/ End(c)
             \/ /\ r.ledger # None
                /\ GoOn(c, [r EXCEPT !.pc = "bind", !.object = FreeSlot]),
             Objects([object EXCEPT ![FreeSlot] = new])
      PROVE  Types'
  <2>1. new \in ObjectShape /\ new.id = r.id
    BY <1>2, <1>3, <1>6 DEF ObjectShape, CallShape, MaybeIds
  <2>2. RestTyped' /\ ThreadsTyped'
    BY <1>4, <1>6, <2>1, SnapshotTyped, StoreStep, EarlyTypes DEF Types, RestTyped
  <2>3. PICK o : o = FreeSlot
    OBVIOUS
  <2>4. o \in Slots /\ o \notin Referenced
    BY <1>1, <1>3, <2>3, FreeSlotIsFree DEF Types, MemorySound
  <2>5. PICK objs : objs = [object EXCEPT ![o] = new]
    OBVIOUS
  <2>6. objs \in [Slots -> ObjectShape] /\ Objects(objs) /\ objs[o].id = r.id
        /\ \A p \in Referenced \ {None} : objs[p].id = object[p].id
    BY <1>6, <2>1, <2>3, <2>4, <2>5, ReferencedTyped DEF Types, MemorySound
  <2>7. sessions' \in [Ids -> MaybeSlots] /\ active' \in MaybeIds /\ sessions'[active'] # None
        /\ \A s \in Ids : sessions'[s] \in {sessions[s], None} \/ objs[sessions'[s]].id = s
    BY <1>3, <1>6, <2>3, <2>4, <2>6 DEF Types, MemorySound, MaybeSlots, MaybeIds
  <2>8. \E l \in CallShape : /\ Sound(l) /\ GoOn(c, l)
                             /\ l.object # None => objs[l.object].id = l.id
    <3>1. CASE End(c)
      BY <3>1, EndIsGoOn
    <3>2. CASE r.ledger # None /\ GoOn(c, [r EXCEPT !.pc = "bind", !.object = FreeSlot])
      <4>1. PICK l : l = [r EXCEPT !.pc = "bind", !.object = o]
        OBVIOUS
      <4>2. l \in CallShape
        BY <1>2, <2>4, <4>1 DEF CallShape, Pcs, MaybeSlots
      <4>3. l.pc = "bind" /\ l.id = r.id /\ l.object = o /\ l.agent = r.agent
            /\ l.ledger = r.ledger /\ l.path = r.path
        BY <1>2, <4>1 DEF CallShape
      <4>4. Sound(l)
        BY <1>2, <1>3, <2>4, <3>2, <4>3 DEF Sound, Holding, Named
      <4> QED
        BY <2>3, <2>6, <3>2, <4>1, <4>2, <4>3, <4>4
    <3> QED
      BY <1>6, <3>1, <3>2
  <2>9. CallsTyped' /\ MemorySound'
    BY <2>6, <2>7, <2>8, ObjectStep
  <2> QED
    BY <2>2, <2>9 DEF Types
<1> QED
  BY <1>1, <1>5, <1>6 DEF Run

LEMMA BindTypes ==
    ASSUME Types, NEW c \in Calls, Bind(c)
    PROVE  Types'
<1> USE Constants, NothingTyped
<1>1. PICK r : r = call[c]
  OBVIOUS
<1>2. r \in CallShape /\ Sound(r) /\ r.pc = "bind"
  BY <1>1, CallAt DEF Types, Bind
<1>3. r.id \in Ids /\ r.path \in Workspaces /\ r.ledger \in Ids \cup {NewThread}
      /\ r.agent \in BOOLEAN
  BY <1>2 DEF Sound, Holding, Named, CallShape, MaybeIds
<1>4. End(c) /\ Objects(object) /\ UNCHANGED <<open, count, calls, aborts, overlapped, acked>>
  BY DEF Bind
<1>5. CallsTyped' /\ \A k \in Calls : call'[k].object # None => call'[k] = call[k]
  BY <1>4, EndStep DEF Types
<1>6. MemorySound' /\ stored' \in [Workspaces -> Snapshots]
  <2>1. CASE UNCHANGED <<sessions, active, stored>>
    <3>1. MemorySound'
      BY <1>4, <2>1, EndIsGoOn, ObjectStep DEF Types, MemorySound
    <3> QED
      BY <2>1, <3>1 DEF Types, RestTyped
  <2>2. CASE Forget(r.id)
    BY <1>3, <1>4, <1>5, <2>2, ForgetStep DEF Types, MemorySound
  <2> QED
    BY <1>1, <2>1, <2>2 DEF Bind
<1>7. meta' \in [Ids -> MaybeIds]
  BY <1>1, <1>3 DEF Bind, Types, RestTyped, MaybeIds
<1>8. ThreadsTyped' /\ spoiled' \subseteq Ids
  <2>1. CASE UNCHANGED <<thread, spoiled>>
    BY <2>1, ThreadsKept DEF Types, RestTyped
  <2>2. ASSUME NEW t, t = (IF r.ledger = NewThread THEN r.id ELSE r.ledger),
               NEW row,
               row = (IF r.ledger = NewThread
                      THEN [db |-> open, path |-> r.path, bound |-> r.id, agent |-> r.agent,
                            turns |-> <<>>]
                      ELSE [thread[t] EXCEPT !.bound = r.id, !.agent = r.agent]),
               open # None, r.ledger # NewThread => thread[t].db = open,
               thread' = [thread EXCEPT ![t] = row],
               spoiled' = spoiled \ {t}
        PROVE  ThreadsTyped' /\ spoiled' \subseteq Ids
    <3>1. t \in Ids /\ open \in Workspaces /\ r.id \in MaybeIds
      BY <1>3, <2>2 DEF Types, RestTyped, MaybePaths, MaybeIds
    <3>2. thread[t] \in ThreadShape
      BY <3>1 DEF Types, ThreadsTyped
    <3>3. row \in ThreadShape /\ row.db # None
      <4>1. CASE r.ledger = NewThread
        <5>1. row = [db |-> open, path |-> r.path, bound |-> r.id, agent |-> r.agent,
                     turns |-> <<>>]
          BY <2>2, <4>1
        <5>2. <<>> \in Seq(Ids) /\ open \in MaybePaths /\ r.path \in MaybePaths
          BY <1>3, <3>1 DEF MaybePaths
        <5>3. row \in ThreadShape
          BY <1>3, <3>1, <5>1, <5>2 DEF ThreadShape
        <5> QED
          BY <2>2, <5>1, <5>3
      <4>2. CASE r.ledger # NewThread
        <5>1. row = [thread[t] EXCEPT !.bound = r.id, !.agent = r.agent]
          BY <2>2, <4>2
        <5> QED
          BY <1>3, <2>2, <3>1, <3>2, <4>2, <5>1 DEF ThreadShape
      <4> QED
        BY <4>1, <4>2
    <3>4. thread' \in [Ids -> ThreadShape]
      BY <2>2, <3>1, <3>3 DEF Types, ThreadsTyped
    <3>5. \A u \in Ids : thread'[u].db = None <=> thread'[u] = NoThread
      BY <2>2, <3>1, <3>3 DEF Types, ThreadsTyped
    <3> QED
      BY <2>2, <3>4, <3>5 DEF ThreadsTyped, Types, RestTyped
  <2> QED
    BY <1>1, <2>1, <2>2 DEF Bind
<1>9. RestTyped'
  BY <1>4, <1>6, <1>7, <1>8 DEF Types, RestTyped
<1> QED
  BY <1>5, <1>6, <1>8, <1>9 DEF Types

\* Restoring a session from its snapshot.
LEMMA HydrateTypes ==
    ASSUME Types, NEW c \in Calls, Hydrate(c)
    PROVE  Types'
<1> USE Constants, NothingTyped
<1>1. PICK r, s : r = call[c] /\ s = r.id
  OBVIOUS
<1>2. r \in CallShape /\ Sound(r) /\ r.pc = "hydrate"
  BY <1>1, CallAt DEF Types, Hydrate
<1>3. r.object = None /\ s \in Ids
  BY <1>1, <1>2 DEF Sound, Holding, Named
<1>4. PICK restores : restores = (/\ r.snap.id = s
                                  /\ (r.op \in {"resume", "start"} \/ sessions[s] = None))
  OBVIOUS
<1>5. PICK o : o = FreeSlot
  OBVIOUS
<1>6. o \in Slots /\ o \notin Referenced
  BY <1>1, <1>3, <1>5, FreeSlotIsFree DEF Types, MemorySound
<1>7. PICK new : new = [id |-> s, answers |-> r.snap.answers, ledger |-> None]
  OBVIOUS
<1>8. new \in ObjectShape /\ new.id = s
  BY <1>2, <1>3, <1>7 DEF ObjectShape, CallShape, Snapshots, MaybeIds, MaybePaths
<1>9. PICK objs : objs = IF restores THEN [object EXCEPT ![o] = new] ELSE object
  OBVIOUS
<1>10. objs \in [Slots -> ObjectShape] /\ Objects(objs)
  BY <1>1, <1>4, <1>5, <1>6, <1>7, <1>8, <1>9 DEF Types, MemorySound, Hydrate
<1>11. \A p \in Referenced \ {None} : objs[p].id = object[p].id
  BY <1>6, <1>9, ReferencedTyped DEF Types, MemorySound
<1>12. /\ sessions' \in [Ids -> MaybeSlots] /\ active' \in MaybeIds
       /\ active' # None => sessions'[active'] # None
       /\ \A u \in Ids : sessions'[u] \in {sessions[u], None} \/ objs[sessions'[u]].id = u
       /\ sessions'[s] # None => objs[sessions'[s]].id = s
  <2>1. CASE restores
    <3>1. sessions' = [WithoutActive EXCEPT ![s] = o] /\ active' = s
      BY <1>1, <1>4, <1>5, <2>1 DEF Hydrate
    <3>2. objs[o].id = s
      BY <1>6, <1>8, <1>9, <2>1 DEF Types, MemorySound
    <3>3. WithoutActive \in [Ids -> MaybeSlots]
          /\ \A u \in Ids : WithoutActive[u] \in {sessions[u], None}
      BY WithoutTyped DEF Types
    <3>4. sessions' \in [Ids -> MaybeSlots] /\ sessions'[s] = o
          /\ \A u \in Ids \ {s} : sessions'[u] \in {sessions[u], None}
      BY <1>3, <1>6, <3>1, <3>3 DEF MaybeSlots
    <3> QED
      BY <1>3, <1>6, <3>1, <3>2, <3>4 DEF MaybeIds
  <2>2. CASE ~restores
    BY <1>1, <1>3, <1>4, <1>9, <2>2 DEF Hydrate, Types, MemorySound
  <2> QED
    BY <2>1, <2>2
<1>13. \E l \in CallShape : /\ Sound(l) /\ GoOn(c, l)
                            /\ l.object # None => objs[l.object].id = l.id
  <2>1. CASE End(c)
    BY <2>1, EndIsGoOn
  <2>2. ASSUME NEW p, p = sessions'[s], p # None,
               NEW found, found = (IF restores \/ object[sessions[s]].ledger = None
                                   THEN WorkspaceOf(s) ELSE None),
               GoOn(c, [r EXCEPT !.pc = "attach", !.object = p, !.snap = NoSnapshot,
                                 !.found = found])
        PROVE  \E l \in CallShape : /\ Sound(l) /\ GoOn(c, l)
                                    /\ l.object # None => objs[l.object].id = l.id
    <3>1. found \in MaybePaths
      BY <2>2, WorkspaceFound DEF Types, MaybePaths
    <3>2. p \in MaybeSlots
      BY <1>3, <1>12, <2>2
    <3>3. PICK l : l = [r EXCEPT !.pc = "attach", !.object = p, !.snap = NoSnapshot,
                                 !.found = found]
      OBVIOUS
    <3>4. l \in CallShape
      BY <1>2, <3>1, <3>2, <3>3 DEF CallShape, Pcs
    <3>5. l.pc = "attach" /\ l.object = p /\ l.found = found /\ l.id = s
          /\ l.agent = r.agent /\ l.ledger = r.ledger /\ l.path = r.path
      BY <1>1, <1>2, <3>3 DEF CallShape
    <3>6. Sound(l)
      BY <1>2, <1>3, <2>2, <3>1, <3>5 DEF Sound, Holding, Named
    <3> QED
      BY <1>12, <2>2, <3>3, <3>4, <3>5, <3>6
  <2> QED
    BY <1>1, <1>4, <2>1, <2>2 DEF Hydrate
<1>14. CallsTyped' /\ MemorySound'
  BY <1>10, <1>11, <1>12, <1>13, ObjectStep
<1>15. RestTyped' /\ ThreadsTyped'
  BY DEF Types, RestTyped, ThreadsTyped, Hydrate, history
<1> QED
  BY <1>14, <1>15 DEF Types

\* A change of the objects alone, which keep their ids.
LEMMA ObjectsStep ==
    ASSUME Types, NEW objs \in [Slots -> ObjectShape], Objects(objs),
           NEW c \in Calls, NEW r \in CallShape, Sound(r), GoOn(c, r),
           \A o \in Slots : objs[o].id = object[o].id,
           r.object # None => objs[r.object].id = r.id,
           UNCHANGED <<sessions, active>>
    PROVE  /\ CallsTyped' /\ MemorySound'
           /\ \A s \in Ids : sessions'[s] # None => object'[sessions'[s]] = objs[sessions'[s]]
           /\ \A k \in Calls : call'[k].object # None =>
                object'[call'[k].object] = objs[call'[k].object]
  BY ReferencedTyped, ObjectStep DEF Types, MemorySound

\* A field of one object changes.
LEMMA ObjectChanged ==
    ASSUME Types, NEW o \in Slots, NEW answers \in 0..MaxTurns
    PROVE  LET objs == [object EXCEPT ![o].answers = answers] IN
           /\ objs \in [Slots -> ObjectShape]
           /\ \A p \in Slots : objs[p].id = object[p].id /\ objs[p].ledger = object[p].ledger
           /\ objs[o].answers = answers
           /\ \A p \in Slots \ {o} : objs[p] = object[p]
  BY DEF Types, MemorySound, ObjectShape

LEMMA LedgerNoted ==
    ASSUME Types, NEW o \in Slots, NEW found \in MaybePaths
    PROVE  LET objs == [object EXCEPT ![o] = Attached(@, found)] IN
           /\ objs \in [Slots -> ObjectShape]
           /\ \A p \in Slots : objs[p].id = object[p].id /\ objs[p].answers = object[p].answers
           /\ objs[o].ledger = IF found = None THEN object[o].ledger ELSE found
           /\ \A p \in Slots \ {o} : objs[p] = object[p]
  BY DEF Types, MemorySound, ObjectShape, Attached, MaybePaths

LEMMA AttachTypes ==
    ASSUME Types, NEW c \in Calls, Attach(c)
    PROVE  Types'
<1> USE Constants, NothingTyped
<1>1. PICK r, o : r = call[c] /\ o = sessions[r.id]
  OBVIOUS
<1>2. r \in CallShape /\ Sound(r) /\ r.pc = "attach"
  BY <1>1, CallAt DEF Types, Attach
<1>3. r.object \in Slots /\ r.id \in Ids /\ r.found \in MaybePaths
  BY <1>2 DEF Sound, Holding, Named, CallShape, MaybeSlots
<1>4. PICK objs : objs = [object EXCEPT ![r.object] = Attached(@, r.found)]
  OBVIOUS
<1>5. objs \in [Slots -> ObjectShape] /\ \A p \in Slots : objs[p].id = object[p].id
  BY <1>3, <1>4, LedgerNoted
<1>6. o \in MaybeSlots /\ (o # None => objs[o].id = r.id)
  BY <1>1, <1>3, <1>5 DEF Types, MemorySound, MaybeSlots
<1>7. Objects(objs) /\ UNCHANGED <<open, count, calls, sessions, active, aborts, meta, thread, history>>
  BY <1>1, <1>4 DEF Attach
<1>8. stored' \in [Workspaces -> Snapshots]
  <2>1. UNCHANGED stored \/ (o \in Slots /\ Store(SnapshotOf(objs[o])))
    BY <1>1, <1>4, <1>6 DEF Attach, MaybeSlots
  <2> QED
    BY <1>5, <2>1, StoreStep, SnapshotTyped DEF Types, RestTyped
<1>9. \E l \in CallShape : /\ Sound(l) /\ GoOn(c, l)
                           /\ l.object # None => objs[l.object].id = l.id
  <2>1. CASE End(c)
    BY <2>1, EndIsGoOn
  <2>2. ASSUME o # None,
               NEW pc, pc = (IF r.op = "message" THEN "prepare" ELSE "summary"),
               NEW seen, seen = (IF r.op = "message" THEN objs[o].answers ELSE 0),
               r.op = "message" => ~Full(objs[o]),
               GoOn(c, [r EXCEPT !.pc = pc, !.object = o, !.found = None, !.seen = seen])
        PROVE  \E l \in CallShape : /\ Sound(l) /\ GoOn(c, l)
                                    /\ l.object # None => objs[l.object].id = l.id
    <3>1. objs[o].answers \in 0..MaxTurns /\ o \in Slots
      BY <1>5, <1>6, <2>2 DEF ObjectShape, MaybeSlots
    <3>2. seen \in 0..MaxTurns /\ pc \in {"prepare", "summary"} /\ (pc = "prepare" => seen < MaxTurns)
      BY <2>2, <3>1 DEF Full
    <3>3. PICK l : l = [r EXCEPT !.pc = pc, !.object = o, !.found = None, !.seen = seen]
      OBVIOUS
    <3>4. l \in CallShape
      BY <1>2, <1>6, <3>2, <3>3 DEF CallShape, Pcs, MaybePaths
    <3>5. l.pc = pc /\ l.object = o /\ l.seen = seen /\ l.id = r.id
          /\ l.agent = r.agent /\ l.ledger = r.ledger /\ l.path = r.path
      BY <1>2, <3>3 DEF CallShape
    <3>6. Sound(l)
      BY <1>2, <1>3, <2>2, <3>2, <3>5 DEF Sound, Holding, Named
    <3> QED
      BY <1>6, <2>2, <3>3, <3>4, <3>5, <3>6
  <2>3. \/ End(c)
        \/ /\ ~(o = None \/ (r.op = "message" /\ Full(objs[o])))
           /\ GoOn(c, [r EXCEPT !.pc = IF r.op = "message" THEN "prepare" ELSE "summary",
                                !.object = o, !.found = None,
                                !.seen = IF r.op = "message" THEN objs[o].answers ELSE 0])
    BY <1>1, <1>4 DEF Attach
  <2> QED
    BY <2>1, <2>2, <2>3
<1>10. CallsTyped' /\ MemorySound'
  BY <1>5, <1>7, <1>9, ObjectsStep
<1>11. RestTyped' /\ ThreadsTyped'
  BY <1>7, <1>8 DEF Types, RestTyped, ThreadsTyped, history
<1> QED
  BY <1>10, <1>11 DEF Types

LEMMA PrepareTypes ==
    ASSUME Types, NEW c \in Calls, Prepare(c)
    PROVE  Types'
<1> USE Constants, NothingTyped
<1>1. PICK r : r = call[c]
  OBVIOUS
<1>2. r \in CallShape /\ Sound(r) /\ r.pc = "prepare"
  BY <1>1, CallAt DEF Types, Prepare
<1>3. r.object \in Slots /\ r.id \in Ids /\ r.seen \in 0..MaxTurns /\ r.seen < MaxTurns
      /\ object[r.object].id = r.id
  BY <1>1, <1>2 DEF Sound, Holding, Named, CallShape, MaybeSlots, Types, MemorySound
<1>4. UNCHANGED <<open, count, calls, sessions, active, meta, stored, thread, history>>
  BY DEF Prepare
<1>5. CASE End(c) /\ UNCHANGED aborts /\ Objects(object)
  <2>1. CallsTyped' /\ MemorySound'
    BY <1>4, <1>5, EndIsGoOn, ObjectsStep DEF Types, MemorySound
  <2>2. RestTyped' /\ ThreadsTyped'
    BY <1>4, <1>5 DEF Types, RestTyped, ThreadsTyped, history
  <2> QED
    BY <2>1, <2>2 DEF Types
<1>6. ASSUME GoOn(c, [r EXCEPT !.pc = "turn"]), aborts' = [aborts EXCEPT ![r.id] = c],
             Objects([object EXCEPT ![r.object].answers = r.seen])
      PROVE  Types'
  <2>1. PICK objs : objs = [object EXCEPT ![r.object].answers = r.seen]
    OBVIOUS
  <2>2. objs \in [Slots -> ObjectShape] /\ \A p \in Slots : objs[p].id = object[p].id
    BY <1>3, <2>1, ObjectChanged
  <2>3. PICK l : l = [r EXCEPT !.pc = "turn"]
    OBVIOUS
  <2>4. l \in CallShape
    BY <1>2, <2>3 DEF CallShape, Pcs
  <2>5. l.pc = "turn" /\ l.object = r.object /\ l.seen = r.seen /\ l.id = r.id
        /\ l.agent = r.agent /\ l.ledger = r.ledger /\ l.path = r.path
    BY <1>2, <2>3 DEF CallShape
  <2>6. Sound(l)
    BY <1>2, <1>3, <2>5 DEF Sound, Holding, Named
  <2>7. CallsTyped' /\ MemorySound'
    BY <1>3, <1>4, <1>6, <2>1, <2>2, <2>3, <2>4, <2>5, <2>6, ObjectsStep
  <2>8. RestTyped' /\ ThreadsTyped'
    BY <1>3, <1>4, <1>6 DEF Types, RestTyped, ThreadsTyped, history
  <2> QED
    BY <2>7, <2>8 DEF Types
<1> QED
  BY <1>1, <1>5, <1>6 DEF Prepare

LEMMA TurnTypes ==
    ASSUME Types, NEW c \in Calls, Turn(c)
    PROVE  Types'
<1> USE Constants, NothingTyped
<1>1. PICK r : r = call[c]
  OBVIOUS
<1>2. r \in CallShape /\ Sound(r) /\ r.pc = "turn"
  BY <1>1, CallAt DEF Types, Turn
<1>3. r.object \in Slots /\ r.id \in Ids /\ r.seen + 1 \in 0..MaxTurns /\ object[r.object].id = r.id
  BY <1>1, <1>2 DEF Sound, Holding, Named, CallShape, MaybeSlots, Types, MemorySound
<1>4. UNCHANGED <<open, count, calls, sessions, active, meta, thread, history>>
      /\ aborts' = [aborts EXCEPT ![r.id] = None]
  BY <1>1 DEF Turn
<1>5. CASE End(c) /\ UNCHANGED stored /\ Objects(object)
  <2>1. CallsTyped' /\ MemorySound'
    BY <1>4, <1>5, EndIsGoOn, ObjectsStep DEF Types, MemorySound
  <2>2. RestTyped' /\ ThreadsTyped'
    BY <1>4, <1>5 DEF Types, RestTyped, ThreadsTyped, history
  <2> QED
    BY <2>1, <2>2 DEF Types
<1>6. ASSUME NEW objs, objs = [object EXCEPT ![r.object].answers = r.seen + 1],
             Store(SnapshotOf(objs[r.object])),
             End(c) \/ GoOn(c, [r EXCEPT !.pc = "append", !.seen = 0]),
             Objects(objs)
      PROVE  Types'
  <2>2. objs \in [Slots -> ObjectShape] /\ \A p \in Slots : objs[p].id = object[p].id
    BY <1>3, <1>6, ObjectChanged
  <2>3. PICK l : l = [r EXCEPT !.pc = "append", !.seen = 0]
    OBVIOUS
  <2>4. l \in CallShape
    <3>1. 0 \in 0..MaxTurns /\ "append" \in Pcs
      BY DEF Pcs
    <3> QED
      BY <1>2, <2>3, <3>1 DEF CallShape
  <2>5. l.pc = "append" /\ l.object = r.object /\ l.id = r.id
        /\ l.agent = r.agent /\ l.ledger = r.ledger /\ l.path = r.path
    BY <1>2, <2>3 DEF CallShape
  <2>6. Sound(l)
    BY <1>2, <1>3, <2>5 DEF Sound, Holding, Named
  <2>7. \E m \in CallShape : /\ Sound(m) /\ GoOn(c, m)
                             /\ m.object # None => objs[m.object].id = m.id
    BY <1>3, <1>6, <2>2, <2>3, <2>4, <2>5, <2>6, EndIsGoOn
  <2>8. CallsTyped' /\ MemorySound'
    BY <1>4, <1>6, <2>2, <2>7, ObjectsStep
  <2>9. stored' \in [Workspaces -> Snapshots]
    BY <1>3, <1>6, <2>2, StoreStep, SnapshotTyped DEF Types
  <2>10. RestTyped' /\ ThreadsTyped'
    BY <1>3, <1>4, <2>9 DEF Types, RestTyped, ThreadsTyped, history
  <2> QED
    BY <2>8, <2>10 DEF Types
<1> QED
  BY <1>1, <1>5, <1>6 DEF Turn

LEMMA AppendTurnsTypes ==
    ASSUME Types, NEW c \in Calls, AppendTurns(c)
    PROVE  Types'
<1> USE Constants, NothingTyped
<1>1. PICK r : r = call[c]
  OBVIOUS
<1>2. r \in CallShape /\ Sound(r) /\ r.pc = "append"
  BY <1>1, CallAt DEF Types, AppendTurns
<1>3. r.id \in Ids
  BY <1>2 DEF Sound, Holding, Named
<1>4. UNCHANGED <<open, count, calls, sessions, active, aborts, meta, stored, overlapped, spoiled>>
      /\ End(c) /\ Objects(object)
  BY DEF AppendTurns
<1>5. CallsTyped' /\ MemorySound'
  BY <1>4, EndIsGoOn, ObjectsStep DEF Types, MemorySound
<1>6. acked' \in [Ids -> Nat]
  <2>1. UNCHANGED acked \/ acked' = [acked EXCEPT ![r.id] = @ + 1]
    BY <1>1 DEF AppendTurns, Acknowledge
  <2>2. acked \in [Ids -> Nat]
    BY DEF Types, RestTyped
  <2> QED
    BY <1>3, <2>1, <2>2
<1>7. ThreadsTyped'
  <2>1. CASE UNCHANGED thread
    BY <2>1, ThreadsKept DEF Types
  <2>2. ASSUME NEW t \in Ids, Bound(t, r.id, object[r.object].ledger), open # None,
               thread' = [thread EXCEPT ![t].turns = Append(@, r.id)]
        PROVE  ThreadsTyped'
    <3>1. thread[t] \in ThreadShape /\ thread[t].db # None
      BY <2>2 DEF Types, ThreadsTyped, Bound
    <3>2. PICK row : row = [thread[t] EXCEPT !.turns = Append(@, r.id)]
      OBVIOUS
    <3>3. row \in ThreadShape /\ row.db # None
      <4>1. PICK q : q = Append(thread[t].turns, r.id)
        OBVIOUS
      <4>2. q \in Seq(Ids)
        BY <1>3, <3>1, <4>1 DEF ThreadShape
      <4>3. row = [thread[t] EXCEPT !.turns = q]
        BY <3>2, <4>1
      <4> QED
        BY <3>1, <4>2, <4>3 DEF ThreadShape
    <3>4. thread' = [thread EXCEPT ![t] = row]
      BY <2>2, <3>2 DEF Types, ThreadsTyped
    <3> QED
      BY <3>3, <3>4 DEF Types, ThreadsTyped
  <2> QED
    BY <1>1, <2>1, <2>2 DEF AppendTurns
<1> QED
  BY <1>4, <1>5, <1>6, <1>7 DEF Types, RestTyped

LEMMA SummaryTypes ==
    ASSUME Types, NEW c \in Calls, Summary(c)
    PROVE  Types'
<1> USE Constants, NothingTyped
<1>1. PICK r : r = call[c]
  OBVIOUS
<1>2. r \in CallShape /\ Sound(r) /\ r.pc = "summary"
  BY <1>1, CallAt DEF Types, Summary
<1>3. r.object \in Slots /\ r.id \in Ids
  BY <1>2 DEF Sound, Holding, Named, CallShape, MaybeSlots
<1>4. UNCHANGED <<open, count, calls, sessions, active, aborts, meta, history>> /\ Objects(object)
  BY DEF Summary
<1>5. stored' \in [Workspaces -> Snapshots]
  <2>1. UNCHANGED stored \/ Store(SnapshotOf(object[r.object]))
    BY <1>1 DEF Summary
  <2> QED
    BY <1>3, <2>1, StoreStep, SnapshotTyped DEF Types, RestTyped, MemorySound
<1>6. ThreadsTyped'
  <2>1. CASE UNCHANGED thread
    BY <2>1, ThreadsKept DEF Types
  <2>2. ASSUME NEW rows, rows = {t \in Ids : Bound(t, r.id, object[r.object].ledger)}, open # None,
               thread' = [t \in Ids |-> IF t \in rows THEN [thread[t] EXCEPT !.bound = None]
                                        ELSE thread[t]]
        PROVE  ThreadsTyped'
    <3>1. SUFFICES ASSUME NEW t \in Ids
                   PROVE  thread'[t] \in ThreadShape
                          /\ (thread'[t].db = None <=> thread'[t] = NoThread)
      BY <2>2 DEF ThreadsTyped
    <3>2. CASE t \in rows
      <4>1. thread[t] \in ThreadShape /\ thread[t].db # None
        BY <2>2, <3>2 DEF Types, ThreadsTyped, Bound
      <4>2. thread'[t] = [thread[t] EXCEPT !.bound = None]
        BY <2>2, <3>2
      <4>3. thread'[t] \in ThreadShape /\ thread'[t].db # None
        BY <4>1, <4>2 DEF ThreadShape, MaybeIds
      <4> QED
        BY <4>3
    <3>3. CASE t \notin rows
      BY <2>2, <3>3 DEF Types, ThreadsTyped
    <3> QED
      BY <3>2, <3>3
  <2> QED
    BY <1>1, <2>1, <2>2 DEF Summary
<1>7. CallsTyped' /\ MemorySound'
  <2>1. CASE End(c)
    BY <1>4, <2>1, EndIsGoOn, ObjectsStep DEF Types, MemorySound
  <2>2. CASE GoOn(c, [r EXCEPT !.pc = "forget", !.object = None])
    <3>1. PICK l : l = [r EXCEPT !.pc = "forget", !.object = None]
      OBVIOUS
    <3>2. l \in CallShape
      BY <1>2, <3>1 DEF CallShape, Pcs, MaybeSlots
    <3>3. l.pc = "forget" /\ l.object = None /\ l.id = r.id
          /\ l.agent = r.agent /\ l.ledger = r.ledger /\ l.path = r.path
      BY <1>2, <3>1 DEF CallShape
    <3>4. Sound(l)
      BY <1>2, <1>3, <3>3 DEF Sound, Holding, Named
    <3> QED
      BY <1>4, <2>2, <3>1, <3>2, <3>3, <3>4, ObjectsStep DEF Types, MemorySound
  <2> QED
    BY <1>1, <2>1, <2>2 DEF Summary
<1> QED
  BY <1>4, <1>5, <1>6, <1>7 DEF Types, RestTyped, history

LEMMA ForgottenTypes ==
    ASSUME Types, NEW c \in Calls, Forgotten(c)
    PROVE  Types'
<1>1. call[c].id \in Ids /\ call[c].object = None
  BY CallAt DEF Types, Forgotten, Sound, Holding, Named
<1>2. CallsTyped' /\ \A k \in Calls : call'[k].object # None => call'[k] = call[k]
  BY EndStep, NothingTyped DEF Types, Forgotten
<1>3. MemorySound' /\ stored' \in [Workspaces -> Snapshots]
  BY <1>1, <1>2, ForgetStep DEF Types, Forgotten, MemorySound
<1>4. RestTyped' /\ ThreadsTyped'
  BY <1>3 DEF Types, RestTyped, ThreadsTyped, Forgotten, history
<1> QED
  BY <1>2, <1>3, <1>4 DEF Types

(* No step of the service, and nothing around it, breaks the types: in     *)
(* particular, a call goes on with an object of the session it is about.   *)
THEOREM NextTypes == Types /\ [Next]_vars => Types'
<1> SUFFICES ASSUME Types, [Next]_vars
             PROVE  Types'
  OBVIOUS
<1>0. 1..count \subseteq Ids
  BY Constants DEF Types, RestTyped, Ids
<1>1. CASE User
  BY <1>0, <1>1, StartChatTypes, StartAssistTypes, UseTypes, ResumeTypes, CancelStoredTypes,
     CancelNowTypes, InterruptTypes, DeleteThreadTypes DEF User
<1>2. ASSUME NEW c \in Calls, Continue(c)
      PROVE  Types'
  BY <1>2, DraftTypes, ClearTypes, ProfileTypes, PreviousTypes, RegisterTypes, RunTypes,
     BindTypes, HydrateTypes, AttachTypes, PrepareTypes, TurnTypes, AppendTurnsTypes,
     SummaryTypes, ForgottenTypes, CancelLoadedTypes DEF Continue
<1>3. CASE UNCHANGED vars
  <2>1. RestTyped' /\ ThreadsTyped' /\ CallsTyped' /\ UNCHANGED memory
    BY <1>3 DEF Types, RestTyped, ThreadsTyped, CallsTyped, vars, history
  <2>2. MemorySound'
    BY <1>3, <2>1, MemoryKept DEF Types, vars
  <2> QED
    BY <2>1, <2>2 DEF Types
<1> QED
  BY <1>1, <1>2, <1>3, OpenTypes, CloseTypes, CrashTypes DEF Next

-----------------------------------------------------------------------------
(* Bindings.                                                               *)

\* No session starts being started, and those that are stay what they are.
NoneStarts ==
    \A k \in Calls : Starting(k)' =>
        /\ Starting(k)
        /\ call'[k].id = call[k].id /\ call'[k].agent = call[k].agent
        /\ call'[k].ledger = call[k].ledger

LEMMA NoneStartsStep ==
    ASSUME CallsTyped, NEW c \in Calls, NEW r, GoOn(c, r),
           \/ r.pc \notin {"previous", "register", "run", "bind"}
           \/ /\ Starting(c)
              /\ r.id = call[c].id /\ r.agent = call[c].agent /\ r.ledger = call[c].ledger
    PROVE  NoneStarts
<1>1. call'[c] = r /\ \A k \in Calls \ {c} : call'[k] = call[k]
  BY DEF CallsTyped, GoOn
<1> QED
  BY <1>1 DEF NoneStarts, Starting

LEMMA NoneStartsEnd ==
    ASSUME CallsTyped, NEW c \in Calls, End(c)
    PROVE  NoneStarts
<1>1. NoCall.pc = "idle"
  BY DEF NoCall
<1> QED
  BY <1>1, EndIsGoOn, NoneStartsStep

LEMMA ResumingStage ==
    ASSUME NEW r \in CallShape, NEW s
    PROVE  Resuming(r, s).pc \in {"attach", "hydrate"}
<1>1. CASE active = s /\ sessions[s] # None
  <2>1. PICK found : found = IF object[sessions[s]].ledger = None THEN WorkspaceOf(s) ELSE None
    OBVIOUS
  <2>2. Resuming(r, s) = [r EXCEPT !.op = "resume", !.id = s, !.pc = "attach",
                                   !.object = sessions[s], !.found = found]
    BY <1>1, <2>1 DEF Resuming
  <2> QED
    BY <2>2 DEF CallShape
<1>2. CASE ~(active = s /\ sessions[s] # None)
  <2>1. Resuming(r, s) = [r EXCEPT !.op = "resume", !.id = s, !.pc = "hydrate",
                                   !.snap = stored[open]]
    BY <1>2 DEF Resuming
  <2> QED
    BY <2>1 DEF CallShape
<1> QED
  BY <1>1, <1>2

LEMMA BeginStarts ==
    ASSUME Types, NEW c \in Calls,
           \/ \E t \in Ids \cup {NewThread}, agent \in BOOLEAN : StartChat(c, t, agent)
           \/ StartAssist(c)
           \/ \E s \in Ids : \/ \E op \in {"message", "finalize"} : Use(c, op, s)
                             \/ Resume(c, s) \/ CancelStored(c, s)
    PROVE  NoneStarts /\ UNCHANGED <<thread, count, meta, spoiled>>
<1>1. \E r : Begin(c, r) /\ r.pc \notin {"previous", "register", "run", "bind"}
  <2>1. ASSUME NEW t \in Ids \cup {NewThread}, NEW agent \in BOOLEAN, StartChat(c, t, agent)
        PROVE  \E r : Begin(c, r) /\ r.pc \notin {"previous", "register", "run", "bind"}
    <3>1. PICK r : r = [NoCall EXCEPT !.op = "start", !.pc = "begin", !.ledger = t,
                                      !.path = open, !.agent = agent]
      OBVIOUS
    <3>2. r.pc = "begin"
      BY <3>1 DEF NoCall
    <3> QED
      BY <2>1, <3>1, <3>2 DEF StartChat
  <2>2. CASE StartAssist(c)
    <3>1. PICK r, l : r = [NoCall EXCEPT !.op = "start", !.pc = "begin"]
                   /\ l = [NoCall EXCEPT !.op = "start", !.pc = "draft", !.snap = stored[open]]
      OBVIOUS
    <3>2. r.pc = "begin" /\ l.pc = "draft"
      BY <3>1 DEF NoCall
    <3> QED
      BY <2>2, <3>1, <3>2 DEF StartAssist
  <2>3. ASSUME NEW s \in Ids, NEW op, Use(c, op, s)
        PROVE  \E r : Begin(c, r) /\ r.pc \notin {"previous", "register", "run", "bind"}
    <3>1. PICK r : r = [NoCall EXCEPT !.op = op, !.pc = "hydrate", !.id = s,
                                      !.snap = stored[open]]
      OBVIOUS
    <3>2. r.pc = "hydrate"
      BY <3>1 DEF NoCall
    <3> QED
      BY <2>3, <3>1, <3>2 DEF Use
  <2>4. ASSUME NEW s \in Ids, Resume(c, s)
        PROVE  \E r : Begin(c, r) /\ r.pc \notin {"previous", "register", "run", "bind"}
    <3>1. PICK r : r = Resuming(NoCall, s)
      OBVIOUS
    <3>2. r.pc \in {"attach", "hydrate"}
      BY <3>1, NothingTyped, ResumingStage
    <3> QED
      BY <2>4, <3>1, <3>2 DEF Resume
  <2>5. ASSUME NEW s \in Ids, CancelStored(c, s)
        PROVE  \E r : Begin(c, r) /\ r.pc \notin {"previous", "register", "run", "bind"}
    <3>1. PICK r : r = [NoCall EXCEPT !.op = "cancel", !.pc = "cancel", !.id = s,
                                      !.snap = stored[open]]
      OBVIOUS
    <3>2. r.pc = "cancel"
      BY <3>1 DEF NoCall
    <3> QED
      BY <2>5, <3>1, <3>2 DEF CancelStored
  <2> QED
    BY <2>1, <2>2, <2>3, <2>4, <2>5
<1>2. NoneStarts
  BY <1>1, NoneStartsStep DEF Begin, Types
<1>3. UNCHANGED <<thread, count, meta, spoiled>>
  BY DEF StartChat, StartAssist, Use, Resume, CancelStored
<1> QED
  BY <1>2, <1>3

\* Only Profile begins to start a session.
LEMMA OnlyProfileStarts ==
    ASSUME Types, NEW c \in Calls, Continue(c), ~Profile(c)
    PROVE  NoneStarts
<1> DEFINE r == call[c]
<1>0. r \in CallShape /\ CallsTyped
  BY CallAt DEF Types
<1>1. CASE Draft(c)
  <2>1. \E l : GoOn(c, l) /\ l.pc \notin {"previous", "register", "run", "bind"}
    <3>1. PICK l, m, n, e : /\ l = [r EXCEPT !.pc = "profile"]
                            /\ m = [r EXCEPT !.pc = "profile", !.snap = NoSnapshot]
                            /\ n = [r EXCEPT !.pc = "begin", !.snap = NoSnapshot]
                            /\ e = NoCall
      OBVIOUS
    <3>2. l.pc = "profile" /\ m.pc = "profile" /\ n.pc = "begin" /\ e.pc = "idle"
      BY <1>0, <3>1 DEF CallShape, NoCall
    <3>3. \A s : Resuming(r, s).pc \notin {"previous", "register", "run", "bind"}
      BY <1>0, ResumingStage
    <3>4. \/ GoOn(c, l) \/ GoOn(c, m) \/ GoOn(c, n) \/ GoOn(c, e)
          \/ \E s : GoOn(c, Resuming(r, s))
      BY <1>1, <3>1, EndIsGoOn DEF Draft
    <3> QED
      BY <3>2, <3>3, <3>4
  <2> QED
    BY <1>0, <2>1, NoneStartsStep
<1>2. CASE Clear(c)
  <2>1. PICK l : l = [r EXCEPT !.pc = "profile"]
    OBVIOUS
  <2>2. GoOn(c, l) /\ l.pc = "profile"
    BY <1>0, <1>2, <2>1 DEF CallShape, Clear
  <2> QED
    BY <1>0, <2>2, NoneStartsStep
<1>3. CASE Previous(c)
  <2>1. PICK l : l = [r EXCEPT !.pc = "register", !.found = None]
    OBVIOUS
  <2>2. GoOn(c, l) /\ l.id = r.id /\ l.agent = r.agent /\ l.ledger = r.ledger
    BY <1>0, <1>3, <2>1 DEF CallShape, Previous
  <2> QED
    BY <1>0, <1>3, <2>2, NoneStartsStep DEF Starting, Previous
<1>4. CASE Register(c)
  <2>1. PICK l : l = [r EXCEPT !.pc = "run"]
    OBVIOUS
  <2>2. l.id = r.id /\ l.agent = r.agent /\ l.ledger = r.ledger
    BY <1>0, <2>1 DEF CallShape
  <2>3. End(c) \/ GoOn(c, l)
    BY <1>4, <2>1 DEF Register
  <2> QED
    BY <1>0, <1>4, <2>2, <2>3, NoneStartsStep, NoneStartsEnd DEF Starting, Register
<1>5. CASE Run(c)
  <2>1. PICK l : l = [r EXCEPT !.pc = "bind", !.object = FreeSlot]
    OBVIOUS
  <2>2. l.id = r.id /\ l.agent = r.agent /\ l.ledger = r.ledger
    BY <1>0, <2>1 DEF CallShape
  <2>3. End(c) \/ GoOn(c, l)
    BY <1>5, <2>1 DEF Run
  <2> QED
    BY <1>0, <1>5, <2>2, <2>3, NoneStartsStep, NoneStartsEnd DEF Starting, Run
<1>6. CASE Hydrate(c)
  <2>1. End(c) \/ \E o, found : GoOn(c, [r EXCEPT !.pc = "attach", !.object = o,
                                           !.snap = NoSnapshot, !.found = found])
    BY <1>6 DEF Hydrate
  <2>2. \A o, found : [r EXCEPT !.pc = "attach", !.object = o,
                                !.snap = NoSnapshot, !.found = found].pc = "attach"
    BY <1>0 DEF CallShape
  <2> QED
    BY <1>0, <2>1, <2>2, NoneStartsStep, NoneStartsEnd
<1>7. CASE Attach(c)
  <2>1. PICK o, pc : o = sessions[r.id] /\ pc = IF r.op = "message" THEN "prepare" ELSE "summary"
    OBVIOUS
  <2>2. PICK objs : objs = [object EXCEPT ![r.object] = Attached(@, r.found)]
    OBVIOUS
  <2>3. PICK l : l = [r EXCEPT !.pc = pc, !.object = o, !.found = None,
                               !.seen = IF r.op = "message" THEN objs[o].answers ELSE 0]
    OBVIOUS
  <2>4. End(c) \/ GoOn(c, l)
    BY <1>7, <2>1, <2>2, <2>3 DEF Attach
  <2>5. l.pc \in {"prepare", "summary"}
    BY <1>0, <2>1, <2>3 DEF CallShape
  <2> QED
    BY <1>0, <2>4, <2>5, NoneStartsStep, NoneStartsEnd
<1>8. CASE Prepare(c)
  <2>1. PICK l : l = [r EXCEPT !.pc = "turn"]
    OBVIOUS
  <2>2. l.pc = "turn"
    BY <1>0, <2>1 DEF CallShape
  <2>3. End(c) \/ GoOn(c, l)
    BY <1>8, <2>1 DEF Prepare
  <2> QED
    BY <1>0, <2>2, <2>3, NoneStartsStep, NoneStartsEnd
<1>9. CASE Turn(c)
  <2>1. PICK l : l = [r EXCEPT !.pc = "append", !.seen = 0]
    OBVIOUS
  <2>2. l.pc = "append"
    BY <1>0, <2>1 DEF CallShape
  <2>3. End(c) \/ GoOn(c, l)
    BY <1>9, <2>1 DEF Turn
  <2> QED
    BY <1>0, <2>2, <2>3, NoneStartsStep, NoneStartsEnd
<1>10. CASE Summary(c)
  <2>1. PICK l : l = [r EXCEPT !.pc = "forget", !.object = None]
    OBVIOUS
  <2>2. l.pc = "forget"
    BY <1>0, <2>1 DEF CallShape
  <2>3. End(c) \/ GoOn(c, l)
    BY <1>10, <2>1 DEF Summary
  <2> QED
    BY <1>0, <2>2, <2>3, NoneStartsStep, NoneStartsEnd
<1>11. CASE Bind(c) \/ AppendTurns(c) \/ Forgotten(c) \/ CancelLoaded(c)
  BY <1>0, <1>11, NoneStartsEnd DEF Bind, AppendTurns, Forgotten, CancelLoaded
<1> QED
  BY <1>1, <1>2, <1>3, <1>4, <1>5, <1>6, <1>7, <1>8, <1>9, <1>10, <1>11 DEF Continue

\* Turns are deleted and threads unbound, and no session starts.
LEMMA BindingsKept ==
    ASSUME Types, Bindings, NoneStarts, UNCHANGED count,
           \A t \in Ids : /\ thread'[t].bound \in {thread[t].bound, None}
                          /\ thread'[t].turns \in {thread[t].turns, <<>>}
    PROVE  Bindings'
<1> USE Constants
<1>1. \A t \in Ids : TurnsOf(t)' \subseteq TurnsOf(t)
  BY DEF TurnsOf
<1>2. \A c \in Calls : Starting(c)' => Starting(c) /\ call'[c].id = call[c].id
  BY DEF NoneStarts
<1>3. \A t \in Ids : None \notin TurnsOf(t)
  BY DEF TurnsOf, Types, ThreadsTyped, ThreadShape
<1>4. (\A t \in Ids : thread[t].bound # None => thread[t].bound <= count)'
      /\ (\A t \in Ids : \A s \in TurnsOf(t) : s <= count)'
  BY <1>1 DEF Bindings
<1>5. (\A c \in Calls : Starting(c) =>
         /\ call[c].id <= count
         /\ \A t \in Ids : thread[t].bound # call[c].id /\ call[c].id \notin TurnsOf(t)
         /\ \A k \in Calls : Starting(k) /\ call[k].id = call[c].id => k = c)'
  <2>1. SUFFICES ASSUME NEW c \in Calls, Starting(c)'
                 PROVE  /\ call'[c].id <= count
                        /\ \A t \in Ids : /\ thread'[t].bound # call'[c].id
                                          /\ call'[c].id \notin TurnsOf(t)'
                        /\ \A k \in Calls : Starting(k)' /\ call'[k].id = call'[c].id => k = c
    OBVIOUS
  <2>2. Starting(c) /\ call'[c].id = call[c].id
    BY <1>2, <2>1
  <2>3. call[c].id # None
    BY <2>2, CallAt DEF Types, Starting, Sound, Named, Holding
  <2> QED
    BY <1>1, <1>2, <2>2, <2>3 DEF Bindings
<1>6. (\A t, u \in Ids : thread[t].bound # None /\ thread[t].bound = thread[u].bound => t = u)'
  BY DEF Bindings
<1>7. (\A t, u \in Ids : t # u => /\ thread[u].bound \notin TurnsOf(t)
                                  /\ TurnsOf(t) \cap TurnsOf(u) = {})'
  BY <1>1, <1>3 DEF Bindings
<1>8. (\A t \in Ids : LET q == thread[t].turns IN
         /\ \A i, k \in DOMAIN q : q[i] = q[k] => \A j \in i..k : q[j] = q[i]
         /\ \A i \in DOMAIN q : q[i] = thread[t].bound => \A j \in i..Len(q) : q[j] = q[i])'
  <2>1. SUFFICES ASSUME NEW t \in Ids, NEW q, q = thread'[t].turns
                 PROVE  /\ \A i, k \in DOMAIN q : q[i] = q[k] => \A j \in i..k : q[j] = q[i]
                        /\ \A i \in DOMAIN q : q[i] = thread'[t].bound =>
                             \A j \in i..Len(q) : q[j] = q[i]
    OBVIOUS
  <2>2. CASE q = <<>>
    BY <2>2
  <2>3. CASE q = thread[t].turns
    <3>1. \A i \in DOMAIN q : q[i] # None
      BY <2>3 DEF Types, ThreadsTyped, ThreadShape
    <3> QED
      BY <2>3, <3>1 DEF Bindings
  <2> QED
    BY <2>1, <2>2, <2>3
<1> QED
  BY <1>4, <1>5, <1>6, <1>7, <1>8 DEF Bindings

LEMMA ProfileBindings ==
    ASSUME Types, Bindings, NEW c \in Calls, Profile(c)
    PROVE  Bindings'
<1> USE Constants
<1>1. UNCHANGED thread
  BY DEF Profile
<1>2. CASE End(c) /\ UNCHANGED count
  BY <1>1, <1>2, NoneStartsEnd, BindingsKept DEF Types
<1>3. CASE count' = count + 1
  <2>1. count \in Nat
    BY DEF Types, RestTyped
  <2>2. \A k \in Calls \ {c} : call'[k] = call[k]
    BY DEF Profile, GoOn, End, Types, CallsTyped
  <2>3. Starting(c)' => call'[c].id = count + 1
    <3>1. CASE End(c)
      BY <3>1, EndStep DEF Types, Starting, NoCall
    <3>2. ASSUME NEW next, NEW found,
                 GoOn(c, [call[c] EXCEPT !.pc = next, !.id = count + 1, !.found = found])
          PROVE  call'[c].id = count + 1
      <4>1. call'[c] = [call[c] EXCEPT !.pc = next, !.id = count + 1, !.found = found]
        BY <3>2 DEF GoOn, Types, CallsTyped
      <4>2. call[c] \in CallShape
        BY DEF Types, CallsTyped
      <4> QED
        BY <4>1, <4>2 DEF CallShape
    <3>3. End(c) \/ \E next, found :
                      GoOn(c, [call[c] EXCEPT !.pc = next, !.id = count + 1, !.found = found])
      BY DEF Profile
    <3> QED
      BY <3>1, <3>2, <3>3
  <2>4. ~Starting(c)
    BY DEF Profile, Starting
  <2>5. \A k \in Calls : Starting(k)' =>
          \/ k = c /\ call'[k].id = count + 1
          \/ k # c /\ Starting(k) /\ call'[k].id = call[k].id
    BY <2>2, <2>3 DEF Starting
  <2>6. \A t \in Ids : TurnsOf(t)' = TurnsOf(t)
    BY <1>1 DEF TurnsOf
  <2>7. \A t \in Ids : thread[t].bound # count + 1 /\ count + 1 \notin TurnsOf(t)
    <3>1. \A t \in Ids : thread[t].bound \in Nat \cup {None}
      BY DEF Types, ThreadsTyped, ThreadShape, MaybeIds, Ids
    <3>2. count + 1 \in Nat /\ ~(count + 1 <= count) /\ None \notin Nat
      BY <2>1, NoneAssumption
    <3>3. \A t \in Ids : /\ thread[t].bound # None => thread[t].bound <= count
                         /\ \A s \in TurnsOf(t) : s <= count
      BY DEF Bindings
    <3> QED
      BY <3>1, <3>2, <3>3
  <2>8. \A k \in Calls : Starting(k) => call[k].id # count + 1 /\ call[k].id <= count + 1
    <3>1. \A k \in Calls : Starting(k) => call[k].id \in Nat
      BY CallAt DEF Types, Starting, Sound, Named, Holding, Ids
    <3> QED
      BY <2>1, <3>1 DEF Bindings
  <2>9. (\A t \in Ids : thread[t].bound # None => thread[t].bound <= count)'
        /\ (\A t \in Ids : \A s \in TurnsOf(t) : s <= count)'
    <3>1. \A t \in Ids : thread[t].bound \in Nat \cup {None} /\ TurnsOf(t) \subseteq Nat
      BY DEF TurnsOf, Types, ThreadsTyped, ThreadShape, MaybeIds, Ids
    <3> QED
      BY <1>1, <1>3, <2>1, <2>6, <3>1 DEF Bindings
  <2>10. (\A k \in Calls : Starting(k) =>
         /\ call[k].id <= count
         /\ \A t \in Ids : thread[t].bound # call[k].id /\ call[k].id \notin TurnsOf(t)
         /\ \A l \in Calls : Starting(l) /\ call[l].id = call[k].id => l = k)'
    BY <1>1, <1>3, <2>1, <2>5, <2>6, <2>7, <2>8 DEF Bindings
  <2> QED
    BY <1>1, <2>6, <2>9, <2>10 DEF Bindings
<1> QED
  BY <1>2, <1>3 DEF Profile

LEMMA BindBindings ==
    ASSUME Types, Bindings, NEW c \in Calls, Bind(c)
    PROVE  Bindings'
<1> USE Constants
<1>1. NoneStarts /\ ~Starting(c)' /\ UNCHANGED count
  BY NoneStartsEnd, EndStep DEF Bind, Types, Starting, NoCall
<1>2. CASE UNCHANGED thread
  BY <1>1, <1>2, BindingsKept
<1>3. ASSUME NEW s, s = call[c].id, NEW t \in Ids, NEW row, row.bound = s,
             row.turns \in {thread[t].turns, <<>>},
             thread' = [thread EXCEPT ![t] = row]
      PROVE  Bindings'
  <2>1. Starting(c) /\ s \in Ids
    BY <1>3, CallAt DEF Types, Bind, Starting, Sound, Named, Holding
  <2>2. s <= count /\ (\A u \in Ids : thread[u].bound # s /\ s \notin TurnsOf(u))
        /\ (\A k \in Calls : Starting(k) /\ call[k].id = s => k = c)
    BY <1>3, <2>1 DEF Bindings
  <2>3. /\ thread'[t].bound = s /\ thread'[t].turns \in {thread[t].turns, <<>>}
        /\ \A u \in Ids \ {t} : thread'[u] = thread[u]
    BY <1>3 DEF Types, ThreadsTyped
  <2>4. \A u \in Ids : TurnsOf(u)' \subseteq TurnsOf(u)
    BY <2>3 DEF TurnsOf
  <2>5. \A k \in Calls : Starting(k)' =>
          Starting(k) /\ call'[k].id = call[k].id /\ call[k].id # s
    BY <1>1, <2>2 DEF NoneStarts
  <2>6. (\A u \in Ids : thread[u].bound # None => thread[u].bound <= count)'
        /\ (\A u \in Ids : \A v \in TurnsOf(u) : v <= count)'
    BY <1>1, <2>2, <2>3, <2>4 DEF Bindings
  <2>7. (\A k \in Calls : Starting(k) =>
         /\ call[k].id <= count
         /\ \A u \in Ids : thread[u].bound # call[k].id /\ call[k].id \notin TurnsOf(u)
         /\ \A l \in Calls : Starting(l) /\ call[l].id = call[k].id => l = k)'
    BY <1>1, <2>3, <2>4, <2>5 DEF Bindings
  <2>8. (\A u, v \in Ids : thread[u].bound # None /\ thread[u].bound = thread[v].bound => u = v)'
    BY <2>2, <2>3 DEF Bindings
  <2>9. (\A u, v \in Ids : u # v => /\ thread[v].bound \notin TurnsOf(u)
                                    /\ TurnsOf(u) \cap TurnsOf(v) = {})'
    BY <2>2, <2>3, <2>4 DEF Bindings
  <2>10. (\A u \in Ids : LET q == thread[u].turns IN
         /\ \A i, k \in DOMAIN q : q[i] = q[k] => \A j \in i..k : q[j] = q[i]
         /\ \A i \in DOMAIN q : q[i] = thread[u].bound => \A j \in i..Len(q) : q[j] = q[i])'
    <3>1. SUFFICES ASSUME NEW u \in Ids, NEW q, q = thread'[u].turns
                   PROVE  /\ \A i, k \in DOMAIN q : q[i] = q[k] => \A j \in i..k : q[j] = q[i]
                          /\ \A i \in DOMAIN q : q[i] = thread'[u].bound =>
                               \A j \in i..Len(q) : q[j] = q[i]
      OBVIOUS
    <3>2. CASE u # t
      BY <2>3, <3>1, <3>2 DEF Bindings
    <3>3. CASE u = t
      <4>1. \A i \in DOMAIN q : q[i] # s
        BY <2>2, <2>3, <3>1, <3>3 DEF TurnsOf
      <4>2. \A i, k \in DOMAIN q : q[i] = q[k] => \A j \in i..k : q[j] = q[i]
        BY <2>3, <3>1, <3>3 DEF Bindings
      <4> QED
        BY <2>3, <3>3, <4>1, <4>2
    <3> QED
      BY <3>2, <3>3
  <2> QED
    BY <2>6, <2>7, <2>8, <2>9, <2>10 DEF Bindings
<1>4. \/ UNCHANGED thread
      \/ \E t \in Ids : \E row : /\ row.bound = call[c].id
                                 /\ row.turns \in {thread[t].turns, <<>>}
                                 /\ thread' = [thread EXCEPT ![t] = row]
  <2>1. PICK r : r = call[c]
    OBVIOUS
  <2>2. r \in CallShape /\ Sound(r) /\ r.pc = "bind"
    BY <2>1, CallAt DEF Types, Bind
  <2>3. PICK t, row :
          /\ t = IF r.ledger = NewThread THEN r.id ELSE r.ledger
          /\ row = IF r.ledger = NewThread
                   THEN [db |-> open, path |-> r.path, bound |-> r.id, agent |-> r.agent,
                         turns |-> <<>>]
                   ELSE [thread[t] EXCEPT !.bound = r.id, !.agent = r.agent]
    OBVIOUS
  <2>4. t \in Ids
    BY <2>2, <2>3 DEF Sound, Holding, Named, CallShape, MaybeIds
  <2>5. row.bound = r.id /\ row.turns \in {thread[t].turns, <<>>}
    <3>1. thread[t] \in ThreadShape
      BY <2>4 DEF Types, ThreadsTyped
    <3> QED
      BY <2>3, <3>1 DEF ThreadShape
  <2>6. UNCHANGED thread \/ thread' = [thread EXCEPT ![t] = row]
    BY <2>1, <2>3 DEF Bind
  <2> QED
    BY <2>1, <2>4, <2>5, <2>6
<1> QED
  BY <1>2, <1>3, <1>4

\* The turns of a thread grow at the end, by a turn of the session it is bound to.
LEMMA AppendBindings ==
    ASSUME Types, Bindings, NEW c \in Calls, AppendTurns(c)
    PROVE  Bindings'
<1> USE Constants
<1>1. NoneStarts /\ UNCHANGED count
  BY NoneStartsEnd DEF AppendTurns, Types
<1>2. CASE UNCHANGED thread
  BY <1>1, <1>2, BindingsKept
<1>3. ASSUME NEW t \in Ids, NEW s \in Ids, thread[t].bound = s,
             thread' = [thread EXCEPT ![t].turns = Append(@, s)]
      PROVE  Bindings'
  <2>1. thread[t] \in ThreadShape /\ thread[t].turns \in Seq(Ids)
    BY DEF Types, ThreadsTyped, ThreadShape
  <2>2. /\ thread'[t].bound = s /\ thread'[t].turns = Append(thread[t].turns, s)
        /\ \A u \in Ids \ {t} : thread'[u] = thread[u]
    BY <1>3, <2>1 DEF Types, ThreadsTyped, ThreadShape
  <2>3. PICK p, q : p = thread[t].turns /\ q = thread'[t].turns
    OBVIOUS
  <2>4. /\ p \in Seq(Ids) /\ q \in Seq(Ids) /\ Len(q) = Len(p) + 1 /\ Len(p) \in Nat
        /\ DOMAIN p = 1..Len(p) /\ DOMAIN q = 1..Len(p) + 1
        /\ \A i \in 1..Len(p) : q[i] = p[i]
        /\ q[Len(p) + 1] = s
    <3>1. q = Append(p, s)
      BY <2>2, <2>3
    <3> QED
      BY <2>1, <2>3, <3>1
  <2>5. TurnsOf(t)' = TurnsOf(t) \cup {s} /\ \A u \in Ids \ {t} : TurnsOf(u)' = TurnsOf(u)
    <3>1. TurnsOf(t) = {p[i] : i \in DOMAIN p} /\ TurnsOf(t)' = {q[i] : i \in DOMAIN q}
      BY <2>3 DEF TurnsOf
    <3>2. TurnsOf(t)' = TurnsOf(t) \cup {s}
      BY <2>4, <3>1
    <3>3. ASSUME NEW u \in Ids \ {t}
          PROVE  TurnsOf(u)' = TurnsOf(u)
      BY <2>2 DEF TurnsOf
    <3> QED
      BY <3>2, <3>3
  <2>6. \A u \in Ids : thread'[u].bound = thread[u].bound
    BY <1>3, <2>2
  <2>7. s <= count /\ (\A u \in Ids \ {t} : thread[u].bound # s /\ s \notin TurnsOf(u))
        /\ (\A k \in Calls : Starting(k) => call[k].id # s)
    BY <1>3 DEF Bindings
  <2>8. \A k \in Calls : Starting(k)' => Starting(k) /\ call'[k].id = call[k].id
    BY <1>1 DEF NoneStarts
  <2>9. (\A u \in Ids : thread[u].bound # None => thread[u].bound <= count)'
        /\ (\A u \in Ids : \A v \in TurnsOf(u) : v <= count)'
    BY <1>1, <2>5, <2>6, <2>7 DEF Bindings
  <2>10. (\A k \in Calls : Starting(k) =>
         /\ call[k].id <= count
         /\ \A u \in Ids : thread[u].bound # call[k].id /\ call[k].id \notin TurnsOf(u)
         /\ \A l \in Calls : Starting(l) /\ call[l].id = call[k].id => l = k)'
    BY <1>1, <2>5, <2>6, <2>7, <2>8 DEF Bindings
  <2>11. (\A u, v \in Ids : thread[u].bound # None /\ thread[u].bound = thread[v].bound => u = v)'
    BY <2>6 DEF Bindings
  <2>12. (\A u, v \in Ids : u # v => /\ thread[v].bound \notin TurnsOf(u)
                                     /\ TurnsOf(u) \cap TurnsOf(v) = {})'
    <3>1. SUFFICES ASSUME NEW u \in Ids, NEW v \in Ids, u # v
                   PROVE  /\ thread'[v].bound \notin TurnsOf(u)'
                          /\ TurnsOf(u)' \cap TurnsOf(v)' = {}
      OBVIOUS
    <3>2. thread[v].bound \notin TurnsOf(u) /\ TurnsOf(u) \cap TurnsOf(v) = {}
      BY <3>1 DEF Bindings
    <3> QED
      BY <2>5, <2>6, <2>7, <3>1, <3>2
  <2>13. (\A u \in Ids : LET w == thread[u].turns IN
         /\ \A i, k \in DOMAIN w : w[i] = w[k] => \A j \in i..k : w[j] = w[i]
         /\ \A i \in DOMAIN w : w[i] = thread[u].bound => \A j \in i..Len(w) : w[j] = w[i])'
    <3>1. /\ \A i, k \in DOMAIN p : p[i] = p[k] => \A j \in i..k : p[j] = p[i]
          /\ \A i \in DOMAIN p : p[i] = s => \A j \in i..Len(p) : p[j] = p[i]
      BY <1>3, <2>3 DEF Bindings
    <3>2. \A i, k \in DOMAIN q : q[i] = q[k] => \A j \in i..k : q[j] = q[i]
      <4>1. SUFFICES ASSUME NEW i \in DOMAIN q, NEW k \in DOMAIN q, q[i] = q[k], NEW j \in i..k
                     PROVE  q[j] = q[i]
        OBVIOUS
      <4>2. CASE k = Len(p) + 1 /\ i # k
        BY <2>4, <3>1, <4>1, <4>2
      <4>3. CASE k \in DOMAIN p
        BY <2>4, <3>1, <4>1, <4>3
      <4>4. CASE i = k
        BY <2>4, <4>1, <4>4
      <4> QED
        BY <2>4, <4>2, <4>3, <4>4
    <3>3. \A i \in DOMAIN q : q[i] = s => \A j \in i..Len(q) : q[j] = q[i]
      BY <2>4, <3>1
    <3>4. ASSUME NEW u \in Ids \ {t}, NEW w, w = thread[u].turns
          PROVE  /\ \A i, k \in DOMAIN w : w[i] = w[k] => \A j \in i..k : w[j] = w[i]
                 /\ \A i \in DOMAIN w : w[i] = thread[u].bound => \A j \in i..Len(w) : w[j] = w[i]
      BY <3>4 DEF Bindings
    <3>5. ASSUME NEW u \in Ids, NEW w, w = thread'[u].turns
          PROVE  /\ \A i, k \in DOMAIN w : w[i] = w[k] => \A j \in i..k : w[j] = w[i]
                 /\ \A i \in DOMAIN w : w[i] = thread'[u].bound => \A j \in i..Len(w) : w[j] = w[i]
      <4>1. CASE u = t
        <5>1. w = q /\ thread'[u].bound = s
          BY <2>2, <2>3, <3>5, <4>1
        <5> QED
          BY <3>2, <3>3, <5>1
      <4>2. CASE u # t
        <5>1. thread'[u] = thread[u]
          BY <2>2, <4>2
        <5> QED
          BY <3>4, <3>5, <4>2, <5>1
      <4> QED
        BY <4>1, <4>2
    <3> QED
      BY <3>5
  <2> QED
    BY <2>9, <2>10, <2>11, <2>12, <2>13 DEF Bindings
<1>4. UNCHANGED thread \/ \E t \in Ids : /\ thread[t].bound = call[c].id
                                         /\ thread' = [thread EXCEPT ![t].turns =
                                                         Append(@, call[c].id)]
  BY DEF AppendTurns, Bound
<1>5. call[c].id \in Ids
  BY CallAt DEF Types, AppendTurns, Sound, Named, Holding
<1> QED
  BY <1>2, <1>3, <1>4, <1>5

LEMMA SummaryThreads ==
    ASSUME Types, NEW c \in Calls, Summary(c)
    PROVE  \A t \in Ids :
             /\ thread'[t].bound \in {thread[t].bound, None} /\ thread'[t].turns = thread[t].turns
             /\ thread'[t].agent = thread[t].agent
             /\ thread'[t].db = thread[t].db /\ thread'[t].path = thread[t].path
<1>1. CASE UNCHANGED thread
  BY <1>1
<1>2. ASSUME NEW rows, rows = {t \in Ids : Bound(t, call[c].id, object[call[c].object].ledger)},
             thread' = [t \in Ids |-> IF t \in rows THEN [thread[t] EXCEPT !.bound = None]
                                      ELSE thread[t]],
             NEW t \in Ids
      PROVE  /\ thread'[t].bound \in {thread[t].bound, None} /\ thread'[t].turns = thread[t].turns
             /\ thread'[t].agent = thread[t].agent
             /\ thread'[t].db = thread[t].db /\ thread'[t].path = thread[t].path
  BY <1>2 DEF Types, ThreadsTyped, ThreadShape
<1> QED
  BY <1>1, <1>2 DEF Summary

LEMMA AppendThreads ==
    ASSUME Types, NEW c \in Calls, AppendTurns(c)
    PROVE  \A t \in Ids :
             /\ thread'[t].bound = thread[t].bound /\ thread'[t].agent = thread[t].agent
             /\ thread'[t].db = thread[t].db /\ thread'[t].path = thread[t].path
<1>1. CASE UNCHANGED thread
  BY <1>1
<1>2. ASSUME NEW u \in Ids, thread' = [thread EXCEPT ![u].turns = Append(@, call[c].id)],
             NEW t \in Ids
      PROVE  /\ thread'[t].bound = thread[t].bound /\ thread'[t].agent = thread[t].agent
             /\ thread'[t].db = thread[t].db /\ thread'[t].path = thread[t].path
  <2>1. PICK q : q = Append(thread[u].turns, call[c].id)
    OBVIOUS
  <2>2. thread' = [thread EXCEPT ![u] = [thread[u] EXCEPT !.turns = q]]
    BY <1>2, <2>1 DEF Types, ThreadsTyped
  <2> QED
    BY <1>2, <2>2 DEF Types, ThreadsTyped, ThreadShape
<1>3. UNCHANGED thread \/ \E u \in Ids : thread' = [thread EXCEPT ![u].turns =
                                                     Append(@, call[c].id)]
  BY DEF AppendTurns
<1> QED
  BY <1>1, <1>2, <1>3

\* The steps that leave the bindings alone.
LEMMA BindingsElsewhere ==
    ASSUME Types, Bindings, NoneStarts, UNCHANGED <<count, thread>>
    PROVE  Bindings'
  BY BindingsKept

(* No step binds a session to two threads, or lets a turn into a thread    *)
(* that its session is not bound to (createThreadOnStartSuccess,           *)
(* appendInteractiveMessage and clearActiveSession of                      *)
(* ComposerConversationLedgerWriter).                                      *)
THEOREM NextBindings == Types /\ Bindings /\ [Next]_vars => Bindings'
<1> SUFFICES ASSUME Types, Bindings, [Next]_vars
             PROVE  Bindings'
  OBVIOUS
<1>0. 1..count \subseteq Ids
  BY Constants DEF Types, RestTyped, Ids
<1>1. CASE User
  <2>1. ASSUME NEW t \in Ids, DeleteThread(t)
        PROVE  Bindings'
    <3>1. NoneStarts /\ UNCHANGED count
      BY <2>1 DEF DeleteThread, NoneStarts, Starting
    <3>2. \A u \in Ids : /\ thread'[u].bound \in {thread[u].bound, None}
                         /\ thread'[u].turns \in {thread[u].turns, <<>>}
      BY <2>1 DEF DeleteThread, NoThread, Types, ThreadsTyped
    <3> QED
      BY <3>1, <3>2, BindingsKept
  <2>2. ASSUME NEW s \in Ids, CancelNow(s)
        PROVE  Bindings'
    BY <2>2, BindingsElsewhere DEF CancelNow, NoneStarts, Starting
  <2>3. ASSUME NEW s \in Ids, Interrupt(s)
        PROVE  Bindings'
    BY <2>3, InterruptTypes, BindingsElsewhere DEF Interrupt, NoneStarts, Starting, OnlyAborts
  <2> QED
    BY <1>0, <1>1, <2>1, <2>2, <2>3, BeginStarts, BindingsElsewhere DEF User
<1>2. ASSUME NEW c \in Calls, Continue(c)
      PROVE  Bindings'
  <2>1. CASE Profile(c)
    BY <2>1, ProfileBindings
  <2>2. CASE Bind(c)
    BY <2>2, BindBindings
  <2>3. CASE AppendTurns(c)
    BY <2>3, AppendBindings
  <2>4. CASE Summary(c) /\ ~Profile(c)
    BY <1>2, <2>4, SummaryThreads, OnlyProfileStarts, BindingsKept DEF Summary
  <2>5. CASE UNCHANGED <<count, thread>> /\ ~Profile(c)
    BY <1>2, <2>5, OnlyProfileStarts, BindingsElsewhere
  <2>6. \/ Profile(c) \/ Bind(c) \/ AppendTurns(c) \/ Summary(c)
        \/ UNCHANGED <<count, thread>>
    BY <1>2 DEF Continue, Draft, Clear, Previous, Register, Run, Hydrate, Attach, Prepare, Turn,
                Forgotten, CancelLoaded, Early
  <2> QED
    BY <2>1, <2>2, <2>3, <2>4, <2>5, <2>6
<1>3. ASSUME NEW w \in Workspaces, OpenWorkspace(w)
      PROVE  Bindings'
  BY <1>3, BindingsElsewhere DEF OpenWorkspace, NoneStarts, Starting
<1>4. CASE CloseWorkspace
  BY <1>4, CloseTypes, BindingsElsewhere DEF CloseWorkspace, NoneStarts, Starting, OnlyAborts
<1>5. CASE Crash
  BY <1>5, BindingsElsewhere DEF Crash, NoneStarts, Starting, NoCall
<1>6. CASE UNCHANGED vars
  BY <1>6, BindingsElsewhere DEF vars, NoneStarts, Starting
<1> QED
  BY <1>1, <1>2, <1>3, <1>4, <1>5, <1>6 DEF Next

-----------------------------------------------------------------------------
(* The registry.                                                           *)

StagesKept ==
    \A k \in Calls :
        /\ call'[k].pc \in {"run", "bind"} => call[k].pc \in {"run", "bind"}
        /\ call'[k].pc = "previous" => call[k].pc = "previous" /\ call'[k].found = call[k].found

LEMMA RegisteredKept ==
    ASSUME Registered, NoneStarts, StagesKept, UNCHANGED <<meta, count, spoiled>>,
           \A t \in Ids : \/ thread'[t].bound = None
                          \/ thread'[t].bound = thread[t].bound /\ thread'[t].agent = thread[t].agent
    PROVE  Registered'
<1>1. (\A t \in Ids \ spoiled :
         thread[t].agent /\ thread[t].bound # None => meta[thread[t].bound] = t)'
  BY DEF Registered
<1>2. (\A c \in Calls : call[c].pc \in {"run", "bind"} /\ call[c].agent =>
         meta[call[c].id] = Registration(call[c]))'
  BY DEF Registered, NoneStarts, StagesKept, Registration, Starting
<1>3. (\A c \in Calls : call[c].pc = "previous" /\ call[c].found # None =>
         /\ call[c].found <= count
         /\ \A t \in Ids : thread[t].bound = call[c].found => t = call[c].ledger
         /\ \A k \in Calls : Starting(k) => call[k].id # call[c].found)'
  <2>1. \A k \in Calls : Starting(k)' => /\ Starting(k) /\ call'[k].id = call[k].id
                                         /\ call'[k].ledger = call[k].ledger
    BY DEF NoneStarts
  <2>2. SUFFICES ASSUME NEW c \in Calls, call'[c].pc = "previous", call'[c].found # None
                 PROVE  /\ call'[c].found <= count
                        /\ \A t \in Ids : thread'[t].bound = call'[c].found => t = call'[c].ledger
                        /\ \A k \in Calls : Starting(k)' => call'[k].id # call'[c].found
    OBVIOUS
  <2>3. call[c].pc = "previous" /\ call'[c].found = call[c].found /\ Starting(c)'
    BY <2>2 DEF StagesKept, Starting
  <2> QED
    BY <2>1, <2>2, <2>3 DEF Registered
<1> QED
  BY <1>1, <1>2, <1>3 DEF Registered

LEMMA StagesKeptStep ==
    ASSUME CallsTyped, NoneStarts, NEW c \in Calls, NEW r, GoOn(c, r),
           call[c].pc \notin {"previous", "register"},
           Starting(c) => r.pc \in {"bind", "idle"}
    PROVE  StagesKept
<1>1. call'[c] = r /\ \A k \in Calls \ {c} : call'[k] = call[k]
  BY DEF CallsTyped, GoOn
<1> QED
  BY <1>1 DEF StagesKept, NoneStarts, Starting

LEMMA PreviousRegistered ==
    ASSUME Types, Registered, NEW c \in Calls, Previous(c)
    PROVE  Registered'
<1> USE Constants
<1>1. PICK r : r = call[c]
  OBVIOUS
<1>2. r \in CallShape /\ Sound(r) /\ r.pc = "previous"
  BY <1>1, CallAt DEF Types, Previous
<1>3. r.ledger \in Ids /\ r.found \in MaybeIds
  BY <1>2 DEF Sound, CallShape, MaybeIds
<1>4. PICK l : l = [r EXCEPT !.pc = "register", !.found = None]
  OBVIOUS
<1>5. l.pc = "register" /\ l.id = r.id /\ l.agent = r.agent /\ l.ledger = r.ledger
  BY <1>2, <1>4 DEF CallShape
<1>6. call'[c] = l /\ (\A k \in Calls \ {c} : call'[k] = call[k]) /\ UNCHANGED <<thread, count>>
  BY <1>1, <1>4 DEF Previous, GoOn, Types, CallsTyped, Early
<1>7. \A k \in Calls : Starting(k)' => Starting(k) /\ call'[k].id = call[k].id
  BY <1>1, <1>2, <1>5, <1>6 DEF Starting
<1>8. r.found # None => /\ \A t \in Ids : thread[t].bound = r.found => t = r.ledger
                        /\ \A k \in Calls : Starting(k) => call[k].id # r.found
  BY <1>1, <1>2 DEF Registered
<1>9. /\ spoiled \subseteq spoiled'
      /\ \A s \in Ids : meta'[s] = meta[s] \/ (s = r.found /\ r.found # None /\ r.ledger \in spoiled')
  BY <1>1, <1>3 DEF Previous, Types, RestTyped
<1>10. (\A t \in Ids \ spoiled :
         thread[t].agent /\ thread[t].bound # None => meta[thread[t].bound] = t)'
  <2>1. \A t \in Ids : thread[t].bound # None => thread[t].bound \in Ids
    BY DEF Types, ThreadsTyped, ThreadShape, MaybeIds
  <2> QED
    BY <1>6, <1>8, <1>9, <2>1 DEF Registered
<1>11. (\A k \in Calls : call[k].pc \in {"run", "bind"} /\ call[k].agent =>
         meta[call[k].id] = Registration(call[k]))'
  <2>1. SUFFICES ASSUME NEW k \in Calls, call'[k].pc \in {"run", "bind"}, call'[k].agent
                 PROVE  meta'[call'[k].id] = Registration(call'[k])
    OBVIOUS
  <2>2. call'[k] = call[k] /\ Starting(k)
    BY <1>5, <1>6, <2>1 DEF Starting
  <2>3. call[k].id \in Ids
    BY <2>2, CallAt DEF Types, Sound, Named, Holding, Starting
  <2>4. meta'[call[k].id] = meta[call[k].id]
    BY <1>8, <1>9, <2>2, <2>3
  <2> QED
    BY <2>1, <2>2, <2>4 DEF Registered
<1>12. (\A k \in Calls : call[k].pc = "previous" /\ call[k].found # None =>
         /\ call[k].found <= count
         /\ \A t \in Ids : thread[t].bound = call[k].found => t = call[k].ledger
         /\ \A m \in Calls : Starting(m) => call[m].id # call[k].found)'
  BY <1>5, <1>6, <1>7 DEF Registered
<1> QED
  BY <1>10, <1>11, <1>12 DEF Registered

LEMMA RegisterRegistered ==
    ASSUME Types, Bindings, Registered, NEW c \in Calls, Register(c)
    PROVE  Registered'
<1> USE Constants
<1>1. PICK r : r = call[c]
  OBVIOUS
<1>2. r \in CallShape /\ Sound(r) /\ r.pc = "register"
  BY <1>1, CallAt DEF Types, Register
<1>3. r.id \in Ids /\ Starting(c)
  BY <1>1, <1>2 DEF Sound, Named, Holding, Starting
<1>4. UNCHANGED <<thread, count, spoiled>>
  BY DEF Register, Early
<1>5. CASE End(c) /\ UNCHANGED meta
  <2>1. NoneStarts
    BY <1>5, NoneStartsEnd DEF Types
  <2>2. StagesKept
    BY <1>5, EndStep DEF StagesKept, Types, NoCall
  <2> QED
    BY <1>4, <1>5, <2>1, <2>2, RegisteredKept
<1>6. ASSUME NEW l, l = [r EXCEPT !.pc = "run"], GoOn(c, l),
             meta' = [meta EXCEPT ![r.id] = Registration(r)]
      PROVE  Registered'
  <2>1. l.pc = "run" /\ l.id = r.id /\ l.agent = r.agent /\ l.ledger = r.ledger
    BY <1>2, <1>6 DEF CallShape
  <2>2. call'[c] = l /\ \A k \in Calls \ {c} : call'[k] = call[k]
    BY <1>6 DEF GoOn, Types, CallsTyped
  <2>3. \A k \in Calls : Starting(k)' => Starting(k) /\ call'[k].id = call[k].id
    BY <1>1, <1>3, <2>1, <2>2 DEF Starting
  <2>4. meta'[r.id] = Registration(r) /\ \A s \in Ids \ {r.id} : meta'[s] = meta[s]
    BY <1>3, <1>6 DEF Types, RestTyped
  <2>5. /\ \A t \in Ids : thread[t].bound # r.id
        /\ \A k \in Calls : Starting(k) /\ call[k].id = r.id => k = c
    BY <1>1, <1>3 DEF Bindings
  <2>6. (\A t \in Ids \ spoiled :
           thread[t].agent /\ thread[t].bound # None => meta[thread[t].bound] = t)'
    <3>1. \A t \in Ids : thread[t].bound # None => thread[t].bound \in Ids
      BY DEF Types, ThreadsTyped, ThreadShape, MaybeIds
    <3> QED
      BY <1>4, <2>4, <2>5, <3>1 DEF Registered
  <2>7. (\A k \in Calls : call[k].pc \in {"run", "bind"} /\ call[k].agent =>
           meta[call[k].id] = Registration(call[k]))'
    <3>1. SUFFICES ASSUME NEW k \in Calls, call'[k].pc \in {"run", "bind"}, call'[k].agent
                   PROVE  meta'[call'[k].id] = Registration(call'[k])
      OBVIOUS
    <3>2. CASE k = c
      BY <2>1, <2>2, <2>4, <3>2 DEF Registration
    <3>3. CASE k # c
      <4>1. call'[k] = call[k] /\ Starting(k)
        BY <2>2, <3>1, <3>3 DEF Starting
      <4>2. call[k].id \in Ids /\ call[k].id # r.id
        BY <2>5, <3>3, <4>1, CallAt DEF Types, Sound, Named, Holding, Starting
      <4> QED
        BY <2>4, <3>1, <4>1, <4>2 DEF Registered
    <3> QED
      BY <3>2, <3>3
  <2>8. (\A k \in Calls : call[k].pc = "previous" /\ call[k].found # None =>
           /\ call[k].found <= count
           /\ \A t \in Ids : thread[t].bound = call[k].found => t = call[k].ledger
           /\ \A m \in Calls : Starting(m) => call[m].id # call[k].found)'
    BY <1>4, <2>1, <2>2, <2>3 DEF Registered
  <2> QED
    BY <2>6, <2>7, <2>8 DEF Registered
<1> QED
  BY <1>1, <1>5, <1>6 DEF Register

\* What Bind leaves: the row of the thread it binds the session to, or no registration.
LEMMA BindOutcome ==
    ASSUME Types, NEW c \in Calls, Bind(c)
    PROVE  LET r == call[c]
               t == Registration(r)
           IN  /\ t \in Ids /\ r.id \in Ids
               /\ \/ /\ UNCHANGED <<meta, sessions, active, stored>> /\ spoiled' = spoiled \ {t}
                     /\ open # None
                     /\ thread'[t].bound = r.id /\ thread'[t].agent = r.agent
                     /\ IF r.ledger = NewThread
                        THEN /\ thread'[t].db = open /\ thread'[t].path = r.path
                             /\ thread'[t].turns = <<>>
                        ELSE /\ thread[t].db = open /\ thread[t].path = r.path
                             /\ thread'[t].db = open /\ thread'[t].path = r.path
                             /\ thread'[t].turns = thread[t].turns
                     /\ \A u \in Ids \ {t} : thread'[u] = thread[u]
                  \/ /\ UNCHANGED <<thread, spoiled>> /\ Forget(r.id)
                     /\ meta' = IF r.agent THEN [meta EXCEPT ![r.id] = None] ELSE meta
<1>1. PICK r : r = call[c]
  OBVIOUS
<1>2. r \in CallShape /\ Sound(r) /\ r.pc = "bind"
  BY <1>1, CallAt DEF Types, Bind
<1>3. PICK t, row :
        /\ t = Registration(r)
        /\ row = IF r.ledger = NewThread
                 THEN [db |-> open, path |-> r.path, bound |-> r.id, agent |-> r.agent,
                       turns |-> <<>>]
                 ELSE [thread[t] EXCEPT !.bound = r.id, !.agent = r.agent]
  OBVIOUS
<1>4. t \in Ids /\ r.id \in Ids
  BY <1>2, <1>3 DEF Sound, Holding, Named, CallShape, MaybeIds, Registration
<1>5. thread[t] \in ThreadShape
  BY <1>4 DEF Types, ThreadsTyped
<1>6. \/ /\ open # None
         /\ r.ledger # NewThread => thread[t].db = open /\ thread[t].path = r.path
         /\ thread' = [thread EXCEPT ![t] = row]
         /\ spoiled' = spoiled \ {t}
         /\ UNCHANGED <<sessions, active, meta, stored>>
      \/ /\ meta' = IF r.agent THEN [meta EXCEPT ![r.id] = None] ELSE meta
         /\ Forget(r.id)
         /\ UNCHANGED <<thread, spoiled>>
  BY <1>1, <1>3 DEF Bind, Registration
<1>7. thread' = [thread EXCEPT ![t] = row] =>
        thread'[t] = row /\ \A u \in Ids \ {t} : thread'[u] = thread[u]
  BY <1>4 DEF Types, ThreadsTyped
<1>8. row.bound = r.id /\ row.agent = r.agent
      /\ (r.ledger = NewThread => row.db = open /\ row.path = r.path /\ row.turns = <<>>)
      /\ (r.ledger # NewThread => /\ row.db = thread[t].db /\ row.path = thread[t].path
                                  /\ row.turns = thread[t].turns)
  BY <1>3, <1>5 DEF ThreadShape
<1> QED
  BY <1>1, <1>3, <1>4, <1>6, <1>7, <1>8

LEMMA BindRegistered ==
    ASSUME Types, Bindings, Registered, NEW c \in Calls, Bind(c)
    PROVE  Registered'
<1> USE Constants
<1>1. PICK r, t : r = call[c] /\ t = Registration(r)
  OBVIOUS
<1>2. r \in CallShape /\ r.pc = "bind" /\ Starting(c) /\ t \in Ids /\ r.id \in Ids
      /\ UNCHANGED count
  BY <1>1, CallAt, BindOutcome DEF Types, Bind, Starting
<1>3. call'[c] = NoCall /\ \A k \in Calls \ {c} : call'[k] = call[k]
  BY EndStep DEF Types, Bind
<1>4. NoCall.pc = "idle"
  BY DEF NoCall
<1>5. \A k \in Calls : Starting(k)' => k # c /\ Starting(k) /\ call'[k] = call[k] /\ call[k].id # r.id
  BY <1>1, <1>2, <1>3, <1>4 DEF Starting, Bindings
<1>6. \A u \in Ids : thread[u].bound # r.id /\ (thread[u].bound # None => thread[u].bound \in Ids)
  BY <1>1, <1>2 DEF Bindings, Types, ThreadsTyped, ThreadShape, MaybeIds
<1>7. \A k \in Calls : call[k].pc = "previous" /\ call[k].found # None => call[k].found # r.id
  BY <1>1, <1>2 DEF Registered
<1>8. r.agent => meta[r.id] = t
  BY <1>1, <1>2 DEF Registered
<1>9. \A s \in Ids \ {r.id} : meta'[s] = meta[s]
  BY <1>1, <1>2, BindOutcome DEF Types, RestTyped
<1>10. (\A u \in Ids \ spoiled :
          thread[u].agent /\ thread[u].bound # None => meta[thread[u].bound] = u)'
  <2>1. CASE UNCHANGED <<thread, spoiled>>
    BY <1>6, <1>9, <2>1 DEF Registered
  <2>2. CASE /\ UNCHANGED meta /\ spoiled' = spoiled \ {t}
             /\ thread'[t].bound = r.id /\ thread'[t].agent = r.agent
             /\ \A u \in Ids \ {t} : thread'[u] = thread[u]
    BY <1>8, <2>2 DEF Registered
  <2> QED
    BY <1>1, <2>1, <2>2, BindOutcome
<1>11. (\A k \in Calls : call[k].pc \in {"run", "bind"} /\ call[k].agent =>
          meta[call[k].id] = Registration(call[k]))'
  <2>1. SUFFICES ASSUME NEW k \in Calls, call'[k].pc \in {"run", "bind"}, call'[k].agent
                 PROVE  meta'[call'[k].id] = Registration(call'[k])
    OBVIOUS
  <2>2. call'[k] = call[k] /\ Starting(k) /\ call[k].id # r.id
    BY <1>5, <2>1 DEF Starting
  <2>3. call[k].id \in Ids
    BY <2>2, CallAt DEF Types, Sound, Named, Holding, Starting
  <2> QED
    BY <1>9, <2>1, <2>2, <2>3 DEF Registered
<1>12. (\A k \in Calls : call[k].pc = "previous" /\ call[k].found # None =>
          /\ call[k].found <= count
          /\ \A u \in Ids : thread[u].bound = call[k].found => u = call[k].ledger
          /\ \A m \in Calls : Starting(m) => call[m].id # call[k].found)'
  <2>1. \A u \in Ids : thread'[u].bound \in {thread[u].bound, r.id}
    BY <1>1, BindOutcome
  <2>2. SUFFICES ASSUME NEW k \in Calls, call'[k].pc = "previous", call'[k].found # None
                 PROVE  /\ call'[k].found <= count
                        /\ \A u \in Ids : thread'[u].bound = call'[k].found => u = call'[k].ledger
                        /\ \A m \in Calls : Starting(m)' => call'[m].id # call'[k].found
    BY <1>2
  <2>3. call'[k] = call[k]
    BY <1>5, <2>2 DEF Starting
  <2> QED
    BY <1>5, <1>7, <2>1, <2>2, <2>3 DEF Registered
<1> QED
  BY <1>10, <1>11, <1>12 DEF Registered

\* The call of Profile afterwards: ended, or about to start the next session.
LEMMA ProfileOutcome ==
    ASSUME Types, NEW c \in Calls, Profile(c)
    PROVE  LET r == call[c]
               l == call'[c]
           IN  /\ ~Starting(c) /\ \A k \in Calls \ {c} : call'[k] = call[k]
               /\ \/ UNCHANGED count /\ l = NoCall
                  \/ count' = count + 1 /\ l = NoCall
                  \/ /\ count' = count + 1 /\ count + 1 \in Ids /\ open # None
                     /\ l.id = count + 1 /\ l.object = None /\ l.path = r.path
                     /\ l.agent = r.agent /\ l.ledger = r.ledger
                     /\ \/ l.pc = "run" /\ ~r.agent
                        \/ l.pc = "register"
                        \/ /\ l.pc = "previous" /\ l.ledger \in Ids
                           /\ l.found \in {thread[l.ledger].bound, None}
<1>1. PICK r : r = call[c]
  OBVIOUS
<1>2. r \in CallShape /\ Sound(r) /\ r.pc = "profile" /\ ~Starting(c)
  BY <1>1, CallAt DEF Types, Profile, Starting
<1>3. r.object = None
  BY <1>2 DEF Sound, Holding
<1>4. CASE End(c)
  <2>1. call'[c] = NoCall /\ \A k \in Calls \ {c} : call'[k] = call[k]
    BY <1>4, EndStep DEF Types
  <2>2. UNCHANGED count \/ count' = count + 1
    BY DEF Profile
  <2> QED
    BY <1>2, <2>1, <2>2
<1>5. PICK next, found, l :
        /\ next = (IF ~r.agent THEN "run"
                   ELSE IF r.ledger = NewThread THEN "register" ELSE "previous")
        /\ found = (IF next = "previous" /\ thread[r.ledger].db = open
                    THEN thread[r.ledger].bound ELSE None)
        /\ l = [r EXCEPT !.pc = next, !.id = count + 1, !.found = found]
  OBVIOUS
<1>6. End(c) \/ (GoOn(c, l) /\ count + 1 \in Ids /\ count' = count + 1 /\ open # None)
  BY <1>1, <1>5 DEF Profile
<1>7. ASSUME GoOn(c, l), count + 1 \in Ids, count' = count + 1, open # None
      PROVE  /\ \A k \in Calls \ {c} : call'[k] = call[k]
             /\ call'[c] = l
             /\ l.id = count + 1 /\ l.object = None /\ l.path = r.path
             /\ l.agent = r.agent /\ l.ledger = r.ledger
             /\ \/ l.pc = "run" /\ ~r.agent
                \/ l.pc = "register"
                \/ /\ l.pc = "previous" /\ l.ledger \in Ids
                   /\ l.found \in {thread[l.ledger].bound, None}
  <2>1. l.id = count + 1 /\ l.object = None /\ l.path = r.path /\ l.agent = r.agent
        /\ l.ledger = r.ledger /\ l.pc = next /\ l.found = found
    BY <1>2, <1>3, <1>5, <1>7 DEF CallShape
  <2>2. next = "previous" => r.ledger \in Ids
    BY <1>2, <1>5, <1>7 DEF Sound, CallShape, MaybeIds
  <2>3. call'[c] = l /\ \A k \in Calls \ {c} : call'[k] = call[k]
    BY <1>5, <1>7 DEF GoOn, Types, CallsTyped
  <2> QED
    BY <1>5, <1>7, <2>1, <2>2, <2>3
<1>8. CASE End(c)
  BY <1>1, <1>2, <1>4, <1>8
<1>9. CASE GoOn(c, l) /\ count + 1 \in Ids /\ count' = count + 1 /\ open # None
  BY <1>1, <1>2, <1>7, <1>9
<1> QED
  BY <1>6, <1>8, <1>9

LEMMA ProfileRegistered ==
    ASSUME Types, Bindings, Registered, NEW c \in Calls, Profile(c)
    PROVE  Registered'
<1> USE Constants
<1>1. PICK r, l : r = call[c] /\ l = call'[c]
  OBVIOUS
<1>2. UNCHANGED <<thread, meta, spoiled>>
  BY DEF Profile, history
<1>3. ~Starting(c) /\ \A k \in Calls \ {c} : call'[k] = call[k]
  BY ProfileOutcome
<1>4. count \in Nat /\ (count' = count \/ count' = count + 1)
  BY ProfileOutcome DEF Types, RestTyped
<1>5. Starting(c)' => /\ l.id = count + 1 /\ count' = count + 1
                      /\ l.pc \in {"run", "bind"} => ~l.agent
                      /\ l.pc = "previous" => /\ l.ledger \in Ids
                                              /\ l.found \in {thread[l.ledger].bound, None}
  BY <1>1, ProfileOutcome DEF Starting, NoCall
<1>6. (\A t \in Ids \ spoiled :
         thread[t].agent /\ thread[t].bound # None => meta[thread[t].bound] = t)'
  BY <1>2 DEF Registered
<1>7. (\A k \in Calls : call[k].pc \in {"run", "bind"} /\ call[k].agent =>
         meta[call[k].id] = Registration(call[k]))'
  BY <1>1, <1>2, <1>3, <1>5 DEF Registered, Starting
<1>8. \A t \in Ids : thread[t].bound # None => thread[t].bound \in Nat /\ thread[t].bound <= count
  BY DEF Types, ThreadsTyped, ThreadShape, MaybeIds, Ids, Bindings
<1>9. \A t, u \in Ids : thread[t].bound # None /\ thread[t].bound = thread[u].bound => t = u
  BY DEF Bindings
<1>10. \A k \in Calls : Starting(k) => \A t \in Ids : thread[t].bound # call[k].id
  BY DEF Bindings
<1>11. ASSUME NEW k \in Calls, call'[k].pc = "previous", call'[k].found # None
       PROVE  /\ call'[k].found <= count'
              /\ \A t \in Ids : thread[t].bound = call'[k].found => t = call'[k].ledger
              /\ \A m \in Calls : Starting(m)' => call'[m].id # call'[k].found
  <2>1. CASE k = c
    <3>1. l.ledger \in Ids /\ l.found = thread[l.ledger].bound /\ l.found \in Nat /\ l.found <= count
          /\ count' = count + 1
      BY <1>1, <1>5, <1>8, <1>11, <2>1 DEF Starting
    <3>2. \A t \in Ids : thread[t].bound = l.found => t = l.ledger
      BY <1>1, <1>9, <1>11, <2>1, <3>1
    <3>3. ASSUME NEW m \in Calls, Starting(m)'
          PROVE  call'[m].id # l.found
      <4>1. CASE m = c
        BY <1>1, <1>4, <1>5, <3>1, <3>3, <4>1
      <4>2. CASE m # c
        <5>1. call'[m] = call[m] /\ Starting(m)
          BY <1>3, <3>3, <4>2 DEF Starting
        <5> QED
          BY <1>10, <3>1, <5>1
      <4> QED
        BY <4>1, <4>2
    <3> QED
      BY <1>1, <1>4, <2>1, <3>1, <3>2, <3>3
  <2>2. CASE k # c
    <3>1. call'[k] = call[k]
      BY <1>3, <2>2
    <3>2. /\ call[k].found <= count
          /\ \A t \in Ids : thread[t].bound = call[k].found => t = call[k].ledger
          /\ \A m \in Calls : Starting(m) => call[m].id # call[k].found
      BY <1>11, <3>1 DEF Registered
    <3>3. call[k].found \in Nat
      <4>1. Sound(call[k]) /\ call[k].pc = "previous"
        BY <1>11, <3>1, CallAt DEF Types
      <4> QED
        BY <1>11, <3>1, <4>1 DEF Sound, MaybeIds, Ids
    <3>4. ASSUME NEW m \in Calls, Starting(m)'
          PROVE  call'[m].id # call[k].found
      <4>1. CASE m = c
        BY <1>1, <1>4, <1>5, <3>2, <3>3, <3>4, <4>1
      <4>2. CASE m # c
        BY <1>3, <3>2, <3>4, <4>2 DEF Starting
      <4> QED
        BY <4>1, <4>2
    <3> QED
      BY <1>4, <3>1, <3>2, <3>3, <3>4
  <2> QED
    BY <2>1, <2>2
<1> QED
  BY <1>2, <1>6, <1>7, <1>11 DEF Registered

(* No step leaves a thread that can be applied without its registration,   *)
(* nor lets a restart of a thread take another one's away (start, with     *)
(* registerChatApplySessionMeta and unregisterChatApplySessionMeta).       *)
THEOREM NextRegistered == Types /\ Bindings /\ Registered /\ [Next]_vars => Registered'
<1> SUFFICES ASSUME Types, Bindings, Registered, [Next]_vars
             PROVE  Registered'
  OBVIOUS
<1>0. 1..count \subseteq Ids
  BY Constants DEF Types, RestTyped, Ids
<1>1. CASE User
  <2>1. ASSUME NEW t \in Ids, DeleteThread(t)
        PROVE  Registered'
    <3>1. NoneStarts /\ StagesKept /\ UNCHANGED <<meta, count, spoiled>>
      BY <2>1 DEF DeleteThread, NoneStarts, StagesKept, Starting
    <3>2. \A u \in Ids : \/ thread'[u].bound = None
                         \/ thread'[u].bound = thread[u].bound /\ thread'[u].agent = thread[u].agent
      BY <2>1 DEF DeleteThread, NoThread, Types, ThreadsTyped
    <3> QED
      BY <3>1, <3>2, RegisteredKept
  <2>2. ASSUME NEW s \in Ids, CancelNow(s)
        PROVE  Registered'
    BY <2>2, RegisteredKept DEF CancelNow, NoneStarts, StagesKept, Starting
  <2>3. ASSUME NEW s \in Ids, Interrupt(s)
        PROVE  Registered'
    <3>1. NoneStarts /\ StagesKept
      BY <2>3, InterruptTypes DEF NoneStarts, StagesKept, Starting, OnlyAborts
    <3> QED
      BY <2>3, <3>1, RegisteredKept DEF Interrupt, history
  <2>4. ASSUME NEW c \in Calls, NoneStarts, UNCHANGED <<thread, count, meta, spoiled>>,
               \E r : Begin(c, r)
        PROVE  Registered'
    <3>1. \A k \in Calls \ {c} : call'[k] = call[k]
      BY <2>4 DEF Begin, GoOn, Types, CallsTyped
    <3>2. ~Starting(c)
      BY <2>4 DEF Begin, Starting
    <3>3. StagesKept
      BY <2>4, <3>1, <3>2 DEF StagesKept, NoneStarts, Starting
    <3> QED
      BY <2>4, <3>3, RegisteredKept
  <2>5. \A c \in Calls :
          (\/ \E t \in Ids \cup {NewThread}, agent \in BOOLEAN : StartChat(c, t, agent)
           \/ StartAssist(c)
           \/ \E s \in Ids : \/ \E op \in {"message", "finalize"} : Use(c, op, s)
                             \/ Resume(c, s) \/ CancelStored(c, s)) => \E r : Begin(c, r)
    BY DEF StartChat, StartAssist, Use, Resume, CancelStored
  <2> QED
    BY <1>0, <1>1, <2>1, <2>2, <2>3, <2>4, <2>5, BeginStarts DEF User
<1>2. ASSUME NEW c \in Calls, Continue(c)
      PROVE  Registered'
  <2>1. ASSUME ~Profile(c), NEW r, GoOn(c, r), call[c].pc \notin {"previous", "register"},
               Starting(c) => r.pc \in {"bind", "idle"}, UNCHANGED <<meta, count, spoiled>>,
               \A t \in Ids : \/ thread'[t].bound = None
                              \/ /\ thread'[t].bound = thread[t].bound
                                 /\ thread'[t].agent = thread[t].agent
        PROVE  Registered'
    BY <1>2, <2>1, OnlyProfileStarts, StagesKeptStep, RegisteredKept DEF Types
  <2>2. CASE Run(c)
    <3>1. PICK l : l = [call[c] EXCEPT !.pc = "bind", !.object = FreeSlot]
      OBVIOUS
    <3>2. l.pc = "bind" /\ NoCall.pc = "idle"
      BY <3>1, CallAt DEF CallShape, NoCall, Types
    <3>3. GoOn(c, l) \/ GoOn(c, NoCall)
      BY <2>2, <3>1, EndIsGoOn DEF Run
    <3> QED
      BY <2>1, <2>2, <3>2, <3>3 DEF Run, Early, Profile
  <2>3. CASE AppendTurns(c)
    <3>1. \A t \in Ids : /\ thread'[t].bound = thread[t].bound
                         /\ thread'[t].agent = thread[t].agent
      BY <2>3, AppendThreads
    <3> QED
      BY <2>1, <2>3, <3>1, EndIsGoOn DEF AppendTurns, Profile, Starting
  <2>4. CASE Summary(c)
    <3>1. PICK r : GoOn(c, r)
      BY <2>4, EndIsGoOn DEF Summary
    <3>2. \A t \in Ids : \/ thread'[t].bound = None
                         \/ /\ thread'[t].bound = thread[t].bound
                            /\ thread'[t].agent = thread[t].agent
      BY <2>4, SummaryThreads
    <3> QED
      BY <2>1, <2>4, <3>1, <3>2 DEF Summary, Profile, Starting, history
  <2>5. CASE Draft(c) \/ Clear(c) \/ Hydrate(c) \/ Attach(c) \/ Prepare(c) \/ Turn(c)
             \/ Forgotten(c) \/ CancelLoaded(c)
    <3>1. \E r : GoOn(c, r)
      BY <2>5, EndIsGoOn DEF Draft, Clear, Hydrate, Attach, Prepare, Turn, Forgotten, CancelLoaded
    <3>2. UNCHANGED <<meta, count, spoiled, thread>>
      BY <2>5 DEF Draft, Clear, Hydrate, Attach, Prepare, Turn, Forgotten, CancelLoaded, Early,
                  history
    <3>3. ~Starting(c) /\ ~Profile(c) /\ call[c].pc \notin {"previous", "register"}
      BY <2>5 DEF Draft, Clear, Hydrate, Attach, Prepare, Turn, Forgotten, CancelLoaded, Profile,
                  Starting
    <3> QED
      BY <2>1, <3>1, <3>2, <3>3
  <2> QED
    BY <1>2, <2>2, <2>3, <2>4, <2>5, PreviousRegistered, RegisterRegistered, BindRegistered,
       ProfileRegistered DEF Continue
<1>3. ASSUME NEW w \in Workspaces, OpenWorkspace(w)
      PROVE  Registered'
  BY <1>3, RegisteredKept DEF OpenWorkspace, NoneStarts, StagesKept, Starting
<1>4. CASE CloseWorkspace
  <2>1. NoneStarts /\ StagesKept
    BY <1>4, CloseTypes DEF NoneStarts, StagesKept, Starting, OnlyAborts
  <2> QED
    BY <1>4, <2>1, RegisteredKept DEF CloseWorkspace
<1>5. CASE Crash
  <2>1. NoCall.pc = "idle"
    BY DEF NoCall
  <2>2. \A c \in Calls : call'[c].pc = "idle"
    BY <1>5, <2>1 DEF Crash
  <2>3. \A t \in Ids \ spoiled' : thread'[t].bound = None
    BY <1>5 DEF Crash, Types, ThreadsTyped, NoThread
  <2> QED
    BY <2>2, <2>3 DEF Registered
<1>6. CASE UNCHANGED vars
  BY <1>6, RegisteredKept DEF vars, NoneStarts, StagesKept, Starting, history
<1> QED
  BY <1>1, <1>2, <1>3, <1>4, <1>5, <1>6 DEF Next

-----------------------------------------------------------------------------
(* Calls one after the other.                                              *)

\* The invariant, as far as the calls have not overlapped.
Apart == /\ AtHome
         /\ InFlight = {} => InStore
         /\ \A c \in InFlight : OnlyCall(c)

LEMMA AckedWhenMet ==
    ASSUME Meet, overlapped'
    PROVE  \A s \in Ids : acked'[s] <= MaxTurns
  BY Constants DEF Meet

LEMMA KeptObjects ==
    ASSUME NEW objs, Objects(objs), Types'
    PROVE  \A s \in Ids : sessions'[s] # None => object'[sessions'[s]] = objs[sessions'[s]]
<1>1. object' = [o \in Slots |-> IF o \in Referenced' THEN objs[o] ELSE NoObject]
  BY DEF Objects
<1>2. \A s \in Ids : sessions'[s] \in Referenced' /\ (sessions'[s] # None => sessions'[s] \in Slots)
  BY DEF Referenced, Types, MemorySound, MaybeSlots
<1> QED
  BY <1>1, <1>2

LEMMA Afterwards ==
    ASSUME CallsTyped, NEW c \in Calls, InFlight \subseteq {c}, NEW r, GoOn(c, r)
    PROVE  call'[c] = r /\ InFlight' = IF r.pc = "idle" THEN {} ELSE {c}
<1>1. call'[c] = r /\ \A k \in Calls \ {c} : call'[k] = call[k]
  BY DEF CallsTyped, GoOn
<1> QED
  BY <1>1 DEF InFlight

LEMMA SameWorkspace ==
    ASSUME UNCHANGED <<open, thread>>, NEW s
    PROVE  WorkspaceOf(s)' = WorkspaceOf(s)
  BY DEF WorkspaceOf

\* The snapshot of the session in memory.
LEMMA ActiveStored ==
    ASSUME Types, AtHome, InStore, NEW s \in Ids, sessions[s] # None
    PROVE  /\ active = s /\ open \in Workspaces /\ sessions[s] \in Slots
           /\ object[sessions[s]].id = s /\ object[sessions[s]].answers \in 0..MaxTurns
           /\ stored[open].id = s /\ stored[open].answers = object[sessions[s]].answers
           /\ stored[open] = SnapshotOf(object[sessions[s]])
           /\ acked[s] <= object[sessions[s]].answers /\ s <= count
<1>1. active = s /\ open # None
  BY Constants DEF AtHome
<1>2. open \in Workspaces /\ sessions[s] \in Slots /\ object[sessions[s]].id = s
  BY <1>1 DEF Types, RestTyped, MemorySound, MaybePaths, MaybeSlots
<1>3. object[sessions[s]].answers \in 0..MaxTurns
  BY <1>2 DEF Types, MemorySound, ObjectShape
<1>4. stored[open] = SnapshotOf(object[sessions[s]])
  BY <1>1, Constants DEF InStore
<1>5. stored[open].id = s /\ stored[open].answers = object[sessions[s]].answers
  BY <1>2, <1>4 DEF SnapshotOf
<1>6. acked[s] <= object[sessions[s]].answers
  BY <1>2, <1>5, Constants DEF AtHome
<1>7. s <= count
  BY Constants DEF AtHome, Unused, Types, RestTyped, Ids
<1> QED
  BY <1>1, <1>2, <1>3, <1>4, <1>5, <1>6, <1>7

\* Steps after which there is no more than there was.
LEMMA AtHomeLess ==
    ASSUME Types, AtHome, UNCHANGED acked, count' = count \/ count' = count + 1,
           \A w \in Workspaces : stored'[w].id # None => stored'[w] = stored[w],
           \A s \in Ids : sessions'[s] # None => sessions'[s] = sessions[s] /\ active' = active,
           active' # None => open' # None,
           \A t \in Ids : /\ thread'[t].path = thread'[t].db
                          /\ thread'[t].bound # None => thread'[t] = thread[t]
    PROVE  AtHome'
<1>1. (\A t \in Ids : thread[t].path = thread[t].db)'
      /\ (\A s \in Ids : sessions[s] # None => s = active)'
      /\ (active # None => open # None)'
  BY DEF AtHome
<1>2. (\A w \in Workspaces, t \in Ids :
         stored[w].id # None /\ stored[w].id = thread[t].bound => thread[t].db = w)'
      /\ (\A w, v \in Workspaces : stored[w].id # None /\ stored[w].id = stored[v].id => w = v)'
  BY DEF AtHome
<1>3. (\A s \in Ids : s > count => Unused(s))'
  <2>1. SUFFICES ASSUME NEW s \in Ids, s > count'
                 PROVE  Unused(s)'
    OBVIOUS
  <2>2. s > count /\ s # None
    BY <2>1, Constants DEF Types, RestTyped, Ids
  <2> QED
    BY <2>2 DEF AtHome, Unused
<1>4. (\A w \in Workspaces : stored[w].id # None => acked[stored[w].id] <= stored[w].answers)'
  BY DEF AtHome
<1>5. (\A t \in Ids : thread[t].bound # None =>
         acked[thread[t].bound] = CountIn(thread[t].bound, t))'
  BY DEF AtHome, CountIn
<1> QED
  BY <1>1, <1>2, <1>3, <1>4, <1>5 DEF AtHome

LEMMA AtHomeKept ==
    ASSUME Types, AtHome, UNCHANGED <<acked, stored, thread, sessions, active, open>>,
           count' = count \/ count' = count + 1
    PROVE  AtHome'
  BY AtHomeLess DEF AtHome

\* Steps that leave the session in memory and its snapshot as they are.
LEMMA InStoreKept ==
    ASSUME Types, Types', InStore, UNCHANGED <<sessions, active, open, stored>>,
           NEW objs, Objects(objs), \A o \in Slots : SnapshotOf(objs[o]) = SnapshotOf(object[o])
    PROVE  InStore'
<1>1. ASSUME active # None
      PROVE  stored'[open'] = SnapshotOf(object'[sessions'[active']])
  <2>1. active \in Ids /\ sessions[active] # None /\ sessions[active] \in Slots
    BY <1>1 DEF Types, MemorySound, MaybeIds, MaybeSlots
  <2>2. object'[sessions'[active']] = objs[sessions[active]]
    BY <2>1, KeptObjects
  <2> QED
    BY <1>1, <2>1, <2>2 DEF InStore
<1> QED
  BY <1>1 DEF InStore, SnapshotOf

LEMMA InStoreSame ==
    ASSUME InStore, UNCHANGED <<memory, open, stored>>
    PROVE  InStore'
  BY DEF InStore, memory, SnapshotOf

LEMMA InStoreNone ==
    ASSUME active' = None
    PROVE  InStore'
  BY DEF InStore

\* Forgetting the session in memory.
LEMMA ForgetsActive ==
    ASSUME Types, AtHome, InStore, NEW s \in Ids, sessions[s] # None, Forget(s),
           UNCHANGED <<acked, count, open, thread>>
    PROVE  AtHome' /\ InStore'
<1>1. active = s /\ sessions' = Without(s) /\ active' = None /\ Store(NoSnapshot)
  BY ActiveStored DEF Forget
<1>2. \A u \in Ids : sessions'[u] = None
  <2>1. \A u \in Ids : sessions[u] # None => u = s
    BY <1>1 DEF AtHome
  <2> QED
    BY <1>1, <2>1, WithoutTyped DEF Types
<1>3. \A w \in Workspaces : stored'[w].id # None => stored'[w] = stored[w]
  BY <1>1, NothingTyped DEF Store, Types, RestTyped
<1>4. AtHome'
  BY <1>1, <1>2, <1>3, AtHomeLess DEF AtHome
<1> QED
  BY <1>1, <1>4, InStoreNone

LEMMA ResumingOnly ==
    ASSUME NEW r \in CallShape, NEW s
    PROVE  LET l == Resuming(r, s) IN
           /\ l.id = s /\ l.path = r.path
           /\ \/ l.pc = "hydrate" /\ l.snap = stored[open]
              \/ /\ l.pc = "attach" /\ l.object = sessions[s] /\ sessions[s] # None
                 /\ l.found = IF object[sessions[s]].ledger = None THEN WorkspaceOf(s) ELSE None
<1>1. CASE active = s /\ sessions[s] # None
  <2>1. PICK found : found = IF object[sessions[s]].ledger = None THEN WorkspaceOf(s) ELSE None
    OBVIOUS
  <2>2. Resuming(r, s) = [r EXCEPT !.op = "resume", !.id = s, !.pc = "attach",
                                   !.object = sessions[s], !.found = found]
    BY <1>1, <2>1 DEF Resuming
  <2>3. PICK l : l = Resuming(r, s)
    OBVIOUS
  <2>4. l.id = s /\ l.path = r.path /\ l.pc = "attach" /\ l.object = sessions[s]
        /\ l.found = found
    BY <2>2, <2>3 DEF CallShape
  <2> QED
    BY <1>1, <2>1, <2>3, <2>4
<1>2. CASE ~(active = s /\ sessions[s] # None)
  <2>1. Resuming(r, s) = [r EXCEPT !.op = "resume", !.id = s, !.pc = "hydrate",
                                   !.snap = stored[open]]
    BY <1>2 DEF Resuming
  <2> QED
    BY <2>1 DEF CallShape
<1> QED
  BY <1>1, <1>2

\* What a call that is resumed may find is what is there.
Resumed(r) ==
    \/ r.pc = "hydrate" /\ r.snap = stored[open]
    \/ /\ r.pc = "attach" /\ r.object = sessions[r.id]
       /\ r.found = IF object[r.object].ledger = None THEN WorkspaceOf(r.id) ELSE None

LEMMA ResumedOnly ==
    ASSUME NEW r, Resumed(r), NEW c \in Calls, call'[c] = r, InFlight' = {c}, open # None,
           r.path \in {None, open}, InStore, UNCHANGED <<memory, open, stored, thread>>
    PROVE  OnlyCall(c)'
<1>1. WorkspaceOf(r.id)' = WorkspaceOf(r.id) /\ InStore'
  BY SameWorkspace, InStoreSame
<1>2. CASE r.pc = "hydrate" /\ r.snap = stored[open]
  BY <1>1, <1>2 DEF OnlyCall, memory, Holding
<1>3. CASE /\ r.pc = "attach" /\ r.object = sessions[r.id]
           /\ r.found = IF object[r.object].ledger = None THEN WorkspaceOf(r.id) ELSE None
  <2>1. PICK w : w = WorkspaceOf(r.id)
    OBVIOUS
  <2>2. w = WorkspaceOf(r.id)'
    BY <1>1, <2>1
  <2>3. r.found = IF object'[r.object].ledger = None THEN WorkspaceOf(r.id)' ELSE None
    BY <1>3, <2>1, <2>2 DEF memory
  <2> QED
    BY <1>1, <1>3, <2>3 DEF OnlyCall, memory, Holding
<1> QED
  BY <1>2, <1>3 DEF Resumed

LEMMA BeginApart ==
    ASSUME Types, Apart, NEW c \in Calls, NEW r, Begin(c, r), ~overlapped',
           UNCHANGED <<open, count, memory, aborts, meta, thread, spoiled>>,
           r.path \in {None, open},
           \/ UNCHANGED stored /\ Resumed(r)
           \/ UNCHANGED stored /\ r.pc = "draft" /\ r.snap = stored[open]
           \/ UNCHANGED stored /\ r.pc = "cancel" /\ r.snap = stored[open] /\ sessions[r.id] = None
           \/ r.pc = "begin" /\ Store(NoSnapshot)
    PROVE  Apart'
<1>1. InFlight = {} /\ UNCHANGED acked /\ open # None /\ GoOn(c, r)
  BY DEF Begin, Meet
<1>2. AtHome /\ InStore
  BY <1>1 DEF Apart
<1>3. r.pc # "idle"
  BY DEF Resumed
<1>4. call'[c] = r /\ InFlight' = {c}
  BY <1>1, <1>3, Afterwards DEF Types
<1>5. CASE UNCHANGED stored
  <2>1. AtHome'
    BY <1>1, <1>2, <1>5, AtHomeKept DEF memory
  <2>2. InStore'
    BY <1>2, <1>5, InStoreSame
  <2>3. CASE Resumed(r)
    BY <1>1, <1>2, <1>4, <1>5, <2>1, <2>3, ResumedOnly DEF Apart
  <2>4. CASE r.pc = "draft" /\ r.snap = stored[open]
    BY <1>1, <1>4, <1>5, <2>1, <2>2, <2>4 DEF Apart, OnlyCall, Holding
  <2>5. CASE r.pc = "cancel" /\ r.snap = stored[open] /\ sessions[r.id] = None
    BY <1>1, <1>4, <1>5, <2>1, <2>2, <2>5 DEF Apart, OnlyCall, Holding, memory
  <2>6. CASE r.pc = "begin" /\ Store(NoSnapshot)
    <3>1. stored[open] = NoSnapshot
      BY <1>1, <1>5, <2>6 DEF Store, Types, RestTyped, MaybePaths
    <3> QED
      BY <1>1, <1>4, <1>5, <2>1, <2>2, <2>6, <3>1 DEF Apart, OnlyCall, Holding
  <2> QED
    BY <2>3, <2>4, <2>5, <2>6
<1>6. CASE r.pc = "begin" /\ Store(NoSnapshot)
  <2>1. stored'[open] = NoSnapshot
        /\ \A w \in Workspaces : stored'[w].id # None => stored'[w] = stored[w]
    BY <1>1, <1>6, NothingTyped DEF Store, Types, RestTyped, MaybePaths
  <2>2. AtHome'
    BY <1>1, <1>2, <2>1, AtHomeLess DEF memory, AtHome
  <2> QED
    BY <1>1, <1>4, <1>6, <2>1, <2>2 DEF Apart, OnlyCall, Holding
<1> QED
  BY <1>5, <1>6

LEMMA UserBeginsApart ==
    ASSUME Types, Apart, ~overlapped', NEW c \in Calls,
           \/ \E t \in Ids \cup {NewThread}, agent \in BOOLEAN : StartChat(c, t, agent)
           \/ StartAssist(c)
           \/ \E s \in Ids : \/ \E op \in {"message", "finalize"} : Use(c, op, s)
                             \/ Resume(c, s) \/ CancelStored(c, s)
    PROVE  Apart'
<1>0. NoCall.path = None
  BY DEF NoCall
<1>1. ASSUME NEW t \in Ids \cup {NewThread}, NEW agent \in BOOLEAN, StartChat(c, t, agent)
      PROVE  Apart'
  <2>1. PICK r : r = [NoCall EXCEPT !.op = "start", !.pc = "begin", !.ledger = t,
                                    !.path = open, !.agent = agent]
    OBVIOUS
  <2>2. r.pc = "begin" /\ r.path = open
    BY <2>1 DEF NoCall
  <2> QED
    BY <1>1, <2>1, <2>2, BeginApart DEF StartChat
<1>2. CASE StartAssist(c)
  <2>1. PICK r, l : r = [NoCall EXCEPT !.op = "start", !.pc = "begin"]
                 /\ l = [NoCall EXCEPT !.op = "start", !.pc = "draft", !.snap = stored[open]]
    OBVIOUS
  <2>2. r.pc = "begin" /\ r.path = None /\ l.pc = "draft" /\ l.path = None
        /\ l.snap = stored[open]
    BY <2>1 DEF NoCall
  <2>3. \/ Begin(c, r) /\ Store(NoSnapshot)
        \/ Begin(c, l) /\ UNCHANGED stored
    BY <1>2, <2>1 DEF StartAssist
  <2>4. UNCHANGED <<open, count, memory, aborts, meta, thread, spoiled>>
    BY <1>2 DEF StartAssist
  <2> QED
    BY <2>2, <2>3, <2>4, BeginApart
<1>3. ASSUME NEW s \in Ids, NEW op, Use(c, op, s)
      PROVE  Apart'
  <2>1. PICK r : r = [NoCall EXCEPT !.op = op, !.pc = "hydrate", !.id = s,
                                    !.snap = stored[open]]
    OBVIOUS
  <2>2. r.pc = "hydrate" /\ r.path = None /\ r.snap = stored[open]
    BY <2>1 DEF NoCall
  <2> QED
    BY <1>3, <2>1, <2>2, BeginApart DEF Use, Resumed
<1>4. ASSUME NEW s \in Ids, Resume(c, s)
      PROVE  Apart'
  <2>1. PICK r : r = Resuming(NoCall, s)
    OBVIOUS
  <2>2. r.path = None /\ Resumed(r)
    <3>1. r.id = s /\ r.path = None
      BY <1>0, <2>1, NothingTyped, ResumingOnly
    <3>2. \/ r.pc = "hydrate" /\ r.snap = stored[open]
          \/ /\ r.pc = "attach" /\ r.object = sessions[s]
             /\ r.found = IF object[sessions[s]].ledger = None THEN WorkspaceOf(s) ELSE None
      BY <2>1, NothingTyped, ResumingOnly
    <3> QED
      BY <3>1, <3>2 DEF Resumed
  <2> QED
    BY <1>4, <2>1, <2>2, BeginApart DEF Resume
<1>5. ASSUME NEW s \in Ids, CancelStored(c, s)
      PROVE  Apart'
  <2>1. PICK r : r = [NoCall EXCEPT !.op = "cancel", !.pc = "cancel", !.id = s,
                                    !.snap = stored[open]]
    OBVIOUS
  <2>2. r.pc = "cancel" /\ r.id = s /\ r.path = None /\ r.snap = stored[open]
    BY <2>1 DEF NoCall
  <2> QED
    BY <1>5, <2>1, <2>2, BeginApart DEF CancelStored
<1> QED
  BY <1>1, <1>2, <1>3, <1>4, <1>5

LEMMA CancelNowApart ==
    ASSUME Types, Apart, ~overlapped', NEW s \in Ids, CancelNow(s)
    PROVE  Apart'
<1>1. InFlight = {} /\ UNCHANGED acked /\ InFlight' = {}
  BY DEF CancelNow, Meet, InFlight
<1>2. AtHome' /\ InStore'
  BY <1>1, ForgetsActive DEF CancelNow, Apart
<1> QED
  BY <1>1, <1>2 DEF Apart

LEMMA DeleteThreadApart ==
    ASSUME Types, Apart, ~overlapped', NEW t \in Ids, DeleteThread(t)
    PROVE  Apart'
<1>1. InFlight = {} /\ UNCHANGED acked /\ InFlight' = {}
  BY DEF DeleteThread, Meet, InFlight
<1>2. \A u \in Ids : /\ thread'[u].path = thread'[u].db
                     /\ thread'[u].bound # None => thread'[u] = thread[u]
  BY DEF DeleteThread, Types, ThreadsTyped, NoThread, Apart, AtHome
<1>3. AtHome'
  BY <1>1, <1>2, AtHomeLess DEF DeleteThread, memory, Apart, AtHome
<1>4. InStore'
  BY <1>1, InStoreSame DEF DeleteThread, Apart
<1> QED
  BY <1>1, <1>3, <1>4 DEF Apart

LEMMA OpenApart ==
    ASSUME Types, Apart, ~overlapped', NEW w \in Workspaces, OpenWorkspace(w)
    PROVE  Apart'
<1>1. InFlight = {} /\ UNCHANGED acked /\ InFlight' = {}
  BY DEF OpenWorkspace, Meet, InFlight
<1>2. active = None /\ active' = None
  BY DEF OpenWorkspace, memory, Apart, AtHome
<1>3. AtHome'
  BY <1>1, <1>2, AtHomeLess DEF OpenWorkspace, memory, Apart, AtHome
<1> QED
  BY <1>1, <1>2, <1>3, InStoreNone DEF Apart

LEMMA CloseApart ==
    ASSUME Types, Apart, ~overlapped', CloseWorkspace
    PROVE  Apart'
<1>1. InFlight = {} /\ UNCHANGED acked
  BY DEF CloseWorkspace, Meet
<1>2. InFlight' = {}
  BY <1>1, CloseTypes DEF InFlight, OnlyAborts
<1>3. active' = None /\ \A s \in Ids : sessions'[s] = None
  BY DEF CloseWorkspace
<1>4. AtHome'
  BY <1>1, <1>3, AtHomeLess DEF CloseWorkspace, Apart, AtHome
<1> QED
  BY <1>2, <1>3, <1>4, InStoreNone DEF Apart

LEMMA CrashApart ==
    ASSUME Types, Apart, Crash
    PROVE  Apart'
<1>1. InFlight' = {}
  BY DEF Crash, InFlight, NoCall
<1>2. active' = None /\ \A s \in Ids : sessions'[s] = None
  BY DEF Crash
<1>3. AtHome'
  BY <1>2, AtHomeLess DEF Crash, Apart, AtHome
<1> QED
  BY <1>1, <1>2, <1>3, InStoreNone DEF Apart

LEMMA InterruptApart ==
    ASSUME Types, Apart, NEW s \in Ids, Interrupt(s)
    PROVE  Apart'
<1>1. OnlyAborts /\ UNCHANGED <<memory, acked, stored, thread, open, count>>
  BY InterruptTypes DEF Interrupt, history
<1>2. AtHome'
  BY <1>1, AtHomeKept DEF Apart, memory
<1>3. InFlight' = InFlight
  BY <1>1 DEF OnlyAborts, InFlight
<1>4. InStore => InStore'
  BY <1>1, InStoreSame
<1>5. ASSUME NEW c \in InFlight
      PROVE  OnlyCall(c)'
  <2>1. PICK r, l, w : r = call[c] /\ l = call'[c] /\ w = WorkspaceOf(r.id)
    OBVIOUS
  <2>2. c \in Calls /\ OnlyCall(c)
    BY <1>5 DEF InFlight, Apart
  <2>3. /\ l.pc = r.pc /\ l.id = r.id /\ l.object = r.object /\ l.snap = r.snap
        /\ l.found = r.found /\ l.seen = r.seen /\ l.path = r.path
    BY <1>1, <2>1, <2>2 DEF OnlyAborts
  <2>4. w = WorkspaceOf(l.id)'
    BY <1>1, <2>1, <2>3, SameWorkspace
  <2>5. r.pc = "attach" => l.found = IF object[l.object].ledger = None THEN w ELSE None
    BY <2>1, <2>2, <2>3 DEF OnlyCall
  <2>6. (Unbound(r.id) <=> Unbound(r.id)') /\ (Unused(r.id) <=> Unused(r.id)')
    BY <1>1 DEF Unbound, Unused, memory
  <2>7. Unbound(l.id)' <=> Unbound(r.id)
    BY <2>3, <2>6
  <2>8. Unused(l.id)' <=> Unused(r.id)
    BY <2>3, <2>6
  <2>9. UNCHANGED <<object, sessions, active, acked, stored, open>>
    BY <1>1 DEF memory
  <2> QED
    BY <1>3, <1>4, <2>1, <2>2, <2>3, <2>4, <2>5, <2>7, <2>8, <2>9 DEF OnlyCall
<1> QED
  BY <1>2, <1>3, <1>4, <1>5 DEF Apart

LEMMA Alone ==
    ASSUME Apart, NEW c \in Calls, Continue(c)
    PROVE  AtHome /\ OnlyCall(c) /\ InFlight = {c}
<1>1. call[c].pc # "idle"
  BY DEF Continue, Draft, Clear, Profile, Previous, Register, Run, Bind, Hydrate, Attach, Prepare,
         Turn, AppendTurns, Summary, Forgotten, CancelLoaded
<1>2. c \in InFlight
  BY <1>1 DEF InFlight
<1> QED
  BY <1>2 DEF Apart, OnlyCall

LEMMA EndApart ==
    ASSUME Types, NEW c \in Calls, InFlight = {c}, End(c), AtHome', InStore'
    PROVE  Apart'
<1>1. NoCall.pc = "idle"
  BY DEF NoCall
<1>2. InFlight' = {}
  BY <1>1, EndIsGoOn, Afterwards DEF Types
<1> QED
  BY <1>2 DEF Apart

LEMMA OnApart ==
    ASSUME Types, NEW c \in Calls, InFlight = {c}, NEW l, GoOn(c, l), l.pc # "idle", AtHome',
           call'[c] = l /\ InFlight' = {c} => OnlyCall(c)'
    PROVE  Apart'
  BY Afterwards DEF Types, Apart

LEMMA DraftApart ==
    ASSUME Types, Apart, NEW c \in Calls, Draft(c)
    PROVE  Apart'
<1> USE Constants
<1>1. PICK r : r = call[c]
  OBVIOUS
<1>2. r \in CallShape /\ r.pc = "draft"
  BY <1>1, CallAt DEF Types, Draft
<1>3. AtHome /\ OnlyCall(c) /\ InFlight = {c}
  BY Alone DEF Continue
<1>4. open # None /\ InStore /\ r.snap = stored[open] /\ r.path \in {None, open}
  BY <1>1, <1>2, <1>3 DEF OnlyCall
<1>5. UNCHANGED <<open, count, acked, thread, memory>>
  BY DEF Draft, Early
<1>6. CASE UNCHANGED stored
  <2>1. AtHome' /\ InStore'
    BY <1>3, <1>4, <1>5, <1>6, AtHomeKept, InStoreSame DEF memory
  <2>2. CASE End(c)
    BY <1>3, <2>1, <2>2, EndApart
  <2>3. CASE r.snap.id = None /\ GoOn(c, [r EXCEPT !.pc = "profile"])
    <3>1. active = None
      <4>1. ASSUME active # None
            PROVE  stored[open].id # None
        BY <4>1, <1>3, <1>4, ActiveStored DEF Types, MemorySound, MaybeIds
      <4> QED
        BY <1>4, <2>3, <4>1
    <3>2. PICK l : l = [r EXCEPT !.pc = "profile"]
      OBVIOUS
    <3>3. l.pc = "profile" /\ l.path = r.path
      BY <1>2, <3>2 DEF CallShape
    <3>4. call'[c] = l /\ InFlight' = {c} => OnlyCall(c)'
      BY <1>4, <1>5, <2>1, <3>1, <3>3 DEF OnlyCall, memory, Holding
    <3> QED
      BY <1>3, <2>1, <2>3, <3>2, <3>3, <3>4, OnApart
  <2>4. ASSUME NEW s, s = (IF active # None THEN active ELSE stored[open].id),
               GoOn(c, Resuming(r, s))
        PROVE  Apart'
    <3>1. PICK l : l = Resuming(r, s)
      OBVIOUS
    <3>2. l.id = s /\ l.path = r.path /\ l.pc # "idle"
          /\ \/ l.pc = "hydrate" /\ l.snap = stored[open]
             \/ /\ l.pc = "attach" /\ l.object = sessions[s] /\ sessions[s] # None
                /\ l.found = IF object[sessions[s]].ledger = None THEN WorkspaceOf(s) ELSE None
      BY <1>2, <3>1, ResumingOnly
    <3>3. Resumed(l)
      BY <3>2 DEF Resumed
    <3>4. call'[c] = l /\ InFlight' = {c} => OnlyCall(c)'
      BY <1>4, <1>5, <1>6, <3>2, <3>3, ResumedOnly
    <3> QED
      BY <1>3, <2>1, <2>4, <3>1, <3>2, <3>4, OnApart
  <2>5. CASE r.snap.id # None /\ stored[open].id = None
    BY <1>4, <2>5
  <2>6. CASE r.snap.id # None /\ Store(NoSnapshot)
    <3>1. stored[open] = NoSnapshot
      BY <1>4, <1>6, <2>6 DEF Store, Types, RestTyped, MaybePaths
    <3> QED
      BY <1>4, <2>6, <3>1, NothingTyped
  <2> QED
    BY <1>1, <1>4, <2>2, <2>3, <2>4, <2>5, <2>6 DEF Draft
<1>7. CASE GoOn(c, [r EXCEPT !.pc = "begin", !.snap = NoSnapshot]) /\ Store(NoSnapshot)
  <2>1. PICK l : l = [r EXCEPT !.pc = "begin", !.snap = NoSnapshot]
    OBVIOUS
  <2>2. l.pc = "begin" /\ l.path = r.path
    BY <1>2, <2>1 DEF CallShape
  <2>3. stored'[open] = NoSnapshot
        /\ \A w \in Workspaces : stored'[w].id # None => stored'[w] = stored[w]
    BY <1>4, <1>7, NothingTyped DEF Store, Types, RestTyped, MaybePaths
  <2>4. AtHome'
    BY <1>3, <1>5, <2>3, AtHomeLess DEF memory, AtHome
  <2>5. call'[c] = l /\ InFlight' = {c} => OnlyCall(c)'
    BY <1>4, <1>5, <2>2, <2>3 DEF OnlyCall, Holding
  <2> QED
    BY <1>3, <1>7, <2>1, <2>2, <2>4, <2>5, OnApart
<1> QED
  BY <1>1, <1>4, <1>6, <1>7 DEF Draft

LEMMA ClearApart ==
    ASSUME Types, Apart, NEW c \in Calls, Clear(c)
    PROVE  Apart'
<1>1. PICK r, l : r = call[c] /\ l = [r EXCEPT !.pc = "profile"]
  OBVIOUS
<1>2. r \in CallShape /\ r.pc = "begin"
  BY <1>1, CallAt DEF Types, Clear
<1>3. AtHome /\ OnlyCall(c) /\ InFlight = {c}
  BY Alone DEF Continue
<1>4. l.pc = "profile" /\ l.path = r.path /\ GoOn(c, l)
  BY <1>1, <1>2 DEF CallShape, Clear
<1>5. open # None /\ r.path \in {None, open}
  BY <1>1, <1>3 DEF OnlyCall
<1>6. UNCHANGED <<open, count, acked, thread, stored>> /\ sessions' = WithoutActive /\ active' = None
  BY DEF Clear, Early
<1>7. \A s \in Ids : sessions'[s] = None
  <2>1. \A s \in Ids : sessions[s] # None => s = active /\ active # None
    BY <1>3, Constants DEF AtHome
  <2> QED
    BY <1>6, <2>1 DEF WithoutActive, Without, Types, MemorySound
<1>8. AtHome'
  BY <1>3, <1>6, <1>7, AtHomeLess DEF AtHome
<1>9. call'[c] = l /\ InFlight' = {c} => OnlyCall(c)'
  BY <1>4, <1>5, <1>6, InStoreNone DEF OnlyCall, Holding
<1> QED
  BY <1>3, <1>4, <1>8, <1>9, OnApart

LEMMA ProfileApart ==
    ASSUME Types, Apart, NEW c \in Calls, Profile(c)
    PROVE  Apart'
<1> USE Constants
<1>1. PICK r, l : r = call[c] /\ l = call'[c]
  OBVIOUS
<1>2. r.pc = "profile"
  BY <1>1 DEF Profile
<1>3. AtHome /\ OnlyCall(c) /\ InFlight = {c}
  BY Alone DEF Continue
<1>4. open # None /\ r.path \in {None, open} /\ active = None
  BY <1>1, <1>2, <1>3 DEF OnlyCall
<1>5. UNCHANGED <<open, acked, thread, stored, sessions, active>>
  BY <1>4 DEF Profile, history, WithoutActive
<1>6. count' = count \/ count' = count + 1
  BY ProfileOutcome
<1>7. AtHome' /\ InStore'
  BY <1>3, <1>4, <1>5, <1>6, AtHomeKept, InStoreNone
<1>8. \A k \in Calls \ {c} : call'[k] = call[k]
  BY ProfileOutcome
<1>9. CASE l = NoCall
  <2>1. InFlight' = {}
    <3>1. call'[c].pc = "idle"
      BY <1>1, <1>9 DEF NoCall
    <3> QED
      BY <1>3, <1>8, <3>1 DEF InFlight
  <2> QED
    BY <1>7, <2>1 DEF Apart
<1>10. CASE count + 1 \in Ids /\ l.id = count + 1 /\ l.object = None /\ l.path = r.path
            /\ l.pc \in {"run", "register", "previous"}
  <2>1. InFlight' = {c}
    BY <1>1, <1>3, <1>8, <1>10 DEF InFlight
  <2>2. Unused(l.id)
    <3>1. count + 1 > count
      BY DEF Types, RestTyped
    <3> QED
      BY <1>3, <1>10, <3>1 DEF AtHome
  <2>3. Unused(l.id)'
    BY <1>5, <2>2 DEF Unused
  <2>4. OnlyCall(c)'
    BY <1>1, <1>4, <1>5, <1>7, <1>10, <2>1, <2>3 DEF OnlyCall, Holding
  <2> QED
    BY <1>7, <2>1, <2>4 DEF Apart
<1> QED
  BY <1>1, <1>9, <1>10, ProfileOutcome

LEMMA PreviousApart ==
    ASSUME Types, Apart, NEW c \in Calls, Previous(c)
    PROVE  Apart'
<1>1. PICK r, l : r = call[c] /\ l = [r EXCEPT !.pc = "register", !.found = None]
  OBVIOUS
<1>2. r \in CallShape /\ r.pc = "previous"
  BY <1>1, CallAt DEF Types, Previous
<1>3. AtHome /\ OnlyCall(c) /\ InFlight = {c}
  BY Alone DEF Continue
<1>4. l.pc = "register" /\ l.id = r.id /\ l.path = r.path /\ GoOn(c, l)
  BY <1>1, <1>2 DEF CallShape, Previous
<1>5. open # None /\ r.path \in {None, open} /\ active = None /\ Unused(r.id)
  BY <1>1, <1>2, <1>3 DEF OnlyCall
<1>6. UNCHANGED <<open, count, acked, thread, stored, sessions, active>>
  BY DEF Previous, Early, memory
<1>7. AtHome' /\ InStore' /\ Unused(r.id)'
  BY <1>3, <1>5, <1>6, AtHomeKept, InStoreNone DEF Unused
<1>8. Unused(l.id)'
  BY <1>4, <1>7
<1>9. call'[c] = l /\ InFlight' = {c} => OnlyCall(c)'
  BY <1>4, <1>5, <1>6, <1>7, <1>8 DEF OnlyCall, Holding
<1> QED
  BY <1>3, <1>4, <1>7, <1>9, OnApart

LEMMA RegisterApart ==
    ASSUME Types, Apart, NEW c \in Calls, Register(c)
    PROVE  Apart'
<1>1. PICK r, l : r = call[c] /\ l = [r EXCEPT !.pc = "run"]
  OBVIOUS
<1>2. r \in CallShape /\ r.pc = "register"
  BY <1>1, CallAt DEF Types, Register
<1>3. AtHome /\ OnlyCall(c) /\ InFlight = {c}
  BY Alone DEF Continue
<1>4. l.pc = "run" /\ l.id = r.id /\ l.path = r.path
  BY <1>1, <1>2 DEF CallShape
<1>5. open # None /\ r.path \in {None, open} /\ active = None /\ Unused(r.id)
  BY <1>1, <1>2, <1>3 DEF OnlyCall
<1>6. UNCHANGED <<open, count, acked, thread, stored, sessions, active>>
  BY DEF Register, Early, memory
<1>7. AtHome' /\ InStore' /\ Unused(r.id)'
  BY <1>3, <1>5, <1>6, AtHomeKept, InStoreNone DEF Unused
<1>8. Unused(l.id)'
  BY <1>4, <1>7
<1>9. call'[c] = l /\ InFlight' = {c} => OnlyCall(c)'
  BY <1>4, <1>5, <1>6, <1>7, <1>8 DEF OnlyCall, Holding
<1>10. End(c) \/ GoOn(c, l)
  BY <1>1 DEF Register
<1> QED
  BY <1>3, <1>4, <1>7, <1>9, <1>10, OnApart, EndApart

LEMMA RunApart ==
    ASSUME Types, Types', Bindings, Apart, NEW c \in Calls, Run(c)
    PROVE  Apart'
<1> USE Constants
<1>1. PICK r, o, new, objs, l : /\ r = call[c] /\ o = FreeSlot
                                /\ new = [id |-> r.id, answers |-> 0, ledger |-> r.path]
                                /\ objs = [object EXCEPT ![o] = new]
                                /\ l = [r EXCEPT !.pc = "bind", !.object = o]
  OBVIOUS
<1>2. r \in CallShape /\ Sound(r) /\ r.pc = "run"
  BY <1>1, CallAt DEF Types, Run
<1>3. r.object = None /\ r.id \in Ids
  BY <1>2 DEF Sound, Holding, Named
<1>4. AtHome /\ OnlyCall(c) /\ InFlight = {c}
  BY Alone DEF Continue
<1>5. open \in Workspaces /\ r.path \in {None, open} /\ active = None /\ Unused(r.id)
  BY <1>1, <1>2, <1>4 DEF OnlyCall, Types, RestTyped, MaybePaths
<1>6. UNCHANGED <<open, count, acked, thread>>
  BY DEF Run, Early
<1>7. CASE End(c) /\ UNCHANGED <<sessions, active, stored>>
  BY <1>4, <1>5, <1>6, <1>7, AtHomeKept, InStoreNone, EndApart
<1>8. CASE /\ sessions' = [sessions EXCEPT ![r.id] = o] /\ active' = r.id
           /\ Store(SnapshotOf(new)) /\ Objects(objs) /\ (End(c) \/ GoOn(c, l))
  <2>1. o \in Slots /\ o \notin Referenced
    BY <1>1, <1>3, FreeSlotIsFree DEF Types, MemorySound
  <2>2. sessions'[r.id] = o /\ \A s \in Ids \ {r.id} : sessions'[s] = None
    BY <1>3, <1>4, <1>5, <1>8 DEF Types, MemorySound, AtHome
  <2>3. objs[o] = new
    BY <1>1, <2>1 DEF Types, MemorySound
  <2>4. object'[sessions'[r.id]] = new
    BY <1>3, <1>8, <2>1, <2>2, <2>3, KeptObjects
  <2>5. PICK snap : snap = SnapshotOf(new)
    OBVIOUS
  <2>6. snap.id = r.id /\ snap.answers = 0
    BY <1>1, <2>5 DEF SnapshotOf
  <2>7. stored'[open] = snap /\ \A w \in Workspaces \ {open} : stored'[w] = stored[w]
    BY <1>5, <1>8, <2>5 DEF Store, Types, RestTyped
  <2>8. r.id <= count /\ \A t \in Ids : thread[t].bound # r.id
    BY <1>1, <1>2 DEF Bindings, Starting
  <2>9. acked[r.id] = 0 /\ \A w \in Workspaces : stored[w].id # r.id
    BY <1>5 DEF Unused
  <2>10. AtHome'
    <3>1. (\A t \in Ids : thread[t].path = thread[t].db)'
      BY <1>4, <1>6 DEF AtHome
    <3>2. (\A w \in Workspaces, t \in Ids :
             stored[w].id # None /\ stored[w].id = thread[t].bound => thread[t].db = w)'
      BY <1>4, <1>6, <2>6, <2>7, <2>8 DEF AtHome
    <3>3. (\A w, v \in Workspaces : stored[w].id # None /\ stored[w].id = stored[v].id => w = v)'
      BY <1>4, <2>6, <2>7, <2>9 DEF AtHome
    <3>4. (\A s \in Ids : s > count => Unused(s))'
      <4>1. SUFFICES ASSUME NEW s \in Ids, s > count
                     PROVE  Unused(s)'
        BY <1>6
      <4>2. Unused(s) /\ s # r.id
        BY <1>3, <1>4, <2>8, <4>1 DEF AtHome, Types, RestTyped, Ids
      <4> QED
        BY <1>6, <2>2, <2>6, <2>7, <4>2 DEF Unused
    <3>5. (\A s \in Ids : sessions[s] # None => s = active)' /\ (active # None => open # None)'
      BY <1>5, <1>6, <1>8, <2>2
    <3>6. (\A w \in Workspaces : stored[w].id # None => acked[stored[w].id] <= stored[w].answers)'
      BY <1>4, <1>6, <2>6, <2>7, <2>9 DEF AtHome
    <3>7. (\A t \in Ids : thread[t].bound # None =>
             acked[thread[t].bound] = CountIn(thread[t].bound, t))'
      BY <1>4, <1>6 DEF AtHome, CountIn
    <3> QED
      BY <3>1, <3>2, <3>3, <3>4, <3>5, <3>6, <3>7 DEF AtHome
  <2>11. InStore'
    BY <1>6, <1>8, <2>4, <2>5, <2>7 DEF InStore, SnapshotOf
  <2>12. l.pc = "bind" /\ l.object = o /\ l.id = r.id /\ l.path = r.path
    BY <1>1, <1>2 DEF CallShape
  <2>13. call'[c] = l /\ InFlight' = {c} => OnlyCall(c)'
    BY <1>5, <1>6, <2>2, <2>9, <2>11, <2>12 DEF OnlyCall, Holding
  <2> QED
    BY <1>4, <1>8, <2>10, <2>11, <2>12, <2>13, EndApart, OnApart
<1> QED
  BY <1>1, <1>7, <1>8 DEF Run

\* A call that holds an object holds the session in memory.
LEMMA HeldIsActive ==
    ASSUME Types, AtHome, NEW c \in Calls, OnlyCall(c), call[c].pc \in Holding
    PROVE  LET r == call[c] IN
           /\ InStore /\ r.object \in Slots /\ r.object = sessions[r.id] /\ r.id \in Ids
           /\ active = r.id /\ open \in Workspaces /\ r.id <= count
           /\ object[r.object].id = r.id /\ object[r.object].answers \in 0..MaxTurns
           /\ stored[open] = SnapshotOf(object[r.object])
           /\ stored[open].id = r.id /\ stored[open].answers = object[r.object].answers
           /\ acked[r.id] <= object[r.object].answers
           /\ \A w \in Workspaces : stored[w].id = r.id => w = open
           /\ \A t \in Ids : thread[t].bound = r.id => thread[t].db = open
<1>1. PICK r : r = call[c]
  OBVIOUS
<1>2. r.object # None /\ r.id \in Ids
  BY <1>1, CallAt DEF Types, Sound, Named
<1>3. r.object = sessions[r.id] /\ InStore
  BY <1>1 DEF OnlyCall, Holding
<1>4. stored[open].id = r.id /\ open \in Workspaces
  BY <1>2, <1>3, ActiveStored
<1>5. /\ \A w \in Workspaces : stored[w].id = r.id => w = open
      /\ \A t \in Ids : thread[t].bound = r.id => thread[t].db = open
  BY <1>2, <1>4, Constants DEF AtHome
<1> QED
  BY <1>1, <1>2, <1>3, <1>5, ActiveStored

LEMMA BindApart ==
    ASSUME Types, Types', Bindings, Apart, NEW c \in Calls, Bind(c)
    PROVE  Apart'
<1> USE Constants
<1>1. PICK r, t : r = call[c] /\ t = Registration(r)
  OBVIOUS
<1>2. r \in CallShape /\ Sound(r) /\ r.pc = "bind" /\ Starting(c)
  BY <1>1, CallAt DEF Types, Bind, Starting
<1>3. t \in Ids /\ r.path \in Workspaces
  BY <1>1, <1>2, BindOutcome DEF Sound
<1>4. AtHome /\ OnlyCall(c) /\ InFlight = {c}
  BY Alone DEF Continue
<1>5. r.path = open /\ acked[r.id] = 0 /\ InStore
  BY <1>1, <1>2, <1>3, <1>4 DEF OnlyCall
<1>6. /\ r.id \in Ids /\ sessions[r.id] # None
      /\ \A w \in Workspaces : stored[w].id = r.id => w = open
  BY <1>1, <1>2, <1>4, HeldIsActive DEF Holding
<1>7. \A u \in Ids : thread[u].bound # r.id /\ r.id \notin TurnsOf(u)
  BY <1>1, <1>2 DEF Bindings
<1>8. UNCHANGED <<open, count, acked>> /\ End(c) /\ Objects(object)
  BY DEF Bind
<1>9. CASE UNCHANGED thread /\ Forget(r.id)
  BY <1>4, <1>5, <1>6, <1>8, <1>9, ForgetsActive, EndApart
<1>10. CASE /\ UNCHANGED <<sessions, active, stored>>
            /\ thread'[t].bound = r.id /\ thread'[t].db = open /\ thread'[t].path = open
            /\ thread'[t].turns \in {thread[t].turns, <<>>}
            /\ \A u \in Ids \ {t} : thread'[u] = thread[u]
  <2>1. CountIn(r.id, t)' = 0
    <3>1. \A i \in DOMAIN thread'[t].turns : thread'[t].turns[i] # r.id
      BY <1>3, <1>7, <1>10 DEF TurnsOf
    <3>2. {i \in DOMAIN thread'[t].turns : thread'[t].turns[i] = r.id} = {}
      BY <3>1
    <3> QED
      BY <3>2, FS_EmptySet DEF CountIn
  <2>2. (\A u \in Ids : thread[u].path = thread[u].db)'
    BY <1>4, <1>10 DEF AtHome
  <2>3. (\A w \in Workspaces, u \in Ids :
           stored[w].id # None /\ stored[w].id = thread[u].bound => thread[u].db = w)'
    BY <1>4, <1>6, <1>10 DEF AtHome
  <2>4. (\A u \in Ids : thread[u].bound # None =>
           acked[thread[u].bound] = CountIn(thread[u].bound, u))'
    <3>1. SUFFICES ASSUME NEW u \in Ids, thread'[u].bound # None
                   PROVE  acked[thread'[u].bound] = CountIn(thread[u].bound, u)'
      BY <1>8
    <3>2. CASE u = t
      BY <1>5, <1>10, <2>1, <3>2 DEF CountIn
    <3>3. CASE u # t
      <4>1. thread'[u] = thread[u]
        BY <1>10, <3>3
      <4>2. acked[thread[u].bound] = CountIn(thread[u].bound, u)
        BY <1>4, <3>1, <4>1 DEF AtHome
      <4> QED
        BY <4>1, <4>2 DEF CountIn
    <3> QED
      BY <3>2, <3>3
  <2>5. AtHome'
    BY <1>4, <1>8, <1>10, <2>2, <2>3, <2>4 DEF AtHome, Unused
  <2>6. InStore'
    BY <1>5, <1>8, <1>10, InStoreKept
  <2> QED
    BY <1>4, <1>8, <2>5, <2>6, EndApart
<1>11. \/ UNCHANGED thread /\ Forget(r.id)
       \/ /\ UNCHANGED <<sessions, active, stored>>
          /\ thread'[t].bound = r.id /\ thread'[t].db = open /\ thread'[t].path = open
          /\ thread'[t].turns \in {thread[t].turns, <<>>}
          /\ \A u \in Ids \ {t} : thread'[u] = thread[u]
  BY <1>1, <1>5, BindOutcome
<1> QED
  BY <1>9, <1>10, <1>11

LEMMA HydrateApart ==
    ASSUME Types, Types', Apart, NEW c \in Calls, Hydrate(c)
    PROVE  Apart'
<1> USE Constants
<1>1. PICK r, s, o : r = call[c] /\ s = r.id /\ o = FreeSlot
  OBVIOUS
<1>2. r \in CallShape /\ Sound(r) /\ r.pc = "hydrate"
  BY <1>1, CallAt DEF Types, Hydrate
<1>3. r.object = None /\ s \in Ids
  BY <1>1, <1>2 DEF Sound, Holding, Named
<1>4. PICK restores, new, objs :
        /\ restores = (/\ r.snap.id = s
                       /\ (r.op \in {"resume", "start"} \/ sessions[s] = None))
        /\ new = [id |-> s, answers |-> r.snap.answers, ledger |-> None]
        /\ objs = IF restores THEN [object EXCEPT ![o] = new] ELSE object
  OBVIOUS
<1>5. AtHome /\ OnlyCall(c) /\ InFlight = {c}
  BY Alone DEF Continue
<1>6. open \in Workspaces /\ r.path \in {None, open} /\ InStore /\ r.snap = stored[open]
  BY <1>1, <1>2, <1>5 DEF OnlyCall, Types, RestTyped, MaybePaths
<1>7. UNCHANGED <<open, count, acked, thread, stored>> /\ Objects(objs)
  BY <1>1, <1>4 DEF Hydrate, history
<1>8. o \in Slots /\ o \notin Referenced
  BY <1>1, <1>3, FreeSlotIsFree DEF Types, MemorySound
<1>9. /\ AtHome' /\ InStore'
      /\ sessions'[s] # None => object'[sessions'[s]].ledger =
                                  IF restores THEN None ELSE object[sessions[s]].ledger
  <2>1. CASE restores
    <3>1. sessions' = [WithoutActive EXCEPT ![s] = o] /\ active' = s
      BY <1>1, <1>4, <2>1 DEF Hydrate
    <3>2. sessions'[s] = o /\ \A u \in Ids \ {s} : sessions'[u] = None
      <4>1. \A u \in Ids : WithoutActive[u] = None
        <5>1. \A u \in Ids : sessions[u] # None => u = active /\ active # None
          BY <1>5 DEF AtHome
        <5> QED
          BY <5>1 DEF WithoutActive, Without, Types, MemorySound
      <4> QED
        BY <1>3, <3>1, <4>1, WithoutTyped DEF Types
    <3>3. objs[o] = new
      BY <1>4, <1>8, <2>1 DEF Types, MemorySound
    <3>4. object'[sessions'[s]] = new
      BY <1>3, <1>7, <1>8, <3>2, <3>3, KeptObjects
    <3>5. new.ledger = None /\ new.id = s /\ new.answers = r.snap.answers
      BY <1>4
    <3>6. stored[open] = SnapshotOf(new)
      BY <1>4, <1>6, <2>1, <3>5 DEF SnapshotOf, Types, RestTyped, Snapshots
    <3>7. InStore'
      BY <1>7, <3>1, <3>4, <3>6 DEF InStore, SnapshotOf
    <3>8. ~(s > count)
      BY <1>3, <1>4, <1>5, <1>6, <2>1 DEF AtHome, Unused
    <3>9. (\A u \in Ids : u > count => Unused(u))'
      BY <1>5, <1>7, <3>2, <3>8 DEF AtHome, Unused
    <3>10. (\A u \in Ids : sessions[u] # None => u = active)' /\ (active # None => open # None)'
      BY <1>6, <1>7, <3>1, <3>2
    <3>11. (\A t \in Ids : thread[t].bound # None =>
             acked[thread[t].bound] = CountIn(thread[t].bound, t))'
      BY <1>5, <1>7 DEF AtHome, CountIn
    <3>12. AtHome'
      BY <1>5, <1>7, <3>9, <3>10, <3>11 DEF AtHome
    <3> QED
      BY <2>1, <3>4, <3>5, <3>7, <3>12
  <2>2. CASE ~restores
    <3>1. UNCHANGED <<sessions, active>> /\ objs = object
      BY <1>1, <1>4, <2>2 DEF Hydrate
    <3>2. AtHome' /\ InStore'
      BY <1>5, <1>6, <1>7, <3>1, AtHomeKept, InStoreKept
    <3>3. sessions'[s] # None => object'[sessions'[s]] = object[sessions[s]]
      BY <1>3, <1>7, <3>1, KeptObjects
    <3> QED
      BY <2>2, <3>2, <3>3
  <2> QED
    BY <2>1, <2>2
<1>10. CASE End(c)
  BY <1>5, <1>9, <1>10, EndApart
<1>11. PICK p, found, l : /\ p = sessions'[s]
                          /\ found = (IF restores \/ object[sessions[s]].ledger = None
                                      THEN WorkspaceOf(s) ELSE None)
                          /\ l = [r EXCEPT !.pc = "attach", !.object = p, !.snap = NoSnapshot,
                                           !.found = found]
  OBVIOUS
<1>12. CASE p # None /\ GoOn(c, l)
  <2>1. l.pc = "attach" /\ l.object = p /\ l.found = found /\ l.id = s /\ l.path = r.path
    BY <1>1, <1>2, <1>11 DEF CallShape
  <2>2. PICK w : w = WorkspaceOf(s)
    OBVIOUS
  <2>3. w = WorkspaceOf(l.id)'
    BY <1>7, <2>1, <2>2, SameWorkspace
  <2>4. found = IF object'[p].ledger = None THEN w ELSE None
    BY <1>9, <1>11, <1>12, <2>2
  <2>5. call'[c] = l /\ InFlight' = {c} => OnlyCall(c)'
    BY <1>6, <1>7, <1>9, <1>11, <2>1, <2>3, <2>4 DEF OnlyCall, Holding
  <2> QED
    BY <1>5, <1>9, <1>12, <2>1, <2>5, OnApart
<1>13. End(c) \/ (p # None /\ GoOn(c, l))
  BY <1>1, <1>4, <1>11 DEF Hydrate
<1> QED
  BY <1>10, <1>12, <1>13

\* Storing the session in memory once more.
LEMMA StoredAgain ==
    ASSUME Types, open \in Workspaces, Store(stored[open])
    PROVE  UNCHANGED stored
  BY Constants DEF Store, Types, RestTyped

LEMMA AttachApart ==
    ASSUME Types, Types', Apart, NEW c \in Calls, Attach(c)
    PROVE  Apart'
<1> USE Constants
<1>1. PICK r, o, objs : /\ r = call[c] /\ o = sessions[r.id]
                        /\ objs = [object EXCEPT ![r.object] = Attached(@, r.found)]
  OBVIOUS
<1>2. r \in CallShape /\ Sound(r) /\ r.pc = "attach"
  BY <1>1, CallAt DEF Types, Attach
<1>3. AtHome /\ OnlyCall(c) /\ InFlight = {c}
  BY Alone DEF Continue
<1>4. /\ InStore /\ o \in Slots /\ r.object = o /\ r.id \in Ids /\ open \in Workspaces
      /\ stored[open] = SnapshotOf(object[o]) /\ stored[open].id = r.id
      /\ \A t \in Ids : thread[t].bound = r.id => thread[t].db = open
  BY <1>1, <1>2, <1>3, HeldIsActive DEF Holding
<1>5. r.path \in {None, open}
      /\ r.found = IF object[r.object].ledger = None THEN WorkspaceOf(r.id) ELSE None
  BY <1>1, <1>2, <1>3 DEF OnlyCall
<1>6. r.found \in MaybePaths
  BY <1>2 DEF Sound
<1>7. /\ \A p \in Slots : objs[p].id = object[p].id /\ objs[p].answers = object[p].answers
      /\ objs[o].ledger = IF r.found = None THEN object[o].ledger ELSE r.found
  BY <1>1, <1>4, <1>6, LedgerNoted
<1>8. \A p \in Slots : SnapshotOf(objs[p]) = SnapshotOf(object[p])
  BY <1>7 DEF SnapshotOf
<1>9. Objects(objs) /\ UNCHANGED <<open, count, sessions, active, thread, acked>>
  BY <1>1 DEF Attach, history
<1>10. UNCHANGED stored
  <2>1. UNCHANGED stored \/ Store(SnapshotOf(objs[o]))
    BY <1>1 DEF Attach
  <2> QED
    BY <1>4, <1>8, <2>1, StoredAgain
<1>11. AtHome' /\ InStore'
  BY <1>3, <1>4, <1>8, <1>9, <1>10, AtHomeKept, InStoreKept
<1>12. object'[o] = objs[o]
  <2>1. sessions'[r.id] = o /\ o # None
    BY <1>1, <1>4, <1>9
  <2> QED
    BY <1>4, <1>9, <2>1, KeptObjects
<1>13. object'[o].ledger # None \/ Unbound(r.id)'
  <2>1. SUFFICES ASSUME object'[o].ledger = None, NEW t \in Ids, thread[t].bound = r.id
                 PROVE  FALSE
    BY <1>9 DEF Unbound
  <2>2. object[o].ledger = None /\ r.found = None
    BY <1>7, <1>12, <2>1
  <2>3. WorkspaceOf(r.id) = None
    BY <1>4, <1>5, <2>2
  <2>4. PICK rows : rows = {u \in Ids : thread[u].db = open /\ thread[u].bound = r.id}
    OBVIOUS
  <2>5. rows # {}
    BY <1>4, <2>1, <2>4
  <2>6. PICK u : u = CHOOSE v \in rows : TRUE
    OBVIOUS
  <2>7. u \in Ids /\ thread[u].db = open
    BY <2>4, <2>5, <2>6
  <2>8. WorkspaceOf(r.id) = thread[u].path
    BY <2>4, <2>5, <2>6 DEF WorkspaceOf
  <2> QED
    BY <1>3, <1>4, <2>3, <2>7, <2>8 DEF AtHome
<1>14. CASE End(c)
  BY <1>3, <1>11, <1>14, EndApart
<1>15. PICK l : l = [r EXCEPT !.pc = IF r.op = "message" THEN "prepare" ELSE "summary",
                              !.object = o, !.found = None,
                              !.seen = IF r.op = "message" THEN objs[o].answers ELSE 0]
  OBVIOUS
<1>16. CASE GoOn(c, l)
  <2>1. /\ l.pc \in {"prepare", "summary"} /\ l.object = o /\ l.id = r.id /\ l.path = r.path
        /\ l.pc = "prepare" => l.seen = objs[o].answers
    BY <1>2, <1>15 DEF CallShape
  <2>2. Unbound(l.id)' <=> Unbound(r.id)'
    BY <2>1
  <2>3. call'[c] = l /\ InFlight' = {c} => OnlyCall(c)'
    BY <1>1, <1>4, <1>5, <1>9, <1>11, <1>12, <1>13, <2>1, <2>2 DEF OnlyCall, Holding
  <2> QED
    BY <1>3, <1>11, <1>16, <2>1, <2>3, OnApart
<1>17. End(c) \/ GoOn(c, l)
  BY <1>1, <1>15 DEF Attach
<1> QED
  BY <1>14, <1>16, <1>17

LEMMA PrepareApart ==
    ASSUME Types, Types', Apart, NEW c \in Calls, Prepare(c)
    PROVE  Apart'
<1>1. PICK r, objs, l : /\ r = call[c] /\ objs = [object EXCEPT ![r.object].answers = r.seen]
                        /\ l = [r EXCEPT !.pc = "turn"]
  OBVIOUS
<1>2. r \in CallShape /\ r.pc = "prepare"
  BY <1>1, CallAt DEF Types, Prepare
<1>3. AtHome /\ OnlyCall(c) /\ InFlight = {c}
  BY Alone DEF Continue
<1>4. /\ InStore /\ r.object \in Slots /\ r.object = sessions[r.id] /\ r.id \in Ids
      /\ open \in Workspaces
  BY <1>1, <1>2, <1>3, HeldIsActive DEF Holding
<1>5. r.path \in {None, open} /\ r.seen = object[r.object].answers
      /\ (object[r.object].ledger # None \/ Unbound(r.id))
  BY <1>1, <1>2, <1>3 DEF OnlyCall
<1>6. \A p \in Slots : /\ objs[p].id = object[p].id /\ objs[p].answers = object[p].answers
                       /\ objs[p].ledger = object[p].ledger
  <2>1. r.seen \in 0..MaxTurns
    BY <1>2 DEF CallShape
  <2> QED
    BY <1>1, <1>4, <1>5, <2>1, ObjectChanged
<1>7. \A p \in Slots : SnapshotOf(objs[p]) = SnapshotOf(object[p])
  BY <1>6 DEF SnapshotOf
<1>8. UNCHANGED <<open, count, sessions, active, thread, acked, stored>>
  BY DEF Prepare, history
<1>9. AtHome'
  BY <1>3, <1>8, AtHomeKept
<1>10. CASE End(c) /\ Objects(object)
  <2>1. InStore'
    BY <1>4, <1>8, <1>10, InStoreKept
  <2> QED
    BY <1>3, <1>9, <1>10, <2>1, EndApart
<1>11. CASE GoOn(c, l) /\ Objects(objs)
  <2>1. InStore'
    BY <1>4, <1>7, <1>8, <1>11, InStoreKept
  <2>2. object'[r.object] = objs[r.object]
    <3>1. sessions'[r.id] # None
      BY <1>4, <1>8, Constants
    <3> QED
      BY <1>4, <1>8, <1>11, <3>1, KeptObjects
  <2>3. l.pc = "turn" /\ l.object = r.object /\ l.id = r.id /\ l.path = r.path /\ l.seen = r.seen
    BY <1>1, <1>2 DEF CallShape
  <2>4. Unbound(l.id)' <=> Unbound(r.id)
    BY <1>8, <2>3 DEF Unbound
  <2>5. call'[c] = l /\ InFlight' = {c} => OnlyCall(c)'
    BY <1>4, <1>5, <1>6, <1>8, <2>1, <2>2, <2>3, <2>4, Constants DEF OnlyCall, Holding
  <2> QED
    BY <1>3, <1>9, <1>11, <2>3, <2>5, OnApart
<1> QED
  BY <1>1, <1>10, <1>11 DEF Prepare

LEMMA TurnApart ==
    ASSUME Types, Types', Apart, NEW c \in Calls, Turn(c)
    PROVE  Apart'
<1> USE Constants
<1>1. PICK r, objs, l : /\ r = call[c]
                        /\ objs = [object EXCEPT ![r.object].answers = r.seen + 1]
                        /\ l = [r EXCEPT !.pc = "append", !.seen = 0]
  OBVIOUS
<1>2. r \in CallShape /\ Sound(r) /\ r.pc = "turn"
  BY <1>1, CallAt DEF Types, Turn
<1>3. AtHome /\ OnlyCall(c) /\ InFlight = {c}
  BY Alone DEF Continue
<1>4. /\ InStore /\ r.object \in Slots /\ r.object = sessions[r.id] /\ r.id \in Ids
      /\ active = r.id /\ open \in Workspaces /\ r.id <= count
      /\ object[r.object].id = r.id
      /\ stored[open].id = r.id /\ stored[open].answers = object[r.object].answers
      /\ acked[r.id] <= object[r.object].answers
      /\ \A w \in Workspaces : stored[w].id = r.id => w = open
  BY <1>1, <1>2, <1>3, HeldIsActive DEF Holding
<1>5. r.path \in {None, open} /\ r.seen = object[r.object].answers
      /\ (object[r.object].ledger # None \/ Unbound(r.id))
  BY <1>1, <1>2, <1>3 DEF OnlyCall
<1>6. UNCHANGED <<open, count, sessions, active, thread, acked>>
  BY DEF Turn, history
<1>7. CASE End(c) /\ UNCHANGED stored /\ Objects(object)
  BY <1>3, <1>4, <1>6, <1>7, AtHomeKept, InStoreKept, EndApart
<1>8. CASE GoOn(c, l) /\ Store(SnapshotOf(objs[r.object])) /\ Objects(objs)
  <2>1. r.seen + 1 \in 0..MaxTurns /\ r.seen \in Nat
    BY <1>2 DEF Sound, CallShape
  <2>2. /\ objs[r.object].id = r.id /\ objs[r.object].answers = r.seen + 1
        /\ objs[r.object].ledger = object[r.object].ledger
    BY <1>1, <1>4, <2>1, ObjectChanged
  <2>3. object'[r.object] = objs[r.object]
    <3>1. sessions'[r.id] # None
      BY <1>4, <1>6
    <3> QED
      BY <1>4, <1>6, <1>8, <3>1, KeptObjects
  <2>4. PICK snap : snap = SnapshotOf(objs[r.object])
    OBVIOUS
  <2>5. snap.id = r.id /\ snap.answers = r.seen + 1
    BY <2>2, <2>4 DEF SnapshotOf
  <2>6. stored'[open] = snap /\ \A w \in Workspaces \ {open} : stored'[w] = stored[w]
    BY <1>4, <1>8, <2>4 DEF Store, Types, RestTyped
  <2>7. \A w \in Workspaces : stored'[w].id = stored[w].id
    BY <1>4, <2>5, <2>6
  <2>8. acked[r.id] \in Nat /\ acked[r.id] <= r.seen /\ acked[r.id] < r.seen + 1
    BY <1>4, <1>5, <2>1 DEF Types, RestTyped
  <2>9. (\A s \in Ids : s > count => Unused(s))'
    BY <1>3, <1>6, <2>7 DEF AtHome, Unused
  <2>10. (\A w \in Workspaces : stored[w].id # None => acked[stored[w].id] <= stored[w].answers)'
    BY <1>3, <1>6, <2>1, <2>5, <2>6, <2>8 DEF AtHome
  <2>11. (\A w \in Workspaces, t \in Ids :
            stored[w].id # None /\ stored[w].id = thread[t].bound => thread[t].db = w)'
         /\ (\A w, v \in Workspaces : stored[w].id # None /\ stored[w].id = stored[v].id => w = v)'
    BY <1>3, <1>6, <2>7 DEF AtHome
  <2>12. (\A t \in Ids : thread[t].bound # None =>
            acked[thread[t].bound] = CountIn(thread[t].bound, t))'
    BY <1>3, <1>6 DEF AtHome, CountIn
  <2>13. AtHome'
    BY <1>3, <1>6, <2>9, <2>10, <2>11, <2>12 DEF AtHome
  <2>14. InStore'
    BY <1>4, <1>6, <2>3, <2>4, <2>6 DEF InStore, SnapshotOf
  <2>15. l.pc = "append" /\ l.object = r.object /\ l.id = r.id /\ l.path = r.path
    BY <1>1, <1>2 DEF CallShape
  <2>16. Unbound(l.id)' <=> Unbound(r.id)
    BY <1>6, <2>15 DEF Unbound
  <2>17. call'[c] = l /\ InFlight' = {c} => OnlyCall(c)'
    BY <1>4, <1>5, <1>6, <2>2, <2>3, <2>8, <2>14, <2>15, <2>16 DEF OnlyCall, Holding
  <2> QED
    BY <1>3, <1>8, <2>13, <2>15, <2>17, OnApart
<1>9. \/ End(c) /\ UNCHANGED stored /\ Objects(object)
      \/ GoOn(c, l) /\ Store(SnapshotOf(objs[r.object])) /\ Objects(objs)
  BY <1>1, <1>4 DEF Turn
<1> QED
  BY <1>7, <1>8, <1>9

LEMMA OneMore ==
    ASSUME NEW p \in Seq(Ids), NEW s \in Ids, NEW q, q = Append(p, s)
    PROVE  Cardinality({i \in DOMAIN q : q[i] = s})
             = Cardinality({i \in DOMAIN p : p[i] = s}) + 1
<1>2. /\ Len(p) \in Nat /\ DOMAIN p = 1..Len(p) /\ DOMAIN q = 1..Len(p) + 1
      /\ \A i \in 1..Len(p) : q[i] = p[i]
      /\ q[Len(p) + 1] = s
  OBVIOUS
<1>3. PICK S : S = {i \in DOMAIN p : p[i] = s}
  OBVIOUS
<1>4. IsFiniteSet(S) /\ Cardinality(S) \in Nat
  <2>1. IsFiniteSet(1..Len(p))
    BY <1>2, FS_Interval
  <2>2. S \subseteq 1..Len(p)
    BY <1>2, <1>3
  <2> QED
    BY <2>1, <2>2, FS_Subset, FS_CardinalityType
<1>5. Len(p) + 1 \notin S
  BY <1>2, <1>3
<1>6. {i \in DOMAIN q : q[i] = s} = S \cup {Len(p) + 1}
  BY <1>2, <1>3
<1>7. Cardinality(S \cup {Len(p) + 1}) = Cardinality(S) + 1
  BY <1>4, <1>5, FS_AddElement
<1> QED
  BY <1>3, <1>6, <1>7

LEMMA AppendApart ==
    ASSUME Types, Types', Bindings, Apart, ~overlapped', NEW c \in Calls, AppendTurns(c),
           \A s \in Ids : acked[s] <= MaxTurns
    PROVE  Apart' /\ \A s \in Ids : acked'[s] <= MaxTurns
<1> USE Constants
<1>1. PICK r, path : r = call[c] /\ path = object[r.object].ledger
  OBVIOUS
<1>2. r \in CallShape /\ r.pc = "append"
  BY <1>1, CallAt DEF Types, AppendTurns
<1>3. AtHome /\ OnlyCall(c) /\ InFlight = {c}
  BY Alone DEF Continue
<1>4. /\ InStore /\ r.id \in Ids /\ active = r.id /\ open \in Workspaces /\ r.id <= count
      /\ object[r.object].answers \in 0..MaxTurns
      /\ stored[open].id = r.id /\ stored[open].answers = object[r.object].answers
      /\ \A w \in Workspaces : stored[w].id = r.id => w = open
  BY <1>1, <1>2, <1>3, HeldIsActive DEF Holding
<1>5. acked[r.id] < object[r.object].answers /\ (path # None \/ Unbound(r.id))
  BY <1>1, <1>2, <1>3 DEF OnlyCall
<1>6. UNCHANGED <<open, count, sessions, active, stored>> /\ End(c) /\ Objects(object) /\ ~overlapped
  BY DEF AppendTurns
<1>7. InStore'
  BY <1>4, <1>6, InStoreKept
<1>8. CASE UNCHANGED <<acked, thread>>
  BY <1>3, <1>6, <1>7, <1>8, AtHomeKept, EndApart
<1>9. ASSUME acked' = [acked EXCEPT ![r.id] = @ + 1],
             \/ UNCHANGED thread /\ Unbound(r.id)
             \/ \E t \in Ids : /\ thread[t].bound = r.id
                               /\ thread' = [thread EXCEPT ![t].turns = Append(@, r.id)]
      PROVE  Apart' /\ \A s \in Ids : acked'[s] <= MaxTurns
  <2>1. acked'[r.id] = acked[r.id] + 1 /\ \A s \in Ids \ {r.id} : acked'[s] = acked[s]
    BY <1>4, <1>9 DEF Types, RestTyped
  <2>2. acked[r.id] \in Nat /\ acked'[r.id] <= object[r.object].answers
    BY <1>4, <1>5, <2>1 DEF Types, RestTyped
  <2>3. \A s \in Ids : acked'[s] <= MaxTurns
    BY <1>4, <2>1, <2>2
  <2>4. \A t \in Ids : /\ thread'[t].bound = thread[t].bound /\ thread'[t].db = thread[t].db
                       /\ thread'[t].path = thread[t].path
    BY AppendThreads
  <2>5. (\A t \in Ids : thread[t].bound # None =>
           acked[thread[t].bound] = CountIn(thread[t].bound, t))'
    <3>1. SUFFICES ASSUME NEW u \in Ids, thread'[u].bound # None
                   PROVE  acked'[thread'[u].bound] = CountIn(thread[u].bound, u)'
      OBVIOUS
    <3>2. thread[u].bound \in Ids /\ acked[thread[u].bound] = CountIn(thread[u].bound, u)
      BY <1>3, <2>4, <3>1 DEF AtHome, Types, ThreadsTyped, ThreadShape, MaybeIds
    <3>3. CASE thread[u].bound # r.id
      <4>1. thread'[u].turns = thread[u].turns
        BY <1>9, <3>3 DEF Types, ThreadsTyped
      <4> QED
        BY <2>1, <2>4, <3>2, <3>3, <4>1 DEF CountIn
    <3>4. CASE thread[u].bound = r.id
      <4>1. ASSUME NEW t \in Ids, thread[t].bound = r.id,
                   thread' = [thread EXCEPT ![t].turns = Append(@, r.id)]
            PROVE  CountIn(r.id, u)' = CountIn(r.id, u) + 1
        <5>1. t = u
          BY <1>4, <3>4, <4>1 DEF Bindings
        <5>2. thread[u].turns \in Seq(Ids) /\ thread[u] \in ThreadShape
          BY DEF Types, ThreadsTyped, ThreadShape
        <5>3. thread'[u].turns = Append(thread[u].turns, r.id)
          BY <4>1, <5>1, <5>2 DEF Types, ThreadsTyped, ThreadShape
        <5>4. PICK p, q, s : p = thread[u].turns /\ q = thread'[u].turns /\ s = r.id
          OBVIOUS
        <5>5. p \in Seq(Ids) /\ s \in Ids /\ q = Append(p, s)
          BY <1>4, <5>2, <5>3, <5>4
        <5>6. Cardinality({i \in DOMAIN q : q[i] = s})
                = Cardinality({i \in DOMAIN p : p[i] = s}) + 1
          BY <5>5, OneMore
        <5> QED
          BY <5>4, <5>6 DEF CountIn
      <4>2. CountIn(r.id, u)' = CountIn(r.id, u) + 1
        BY <1>9, <3>4, <4>1 DEF Unbound
      <4> QED
        BY <2>1, <2>4, <3>2, <3>4, <4>2
    <3> QED
      BY <3>3, <3>4
  <2>6. (\A w \in Workspaces : stored[w].id # None => acked[stored[w].id] <= stored[w].answers)'
    <3>1. SUFFICES ASSUME NEW w \in Workspaces, stored[w].id # None
                   PROVE  acked'[stored[w].id] <= stored[w].answers
      BY <1>6
    <3>2. CASE stored[w].id = r.id
      BY <1>4, <2>2, <3>2
    <3>3. CASE stored[w].id # r.id
      <4>1. stored[w].id \in Ids
        BY <3>1 DEF Types, RestTyped, Snapshots
      <4> QED
        BY <1>3, <2>1, <3>1, <3>3, <4>1 DEF AtHome
    <3> QED
      BY <3>2, <3>3
  <2>7. (\A s \in Ids : s > count => Unused(s))'
    <3>1. SUFFICES ASSUME NEW s \in Ids, s > count
                   PROVE  Unused(s)'
      BY <1>6
    <3>2. Unused(s)
      BY <1>3, <3>1 DEF AtHome
    <3>3. s # r.id
      BY <1>4, <3>1 DEF Types, RestTyped, Ids
    <3> QED
      BY <1>6, <2>1, <3>2, <3>3 DEF Unused
  <2>8. AtHome'
    BY <1>3, <1>6, <2>4, <2>5, <2>6, <2>7 DEF AtHome
  <2> QED
    BY <1>3, <1>6, <1>7, <2>3, <2>8, EndApart
<1>10. \/ UNCHANGED <<acked, thread>>
       \/ /\ acked' = [acked EXCEPT ![r.id] = @ + 1]
          /\ \/ UNCHANGED thread /\ Unbound(r.id)
             \/ \E t \in Ids : /\ thread[t].bound = r.id
                               /\ thread' = [thread EXCEPT ![t].turns = Append(@, r.id)]
  BY <1>1, <1>5, <1>6 DEF AppendTurns, Acknowledge, Bound
<1> QED
  BY <1>8, <1>9, <1>10

LEMMA SummaryApart ==
    ASSUME Types, Types', Apart, NEW c \in Calls, Summary(c)
    PROVE  Apart'
<1> USE Constants
<1>1. PICK r, l : r = call[c] /\ l = [r EXCEPT !.pc = "forget", !.object = None]
  OBVIOUS
<1>2. r \in CallShape /\ r.pc = "summary"
  BY <1>1, CallAt DEF Types, Summary
<1>3. AtHome /\ OnlyCall(c) /\ InFlight = {c}
  BY Alone DEF Continue
<1>4. /\ InStore /\ r.id \in Ids /\ active = r.id /\ open \in Workspaces
      /\ stored[open] = SnapshotOf(object[r.object])
  BY <1>1, <1>2, <1>3, HeldIsActive DEF Holding
<1>5. r.path \in {None, open}
  BY <1>1, <1>3 DEF OnlyCall
<1>6. UNCHANGED <<open, count, sessions, active, acked>> /\ Objects(object)
  BY DEF Summary, history
<1>7. UNCHANGED stored
  BY <1>1, <1>4, StoredAgain DEF Summary
<1>8. InStore'
  BY <1>4, <1>6, <1>7, InStoreKept
<1>9. AtHome'
  <2>1. \A t \in Ids : /\ thread'[t].path = thread'[t].db
                       /\ thread'[t].bound # None => thread'[t] = thread[t]
    <3>1. \A t \in Ids : thread'[t].path = thread'[t].db
      BY <1>3, SummaryThreads DEF AtHome
    <3>2. ASSUME NEW t \in Ids, thread'[t].bound # None
          PROVE  thread'[t] = thread[t]
      <4>1. CASE UNCHANGED thread
        BY <4>1
      <4>2. ASSUME NEW rows, thread' = [u \in Ids |-> IF u \in rows
                                                      THEN [thread[u] EXCEPT !.bound = None]
                                                      ELSE thread[u]]
            PROVE  thread'[t] = thread[t]
        BY <3>2, <4>2 DEF Types, ThreadsTyped, ThreadShape
      <4> QED
        BY <4>1, <4>2 DEF Summary
    <3> QED
      BY <3>1, <3>2
  <2> QED
    BY <1>3, <1>6, <1>7, <2>1, AtHomeLess DEF AtHome
<1>10. CASE End(c)
  BY <1>3, <1>8, <1>9, <1>10, EndApart
<1>11. CASE GoOn(c, l)
  <2>1. l.pc = "forget" /\ l.id = r.id /\ l.path = r.path
    BY <1>1, <1>2 DEF CallShape
  <2>2. call'[c] = l /\ InFlight' = {c} => OnlyCall(c)'
    BY <1>4, <1>5, <1>6, <1>8, <2>1 DEF OnlyCall, Holding
  <2> QED
    BY <1>3, <1>9, <1>11, <2>1, <2>2, OnApart
<1> QED
  BY <1>1, <1>10, <1>11 DEF Summary

LEMMA ForgottenApart ==
    ASSUME Types, Apart, NEW c \in Calls, Forgotten(c)
    PROVE  Apart'
<1>1. AtHome /\ OnlyCall(c) /\ InFlight = {c} /\ End(c)
  BY Alone DEF Continue, Forgotten
<1>2. call[c].id \in Ids /\ active = call[c].id /\ InStore
  BY <1>1, CallAt DEF OnlyCall, Forgotten, Types, Sound, Named
<1>3. sessions[call[c].id] # None
  BY <1>2, Constants DEF Types, MemorySound
<1>4. Forget(call[c].id) /\ UNCHANGED <<acked, count, open, thread>>
  BY DEF Forgotten, history
<1> QED
  BY <1>1, <1>2, <1>3, <1>4, ForgetsActive, EndApart

LEMMA CancelLoadedApart ==
    ASSUME Types, Apart, NEW c \in Calls, CancelLoaded(c)
    PROVE  Apart'
<1> USE Constants
<1>1. PICK r : r = call[c]
  OBVIOUS
<1>2. AtHome /\ OnlyCall(c) /\ InFlight = {c} /\ End(c)
  BY Alone DEF Continue, CancelLoaded
<1>3. r.pc = "cancel" /\ r.id \in Ids
  BY <1>1, CallAt DEF CancelLoaded, Types, Sound, Named
<1>4. open \in Workspaces /\ InStore /\ r.snap = stored[open] /\ sessions[r.id] = None
  BY <1>1, <1>2, <1>3 DEF OnlyCall, Types, RestTyped, MaybePaths
<1>5. UNCHANGED <<open, count, memory, acked, thread>>
  BY DEF CancelLoaded, history
<1>6. CASE UNCHANGED stored
  BY <1>2, <1>4, <1>5, <1>6, AtHomeKept, InStoreSame, EndApart DEF memory
<1>7. CASE r.snap.id = r.id /\ Store(NoSnapshot)
  <2>1. \A w \in Workspaces : stored'[w].id # None => stored'[w] = stored[w]
    BY <1>4, <1>7, NothingTyped DEF Store, Types, RestTyped
  <2>2. AtHome'
    BY <1>2, <1>5, <2>1, AtHomeLess DEF memory, AtHome
  <2>3. active = None
    <3>1. ASSUME active # None
          PROVE  FALSE
      <4>1. active \in Ids /\ sessions[active] # None
        BY <3>1 DEF Types, MemorySound, MaybeIds
      <4>2. stored[open].id = active
        BY <1>2, <1>4, <4>1, ActiveStored
      <4> QED
        BY <1>4, <1>7, <4>1, <4>2
    <3> QED
      BY <3>1
  <2> QED
    BY <1>2, <1>5, <2>2, <2>3, InStoreNone, EndApart DEF memory
<1> QED
  BY <1>1, <1>6, <1>7 DEF CancelLoaded

\* A step that leaves the two histories as they are, or meets another call.
LEMMA OnlyHistory ==
    ASSUME OneByOne, Types, overlapped => overlapped', ~overlapped' /\ Apart => Apart',
           UNCHANGED acked \/ Meet
    PROVE  OneByOne'
<1>1. \A s \in Ids : acked'[s] <= MaxTurns
  BY AckedWhenMet DEF OneByOne, Meet
<1> QED
  BY <1>1 DEF OneByOne, Apart

(* As long as the calls come one after the other, no step separates what   *)
(* is in memory from what is stored (persistSession and                    *)
(* clearInteractiveSession of ComposerAssistantService).                   *)
THEOREM NextOneByOne == Types /\ Types' /\ Bindings /\ OneByOne /\ [Next]_vars => OneByOne'
<1> SUFFICES ASSUME Types, Types', Bindings, OneByOne, [Next]_vars
             PROVE  OneByOne'
  OBVIOUS
<1>0. 1..count \subseteq Ids
  BY Constants DEF Types, RestTyped, Ids
<1>1. CASE User
  <2>1. ASSUME NEW c \in Calls,
               \/ \E t \in Ids \cup {NewThread}, agent \in BOOLEAN : StartChat(c, t, agent)
               \/ StartAssist(c)
               \/ \E s \in Ids : \/ \E op \in {"message", "finalize"} : Use(c, op, s)
                                 \/ Resume(c, s) \/ CancelStored(c, s)
        PROVE  OneByOne'
    <3>1. \E r : Begin(c, r)
      BY <2>1 DEF StartChat, StartAssist, Use, Resume, CancelStored
    <3>2. Meet
      BY <3>1 DEF Begin
    <3>3. ~overlapped' /\ Apart => Apart'
      BY <2>1, UserBeginsApart
    <3> QED
      BY <3>2, <3>3, OnlyHistory DEF Meet
  <2>2. ASSUME NEW s \in Ids, CancelNow(s)
        PROVE  OneByOne'
    BY <2>2, CancelNowApart, OnlyHistory DEF CancelNow, Meet
  <2>3. ASSUME NEW s \in Ids, Interrupt(s)
        PROVE  OneByOne'
    BY <2>3, InterruptApart, OnlyHistory DEF Interrupt, history
  <2>4. ASSUME NEW t \in Ids, DeleteThread(t)
        PROVE  OneByOne'
    BY <2>4, DeleteThreadApart, OnlyHistory DEF DeleteThread, Meet
  <2> QED
    BY <1>0, <1>1, <2>1, <2>2, <2>3, <2>4 DEF User
<1>2. ASSUME NEW c \in Calls, Continue(c)
      PROVE  OneByOne'
  <2>1. CASE AppendTurns(c)
    <3>1. overlapped' = overlapped
      BY <2>1 DEF AppendTurns
    <3>2. CASE overlapped
      <4>1. UNCHANGED acked
        BY <2>1, <3>2 DEF AppendTurns, Acknowledge
      <4> QED
        BY <3>1, <3>2, <4>1, OnlyHistory
    <3>3. CASE ~overlapped
      BY <2>1, <3>1, <3>3, AppendApart DEF OneByOne, Apart
    <3> QED
      BY <3>2, <3>3 DEF Types, RestTyped
  <2>2. CASE ~AppendTurns(c)
    <3>1. UNCHANGED <<overlapped, acked>>
      BY <1>2, <2>2 DEF Continue, Draft, Clear, Profile, Previous, Register, Run, Bind, Hydrate,
         Attach, Prepare, Turn, Summary, Forgotten, CancelLoaded, Early, history
    <3>2. Apart => Apart'
      BY <1>2, <2>2, DraftApart, ClearApart, ProfileApart, PreviousApart, RegisterApart, RunApart,
         BindApart, HydrateApart, AttachApart, PrepareApart, TurnApart, SummaryApart,
         ForgottenApart, CancelLoadedApart DEF Continue
    <3> QED
      BY <3>1, <3>2, OnlyHistory
  <2> QED
    BY <2>1, <2>2
<1>3. ASSUME NEW w \in Workspaces, OpenWorkspace(w)
      PROVE  OneByOne'
  BY <1>3, OpenApart, OnlyHistory DEF OpenWorkspace, Meet
<1>4. CASE CloseWorkspace
  BY <1>4, CloseApart, OnlyHistory DEF CloseWorkspace, Meet
<1>5. CASE Crash
  BY <1>5, CrashApart, OnlyHistory DEF Crash
<1>6. CASE UNCHANGED vars
  <2>1. UNCHANGED <<open, count, object, sessions, active, stored, thread, call, overlapped, acked>>
    BY <1>6 DEF vars, memory, history
  <2>2. AtHome <=> AtHome'
    BY <2>1 DEF AtHome, Unused, CountIn
  <2>3. (InStore <=> InStore') /\ InFlight' = InFlight
    BY <2>1 DEF InStore, SnapshotOf, InFlight
  <2>4. ASSUME NEW c \in Calls
        PROVE  OnlyCall(c) => OnlyCall(c)'
    <3>1. \A s : /\ Unused(s) <=> Unused(s)'
                 /\ Unbound(s) <=> Unbound(s)'
                 /\ WorkspaceOf(s) = WorkspaceOf(s)'
      BY <2>1 DEF Unused, Unbound, WorkspaceOf
    <3>2. PICK r : r = call[c] /\ r = call'[c]
      BY <2>1
    <3>3. PICK w : w = WorkspaceOf(r.id) /\ w = WorkspaceOf(r.id)'
      BY <3>1
    <3>4. (Unused(r.id) <=> Unused(r.id)') /\ (Unbound(r.id) <=> Unbound(r.id)')
      BY <3>1
    <3> QED
      BY <2>1, <2>3, <3>2, <3>3, <3>4 DEF OnlyCall
  <2> QED
    BY <2>1, <2>2, <2>3, <2>4, OnlyHistory DEF Apart, InFlight
<1> QED
  BY <1>1, <1>2, <1>3, <1>4, <1>5, <1>6 DEF Next

(* At the start no thread has a session, none is registered, nothing is    *)
(* stored and no call is under way (the constructors of the services).     *)
THEOREM InitRest == Init => Bindings /\ Registered /\ OneByOne
<1> SUFFICES ASSUME Init
             PROVE  Bindings /\ Registered /\ OneByOne
  OBVIOUS
<1> USE Constants
<1>1. \A t \in Ids : thread[t].bound = None /\ thread[t].turns = <<>> /\ thread[t].db = None
                     /\ thread[t].path = None
  BY DEF Init, NoThread
<1>2. \A c \in Calls : call[c].pc = "idle"
  BY DEF Init, NoCall
<1>3. \A w \in Workspaces : stored[w].id = None
  BY DEF Init, NoSnapshot
<1>4. active = None /\ \A s \in Ids : sessions[s] = None /\ acked[s] = 0
  BY DEF Init
<1>5. Bindings
  <2>1. \A t \in Ids : TurnsOf(t) = {} /\ DOMAIN thread[t].turns = {}
    BY <1>1 DEF TurnsOf
  <2> QED
    BY <1>1, <1>2, <2>1 DEF Bindings, Starting
<1>6. Registered
  BY <1>1, <1>2 DEF Registered
<1>7. OneByOne
  BY <1>1, <1>2, <1>3, <1>4 DEF OneByOne, AtHome, InStore, InFlight, Unused
<1> QED
  BY <1>5, <1>6, <1>7

-----------------------------------------------------------------------------
(* What follows, at every moment.                                          *)

(* The four layers are an inductive invariant of every interleaving of the *)
(* calls of the service (ComposerAssistantService), each layer on top of   *)
(* those before it.                                                        *)
THEOREM Invariance == Spec => [](Types /\ Bindings /\ Registered /\ OneByOne)
<1>1. Init => Types /\ Bindings /\ Registered /\ OneByOne
  BY InitTypes, InitRest
<1>2. Types /\ Bindings /\ Registered /\ OneByOne /\ [Next]_vars
        => (Types /\ Bindings /\ Registered /\ OneByOne)'
  BY NextTypes, NextBindings, NextRegistered, NextOneByOne
<1> QED
  BY <1>1, <1>2, PTL DEF Spec

(* TypeOK: every variable is of its type, a call holds a session exactly   *)
(* at the stages that need one, and exactly the objects that the map or a  *)
(* call refers to are in memory (sessions and requireSessionHydrated of    *)
(* ComposerAssistantService).                                              *)
THEOREM TypeIsKept == Spec => []TypeOK
<1>1. Types /\ OneByOne => TypeOK
  <2> SUFFICES ASSUME Types, OneByOne
               PROVE  TypeOK
    OBVIOUS
  <2> USE Constants
  <2>1. {o \in Slots : object[o].id \in Ids} = Referenced \ {None}
    <3>1. \A o \in Slots : object[o].id \in Ids => o \in Referenced
      BY DEF Types, MemorySound
    <3>2. ASSUME NEW s \in Ids, sessions[s] # None
          PROVE  sessions[s] \in Slots /\ object[sessions[s]].id \in Ids
      BY <3>2 DEF Types, MemorySound, MaybeSlots
    <3>3. ASSUME NEW c \in Calls, call[c].object # None
          PROVE  call[c].object \in Slots /\ object[call[c].object].id \in Ids
      <4>1. call[c] \in CallShape /\ Sound(call[c])
        BY CallAt DEF Types
      <4>2. call[c].object \in Slots /\ call[c].id \in Ids
        BY <3>3, <4>1 DEF CallShape, MaybeSlots, Sound, Named
      <4> QED
        BY <3>3, <4>2 DEF Types, MemorySound
    <3> QED
      BY <3>1, <3>2, <3>3 DEF Referenced
  <2>2. \A o \in Slots : /\ object[o].answers \in 0..MaxTurns
                         /\ object[o].ledger \in Workspaces \cup {None}
    BY DEF Types, MemorySound, ObjectShape, MaybePaths
  <2>3. sessions \in [Ids -> Slots \cup {None}] /\ active \in Ids \cup {None}
    BY DEF Types, MemorySound, MaybeIds, MaybeSlots
  <2>4. \A c \in Calls :
          /\ call[c].pc \in Pcs
          /\ call[c].pc \in {"attach", "prepare", "turn", "append", "summary", "bind"}
               <=> call[c].object # None
    BY DEF Types, CallsTyped, CallShape, Sound, Holding
  <2>5. acked \in [Ids -> 0..MaxTurns]
    BY DEF Types, RestTyped, OneByOne
  <2> QED
    BY <2>1, <2>2, <2>3, <2>4, <2>5
       DEF TypeOK, Types, RestTyped, ThreadsTyped, MaybeIds, MaybePaths
<1> QED
  BY <1>1, Invariance, PTL

(* ActiveIsInMemory: the active session is one of those in memory, and     *)
(* what the map holds under an id is a session of that id (activeSessionId *)
(* and sessions of ComposerAssistantService).                              *)
THEOREM ActiveSessionIsInMemory == Spec => []ActiveIsInMemory
<1>1. Types => ActiveIsInMemory
  BY DEF Types, MemorySound, ActiveIsInMemory
<1> QED
  BY <1>1, Invariance, PTL

(* TurnsFollowBindings: the turns of a session are in one thread, the one  *)
(* that it is bound to, and no late answer of an earlier session gets in   *)
(* between those of the next (appendInteractiveMessage).                   *)
THEOREM TurnsStayTogether == Spec => []TurnsFollowBindings
<1>1. Bindings => TurnsFollowBindings
  <2>1. ASSUME Bindings, NEW t \in Ids, NEW u \in Ids \ {t}, NEW i \in DOMAIN thread[t].turns
        PROVE  /\ thread[t].turns[i] # thread[u].bound
               /\ \A k \in DOMAIN thread[u].turns : thread[t].turns[i] # thread[u].turns[k]
    BY <2>1 DEF Bindings, TurnsOf
  <2> QED
    BY <2>1 DEF Bindings, TurnsFollowBindings
<1> QED
  BY <1>1, Invariance, PTL

(* ApplyFindsThread: the session of a thread that can be applied is        *)
(* registered under that thread, unless a restart of the thread or of the  *)
(* process has taken the registration away (metaByComposerSessionId).      *)
THEOREM ApplyAlwaysFindsThread == Spec => []ApplyFindsThread
<1>1. Registered => ApplyFindsThread
  BY DEF Registered, ApplyFindsThread
<1> QED
  BY <1>1, Invariance, PTL

(* RestartLosesNothing: as long as the calls come one after the other, the *)
(* session in memory is the one stored, and what was answered is in the    *)
(* snapshot and in the thread (persistSession, appendInteractiveMessage).  *)
THEOREM RestartNeverLoses == Spec => []RestartLosesNothing
<1>1. OneByOne => RestartLosesNothing
  <2>1. OneByOne /\ ~overlapped /\ InFlight = {} => AtHome /\ InStore
    BY DEF OneByOne
  <2> QED
    BY <2>1 DEF AtHome, InStore, CountIn, RestartLosesNothing
<1> QED
  BY <1>1, Invariance, PTL
=============================================================================
