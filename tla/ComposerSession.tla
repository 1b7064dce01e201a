-------------------------- MODULE ComposerSession --------------------------
(***************************************************************************)
(* The composer's assistant sessions (ComposerAssistantService), their     *)
(* snapshot in the key-value store, the threads of the conversation ledger *)
(* and the registry that the apply of a chat's changes looks into.         *)
(*                                                                         *)
(* The service serialises nothing: a message may wait for its answer for   *)
(* half an hour, while other calls start, finalize or cancel sessions and  *)
(* the workspace is closed, and go on with what they had read.  A session  *)
(* is an object: a call goes on with the one it found, even if it has been *)
(* deleted from the map, and restored from the snapshot as another.        *)
(*                                                                         *)
(* A step goes from the end of one await to the next: it makes the call,   *)
(* of the database or of the orbit runner, that the next one waits for.    *)
(* Here are the sessions of the headless runner, of the chat view with a   *)
(* thread and of the composer without.  Of a snapshot only the number of   *)
(* answers is kept.  Not here: the planning-only sessions, the MCP servers *)
(* and their artifacts, titles, metrics, archived threads.                 *)
(***************************************************************************)
EXTENDS Naturals, Sequences, FiniteSets

CONSTANTS
    Workspaces,     \* workspace paths; each has its own database
    Calls,          \* slots for calls of the service in flight
    MaxSessions,    \* bound: sessions ever started
    MaxTurns,       \* COMPOSER_ASSISTANT_MAX_TURNS
    MaxCalls,       \* bound: calls, deletions of threads and switches of the workspace
    None

ASSUME BoundsAssumption == {MaxSessions, MaxTurns, MaxCalls} \subseteq Nat \ {0}
ASSUME CallsAssumption == IsFiniteSet(Calls)
ASSUME NoneAssumption == None \notin Nat /\ None \notin Calls \cup Workspaces

VARIABLES
    open,       \* the path of the open workspace
    count,      \* how many sessions have been started
    calls,      \* how many of those there have been
    object,     \* the session objects that something refers to
    sessions,   \* the map from a session's id to its object
    active,     \* activeSessionId
    aborts,     \* inFlightMessageAborts: per session the message whose controller is held
    meta,       \* metaByComposerSessionId: per session the thread it was registered for
    stored,     \* per database the persisted snapshot
    thread,     \* the rows of conversation_threads, and their turns
    call,       \* per slot a call in flight
    overlapped, \* history: a call has met another one, or the end of its workspace
    spoiled,    \* history: threads whose session has lost its registration to a restart
    acked       \* history: per session, the messages that have been answered (until calls overlap)

memory == <<object, sessions, active>>
history == <<overlapped, spoiled, acked>>
vars == <<open, count, calls, memory, aborts, meta, stored, thread, call, history>>

Ids == 1..MaxSessions
Slots == 1..MaxSessions + Cardinality(Calls)
NewThread == 0
NoObject == [id |-> None, answers |-> 0, ledger |-> None]
NoSnapshot == [id |-> None, answers |-> 0]
NoThread == [db |-> None, path |-> None, bound |-> None, agent |-> FALSE, turns |-> <<>>]
NoCall == [op |-> None, pc |-> "idle", id |-> None, object |-> None, snap |-> NoSnapshot,
           found |-> None, seen |-> 0, aborted |-> FALSE,
           ledger |-> None, path |-> None, agent |-> FALSE]

Init ==
    /\ open = None
    /\ count = 0
    /\ calls = 0
    /\ object = [o \in Slots |-> NoObject]
    /\ sessions = [s \in Ids |-> None]
    /\ active = None
    /\ aborts = [s \in Ids |-> None]
    /\ meta = [s \in Ids |-> None]
    /\ stored = [w \in Workspaces |-> NoSnapshot]
    /\ thread = [t \in Ids |-> NoThread]
    /\ call = [c \in Calls |-> NoCall]
    /\ overlapped = FALSE
    /\ spoiled = {}
    /\ acked = [s \in Ids |-> 0]

-----------------------------------------------------------------------------
InFlight == {c \in Calls : call[c].pc # "idle"}

GoOn(c, r) == call' = [call EXCEPT ![c] = r]
End(c) == call' = [call EXCEPT ![c] = NoCall]

Referenced == {sessions[s] : s \in Ids} \cup {call[c].object : c \in Calls}

\* The objects become `objs`; those that nothing refers to any more are gone.
Objects(objs) ==
    LET used == Referenced'
    IN  object' = [o \in Slots |-> IF o \in used THEN objs[o] ELSE NoObject]

FreeSlot == CHOOSE o \in Slots : o \notin Referenced

\* The map without the session s, and without the active one (clearActiveInMemory).
Without(s) == [sessions EXCEPT ![s] = None]
WithoutActive == IF active = None THEN sessions ELSE Without(active)

SnapshotOf(obj) == [id |-> obj.id, answers |-> obj.answers]

\* A write to the key-value store of the open workspace; without one it throws.
Store(snapshot) ==
    stored' = IF open = None THEN stored ELSE [stored EXCEPT ![open] = snapshot]

\* A variant of Bound for which any thread of the workspace will do.
BoundInWorkspace(t, s, path) == thread[t].db = open /\ thread[t].path = path

\* findOpenThreadByActiveSessionId, in the database of the open workspace.
Bound(t, s, path) == thread[t].db = open /\ thread[t].path = path /\ thread[t].bound = s

\* findOpenThreadWorkspaceByActiveSessionId.
WorkspaceOf(s) ==
    LET rows == {t \in Ids : thread[t].db = open /\ thread[t].bound = s}
    IN  IF rows = {} THEN None ELSE thread[CHOOSE t \in rows : TRUE].path

-----------------------------------------------------------------------------
(* The calls, up to their first await.  Without a workspace they throw.    *)

Meet ==
    /\ overlapped' = (overlapped \/ InFlight # {})
    /\ acked' = IF overlapped' THEN [s \in Ids |-> 0] ELSE acked

\* The bound on what goes on.
Counted == calls < MaxCalls /\ calls' = calls + 1

Begin(c, r) ==
    /\ open # None
    /\ Counted
    /\ call[c].pc = "idle"
    /\ GoOn(c, r)
    /\ Meet

\* start of the chat view: always a new session, of a new thread or of thread t.
StartChat(c, t, agent) ==
    /\ t # NewThread => thread[t].db = open /\ thread[t].path = open
    /\ Begin(c, [NoCall EXCEPT !.op = "start", !.pc = "begin", !.ledger = t, !.path = open,
                                !.agent = agent])
    /\ Store(NoSnapshot)
    /\ UNCHANGED <<open, count, memory, aborts, meta, thread, spoiled>>

\* start of the composer, with forceNew and without.
StartAssist(c) ==
    /\ \/ /\ Begin(c, [NoCall EXCEPT !.op = "start", !.pc = "begin"])
          /\ Store(NoSnapshot)
       \/ /\ Begin(c, [NoCall EXCEPT !.op = "start", !.pc = "draft", !.snap = stored[open]])
          /\ UNCHANGED stored
    /\ UNCHANGED <<open, count, memory, aborts, meta, thread, spoiled>>

\* message, finalize, accept and play: requireSessionHydrated loads the snapshot.
Use(c, op, s) ==
    /\ op \in {"message", "finalize"}
    /\ Begin(c, [NoCall EXCEPT !.op = op, !.pc = "hydrate", !.id = s, !.snap = stored[open]])
    /\ UNCHANGED <<open, count, memory, aborts, meta, stored, thread, spoiled>>

\* resume, in call r: of the active session, or of the one in the snapshot.
Resuming(r, s) ==
    IF active = s /\ sessions[s] # None
    THEN [r EXCEPT !.op = "resume", !.id = s, !.pc = "attach", !.object = sessions[s],
                   !.found = IF object[sessions[s]].ledger = None THEN WorkspaceOf(s) ELSE None]
    ELSE [r EXCEPT !.op = "resume", !.id = s, !.pc = "hydrate", !.snap = stored[open]]

Resume(c, s) ==
    /\ Begin(c, Resuming(NoCall, s))
    /\ UNCHANGED <<open, count, memory, aborts, meta, stored, thread, spoiled>>

\* A variant of Forget that leaves the id of the active session behind.
ForgetHalf(s) ==
    /\ sessions' = Without(s)
    /\ UNCHANGED active
    /\ Store(NoSnapshot)

\* clearInteractiveSession; cancel does the same.
Forget(s) ==
    /\ sessions' = Without(s)
    /\ active' = IF active = s THEN None ELSE active
    /\ Store(NoSnapshot)

\* cancel, of a session in memory; and of one that may be in the snapshot.
CancelNow(s) ==
    /\ sessions[s] # None
    /\ Forget(s)
    /\ Meet
    /\ UNCHANGED <<open, count, calls, aborts, meta, thread, call, spoiled>>
    /\ Objects(object)

CancelStored(c, s) ==
    /\ sessions[s] = None
    /\ Begin(c, [NoCall EXCEPT !.op = "cancel", !.pc = "cancel", !.id = s, !.snap = stored[open]])
    /\ UNCHANGED <<open, count, memory, aborts, meta, stored, thread, spoiled>>

\* interrupt aborts the message whose controller is held.
Interrupt(s) ==
    /\ aborts[s] # None
    /\ call' = [call EXCEPT ![aborts[s]].aborted = TRUE]
    /\ UNCHANGED <<open, count, calls, memory, aborts, meta, stored, thread, history>>

-----------------------------------------------------------------------------
(* The continuations of start.                                             *)

\* The rest of what the steps before the session exists leave alone.
Early == UNCHANGED <<open, count, calls, aborts, thread, overlapped, acked>>

\* A draft that matches is resumed, one that does not is discarded.
Draft(c) ==
    LET r == call[c] IN
    /\ r.pc = "draft"
    /\ \/ /\ r.snap.id = None
          /\ GoOn(c, [r EXCEPT !.pc = "profile"])
          /\ UNCHANGED stored
       \/ /\ r.snap.id # None
          /\ LET s == IF active # None THEN active ELSE stored[open].id IN
             \/ open = None /\ End(c)
             \/ open # None /\ s = None
                /\ GoOn(c, [r EXCEPT !.pc = "profile", !.snap = NoSnapshot])
             \/ open # None /\ s # None /\ GoOn(c, Resuming(r, s))
          /\ UNCHANGED stored
       \/ /\ r.snap.id # None
          /\ IF open = None THEN End(c)
             ELSE GoOn(c, [r EXCEPT !.pc = "begin", !.snap = NoSnapshot])
          /\ Store(NoSnapshot)
    /\ Early /\ UNCHANGED <<memory, meta, spoiled>>

\* The snapshot is gone; the session in memory too.
Clear(c) ==
    /\ call[c].pc = "begin"
    /\ GoOn(c, [call[c] EXCEPT !.pc = "profile"])
    /\ sessions' = WithoutActive
    /\ active' = None
    /\ Early /\ UNCHANGED <<meta, stored, spoiled>>
    /\ Objects(object)

\* A restart of a thread for an agent asks which session it replaces.
Profile(c) ==
    LET r == call[c]
        id == count + 1
        next == IF ~r.agent THEN "run"
                ELSE IF r.ledger = NewThread THEN "register" ELSE "previous"
    IN
    /\ r.pc = "profile"
    /\ \/ End(c) /\ UNCHANGED <<count, sessions, active>>
       \/ /\ id \in Ids
          /\ count' = id
          /\ sessions' = WithoutActive
          /\ active' = None
          /\ IF open = None THEN End(c)
             ELSE GoOn(c, [r EXCEPT !.pc = next, !.id = id,
                                    !.found = IF next = "previous" /\ thread[r.ledger].db = open
                                              THEN thread[r.ledger].bound ELSE None])
    /\ UNCHANGED <<open, calls, aborts, meta, stored, thread, history>>
    /\ Objects(object)

\* The session that is replaced is unregistered, before its successor runs.
Previous(c) ==
    LET r == call[c] IN
    /\ r.pc = "previous"
    /\ GoOn(c, [r EXCEPT !.pc = "register", !.found = None])
    /\ IF r.found = None
       THEN UNCHANGED <<meta, spoiled>>
       ELSE /\ meta' = [meta EXCEPT ![r.found] = None]
            /\ spoiled' = spoiled \cup {r.ledger}
    /\ Early /\ UNCHANGED <<memory, stored>>

\* A variant of Registration for a session that always begins a thread.
OwnRegistration(r) == r.id

\* The thread that a session is registered for: the one it is to be bound to, or its own.
Registration(r) == IF r.ledger = NewThread THEN r.id ELSE r.ledger

\* captureChatApplyBaseRef has answered, or failed.
Register(c) ==
    /\ call[c].pc = "register"
    /\ \/ End(c) /\ UNCHANGED meta
       \/ /\ open # None
          /\ GoOn(c, [call[c] EXCEPT !.pc = "run"])
          /\ meta' = [meta EXCEPT ![call[c].id] = Registration(call[c])]
    /\ Early /\ UNCHANGED <<memory, stored, spoiled>>

\* orbitInteractiveStart has answered, or failed, which leaves the registration behind.
Run(c) ==
    LET r == call[c]
        s == r.id
        new == [id |-> s, answers |-> 0, ledger |-> r.path]
    IN
    /\ r.pc = "run"
    /\ Early /\ UNCHANGED <<meta, spoiled>>
    /\ \/ End(c) /\ UNCHANGED <<sessions, active, stored>> /\ Objects(object)
       \/ /\ sessions' = [sessions EXCEPT ![s] = FreeSlot]
          /\ active' = s
          /\ Store(SnapshotOf(new))
          /\ IF open = None \/ r.ledger = None THEN End(c)
             ELSE GoOn(c, [r EXCEPT !.pc = "bind", !.object = FreeSlot])
          /\ Objects([object EXCEPT ![FreeSlot] = new])

\* createThreadOnStartSuccess; when it fails, the session is taken back.
Bind(c) ==
    LET r == call[c]
        t == IF r.ledger = NewThread THEN r.id ELSE r.ledger
        row == IF r.ledger = NewThread
               THEN [db |-> open, path |-> r.path, bound |-> r.id, agent |-> r.agent, turns |-> <<>>]
               ELSE [thread[t] EXCEPT !.bound = r.id, !.agent = r.agent]
    IN
    /\ r.pc = "bind"
    /\ End(c)
    /\ \/ /\ open # None
          /\ r.ledger # NewThread => thread[t].db = open /\ thread[t].path = r.path
          /\ thread' = [thread EXCEPT ![t] = row]
          /\ spoiled' = spoiled \ {t}
          /\ UNCHANGED <<sessions, active, meta, stored>>
       \/ /\ meta' = IF r.agent THEN [meta EXCEPT ![r.id] = None] ELSE meta
          /\ Forget(r.id)
          /\ UNCHANGED <<thread, spoiled>>
    /\ UNCHANGED <<open, count, calls, aborts, overlapped, acked>>
    /\ Objects(object)

-----------------------------------------------------------------------------
(* Finding the session of a call.                                          *)

\* hydrateFromSnapshot: resume restores whatever was stored, the others what is missing.
Hydrate(c) ==
    LET r == call[c]
        s == r.id
        restores == r.snap.id = s /\ (r.op \in {"resume", "start"} \/ sessions[s] = None)
        new == [id |-> s, answers |-> r.snap.answers, ledger |-> None]
    IN
    /\ r.pc = "hydrate"
    /\ IF restores
       THEN /\ sessions' = [WithoutActive EXCEPT ![s] = FreeSlot]
            /\ active' = s
       ELSE UNCHANGED <<sessions, active>>
    /\ IF open = None \/ sessions'[s] = None \/ (r.op \in {"resume", "start"} /\ ~restores)
       THEN End(c)
       ELSE GoOn(c, [r EXCEPT !.pc = "attach", !.object = sessions'[s], !.snap = NoSnapshot,
                              !.found = IF restores \/ object[sessions[s]].ledger = None
                                        THEN WorkspaceOf(s) ELSE None])
    /\ UNCHANGED <<open, count, calls, aborts, meta, stored, thread, history>>
    /\ Objects(IF restores THEN [object EXCEPT ![FreeSlot] = new] ELSE object)

\* A variant of Attached for a session that is restored without its workspace.
NotAttached(obj, found) == obj

\* attachLedgerWorkspaceFromStore.
Attached(obj, found) == IF found = None THEN obj ELSE [obj EXCEPT !.ledger = found]

\* A variant of Full that lets one message too many in.
FullLate(obj) == obj.answers > MaxTurns

\* interactiveAtMaxTurns.
Full(obj) == obj.answers >= MaxTurns

\* The workspace of its thread is noted in the session that was there when it was
\* looked up; the call goes on with the session that is there now.
Attach(c) ==
    LET r == call[c]
        o == sessions[r.id]
        objs == [object EXCEPT ![r.object] = Attached(@, r.found)]
        full == o # None /\ Full(objs[o])
    IN
    /\ r.pc = "attach"
    /\ IF o = None \/ open = None \/ r.op \in {"resume", "start"} \/ (r.op = "message" /\ full)
       THEN End(c)
       ELSE GoOn(c, [r EXCEPT !.pc = IF r.op = "message" THEN "prepare" ELSE "summary",
                              !.object = o, !.found = None,
                              !.seen = IF r.op = "message" THEN objs[o].answers ELSE 0])
    /\ IF o # None /\ r.op = "message" /\ full THEN Store(SnapshotOf(objs[o])) ELSE UNCHANGED stored
    /\ UNCHANGED <<open, count, calls, sessions, active, aborts, meta, thread, history>>
    /\ Objects(objs)

-----------------------------------------------------------------------------
(* The continuations of message.                                           *)

\* prepareComposerMessageContext: within the limits, compacted, or too large.  Below the
\* maximum of turns the compaction keeps every answer (RECENT_TURNS_KEEP is as large).
Prepare(c) ==
    LET r == call[c] IN
    /\ r.pc = "prepare"
    /\ UNCHANGED <<open, count, calls, sessions, active, meta, stored, thread, history>>
    /\ \/ /\ GoOn(c, [r EXCEPT !.pc = "turn"])
          /\ aborts' = [aborts EXCEPT ![r.id] = c]
          /\ Objects([object EXCEPT ![r.object].answers = r.seen])
       \/ /\ End(c)
          /\ UNCHANGED aborts
          /\ Objects(object)

\* orbitInteractiveTurn has answered, or failed, as it does when it is aborted.
Turn(c) ==
    LET r == call[c]
        answered == [object EXCEPT ![r.object].answers = r.seen + 1]
    IN
    /\ r.pc = "turn"
    /\ aborts' = [aborts EXCEPT ![r.id] = None]
    /\ UNCHANGED <<open, count, calls, sessions, active, meta, thread, history>>
    /\ \/ /\ ~r.aborted
          /\ Store(SnapshotOf(answered[r.object]))
          /\ IF open = None THEN End(c) ELSE GoOn(c, [r EXCEPT !.pc = "append", !.seen = 0])
          /\ Objects(answered)
       \/ End(c) /\ UNCHANGED stored /\ Objects(object)

Acknowledge(s) == acked' = IF overlapped THEN acked ELSE [acked EXCEPT ![s] = @ + 1]

\* appendInteractiveMessage: to the thread whose session this still is, if there is
\* one, and unless the answer is empty.
AppendTurns(c) ==
    LET r == call[c]
        path == object[r.object].ledger
        rows == {t \in Ids : Bound(t, r.id, path)}
    IN
    /\ r.pc = "append"
    /\ End(c)
    /\ \/ /\ path = None
          /\ Acknowledge(r.id)
          /\ UNCHANGED thread
       \/ /\ path # None /\ open # None
          /\ \E t \in rows : thread' = [thread EXCEPT ![t].turns = Append(@, r.id)]
          /\ Acknowledge(r.id)
       \/ /\ path # None
          /\ UNCHANGED <<thread, acked>>
    /\ UNCHANGED <<open, count, calls, sessions, active, aborts, meta, stored, overlapped, spoiled>>
    /\ Objects(object)

-----------------------------------------------------------------------------
(* The continuations of finalize, accept and play, and of cancel.          *)

\* The runner has answered: the thread loses its session.  When it fails, or anything
\* after it, the session is stored again.
Summary(c) ==
    LET r == call[c]
        rows == {t \in Ids : Bound(t, r.id, object[r.object].ledger)}
    IN
    /\ r.pc = "summary"
    /\ \/ /\ open # None
          /\ thread' = [t \in Ids |-> IF t \in rows THEN [thread[t] EXCEPT !.bound = None]
                                      ELSE thread[t]]
          /\ GoOn(c, [r EXCEPT !.pc = "forget", !.object = None])
          /\ UNCHANGED stored
       \/ /\ Store(SnapshotOf(object[r.object]))
          /\ End(c)
          /\ UNCHANGED thread
    /\ UNCHANGED <<open, count, calls, sessions, active, aborts, meta, history>>
    /\ Objects(object)

Forgotten(c) ==
    /\ call[c].pc = "forget"
    /\ End(c)
    /\ Forget(call[c].id)
    /\ UNCHANGED <<open, count, calls, aborts, meta, thread, history>>
    /\ Objects(object)

CancelLoaded(c) ==
    /\ call[c].pc = "cancel"
    /\ End(c)
    /\ IF call[c].snap.id = call[c].id THEN Store(NoSnapshot) ELSE UNCHANGED stored
    /\ UNCHANGED <<open, count, calls, memory, aborts, meta, thread, history>>

-----------------------------------------------------------------------------
(* What goes on around the service.                                        *)

OpenWorkspace(w) ==
    /\ open = None
    /\ open' = w
    /\ Meet
    /\ UNCHANGED <<count, calls, memory, aborts, meta, stored, thread, call, spoiled>>

\* The end of teardownWorkspaceRuntimeInternal, with clearAll.
CloseWorkspace ==
    /\ open # None
    /\ open' = None
    /\ sessions' = [s \in Ids |-> None]
    /\ active' = None
    /\ aborts' = [s \in Ids |-> None]
    /\ call' = [c \in Calls |->
                  [call[c] EXCEPT !.aborted = @ \/ \E s \in Ids : aborts[s] = c]]
    /\ Meet
    /\ Counted
    /\ UNCHANGED <<count, meta, stored, thread, spoiled>>
    /\ Objects(object)

\* deleteThread, of the chat's history; the turns go with it.
DeleteThread(t) ==
    /\ open # None /\ thread[t].db = open /\ thread[t].path = open
    /\ thread' = [thread EXCEPT ![t] = NoThread]
    /\ Meet
    /\ Counted
    /\ UNCHANGED <<open, count, memory, aborts, meta, stored, call, spoiled>>

\* The process ends at any moment and starts again; the databases remain.
Crash ==
    /\ open # None
    /\ open' = None
    /\ object' = [o \in Slots |-> NoObject]
    /\ sessions' = [s \in Ids |-> None]
    /\ active' = None
    /\ aborts' = [s \in Ids |-> None]
    /\ meta' = [s \in Ids |-> None]
    /\ call' = [c \in Calls |-> NoCall]
    /\ spoiled' = {t \in Ids : thread[t].db # None}
    /\ UNCHANGED <<count, calls, stored, thread, overlapped, acked>>

-----------------------------------------------------------------------------
User ==
    \/ \E c \in Calls, t \in Ids \cup {NewThread}, agent \in BOOLEAN : StartChat(c, t, agent)
    \/ \E c \in Calls : StartAssist(c)
    \/ \E c \in Calls, s \in 1..count :
         \/ \E op \in {"message", "finalize"} : Use(c, op, s)
         \/ Resume(c, s) \/ CancelStored(c, s)
    \/ \E s \in 1..count : CancelNow(s) \/ Interrupt(s)
    \/ \E t \in Ids : DeleteThread(t)

Continue(c) ==
    \/ Draft(c) \/ Clear(c) \/ Profile(c) \/ Previous(c) \/ Register(c) \/ Run(c) \/ Bind(c)
    \/ Hydrate(c) \/ Attach(c) \/ Prepare(c) \/ Turn(c) \/ AppendTurns(c)
    \/ Summary(c) \/ Forgotten(c) \/ CancelLoaded(c)

Next ==
    \/ User
    \/ \E c \in Calls : Continue(c)
    \/ \E w \in Workspaces : OpenWorkspace(w)
    \/ CloseWorkspace \/ Crash

Spec == Init /\ [][Next]_vars

-----------------------------------------------------------------------------
Snapshots == [id : Ids \cup {None}, answers : 0..MaxTurns]
Pcs == {"idle", "draft", "begin", "profile", "previous", "register", "run", "bind", "hydrate",
        "attach", "prepare", "turn", "append", "summary", "forget", "cancel"}

TypeOK ==
    /\ open \in Workspaces \cup {None}
    /\ count \in 0..MaxSessions
    /\ calls \in 0..MaxCalls
    /\ {o \in Slots : object[o].id \in Ids} = Referenced \ {None}
    /\ \A o \in Slots :
         /\ object[o].answers \in 0..MaxTurns
         /\ object[o].ledger \in Workspaces \cup {None}
    /\ sessions \in [Ids -> Slots \cup {None}]
    /\ active \in Ids \cup {None}
    /\ aborts \in [Ids -> Calls \cup {None}]
    /\ meta \in [Ids -> Ids \cup {None}]
    /\ stored \in [Workspaces -> Snapshots]
    /\ \A t \in Ids : thread[t].db = None <=> thread[t] = NoThread
    /\ \A c \in Calls :
         /\ call[c].pc \in Pcs
         /\ call[c].pc \in {"attach", "prepare", "turn", "append", "summary", "bind"}
              <=> call[c].object # None
    /\ overlapped \in BOOLEAN
    /\ spoiled \subseteq Ids
    /\ acked \in [Ids -> 0..MaxTurns]

(* The active session is one of those in memory, and what the map holds    *)
(* under an id is a session of that id: getActive and start would take a   *)
(* dangling id for no session, and resume what has just been deleted.      *)
ActiveIsInMemory ==
    /\ active # None => sessions[active] # None
    /\ \A s \in Ids : sessions[s] # None => object[sessions[s]].id = s

(* A thread is one conversation after another: the turns of a session are  *)
(* in one thread only, the one it is bound to, and once a restart has      *)
(* bound another session, none of the earlier one's late answers gets in   *)
(* between its turns.                                                      *)
TurnsFollowBindings ==
    \A t \in Ids :
        LET q == thread[t].turns IN
        /\ \A i, k \in DOMAIN q : q[i] = q[k] => \A j \in i..k : q[j] = q[i]
        /\ \A u \in Ids \ {t} : \A i \in DOMAIN q :
             /\ q[i] # thread[u].bound
             /\ \A k \in DOMAIN thread[u].turns : q[i] # thread[u].turns[k]

(* A thread whose agent may have changed files can be applied: its session *)
(* is registered, under that thread - unless a restart of the thread has   *)
(* failed after it had unregistered its predecessor, or the process has    *)
(* been restarted, since the registry is not stored.                       *)
ApplyFindsThread ==
    \A t \in Ids \ spoiled :
        thread[t].agent /\ thread[t].bound # None => meta[thread[t].bound] = t

(* As long as the calls come one after the other, the process may end at   *)
(* any moment: what is in memory is what is stored, every answer that was  *)
(* returned is in the snapshot of its session as long as there is one, and *)
(* in the thread that the session is bound to.                             *)
RestartLosesNothing ==
    ~overlapped /\ InFlight = {} =>
        /\ active # None => open # None /\ stored[open] = SnapshotOf(object[sessions[active]])
        /\ \A s \in Ids : sessions[s] # None => s = active
        /\ \A w \in Workspaces :
             stored[w].id # None => acked[stored[w].id] <= stored[w].answers
        /\ \A t \in Ids :
             LET s == thread[t].bound IN
             s # None => acked[s] = Cardinality({i \in DOMAIN thread[t].turns : thread[t].turns[i] = s})
=============================================================================
