--------------------------- MODULE ChatThreadSend ---------------------------
(***************************************************************************)
(* The chat view's sends (renderer, hooks/use-chat-thread-send.ts).        *)
(*                                                                         *)
(* A send is a chain of awaited calls to the main process: starting a      *)
(* thread, restarting its session, the message itself, which may take half *)
(* an hour, and reading the turns back.  The view stays usable meanwhile:  *)
(* the operator cancels, selects another thread, begins a new chat, or     *)
(* another view hands over a conversation.  A continuation learns from two *)
(* counters, sendGenerationRef and threadRequestRef, or from the active    *)
(* thread, whether the view has moved on; some continuations do not ask.   *)
(*                                                                         *)
(* The counters are modelled by what they are compared for: `sender` is    *)
(* the send whose generation is the current one, `latest` the load whose   *)
(* request is.  A call to the main process answers or fails, at any time   *)
(* after it was made.  What is set is rendered before the next event, and  *)
(* of handoffs, changes of mode and finalizes there is one at a time.  Not *)
(* here: the live stream, the drafts, the spec preview, the lists.         *)
(***************************************************************************)
EXTENDS Naturals

CONSTANTS
    Sends,      \* slots for sends in flight
    Loads,      \* slots for loads of a thread's turns
    MaxThreads, \* bound: threads, the one at the start included
    None

ASSUME ThreadsAssumption == MaxThreads \in Nat /\ MaxThreads >= 1
ASSUME NoneAssumption == None \notin Sends \cup Loads \cup (1..MaxThreads)

VARIABLES
    known,      \* the number of threads so far
    stream,     \* streamState
    active,     \* activeThreadId, and activeThreadIdRef
    turns,      \* the thread whose turns are None when no thread's are
    timer,      \* is cancelSettleTimerRef set?
    retriable,  \* does lastFailedMessageRef hold a message?
    sender,     \* the send of the current generation that has not ended
    send,       \* per slot, a run of runUserMessageSend
    latest,     \* the load of the current request that has not ended
    load,       \* per slot, the thread that loadThread asks for
    other,      \* a handoff, a change of mode or a finalize: what it waits for, and its thread
    overruled,  \* history: a send that was superseded has set streamState
    taken       \* history: a late start, or load, has changed the view

view == <<known, stream, active, turns, timer, retriable>>
vars == <<view, sender, send, latest, load, other, overruled, taken>>

NoSend == [pc |-> "idle", thread |-> None]
NoOther == [pc |-> "idle", thread |-> None]
Threads == 1..known

Init ==
    /\ known = 1
    /\ stream = "idle"
    /\ active = None
    /\ turns = None
    /\ timer = FALSE
    /\ retriable = FALSE
    /\ sender = None
    /\ send = [s \in Sends |-> NoSend]
    /\ latest = None
    /\ load = [l \in Loads |-> None]
    /\ other = NoOther
    /\ overruled = FALSE
    /\ taken = FALSE

-----------------------------------------------------------------------------
\* isChatStreamCancellable and isChatStreamBusy.
Cancellable(state) == state \in {"streaming", "retrying"}
Busy(state) == Cancellable(state) \/ state = "cancelling"

\* A variant of Superseded for a send that does not look at the generation.
NeverSuperseded(s) == FALSE

Superseded(s) == sender # s

\* A variant of Outdated for a load that takes whatever it gets.
NeverOutdated(l) == FALSE

Outdated(l) == latest # l

\* A new generation, and a new request, with no send and no load of their own.
NextGeneration == sender' = None /\ overruled' = FALSE
NextRequest == latest' = None

\* setTurns after a send or a finalize: only if the thread is still the active one.
ShowTurns(t) == turns' = IF active = t THEN t ELSE turns

\* A thread that was started becomes the active one, whatever is shown or being loaded.
Take(t) ==
    /\ known' = t
    /\ active' = t
    /\ taken' = (taken \/ turns # None \/ latest # None)

\* gateway.startThread; the bound stands for a failure.
Startable(t) == t = known + 1 /\ t <= MaxThreads

-----------------------------------------------------------------------------
(* The operator's events.                                                  *)

\* The session is restarted when its settings have changed.
FirstCall == IF active = None THEN {"start"} ELSE {"restart", "message"}

\* handleSend("send") and retrySend, up to the first await.
Send(s) ==
    /\ send[s].pc = "idle" /\ ~Busy(stream)
    /\ \/ stream' = "streaming"
       \/ stream' = "retrying" /\ retriable
    /\ sender' = s
    /\ overruled' = FALSE
    /\ timer' = FALSE
    /\ retriable' = TRUE
    /\ \E pc \in FirstCall :
         send' = [send EXCEPT ![s] = [pc |-> pc, thread |-> active]]
    /\ UNCHANGED <<known, active, turns, latest, load, other, taken>>

\* A send without a thread in a view that cannot start one.
SendNowhere ==
    /\ ~Busy(stream) /\ active = None
    /\ stream' = "idle"
    /\ NextGeneration
    /\ timer' = FALSE
    /\ retriable' = TRUE
    /\ UNCHANGED <<known, active, turns, send, latest, load, other, taken>>

CancelSend ==
    /\ Cancellable(stream)
    /\ stream' = "cancelling"
    /\ NextGeneration
    /\ timer' = TRUE
    /\ UNCHANGED <<known, active, turns, retriable, send, latest, load, other, taken>>

\* A variant of Leave for which a send in flight keeps the view busy.
LeaveBusy(t) ==
    /\ active' = t
    /\ turns' = None
    /\ taken' = FALSE
    /\ NextGeneration
    /\ timer' = FALSE
    /\ UNCHANGED stream

\* What selecting a thread or a draft and a new chat have in common.
Leave(t) ==
    /\ active' = t
    /\ turns' = None
    /\ taken' = FALSE
    /\ NextGeneration
    /\ timer' = FALSE
    /\ stream' = "idle"

SelectThread(t, l) ==
    /\ t # active /\ load[l] = None
    /\ Leave(t)
    /\ latest' = l
    /\ load' = [load EXCEPT ![l] = t]
    /\ UNCHANGED <<known, retriable, send, other>>

SelectDraft ==
    /\ Leave(None)
    /\ NextRequest
    /\ UNCHANGED <<known, retriable, send, load, other>>

NewChat ==
    /\ Leave(None)
    /\ NextRequest
    /\ retriable' = FALSE
    /\ UNCHANGED <<known, send, load, other>>

\* changeChatMode of a thread that has a session to restart.
ChangeMode ==
    /\ other.pc = "idle" /\ active # None
    /\ other' = [pc |-> "mode", thread |-> active]
    /\ UNCHANGED <<view, sender, send, latest, load, overruled, taken>>

\* handleSend("finalize").
Finalize ==
    /\ other.pc = "idle"
    /\ other' = [pc |-> IF active = None THEN "start" ELSE "summary", thread |-> active]
    /\ UNCHANGED <<view, sender, send, latest, load, overruled, taken>>

\* startThreadFromHandoff, by an effect of the view.
Handoff ==
    /\ other.pc = "idle"
    /\ other' = [NoOther EXCEPT !.pc = "handoff"]
    /\ NextGeneration
    /\ NextRequest
    /\ timer' = FALSE
    /\ stream' = "idle"
    /\ UNCHANGED <<known, active, turns, retriable, send, load, taken>>

-----------------------------------------------------------------------------
(* The continuations of a send.                                            *)

GoOn(s, pc, t) == send' = [send EXCEPT ![s] = [pc |-> pc, thread |-> t]]

\* The end of s, which sets streamState without looking at the generation ...
Ends(s, state) ==
    /\ send' = [send EXCEPT ![s] = NoSend]
    /\ stream' = state
    /\ sender' = IF sender = s THEN None ELSE sender
    /\ overruled' = (overruled \/ sender \notin {s, None})

\* ... and after looking at it.
Fails(s) ==
    \/ /\ Superseded(s)
       /\ send' = [send EXCEPT ![s] = NoSend]
       /\ UNCHANGED <<stream, sender, overruled>>
    \/ /\ ~Superseded(s)
       /\ send' = [send EXCEPT ![s] = NoSend]
       /\ stream' = "error"
       /\ sender' = IF sender = s THEN None ELSE sender
       /\ UNCHANGED overruled

\* The rest of what a continuation of a send leaves alone.
Aside == UNCHANGED <<timer, latest, load, other>>

\* A step of s, if it has not been superseded; otherwise its end.
Unless(s, pc, t) ==
    \/ /\ Superseded(s)
       /\ send' = [send EXCEPT ![s] = NoSend]
    \/ /\ ~Superseded(s)
       /\ GoOn(s, pc, t)

\* ensureThreadId; refreshing the list may fail after the thread has become active.
StartThread(s) ==
    /\ send[s].pc = "start"
    /\ \/ \E t \in 1..MaxThreads :
            /\ Startable(t)
            /\ Take(t)
            /\ \/ GoOn(s, "message", t) /\ UNCHANGED <<stream, sender, overruled>>
               \/ Fails(s)
       \/ Fails(s) /\ UNCHANGED <<known, active, taken>>
    /\ Aside /\ UNCHANGED <<turns, retriable>>

\* gateway.restartThreadSession, when the session's settings have changed.
RestartSession(s) ==
    /\ send[s].pc = "restart"
    /\ \/ GoOn(s, "message", send[s].thread) /\ UNCHANGED <<stream, sender, overruled>>
       \/ Fails(s)
    /\ Aside /\ UNCHANGED <<known, active, turns, retriable, taken>>

\* gateway.sendMessage: an answer, a session that is not found, or another error.
Message(s) ==
    /\ send[s].pc = "message"
    /\ \/ /\ \E pc \in {"refresh", "recover"} : Unless(s, pc, send[s].thread)
          /\ UNCHANGED <<stream, sender, overruled>>
       \/ Fails(s)
    /\ Aside /\ UNCHANGED <<known, active, turns, retriable, taken>>

\* gateway.getThread after the answer, and after the answer in a recovered session.
Refresh(s) ==
    /\ send[s].pc \in {"refresh", "rerefresh"}
    /\ \/ /\ ShowTurns(send[s].thread)
          /\ retriable' = FALSE
          /\ Ends(s, "idle")
       \/ /\ IF send[s].pc = "refresh" THEN Fails(s) ELSE Ends(s, "error")
          /\ UNCHANGED <<turns, retriable>>
    /\ Aside /\ UNCHANGED <<known, active, taken>>

\* recoverMissingComposerSession: the message goes to a thread of its own.  The
\* turns shown are those of the lost session until it has answered.
Recover(s) ==
    /\ send[s].pc = "recover"
    /\ \/ \E t \in 1..MaxThreads :
            /\ Startable(t)
            /\ Unless(s, "resend", t)
            /\ IF Superseded(s) THEN known' = t /\ UNCHANGED <<active, taken>> ELSE Take(t)
            /\ UNCHANGED <<stream, sender, overruled>>
       \/ Ends(s, "error") /\ UNCHANGED <<known, active, taken>>
    /\ Aside /\ UNCHANGED <<turns, retriable>>

Resend(s) ==
    /\ send[s].pc = "resend"
    /\ \/ /\ Unless(s, "rerefresh", send[s].thread)
          /\ UNCHANGED <<stream, sender, overruled>>
       \/ Ends(s, "error")
    /\ Aside /\ UNCHANGED <<known, active, turns, retriable, taken>>

Continue(s) ==
    \/ StartThread(s) \/ RestartSession(s) \/ Message(s) \/ Refresh(s)
    \/ Recover(s) \/ Resend(s)

-----------------------------------------------------------------------------
(* The other continuations.                                                *)

\* A variant of Settled for a timer that only ends a state that is gone.
SettledWrongly == stream' = IF Cancellable(stream) THEN "idle" ELSE stream

\* The callback of the cancel timer.
Settled == stream' = IF stream = "cancelling" THEN "idle" ELSE stream

Settle ==
    /\ timer
    /\ timer' = FALSE
    /\ Settled
    /\ UNCHANGED <<known, active, turns, retriable, sender, send, latest, load, other,
                   overruled, taken>>

\* The end of loadThread: the turns of its thread, or an error.
Loaded(l) ==
    /\ load[l] # None
    /\ turns' \in {turns, IF Outdated(l) THEN turns ELSE load[l]}
    /\ load' = [load EXCEPT ![l] = None]
    /\ latest' = IF latest = l THEN None ELSE latest
    /\ UNCHANGED <<known, stream, active, timer, retriable, sender, send, other,
                   overruled, taken>>

HandedOff ==
    /\ other.pc = "handoff"
    /\ other' = NoOther
    /\ \/ \E t \in 1..MaxThreads :
            /\ Startable(t)
            /\ known' = t
            /\ active' = t
            /\ turns' = None
            /\ taken' = (taken \/ latest # None)
       \/ UNCHANGED <<known, active, turns, taken>>
    /\ UNCHANGED <<stream, timer, retriable, sender, send, latest, load, overruled>>

\* The restarted thread is loaded again, be it the active one or not.
ModeChanged(l) ==
    /\ other.pc = "mode" /\ load[l] = None
    /\ other' = NoOther
    /\ \/ /\ latest' = l
          /\ load' = [load EXCEPT ![l] = other.thread]
          /\ taken' = (taken \/ other.thread # active)
       \/ UNCHANGED <<latest, load, taken>>
    /\ UNCHANGED <<view, sender, send, overruled>>

FinalizeStart ==
    /\ other.pc = "start"
    /\ \/ \E t \in 1..MaxThreads :
            /\ Startable(t)
            /\ Take(t)
            /\ other' = [pc |-> "summary", thread |-> t]
       \/ other' = NoOther /\ UNCHANGED <<known, active, taken>>
    /\ UNCHANGED <<stream, turns, timer, retriable, sender, send, latest, load, overruled>>

\* gateway.finalizeThread and gateway.getThread.
Finalized ==
    /\ other.pc = "summary"
    /\ other' = NoOther
    /\ ShowTurns(other.thread) \/ UNCHANGED turns
    /\ UNCHANGED <<known, stream, active, timer, retriable, sender, send, latest, load, overruled,
                   taken>>

-----------------------------------------------------------------------------
User ==
    \/ \E s \in Sends : Send(s)
    \/ SendNowhere \/ CancelSend
    \/ \E t \in Threads, l \in Loads : SelectThread(t, l)
    \/ SelectDraft \/ NewChat \/ ChangeMode \/ Finalize \/ Handoff

Next ==
    \/ User
    \/ \E s \in Sends : Continue(s)
    \/ \E l \in Loads : Loaded(l) \/ ModeChanged(l)
    \/ Settle \/ HandedOff \/ FinalizeStart \/ Finalized

(* Every call to the main process ends: the process that answers a message *)
(* is run with a timeout (orbit-interactive-client.ts), everything else is *)
(* reading and writing files.  The operator owes nothing.                  *)
Fairness ==
    /\ \A s \in Sends : WF_vars(Continue(s))
    /\ WF_vars(Settle)

Spec == Init /\ [][Next]_vars /\ Fairness

-----------------------------------------------------------------------------
States == {"idle", "streaming", "retrying", "cancelling", "error"}
Pcs == {"idle", "start", "restart", "message", "refresh", "recover", "resend", "rerefresh"}
Thread == 1..MaxThreads \cup {None}

TypeOK ==
    /\ known \in 1..MaxThreads
    /\ stream \in States
    /\ active \in Thread
    /\ turns \in Thread
    /\ timer \in BOOLEAN
    /\ retriable \in BOOLEAN
    /\ sender \in Sends \cup {None}
    /\ send \in [Sends -> [pc : Pcs, thread : Thread]]
    /\ \A s \in Sends : send[s].thread = None <=> send[s].pc \in {"idle", "start"}
    /\ latest \in Loads \cup {None}
    /\ load \in [Loads -> Thread]
    /\ other \in [pc : {"idle", "handoff", "mode", "start", "summary"}, thread : Thread]
    /\ overruled \in BOOLEAN
    /\ taken \in BOOLEAN

(* The view is busy only while something will end it: a send of the        *)
(* current generation is in flight, or the cancel timer runs.              *)
BusyHasSender ==
    /\ Cancellable(stream) => sender # None /\ send[sender].pc # "idle"
    /\ stream = "cancelling" => timer

(* While the send of the current generation is in flight the view is busy, *)
(* so that no second message is sent: a send that the operator has left    *)
(* behind does not end it.  Two continuations do not look at the           *)
(* generation, after the turns were read back and after a recovery failed. *)
SenderIsBusy == sender # None => Cancellable(stream) \/ overruled

(* The turns that are shown or on their way are those of the active        *)
(* thread, however late an answer comes - unless a continuation that does  *)
(* not ask has changed the thread, or loads one that was left.             *)
TurnsAreOfThread ==
    taken \/ /\ turns # None => turns = active
             /\ latest # None => load[latest] = active

(* A busy view becomes usable again.                                       *)
BusyEnds == Busy(stream) ~> ~Busy(stream)
=============================================================================
