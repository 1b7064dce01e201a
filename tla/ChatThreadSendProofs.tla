------------------------ MODULE ChatThreadSendProofs ------------------------
(***************************************************************************)
(* Proofs about ChatThreadSend, for any number of sends, loads and threads.*)
(* Its safety properties are inductive together with the types: what keeps *)
(* them so is that whoever frees the view also ends, or supersedes, the    *)
(* send that the view was busy with.                                       *)
(***************************************************************************)
EXTENDS ChatThreadSend, TLAPS

(* The flags are Boolean.                                                  *)
Flags ==
    timer \in BOOLEAN /\ retriable \in BOOLEAN /\ overruled \in BOOLEAN /\ taken \in BOOLEAN

LEMMA FlagsStep == Flags /\ Next => Flags'
<1> SUFFICES ASSUME Flags, Next PROVE Flags'
  OBVIOUS
<1> USE DEF Flags, view
<1>1. ASSUME NEW s \in Sends, Send(s) PROVE Flags'
  BY <1>1, Zenon DEF Send
<1>2. CASE SendNowhere \/ CancelSend
  BY <1>2, Zenon DEF SendNowhere, CancelSend, NextGeneration
<1>3. ASSUME NEW t \in Threads, NEW l \in Loads, SelectThread(t, l) PROVE Flags'
  BY <1>3, Zenon DEF SelectThread, Leave, NextGeneration
<1>4. CASE SelectDraft \/ NewChat
  BY <1>4, Zenon DEF SelectDraft, NewChat, Leave, NextGeneration
<1>5. CASE ChangeMode \/ Finalize \/ Handoff
  BY <1>5, Zenon DEF ChangeMode, Finalize, Handoff, NextGeneration
<1>6. ASSUME NEW s \in Sends, Continue(s) PROVE Flags'
  <2>1. CASE StartThread(s)
    BY <2>1, Zenon DEF StartThread, Take, Fails, Aside
  <2>2. CASE RestartSession(s) \/ Message(s)
    BY <2>2, Zenon DEF RestartSession, Message, Fails, Aside
  <2>3. CASE Refresh(s)
    <3>1. UNCHANGED <<timer, taken>> /\ retriable' \in {retriable, FALSE}
      BY <2>3, Zenon DEF Refresh, Aside
    <3>2. overruled' \in BOOLEAN
      BY <2>3, Zenon DEF Refresh, Fails, Ends
    <3> QED
      BY <3>1, <3>2, Zenon
  <2>4. CASE Recover(s)
    BY <2>4, Zenon DEF Recover, Take, Ends, Aside
  <2>5. CASE Resend(s)
    BY <2>5, Zenon DEF Resend, Ends, Aside
  <2> QED
    BY <1>6, <2>1, <2>2, <2>3, <2>4, <2>5, Zenon DEF Continue
<1>7. ASSUME NEW l \in Loads, Loaded(l) \/ ModeChanged(l) PROVE Flags'
  BY <1>7, Zenon DEF Loaded, ModeChanged
<1>8. CASE Settle \/ HandedOff
  BY <1>8, Zenon DEF Settle, HandedOff
<1>9. CASE FinalizeStart \/ Finalized
  BY <1>9, Zenon DEF FinalizeStart, Finalized, Take
<1> QED
  BY <1>1, <1>2, <1>3, <1>4, <1>5, <1>6, <1>7, <1>8, <1>9, Zenon DEF Next, User

-----------------------------------------------------------------------------
(* The rest of TypeOK: the view, the sends and the loads.                  *)
ViewTyped ==
    /\ known \in 1..MaxThreads
    /\ stream \in States
    /\ active \in Thread
    /\ turns \in Thread

SendsTyped ==
    /\ sender \in Sends \cup {None}
    /\ send \in [Sends -> [pc : Pcs, thread : Thread]]
    /\ \A s \in Sends : send[s].thread = None <=> send[s].pc \in {"idle", "start"}

LoadsTyped ==
    /\ latest \in Loads \cup {None}
    /\ load \in [Loads -> Thread]
    /\ other \in [pc : {"idle", "handoff", "mode", "start", "summary"}, thread : Thread]

LEMMA TypeOKParts == TypeOK <=> Flags /\ ViewTyped /\ SendsTyped /\ LoadsTyped
  BY DEF TypeOK, Flags, ViewTyped, SendsTyped, LoadsTyped

(* A send goes on, or ends; whoever has the thread it goes on with.        *)
LEMMA GoOnTyped ==
    ASSUME SendsTyped, NEW s \in Sends, NEW pc \in Pcs \ {"idle", "start"},
           NEW t \in Thread \ {None}, GoOn(s, pc, t)
    PROVE  send' \in [Sends -> [pc : Pcs, thread : Thread]]
           /\ \A r \in Sends : send'[r].thread = None <=> send'[r].pc \in {"idle", "start"}
  BY DEF SendsTyped, GoOn

LEMMA EndTyped ==
    ASSUME SendsTyped, NEW s \in Sends, send' = [send EXCEPT ![s] = NoSend]
    PROVE  send' \in [Sends -> [pc : Pcs, thread : Thread]]
           /\ \A r \in Sends : send'[r].thread = None <=> send'[r].pc \in {"idle", "start"}
  BY DEF SendsTyped, NoSend, Pcs, Thread

LEMMA ViewTypedStep ==
    TypeOK /\ Next => ViewTyped'
<1> SUFFICES ASSUME TypeOK, Next PROVE ViewTyped'
  OBVIOUS
<1> USE DEF TypeOK, ViewTyped, view, States, Thread
<1>1. ASSUME NEW s \in Sends, Send(s) PROVE ViewTyped'
  BY <1>1 DEF Send
<1>2. CASE SendNowhere \/ CancelSend
  BY <1>2 DEF SendNowhere, CancelSend
<1>3. ASSUME NEW t \in Threads, NEW l \in Loads, SelectThread(t, l) PROVE ViewTyped'
  BY <1>3, ThreadsAssumption DEF SelectThread, Leave, Threads
<1>4. CASE SelectDraft \/ NewChat
  BY <1>4 DEF SelectDraft, NewChat, Leave
<1>5. CASE ChangeMode \/ Finalize \/ Handoff
  BY <1>5 DEF ChangeMode, Finalize, Handoff
<1>6. ASSUME NEW s \in Sends, Continue(s) PROVE ViewTyped'
  <2>1. CASE StartThread(s)
    BY <2>1 DEF StartThread, Take, Fails, Aside
  <2>2. CASE RestartSession(s) \/ Message(s)
    BY <2>2 DEF RestartSession, Message, Fails, Aside
  <2>3. CASE Refresh(s)
    BY <2>3 DEF Refresh, ShowTurns, Fails, Ends, Aside
  <2>4. CASE Recover(s)
    BY <2>4 DEF Recover, Take, Ends, Aside
  <2>5. CASE Resend(s)
    BY <2>5 DEF Resend, Ends, Aside
  <2> QED
    BY <1>6, <2>1, <2>2, <2>3, <2>4, <2>5 DEF Continue
<1>7. ASSUME NEW l \in Loads, Loaded(l) \/ ModeChanged(l) PROVE ViewTyped'
  BY <1>7 DEF Loaded, ModeChanged
<1>8. CASE Settle \/ HandedOff
  BY <1>8 DEF Settle, Settled, HandedOff
<1>9. CASE FinalizeStart \/ Finalized
  BY <1>9 DEF FinalizeStart, Finalized, Take, ShowTurns
<1> QED
  BY <1>1, <1>2, <1>3, <1>4, <1>5, <1>6, <1>7, <1>8, <1>9 DEF Next, User

LEMMA SendsTypedStep == TypeOK /\ Next => SendsTyped'
<1> SUFFICES ASSUME TypeOK, Next PROVE SendsTyped'
  OBVIOUS
<1>0. SendsTyped /\ ViewTyped
  BY TypeOKParts
<1> USE DEF SendsTyped
<1>1. ASSUME NEW s \in Sends, Send(s) PROVE SendsTyped'
  BY <1>0, <1>1, NoneAssumption DEF Send, FirstCall, ViewTyped, Pcs
<1>2. CASE UNCHANGED send /\ sender' \in {sender, None}
  BY <1>0, <1>2
<1>3. ASSUME NEW s \in Sends, Continue(s) PROVE SendsTyped'
  <2>1. sender' \in {sender, None}
    BY <1>3 DEF Continue, StartThread, RestartSession, Message, Refresh, Recover, Resend,
                Fails, Ends
  <2>2. CASE send' = [send EXCEPT ![s] = NoSend]
    BY <1>0, <2>1, <2>2, EndTyped
  <2>3. CASE \E pc \in Pcs \ {"idle", "start"}, t \in Thread \ {None} : GoOn(s, pc, t)
    BY <1>0, <2>1, <2>3, GoOnTyped
  <2>4. \/ send' = [send EXCEPT ![s] = NoSend]
        \/ \E pc \in Pcs \ {"idle", "start"}, t \in Thread \ {None} : GoOn(s, pc, t)
    <3>1. {"message", "refresh", "recover", "resend", "rerefresh"} \subseteq Pcs \ {"idle", "start"}
      BY DEF Pcs
    <3>2. 1..MaxThreads \subseteq Thread \ {None}
      BY NoneAssumption DEF Thread
    <3>3. send[s].pc \notin {"idle", "start"} => send[s].thread \in Thread \ {None}
      BY <1>0
    <3>4. CASE StartThread(s)
      BY <3>1, <3>2, <3>4 DEF StartThread, Fails
    <3>5. CASE RestartSession(s) \/ Message(s)
      BY <3>1, <3>3, <3>5 DEF RestartSession, Message, Unless, Fails
    <3>6. CASE Refresh(s)
      BY <3>6 DEF Refresh, Fails, Ends
    <3>7. CASE Recover(s)
      BY <3>1, <3>2, <3>7 DEF Recover, Unless, Ends
    <3>8. CASE Resend(s)
      BY <3>1, <3>3, <3>8 DEF Resend, Unless, Ends
    <3> QED
      BY <1>3, <3>4, <3>5, <3>6, <3>7, <3>8 DEF Continue
  <2> QED
    BY <2>2, <2>3, <2>4
<1>4. CASE SendNowhere \/ CancelSend \/ SelectDraft \/ NewChat \/ ChangeMode \/ Finalize \/ Handoff
  BY <1>2, <1>4 DEF SendNowhere, CancelSend, SelectDraft, NewChat, ChangeMode, Finalize, Handoff,
                    Leave, NextGeneration
<1>5. ASSUME NEW t \in Threads, NEW l \in Loads, SelectThread(t, l) PROVE SendsTyped'
  BY <1>2, <1>5 DEF SelectThread, Leave, NextGeneration
<1>6. ASSUME NEW l \in Loads, Loaded(l) \/ ModeChanged(l) PROVE SendsTyped'
  BY <1>2, <1>6 DEF Loaded, ModeChanged
<1>7. CASE Settle \/ HandedOff \/ FinalizeStart \/ Finalized
  BY <1>2, <1>7 DEF Settle, HandedOff, FinalizeStart, Finalized
<1> QED
  BY <1>1, <1>3, <1>4, <1>5, <1>6, <1>7 DEF Next, User

LEMMA LoadsTypedStep == TypeOK /\ Next => LoadsTyped'
<1> SUFFICES ASSUME TypeOK, Next PROVE LoadsTyped'
  OBVIOUS
<1>0. LoadsTyped /\ ViewTyped
  BY TypeOKParts
<1> USE DEF LoadsTyped, view, Thread
<1>1. CASE UNCHANGED <<load, other>> /\ latest' \in {latest, None}
  BY <1>0, <1>1
<1>2. ASSUME NEW s \in Sends, Send(s) \/ Continue(s) PROVE LoadsTyped'
  BY <1>1, <1>2 DEF Send, Continue, StartThread, RestartSession, Message, Refresh, Recover,
                    Resend, Aside
<1>3. CASE SendNowhere \/ CancelSend \/ SelectDraft \/ NewChat \/ Settle
  BY <1>1, <1>3 DEF SendNowhere, CancelSend, SelectDraft, NewChat, Settle, NextRequest
<1>4. ASSUME NEW t \in Threads, NEW l \in Loads, SelectThread(t, l) PROVE LoadsTyped'
  BY <1>0, <1>4, ThreadsAssumption DEF SelectThread, Threads, ViewTyped
<1>5. CASE ChangeMode \/ Finalize
  BY <1>0, <1>5 DEF ChangeMode, Finalize, ViewTyped
<1>6. CASE Handoff \/ HandedOff \/ Finalized
  BY <1>0, <1>6 DEF Handoff, HandedOff, Finalized, NextRequest, NoOther
<1>7. ASSUME NEW l \in Loads, Loaded(l) \/ ModeChanged(l) PROVE LoadsTyped'
  BY <1>0, <1>7 DEF Loaded, ModeChanged, NoOther
<1>8. CASE FinalizeStart
  BY <1>0, <1>8 DEF FinalizeStart, NoOther
<1> QED
  BY <1>2, <1>3, <1>4, <1>5, <1>6, <1>7, <1>8 DEF Next, User

LEMMA TypeStep == TypeOK /\ [Next]_vars => TypeOK'
<1>1. TypeOK /\ Next => Flags' /\ ViewTyped' /\ SendsTyped' /\ LoadsTyped'
  BY FlagsStep, ViewTypedStep, SendsTypedStep, LoadsTypedStep, TypeOKParts
<1>2. (TypeOK <=> Flags /\ ViewTyped /\ SendsTyped /\ LoadsTyped)'
  BY TypeOKParts, PTL
<1>3. TypeOK /\ UNCHANGED vars => TypeOK'
  BY DEF TypeOK, vars, view
<1> QED
  BY <1>1, <1>2, <1>3

LEMMA InitTyped == Init => TypeOK
<1> SUFFICES ASSUME Init PROVE TypeOK
  OBVIOUS
<1>1. Flags
  BY Zenon DEF Init, Flags
<1>2. ViewTyped /\ SendsTyped /\ LoadsTyped
  BY ThreadsAssumption, NoneAssumption
  DEF Init, ViewTyped, SendsTyped, LoadsTyped, NoSend, NoOther, States, Thread, Pcs
<1> QED
  BY <1>1, <1>2, TypeOKParts

-----------------------------------------------------------------------------
(* A send that the view does not wait for changes neither who it waits for *)
(* nor its place; the one that it waits for frees the view when it ends.   *)
LEMMA ContinueKeepsBusy ==
    ASSUME TypeOK, BusyHasSender, NEW s \in Sends, Continue(s)
    PROVE  BusyHasSender'
<1> USE DEF TypeOK, BusyHasSender, Cancellable
<1>1. timer' = timer
  BY DEF Continue, StartThread, RestartSession, Message, Refresh, Recover, Resend, Aside
<1>2. CASE \E pc \in Pcs \ {"idle"}, t \in Thread : GoOn(s, pc, t) /\ UNCHANGED <<stream, sender>>
  BY <1>1, <1>2 DEF GoOn
<1>3. CASE /\ send' = [send EXCEPT ![s] = NoSend]
           /\ sender # s /\ UNCHANGED <<stream, sender>>
  BY <1>1, <1>3
<1>4. CASE stream' \in {"idle", "error"}
  BY <1>1, <1>4
<1>5. \/ \E pc \in Pcs \ {"idle"}, t \in Thread : GoOn(s, pc, t) /\ UNCHANGED <<stream, sender>>
      \/ send' = [send EXCEPT ![s] = NoSend] /\ sender # s /\ UNCHANGED <<stream, sender>>
      \/ stream' \in {"idle", "error"}
  <2> USE DEF Fails, Ends, Superseded
  <2>1. {"message", "refresh", "recover", "resend", "rerefresh"} \subseteq Pcs \ {"idle"}
    BY DEF Pcs
  <2>2. send[s].thread \in Thread /\ 1..MaxThreads \subseteq Thread
    BY DEF Thread
  <2>3. CASE StartThread(s)
    BY <2>1, <2>2, <2>3 DEF StartThread
  <2>4. CASE RestartSession(s) \/ Message(s)
    BY <2>1, <2>2, <2>4 DEF RestartSession, Message, Unless
  <2>5. CASE Refresh(s)
    BY <2>5 DEF Refresh
  <2>6. CASE Recover(s)
    BY <2>1, <2>2, <2>6 DEF Recover, Unless
  <2>7. CASE Resend(s)
    BY <2>1, <2>2, <2>7 DEF Resend, Unless
  <2> QED
    BY <2>3, <2>4, <2>5, <2>6, <2>7 DEF Continue
<1> QED
  BY <1>2, <1>3, <1>4, <1>5

LEMMA BusyStep == TypeOK /\ BusyHasSender /\ [Next]_vars => BusyHasSender'
<1> SUFFICES ASSUME TypeOK, BusyHasSender, [Next]_vars PROVE BusyHasSender'
  OBVIOUS
<1> USE DEF BusyHasSender, Cancellable
<1>1. ASSUME NEW s \in Sends, Send(s) PROVE BusyHasSender'
  BY <1>1, NoneAssumption DEF TypeOK, Send, FirstCall
<1>2. CASE stream' = "idle"
  BY <1>2
<1>3. CASE CancelSend
  BY <1>3 DEF CancelSend
<1>4. CASE SendNowhere \/ SelectDraft \/ NewChat \/ Handoff
  BY <1>2, <1>4 DEF SendNowhere, SelectDraft, NewChat, Handoff, Leave
<1>5. ASSUME NEW t \in Threads, NEW l \in Loads, SelectThread(t, l) PROVE BusyHasSender'
  BY <1>2, <1>5 DEF SelectThread, Leave
<1>6. ASSUME NEW s \in Sends, Continue(s) PROVE BusyHasSender'
  BY <1>6, ContinueKeepsBusy
<1>7. CASE UNCHANGED <<stream, timer, sender, send>>
  BY <1>7
<1>8. CASE ChangeMode \/ Finalize \/ HandedOff \/ FinalizeStart \/ Finalized
  BY <1>7, <1>8 DEF ChangeMode, Finalize, HandedOff, FinalizeStart, Finalized, view
<1>9. ASSUME NEW l \in Loads, Loaded(l) \/ ModeChanged(l) PROVE BusyHasSender'
  BY <1>7, <1>9 DEF Loaded, ModeChanged, view
<1>10. CASE Settle
  BY <1>10 DEF Settle, Settled
<1>11. CASE UNCHANGED vars
  BY <1>7, <1>11 DEF vars, view
<1> QED
  BY <1>1, <1>3, <1>4, <1>5, <1>6, <1>8, <1>9, <1>10, <1>11 DEF Next, User

LEMMA SenderStep == TypeOK /\ SenderIsBusy /\ [Next]_vars => SenderIsBusy'
<1> SUFFICES ASSUME TypeOK, SenderIsBusy, [Next]_vars PROVE SenderIsBusy'
  OBVIOUS
<1> USE DEF SenderIsBusy, Cancellable
<1>1. ASSUME NEW s \in Sends, Send(s) PROVE SenderIsBusy'
  BY <1>1 DEF Send
<1>2. CASE sender' = None
  BY <1>2
<1>3. CASE CancelSend \/ SendNowhere \/ SelectDraft \/ NewChat \/ Handoff
  BY <1>2, <1>3 DEF CancelSend, SendNowhere, SelectDraft, NewChat, Handoff, Leave, NextGeneration
<1>4. ASSUME NEW t \in Threads, NEW l \in Loads, SelectThread(t, l) PROVE SenderIsBusy'
  BY <1>2, <1>4 DEF SelectThread, Leave, NextGeneration
<1>5. CASE UNCHANGED <<stream, sender, overruled>>
  BY <1>5
<1>6. ASSUME NEW s \in Sends, Continue(s) PROVE SenderIsBusy'
  <2>1. ASSUME Fails(s) PROVE SenderIsBusy'
    BY <2>1 DEF Fails, Superseded
  <2>2. ASSUME NEW state, Ends(s, state) PROVE SenderIsBusy'
    BY <2>2, Zenon DEF Ends
  <2> QED
    BY <1>5, <1>6, <2>1, <2>2 DEF Continue, StartThread, RestartSession, Message, Refresh,
                                  Recover, Resend
<1>7. CASE ChangeMode \/ Finalize \/ HandedOff \/ FinalizeStart \/ Finalized
  BY <1>5, <1>7 DEF ChangeMode, Finalize, HandedOff, FinalizeStart, Finalized, view
<1>8. ASSUME NEW l \in Loads, Loaded(l) \/ ModeChanged(l) PROVE SenderIsBusy'
  BY <1>5, <1>8 DEF Loaded, ModeChanged, view
<1>9. CASE Settle
  BY <1>9 DEF Settle, Settled
<1>10. CASE UNCHANGED vars
  BY <1>5, <1>10 DEF vars, view
<1> QED
  BY <1>1, <1>3, <1>4, <1>6, <1>7, <1>8, <1>9, <1>10 DEF Next, User

LEMMA TurnsStep == TypeOK /\ TurnsAreOfThread /\ [Next]_vars => TurnsAreOfThread'
<1> SUFFICES ASSUME TypeOK, TurnsAreOfThread, [Next]_vars PROVE TurnsAreOfThread'
  OBVIOUS
<1> USE DEF TurnsAreOfThread
<1>1. CASE UNCHANGED <<active, turns, latest, load, taken>>
  BY <1>1
<1>2. CASE turns' = None /\ latest' = None
  BY <1>2
<1>3. CASE /\ UNCHANGED <<active, latest, load, taken>>
           /\ turns' \in {turns, active}
  BY <1>3
<1>4. ASSUME NEW t, Take(t), UNCHANGED <<turns, latest, load>> PROVE TurnsAreOfThread'
  BY <1>4 DEF Take
<1>5. ASSUME NEW s \in Sends, Send(s) PROVE TurnsAreOfThread'
  BY <1>1, <1>5 DEF Send
<1>6. CASE SendNowhere \/ CancelSend \/ ChangeMode \/ Finalize \/ Settle
  BY <1>1, <1>6 DEF SendNowhere, CancelSend, ChangeMode, Finalize, Settle, view
<1>7. ASSUME NEW t \in Threads, NEW l \in Loads, SelectThread(t, l) PROVE TurnsAreOfThread'
  BY <1>7 DEF SelectThread, Leave, TypeOK
<1>8. CASE SelectDraft \/ NewChat
  BY <1>2, <1>8 DEF SelectDraft, NewChat, Leave, NextRequest
<1>9. CASE Handoff
  BY <1>9 DEF Handoff, NextRequest
<1>10. ASSUME NEW s \in Sends, Continue(s) PROVE TurnsAreOfThread'
  <2>1. CASE StartThread(s) \/ Recover(s)
    BY <1>1, <1>4, <2>1 DEF StartThread, Recover, Aside
  <2>2. CASE RestartSession(s) \/ Message(s) \/ Resend(s)
    BY <1>1, <2>2 DEF RestartSession, Message, Resend, Aside
  <2>3. CASE Refresh(s)
    BY <1>3, <2>3 DEF Refresh, ShowTurns, Aside
  <2> QED
    BY <1>10, <2>1, <2>2, <2>3 DEF Continue
<1>11. ASSUME NEW l \in Loads, Loaded(l) PROVE TurnsAreOfThread'
  <2>1. turns' = turns \/ (latest = l /\ turns' = load[l])
    <3>1. turns' = turns \/ turns' = IF Outdated(l) THEN turns ELSE load[l]
      BY <1>11 DEF Loaded
    <3> QED
      BY <3>1 DEF Outdated
  <2>2. latest' # None => latest' = latest /\ load'[latest] = load[latest]
    BY <1>11 DEF Loaded, TypeOK
  <2>3. UNCHANGED <<active, taken>>
    BY <1>11 DEF Loaded
  <2>4. latest = l => latest # None
    BY NoneAssumption
  <2> QED
    BY <2>1, <2>2, <2>3, <2>4
<1>12. ASSUME NEW l \in Loads, ModeChanged(l) PROVE TurnsAreOfThread'
  BY <1>12 DEF ModeChanged, TypeOK, view
<1>13. CASE HandedOff
  BY <1>13 DEF HandedOff
<1>14. CASE FinalizeStart
  BY <1>1, <1>4, <1>14 DEF FinalizeStart
<1>15. CASE Finalized
  BY <1>3, <1>15 DEF Finalized, ShowTurns
<1>16. CASE UNCHANGED vars
  BY <1>1, <1>16 DEF vars, view
<1> QED
  BY <1>5, <1>6, <1>7, <1>8, <1>9, <1>10, <1>11, <1>12, <1>13, <1>14, <1>15, <1>16 DEF Next, User

-----------------------------------------------------------------------------
(* What holds in every behaviour, whatever the number of sends, loads and  *)
(* threads.                                                                *)

(* The variables of the view keep their types.                             *)
THEOREM ViewIsTyped == Spec => []TypeOK
  BY InitTyped, TypeStep, PTL DEF Spec

(* A busy view has a send of the current generation in flight, or the      *)
(* timer of the cancel, that will make it usable again.                    *)
THEOREM BusyViewIsServed == Spec => []BusyHasSender
<1>1. Init => BusyHasSender
  BY DEF Init, BusyHasSender, Cancellable
<1> QED
  BY <1>1, ViewIsTyped, BusyStep, PTL DEF Spec

(* While the send of the current generation is in flight no send that was  *)
(* left behind frees the view, but for the two continuations that do not   *)
(* look at the generation.                                                 *)
THEOREM OneMessageAtATime == Spec => []SenderIsBusy
<1>1. Init => SenderIsBusy
  BY DEF Init, SenderIsBusy
<1> QED
  BY <1>1, ViewIsTyped, SenderStep, PTL DEF Spec

(* The turns shown, or being loaded, are those of the active thread, but   *)
(* for the continuations that change the thread without asking.            *)
THEOREM NoForeignTurns == Spec => []TurnsAreOfThread
<1>1. Init => TurnsAreOfThread
  BY DEF Init, TurnsAreOfThread
<1> QED
  BY <1>1, ViewIsTyped, TurnsStep, PTL DEF Spec
=============================================================================
