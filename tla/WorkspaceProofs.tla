-------------------------- MODULE WorkspaceProofs --------------------------
(***************************************************************************)
(* Proofs about the workspace runtime.                                     *)
(*                                                                         *)
(* First about WorkspaceSwitch, for any set of workspaces and refreshes    *)
(* and any number of transitions.  The refreshes, which run beside the     *)
(* queue and open databases as they please, never close one: so what the   *)
(* running transition has achieved stays as it is until its next step.     *)
(*                                                                         *)
(* Then about WorkspaceWatch, for any workspaces, processes, commands in   *)
(* flight and sessions: a watch that runs is always on record, hence one   *)
(* workspace is served by one watch.                                       *)
(***************************************************************************)
EXTENDS WorkspaceSwitch, WorkspaceWatch, Sequences, FiniteSetTheorems, TLAPS

Started == {"stop", "paths", "database", "services", "refresh", "failing"}
Untouched == {"idle", "waiting", "look", "refused"}
JobStages == Untouched \cup Started \cup {"done", "failed"}
Job == [pc : JobStages, how : {"switch", "recent", "last"}, ws : Paths]

Types ==
    /\ {path, side, config, tools} \subseteq Paths
    /\ requested \in 0..MaxTransitions
    /\ job \in [Transitions -> Job]
    /\ \A t \in Transitions : job[t].pc \in {"look", "refused"} => job[t].how # "switch"

(* The two maps and the objects they stand for.                            *)
Tracked ==
    /\ conn \subseteq Workspaces
    /\ promised \subseteq Workspaces
    /\ conn \cap promised = {}
    /\ opens = [w \in Workspaces |-> IF w \in promised THEN 1 ELSE 0]
    /\ leaked \in [Workspaces -> 0..MaxLeaks]
    /\ handles \in [Workspaces -> Nat]
    /\ \A w \in Workspaces : handles[w] = (IF w \in conn THEN 1 ELSE 0) + leaked[w]

(* A transition has begun only if all earlier ones have ended.             *)
InTurn ==
    /\ \A t \in Transitions : job[t].pc = "idle" <=> t > requested
    /\ \A t \in Transitions :
         job[t].pc \notin {"idle", "waiting"} => \A u \in Before(t) : job[u].pc \in Ended

(* No later transition has touched the port.                               *)
Latest(t) == \A u \in Transitions : u > t => job[u].pc \in Untouched

Whole(w) == path = w /\ side = w /\ config = w /\ tools = w /\ (w # None => w \in conn)

(* How far the running transition has got with the port.                   *)
Progress(t) ==
    /\ job[t].pc \in {"paths", "database", "services", "refresh"} =>
         path = job[t].ws /\ job[t].ws # None
    /\ job[t].pc = "paths" => side = None /\ config = None /\ tools = None
    /\ job[t].pc = "database" => side = job[t].ws /\ config = None /\ tools = None
    /\ job[t].pc = "services" =>
         side = job[t].ws /\ config = job[t].ws /\ tools = None /\ job[t].ws \in conn
    /\ job[t].pc = "refresh" => Whole(job[t].ws)
    /\ job[t].pc = "done" /\ Latest(t) => Whole(job[t].ws)
    /\ job[t].pc = "failed" /\ Latest(t) => Whole(None)

(* Transition n is the last one that has touched the port, if any has.     *)
Begun(n) ==
    /\ \A t \in Transitions : t > n => job[t].pc \in Untouched
    /\ n \in Transitions => job[n].pc \notin Untouched
    /\ n = 0 => Whole(None)

Frontier == \E n \in 0..MaxTransitions : Begun(n)

IInv ==
    /\ Types
    /\ Tracked
    /\ InTurn
    /\ Frontier
    /\ \A t \in Transitions : Progress(t)
-----------------------------------------------------------------------------
(* The connection cache                                                    *)

LEMMA InitIInv == Init => IInv
<1> SUFFICES ASSUME Init PROVE IInv
  OBVIOUS
<1>1. Types
  BY BoundAssumption DEF Init, Types, Paths, Job, JobStages, Untouched, Transitions
<1>2. Tracked
  BY BoundAssumption DEF Init, Tracked
<1>3. InTurn /\ \A t \in Transitions : Progress(t)
  BY BoundAssumption DEF Init, InTurn, Progress, Transitions
<1>4. Begun(0) /\ 0 \in 0..MaxTransitions
  BY BoundAssumption DEF Init, Begun, Whole, Transitions, Untouched
<1> QED
  BY <1>1, <1>2, <1>3, <1>4 DEF IInv, Frontier

LEMMA ConnectTracks ==
  ASSUME Tracked, NEW w \in Workspaces, Connect(w)
  PROVE  Tracked' /\ conn' = conn
BY DEF Tracked, Connect

LEMMA ConnectedTracks ==
  ASSUME Tracked, NEW w \in Workspaces, Connected(w)
  PROVE  Tracked' /\ conn \subseteq conn'
<1>1. /\ opens[w] > 0 /\ opens' = [opens EXCEPT ![w] = @ - 1]
      /\ handles' = [handles EXCEPT ![w] = @ + 1]
      /\ conn' = conn \cup {w} /\ promised' = promised \ {w}
  BY DEF Connected
<1>2. w \in promised /\ w \notin conn /\ opens[w] = 1 /\ handles[w] = leaked[w]
      /\ leaked' = leaked
  BY <1>1 DEF Tracked, Connected
<1>3. opens' = [v \in Workspaces |-> IF v \in promised' THEN 1 ELSE 0]
  BY <1>1, <1>2 DEF Tracked
<1>4. /\ handles' \in [Workspaces -> Nat]
      /\ \A v \in Workspaces : handles'[v] = (IF v \in conn' THEN 1 ELSE 0) + leaked'[v]
  BY <1>1, <1>2, BoundAssumption DEF Tracked
<1> QED
  BY <1>1, <1>2, <1>3, <1>4 DEF Tracked

LEMMA ConnectFailsTracks ==
  ASSUME Tracked, NEW w \in Workspaces, ConnectFails(w)
  PROVE  Tracked' /\ conn' = conn
<1>1. /\ opens[w] > 0 /\ opens' = [opens EXCEPT ![w] = @ - 1]
      /\ conn' = conn /\ promised' = promised \ {w}
  BY DEF ConnectFails
<1>2. w \in promised /\ opens[w] = 1
  BY <1>1 DEF Tracked
<1>3. opens' = [v \in Workspaces |-> IF v \in promised' THEN 1 ELSE 0]
  BY <1>1, <1>2 DEF Tracked
<1>4. /\ leaked' \in [Workspaces -> 0..MaxLeaks]
      /\ handles' \in [Workspaces -> Nat]
      /\ \A v \in Workspaces : handles'[v] = (IF v \in conn' THEN 1 ELSE 0) + leaked'[v]
  <2>1. CASE UNCHANGED <<handles, leaked>>
    BY <1>1, <2>1 DEF Tracked
  <2>2. CASE /\ leaked[w] < MaxLeaks
             /\ handles' = [handles EXCEPT ![w] = @ + 1]
             /\ leaked' = [leaked EXCEPT ![w] = @ + 1]
    BY <1>1, <2>2, BoundAssumption DEF Tracked
  <2> QED
    BY <2>1, <2>2 DEF ConnectFails
<1> QED
  BY <1>1, <1>3, <1>4 DEF Tracked

LEMMA CloseTracks ==
  ASSUME Tracked, NEW w \in Workspaces, Close(w) PROVE Tracked'
<1>1. CASE w \in conn
  <2>1. /\ conn' = conn \ {w} /\ promised' = promised \ {w} /\ opens' = opens
        /\ handles' = [handles EXCEPT ![w] = @ - 1] /\ leaked' = leaked
    BY <1>1 DEF Close
  <2>2. w \notin promised /\ handles[w] = 1 + leaked[w] /\ leaked[w] \in Nat
    BY <1>1, BoundAssumption DEF Tracked
  <2>3. /\ handles' \in [Workspaces -> Nat]
        /\ \A v \in Workspaces : handles'[v] = (IF v \in conn' THEN 1 ELSE 0) + leaked'[v]
    BY <2>1, <2>2 DEF Tracked
  <2> QED
    BY <2>1, <2>2, <2>3 DEF Tracked
<1>2. CASE w \notin conn
  BY <1>2 DEF Tracked, Close, dbVars
<1> QED
  BY <1>1, <1>2

LEMMA TeardownTracks ==
  ASSUME Tracked, side \in Paths, Teardown PROVE Tracked' /\ side' = None /\ config' = None /\ tools' = None
<1>1. CASE side = None
  BY <1>1 DEF Teardown, Tracked, dbVars
<1>2. CASE side # None
  BY <1>2, CloseTracks DEF Teardown, Paths
<1> QED
  BY <1>1, <1>2 DEF Teardown
-----------------------------------------------------------------------------
(* Steps that leave the queue and the port alone                           *)

LEMMA Beside ==
  ASSUME IInv, Tracked', UNCHANGED <<portVars, requested, job>>, conn \subseteq conn'
  PROVE  IInv'
<1>1. /\ path' = path /\ side' = side /\ config' = config /\ tools' = tools
      /\ requested' = requested /\ job' = job
  BY DEF portVars
<1>2. Types' /\ InTurn'
  BY <1>1 DEF IInv, Types, InTurn
<1>3. Frontier' /\ \A t \in Transitions : Progress(t)'
  BY <1>1 DEF IInv, Frontier, Begun, Progress, Whole, Latest
<1> QED
  BY <1>2, <1>3 DEF IInv

(* What a refresh holds as its workspace is one, once it is past "load".   *)
RefreshTyped ==
    /\ refresh \in [Refreshers ->
         [pc : {"idle", "load", "context", "reconcile", "project", "store", "overlay",
                "links", "finish"} \cup Ended, ws : Paths, label : Paths]]
    /\ \A r \in Refreshers : refresh[r].pc \notin {"idle", "failed"} => refresh[r].ws # None

LEMMA RefreshTypedStep == IInv /\ RefreshTyped /\ [Next]_vars => RefreshTyped'
<1> SUFFICES ASSUME IInv, RefreshTyped, [Next]_vars PROVE RefreshTyped'
  OBVIOUS
<1> USE DEF RefreshTyped, NoRefresh, Proceed, Throw, Ended
<1>1. ASSUME NEW t \in Transitions, Transition(t) PROVE RefreshTyped'
  <2>1. CASE CreateServices(t)
    <3>1. side # None /\ side \in Paths
      BY <2>1, Zenon DEF CreateServices, IInv, Progress, Types
    <3> QED
      BY <2>1, <3>1 DEF CreateServices, Refreshers, Paths
  <2>2. CASE Opened(t) \/ Fail(t)
    BY <2>2 DEF Opened, Fail, Refreshers, Paths
  <2>3. CASE Turn(t) \/ Look(t) \/ NotThere(t) \/ Stopped(t) \/ Resolve(t) \/ LoadConfig(t)
             \/ Failed(t)
    BY <2>3 DEF Turn, Look, NotThere, Stopped, Resolve, LoadConfig, Failed
  <2> QED
    BY <1>1, <2>1, <2>2, <2>3 DEF Transition
<1>2. ASSUME NEW t \in Transitions, NEW q \in Askable[t], Request(t, q)
      PROVE  RefreshTyped'
  BY <1>2 DEF Request
<1>3. ASSUME NEW r \in Refreshers, Begin(r) PROVE RefreshTyped'
  BY <1>3 DEF Begin, IInv, Types, Paths
<1>4. ASSUME NEW r \in Refreshers, Refresh(r) PROVE RefreshTyped'
  <2>1. CASE Load(r) \/ Reconnect(r) \/ Reconcile(r)
    BY <2>1 DEF Load, Reconnect, Reconcile
  <2>2. CASE Project(r)
    BY <2>2 DEF Project, IInv, Types, Paths
  <2>3. CASE Store(r) \/ Overlay(r) \/ Links(r) \/ Finish(r)
    BY <2>3 DEF Store, Overlay, Links, Finish
  <2>4. CASE Return(r)
    BY <2>4 DEF Return, Paths
  <2> QED
    BY <1>4, <2>1, <2>2, <2>3, <2>4 DEF Refresh
<1>5. ASSUME NEW w \in Workspaces, Connected(w) \/ ConnectFails(w) PROVE RefreshTyped'
  BY <1>5 DEF Connected, ConnectFails
<1>6. CASE UNCHANGED vars
  BY <1>6 DEF vars
<1> QED
  BY <1>1, <1>2, <1>3, <1>4, <1>5, <1>6 DEF Next

LEMMA RefreshIInv ==
  ASSUME IInv, RefreshTyped, NEW r \in Refreshers, Begin(r) \/ Refresh(r)
  PROVE  IInv'
<1>1. UNCHANGED <<portVars, requested, job>>
  BY DEF Begin, Refresh, Load, Reconnect, Reconcile, Project, Store, Overlay, Links, Finish,
         Return, Throw
<1>2. CASE UNCHANGED dbVars
  <2>1. Tracked' /\ conn' = conn
    BY <1>2 DEF IInv, Tracked, dbVars
  <2> QED
    BY <1>1, <2>1, Beside
<1>3. CASE Connect(refresh[r].ws) /\ refresh[r].ws \in Workspaces
  <2>1. Tracked' /\ conn' = conn
    BY <1>3, ConnectTracks DEF IInv
  <2> QED
    BY <1>1, <2>1, Beside
<1>4. CASE Begin(r) \/ Load(r) \/ Reconcile(r) \/ Project(r) \/ Store(r) \/ Overlay(r) \/ Finish(r)
           \/ Return(r)
  BY <1>2, <1>4 DEF Begin, Load, Reconcile, Project, Store, Overlay, Finish, Return, Throw
<1>5. CASE Reconnect(r)
  BY <1>3, <1>5 DEF Reconnect, RefreshTyped, Paths, Ended
<1>6. CASE Links(r)
  BY <1>2, <1>3, <1>6 DEF Links, RefreshTyped, Paths, Ended
<1> QED
  BY <1>4, <1>5, <1>6 DEF Refresh
-----------------------------------------------------------------------------
(* Steps of the queue                                                      *)

LEMMA RequestIInv ==
  ASSUME IInv, NEW t \in Transitions, NEW q \in Asked, Request(t, q)
  PROVE  IInv'
<1>1. /\ path' = path /\ side' = side /\ config' = config /\ tools' = tools
      /\ conn' = conn /\ promised' = promised /\ opens' = opens /\ handles' = handles
      /\ leaked' = leaked /\ t = requested + 1 /\ requested' = t
      /\ job' = [job EXCEPT ![t] = [pc |-> "waiting", how |-> q.how, ws |-> q.ws]]
  BY DEF Request, portVars, dbVars
<1>2. job[t].pc = "idle"
  BY <1>1 DEF IInv, InTurn, Types, Transitions
<1>3. Types'
  <2>1. [pc |-> "waiting", how |-> q.how, ws |-> q.ws] \in Job
    BY DEF Asked, Job, JobStages, Untouched, Paths
  <2> QED
    BY <1>1, <2>1 DEF IInv, Types, Transitions
<1>4. Tracked'
  BY <1>1 DEF IInv, Tracked
<1>6. \A u \in Transitions : u # t => job'[u] = job[u]
  BY <1>1 DEF IInv, Types
<1>7. job'[t].pc = "waiting"
  BY <1>1 DEF IInv, Types
<1>5. InTurn'
  <2>1. requested \in Nat
    BY BoundAssumption DEF IInv, Types
  <2>2. ASSUME NEW u \in Transitions PROVE (job[u].pc = "idle" <=> u > requested)'
    BY <1>1, <1>6, <1>7, <2>1 DEF IInv, InTurn, Transitions
  <2>3. ASSUME NEW u \in Transitions, job'[u].pc \notin {"idle", "waiting"}, NEW v \in Before(u)
        PROVE  job'[v].pc \in Ended
    BY <1>2, <1>6, <1>7, <2>3 DEF IInv, InTurn, Before, Ended
  <2> QED
    BY <2>2, <2>3 DEF InTurn, Before
<1>8. \A u \in Transitions : Latest(u)' => Latest(u)
  BY <1>2, <1>6, Zenon DEF Latest, Untouched
<1>9. \A u \in Transitions : Progress(u)'
  BY <1>1, <1>6, <1>7, <1>8 DEF IInv, Progress, Whole
<1>10. Frontier'
  <2>1. PICK n \in 0..MaxTransitions : Begun(n)
    BY DEF IInv, Frontier
  <2>2. \A u \in Transitions : job'[u].pc \in Untouched <=> job[u].pc \in Untouched
    BY <1>2, <1>6, <1>7 DEF Untouched
  <2>3. Begun(n)'
    BY <1>1, <2>1, <2>2, Zenon DEF Begun, Whole
  <2> QED
    BY <2>3 DEF Frontier
<1> QED
  BY <1>3, <1>4, <1>5, <1>9, <1>10 DEF IInv

(* Whatever a step of transition t does to its own record, the others keep *)
(* their place in the queue.                                               *)
LEMMA StepKeepsTurn ==
  ASSUME IInv, NEW t \in Transitions, NEW j \in Job, j.pc \notin {"idle", "waiting"},
         job[t].pc \in {"waiting", "look"} \cup Started, \A u \in Before(t) : job[u].pc \in Ended,
         job' = [job EXCEPT ![t] = j], requested' = requested
  PROVE  /\ InTurn'
         /\ \A u \in Transitions : u # t => job'[u] = job[u]
         /\ job'[t] = j
<1>1. (\A u \in Transitions : u # t => job'[u] = job[u]) /\ job'[t] = j
  BY DEF IInv, Types
<1>2. \A u \in Transitions : (job[u].pc = "idle" <=> u > requested)'
  BY <1>1 DEF IInv, InTurn, Started
<1>3. ASSUME NEW u \in Transitions, job'[u].pc \notin {"idle", "waiting"}, NEW v \in Before(u)
      PROVE  job'[v].pc \in Ended
  <2>1. job[t].pc \notin Ended
    BY DEF Started, Ended
  <2>2. u = t \/ job'[u] = job[u]
    BY <1>1
  <2>3. job[v].pc \in Ended /\ v \in Transitions
    BY <1>3, <2>2 DEF IInv, InTurn, Before
  <2>4. v # t
    BY <2>1, <2>3
  <2> QED
    BY <1>1, <2>3, <2>4
<1> QED
  BY <1>1, <1>2, <1>3 DEF InTurn, Before

(* A step of transition t that leaves the port alone: it looks for its     *)
(* directory, or is refused.                                               *)
LEMMA LookingKeeps ==
  ASSUME IInv, NEW t \in Transitions, NEW j \in Job, j.pc \in {"look", "refused"},
         j.how # "switch", job[t].pc \in {"waiting", "look"},
         \A u \in Before(t) : job[u].pc \in Ended,
         job' = [job EXCEPT ![t] = j], requested' = requested,
         UNCHANGED <<portVars, dbVars>>
  PROVE  IInv'
<1>1. /\ InTurn'
      /\ \A u \in Transitions : u # t => job'[u] = job[u]
      /\ job'[t] = j
  BY StepKeepsTurn
<1>2. Types'
  BY <1>1 DEF IInv, Types, portVars
<1>3. Tracked'
  BY DEF IInv, Tracked, dbVars
<1>4. \A u \in Transitions : job'[u].pc \in Untouched <=> job[u].pc \in Untouched
  BY <1>1 DEF Untouched
<1>5. \A u \in Transitions : Latest(u)' => Latest(u)
  BY <1>4 DEF Latest
<1>6. \A u \in Transitions : Progress(u)'
  BY <1>1, <1>5 DEF IInv, Progress, Whole, portVars, dbVars
<1>7. Frontier'
  <2>1. PICK n \in 0..MaxTransitions : Begun(n)
    BY DEF IInv, Frontier
  <2>2. Begun(n)'
    BY <1>4, <2>1 DEF Begun, Whole, portVars, dbVars
  <2> QED
    BY <2>2 DEF Frontier
<1> QED
  BY <1>1, <1>2, <1>3, <1>6, <1>7 DEF IInv

(* A step of transition t: the other ones keep their place and, being over *)
(* or not begun, say nothing about the port any more.                      *)
LEMMA MoveKeeps ==
  ASSUME IInv, NEW t \in Transitions, NEW j \in Job, j.pc \in Started \cup {"done", "failed"},
         job[t].pc \in {"waiting", "look"} \cup Started, \A u \in Before(t) : job[u].pc \in Ended,
         job' = [job EXCEPT ![t] = j], requested' = requested,
         {path', side', config', tools'} \subseteq Paths, Tracked', Progress(t)'
  PROVE  IInv'
<1>1. /\ InTurn'
      /\ \A u \in Transitions : u # t => job'[u] = job[u]
      /\ job'[t] = j
  BY StepKeepsTurn DEF Started
<1>2. job'[t].pc \notin Untouched
  BY <1>1 DEF Started, Untouched
<1>3. Types'
  BY <1>1, <1>2 DEF IInv, Types, Untouched
<1>4. \A u \in Transitions : u > t => job[u].pc \in {"idle", "waiting"}
  <2>1. job[t].pc \notin Ended
    BY DEF Started, Ended
  <2> QED
    BY <2>1 DEF IInv, InTurn, Before
<1>5. Begun(t)' /\ t \in 0..MaxTransitions /\ t # 0
  <2>1. \A u \in Transitions : u > t => job'[u].pc \in Untouched
    BY <1>1, <1>4 DEF Untouched, Transitions
  <2> QED
    BY <1>2, <2>1, BoundAssumption DEF Begun, Transitions
<1>6. ASSUME NEW u \in Transitions, u < t PROVE Progress(u)'
  <2>1. job'[u].pc \in Ended /\ ~ Latest(u)'
    BY <1>1, <1>2, <1>6 DEF Before, Latest, Transitions
  <2> QED
    BY <2>1 DEF Progress, Ended
<1>7. ASSUME NEW u \in Transitions, u > t PROVE Progress(u)'
  BY <1>1, <1>4, <1>7 DEF Progress, Transitions
<1>8. \A u \in Transitions : Progress(u)'
  BY <1>6, <1>7 DEF Transitions
<1> QED
  BY <1>1, <1>3, <1>5, <1>8 DEF IInv, Frontier

LEMMA StepKeeps ==
  ASSUME IInv, NEW t \in Transitions, NEW pc \in Started \cup {"done", "failed"},
         job[t].pc \in {"waiting", "look"} \cup Started, \A u \in Before(t) : job[u].pc \in Ended,
         job' = [job EXCEPT ![t].pc = pc], requested' = requested,
         {path', side', config', tools'} \subseteq Paths, Tracked', Progress(t)'
  PROVE  IInv'
<1> DEFINE j == [job[t] EXCEPT !.pc = pc]
<1>1. job[t] \in Job /\ job \in [Transitions -> Job]
  BY DEF IInv, Types
<1>2. j \in Job /\ j.pc = pc /\ job' = [job EXCEPT ![t] = j]
  BY <1>1 DEF Job, JobStages, Started
<1> HIDE DEF j
<1> QED
  BY <1>2, MoveKeeps

LEMMA TransitionIInv ==
  ASSUME IInv, NEW t \in Transitions, Transition(t)
  PROVE  IInv'
<1> DEFINE Goes(pc) == job' = [job EXCEPT ![t].pc = pc] /\ requested' = requested
<1>0. job[t].pc \notin {"idle", "waiting"} => \A u \in Before(t) : job[u].pc \in Ended
  BY DEF IInv, InTurn
<1>0a. job[t].ws \in Paths /\ {path, side, config, tools} \subseteq Paths /\ None \in Paths
  BY DEF IInv, Types, Paths, Job
<1>0b. job[t] \in Job /\ job \in [Transitions -> Job]
  BY DEF IInv, Types
<1>0c. Progress(t) /\ Tracked
  BY DEF IInv
<1>1. CASE Turn(t)
  <2>1. /\ Goes(FirstStage(t)) /\ Tracked' /\ UNCHANGED <<path, side, config, tools>>
        /\ job[t].pc = "waiting" /\ \A u \in Before(t) : job[u].pc \in Ended
        /\ UNCHANGED <<portVars, dbVars>>
    BY <1>1 DEF Turn, GoTo, IInv, Tracked, dbVars, portVars
  <2>2. CASE job[t].how = "switch"
    <3>1. Goes("stop") /\ job'[t].pc = "stop"
      BY <2>1, <2>2, <1>0b DEF FirstStage
    <3>2. Progress(t)'
      BY <3>1 DEF Progress
    <3> QED
      BY <1>0a, <2>1, <3>1, <3>2, StepKeeps DEF Started
  <2>3. CASE job[t].how # "switch"
    <3> DEFINE j == [job[t] EXCEPT !.pc = "look"]
    <3>1. j \in Job /\ j.pc = "look" /\ j.how = job[t].how /\ job' = [job EXCEPT ![t] = j]
      BY <2>1, <2>3, <1>0b DEF FirstStage, Job, JobStages, Untouched
    <3> HIDE DEF j
    <3> QED
      BY <2>1, <2>3, <3>1, LookingKeeps
  <2> QED
    BY <2>2, <2>3
<1>9. CASE NotThere(t)
  <2> DEFINE j == [job[t] EXCEPT !.pc = "refused"]
  <2>1. /\ job[t].pc = "look" /\ requested' = requested /\ UNCHANGED <<portVars, dbVars>>
        /\ job' = [job EXCEPT ![t].pc = "refused"]
    BY <1>9 DEF NotThere, GoTo
  <2>2. j \in Job /\ j.pc = "refused" /\ j.how = job[t].how /\ job' = [job EXCEPT ![t] = j]
    BY <2>1, <1>0b DEF Job, JobStages, Untouched
  <2>3. job[t].how # "switch"
    BY <2>1 DEF IInv, Types
  <2> HIDE DEF j
  <2> QED
    BY <1>0, <2>1, <2>2, <2>3, LookingKeeps
<1>10. CASE Look(t)
  <2>1. PICK w \in Workspaces : job' = [job EXCEPT ![t].pc = "stop", ![t].ws = w]
    BY <1>10 DEF Look
  <2>2. /\ job[t].pc = "look" /\ requested' = requested
        /\ UNCHANGED <<path, side, config, tools>> /\ UNCHANGED dbVars
    BY <1>10 DEF Look, portVars
  <2> DEFINE j == [job[t] EXCEPT !.pc = "stop", !.ws = w]
  <2>3. j \in Job /\ j.pc = "stop" /\ job' = [job EXCEPT ![t] = j]
    BY <2>1, <1>0b DEF Job, JobStages, Started, Paths
  <2>4. Tracked'
    BY <2>2, <1>0c DEF Tracked, dbVars
  <2>5. job'[t].pc = "stop"
    BY <2>3, <1>0b
  <2> HIDE DEF j
  <2>6. Progress(t)'
    BY <2>5 DEF Progress
  <2> QED
    BY <1>0, <1>0a, <2>2, <2>3, <2>4, <2>6, MoveKeeps DEF Started
<1>2. CASE Stopped(t)
  <2>1. Goes(IF job[t].ws = None THEN "done" ELSE "paths")
    BY <1>2 DEF Stopped, GoTo
  <2>2. Tracked' /\ side' = None /\ config' = None /\ tools' = None /\ path' = job[t].ws
    BY <1>2, <1>0a, <1>0c, TeardownTracks DEF Stopped
  <2>0. /\ job'[t].pc = (IF job[t].ws = None THEN "done" ELSE "paths")
        /\ job'[t].ws = job[t].ws
    BY <2>1, <1>0b DEF Job
  <2>3. Progress(t)'
    BY <2>1, <2>2, <2>0 DEF Progress, Whole
  <2>4. job[t].pc = "stop" /\ \A u \in Before(t) : job[u].pc \in Ended
    BY <1>2, <1>0 DEF Stopped
  <2>5. CASE job[t].ws = None
    BY <1>0a, <2>1, <2>2, <2>3, <2>4, <2>5, StepKeeps DEF Started, Ended
  <2>6. CASE job[t].ws # None
    BY <1>0a, <2>1, <2>2, <2>3, <2>4, <2>6, StepKeeps DEF Started, Ended
  <2> QED
    BY <2>5, <2>6
<1>3. CASE Resolve(t)
  <2>1. /\ Goes("database") /\ job[t].pc = "paths" /\ side' = job[t].ws
        /\ UNCHANGED <<path, config, tools>> /\ Connect(job[t].ws)
    BY <1>3 DEF Resolve, GoTo
  <2>2. job[t].ws \in Workspaces
    BY <2>1, <1>0a, <1>0c DEF Progress, Paths
  <2>3. Tracked'
    BY <2>1, <2>2, <1>0c, ConnectTracks
  <2>0. job'[t].pc = "database" /\ job'[t].ws = job[t].ws
    BY <2>1, <1>0b DEF Job
  <2>4. Progress(t)'
    BY <2>1, <2>0, <1>0c DEF Progress
  <2> QED
    BY <1>0, <1>0a, <2>1, <2>3, <2>4, StepKeeps DEF Started
<1>4. CASE LoadConfig(t)
  <2>1. /\ Goes("services") /\ job[t].pc = "database" /\ config' = job[t].ws
        /\ UNCHANGED <<path, side, tools>> /\ UNCHANGED dbVars /\ job[t].ws \in conn
    BY <1>4 DEF LoadConfig, GoTo
  <2>2. Tracked' /\ conn' = conn
    BY <2>1, <1>0c DEF Tracked, dbVars
  <2>0. job'[t].pc = "services" /\ job'[t].ws = job[t].ws
    BY <2>1, <1>0b DEF Job
  <2>3. Progress(t)'
    BY <2>1, <2>2, <2>0, <1>0c DEF Progress
  <2> QED
    BY <1>0, <1>0a, <2>1, <2>2, <2>3, StepKeeps DEF Started
<1>5. CASE CreateServices(t)
  <2>1. /\ Goes("refresh") /\ job[t].pc = "services" /\ tools' = job[t].ws
        /\ UNCHANGED <<path, side, config>> /\ UNCHANGED dbVars
    BY <1>5 DEF CreateServices, GoTo
  <2>2. Tracked' /\ conn' = conn
    BY <2>1, <1>0c DEF Tracked, dbVars
  <2>0. job'[t].pc = "refresh" /\ job'[t].ws = job[t].ws
    BY <2>1, <1>0b DEF Job
  <2>3. Progress(t)'
    BY <2>1, <2>2, <2>0, <1>0c DEF Progress, Whole
  <2> QED
    BY <1>0, <1>0a, <2>1, <2>2, <2>3, StepKeeps DEF Started
<1>6. CASE Opened(t)
  <2>1. /\ Goes("done") /\ job[t].pc = "refresh" /\ UNCHANGED <<path, side, config, tools>>
        /\ UNCHANGED dbVars
    BY <1>6 DEF Opened, GoTo, portVars
  <2>2. Tracked' /\ conn' = conn
    BY <2>1, <1>0c DEF Tracked, dbVars
  <2>0. job'[t].pc = "done" /\ job'[t].ws = job[t].ws
    BY <2>1, <1>0b DEF Job
  <2>3. Progress(t)'
    BY <2>1, <2>2, <2>0, <1>0c DEF Progress, Whole
  <2> QED
    BY <1>0, <1>0a, <2>1, <2>2, <2>3, StepKeeps DEF Started, Ended
<1>7. CASE Fail(t)
  <2>1. /\ Goes("failing") /\ job[t].pc \in {"paths", "database", "services", "refresh"}
        /\ UNCHANGED <<path, side, config, tools>> /\ UNCHANGED dbVars
    BY <1>7 DEF Fail, GoTo, portVars
  <2>2. Tracked'
    BY <2>1, <1>0c DEF Tracked, dbVars
  <2>0. job'[t].pc = "failing" /\ job'[t].ws = job[t].ws
    BY <2>1, <1>0b DEF Job
  <2>3. Progress(t)'
    BY <2>1, <2>0 DEF Progress
  <2> QED
    BY <1>0, <1>0a, <2>1, <2>2, <2>3, StepKeeps DEF Started
<1>8. CASE Failed(t)
  <2>1. Goes("failed") /\ job[t].pc = "failing" /\ path' = None /\ Teardown
    BY <1>8 DEF Failed, GoTo
  <2>2. Tracked' /\ side' = None /\ config' = None /\ tools' = None
    BY <2>1, <1>0a, <1>0c, TeardownTracks
  <2>0. job'[t].pc = "failed" /\ job'[t].ws = job[t].ws
    BY <2>1, <1>0b DEF Job
  <2>3. Progress(t)'
    BY <2>1, <2>2, <2>0 DEF Progress, Whole
  <2> QED
    BY <1>0, <1>0a, <2>1, <2>2, <2>3, StepKeeps DEF Started, Ended
<1> QED
  BY <1>1, <1>2, <1>3, <1>4, <1>5, <1>6, <1>7, <1>8, <1>9, <1>10 DEF Transition

LEMMA NextIInv == IInv /\ RefreshTyped /\ [Next]_vars => IInv'
<1> SUFFICES ASSUME IInv, RefreshTyped, [Next]_vars PROVE IInv'
  OBVIOUS
<1>1. ASSUME NEW t \in Transitions, Transition(t) PROVE IInv'
  BY <1>1, TransitionIInv
<1>2. ASSUME NEW t \in Transitions, NEW q \in Askable[t], Request(t, q) PROVE IInv'
  BY <1>2, RequestIInv, AskableAssumption
<1>3. ASSUME NEW r \in Refreshers, Begin(r) \/ Refresh(r) PROVE IInv'
  BY <1>3, RefreshIInv
<1>4. ASSUME NEW w \in Workspaces, Connected(w) PROVE IInv'
  <2>1. Tracked' /\ conn \subseteq conn'
    BY <1>4, ConnectedTracks DEF IInv
  <2>2. UNCHANGED <<portVars, requested, job>>
    BY <1>4 DEF Connected
  <2> QED
    BY <2>1, <2>2, Beside
<1>6. ASSUME NEW w \in Workspaces, ConnectFails(w) PROVE IInv'
  <2>1. Tracked' /\ conn' = conn
    BY <1>6, ConnectFailsTracks DEF IInv
  <2>2. UNCHANGED <<portVars, requested, job>>
    BY <1>6 DEF ConnectFails
  <2> QED
    BY <2>1, <2>2, Beside
<1>5. CASE UNCHANGED vars
  <2>1. UNCHANGED <<portVars, requested, job>> /\ UNCHANGED dbVars
    BY <1>5 DEF vars
  <2>2. Tracked' /\ conn' = conn
    BY <2>1 DEF IInv, Tracked, dbVars
  <2> QED
    BY <2>1, <2>2, Beside
<1> QED
  BY <1>1, <1>2, <1>3, <1>4, <1>5, <1>6 DEF Next

LEMMA Invariance == Spec => [](IInv /\ RefreshTyped)
<1>1. Init => IInv /\ RefreshTyped
  BY InitIInv DEF Init, RefreshTyped, NoRefresh, Paths
<1>2. IInv /\ RefreshTyped /\ [Next]_vars => (IInv /\ RefreshTyped)'
  BY NextIInv, RefreshTypedStep
<1> QED
  BY <1>1, <1>2, PTL DEF Spec

LEMMA CachedStep ==
    ASSUME IInv, RefreshTyped, [Next]_vars,
           cached \in [kind : {"null", "half", "full"}, tasks : Paths, label : Paths]
    PROVE  cached' \in [kind : {"null", "half", "full"}, tasks : Paths, label : Paths]
<1> DEFINE Shape == [kind : {"null", "half", "full"}, tasks : Paths, label : Paths]
<1>1. NoState \in Shape /\ HalfState \in Shape
  BY DEF NoState, HalfState, Paths
<1>2. ASSUME NEW t \in Transitions, Transition(t) PROVE cached' \in {cached, NoState}
  BY <1>2 DEF Transition, Turn, Look, NotThere, Stopped, Resolve, LoadConfig, CreateServices,
              Opened, Fail, Failed, Teardown
<1>3. ASSUME NEW r \in Refreshers, Store(r) PROVE cached' \in Shape
  <2>1. refresh[r].ws \in Paths /\ refresh[r].label \in Paths
    BY <1>3 DEF RefreshTyped
  <2> QED
    BY <1>3, <2>1 DEF Store, FullState
<1>4. ASSUME NEW r \in Refreshers, Begin(r) \/ Refresh(r), ~ Store(r)
      PROVE  cached' \in {cached, HalfState}
  BY <1>4 DEF Refresh, Begin, Load, Reconnect, Reconcile, Project, Overlay, Links, Finish, Return, Throw
<1>5. ASSUME NEW t \in Transitions, NEW q \in Askable[t], Request(t, q)
      PROVE  cached' = cached
  BY <1>5 DEF Request
<1>6. ASSUME NEW w \in Workspaces, Connected(w) \/ ConnectFails(w) PROVE cached' = cached
  BY <1>6 DEF Connected, ConnectFails
<1>7. CASE UNCHANGED vars
  BY <1>7 DEF vars
<1> QED
  BY <1>1, <1>2, <1>3, <1>4, <1>5, <1>6, <1>7 DEF Next
-----------------------------------------------------------------------------
(* Every variable keeps its type: no map holds a workspace twice, and a    *)
(* transition is at one of its stages.                                     *)
THEOREM TypeCorrect == Spec => []TypeOK
<1> DEFINE Shape == [kind : {"null", "half", "full"}, tasks : Paths, label : Paths]
<1>1. Init => cached \in Shape
  BY DEF Init, NoState, Paths
<1>2. IInv /\ RefreshTyped /\ [Next]_vars /\ cached \in Shape => (cached \in Shape)'
  BY CachedStep
<1>3. IInv /\ RefreshTyped /\ cached \in Shape => TypeOK
  <2> SUFFICES ASSUME IInv, RefreshTyped, cached \in Shape PROVE TypeOK
    OBVIOUS
  <2>1. opens \in [Workspaces -> Nat] /\ handles \in [Workspaces -> Nat]
    BY DEF IInv, Tracked
  <2>2. job \in [Transitions ->
         [pc : {"idle", "waiting", "look", "stop", "paths", "database", "services",
                "refresh", "failing"} \cup Ended,
          how : {"switch", "recent", "last"}, ws : Paths]]
    <3>1. Job = [pc : {"idle", "waiting", "look", "stop", "paths", "database", "services",
                       "refresh", "failing"} \cup Ended,
                 how : {"switch", "recent", "last"}, ws : Paths]
      <4>1. JobStages = {"idle", "waiting", "look", "stop", "paths", "database", "services",
                         "refresh", "failing"} \cup Ended
        BY DEF JobStages, Untouched, Started, Ended
      <4> QED
        BY <4>1 DEF Job
    <3> QED
      BY <3>1 DEF IInv, Types
  <2> QED
    BY <2>1, <2>2 DEF TypeOK, IInv, Types, Tracked, RefreshTyped
<1> HIDE DEF Shape
<1> QED
  BY <1>1, <1>2, <1>3, Invariance, PTL DEF Spec

(* A workspace never has two connections in use, nor an open one that the  *)
(* map has lost, whatever transitions and refreshes open, fail to open and *)
(* close it meanwhile: all that leaks is what threw while it was made.     *)
THEOREM NoConnectionIsLost == Spec => []ConnectionsAreTracked
<1>1. IInv => ConnectionsAreTracked
  <2> SUFFICES ASSUME IInv, NEW w \in Workspaces
               PROVE  LET inUse == IF w \in conn THEN 1 ELSE 0
                      IN handles[w] = inUse + leaked[w] /\ inUse + opens[w] <= 1
    BY DEF ConnectionsAreTracked
  <2> QED
    BY DEF IInv, Tracked
<1> QED
  BY <1>1, Invariance, PTL

(* Nobody is at work on the port: then the last transition that touched it *)
(* has ended, or none has touched it.                                      *)
LEMMA AtRest ==
  ASSUME IInv, Running = {} PROVE \E w \in Paths : Whole(w)
<1>1. \A t \in Transitions : job[t].pc \in Untouched \cup {"done", "failed"}
  BY DEF Running, IInv, Types, JobStages, Untouched, Ended
<1>2. PICK n \in 0..MaxTransitions : Begun(n)
  BY DEF IInv, Frontier
<1>3. CASE n = 0
  BY <1>2, <1>3 DEF Begun, Paths
<1>4. CASE n # 0
  <2>1. n \in Transitions
    BY <1>4, BoundAssumption DEF Transitions
  <2>2. Latest(n) /\ job[n].pc \in {"done", "failed"}
    BY <1>1, <1>2, <2>1 DEF Latest, Begun
  <2>3. job[n].ws \in Paths /\ Progress(n)
    BY <2>1 DEF IInv, Types, Job
  <2> QED
    BY <2>2, <2>3 DEF Progress, Paths
<1> QED
  BY <1>3, <1>4

(* While no transition is changing it the port is of one piece, with its   *)
(* database connected, whatever failed half-way before.                    *)
THEOREM NothingHalfOpen == Spec => []PortIsWhole
<1>1. IInv => PortIsWhole
  <2> SUFFICES ASSUME IInv, Running = {}
               PROVE  Cardinality({path, side, config, tools}) = 1 /\ (side # None => side \in conn)
    BY DEF PortIsWhole
  <2>1. PICK w \in Paths : Whole(w)
    BY AtRest
  <2>2. {path, side, config, tools} = {w}
    BY <2>1 DEF Whole
  <2> QED
    BY <2>1, <2>2, FS_Singleton DEF Whole
<1> QED
  BY <1>1, Invariance, PTL

(* However the requests overlapped, when all are served the open workspace *)
(* is the one asked for last and not refused, or none if that failed.      *)
THEOREM LastOneWins == Spec => []LastRequestWins
<1>1. IInv => LastRequestWins
  <2> SUFFICES ASSUME IInv, \A t \in 1..requested : job[t].pc \in Ended
               PROVE  \/ \E t \in 1..requested : Decisive(t) /\ path = Result(t)
                      \/ (\A t \in 1..requested : job[t].pc = "refused") /\ path = None
    BY DEF LastRequestWins
  <2>1. requested \in Nat /\ 1..requested \subseteq Transitions
    BY BoundAssumption DEF IInv, Types, Transitions
  <2>2. PICK n \in 0..MaxTransitions : Begun(n)
    BY DEF IInv, Frontier
  <2>3. \A u \in 1..requested : job[u].pc \in Untouched => job[u].pc = "refused"
    BY DEF Untouched, Ended
  <2>4. CASE n \in Transitions
    <3>1. n \in 1..requested /\ job[n].pc \in {"done", "failed"}
      <4>1. job[n].pc \notin Untouched
        BY <2>2, <2>4 DEF Begun
      <4>2. ~ (n > requested)
        BY <2>4, <4>1 DEF IInv, InTurn, Untouched
      <4>3. n \in 1..requested
        BY <2>1, <2>4, <4>2, BoundAssumption DEF Transitions
      <4> QED
        BY <4>1, <4>3 DEF Untouched, Ended
    <3>2. Latest(n) /\ Progress(n)
      BY <2>2, <2>4 DEF Latest, Begun, IInv
    <3>3. \A u \in 1..requested : u > n => job[u].pc = "refused"
      BY <2>1, <2>2, <2>3 DEF Begun
    <3>4. path = Result(n)
      BY <3>1, <3>2 DEF Progress, Whole, Result
    <3> QED
      BY <3>1, <3>3, <3>4 DEF Decisive
  <2>5. CASE n \notin Transitions
    <3>1. n = 0
      BY <2>5, BoundAssumption DEF Transitions
    <3>2. \A u \in Transitions : job[u].pc \in Untouched
      BY <2>2, <3>1 DEF Begun, Transitions
    <3> QED
      BY <2>1, <2>2, <2>3, <3>1, <3>2 DEF Begun, Whole
  <2> QED
    BY <2>4, <2>5
<1> QED
  BY <1>1, Invariance, PTL

(* Those that have ended before t is served are exactly the earlier ones.  *)
LEMMA EndedAreEarlier ==
  ASSUME IInv, NEW t \in Transitions, job[t].pc \notin {"idle"} \cup Ended,
         \A u \in Before(t) : job[u].pc \in Ended
  PROVE  /\ {u \in Transitions : job[u].pc \in Ended} = 1..(t-1)
         /\ Cardinality(1..(t-1)) = t - 1 /\ IsFiniteSet(1..(t-1))
         /\ t <= requested /\ t \in 1..requested /\ requested \in Nat
<1>1. \A u \in Transitions : u > t => job[u].pc \notin Ended
  BY DEF IInv, InTurn, Before, Ended
<1>2. {u \in Transitions : job[u].pc \in Ended} = Before(t)
  BY <1>1 DEF Before, Transitions
<1>3. Before(t) = 1..(t-1)
  BY BoundAssumption DEF Before, Transitions
<1>4. t <= requested /\ requested \in Nat
  BY BoundAssumption DEF IInv, InTurn, Types, Transitions
<1>5. Cardinality(1..(t-1)) = t - 1 /\ IsFiniteSet(1..(t-1))
  BY FS_Interval DEF Transitions
<1> QED
  BY <1>2, <1>3, <1>4, <1>5 DEF Transitions

(* The record of a transition before and after one of its steps.           *)
LEMMA JobMoves ==
  ASSUME IInv, NEW t \in Transitions, Transition(t)
  PROVE  \E j \in Job :
           /\ job' = [job EXCEPT ![t] = j] /\ requested' = requested
           /\ j.how = job[t].how /\ (j.ws = job[t].ws \/ job[t].how = "last")
           /\ \/ /\ job[t].pc = "waiting" /\ j.pc \in {"look", "stop"} /\ path' = path
                 /\ \A u \in Before(t) : job[u].pc \in Ended
              \/ job[t].pc = "look" /\ j.pc \in {"stop", "refused"} /\ path' = path
              \/ /\ job[t].pc \in Started
                 /\ j.pc \in (Started \ {"stop"}) \cup {"done", "failed"}
<1>1. job \in [Transitions -> Job] /\ job[t] \in Job
  BY DEF IInv, Types
<1>2. CASE Look(t)
  <2>1. PICK w \in Workspaces : /\ job[t].how = "recent" => w = job[t].ws
                                /\ job' = [job EXCEPT ![t].pc = "stop", ![t].ws = w]
    BY <1>2 DEF Look
  <2>2. job[t].pc = "look" /\ requested' = requested /\ path' = path
    BY <1>2 DEF Look, portVars
  <2> DEFINE j == [job[t] EXCEPT !.pc = "stop", !.ws = w]
  <2>3. j \in Job /\ j.pc = "stop" /\ j.ws = w /\ job' = [job EXCEPT ![t] = j]
    BY <2>1, <1>1 DEF Job, JobStages, Started, Paths
  <2>4. j.how = job[t].how
    BY <1>1 DEF Job
  <2>5. job[t].how \in {"recent", "last"}
    BY <2>2, <1>1 DEF IInv, Types, Job
  <2> HIDE DEF j
  <2> QED
    BY <2>1, <2>2, <2>3, <2>4, <2>5
<1>3. CASE ~ Look(t)
  <2>1. PICK pc \in JobStages :
          /\ job' = [job EXCEPT ![t].pc = pc] /\ requested' = requested
          /\ \/ /\ job[t].pc = "waiting" /\ pc \in {"look", "stop"} /\ path' = path
                /\ \A u \in Before(t) : job[u].pc \in Ended
             \/ job[t].pc = "look" /\ pc \in {"stop", "refused"} /\ path' = path
             \/ /\ job[t].pc \in Started
                /\ pc \in (Started \ {"stop"}) \cup {"done", "failed"}
    <3> USE DEF GoTo, JobStages, Untouched, Started
    <3>1. CASE Turn(t) \/ NotThere(t)
      BY <3>1 DEF Turn, FirstStage, NotThere, portVars
    <3>2. CASE Stopped(t) \/ Resolve(t) \/ LoadConfig(t) \/ CreateServices(t)
      BY <3>2 DEF Stopped, Resolve, LoadConfig, CreateServices
    <3>3. CASE Opened(t) \/ Fail(t) \/ Failed(t)
      BY <3>3 DEF Opened, Fail, Failed
    <3> QED
      BY <1>3, <3>1, <3>2, <3>3 DEF Transition
  <2> DEFINE j == [job[t] EXCEPT !.pc = pc]
  <2>2. j \in Job /\ j.pc = pc /\ j.ws = job[t].ws /\ j.how = job[t].how
        /\ job' = [job EXCEPT ![t] = j]
    BY <2>1, <1>1 DEF Job
  <2> HIDE DEF j
  <2> QED
    BY <2>1, <2>2
<1> QED
  BY <1>2, <1>3

(* Every step of the runtime is a step of the queue of whole switches, or  *)
(* leaves it unchanged: no refresh, no half-way failure shows in it, and a *)
(* request is refused only while the workspace it found is still whole.    *)
THEOREM SwitchesAreServedWhole == Spec => Register!Spec
<1> DEFINE Ask(i) == [how |-> job[i].how,
                      ws |-> IF job[i].how = "last" THEN None ELSE job[i].ws]
           Requests == [i \in 1..requested |-> Ask(i)]
           Over == {t \in Transitions : job[t].pc \in Ended}
           Current == IF Running # {} THEN "switching" ELSE path
<1>1. Init => Register!Init
  <2> SUFFICES ASSUME Init PROVE Requests = <<>> /\ Cardinality(Over) = 0 /\ Current = None
    BY DEF Register!Init
  <2>1. Over = {} /\ Running = {}
    BY DEF Init, Ended, Running
  <2> QED
    BY <2>1, FS_EmptySet DEF Init
<1>2. IInv /\ RefreshTyped /\ [Next]_vars => [Register!Next]_(Register!vars)
  <2> SUFFICES ASSUME IInv, RefreshTyped, [Next]_vars
               PROVE  [Register!Next]_(Register!vars)
    OBVIOUS
  <2>1. ASSUME UNCHANGED <<portVars, requested, job>> PROVE UNCHANGED Register!vars
    BY <2>1 DEF Register!vars, portVars, Running
  <2>0. /\ Register!Request <=>
             /\ Len(Requests) < MaxTransitions
             /\ \E q \in Asked : Requests' = Append(Requests, q)
             /\ Cardinality(Over)' = Cardinality(Over) /\ Current' = Current
        /\ Register!Begin <=>
             /\ Cardinality(Over) < Len(Requests)
             /\ Current # "switching" /\ Current' = "switching"
             /\ Requests' = Requests /\ Cardinality(Over)' = Cardinality(Over)
        /\ Register!End <=>
             /\ Current = "switching" /\ Cardinality(Over)' = Cardinality(Over) + 1
             /\ Current' \in Register!Targets(Requests[Cardinality(Over)']) \cup {None}
             /\ Requests' = Requests
        /\ Register!Refuse <=>
             /\ Cardinality(Over) < Len(Requests) /\ Current # "switching"
             /\ Cardinality(Over)' = Cardinality(Over) + 1
             /\ Requests[Cardinality(Over)'].how # "switch"
             /\ Requests' = Requests /\ Current' = Current
        /\ UNCHANGED Register!vars <=>
             Requests' = Requests /\ Cardinality(Over)' = Cardinality(Over) /\ Current' = Current
    BY DEF Register!Request, Register!Begin, Register!End, Register!Refuse, Register!vars,
           Register!Asked, Asked, Paths
  <2>2. ASSUME NEW t \in Transitions, NEW q \in Asked, Request(t, q) PROVE Register!Request
    <3>1. /\ path' = path /\ t = requested + 1 /\ requested' = t
          /\ job' = [job EXCEPT ![t] = [pc |-> "waiting", how |-> q.how, ws |-> q.ws]]
      BY <2>2 DEF Request, portVars
    <3>2. job[t].pc = "idle" /\ job'[t] = [pc |-> "waiting", how |-> q.how, ws |-> q.ws]
      BY <3>1 DEF IInv, InTurn, Types, Transitions
    <3>3. \A u \in Transitions : u # t => job'[u] = job[u]
      BY <3>1 DEF IInv, Types
    <3>4. Over' = Over /\ Running' = Running
      BY <3>2, <3>3 DEF Running, Ended
    <3>5. Len(Requests) = requested /\ requested < MaxTransitions /\ requested \in Nat
      BY <3>1, BoundAssumption DEF IInv, Types, Transitions
    <3>6. Requests' = Append(Requests, q)
      <4>1. q = [how |-> q.how, ws |-> IF q.how = "last" THEN None ELSE q.ws]
        BY DEF Asked
      <4>2. Ask(t)' = q
        BY <3>2, <4>1
      <4>3. \A i \in 1..requested : Ask(i)' = Ask(i)
        BY <3>1, <3>3, <3>5, BoundAssumption DEF Transitions
      <4>4. Requests' = [i \in 1..(requested + 1) |-> Ask(i)']
        BY <3>1
      <4>5. Append(Requests, q) = [i \in 1..(requested + 1) |->
                                      IF i = requested + 1 THEN q ELSE Requests[i]]
        BY <3>5
      <4>6. \A i \in 1..(requested + 1) :
                Ask(i)' = IF i = requested + 1 THEN q ELSE Requests[i]
        BY <3>1, <3>5, <4>2, <4>3
      <4> QED
        BY <4>4, <4>5, <4>6
    <3>7. Current' = Current
      BY <3>1, <3>4
    <3> HIDE DEF Requests, Over, Current
    <3> QED
      BY <2>0, <3>4, <3>5, <3>6, <3>7
  <2>3. ASSUME NEW t \in Transitions, Transition(t)
        PROVE  Register!Begin \/ Register!End \/ Register!Refuse \/ UNCHANGED Register!vars
    <3>1. PICK j \in Job :
           /\ job' = [job EXCEPT ![t] = j] /\ requested' = requested
           /\ j.how = job[t].how /\ (j.ws = job[t].ws \/ job[t].how = "last")
           /\ \/ /\ job[t].pc = "waiting" /\ j.pc \in {"look", "stop"} /\ path' = path
                 /\ \A u \in Before(t) : job[u].pc \in Ended
              \/ job[t].pc = "look" /\ j.pc \in {"stop", "refused"} /\ path' = path
              \/ /\ job[t].pc \in Started
                 /\ j.pc \in (Started \ {"stop"}) \cup {"done", "failed"}
      BY <2>3, JobMoves
    <3>0. job[t].pc \in {"waiting", "look"} \cup Started /\ \A u \in Before(t) : job[u].pc \in Ended
      BY <3>1 DEF IInv, InTurn, Started
    <3>2. /\ job'[t] = j
          /\ \A u \in Transitions : job'[u].how = job[u].how
          /\ \A u \in Transitions : u # t => job'[u] = job[u]
      BY <3>1 DEF IInv, Types
    <3>3. Requests' = Requests
      <4>1. \A i \in 1..requested : Ask(i)' = Ask(i)
        BY <3>1, <3>2, BoundAssumption DEF IInv, Types, Transitions
      <4> QED
        BY <3>1, <4>1
    <3>4. /\ Over = 1..(t-1) /\ Cardinality(1..(t-1)) = t - 1 /\ IsFiniteSet(1..(t-1))
          /\ t \in 1..requested /\ requested \in Nat
      BY <3>0, EndedAreEarlier DEF Started, Ended
    <3>5. Len(Requests) = requested /\ Requests[t] = Ask(t)
      BY <3>4
    <3>6. \A u \in Transitions : u # t => u \notin Running /\ u \notin Running'
      <4>0. job[t].pc \notin Ended
        BY <3>0 DEF Started, Ended
      <4>1. \A u \in Transitions : u > t => job[u].pc \in {"idle", "waiting"}
        BY <4>0 DEF IInv, InTurn, Before
      <4>2. \A u \in Transitions : u < t => job[u].pc \in Ended
        BY <3>0 DEF Before
      <4> QED
        BY <4>1, <4>2, <3>2 DEF Running, Transitions
    <3>10. path # "switching"
      BY NoneIsNoWorkspace DEF IInv, Types, Paths
    <3>11. CASE j.pc = "look"
      <4>1. job[t].pc = "waiting" /\ path' = path
        BY <3>1, <3>11 DEF Started
      <4>2. Over' = Over /\ Running' = Running
        BY <3>2, <3>6, <3>11, <4>1 DEF Running, Ended
      <4>3. Current' = Current
        BY <4>1, <4>2
      <4> HIDE DEF Requests, Over, Current
      <4> QED
        BY <2>0, <3>3, <4>2, <4>3
    <3>12. CASE j.pc = "refused"
      <4>1. job[t].pc = "look" /\ path' = path /\ job[t].how # "switch"
        BY <3>1, <3>12 DEF Started, IInv, Types
      <4>2. Running = {} /\ Running' = {}
        BY <3>2, <3>6, <3>12, <4>1 DEF Running, Ended
      <4>3. Over' = Over \cup {t} /\ t \notin Over
        BY <3>2, <3>12, <4>1 DEF Ended
      <4>4. Cardinality(Over)' = t /\ Cardinality(Over) = t - 1
        <5>1. Cardinality(Over \cup {t}) = Cardinality(Over) + 1
          BY <3>4, <4>3, FS_AddElement
        <5>2. Cardinality(Over)' = Cardinality(Over \cup {t})
          BY <4>3
        <5> HIDE DEF Over
        <5> QED
          BY <3>4, <5>1, <5>2
      <4>5. Current' = Current /\ Current # "switching"
        BY <3>10, <4>1, <4>2
      <4>6. Requests[t].how # "switch"
        BY <3>5, <4>1
      <4>7. t - 1 < requested /\ (t - 1) + 1 = t
        BY <3>4
      <4> HIDE DEF Requests, Over, Current
      <4> QED
        BY <2>0, <3>3, <3>5, <4>4, <4>5, <4>6, <4>7
    <3>7. CASE j.pc = "stop"
      <4>1. job[t].pc \in {"waiting", "look"} /\ path' = path
        BY <3>1, <3>7
      <4>2. Running = {} /\ Running' # {} /\ Over' = Over
        BY <3>2, <3>6, <3>7, <4>1 DEF Running, Ended
      <4>4. Current # "switching" /\ Current' = "switching"
        BY <3>10, <4>1, <4>2
      <4>5. Cardinality(Over) = t - 1
        BY <3>4
      <4>6. t - 1 < requested
        BY <3>4
      <4> HIDE DEF Requests, Over, Current
      <4> QED
        BY <2>0, <3>3, <3>5, <4>2, <4>4, <4>5, <4>6
    <3>8. CASE j.pc \in Started \ {"stop"}
      <4>1. t \in Running /\ t \in Running'
        BY <3>1, <3>2, <3>8 DEF Running, Started, Ended
      <4>2. Over' = Over
        BY <3>0, <3>2, <3>8 DEF Started, Ended
      <4>3. Current' = Current
        BY <4>1
      <4> HIDE DEF Requests, Over, Current
      <4> QED
        BY <2>0, <3>3, <4>2, <4>3
    <3>9. CASE j.pc \in {"done", "failed"}
      <4>1. t \in Running /\ Running' = {}
        BY <3>1, <3>2, <3>6, <3>9 DEF Running, Started, Ended
      <4>2. Over' = Over \cup {t} /\ t \notin Over
        BY <3>0, <3>2, <3>9 DEF Started, Ended
      <4>3. Cardinality(Over)' = t /\ Cardinality(Over) = t - 1
        <5>1. Cardinality(Over \cup {t}) = Cardinality(Over) + 1
          BY <3>4, <4>2, FS_AddElement
        <5>2. Cardinality(Over)' = Cardinality(Over \cup {t})
          BY <4>2
        <5> HIDE DEF Over
        <5> QED
          BY <3>4, <5>1, <5>2
      <4>4. path' \in {j.ws, None}
        <5>1. IInv'
          BY <2>3, TransitionIInv
        <5>2. Latest(t)'
          <6>1. \A u \in Transitions : u > t => job'[u].pc \in {"idle", "waiting"}
            BY <3>0, <3>2 DEF IInv, InTurn, Before, Started, Ended, Transitions
          <6> QED
            BY <6>1 DEF Latest, Untouched
        <5>3. Progress(t)'
          BY <5>1 DEF IInv
        <5> QED
          BY <3>2, <3>9, <5>2, <5>3 DEF Progress, Whole
      <4>5. Current' = path' /\ Current = "switching"
        BY <4>1
      <4>6. j.ws \in Register!Targets(Requests[t]) \cup {None}
        <5>1. Requests[t].how = job[t].how /\ (job[t].how # "last" => Requests[t].ws = job[t].ws)
          BY <3>5
        <5> HIDE DEF Requests
        <5> QED
          BY <3>1, <5>1 DEF Register!Targets, Paths, Job
      <4> HIDE DEF Requests, Over, Current
      <4> QED
        BY <2>0, <3>3, <3>4, <3>5, <4>3, <4>4, <4>5, <4>6
    <3> QED
      BY <3>1, <3>7, <3>8, <3>9, <3>11, <3>12
  <2>4. ASSUME NEW r \in Refreshers, Begin(r) \/ Refresh(r) PROVE UNCHANGED <<portVars, requested, job>>
    BY <2>4 DEF Begin, Refresh, Load, Reconnect, Reconcile, Project, Store, Overlay, Links,
                Finish, Return, Throw
  <2>5. ASSUME NEW w \in Workspaces, Connected(w) \/ ConnectFails(w)
        PROVE  UNCHANGED <<portVars, requested, job>>
    BY <2>5 DEF Connected, ConnectFails
  <2>6. CASE UNCHANGED vars
    BY <2>1, <2>6 DEF vars
  <2> QED
    BY <2>1, <2>2, <2>3, <2>4, <2>5, <2>6, AskableAssumption DEF Next, Register!Next
<1> QED
  BY <1>1, <1>2, Invariance, PTL DEF Spec, Register!Spec
-----------------------------------------------------------------------------
(* Type correctness, in parts that are disturbed by different actions.     *)
ProcStates == {"none", "running", "stopping", "zombie", "dead"}
MaybeWorkspaces == Workspaces \cup {None}
Pcs == {"idle", "start env", "start", "restart env", "stop task"}

Processes ==
    /\ proc \in [Pids -> ProcStates]
    /\ cwd \in [Pids -> MaybeWorkspaces]
    /\ spawner \in [Pids -> 0..MaxSessions]
    /\ stored \in [Workspaces -> Pids \cup {NoPid}]
    /\ child \in [Sessions -> Pids \cup {NoPid, Broken}]

\* The workspaces of the current session and of a transition under way exist.
Openings ==
    /\ wsOf \in [Sessions -> MaybeWorkspaces]
    /\ last \in 0..MaxSessions
    /\ cur \in 0..last
    /\ opening \in [stage : {"none", "prepare", "watch"}, ws : MaybeWorkspaces]
    /\ opening.stage # "none" => opening.ws \in Workspaces
    /\ opening.stage = "prepare" => last < MaxSessions
    /\ opening.stage = "watch" => cur # 0
    /\ cur # 0 => wsOf[cur] \in Workspaces

ShownTyped == shown \in [Sessions -> {"unknown", "running", "stopped"}]

\* A start that has got as far as its manager holds one.
CallsTyped ==
    /\ calls \in [Calls -> [pc : Pcs, ws : MaybeWorkspaces, mgr : 0..MaxSessions,
                            pid : Pids \cup {NoPid}]]
    /\ \A c \in Calls : calls[c].pc \in {"start env", "start"} => calls[c].ws \in Workspaces
    /\ \A c \in Calls : calls[c].pc = "start" => calls[c].mgr # 0

WatchTypes == Processes /\ Openings /\ ShownTyped /\ CallsTyped

LEMMA WatchTypesAreTypeOK == WatchTypes => WatchTypeOK
  BY DEF WatchTypes, Processes, Openings, ShownTyped, CallsTyped, WatchTypeOK, ProcStates,
         MaybeWorkspaces, Pcs

LEMMA NoCallTypes ==
    /\ calls = [c \in Calls |-> NoCall] => CallsTyped
    /\ calls' = [c \in Calls |-> NoCall] => CallsTyped'
<1>1. NoCall \in [pc : Pcs, ws : MaybeWorkspaces, mgr : 0..MaxSessions, pid : Pids \cup {NoPid}]
      /\ NoCall.pc = "idle"
  BY SessionsAssumption DEF NoCall, Pcs, MaybeWorkspaces
<1> QED
  BY <1>1 DEF CallsTyped

LEMMA InitWatchTypes == WatchInit => WatchTypes
<1> SUFFICES ASSUME WatchInit PROVE WatchTypes
  OBVIOUS
<1> USE SessionsAssumption DEF WatchInit, MaybeWorkspaces, Sessions
<1>1. Processes
  BY DEF Processes, ProcStates
<1>2. Openings
  BY DEF Openings, NoSwitch
<1>3. ShownTyped /\ CallsTyped
  BY NoCallTypes DEF ShownTyped
<1> QED
  BY <1>1, <1>2, <1>3 DEF WatchTypes

LEMMA CurrentSession ==
    ASSUME Openings, cur # 0
    PROVE  cur \in Sessions /\ wsOf[cur] \in Workspaces
  BY SessionsAssumption DEF Openings, Sessions

LEMMA SpawnTypes ==
    ASSUME Processes, Openings, NEW m \in Sessions, NEW w \in Workspaces, Spawn(m, w)
    PROVE  Processes'
<1> USE SessionsAssumption DEF Processes, ProcStates, Sessions
<1>1. wsOf[m] \in MaybeWorkspaces
  BY DEF Openings
<1>2. CASE UNCHANGED <<proc, cwd, spawner, stored, child>>
  BY <1>2
<1>3. CASE child' = [child EXCEPT ![m] = Broken] /\ UNCHANGED <<proc, cwd, spawner, stored>>
  BY <1>3
<1>4. ASSUME NEW p \in Pids,
             proc' = [proc EXCEPT ![p] = "running"], cwd' = [cwd EXCEPT ![p] = wsOf[m]],
             spawner' = [spawner EXCEPT ![p] = m], child' = [child EXCEPT ![m] = p],
             stored' = [stored EXCEPT ![w] = p]
      PROVE  Processes'
  BY <1>1, <1>4
<1> QED
  BY <1>2, <1>3, <1>4 DEF Spawn

LEMMA StopTypes ==
    ASSUME Processes, NEW m \in Sessions, NEW w \in Workspaces, StopWith(m, w),
           UNCHANGED <<cwd, spawner>>
    PROVE  Processes'
  BY DEF Processes, ProcStates, StopWith

LEMMA SyncTypes ==
    ASSUME ShownTyped, NEW m, NEW w, NEW record, NEW kids,
           shown' = [shown EXCEPT ![m] = Synced(m, w, record, kids)]
    PROVE  ShownTyped'
  BY DEF ShownTyped, Synced

LEMMA CallTypes ==
    ASSUME CallsTyped, NEW c \in Calls, NEW pc \in Pcs, NEW w \in MaybeWorkspaces,
           NEW m \in 0..MaxSessions, NEW p \in Pids \cup {NoPid}, SetCall(c, pc, w, m, p),
           pc \in {"start env", "start"} => w \in Workspaces, pc = "start" => m # 0
    PROVE  CallsTyped'
  BY DEF CallsTyped, SetCall

LEMMA DoneTypes ==
    ASSUME CallsTyped, NEW c \in Calls, Done(c)
    PROVE  CallsTyped'
<1>1. SetCall(c, "idle", None, 0, NoPid)
  BY DEF Done, SetCall, NoCall
<1>2. 0 \in 0..MaxSessions /\ "idle" \in Pcs /\ None \in MaybeWorkspaces
  BY SessionsAssumption DEF Pcs, MaybeWorkspaces
<1> QED
  BY <1>1, <1>2, CallTypes

LEMMA CommandTypes ==
    ASSUME WatchTypes, NEW c \in Calls, Command(c)
    PROVE  WatchTypes'
<1> USE DEF WatchTypes
<1>1. UNCHANGED appVars => Openings'
  BY DEF Openings, appVars
<1>2. UNCHANGED <<proc, cwd, spawner, stored, child>> => Processes'
  BY DEF Processes
<1>3. UNCHANGED shown => ShownTyped'
  BY DEF ShownTyped
<1>4. cur # 0 => cur \in Sessions /\ cur \in 0..MaxSessions /\ cur # 0
                  /\ wsOf[cur] \in Workspaces
  BY CurrentSession, SessionsAssumption DEF Sessions
<1>5. 0 \in 0..MaxSessions
  BY SessionsAssumption
<1>6. CASE StartWatch(c)
  BY <1>1, <1>2, <1>3, <1>4, <1>5, <1>6, CallTypes DEF StartWatch, Pcs, MaybeWorkspaces
<1>7. CASE StartResolved(c) \/ RestartResolved(c)
  <2>1. calls[c].pc = "start env" => calls[c].ws \in Workspaces
    BY DEF CallsTyped
  <2>2. CallsTyped'
    BY <1>4, <1>7, <2>1, CallTypes, DoneTypes
       DEF StartResolved, RestartResolved, Pcs, MaybeWorkspaces
  <2> QED
    BY <1>1, <1>2, <1>3, <1>7, <2>2 DEF StartResolved, RestartResolved
<1>8. CASE StartThrows(c) \/ StopTaskTimesOut(c)
  BY <1>1, <1>2, <1>3, <1>8, DoneTypes DEF StartThrows, StopTaskTimesOut
<1>9. CASE StartSpawns(c)
  <2>1. calls[c].mgr \in Sessions /\ calls[c].ws \in Workspaces
    <3>1. calls[c].mgr \in 0..MaxSessions /\ calls[c].mgr # 0 /\ calls[c].ws \in Workspaces
      BY <1>9 DEF CallsTyped, StartSpawns
    <3> QED
      BY <3>1, SessionsAssumption DEF Sessions
  <2>2. ShownTyped'
    BY <1>9 DEF ShownTyped, StartSpawns
  <2> QED
    BY <1>1, <1>9, <2>1, <2>2, SpawnTypes, DoneTypes DEF StartSpawns
<1>10. CASE StopWatch(c)
  <2>1. ShownTyped' /\ CallsTyped'
    BY <1>10 DEF ShownTyped, CallsTyped, StopWatch
  <2> QED
    BY <1>1, <1>4, <1>10, <2>1, StopTypes DEF StopWatch
<1>11. CASE RestartWatch(c)
  <2>1. ShownTyped'
    BY <1>11, SyncTypes DEF RestartWatch
  <2>2. Openings' /\ cur \in Sessions /\ wsOf[cur] \in Workspaces
    BY <1>1, <1>4, <1>11 DEF RestartWatch
  <2>3. CASE StopWith(cur, wsOf[cur]) /\ SetCall(c, "restart env", None, 0, NoPid)
    BY <1>5, <1>11, <2>1, <2>2, <2>3, StopTypes, CallTypes
       DEF RestartWatch, Pcs, MaybeWorkspaces
  <2>4. CASE UNCHANGED <<proc, stored, child, calls>>
    <3>1. CallsTyped'
      BY <2>4 DEF CallsTyped
    <3> QED
      BY <1>2, <1>11, <2>1, <2>2, <2>4, <3>1 DEF RestartWatch
  <2> QED
    BY <1>11, <2>3, <2>4 DEF RestartWatch
<1>12. CASE StopTask(c)
  <2>1. Processes'
    BY <1>12 DEF Processes, ProcStates, StopTask, Signalled
  <2>2. CallsTyped'
    BY <1>5, <1>12, CallTypes DEF StopTask, Pcs, MaybeWorkspaces
  <2> QED
    BY <1>1, <1>3, <1>12, <2>1, <2>2 DEF StopTask
<1>13. CASE StopTaskSyncs(c)
  <2>1. Processes'
    BY <1>4, <1>13 DEF Processes, StopTaskSyncs
  <2>2. ShownTyped'
    BY <1>3, <1>13 DEF StopTaskSyncs, ShownTyped, Synced
  <2> QED
    BY <1>1, <1>13, <2>1, <2>2, DoneTypes DEF StopTaskSyncs
<1> QED
  BY <1>6, <1>7, <1>8, <1>9, <1>10, <1>11, <1>12, <1>13 DEF Command

LEMMA TransitionTypes ==
    ASSUME WatchTypes, WatchTransition
    PROVE  WatchTypes'
<1> USE DEF WatchTypes
<1>1. UNCHANGED calls => CallsTyped'
  BY DEF CallsTyped
<1>2. UNCHANGED <<proc, cwd, spawner, stored, child>> => Processes'
  BY DEF Processes
<1>3. UNCHANGED shown => ShownTyped'
  BY DEF ShownTyped
<1>4. cur # 0 => cur \in Sessions /\ wsOf[cur] \in Workspaces
  BY CurrentSession
<1>5. TeardownWatch /\ UNCHANGED <<cwd, spawner>> => Processes'
  BY <1>2, <1>4, StopTypes DEF TeardownWatch
<1>6. ASSUME NEW w \in Workspaces, OpenWorkspace(w) PROVE WatchTypes'
  <2>1. Openings'
    BY <1>6, SessionsAssumption DEF OpenWorkspace, TeardownWatch, Openings, MaybeWorkspaces
  <2> QED
    BY <1>1, <1>3, <1>5, <1>6, <2>1 DEF OpenWorkspace
<1>7. CASE CreateManager
  <2>1. Openings'
    BY <1>7, SessionsAssumption DEF CreateManager, Openings, MaybeWorkspaces, Sessions
  <2> QED
    BY <1>1, <1>2, <1>3, <1>7, <2>1 DEF CreateManager
<1>8. CASE OpenStartsWatch
  <2>1. cur \in Sessions /\ opening.ws \in Workspaces
    BY <1>4, <1>8 DEF OpenStartsWatch, Openings
  <2>2. Openings'
    BY <1>8 DEF OpenStartsWatch, Openings, NoSwitch, MaybeWorkspaces
  <2>3. ShownTyped' /\ CallsTyped'
    BY <1>8 DEF OpenStartsWatch, ShownTyped, CallsTyped
  <2> QED
    BY <1>8, <2>1, <2>2, <2>3, SpawnTypes DEF OpenStartsWatch
<1>9. CASE OpenSyncsWatch
  <2>1. Openings'
    BY <1>9 DEF OpenSyncsWatch, Openings, NoSwitch, MaybeWorkspaces
  <2> QED
    BY <1>1, <1>2, <1>9, <2>1, SyncTypes DEF OpenSyncsWatch
<1>10. CASE OpenFails
  <2>1. Openings'
    BY <1>10, SessionsAssumption DEF OpenFails, TeardownWatch, Openings, NoSwitch, MaybeWorkspaces
  <2> QED
    BY <1>1, <1>3, <1>5, <1>10, <2>1 DEF OpenFails
<1>11. CASE Resync
  <2>1. Openings'
    BY <1>4, <1>11 DEF Resync, Openings, MaybeWorkspaces
  <2> QED
    BY <1>1, <1>2, <1>3, <1>11, <2>1 DEF Resync
<1> QED
  BY <1>6, <1>7, <1>8, <1>9, <1>10, <1>11 DEF WatchTransition

LEMMA WatchTypesStep == WatchTypes /\ [WatchNext]_watchVars => WatchTypes'
<1> SUFFICES ASSUME WatchTypes, [WatchNext]_watchVars PROVE WatchTypes'
  OBVIOUS
<1> USE DEF WatchTypes
<1>1. UNCHANGED appVars => Openings'
  BY DEF Openings, appVars
<1>2. UNCHANGED calls => CallsTyped'
  BY DEF CallsTyped
<1>3. UNCHANGED shown => ShownTyped'
  BY DEF ShownTyped
<1>4. UNCHANGED <<proc, cwd, spawner, stored, child>> => Processes'
  BY DEF Processes
<1>5. ASSUME NEW c \in Calls, Command(c) PROVE WatchTypes'
  BY <1>5, CommandTypes
<1>6. CASE SyncConnection
  BY <1>1, <1>2, <1>4, <1>6, SyncTypes DEF SyncConnection
<1>7. CASE WatchTransition
  BY <1>7, TransitionTypes
<1>8. ASSUME NEW p \in Pids, ProcessEnds(p) \/ ExitEvent(p) PROVE WatchTypes'
  <2>1. Processes'
    BY <1>8 DEF Processes, ProcStates, ProcessEnds, ExitEvent, Exited
  <2> QED
    BY <1>1, <1>2, <1>3, <1>8, <2>1 DEF ProcessEnds, ExitEvent
<1>9. CASE Crash
  <2>1. Processes'
    BY <1>9, SessionsAssumption DEF Processes, ProcStates, Crash
  <2>2. Openings'
    BY <1>9, SessionsAssumption DEF Openings, MaybeWorkspaces, NoSwitch, Crash
  <2>3. CallsTyped'
    BY <1>9, NoCallTypes DEF Crash
  <2> QED
    BY <1>3, <1>9, <2>1, <2>2, <2>3 DEF Crash
<1>10. CASE UNCHANGED watchVars
  BY <1>1, <1>2, <1>3, <1>4, <1>10 DEF watchVars, appVars
<1> QED
  BY <1>5, <1>6, <1>7, <1>8, <1>9, <1>10 DEF WatchNext

(* Every step of the manager, of the commands in flight, of a transition   *)
(* and of the operating system keeps the state well typed.                 *)
THEOREM WatchTypeCorrect == WatchSpec => []WatchTypeOK
  BY InitWatchTypes, WatchTypesStep, WatchTypesAreTypeOK, PTL DEF WatchSpec

-----------------------------------------------------------------------------
(* Records.                                                                *)

\* A record is replaced only when the process it names is gone.
LEMMA SpawnRecords ==
    ASSUME WatchTypes, RunningWatchIsRecorded, NEW m, NEW w \in Workspaces, Spawn(m, w)
    PROVE  RunningWatchIsRecorded'
  BY DEF WatchTypes, Processes, ProcStates, Spawn, HasWatch, Alive, RunningWatchIsRecorded

\* A record is cleared together with a signal to the process it names.
LEMMA StopRecords ==
    ASSUME WatchTypes, RunningWatchIsRecorded, NEW m, NEW w \in Workspaces, StopWith(m, w)
    PROVE  RunningWatchIsRecorded'
  BY DEF WatchTypes, Processes, StopWith, RunningWatchIsRecorded

\* Steps that start no process and leave the records alone.
LEMMA OtherRecords ==
    ASSUME RunningWatchIsRecorded, UNCHANGED stored,
           \A p \in Pids : proc'[p] = "running" => proc[p] = "running"
    PROVE  RunningWatchIsRecorded'
  BY DEF RunningWatchIsRecorded

LEMMA RecordsStep ==
    WatchTypes /\ RunningWatchIsRecorded /\ [WatchNext]_watchVars => RunningWatchIsRecorded'
<1> SUFFICES ASSUME WatchTypes, RunningWatchIsRecorded, [WatchNext]_watchVars
             PROVE  RunningWatchIsRecorded'
  OBVIOUS
<1>1. cur # 0 => wsOf[cur] \in Workspaces
  BY DEF WatchTypes, Openings
<1>2. ASSUME NEW c \in Calls, Command(c) PROVE RunningWatchIsRecorded'
  <2>1. CASE StartWatch(c) \/ StartResolved(c) \/ StartThrows(c) \/ RestartResolved(c)
             \/ StopTaskTimesOut(c)
    BY <2>1, OtherRecords DEF StartWatch, StartResolved, StartThrows, RestartResolved,
                              StopTaskTimesOut
  <2>2. CASE StartSpawns(c)
    BY <2>2, SpawnRecords DEF StartSpawns, WatchTypes, CallsTyped
  <2>3. CASE StopWatch(c) \/ RestartWatch(c)
    BY <1>1, <2>3, StopRecords, OtherRecords DEF StopWatch, RestartWatch
  <2>4. CASE StopTask(c)
    BY <2>4, OtherRecords DEF StopTask, Signalled, WatchTypes, Processes
  <2>5. CASE StopTaskSyncs(c)
    <3>1. ASSUME NEW p \in Pids, proc[p] = "running" PROVE p # calls[c].pid
      BY <2>5, <3>1 DEF StopTaskSyncs, Alive
    <3>2. \A w \in Workspaces : stored'[w] = stored[w] \/ stored[w] = calls[c].pid
      BY <2>5 DEF StopTaskSyncs, WatchTypes, Processes
    <3> QED
      BY <2>5, <3>1, <3>2 DEF StopTaskSyncs, RunningWatchIsRecorded
  <2> QED
    BY <1>2, <2>1, <2>2, <2>3, <2>4, <2>5 DEF Command
<1>3. CASE SyncConnection \/ UNCHANGED watchVars
  BY <1>3, OtherRecords DEF SyncConnection, watchVars
<1>4. CASE WatchTransition
  <2>1. ASSUME NEW w \in Workspaces, OpenWorkspace(w) PROVE RunningWatchIsRecorded'
    BY <1>1, <2>1, StopRecords, OtherRecords DEF OpenWorkspace, TeardownWatch
  <2>2. CASE CreateManager \/ OpenSyncsWatch \/ Resync
    BY <2>2, OtherRecords DEF CreateManager, OpenSyncsWatch, Resync
  <2>3. CASE OpenStartsWatch
    BY <2>3, SpawnRecords DEF OpenStartsWatch, WatchTypes, Openings
  <2>4. CASE OpenFails
    BY <1>1, <2>4, StopRecords, OtherRecords DEF OpenFails, TeardownWatch
  <2> QED
    BY <1>4, <2>1, <2>2, <2>3, <2>4 DEF WatchTransition
<1>5. ASSUME NEW p \in Pids, ProcessEnds(p) \/ ExitEvent(p) PROVE RunningWatchIsRecorded'
  BY <1>5, OtherRecords DEF ProcessEnds, ExitEvent, WatchTypes, Processes
<1>6. CASE Crash
  BY <1>6, OtherRecords DEF Crash, WatchTypes, Processes
<1> QED
  BY <1>2, <1>3, <1>4, <1>5, <1>6 DEF WatchNext

(* A watch that runs is on record, whatever commands, transitions, late    *)
(* exit events and crashes come in between.                                *)
THEOREM RunningIsRecorded == WatchSpec => []RunningWatchIsRecorded
<1>1. WatchInit => RunningWatchIsRecorded
  BY DEF WatchInit, RunningWatchIsRecorded
<1> QED
  BY <1>1, InitWatchTypes, WatchTypesStep, RecordsStep, PTL DEF WatchSpec

(* An application that opens one workspace only never serves it with two   *)
(* watches: they would share its one record.                               *)
THEOREM OneWorkspaceOneWatch ==
    ASSUME NEW w0, Workspaces = {w0}
    PROVE  WatchSpec => []OneWatchPerWorkspace
<1>1. RunningWatchIsRecorded => OneWatchPerWorkspace
  BY DEF RunningWatchIsRecorded, OneWatchPerWorkspace, Serving
<1> QED
  BY <1>1, RunningIsRecorded, PTL
=============================================================================
