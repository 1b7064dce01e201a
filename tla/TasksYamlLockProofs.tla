------------------------ MODULE TasksYamlLockProofs ------------------------
(***************************************************************************)
(* Proofs about the promise chain, for any set of calls and of keys.       *)
(*                                                                         *)
(* Mutual exclusion is not inductive: whether the call at the head may run *)
(* depends on the whole chain behind its tail.  Chain says that the tail   *)
(* of a waiting call stands between it and every older call still active,  *)
(* and MapEndsChain that the map entry of a key is the newest active call. *)
(***************************************************************************)
EXTENDS TasksYamlLock, TLAPS

ActiveStages == {"waiting", "inside"}

(* next settles only once the gate is open.                                *)
SettledLeft == \A c \in settled : stage[c] = "left"

(* A call only looks back at calls of its own key that have been made.     *)
AheadIsOlder ==
    \A c \in Calls : \A d \in ahead[c] :
        d # c /\ KeyOf[d] = KeyOf[c] /\ stage[d] # "idle"

TailIsOlder ==
    \A c \in Calls : stage[c] # "idle" /\ tail[c] # NoCall =>
        KeyOf[tail[c]] = KeyOf[c] /\ stage[tail[c]] # "idle"

(* An older call that is still active is the tail or stands ahead of it.   *)
Chain ==
    \A c \in Calls : \A d \in ahead[c] :
        stage[c] \in ActiveStages /\ stage[d] # "left" =>
            tail[c] # NoCall /\ (d = tail[c] \/ d \in ahead[tail[c]])

(* The entry of a key is its newest active call.                           *)
MapEndsChain ==
    \A k \in Keys : queues[k] # NoCall =>
        /\ KeyOf[queues[k]] = k
        /\ stage[queues[k]] \in ActiveStages
        /\ \A d \in Active(k) : d = queues[k] \/ d \in ahead[queues[k]]

MapEmptyIdle == \A k \in Keys : queues[k] = NoCall => Active(k) = {}

(* Two active calls of one key know which of them came first.              *)
Ordered ==
    \A c, d \in Calls :
        c # d /\ KeyOf[c] = KeyOf[d]
            /\ stage[c] \in ActiveStages /\ stage[d] \in ActiveStages
        => c \in ahead[d] \/ d \in ahead[c]

IInv ==
    /\ TypeOK
    /\ SettledLeft
    /\ AheadIsOlder
    /\ TailIsOlder
    /\ Chain
    /\ MapEndsChain
    /\ MapEmptyIdle
    /\ Ordered
    /\ FirstComeFirstServed

-----------------------------------------------------------------------------

LEMMA InitIInv == Init => IInv
  BY KeyOfAssumption, NoCallAssumption
     DEF Init, IInv, TypeOK, SettledLeft, AheadIsOlder, TailIsOlder, Chain,
         MapEndsChain, MapEmptyIdle, Ordered, FirstComeFirstServed, Active, ActiveStages

(* When the tail of a waiting call has settled, nobody older is active:    *)
(* the fact that lets Enter preserve the order.                            *)
LEMMA ResolvedTailMeansFirst ==
  ASSUME IInv, NEW c \in Calls, stage[c] = "waiting", Resolved(tail[c]),
         NEW d \in ahead[c]
  PROVE  stage[d] = "left"
<1>1. ahead[c] \subseteq Calls /\ settled \subseteq Calls
  BY DEF IInv, TypeOK
<1>2. SUFFICES ASSUME stage[d] # "left" PROVE FALSE
  OBVIOUS
<1>3. tail[c] # NoCall /\ (d = tail[c] \/ d \in ahead[tail[c]])
  BY <1>2 DEF IInv, Chain, ActiveStages
<1>4. tail[c] \in settled /\ stage[tail[c]] = "left"
  BY <1>3 DEF Resolved, IInv, SettledLeft
<1>5. CASE d = tail[c]
  BY <1>2, <1>4, <1>5
<1>6. CASE d \in ahead[tail[c]]
  BY <1>1, <1>2, <1>4, <1>6 DEF IInv, FirstComeFirstServed
<1> QED BY <1>3, <1>5, <1>6

LEMMA RequestIInv ==
  ASSUME IInv, NEW c \in Calls, Request(c) PROVE IInv'
<1> USE KeyOfAssumption, NoCallAssumption
<1> DEFINE k == KeyOf[c]
<1>0. k \in Keys /\ TypeOK /\ stage[c] = "idle" /\ c \notin Active(k) /\ c # NoCall
  BY DEF IInv, Request, Active
<1>1. /\ stage' = [stage EXCEPT ![c] = "waiting"]
      /\ queues' = [queues EXCEPT ![k] = c]
      /\ tail' = [tail EXCEPT ![c] = queues[k]]
      /\ ahead' = [ahead EXCEPT ![c] = Active(k)]
      /\ settled' = settled
  BY DEF Request
<1>2. Active(k)' = Active(k) \cup {c}
  BY <1>0, <1>1 DEF Active, TypeOK
<1>3. \A j \in Keys : j # k => Active(j)' = Active(j) /\ queues'[j] = queues[j]
  BY <1>0, <1>1 DEF Active, TypeOK
<1>4. \A d \in Calls : c \notin ahead[d]
  BY <1>0 DEF IInv, AheadIsOlder
<1>5. \A d \in Calls : stage[d] # "idle" => tail[d] # c
  BY <1>0 DEF IInv, TailIsOlder, TypeOK
<1>6. TypeOK'
  BY <1>0, <1>1 DEF TypeOK, Active
<1>7. SettledLeft'
  BY <1>0, <1>1 DEF IInv, SettledLeft, TypeOK
<1>8. AheadIsOlder'
  BY <1>0, <1>1, <1>4 DEF IInv, AheadIsOlder, TypeOK, Active
<1>9. TailIsOlder'
  <2> SUFFICES ASSUME NEW d \in Calls, stage'[d] # "idle", tail'[d] # NoCall
               PROVE  KeyOf[tail'[d]] = KeyOf[d] /\ stage'[tail'[d]] # "idle"
    BY DEF TailIsOlder
  <2>1. CASE d = c
    <3>1. tail'[d] = queues[k] /\ queues[k] # NoCall
      BY <2>1, <1>0, <1>1 DEF TypeOK
    <3>2. KeyOf[queues[k]] = k /\ stage[queues[k]] # "idle" /\ queues[k] \in Calls
      BY <3>1, <1>0 DEF IInv, MapEndsChain, ActiveStages, TypeOK
    <3> QED BY <2>1, <3>1, <3>2, <1>0, <1>1 DEF TypeOK
  <2>2. CASE d # c
    BY <2>2, <1>0, <1>1, <1>5 DEF IInv, TailIsOlder, TypeOK
  <2> QED BY <2>1, <2>2
<1>10. Chain'
  <2> SUFFICES ASSUME NEW d \in Calls, NEW e \in ahead'[d],
                      stage'[d] \in ActiveStages, stage'[e] # "left"
               PROVE  tail'[d] # NoCall /\ (e = tail'[d] \/ e \in ahead'[tail'[d]])
    BY DEF Chain
  <2>1. CASE d = c
    <3>1. e \in Active(k) /\ tail'[d] = queues[k] /\ e # c
      BY <2>1, <1>0, <1>1 DEF TypeOK
    <3>2. queues[k] # NoCall
      BY <3>1, <1>0 DEF IInv, MapEmptyIdle
    <3>3. e = queues[k] \/ e \in ahead[queues[k]]
      BY <3>1, <3>2, <1>0 DEF IInv, MapEndsChain
    <3>4. queues[k] \in Calls /\ queues[k] # c
      BY <3>2, <1>0 DEF IInv, MapEndsChain, ActiveStages, TypeOK
    <3> QED BY <3>1, <3>2, <3>3, <3>4, <1>0, <1>1 DEF TypeOK
  <2>2. CASE d # c
    <3>1. /\ e \in ahead[d] /\ stage[d] \in ActiveStages
          /\ tail'[d] = tail[d] /\ e \in Calls /\ e # c
      BY <2>2, <1>0, <1>1, <1>4 DEF TypeOK
    <3>2. stage[e] # "left"
      BY <3>1, <1>0, <1>1 DEF TypeOK
    <3>3. tail[d] # NoCall /\ (e = tail[d] \/ e \in ahead[tail[d]])
      BY <3>1, <3>2 DEF IInv, Chain
    <3>4. tail[d] \in Calls /\ tail[d] # c
      BY <3>1, <3>3, <1>0, <1>5 DEF TypeOK, ActiveStages
    <3> QED BY <3>1, <3>3, <3>4, <1>0, <1>1 DEF TypeOK
  <2> QED BY <2>1, <2>2
<1>11. MapEndsChain'
  <2> SUFFICES ASSUME NEW j \in Keys, queues'[j] # NoCall
               PROVE  /\ KeyOf[queues'[j]] = j
                      /\ stage'[queues'[j]] \in ActiveStages
                      /\ \A d \in Active(j)' : d = queues'[j] \/ d \in ahead'[queues'[j]]
    BY DEF MapEndsChain
  <2>1. CASE j = k
    BY <2>1, <1>0, <1>1, <1>2 DEF TypeOK, ActiveStages
  <2>2. CASE j # k
    <3>1. queues'[j] = queues[j] /\ Active(j)' = Active(j)
      BY <2>2, <1>3
    <3>2. queues[j] \in Calls /\ queues[j] # c
      BY <3>1, <1>0 DEF IInv, MapEndsChain, ActiveStages, TypeOK
    <3> QED BY <3>1, <3>2, <1>0, <1>1 DEF IInv, MapEndsChain, TypeOK
  <2> QED BY <2>1, <2>2
<1>12. MapEmptyIdle'
  <2> SUFFICES ASSUME NEW j \in Keys, queues'[j] = NoCall PROVE Active(j)' = {}
    BY DEF MapEmptyIdle
  <2>1. j # k
    BY <1>0, <1>1 DEF TypeOK
  <2> QED BY <2>1, <1>3 DEF IInv, MapEmptyIdle
<1>13. Ordered'
  BY <1>0, <1>1 DEF IInv, Ordered, TypeOK, Active, ActiveStages
<1>14. FirstComeFirstServed'
  BY <1>0, <1>1, <1>4 DEF IInv, FirstComeFirstServed, TypeOK
<1> QED
  BY <1>6, <1>7, <1>8, <1>9, <1>10, <1>11, <1>12, <1>13, <1>14 DEF IInv

LEMMA EnterIInv ==
  ASSUME IInv, NEW c \in Calls, Enter(c) PROVE IInv'
<1> USE KeyOfAssumption, NoCallAssumption
<1>1. /\ stage[c] = "waiting" /\ Resolved(tail[c])
      /\ stage' = [stage EXCEPT ![c] = "inside"]
      /\ queues' = queues /\ tail' = tail /\ settled' = settled /\ ahead' = ahead
  BY DEF Enter
<1>2. TypeOK /\ TypeOK'
  BY <1>1 DEF IInv, TypeOK
<1>3. \A k \in Keys : Active(k)' = Active(k)
  BY <1>1, <1>2 DEF Active, TypeOK
<1>4. \A d \in ahead[c] : stage[d] = "left"
  BY <1>1, ResolvedTailMeansFirst
<1>5. SettledLeft' /\ AheadIsOlder' /\ TailIsOlder'
  BY <1>1, <1>2 DEF IInv, SettledLeft, AheadIsOlder, TailIsOlder, TypeOK
<1>6. Chain'
  BY <1>1, <1>2 DEF IInv, Chain, TypeOK, ActiveStages
<1>7. MapEndsChain' /\ MapEmptyIdle'
  BY <1>1, <1>2, <1>3 DEF IInv, MapEndsChain, MapEmptyIdle, TypeOK, ActiveStages
<1>8. Ordered'
  BY <1>1, <1>2 DEF IInv, Ordered, TypeOK, ActiveStages
<1>9. FirstComeFirstServed'
  BY <1>1, <1>2, <1>4 DEF IInv, FirstComeFirstServed, TypeOK
<1> QED BY <1>2, <1>5, <1>6, <1>7, <1>8, <1>9 DEF IInv

LEMMA LeaveIInv ==
  ASSUME IInv, NEW c \in Calls, Leave(c) PROVE IInv'
<1> USE KeyOfAssumption, NoCallAssumption
<1> DEFINE k == KeyOf[c]
<1>0. k \in Keys /\ TypeOK
  BY DEF IInv
<1>1. /\ stage[c] = "inside"
      /\ stage' = [stage EXCEPT ![c] = "left"]
      /\ queues' = [queues EXCEPT ![k] = IF queues[k] = c THEN NoCall ELSE queues[k]]
      /\ tail' = tail /\ settled' = settled /\ ahead' = ahead
  BY DEF Leave, Forget
<1>2. TypeOK'
  BY <1>0, <1>1 DEF TypeOK
<1>3. Active(k)' = Active(k) \ {c} /\ \A j \in Keys : j # k => Active(j)' = Active(j)
  BY <1>0, <1>1 DEF Active, TypeOK
<1>4. \A d \in ahead[c] : stage[d] = "left"
  BY <1>1 DEF IInv, FirstComeFirstServed
<1>5. SettledLeft' /\ AheadIsOlder' /\ TailIsOlder'
  BY <1>0, <1>1, <1>2 DEF IInv, SettledLeft, AheadIsOlder, TailIsOlder, TypeOK
<1>6. Chain'
  BY <1>0, <1>1, <1>2 DEF IInv, Chain, TypeOK, ActiveStages
<1>7. \A j \in Keys : queues'[j] # NoCall => queues'[j] = queues[j] /\ queues[j] # c
  <2> SUFFICES ASSUME NEW j \in Keys, queues'[j] # NoCall
               PROVE  queues'[j] = queues[j] /\ queues[j] # c
    OBVIOUS
  <2>1. CASE j = k
    BY <2>1, <1>0, <1>1 DEF TypeOK
  <2>2. CASE j # k
    BY <2>2, <1>0, <1>1 DEF IInv, MapEndsChain, TypeOK
  <2> QED BY <2>1, <2>2
<1>8. MapEndsChain'
  <2> SUFFICES ASSUME NEW j \in Keys, queues'[j] # NoCall
               PROVE  /\ KeyOf[queues'[j]] = j
                      /\ stage'[queues'[j]] \in ActiveStages
                      /\ \A d \in Active(j)' : d = queues'[j] \/ d \in ahead'[queues'[j]]
    BY DEF MapEndsChain
  <2>1. queues'[j] = queues[j] /\ queues[j] # c /\ queues[j] \in Calls
    BY <1>0, <1>7 DEF TypeOK
  <2>2. Active(j)' \subseteq Active(j)
    BY <1>3
  <2> QED BY <2>1, <2>2, <1>0, <1>1 DEF IInv, MapEndsChain, TypeOK
<1>9. MapEmptyIdle'
  <2> SUFFICES ASSUME NEW j \in Keys, queues'[j] = NoCall PROVE Active(j)' = {}
    BY DEF MapEmptyIdle
  <2>1. CASE queues[j] = NoCall
    BY <2>1, <1>3 DEF IInv, MapEmptyIdle
  <2>2. CASE queues[j] # NoCall
    <3>1. j = k /\ queues[k] = c
      BY <2>2, <1>0, <1>1 DEF TypeOK
    <3>2. \A d \in Active(k) : d = c \/ stage[d] = "left"
      BY <3>1, <1>4, <2>2 DEF IInv, MapEndsChain
    <3> QED BY <3>1, <3>2, <1>3 DEF Active
  <2> QED BY <2>1, <2>2
<1>10. Ordered'
  BY <1>0, <1>1, <1>2 DEF IInv, Ordered, TypeOK, ActiveStages
<1>11. FirstComeFirstServed'
  BY <1>0, <1>1, <1>2, <1>4 DEF IInv, FirstComeFirstServed, TypeOK
<1> QED BY <1>2, <1>5, <1>6, <1>8, <1>9, <1>10, <1>11 DEF IInv

LEMMA SettleIInv ==
  ASSUME IInv, NEW c \in Calls, Settle(c) PROVE IInv'
<1>1. /\ stage[c] = "left" /\ settled' = settled \cup {c}
      /\ stage' = stage /\ queues' = queues /\ tail' = tail /\ ahead' = ahead
  BY DEF Settle
<1>2. TypeOK' /\ SettledLeft'
  BY <1>1 DEF IInv, TypeOK, SettledLeft
<1>3. \A k \in Keys : Active(k)' = Active(k)
  BY <1>1 DEF Active
<1> QED
  BY <1>1, <1>2, <1>3
     DEF IInv, AheadIsOlder, TailIsOlder, Chain, MapEndsChain, MapEmptyIdle,
         Ordered, FirstComeFirstServed

LEMMA StutterIInv == ASSUME IInv, UNCHANGED vars PROVE IInv'
<1>1. /\ settled' = settled /\ stage' = stage /\ queues' = queues
      /\ tail' = tail /\ ahead' = ahead
  BY DEF vars
<1>2. \A k \in Keys : Active(k)' = Active(k)
  BY <1>1 DEF Active
<1> QED
  BY <1>1, <1>2
     DEF IInv, TypeOK, SettledLeft, AheadIsOlder, TailIsOlder, Chain, MapEndsChain,
         MapEmptyIdle, Ordered, FirstComeFirstServed

LEMMA NextIInv == IInv /\ [Next]_vars => IInv'
<1> SUFFICES ASSUME IInv, [Next]_vars PROVE IInv'
  OBVIOUS
<1>1. ASSUME NEW c \in Calls, Request(c) PROVE IInv'
  BY <1>1, RequestIInv
<1>2. ASSUME NEW c \in Calls, Enter(c) PROVE IInv'
  BY <1>2, EnterIInv
<1>3. ASSUME NEW c \in Calls, Leave(c) PROVE IInv'
  BY <1>3, LeaveIInv
<1>4. ASSUME NEW c \in Calls, Settle(c) PROVE IInv'
  BY <1>4, SettleIInv
<1>5. CASE UNCHANGED vars
  BY <1>5, StutterIInv
<1> QED BY <1>1, <1>2, <1>3, <1>4, <1>5 DEF Next, Step

LEMMA Invariance == Spec => []IInv
<1>1. Init => IInv
  BY InitIInv
<1>2. IInv /\ [Next]_vars => IInv'
  BY NextIInv
<1> QED BY <1>1, <1>2, PTL DEF Spec

-----------------------------------------------------------------------------

(* Every variable keeps its type: a call, a key's tail or none.            *)
THEOREM TypeCorrect == Spec => []TypeOK
<1>1. IInv => TypeOK
  BY DEF IInv
<1> QED BY <1>1, Invariance, PTL

(* No two calls on one tasks.yaml are ever inside fn together, whatever    *)
(* the number of callers and of files.                                     *)
THEOREM Exclusion == Spec => []MutualExclusion
<1>1. IInv => MutualExclusion
  BY DEF IInv, MutualExclusion, Ordered, FirstComeFirstServed, ActiveStages
<1> QED BY <1>1, Invariance, PTL

(* The section is granted in call order.                                   *)
THEOREM Order == Spec => []FirstComeFirstServed
<1>1. IInv => FirstComeFirstServed
  BY DEF IInv
<1> QED BY <1>1, Invariance, PTL

(* The map never forgets an active key and never keeps an idle one.        *)
THEOREM MapExact == Spec => []EntryIffActive
<1>1. IInv => EntryIffActive
  <2> SUFFICES ASSUME IInv, NEW k \in Keys PROVE queues[k] = NoCall <=> Active(k) = {}
    BY DEF EntryIffActive
  <2>1. ASSUME queues[k] # NoCall PROVE Active(k) # {}
    <3>1. queues[k] \in Calls
      BY <2>1 DEF IInv, TypeOK
    <3> QED BY <2>1, <3>1 DEF IInv, MapEndsChain, Active, ActiveStages
  <2> QED BY <2>1 DEF IInv, MapEmptyIdle
<1> QED BY <1>1, Invariance, PTL

(* Every step of the promise chain is a step of the exclusive section, or  *)
(* (a settling promise) leaves it unchanged.                               *)
THEOREM Refinement == Spec => Abstract!Spec
<1>1. Init => Abstract!Init
  BY DEF Init, Abstract!Init
<1>2. IInv /\ [Next]_vars => [Abstract!Next]_Abstract!vars
  <2> SUFFICES ASSUME IInv, [Next]_vars PROVE [Abstract!Next]_Abstract!vars
    OBVIOUS
  <2>1. ASSUME NEW c \in Calls, Request(c) PROVE Abstract!Next
    BY <2>1 DEF Request, Active, Abstract!Next, Abstract!Request, Abstract!Active
  <2>2. ASSUME NEW c \in Calls, Enter(c) PROVE Abstract!Next
    <3>1. \A d \in ahead[c] : stage[d] = "left"
      BY <2>2, ResolvedTailMeansFirst DEF Enter
    <3> QED BY <2>2, <3>1 DEF Enter, Abstract!Next, Abstract!Enter
  <2>3. ASSUME NEW c \in Calls, Leave(c) PROVE Abstract!Next
    BY <2>3 DEF Leave, Abstract!Next, Abstract!Leave
  <2>4. ASSUME NEW c \in Calls, Settle(c) PROVE UNCHANGED Abstract!vars
    BY <2>4 DEF Settle, Abstract!vars
  <2>5. CASE UNCHANGED vars
    BY <2>5 DEF vars, Abstract!vars
  <2> QED BY <2>1, <2>2, <2>3, <2>4, <2>5 DEF Next, Step
<1> QED BY <1>1, <1>2, Invariance, PTL DEF Spec, Abstract!Spec
=============================================================================
