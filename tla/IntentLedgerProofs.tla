------------------------- MODULE IntentLedgerProofs -------------------------
(***************************************************************************)
(* Proofs about IntentLedger, for any number of passes, attempts, openings *)
(* of the workspace and operators: verdicts stay, only what has been       *)
(* adopted becomes a requirement, no report of a completed task is         *)
(* forgotten, and every variable keeps its type.                           *)
(***************************************************************************)
EXTENDS IntentLedger, FiniteSetTheorems, TLAPS

RowStates == {"absent", "assumed", "observed"} \cup Verdicts
RowsTyped == rows \in [Decisions -> RowStates]

-----------------------------------------------------------------------------
(* What the rows of the ledger may become in a step.                       *)
Kept == UNCHANGED rows
Ingested == \E d \in Decisions : rows' = Upserted(d, Authority(d))
Judged == \E d \in Decisions, v \in Verdicts :
             Judgeable(d, v) /\ rows' = [rows EXCEPT ![d] = v]

\* Of the operators' actions only the two with a verdict change the rows.
LEMMA RowsStep == Next => Kept \/ Ingested \/ Judged
<1> SUFFICES ASSUME Next PROVE Kept \/ Ingested \/ Judged
  OBVIOUS
<1>1. CASE Complete \/ (\E f \in Files : WriteReport(f)) \/ Close \/ Open \/ Crash
  BY <1>1 DEF Complete, WriteReport, Close, Open, Crash, store, Kept
<1>2. ASSUME NEW p \in Passes, Pass(p) PROVE Kept \/ Ingested \/ Judged
  <2>1. CASE Track(p) \/ CountRows(p) \/ CountLinks(p) \/ Locate(p)
    BY <2>1 DEF Track, CountRows, CountLinks, Locate, store, Kept
  <2>2. CASE IngestDecisions(p) \/ IngestObservations(p)
    BY <2>2 DEF IngestDecisions, IngestObservations, StoreRow, StoringFails, Ingested,
                Decisions, Kept
  <2>3. CASE IngestLinks(p)
    BY <2>3 DEF IngestLinks, Kept
  <2> QED
    BY <1>2, <2>1, <2>2, <2>3 DEF Pass
<1>3. ASSUME NEW d \in Decisions, NEW v \in Verdicts, Judge(d, v) PROVE Judged
  BY <1>3 DEF Judge, Judged
<1>4. ASSUME NEW u \in Users, NEW d \in Decisions, Adopt(u, d) PROVE Judged
  BY <1>4 DEF Adopt, Judged, Verdicts
<1>5. ASSUME NEW u \in Users,
             ReadRequirements(u) \/ WriteRequirements(u) \/ LinkRequirement(u)
      PROVE  Kept
  BY <1>5 DEF ReadRequirements, WriteRequirements, LinkRequirement, Kept
<1> QED
  BY <1>1, <1>2, <1>3, <1>4, <1>5 DEF Next

LEMMA RowsTypedStep == RowsTyped /\ [Next]_vars => RowsTyped'
<1> SUFFICES ASSUME RowsTyped, Next PROVE RowsTyped'
  BY DEF RowsTyped, vars
<1> USE DEF RowsTyped, RowStates
<1>1. CASE Kept
  BY <1>1 DEF Kept
<1>2. CASE Ingested
  BY <1>2 DEF Ingested, Upserted, Authority
<1>3. CASE Judged
  BY <1>3 DEF Judged
<1> QED
  BY <1>1, <1>2, <1>3, RowsStep

LEMMA LockedStep ==
    ASSUME RowsTyped, [Next]_vars, NEW d \in Decisions, rows[d] \in Verdicts
    PROVE  rows'[d] = rows[d]
<1>1. CASE Kept \/ UNCHANGED vars
  BY <1>1 DEF Kept, vars
<1>2. CASE Ingested
  BY <1>2 DEF Ingested, Upserted, RowsTyped
<1>3. CASE Judged
  BY <1>3 DEF Judged, Judgeable, RowsTyped, Verdicts
<1> QED
  BY <1>1, <1>2, <1>3, RowsStep

(* A verdict is locked, for any number of passes that ingest the reports    *)
(* again and of verdicts that are under way.                               *)
THEOREM VerdictsStay == Spec => VerdictIsLocked
<1>1. Init => RowsTyped
  BY DEF Init, RowsTyped, RowStates
<1>2. RowsTyped /\ [Next]_vars => [\A d \in Decisions : rows[d] \in Verdicts => rows'[d] = rows[d]]_rows
  BY LockedStep
<1> QED
  BY <1>1, <1>2, RowsTypedStep, PTL DEF Spec, VerdictIsLocked

-----------------------------------------------------------------------------
(* Adoptions.  A block comes from an adoption, a decision is adopted once, *)
(* and its adoption is in one place until it has been written: no list of  *)
(* blocks, of the file or read from it, has it before.                     *)
Promoting(u) == user[u].pc \in {"promote", "write"}

Sound(bs) ==
    /\ \A b \in bs : b.of \in Decisions /\ rows[b.of] = "adopt"
    /\ \A b \in bs, k \in bs : k.of = b.of => k = b
    /\ \A b \in bs, u \in Users : Promoting(u) => user[u].of # b.of

UsersShaped ==
    /\ user = [u \in Users |-> user[u]]
    /\ \A u \in Users : user[u] \in [pc : {"idle", "promote", "write", "link"}, of : Decisions,
                                     seen : {user[u].seen}, id : {user[u].id}]

AdoptionsSound ==
    /\ UsersShaped
    /\ \A u \in Users : user[u].pc # "idle" => rows[user[u].of] = "adopt"
    /\ \A u, v \in Users :
         user[u].pc # "idle" /\ user[v].pc # "idle" /\ user[u].of = user[v].of => u = v
    /\ Sound(blocks)
    /\ \A u \in Users : user[u].pc = "write" => Sound(user[u].seen)
    /\ promoted = [d \in Decisions |-> promoted[d]]
    /\ \A d \in Decisions : promoted[d] # 0 => rows[d] = "adopt"

LEMMA InitAdoptions == Init => AdoptionsSound
  BY DEF Init, AdoptionsSound, UsersShaped, Sound, Idle, Decisions

\* Steps that are none of an adoption's; rows that are adopted stay so.
LEMMA OtherSteps ==
    ASSUME AdoptionsSound, RowsTyped, [Next]_vars, UNCHANGED <<user, blocks, promoted>>
    PROVE  AdoptionsSound'
<1>1. \A d \in Decisions : rows[d] = "adopt" => rows'[d] = "adopt"
  BY LockedStep DEF Verdicts
<1> QED
  BY <1>1 DEF AdoptionsSound, UsersShaped, Sound, Promoting

LEMMA AdoptStep ==
    ASSUME AdoptionsSound, RowsTyped, NEW u \in Users, NEW d \in Decisions, Adopt(u, d)
    PROVE  AdoptionsSound'
<1> USE DEF AdoptionsSound, RowsTyped
<1>1. rows[d] # "adopt" /\ rows' = [rows EXCEPT ![d] = "adopt"]
  BY DEF Adopt, Judgeable
<1>2. user' = [user EXCEPT ![u] = [Idle EXCEPT !.pc = "promote", !.of = d]]
      /\ UNCHANGED <<blocks, promoted>> /\ user[u].pc = "idle"
  BY DEF Adopt
<1>3. UsersShaped' /\ user'[u].pc = "promote" /\ user'[u].of = d
      /\ \A v \in Users \ {u} : user'[v] = user[v]
  BY <1>2 DEF UsersShaped, Idle
<1>4. \A v \in Users : user'[v].pc # "idle" => rows'[user'[v].of] = "adopt"
  BY <1>1, <1>3 DEF UsersShaped
<1>5. \A v \in Users : user[v].pc # "idle" => user[v].of # d
  BY <1>1
<1>6. \A v, w \in Users :
         user'[v].pc # "idle" /\ user'[w].pc # "idle" /\ user'[v].of = user'[w].of => v = w
  BY <1>3, <1>5
<1>7. Sound(blocks)'
  BY <1>1, <1>2, <1>3 DEF Sound, Promoting
<1>8. \A v \in Users : user'[v].pc = "write" => Sound(user[v].seen)' /\ user'[v].seen = user[v].seen
  BY <1>1, <1>3 DEF Sound, Promoting
<1> QED
  BY <1>1, <1>2, <1>3, <1>4, <1>6, <1>7, <1>8 DEF Sound, Promoting

\* An adoption that ends, promoted or not.
LEMMA EndStep ==
    ASSUME AdoptionsSound, NEW u \in Users, UNCHANGED <<rows, blocks>>,
           user' = [user EXCEPT ![u] = Idle],
           promoted' = [d \in Decisions |-> promoted'[d]],
           \A d \in Decisions : promoted'[d] # 0 => rows[d] = "adopt"
    PROVE  AdoptionsSound'
<1> USE DEF AdoptionsSound
<1>1. UsersShaped' /\ user'[u].pc = "idle" /\ \A v \in Users \ {u} : user'[v] = user[v]
  BY DEF UsersShaped, Idle, Decisions
<1>2. Sound(blocks)'
  BY <1>1 DEF Sound, Promoting
<1>3. (\A v \in Users : user[v].pc = "write" => Sound(user[v].seen))'
  BY <1>1 DEF Sound, Promoting
<1> QED
  BY <1>1, <1>2, <1>3

LEMMA ReadStep ==
    ASSUME AdoptionsSound, NEW u \in Users, ReadRequirements(u)
    PROVE  AdoptionsSound'
<1> USE DEF AdoptionsSound
<1>1. UNCHANGED <<rows, blocks, promoted>> /\ user[u].pc = "promote"
  BY DEF ReadRequirements
<1>2. ASSUME NEW read \in {blocks, {}},
             user' = [user EXCEPT ![u].pc = "write", ![u].seen = read]
      PROVE  AdoptionsSound'
  <2>1. /\ UsersShaped'
        /\ user'[u].pc = "write" /\ user'[u].of = user[u].of /\ user'[u].seen = read
        /\ \A v \in Users \ {u} : user'[v] = user[v]
    BY <1>2 DEF UsersShaped
  <2>2. \A v \in Users : user'[v].of = user[v].of /\ (Promoting(v)' => Promoting(v))
    BY <1>1, <2>1 DEF Promoting
  <2>3. Sound(blocks)'
    BY <1>1, <2>2 DEF Sound
  <2>4. (\A v \in Users : user[v].pc = "write" => Sound(user[v].seen))'
    BY <1>1, <2>1, <2>2, <2>3 DEF Sound
  <2> QED
    BY <1>1, <2>1, <2>3, <2>4
<1>3. CASE user' = [user EXCEPT ![u] = Idle]
  BY <1>1, <1>3, EndStep
<1> QED
  BY <1>2, <1>3 DEF ReadRequirements

LEMMA WriteStep ==
    ASSUME AdoptionsSound, NEW u \in Users, WriteRequirements(u)
    PROVE  AdoptionsSound'
<1> USE DEF AdoptionsSound, UsersShaped
<1>1. UNCHANGED <<rows, promoted>> /\ user[u].pc = "write"
  BY DEF WriteRequirements
<1>2. ASSUME NEW new,
             blocks' = user[u].seen \cup {[id |-> new, of |-> user[u].of]},
             user' = [user EXCEPT ![u].pc = "link", ![u].id = new, ![u].seen = {}]
      PROVE  AdoptionsSound'
  <2>1. UsersShaped' /\ user'[u].pc = "link" /\ user'[u].of = user[u].of
        /\ \A v \in Users \ {u} : user'[v] = user[v]
    <3>1. \A v \in Users \ {u} : user'[v] = user[v]
      BY <1>2
    <3>2. user'[u] = [user[u] EXCEPT !.pc = "link", !.id = new, !.seen = {}]
      BY <1>2
    <3>3. user'[u] \in [pc : {"idle", "promote", "write", "link"}, of : Decisions,
                        seen : {user'[u].seen}, id : {user'[u].id}]
      BY <3>2
    <3>4. user'[u].pc = "link" /\ user'[u].of = user[u].of
      BY <3>2
    <3>5. user' = [v \in Users |-> user'[v]]
      BY <1>2
    <3> QED
      BY <3>1, <3>3, <3>4, <3>5
  <2>2. Sound(user[u].seen) /\ \A b \in user[u].seen : b.of # user[u].of
    BY <1>1 DEF Sound, Promoting
  <2>3. \A v \in Users : user'[v].pc \in {"promote", "write"} => v # u /\ user[v].of # user[u].of
    BY <1>1, <2>1
  <2>4. Sound(blocks)'
    BY <1>1, <1>2, <2>1, <2>2, <2>3 DEF Sound, Promoting
  <2>5. \A v \in Users : user'[v].pc = "write" => Sound(user[v].seen)' /\ user'[v].seen = user[v].seen
    BY <1>1, <2>1 DEF Sound, Promoting
  <2> QED
    BY <1>1, <2>1, <2>4, <2>5 DEF Sound, Promoting
<1>3. CASE user' = [user EXCEPT ![u] = Idle] /\ UNCHANGED blocks
  BY <1>1, <1>3, EndStep
<1> QED
  BY <1>2, <1>3 DEF WriteRequirements

LEMMA LinkStep ==
    ASSUME AdoptionsSound, NEW u \in Users, LinkRequirement(u)
    PROVE  AdoptionsSound'
<1> USE DEF AdoptionsSound, UsersShaped
<1>1. UNCHANGED <<rows, blocks>> /\ user' = [user EXCEPT ![u] = Idle]
  BY DEF LinkRequirement
<1>2. promoted' = [d \in Decisions |-> promoted'[d]]
      /\ \A d \in Decisions : promoted'[d] # 0 => rows[d] = "adopt"
  BY DEF LinkRequirement
<1> QED
  BY <1>1, <1>2, EndStep

LEMMA CrashStep ==
    ASSUME AdoptionsSound, Crash
    PROVE  AdoptionsSound'
  BY DEF AdoptionsSound, UsersShaped, Sound, Promoting, Crash, Idle, Decisions

LEMMA AdoptionsStep == AdoptionsSound /\ RowsTyped /\ [Next]_vars => AdoptionsSound'
<1> SUFFICES ASSUME AdoptionsSound, RowsTyped, [Next]_vars PROVE AdoptionsSound'
  OBVIOUS
<1>1. CASE UNCHANGED <<user, blocks, promoted>>
  BY <1>1, OtherSteps
<1>2. CASE Complete \/ (\E f \in Files : WriteReport(f)) \/ Close \/ Open \/ UNCHANGED vars
  BY <1>1, <1>2 DEF Complete, WriteReport, Close, Open, store, vars
<1>3. ASSUME NEW p \in Passes, Pass(p) PROVE AdoptionsSound'
  BY <1>1, <1>3 DEF Pass, Track, CountRows, CountLinks, Locate, IngestDecisions,
                    IngestObservations, IngestLinks, store
<1>4. ASSUME NEW d \in Decisions, NEW v \in Verdicts, Judge(d, v) PROVE AdoptionsSound'
  BY <1>1, <1>4 DEF Judge
<1>5. ASSUME NEW u \in Users, NEW d \in Decisions, Adopt(u, d) PROVE AdoptionsSound'
  BY <1>5, AdoptStep
<1>6. ASSUME NEW u \in Users,
             ReadRequirements(u) \/ WriteRequirements(u) \/ LinkRequirement(u)
      PROVE  AdoptionsSound'
  BY <1>6, ReadStep, WriteStep, LinkStep
<1>7. CASE Crash
  BY <1>7, CrashStep
<1> QED
  BY <1>2, <1>3, <1>4, <1>5, <1>6, <1>7 DEF Next

(* Only an adopted decision becomes a requirement, and only once, for any  *)
(* number of operators, whose adoptions overlap and overwrite each other.  *)
THEOREM AdoptedOnce == Spec => []RequirementsAreAdopted
<1>1. AdoptionsSound => RequirementsAreAdopted
  BY DEF AdoptionsSound, Sound, RequirementsAreAdopted
<1>2. Init => RowsTyped
  BY DEF Init, RowsTyped, RowStates
<1> QED
  BY <1>1, <1>2, InitAdoptions, RowsTypedStep, AdoptionsStep, PTL DEF Spec

-----------------------------------------------------------------------------
(* Types.                                                                  *)

PassShape == [pc : Pcs, on : {0} \cup Passes, got : {"nothing", "unreadable", "rows"}, old : BOOLEAN]
UserShape == [pc : {"idle", "promote", "write", "link"}, of : Decisions, seen : SUBSET Block,
              id : 0..Cardinality(Decisions)]

ReportsTyped == report \in [Files -> {"none", "torn", "whole"}]

(* What the passes work with.                                              *)
TrackerTyped ==
    /\ open \in BOOLEAN
    /\ prev \in Statuses \cup {None}
    /\ pending \in {0} \cup Passes
    /\ entry \in [Passes -> [Channels -> Channel]]
    /\ pass \in [Passes -> PassShape]
    /\ through \subseteq Channels

LEMMA TwoDecisions == Cardinality(Decisions) = 2
<1>1. Decisions = {"decision"} \cup {"observation"} /\ "observation" \notin {"decision"}
  BY DEF Decisions
<1>2. IsFiniteSet({"decision"}) /\ Cardinality({"decision"}) = 1
  BY FS_Singleton
<1> QED
  BY <1>1, <1>2, FS_AddElement

LEMMA AttemptedTyped ==
    ASSUME NEW channel \in Channel, NEW outcome
    PROVE  /\ Attempted(channel, outcome) \in Channel
           /\ Attempted(channel, outcome).open \/ ~channel.open \/ Final(channel, outcome)
                \/ ~(outcome \in Unresolved \cup {"ok", "persist_failed", "no_context_snapshot",
                                                  "missing_report", "invalid_report"})
<1> USE BoundsAssumption
<1>1. Closed \in Channel /\ ~Closed.open
  BY DEF Closed, Channel
<1>2. CASE channel.open /\ Retriable(outcome) /\ channel.tries + 1 < MaxAttempts
  BY <1>2 DEF Attempted, Channel
<1>3. CASE ~(channel.open /\ Retriable(outcome) /\ channel.tries + 1 < MaxAttempts)
  <2>1. Attempted(channel, outcome) = Closed
    BY <1>3 DEF Attempted
  <2> QED
    BY <1>1, <1>3, <2>1 DEF Final, Retriable, Unresolved, Channel
<1> QED
  BY <1>2, <1>3

LEMMA FreshTyped == Fresh \in Channel /\ Closed \in Channel /\ Fresh.open /\ ~Closed.open
  BY BoundsAssumption DEF Fresh, Closed, Channel

-----------------------------------------------------------------------------
(* No report is forgotten.  An entry o is accounted for if each of its     *)
(* channels is open or one that this session is through with.              *)

AccountedFor(o) == \A c \in Channels : entry[o][c].open \/ c \in through
AllThrough == \A c \in Channels : c \in through

\* A pass of this session that works on an entry.
Works(p) == Running(p) /\ ~pass[p].old /\ pass[p].on # 0

HasItsEntry(l) ==
    /\ l.pc \in {"locate", "decisions", "observations", "links"} => l.on # 0
    /\ l.pc \in {"idle", "count", "countLinks"} => l.on = 0
    /\ l.pc = "idle" => ~l.old

NothingForgotten ==
    /\ TrackerTyped
    /\ pending # 0 => AccountedFor(pending)
    /\ \A p \in Passes : Works(p) => AccountedFor(pass[p].on)
    \* An entry leaves the map when all is done, though passes work on others.
    /\ pending = 0 /\ (prev = "completed" \/ \E p \in Passes : Works(p)) => AllThrough
    /\ \A p \in Passes : HasItsEntry(pass[p])
    /\ \A p \in Passes : pass[p].pc = "countLinks" /\ ~pass[p].old =>
         entry[p]["ledger"].open \/ "ledger" \in through
    /\ ~open => \A p \in Passes : Running(p) => pass[p].old

LEMMA InitForgotten == Init => NothingForgotten
<1> SUFFICES ASSUME Init PROVE NothingForgotten
  OBVIOUS
<1>1. entry \in [Passes -> [Channels -> Channel]]
  BY FreshTyped DEF Init, NoEntry
<1>2. pass \in [Passes -> PassShape]
  BY DEF Init, NoPass, PassShape, Pcs
<1>3. \A p \in Passes : pass[p].pc = "idle"
  BY DEF Init, NoPass
<1> QED
  BY <1>1, <1>2, <1>3, NoneAssumption DEF Init, NothingForgotten, TrackerTyped, Works, Running, NoPass,
                                             HasItsEntry

\* Whatever a pass p does to its own locals, the other passes work on.
LEMMA OthersWorkOn ==
    ASSUME NothingForgotten, NEW p \in Passes, NEW l \in PassShape, pass' = [pass EXCEPT ![p] = l]
    PROVE  /\ pass' \in [Passes -> PassShape] /\ pass'[p] = l
           /\ \A q \in Passes \ {p} : pass'[q] = pass[q] /\ Running(q)' = Running(q)
                                      /\ Works(q)' = Works(q)
  BY DEF NothingForgotten, TrackerTyped, Running, Works

\* The start on entry o; the entries and what is through are settled already.
LEMMA TryStep ==
    ASSUME NothingForgotten, NEW p \in Passes, NEW o \in Passes, Try(p, o, entry'[o]),
           entry' \in [Passes -> [Channels -> Channel]],
           \A q \in Passes \ {p} : entry'[q] = entry[q],
           through \subseteq through', through' \subseteq Channels,
           \A q \in Passes : AccountedFor(q) => AccountedFor(q)',
           AccountedFor(o)',
           pass[p].old => AllThrough',
           open \/ pass[p].old, UNCHANGED open
    PROVE  NothingForgotten'
<1> USE DEF NothingForgotten, TrackerTyped
<1>1. PICK l : /\ pass' = [pass EXCEPT ![p] = l]
               /\ \/ l = [pass[p] EXCEPT !.pc = "locate", !.on = o] /\ pending' = o /\ UNCHANGED prev
                  \/ l = [pass[p] EXCEPT !.pc = "links", !.on = o] /\ pending' = o /\ UNCHANGED prev
                  \/ l = Over /\ prev' = "completed" /\ pending' \in {0, o}
                     /\ (pending' = 0 => pass[p].old)
  <2>1. CASE pass' = [pass EXCEPT ![p].pc = "locate", ![p].on = o] /\ pending' = o /\ UNCHANGED prev
    <3>1. pass' = [pass EXCEPT ![p] = [pass[p] EXCEPT !.pc = "locate", !.on = o]]
      BY <2>1
    <3> QED
      BY <2>1, <3>1
  <2>2. CASE pass' = [pass EXCEPT ![p].pc = "links", ![p].on = o] /\ pending' = o /\ UNCHANGED prev
    <3>1. pass' = [pass EXCEPT ![p] = [pass[p] EXCEPT !.pc = "links", !.on = o]]
      BY <2>2
    <3> QED
      BY <2>2, <3>1
  <2>3. CASE Remember(p, "completed") /\ (pending' = o \/ (~open /\ pending' = 0))
    <3>1. pass' = [pass EXCEPT ![p] = Over] /\ prev' = "completed" /\ pending' \in {0, o}
          /\ (pending' = 0 => pass[p].old)
      BY <2>3 DEF Remember, Passes
    <3> QED
      BY <3>1
  <2> QED
    BY <2>1, <2>2, <2>3 DEF Try
<1>2. pass[p] \in PassShape /\ pass[p].old \in BOOLEAN
  BY DEF PassShape
<1>3. /\ l \in PassShape /\ l.pc \in {"locate", "links", "done"}
      /\ l.pc # "done" => l.on = o /\ l.old = pass[p].old
  <2>1. CASE l = [pass[p] EXCEPT !.pc = "locate", !.on = o]
    BY <1>2, <2>1 DEF PassShape, Pcs
  <2>2. CASE l = [pass[p] EXCEPT !.pc = "links", !.on = o]
    BY <1>2, <2>2 DEF PassShape, Pcs
  <2>3. CASE l = Over
    BY <2>3 DEF PassShape, Over, NoPass, Pcs
  <2> QED
    BY <1>1, <2>1, <2>2, <2>3
<1>4. /\ pass' \in [Passes -> PassShape] /\ pass'[p] = l
      /\ \A q \in Passes \ {p} : pass'[q] = pass[q] /\ Running(q)' = Running(q) /\ Works(q)' = Works(q)
  BY <1>1, <1>3, OthersWorkOn
<1>5. TrackerTyped'
  BY <1>1, <1>4 DEF Statuses
<1>6. (pending # 0 => AccountedFor(pending))'
  BY <1>1
<1>7. (\A q \in Passes : Works(q) => AccountedFor(pass[q].on))'
  <2> SUFFICES ASSUME NEW q \in Passes, Works(q)' PROVE AccountedFor(pass[q].on)'
    OBVIOUS
  <2>1. CASE q = p
    <3>1. pass'[q].on = o
      BY <1>3, <1>4, <2>1 DEF Works, Running
    <3> QED
      BY <3>1 DEF AccountedFor
  <2>2. CASE q # p
    <3>1. AccountedFor(pass[q].on) /\ pass[q].on \in Passes /\ pass'[q] = pass[q]
      BY <1>4, <2>2 DEF PassShape, Works
    <3> QED
      BY <3>1 DEF AccountedFor
  <2> QED
    BY <2>1, <2>2
<1>8. (pending = 0 /\ (prev = "completed" \/ \E q \in Passes : Works(q)) => AllThrough)'
  <2>1. CASE pass[p].old
    BY <2>1
  <2>2. CASE ~pass[p].old
    <3>1. pending' = o /\ o # 0
      BY <1>1, <2>2 DEF Passes
    <3> QED
      BY <3>1
  <2> QED
    BY <2>1, <2>2
<1>9. (\A q \in Passes : HasItsEntry(pass[q]))'
  BY <1>3, <1>4 DEF Passes, HasItsEntry
<1>10. (\A q \in Passes : pass[q].pc = "countLinks" /\ ~pass[q].old =>
          entry[q]["ledger"].open \/ "ledger" \in through)'
  BY <1>3, <1>4
<1>11. (~open => \A q \in Passes : Running(q) => pass[q].old)'
  BY <1>3, <1>4 DEF Running
<1> QED
  BY <1>5, <1>6, <1>7, <1>8, <1>9, <1>10, <1>11

\* The outcomes that a channel can have.
Outcomes == Unresolved \cup {"ok", "persist_failed", "no_context_snapshot", "missing_report",
                             "invalid_report"}

LEMMA SettleStep ==
    ASSUME NothingForgotten, NEW p \in Passes, NEW c \in Channels, NEW outcome \in Outcomes,
           Settle(p, c, outcome), pass[p].pc \in {"locate", "decisions", "observations", "links"},
           UNCHANGED open
    PROVE  NothingForgotten'
<1> USE DEF NothingForgotten, TrackerTyped
<1>1. PICK o \in Passes : o = pass[p].on /\ o # 0
  BY DEF PassShape, HasItsEntry, Passes
<1> DEFINE after == [entry[o] EXCEPT ![c] = Attempted(@, outcome)]
           final == IF Final(entry[o][c], outcome) THEN {c} ELSE {}
<1>2. /\ pass[p] \in PassShape /\ Running(p)
      /\ entry' = [entry EXCEPT ![o] = after]
      /\ through' = through \cup (IF pass[p].old THEN Channels ELSE final)
      /\ \/ pass' = [pass EXCEPT ![p] = [pass[p] EXCEPT !.pc = "links"]] /\ UNCHANGED <<prev, pending>>
         \/ pass' = [pass EXCEPT ![p] = Over] /\ prev' = "completed" /\ pending' = Dropped(after)
  <2>1. pass[p] \in PassShape /\ Running(p)
    BY DEF Running
  <2>2. At(p, "links") => pass' = [pass EXCEPT ![p] = [pass[p] EXCEPT !.pc = "links"]]
    BY DEF At
  <2> QED
    BY <1>1, <2>1, <2>2 DEF Settle, Through, Remember
<1>3. entry[o] \in [Channels -> Channel] /\ entry[o][c] \in Channel
  BY <1>1
<1>4. /\ after \in [Channels -> Channel]
      /\ after[c].open \/ ~entry[o][c].open \/ Final(entry[o][c], outcome)
      /\ \A k \in Channels \ {c} : after[k] = entry[o][k]
  BY <1>3, AttemptedTyped DEF Outcomes
<1>5. PICK l : /\ pass' = [pass EXCEPT ![p] = l]
               /\ \/ l = [pass[p] EXCEPT !.pc = "links"] /\ UNCHANGED <<prev, pending>>
                  \/ l = Over /\ prev' = "completed" /\ pending' = Dropped(after)
  BY <1>2
<1> HIDE DEF after, final
<1>6. /\ entry' \in [Passes -> [Channels -> Channel]] /\ entry'[o] = after
      /\ \A q \in Passes \ {o} : entry'[q] = entry[q]
  BY <1>1, <1>2, <1>4
<1>7. through \subseteq through' /\ through' \subseteq Channels /\ (pass[p].old => AllThrough')
  BY <1>2 DEF AllThrough, final
<1>8. Final(entry[o][c], outcome) => c \in through'
  BY <1>2, <1>7 DEF final, AllThrough
<1>9. ASSUME NEW q \in Passes, AccountedFor(q) PROVE AccountedFor(q)'
  BY <1>4, <1>6, <1>7, <1>8, <1>9 DEF AccountedFor
<1>10. /\ l \in PassShape /\ l.pc \in {"links", "done"}
       /\ l.pc = "links" => l.on = o /\ l.old = pass[p].old
  BY <1>1, <1>2, <1>5 DEF PassShape, Over, NoPass, Pcs
<1>11. /\ pass' \in [Passes -> PassShape] /\ pass'[p] = l
       /\ \A q \in Passes \ {p} : pass'[q] = pass[q] /\ Running(q)' = Running(q) /\ Works(q)' = Works(q)
  BY <1>5, <1>10, OthersWorkOn
<1>12. pending' \in {0, pending}
  BY <1>5 DEF Dropped
<1>13. ~pass[p].old => AccountedFor(o)'
  BY <1>1, <1>2, <1>9 DEF Works
<1>14. \A q \in Passes : Works(q)' => Works(q) /\ pass'[q].on = pass[q].on
  BY <1>1, <1>2, <1>10, <1>11 DEF Works, Running
<1>15. TrackerTyped'
  BY <1>5, <1>6, <1>7, <1>11, <1>12 DEF Statuses
<1>16. (pending # 0 => AccountedFor(pending))'
  <2> SUFFICES ASSUME pending' # 0 PROVE AccountedFor(pending)'
    OBVIOUS
  <2>1. AccountedFor(pending) /\ pending \in Passes /\ pending' = pending
    BY <1>12
  <2> QED
    BY <1>9, <2>1 DEF AccountedFor
<1>17. (\A q \in Passes : Works(q) => AccountedFor(pass[q].on))'
  <2> SUFFICES ASSUME NEW q \in Passes, Works(q)' PROVE AccountedFor(pass[q].on)'
    OBVIOUS
  <2>1. AccountedFor(pass[q].on) /\ pass[q].on \in Passes /\ pass'[q].on = pass[q].on
    BY <1>14 DEF PassShape, Works
  <2> QED
    BY <1>9, <2>1 DEF AccountedFor
<1>18. (pending = 0 /\ (prev = "completed" \/ \E q \in Passes : Works(q)) => AllThrough)'
  <2> SUFFICES ASSUME pending' = 0, ~pass[p].old PROVE AllThrough'
    BY <1>7
  <2>1. CASE pending = 0
    <3>1. AllThrough
      BY <1>1, <1>2, <2>1 DEF Works
    <3> QED
      BY <1>7, <3>1 DEF AllThrough
  <2>2. CASE pending # 0
    <3>1. ~SomeOpen(after)
      BY <1>5, <2>2 DEF Dropped
    <3> QED
      BY <1>6, <1>13, <3>1 DEF SomeOpen, AccountedFor, AllThrough
  <2> QED
    BY <2>1, <2>2
<1>19. (\A q \in Passes : HasItsEntry(pass[q]))'
  BY <1>1, <1>10, <1>11 DEF Passes, HasItsEntry
<1>20. (\A q \in Passes : pass[q].pc = "countLinks" /\ ~pass[q].old =>
          entry[q]["ledger"].open \/ "ledger" \in through)'
  <2> SUFFICES ASSUME NEW q \in Passes, pass'[q].pc = "countLinks", ~pass'[q].old
               PROVE  entry'[q]["ledger"].open \/ "ledger" \in through'
    OBVIOUS
  <2>1. q # p /\ (entry[q]["ledger"].open \/ "ledger" \in through)
    BY <1>10, <1>11
  <2> QED
    BY <1>4, <1>6, <1>7, <1>8, <2>1 DEF Channels
<1>21. (~open => \A q \in Passes : Running(q) => pass[q].old)'
  BY <1>1, <1>2, <1>10, <1>11 DEF Running
<1> QED
  BY <1>15, <1>16, <1>17, <1>18, <1>19, <1>20, <1>21

\* Steps that leave the entries alone.
LEMMA MoveStep ==
    ASSUME NothingForgotten, NEW p \in Passes, NEW l \in PassShape, pass' = [pass EXCEPT ![p] = l],
           UNCHANGED <<open, entry>>, through \subseteq through', through' \subseteq Channels,
           pending' = pending \/ (pending' = 0 /\ AllThrough'),
           prev' \in Statuses \cup {None},
           prev' = "completed" => prev = "completed" \/ pending # 0 \/ AllThrough',
           HasItsEntry(l), l.pc # "countLinks",
           l.pc \notin {"idle", "done"} => l.old \/ open,
           l.pc \notin {"idle", "done"} /\ ~l.old /\ l.on # 0 => Works(p) /\ l.on = pass[p].on
    PROVE  NothingForgotten'
<1> USE DEF NothingForgotten, TrackerTyped
<1>1. /\ pass' \in [Passes -> PassShape] /\ pass'[p] = l
      /\ \A q \in Passes \ {p} : pass'[q] = pass[q] /\ Running(q)' = Running(q) /\ Works(q)' = Works(q)
  BY OthersWorkOn
<1>2. \A q \in Passes : Works(q)' => Works(q) /\ pass'[q].on = pass[q].on /\ pass[q].on \in Passes
  BY <1>1 DEF Works, Running, PassShape
<1>3. TrackerTyped'
  BY <1>1
<1>4. (pending # 0 => AccountedFor(pending))'
  BY DEF AccountedFor
<1>5. (\A q \in Passes : Works(q) => AccountedFor(pass[q].on))'
  BY <1>2 DEF AccountedFor
<1>6. (pending = 0 /\ (prev = "completed" \/ \E q \in Passes : Works(q)) => AllThrough)'
  BY <1>2 DEF AllThrough
<1>7. (\A q \in Passes : HasItsEntry(pass[q]))'
  BY <1>1 DEF HasItsEntry
<1>8. (\A q \in Passes : pass[q].pc = "countLinks" /\ ~pass[q].old =>
          entry[q]["ledger"].open \/ "ledger" \in through)'
  BY <1>1
<1>9. (~open => \A q \in Passes : Running(q) => pass[q].old)'
  BY <1>1 DEF Running
<1> QED
  BY <1>3, <1>4, <1>5, <1>6, <1>7, <1>8, <1>9

LEMMA TrackStep ==
    ASSUME NothingForgotten, NEW p \in Passes, Track(p)
    PROVE  NothingForgotten'
<1> USE DEF NothingForgotten, TrackerTyped
<1>1. /\ open /\ UNCHANGED open /\ pass[p] \in PassShape
      /\ pass[p].pc = "idle" /\ pass[p].on = 0 /\ ~pass[p].old
  BY DEF Track, HasItsEntry
<1>2. Over \in PassShape /\ Over.pc = "done" /\ HasItsEntry(Over)
  BY DEF Over, NoPass, PassShape, Pcs, HasItsEntry
<1>3. ASSUME NEW cs \in SUBSET Channels, Through(p, cs) PROVE through' = through \cup cs
  BY <1>1, <1>3 DEF Through
<1>4. CASE /\ pending' = 0
           /\ Through(p, IF pending # 0 THEN Channels ELSE {})
           /\ At(p, "done")
           /\ UNCHANGED <<prev, entry>>
  <2>1. PICK l : l = [pass[p] EXCEPT !.pc = "done"]
    OBVIOUS
  <2>2. /\ l \in PassShape /\ l.pc = "done" /\ pass' = [pass EXCEPT ![p] = l] /\ HasItsEntry(l)
    BY <1>1, <1>4, <2>1 DEF PassShape, Pcs, At, HasItsEntry
  <2>3. /\ through \subseteq through' /\ through' \subseteq Channels
        /\ pending = 0 \/ AllThrough'
    BY <1>3, <1>4 DEF AllThrough
  <2> QED
    BY <1>1, <1>4, <2>2, <2>3, MoveStep
<1>5. CASE Remember(p, "active") /\ UNCHANGED <<pending, entry, through>>
  BY <1>1, <1>2, <1>5, MoveStep DEF Remember, Statuses
<1>6. CASE /\ entry' = [entry EXCEPT ![p] = [c \in Channels |-> Fresh]]
           /\ Try(p, p, entry'[p])
           /\ Through(p, {})
  <2>1. [c \in Channels |-> Fresh] \in [Channels -> Channel]
    BY FreshTyped
  <2>2. /\ entry' \in [Passes -> [Channels -> Channel]]
        /\ \A q \in Passes \ {p} : entry'[q] = entry[q]
        /\ \A c \in Channels : entry'[p][c].open
    BY <1>6, <2>1, FreshTyped
  <2>3. through' = through
    BY <1>1, <1>6 DEF Through
  <2>4. AccountedFor(p)' /\ \A q \in Passes : AccountedFor(q) => AccountedFor(q)'
    BY <2>2, <2>3 DEF AccountedFor
  <2> QED
    BY <1>1, <1>6, <2>2, <2>3, <2>4, TryStep
<1>7. CASE At(p, "count") /\ UNCHANGED tracker
  <2>1. PICK l : l = [pass[p] EXCEPT !.pc = "count"]
    OBVIOUS
  <2>2. /\ l \in PassShape /\ l.pc = "count" /\ pass' = [pass EXCEPT ![p] = l] /\ l.on = 0
        /\ HasItsEntry(l)
    BY <1>1, <1>7, <2>1 DEF PassShape, Pcs, At, HasItsEntry
  <2> QED
    BY <1>1, <1>7, <2>2, MoveStep DEF tracker
<1>8. CASE pending # 0 /\ Try(p, pending, entry[pending]) /\ UNCHANGED <<entry, through>>
  <2>1. PICK o \in Passes : o = pending
    BY <1>8
  <2>2. AccountedFor(o)' /\ \A q \in Passes : AccountedFor(q) => AccountedFor(q)'
    BY <1>8, <2>1 DEF AccountedFor
  <2> QED
    BY <1>1, <1>8, <2>1, <2>2, TryStep
<1>9. CASE /\ pending = 0 /\ Remember(p, "completed")
           /\ Through(p, IF prev = None THEN Channels ELSE {})
           /\ prev = "completed" \/ prev = None
           /\ UNCHANGED <<pending, entry>>
  <2>1. /\ through \subseteq through' /\ through' \subseteq Channels
        /\ prev = None => AllThrough'
    BY <1>3, <1>9 DEF AllThrough
  <2> QED
    BY <1>1, <1>2, <1>9, <2>1, MoveStep DEF Remember, Statuses
<1>10. CASE TrackCompleted(p)
  BY <1>6, <1>7, <1>8, <1>9, <1>10 DEF TrackCompleted
<1> QED
  BY <1>4, <1>5, <1>10 DEF Track

LEMMA CountRowsStep ==
    ASSUME NothingForgotten, NEW p \in Passes, CountRows(p)
    PROVE  NothingForgotten'
<1> USE DEF NothingForgotten, TrackerTyped
<1>1. /\ UNCHANGED <<open, prev, pending>> /\ pass[p] \in PassShape
      /\ pass[p].pc = "count" /\ pass[p].on = 0
  BY DEF CountRows, HasItsEntry
<1>2. PICK ledger \in Channel : /\ entry' = [entry EXCEPT ![p]["ledger"] = ledger]
                               /\ Through(p, IF ledger.open THEN {} ELSE {"ledger"})
  BY FreshTyped DEF CountRows
<1>3. PICK l : l = [pass[p] EXCEPT !.pc = "countLinks"]
  OBVIOUS
<1>4. /\ l \in PassShape /\ l.pc = "countLinks" /\ pass' = [pass EXCEPT ![p] = l] /\ l.on = 0
      /\ l.old = pass[p].old
  BY <1>1, <1>3 DEF PassShape, Pcs, At, CountRows
<1>5. /\ pass' \in [Passes -> PassShape] /\ pass'[p] = l
      /\ \A q \in Passes \ {p} : pass'[q] = pass[q] /\ Running(q)' = Running(q) /\ Works(q)' = Works(q)
  BY <1>4, OthersWorkOn
<1>6. /\ entry' \in [Passes -> [Channels -> Channel]]
      /\ \A q \in Passes \ {p} : entry'[q] = entry[q]
      /\ entry'[p]["ledger"] = ledger /\ entry'[p]["link"] = entry[p]["link"]
  BY <1>2 DEF Channels
<1>7. /\ through \subseteq through' /\ through' \subseteq Channels
      /\ ledger.open \/ "ledger" \in through'
  BY <1>2 DEF Through, Channels
<1>8. \A q \in Passes : AccountedFor(q) => AccountedFor(q)'
  BY <1>6, <1>7 DEF AccountedFor, Channels
<1>9. \A q \in Passes : Works(q)' => Works(q) /\ pass'[q].on = pass[q].on /\ pass[q].on \in Passes
  BY <1>4, <1>5 DEF Works, PassShape
<1>10. TrackerTyped'
  BY <1>1, <1>5, <1>6, <1>7
<1>11. (pending # 0 => AccountedFor(pending))'
  BY <1>1, <1>8 DEF AccountedFor
<1>12. (\A q \in Passes : Works(q) => AccountedFor(pass[q].on))'
  BY <1>8, <1>9 DEF AccountedFor
<1>13. (pending = 0 /\ (prev = "completed" \/ \E q \in Passes : Works(q)) => AllThrough)'
  BY <1>1, <1>7, <1>9 DEF AllThrough
<1>14. (\A q \in Passes : HasItsEntry(pass[q]))'
  BY <1>4, <1>5 DEF HasItsEntry
<1>15. (\A q \in Passes : pass[q].pc = "countLinks" /\ ~pass[q].old =>
          entry[q]["ledger"].open \/ "ledger" \in through)'
  BY <1>4, <1>5, <1>6, <1>7
<1>16. (~open => \A q \in Passes : Running(q) => pass[q].old)'
  BY <1>1, <1>4, <1>5 DEF Running
<1> QED
  BY <1>10, <1>11, <1>12, <1>13, <1>14, <1>15, <1>16

LEMMA CountLinksStep ==
    ASSUME NothingForgotten, NEW p \in Passes, CountLinks(p)
    PROVE  NothingForgotten'
<1> USE DEF NothingForgotten, TrackerTyped
<1>1. /\ UNCHANGED open /\ pass[p] \in PassShape /\ pass[p].pc = "countLinks" /\ Running(p)
      /\ pass[p].on = 0
  BY DEF CountLinks, HasItsEntry, Running
<1>2. PICK link \in Channel : /\ entry' = [entry EXCEPT ![p]["link"] = link]
                             /\ Through(p, IF link.open THEN {} ELSE {"link"})
  BY FreshTyped DEF CountLinks
<1>3. /\ entry' \in [Passes -> [Channels -> Channel]]
      /\ \A q \in Passes \ {p} : entry'[q] = entry[q]
      /\ entry'[p]["link"] = link /\ entry'[p]["ledger"] = entry[p]["ledger"]
  BY <1>2 DEF Channels
<1>4. /\ through \subseteq through' /\ through' \subseteq Channels
      /\ link.open \/ "link" \in through'
      /\ pass[p].old => AllThrough'
  BY <1>2 DEF Through, Channels, AllThrough
<1>5. \A q \in Passes : AccountedFor(q) => AccountedFor(q)'
  BY <1>3, <1>4 DEF AccountedFor, Channels
<1>6. AccountedFor(p)'
  BY <1>1, <1>3, <1>4 DEF AccountedFor, AllThrough, Channels
<1>7. open \/ pass[p].old
  BY <1>1
<1>8. PICK there \in {0} \cup Passes :
        /\ there = IF SomeOpen(entry'[p]) THEN p ELSE pending
        /\ there # 0 => Try(p, there, entry'[there])
        /\ there = 0 => Remember(p, "completed") /\ UNCHANGED pending
  <2>1. PICK there : there = IF SomeOpen(entry'[p]) THEN p ELSE pending
    OBVIOUS
  <2>2. there \in {0} \cup Passes
    BY <2>1
  <2>3. IF there # 0 THEN Try(p, there, entry'[there])
        ELSE Remember(p, "completed") /\ UNCHANGED pending
    BY <2>1 DEF CountLinks
  <2> QED
    BY <2>1, <2>2, <2>3
<1>9. CASE there # 0
  <2>1. PICK o \in Passes : o = there
    BY <1>9
  <2>2. AccountedFor(o)'
    <3>1. o = p \/ (o = pending /\ pending # 0)
      BY <1>8, <1>9, <2>1
    <3>2. o = p \/ AccountedFor(o)
      BY <3>1
    <3> QED
      BY <1>5, <1>6, <3>2
  <2> QED
    BY <1>1, <1>3, <1>4, <1>5, <1>7, <1>8, <1>9, <2>1, <2>2, TryStep
<1>10. CASE there = 0
  <2>1. /\ pass' = [pass EXCEPT ![p] = Over] /\ prev' = "completed" /\ UNCHANGED pending
        /\ pending = 0 /\ ~SomeOpen(entry'[p])
    BY <1>8, <1>10 DEF Remember, Passes
  <2>2. AllThrough'
    BY <1>6, <2>1 DEF AllThrough, AccountedFor, SomeOpen
  <2>3. Over \in PassShape /\ Over.pc = "done"
    BY DEF Over, NoPass, PassShape, Pcs
  <2>4. /\ pass' \in [Passes -> PassShape] /\ pass'[p] = Over
        /\ \A q \in Passes \ {p} : pass'[q] = pass[q] /\ Running(q)' = Running(q)
                                   /\ Works(q)' = Works(q)
    BY <2>1, <2>3, OthersWorkOn
  <2>5. TrackerTyped'
    BY <1>1, <1>3, <1>4, <2>1, <2>4 DEF Statuses
  <2>6. (\A q \in Passes : Works(q) => AccountedFor(pass[q].on))'
    BY <2>2 DEF AccountedFor, AllThrough
  <2>7. (\A q \in Passes : HasItsEntry(pass[q]))'
    BY <2>3, <2>4 DEF HasItsEntry
  <2>8. (\A q \in Passes : pass[q].pc = "countLinks" /\ ~pass[q].old =>
            entry[q]["ledger"].open \/ "ledger" \in through)'
    BY <2>2 DEF AllThrough, Channels
  <2>9. (~open => \A q \in Passes : Running(q) => pass[q].old)'
    BY <1>1, <2>3, <2>4 DEF Running
  <2> QED
    BY <2>1, <2>2, <2>5, <2>6, <2>7, <2>8, <2>9
<1> QED
  BY <1>9, <1>10

\* A pass that tries a channel: it moves on to the next report, or the channel has an outcome.
LEMMA IngestStep ==
    ASSUME NothingForgotten, ReportsTyped, NEW p \in Passes,
           Locate(p) \/ IngestDecisions(p) \/ IngestObservations(p) \/ IngestLinks(p)
    PROVE  NothingForgotten'
<1> USE DEF NothingForgotten, TrackerTyped
<1>1. /\ UNCHANGED open /\ pass[p] \in PassShape
      /\ pass[p].pc \in {"locate", "decisions", "observations", "links"} /\ Running(p)
      /\ pass[p].old \/ open
  BY DEF Locate, IngestDecisions, IngestObservations, IngestLinks, Running
<1>2. Parsed("decisions") \in {"nothing", "unreadable", "rows"}
  BY DEF ReportsTyped, Parsed, Files
<1>3. ASSUME NEW l \in PassShape, pass' = [pass EXCEPT ![p] = l], UNCHANGED tracker,
             l.pc \in {"decisions", "observations"}, l.on = pass[p].on, l.old = pass[p].old
      PROVE  NothingForgotten'
  <2>1. HasItsEntry(l) /\ (~l.old /\ l.on # 0 => Works(p))
    BY <1>1, <1>3 DEF HasItsEntry, Works
  <2> QED
    BY <1>1, <1>3, <2>1, MoveStep DEF tracker
<1>4. ASSUME NEW c \in Channels, NEW outcome \in Outcomes, Settle(p, c, outcome)
      PROVE  NothingForgotten'
  BY <1>1, <1>4, SettleStep
<1>5. CASE Locate(p)
  <2>1. CASE At(p, "decisions") /\ UNCHANGED tracker
    <3>1. PICK l : l = [pass[p] EXCEPT !.pc = "decisions"]
      OBVIOUS
    <3> QED
      BY <1>1, <1>3, <2>1, <3>1 DEF At, PassShape, Pcs
  <2> QED
    BY <1>4, <1>5, <2>1 DEF Locate, Outcomes, Channels
<1>6. CASE IngestDecisions(p)
  <2>1. CASE /\ pass' = [pass EXCEPT ![p].pc = "observations", ![p].got = Parsed("decisions")]
             /\ UNCHANGED tracker
    <3>1. PICK l : l = [pass[p] EXCEPT !.pc = "observations", !.got = Parsed("decisions")]
      OBVIOUS
    <3>2. l \in PassShape /\ l.pc = "observations" /\ l.on = pass[p].on /\ l.old = pass[p].old
      BY <1>1, <1>2, <3>1 DEF PassShape, Pcs
    <3>3. pass' = [pass EXCEPT ![p] = l]
      BY <2>1, <3>1
    <3> QED
      BY <1>3, <2>1, <3>2, <3>3
  <2> QED
    BY <1>4, <1>6, <2>1 DEF IngestDecisions, StoringFails, Outcomes, Channels
<1>7. CASE IngestObservations(p)
  BY <1>4, <1>7 DEF IngestObservations, StoringFails, Outcome, Outcomes, Channels
<1>8. CASE IngestLinks(p)
  BY <1>4, <1>8 DEF IngestLinks, Outcomes, Channels
<1> QED
  BY <1>5, <1>6, <1>7, <1>8

LEMMA CloseStep ==
    ASSUME NothingForgotten, Close
    PROVE  NothingForgotten'
<1> USE DEF NothingForgotten, TrackerTyped
<1>1. /\ open' = FALSE /\ prev' = None /\ pending' = 0 /\ through' = {} /\ UNCHANGED entry
      /\ pass' = [p \in Passes |-> [pass[p] EXCEPT !.old = Running(p)]]
  BY DEF Close, Reset
<1>2. ASSUME NEW p \in Passes
      PROVE  /\ pass'[p] \in PassShape /\ HasItsEntry(pass'[p])
             /\ pass'[p].pc = pass[p].pc /\ pass'[p].old = Running(p)
  <2>1. PICK l : l = [pass[p] EXCEPT !.old = Running(p)]
    OBVIOUS
  <2>2. pass[p] \in PassShape /\ HasItsEntry(pass[p]) /\ Running(p) \in BOOLEAN
    BY DEF Running
  <2>3. l \in PassShape /\ l.pc = pass[p].pc /\ l.on = pass[p].on /\ l.old = Running(p)
    BY <2>1, <2>2 DEF PassShape
  <2>4. pass'[p] = l
    BY <1>1, <2>1
  <2> QED
    BY <2>2, <2>3, <2>4 DEF HasItsEntry, Running
<1>3. \A p \in Passes : Running(p)' => pass'[p].old
  BY <1>2 DEF Running
<1>4. pass' \in [Passes -> PassShape]
  BY <1>1, <1>2
<1>5. \A p \in Passes : ~Works(p)'
  BY <1>3 DEF Works
<1>6. \A p \in Passes : pass'[p].pc = "countLinks" => pass'[p].old
  BY <1>3 DEF Running
<1> QED
  BY <1>1, <1>2, <1>3, <1>4, <1>5, <1>6, NoneAssumption

LEMMA OpenStep ==
    ASSUME NothingForgotten, Open
    PROVE  NothingForgotten'
  BY DEF NothingForgotten, TrackerTyped, Open, tracker, AccountedFor, AllThrough, Works, Running,
         HasItsEntry

LEMMA LedgerCrashStep ==
    ASSUME NothingForgotten, Crash
    PROVE  NothingForgotten'
<1> USE DEF NothingForgotten, TrackerTyped
<1>1. /\ open' = FALSE /\ prev' = None /\ pending' = 0 /\ through' = {}
      /\ pass' = [p \in Passes |-> IF Running(p) THEN Over ELSE pass[p]]
      /\ entry' = [p \in Passes |-> NoEntry]
  BY DEF Crash, Reset
<1>2. Over \in PassShape /\ Over.pc = "done" /\ HasItsEntry(Over)
  BY DEF Over, NoPass, PassShape, Pcs, HasItsEntry
<1>3. ASSUME NEW p \in Passes
      PROVE  pass'[p] \in PassShape /\ HasItsEntry(pass'[p]) /\ pass'[p].pc \in {"idle", "done"}
  BY <1>1, <1>2 DEF Running
<1>4. pass' \in [Passes -> PassShape]
  BY <1>1, <1>3
<1>5. NoEntry \in [Channels -> Channel]
  BY FreshTyped DEF NoEntry
<1>6. \A p \in Passes : ~Running(p)'
  BY <1>3 DEF Running
<1> QED
  BY <1>1, <1>3, <1>4, <1>5, <1>6, NoneAssumption DEF Works

\* The other actions are takt's and the operators'.
LEMMA OtherActions ==
    ASSUME NothingForgotten, UNCHANGED <<open, tracker, pass>>
    PROVE  NothingForgotten'
  BY DEF NothingForgotten, TrackerTyped, tracker, AccountedFor, AllThrough, Works, Running,
         HasItsEntry

LEMMA ForgottenStep == NothingForgotten /\ ReportsTyped /\ [Next]_vars => NothingForgotten'
<1> SUFFICES ASSUME NothingForgotten, ReportsTyped, [Next]_vars PROVE NothingForgotten'
  OBVIOUS
<1>1. ASSUME NEW p \in Passes, Pass(p) PROVE NothingForgotten'
  BY <1>1, TrackStep, CountRowsStep, CountLinksStep, IngestStep DEF Pass
<1>2. CASE Complete \/ (\E f \in Files : WriteReport(f)) \/ UNCHANGED vars
  BY <1>2, OtherActions DEF Complete, WriteReport, vars, tracker
<1>3. ASSUME NEW d \in Decisions, NEW v \in Verdicts, Judge(d, v) PROVE NothingForgotten'
  BY <1>3, OtherActions DEF Judge
<1>4. ASSUME NEW u \in Users,
             \/ \E d \in Decisions : Adopt(u, d)
             \/ ReadRequirements(u) \/ WriteRequirements(u) \/ LinkRequirement(u)
      PROVE  NothingForgotten'
  BY <1>4, OtherActions DEF Adopt, ReadRequirements, WriteRequirements, LinkRequirement
<1>5. CASE Close \/ Open \/ Crash
  BY <1>5, CloseStep, OpenStep, LedgerCrashStep
<1> QED
  BY <1>1, <1>2, <1>3, <1>4, <1>5 DEF Next

LEMMA ReportsStep == ReportsTyped /\ [Next]_vars => ReportsTyped'
<1> SUFFICES ASSUME ReportsTyped, [Next]_vars PROVE ReportsTyped'
  OBVIOUS
<1>1. CASE UNCHANGED report
  BY <1>1 DEF ReportsTyped
<1>2. ASSUME NEW f \in Files, WriteReport(f) PROVE ReportsTyped'
  BY <1>2 DEF WriteReport, ReportsTyped
<1>3. ASSUME NEW p \in Passes, Pass(p) PROVE UNCHANGED report
  BY <1>3 DEF Pass, Track, CountRows, CountLinks, Locate, IngestDecisions, IngestObservations,
              IngestLinks, takt
<1>4. ASSUME NEW u \in Users,
             \/ \E d \in Decisions : Adopt(u, d)
             \/ ReadRequirements(u) \/ WriteRequirements(u) \/ LinkRequirement(u)
      PROVE  UNCHANGED report
  BY <1>4 DEF Adopt, ReadRequirements, WriteRequirements, LinkRequirement, takt
<1>5. ASSUME NEW d \in Decisions, NEW v \in Verdicts, Judge(d, v) PROVE UNCHANGED report
  BY <1>5 DEF Judge, takt
<1>6. Complete \/ UNCHANGED vars => UNCHANGED report
  BY DEF Complete, takt, vars
<1>7. Close \/ Open \/ Crash => UNCHANGED report
  BY DEF Close, Open, Crash, takt
<1> QED
  BY <1>1, <1>2, <1>3, <1>4, <1>5, <1>6, <1>7 DEF Next

LEMMA InitReports == Init => ReportsTyped
  BY DEF Init, ReportsTyped

(* The reports of a task whose completion the tracker has registered are   *)
(* not forgotten, for any number of overlapping refreshes, attempts, torn  *)
(* reads, closings and crashes: what the session is not through with is    *)
(* open in the pending entry.                                              *)
THEOREM ReportsAreRemembered == Spec => []NoReportForgotten
<1>1. NothingForgotten => NoReportForgotten
  BY DEF NothingForgotten, NoReportForgotten, AccountedFor, AllThrough
<1> QED
  BY <1>1, InitForgotten, InitReports, ReportsStep, ForgottenStep, PTL DEF Spec

-----------------------------------------------------------------------------
(* Types.  There are never more blocks than decisions, and the second is   *)
(* numbered after the first: whoever read the other's block counts from    *)
(* it, and whoever did not overwrites it.                                  *)

Numbered(bs) == \A b \in bs : b.id = 1 \/ \E k \in bs : k.id = 1 /\ k.of # b.of

AdoptionsTyped ==
    /\ blocks \subseteq Block /\ Numbered(blocks)
    /\ user \in [Users -> UserShape]
    /\ \A u \in Users : user[u].pc = "write" => Numbered(user[u].seen)
    /\ promoted \in [Decisions -> 0..Cardinality(Decisions)]

LEMMA IdleTyped == Idle \in UserShape /\ Idle.pc = "idle"
  BY TwoDecisions DEF Idle, UserShape, Decisions

LEMMA InitAdoptionsTyped == Init => AdoptionsTyped
  BY IdleTyped, TwoDecisions DEF Init, AdoptionsTyped, Numbered

\* The number that a block gets.
LEMMA NextNumber ==
    ASSUME NEW bs \in SUBSET Block, NEW d \in Decisions, Numbered(bs),
           \A b \in bs : b.of # d,
           \A b \in bs, k \in bs : k.of = b.of => k = b
    PROVE  LET new == 1 + Max({0} \cup {b.id : b \in bs})
               after == bs \cup {[id |-> new, of |-> d]}
           IN  new \in 1..2 /\ after \subseteq Block /\ Numbered(after)
<1> DEFINE ids == {0} \cup {b.id : b \in bs}
           new == 1 + Max(ids)
           after == bs \cup {[id |-> new, of |-> d]}
<1>1. \A b \in bs, k \in bs : k = b
  BY DEF Block, Decisions
<1>2. \A b \in bs : b.id = 1
  BY <1>1 DEF Numbered
<1>3. CASE bs = {}
  <2>1. Max(ids) = 0
    BY <1>3 DEF Max
  <2> HIDE DEF ids
  <2>2. new = 1
    BY <2>1
  <2> QED
    BY <1>3, <2>2, TwoDecisions DEF Numbered, Block, ids
<1>4. CASE bs # {}
  <2>1. ids = {0, 1}
    BY <1>2, <1>4
  <2>2. Max({0, 1}) = 1
    BY DEF Max
  <2> HIDE DEF ids
  <2>3. new = 2
    BY <2>1, <2>2
  <2>4. after \subseteq Block
    BY <2>3, TwoDecisions DEF Block
  <2>5. Numbered(after)
    BY <1>2, <1>4, <2>3 DEF Numbered
  <2> QED
    BY <2>3, <2>4, <2>5 DEF ids
<1> QED
  BY <1>3, <1>4

LEMMA AdoptionsTypedStep ==
    AdoptionsTyped /\ AdoptionsSound /\ [Next]_vars => AdoptionsTyped'
<1> SUFFICES ASSUME AdoptionsTyped, AdoptionsSound, [Next]_vars PROVE AdoptionsTyped'
  OBVIOUS
<1> USE DEF AdoptionsTyped
<1>1. ASSUME UNCHANGED <<user, blocks, promoted>> PROVE AdoptionsTyped'
  BY <1>1
<1>2. ASSUME NEW u \in Users, NEW l \in UserShape, user' = [user EXCEPT ![u] = l],
             l.pc = "write" => Numbered(l.seen),
             (blocks \subseteq Block /\ Numbered(blocks))',
             promoted' \in [Decisions -> 0..Cardinality(Decisions)]
      PROVE  AdoptionsTyped'
  BY <1>2
<1>3. ASSUME NEW u \in Users, NEW d \in Decisions, Adopt(u, d) PROVE AdoptionsTyped'
  <2>1. PICK l : l = [Idle EXCEPT !.pc = "promote", !.of = d]
    OBVIOUS
  <2>2. l \in UserShape /\ l.pc = "promote"
    BY <2>1, IdleTyped DEF UserShape
  <2> QED
    BY <1>2, <1>3, <2>1, <2>2 DEF Adopt
<1>4. ASSUME NEW u \in Users, ReadRequirements(u) PROVE AdoptionsTyped'
  <2>0. PICK read : /\ read \in {blocks, {}}
                    /\ \/ user' = [user EXCEPT ![u].pc = "write", ![u].seen = read]
                       \/ user' = [user EXCEPT ![u] = Idle]
    BY <1>4 DEF ReadRequirements
  <2>1. PICK l : l = [user[u] EXCEPT !.pc = "write", !.seen = read]
    OBVIOUS
  <2>2. user[u] \in UserShape
    OBVIOUS
  <2>3. l \in UserShape /\ l.seen = read
    BY <2>0, <2>1, <2>2 DEF UserShape
  <2>4. user' = [user EXCEPT ![u] = l] \/ user' = [user EXCEPT ![u] = Idle]
    BY <2>0, <2>1
  <2>5. Numbered(l.seen)
    BY <2>0, <2>3 DEF Numbered
  <2>6. UNCHANGED <<blocks, promoted>>
    BY <1>4 DEF ReadRequirements
  <2> QED
    BY <1>2, <2>3, <2>4, <2>5, <2>6, IdleTyped
<1>5. ASSUME NEW u \in Users, WriteRequirements(u) PROVE AdoptionsTyped'
  <2>1. PICK new : new = 1 + Max({0} \cup {b.id : b \in user[u].seen})
    OBVIOUS
  <2>2. user[u] \in UserShape /\ user[u].pc = "write" /\ UNCHANGED promoted
    BY <1>5 DEF WriteRequirements
  <2>3. /\ \A b \in user[u].seen : b.of # user[u].of
        /\ \A b \in user[u].seen, k \in user[u].seen : k.of = b.of => k = b
    BY <2>2 DEF AdoptionsSound, Sound, Promoting
  <2>4. user[u].seen \in SUBSET Block /\ user[u].of \in Decisions /\ Numbered(user[u].seen)
    BY <2>2 DEF UserShape
  <2>5. PICK after : after = user[u].seen \cup {[id |-> new, of |-> user[u].of]}
    OBVIOUS
  <2>6. new \in 1..2 /\ after \subseteq Block /\ Numbered(after)
    BY <2>1, <2>3, <2>4, <2>5, NextNumber
  <2>7. PICK l : l = [user[u] EXCEPT !.pc = "link", !.id = new, !.seen = {}]
    OBVIOUS
  <2>8. l \in UserShape /\ l.pc = "link"
    <3>1. new \in 0..Cardinality(Decisions)
      BY <2>6, TwoDecisions
    <3> QED
      BY <2>2, <2>7, <3>1 DEF UserShape
  <2>9. \/ blocks' = after /\ user' = [user EXCEPT ![u] = l]
        \/ user' = [user EXCEPT ![u] = Idle] /\ UNCHANGED blocks
    BY <1>5, <2>1, <2>5, <2>7 DEF WriteRequirements
  <2>10. (blocks \subseteq Block /\ Numbered(blocks))'
    BY <2>6, <2>9 DEF Numbered
  <2> QED
    BY <1>2, <2>2, <2>8, <2>9, <2>10, IdleTyped
<1>6. ASSUME NEW u \in Users, LinkRequirement(u) PROVE AdoptionsTyped'
  <2>1. user[u].id \in 0..Cardinality(Decisions)
    BY DEF UserShape
  <2>2. promoted' \in [Decisions -> 0..Cardinality(Decisions)]
    BY <1>6, <2>1 DEF LinkRequirement
  <2> QED
    BY <1>2, <1>6, <2>2, IdleTyped DEF LinkRequirement
<1>7. CASE Crash
  BY <1>7, IdleTyped DEF Crash
<1>8. ASSUME NEW p \in Passes, Pass(p) PROVE AdoptionsTyped'
  BY <1>1, <1>8 DEF Pass, Track, CountRows, CountLinks, Locate, IngestDecisions,
                    IngestObservations, IngestLinks, store
<1>9. CASE Complete \/ (\E f \in Files : WriteReport(f)) \/ Close \/ Open \/ UNCHANGED vars
  BY <1>1, <1>9 DEF Complete, WriteReport, Close, Open, store, vars
<1>10. ASSUME NEW d \in Decisions, NEW v \in Verdicts, Judge(d, v) PROVE AdoptionsTyped'
  BY <1>1, <1>10 DEF Judge
<1> QED
  BY <1>3, <1>4, <1>5, <1>6, <1>7, <1>8, <1>9, <1>10 DEF Next

\* What the task and the workspace are.
RestTyped ==
    /\ status \in Statuses
    /\ spec \in BOOLEAN
    /\ linked \in BOOLEAN
    /\ session \in 1..MaxSessions

LEMMA RestStep == RestTyped /\ [Next]_vars => RestTyped'
<1> SUFFICES ASSUME RestTyped, [Next]_vars PROVE RestTyped'
  OBVIOUS
<1> USE DEF RestTyped
<1>1. ASSUME NEW p \in Passes, Pass(p) PROVE UNCHANGED <<status, spec, session>> /\ linked' \in BOOLEAN
  <2>1. CASE Track(p) \/ CountRows(p) \/ CountLinks(p) \/ Locate(p)
    BY <2>1 DEF Track, CountRows, CountLinks, Locate, takt, store
  <2>2. CASE IngestDecisions(p) \/ IngestObservations(p) \/ IngestLinks(p)
    BY <2>2 DEF IngestDecisions, IngestObservations, IngestLinks, takt
  <2> QED
    BY <1>1, <2>1, <2>2 DEF Pass
<1>2. CASE Complete \/ (\E f \in Files : WriteReport(f)) \/ UNCHANGED vars
  BY <1>2 DEF Complete, WriteReport, store, Statuses, vars
<1>3. ASSUME NEW d \in Decisions, NEW v \in Verdicts, Judge(d, v) PROVE RestTyped'
  BY <1>3 DEF Judge, takt
<1>4. ASSUME NEW u \in Users,
             \/ \E d \in Decisions : Adopt(u, d)
             \/ ReadRequirements(u) \/ WriteRequirements(u) \/ LinkRequirement(u)
      PROVE  UNCHANGED <<status, spec, session>> /\ linked' \in BOOLEAN
  BY <1>4 DEF Adopt, ReadRequirements, WriteRequirements, LinkRequirement, takt
<1>5. CASE Close \/ Crash
  BY <1>5 DEF Close, Crash, takt, store
<1>6. CASE Open
  BY <1>6, BoundsAssumption DEF Open, takt, store
<1> QED
  BY <1>1, <1>2, <1>3, <1>4, <1>5, <1>6 DEF Next

(* Types are kept, for any number of passes, attempts, openings and        *)
(* operators; in particular a retry is never counted past the limit and    *)
(* requirements are numbered one after the other.                          *)
THEOREM LedgerTypeIsKept == Spec => []TypeOK
<1>1. RowsTyped /\ ReportsTyped /\ RestTyped /\ AdoptionsTyped /\ NothingForgotten => TypeOK
  <2> SUFFICES ASSUME RowsTyped, ReportsTyped, RestTyped, AdoptionsTyped, NothingForgotten
               PROVE  TypeOK
    OBVIOUS
  <2>1. user \in [Users -> UserShape] /\ blocks \subseteq Block
        /\ promoted \in [Decisions -> 0..Cardinality(Decisions)]
    BY DEF AdoptionsTyped
  <2> QED
    BY <2>1 DEF TypeOK, RowsTyped, ReportsTyped, RestTyped, NothingForgotten, TrackerTyped,
                PassShape, UserShape, RowStates
<1>2. Init => RowsTyped
  BY DEF Init, RowsTyped, RowStates
<1>3. Init => RestTyped
  <2>1. 1 \in 1..MaxSessions
    BY BoundsAssumption
  <2>2. Init => status = "active" /\ spec \in BOOLEAN /\ linked = FALSE /\ session = 1
    BY DEF Init
  <2> QED
    BY <2>1, <2>2 DEF RestTyped, Statuses
<1> QED
  BY <1>1, <1>2, <1>3, InitForgotten, InitReports, InitAdoptions, InitAdoptionsTyped,
     RowsTypedStep, ReportsStep, RestStep, AdoptionsStep, AdoptionsTypedStep, ForgottenStep,
     PTL DEF Spec
=============================================================================
