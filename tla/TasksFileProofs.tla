-------------------------- MODULE TasksFileProofs --------------------------
(***************************************************************************)
(* Proofs about TasksFile, for any number of commands, rows, polls and     *)
(* takt processes.  All of them suppose that takt does not write the file  *)
(* while an in-app section is open (~TaktOverlaps): with it, the run       *)
(* tasks_overlap shows what is lost.                                       *)
(***************************************************************************)
EXTENDS TasksFile, FiniteSetTheorems, WellFoundedInduction, TLAPS

-----------------------------------------------------------------------------
(* Natural numbers: what UniqueTaskId and the end of the file choose       *)
(* exists.                                                                 *)

LEMMA LeastNat ==
    ASSUME NEW S \in SUBSET Nat, S # {}
    PROVE  \E n \in S : \A m \in S : n <= m
<1> DEFINE less == {ss \in Nat \X Nat : ss[1] < ss[2]}
<1>1. IsWellFoundedOn(less, Nat)
  BY NatLessThanWellFounded DEF OpToRel
<1>2. PICK n \in S : \A m \in S : <<m, n>> \notin less
  BY <1>1, WFMin, Zenon
<1>3. \A m \in S : ~(m < n)
  BY <1>2
<1> QED
  BY <1>3

LEMMA GreatestNat ==
    ASSUME NEW S \in SUBSET Nat, S # {}, NEW b \in Nat, \A m \in S : m <= b
    PROVE  \E n \in S : \A m \in S : m <= n
<1> DEFINE U == {u \in Nat : \A m \in S : m <= u}
<1>1. PICK n \in U : \A u \in U : n <= u
  BY LeastNat
<1>2. n \in S
  <2>1. CASE n = 0
    <3>1. PICK m \in S : TRUE
      OBVIOUS
    <3>2. m \in Nat /\ m <= n
      BY <1>1
    <3> QED
      BY <2>1, <3>2
  <2>2. CASE n # 0
    <3>1. n - 1 \in Nat /\ n - 1 \notin U
      BY <1>1, <2>2
    <3>2. PICK m \in S : ~(m <= n - 1)
      BY <3>1
    <3> QED
      BY <1>1, <3>1, <3>2
  <2> QED
    BY <2>1, <2>2
<1> QED
  BY <1>1, <1>2

-----------------------------------------------------------------------------
(* What the sections make of the rows.                                     *)

(* Every name ever given was given to a row ever stored: as long as one    *)
(* more row may be stored, there is a name that no list has.               *)
LEMMA FreshName ==
    ASSUME NEW ids \in SUBSET RowIds, NEW c \in RowIds \ ids, NEW f \in [ids -> Names],
           NEW taken \in SUBSET {f[i] : i \in ids}
    PROVE  UniqueTaskId(taken) \in Names \ taken
<1> DEFINE given == {f[i] : i \in ids}
<1>1. IsFiniteSet(RowIds) /\ Cardinality(RowIds) \in Nat
  BY IdsAssumption, FS_Union, FS_CardinalityType DEF RowIds
<1>2. IsFiniteSet(ids) /\ Cardinality(ids) \in Nat
  BY <1>1, FS_Subset, FS_CardinalityType
<1>3. Cardinality(ids) + 1 <= Cardinality(RowIds)
  <2>1. Cardinality(ids \cup {c}) = Cardinality(ids) + 1
    BY <1>2, FS_AddElement
  <2>2. ids \cup {c} \in SUBSET RowIds
    OBVIOUS
  <2> QED
    BY <1>1, <2>1, <2>2, FS_Subset
<1>4. IsFiniteSet(given) /\ Cardinality(given) <= Cardinality(ids) /\ Cardinality(given) \in Nat
  <2>1. f \in Surjection(ids, given)
    BY DEF Surjection
  <2> QED
    BY <1>2, <2>1, FS_Surjection, FS_CardinalityType
<1>5. Cardinality(Names) = Cardinality(RowIds)
  BY <1>1, FS_Interval DEF Names
<1>6. Names \ taken # {}
  <2>1. given \in SUBSET Names
    OBVIOUS
  <2>2. given # Names
    BY <1>1, <1>2, <1>3, <1>4, <1>5
  <2> QED
    BY <2>1, <2>2
<1>7. Names \ taken \in SUBSET Nat
  BY <1>1 DEF Names
<1>8. \E n \in Names \ taken : \A m \in Names \ taken : n <= m
  BY <1>6, <1>7, LeastNat
<1> QED
  BY <1>8 DEF UniqueTaskId

(* A revision drops rows and changes others, but moves and renames none.   *)
Revises(rs, T, g) ==
    /\ T \in SUBSET rs
    /\ g = [s \in T |-> g[s]]
    /\ \A s \in T : g[s].at = s.at /\ g[s].name = s.name /\ g[s].id = s.id

Image(T, g) == {g[s] : s \in T}

(* What holds of the rows at any time: one row per id and per position, an *)
(* end of the file, and, once takt has run, one row per name.              *)
Sound(rs) ==
    /\ rs \subseteq Row
    /\ \A r, s \in rs : r.id = s.id => r = s
    /\ \A r, s \in rs : r.at = s.at => r = s
    /\ \E b \in Nat : \A r \in rs : r.at <= b

LEMMA RevisedSound ==
    ASSUME NEW rs, Sound(rs), NEW T, NEW g, Revises(rs, T, g), \A s \in T : g[s] \in Row
    PROVE  /\ Sound(Image(T, g))
           /\ UniqueNames(rs) => UniqueNames(Image(T, g))
           /\ IdsIn(Image(T, g)) \subseteq IdsIn(rs)
<1> USE DEF Revises, Image
<1>1. Image(T, g) \subseteq Row
  OBVIOUS
<1>2. \A r, s \in Image(T, g) : r.id = s.id => r = s
  BY DEF Sound
<1>3. \A r, s \in Image(T, g) : r.at = s.at => r = s
  BY DEF Sound
<1>4. \E b \in Nat : \A r \in Image(T, g) : r.at <= b
  BY DEF Sound
<1>5. UniqueNames(rs) => UniqueNames(Image(T, g))
  BY DEF UniqueNames
<1>6. IdsIn(Image(T, g)) \subseteq IdsIn(rs)
  BY DEF IdsIn
<1> QED
  BY <1>1, <1>2, <1>3, <1>4, <1>5, <1>6 DEF Sound

(* A row that is pushed comes last.                                        *)
LEMMA AppendedLast ==
    ASSUME NEW rs, Sound(rs), NEW n \in Names, NEW id \in RowIds
    PROVE  \E at \in Nat : /\ Appended(rs, n, id) = rs \cup {NewRow(at, n, id)}
                           /\ \A r \in rs : r.at < at
<1> DEFINE ats == {0} \cup {r.at : r \in rs}
<1>1. ats \in SUBSET Nat /\ ats # {}
  BY DEF Sound, Row
<1>2. \E k \in ats : \A m \in ats : m <= k
  <2>1. PICK b \in Nat : \A r \in rs : r.at <= b
    BY DEF Sound
  <2>2. \A m \in ats : m <= b
    BY <2>1
  <2> QED
    BY <1>1, <2>1, <2>2, GreatestNat
<1>3. \E k \in ats : \A m \in ats : k >= m
  BY <1>1, <1>2
<1>4. Max(ats) \in ats /\ \A m \in ats : Max(ats) >= m
  BY <1>3 DEF Max
<1>5. PICK k \in Nat : k = 1 + Max(ats) /\ \A m \in ats : m < k
  <2>1. PICK m \in Nat : m = Max(ats) /\ \A x \in ats : m >= x
    BY <1>1, <1>4
  <2> HIDE DEF ats
  <2>2. 1 + m \in Nat /\ \A x \in ats : x < 1 + m
    BY <1>1, <2>1
  <2> QED
    BY <2>1, <2>2
<1>6. Appended(rs, n, id) = rs \cup {NewRow(k, n, id)}
  BY <1>5 DEF Appended
<1>7. \A r \in rs : r.at < k
  BY <1>5
<1> QED
  BY <1>6, <1>7

LEMMA AppendedSound ==
    ASSUME NEW rs, Sound(rs), NEW n \in Names, NEW id \in RowIds \ IdsIn(rs)
    PROVE  /\ Sound(Appended(rs, n, id))
           /\ (n \notin NamesIn(rs) /\ UniqueNames(rs)) => UniqueNames(Appended(rs, n, id))
           /\ IdsIn(Appended(rs, n, id)) = IdsIn(rs) \cup {id}
           /\ rs \subseteq Appended(rs, n, id)
           /\ \A r \in Appended(rs, n, id) : r \in rs \/ (r.id = id /\ r.name = n /\ r.status = "pending")
<1>1. PICK at \in Nat : /\ Appended(rs, n, id) = rs \cup {NewRow(at, n, id)}
                        /\ \A r \in rs : r.at < at
  BY AppendedLast
<1> DEFINE new == NewRow(at, n, id)
<1>2. /\ new \in Row /\ new.at = at /\ new.name = n /\ new.id = id /\ new.status = "pending"
      /\ \A r \in rs : r.at \in Nat /\ r.id # id
  BY DEF NewRow, Row, Sound, IdsIn
<1> HIDE DEF new
<1>3. Sound(rs \cup {new})
  <2>1. \A r, s \in rs \cup {new} : r.id = s.id => r = s
    BY <1>2 DEF Sound
  <2>2. \A r, s \in rs \cup {new} : r.at = s.at => r = s
    BY <1>1, <1>2 DEF Sound
  <2>3. \A r \in rs \cup {new} : r.at <= at
    BY <1>1, <1>2
  <2> QED
    BY <1>2, <2>1, <2>2, <2>3 DEF Sound
<1>4. ASSUME n \notin NamesIn(rs), UniqueNames(rs) PROVE UniqueNames(rs \cup {new})
  BY <1>2, <1>4 DEF UniqueNames, NamesIn
<1>5. IdsIn(rs \cup {new}) = IdsIn(rs) \cup {id}
  BY <1>2 DEF IdsIn
<1>6. Appended(rs, n, id) = rs \cup {new}
  BY <1>1 DEF new
<1> QED
  BY <1>2, <1>3, <1>4, <1>5, <1>6

(* Only an enqueue adds a row; every other section revises those there are.*)
Others == SectionPcs \ {"create"}

(* What a section may make of a row that stays: a revision keeps its       *)
(* status, but force-fail settles a running row of its own name; and it    *)
(* drops rows only as duplicates or when they are pending and deleted.     *)
Kept(r, s, c) ==
    /\ r.at = s.at /\ r.name = s.name /\ r.id = s.id
    /\ \/ r.status = s.status /\ r.owner = s.owner
       \/ /\ cmd[c].pc = "forceFail" /\ s.name = cmd[c].name
          /\ s.status = "running" /\ r.status = "stopped"

LEMMA EditRevises ==
    ASSUME NEW rs, rs \subseteq Row, NEW c \in Commands, cmd[c].pc \in Others
    PROVE  \E T, g : /\ Revises(rs, T, g)
                     /\ Edit(rs, c) = Image(T, g)
                     /\ \A s \in T : g[s] \in Row /\ Kept(g[s], s, c)
                     /\ \A s \in rs \ T : Sanitizing(c) \/ (cmd[c].pc = "delete" /\ s.status = "pending")
                     /\ (UniqueNames(rs) /\ Sanitizing(c)) => T = rs
<1> DEFINE n == cmd[c].name
           pc == cmd[c].pc
           Fits(T, g) == /\ Revises(rs, T, g)
                         /\ Edit(rs, c) = Image(T, g)
                         /\ \A s \in T : g[s] \in Row /\ Kept(g[s], s, c)
                         /\ \A s \in rs \ T : Sanitizing(c) \/ (pc = "delete" /\ s.status = "pending")
                         /\ (UniqueNames(rs) /\ Sanitizing(c)) => T = rs
<1> SUFFICES \E T, g : Fits(T, g)
  OBVIOUS
<1>1. ASSUME NEW T \in SUBSET rs, Edit(rs, c) = T,
             \A s \in rs \ T : Sanitizing(c) \/ (pc = "delete" /\ s.status = "pending"),
             (UniqueNames(rs) /\ Sanitizing(c)) => T = rs
      PROVE  \E TT, g : Fits(TT, g)
  <2> DEFINE g == [s \in T |-> s]
  <2>1. Fits(T, g)
    BY <1>1 DEF Revises, Image, Kept
  <2> QED
    BY <2>1
<1>2. ASSUME NEW g, g = [s \in rs |-> g[s]], Edit(rs, c) = Image(rs, g), ~Sanitizing(c),
             \A s \in rs : g[s] \in Row /\ Kept(g[s], s, c)
      PROVE  \E T, gg : Fits(T, gg)
  <2>1. Fits(rs, g)
    BY <1>2 DEF Revises, Kept
  <2> QED
    BY <2>1
<1>3. CASE Sanitizing(c)
  <2>1. Edit(rs, c) = Dedupe(rs)
    BY <1>3 DEF Edit, Sanitizing, SanitizingPcs
  <2>2. Dedupe(rs) \in SUBSET rs
    BY DEF Dedupe
  <2>3. UniqueNames(rs) => Dedupe(rs) = rs
    BY DEF UniqueNames, Dedupe, Row
  <2> QED
    BY <1>1, <1>3, <2>1, <2>2, <2>3
<1>4. CASE pc = "delete"
  <2>1. Edit(rs, c) = rs \ Pending(Named(rs, n)) /\ ~Sanitizing(c)
    BY <1>4 DEF Edit, Sanitizing, SanitizingPcs, Delete
  <2> QED
    BY <1>1, <1>4, <2>1 DEF Pending
<1>5. CASE pc = "swap"
  <2> DEFINE g == [r \in rs |-> IF r \in Pending(Named(rs, n)) THEN [r EXCEPT !.workflow = c] ELSE r]
  <2>1. Edit(rs, c) = Image(rs, g) /\ ~Sanitizing(c)
    BY <1>5 DEF Edit, Sanitizing, SanitizingPcs, Swap, Image
  <2>2. \A r \in rs : g[r] \in Row /\ Kept(g[r], r, c)
    BY DEF Row, Kept
  <2> HIDE DEF g
  <2>3. g = [r \in rs |-> g[r]]
    BY DEF g
  <2> QED
    BY <1>2, <2>1, <2>2, <2>3
<1>6. CASE pc = "annotate"
  <2> DEFINE g == [r \in rs |-> IF r \in Named(rs, n) THEN [r EXCEPT !.issue = c] ELSE r]
  <2>1. Edit(rs, c) = Image(rs, g) /\ ~Sanitizing(c)
    BY <1>6 DEF Edit, Sanitizing, SanitizingPcs, Annotate, Image
  <2>2. \A r \in rs : g[r] \in Row /\ Kept(g[r], r, c)
    BY DEF Row, Kept
  <2> HIDE DEF g
  <2>3. g = [r \in rs |-> g[r]]
    BY DEF g
  <2> QED
    BY <1>2, <2>1, <2>2, <2>3
<1>7. CASE pc = "forceFail"
  <2> DEFINE forced == Named({x \in rs : x.status = "running"}, n)
             g == [r \in rs |-> IF r \in forced THEN [r EXCEPT !.status = "stopped", !.owner = NoPid]
                                ELSE r]
  <2>1. Edit(rs, c) = Image(rs, g) /\ ~Sanitizing(c)
    BY <1>7 DEF Edit, Sanitizing, SanitizingPcs, ForceFail, Image
  <2>2. \A r \in forced : r.status = "running" /\ r.name = n
    BY DEF Named, Earliest
  <2>3. \A r \in rs : g[r] \in Row /\ Kept(g[r], r, c)
    <3> SUFFICES ASSUME NEW r \in rs PROVE g[r] \in Row /\ Kept(g[r], r, c)
      OBVIOUS
    <3> HIDE DEF forced
    <3>1. CASE r \in forced
      <4>1. g[r] = [r EXCEPT !.status = "stopped", !.owner = NoPid] /\ r \in Row
        BY <3>1
      <4> QED
        BY <1>7, <2>2, <3>1, <4>1 DEF Row, Kept
    <3>2. CASE r \notin forced
      BY <3>2 DEF Kept
    <3> QED
      BY <3>1, <3>2
  <2> HIDE DEF g
  <2>4. g = [r \in rs |-> g[r]]
    BY DEF g
  <2> QED
    BY <1>2, <2>1, <2>3, <2>4
<1>8. CASE pc \in {"resolve", "migrate"}
  <2>1. Edit(rs, c) = rs /\ ~Sanitizing(c)
    BY <1>8 DEF Edit, Sanitizing, SanitizingPcs
  <2> QED
    BY <1>1, <2>1
<1> QED
  BY <1>3, <1>4, <1>5, <1>6, <1>7, <1>8 DEF Others, SectionPcs, Sanitizing, SanitizingPcs

-----------------------------------------------------------------------------
(* The inductive invariant.                                                *)

(* Names: what an enqueue may have to avoid was given to rows ever stored. *)
Gives(f) ==
    /\ f \in [created -> Names]
    /\ \A r \in rows : f[r.id] = r.name
    /\ \A c \in Commands : cmd[c].existing \subseteq {f[i] : i \in created}
NamesGiven == \E f : Gives(f)

(* Whoever is inside the section and has not left at once holds a plan,    *)
(* made of the rows that are still on file.                                *)
SectionHeld ==
    /\ \A c \in Commands : plan[c] # NoPlan => section = c
    /\ section # Nobody =>
         /\ cmd[section].pc \in SectionPcs
         /\ plan[section] = [rows |-> Edit(rows, section),
                             drop |-> IdsIn(rows) \ IdsIn(Edit(rows, section))]
         /\ plan[section] # NoPlan
    /\ writer # Nobody => section = writer

(* What a stop is after: the row it found running under a pid is still     *)
(* there and, while it runs, has this pid.                                 *)
Target(l) ==
    /\ l.pid \in Pids /\ procs[l.pid] # "none"
    /\ \E r \in rows : /\ r.name = l.name /\ r.status # "pending"
                       /\ r.status = "running" => r.owner = l.pid

(* The locals l of command c agree with the file and the processes.        *)
Agrees(l, c) ==
    /\ l.pc \in {"idle", "check", "sanitize", "add", "create"} => c \notin created
    /\ l.pc = "idle" => l.got = Nobody
    /\ l.pc \in {"add", "list"} => l.mode = "takt_add"
    /\ (l.mode = "package_writer" /\ l.got # Nobody) => l.got = c
    /\ l.pc = "spawn" => UniqueNames(rows)
    /\ l.pc \in {"signal", "poll", "forceFail"} => Target(l)
    /\ l.pc \in {"poll", "forceFail"} => procs[l.pid] = "dead"

Accounted == NoRowLost /\ removed \subseteq created

(* The package of a new row is there before the row is.                    *)
Packed ==
    /\ QueuedHasPackage
    /\ (writer # Nobody /\ cmd[writer].pc = "create") => writer \in packages

OwnersRan ==
    /\ \A r \in rows : r.status = "running" => r.owner \in Pids /\ procs[r.owner] # "none"
    /\ \A p \in Pids : procs[p] # "alive" => work[p] = Nobody

IInv ==
    /\ TypeOK
    /\ Sound(rows)
    /\ NamesGiven
    /\ SectionHeld
    /\ \A c \in Commands : Agrees(cmd[c], c)
    /\ Accounted
    /\ Packed
    /\ OwnersRan
    /\ TaktAcceptsFile
    /\ RunsAreOnFile

LEMMA InitIInv == Init => IInv
<1> SUFFICES ASSUME Init PROVE IInv
  OBVIOUS
<1> USE IdsAssumption, NobodyAssumption, BoundAssumption DEF Init
<1>1. RowIds # {} => 1 \in Names
  <2>1. IsFiniteSet(RowIds) /\ Cardinality(RowIds) \in Nat
    BY FS_Union, FS_CardinalityType DEF RowIds
  <2>2. RowIds # {} => Cardinality(RowIds) # 0
    BY <2>1, FS_EmptySet
  <2> QED
    BY <2>1, <2>2 DEF Names
<1>2. /\ rows \subseteq Row
      /\ \A r \in rows : r.name = 1 /\ r.at <= 2 /\ r.status # "running" /\ r.id \in Seeds
      /\ \A r, s \in rows : r.at = s.at => r = s
  <2>1. rows \in InitialRows
    OBVIOUS
  <2>2. CASE rows = {}
    BY <2>2
  <2>3. CASE \E s \in Seeds : rows = {NewRow(1, 1, s)}
    <3>1. PICK s \in Seeds : rows = {NewRow(1, 1, s)}
      BY <2>3
    <3> DEFINE r == NewRow(1, 1, s)
    <3>2. r \in Row /\ r.name = 1 /\ r.at = 1 /\ r.status = "pending" /\ r.id = s
      BY <1>1 DEF NewRow, Row, RowIds
    <3> HIDE DEF r
    <3>3. rows = {r}
      BY <3>1 DEF r
    <3> QED
      BY <3>2, <3>3
  <2>4. CASE \E s \in Seeds, t \in Seeds, st \in {"pending", "completed"} :
                rows = {NewRow(1, 1, s), [NewRow(2, 1, t) EXCEPT !.status = st]}
    <3>1. PICK s \in Seeds, t \in Seeds, st \in {"pending", "completed"} :
                rows = {NewRow(1, 1, s), [NewRow(2, 1, t) EXCEPT !.status = st]}
      BY <2>4
    <3> DEFINE r == NewRow(1, 1, s)
               q == [NewRow(2, 1, t) EXCEPT !.status = st]
    <3>2. r \in Row /\ r.name = 1 /\ r.at = 1 /\ r.status = "pending" /\ r.id = s
      BY <1>1 DEF NewRow, Row, RowIds
    <3>3. q \in Row /\ q.name = 1 /\ q.at = 2 /\ q.status = st /\ q.id = t
      BY <1>1 DEF NewRow, Row, RowIds
    <3> HIDE DEF r, q
    <3>4. rows = {r, q}
      BY <3>1 DEF r, q
    <3> QED
      BY <3>2, <3>3, <3>4
  <2> QED
    BY <2>1, <2>2, <2>3, <2>4 DEF InitialRows
<1>3. Sound(rows)
  BY <1>2 DEF Sound
<1>4. TypeOK
  <2>1. cmd \in [Commands -> Local]
    BY <1>1, ModeAssumption DEF Local, Pcs, SectionPcs, SanitizingPcs, Ops, RowIds
  <2>2. plan \in [Commands -> Plan]
    BY DEF NoPlan, Plan
  <2>3. IdsIn(rows) \subseteq RowIds
    BY <1>2 DEF IdsIn, RowIds
  <2> QED
    BY <1>2, <2>1, <2>2, <2>3 DEF TypeOK
<1>5. NamesGiven
  <2> DEFINE f == [i \in created |-> 1]
  <2>1. created # {} => 1 \in Names
    BY <1>1, <1>2 DEF IdsIn, RowIds
  <2>2. f \in [created -> Names]
    BY <2>1
  <2>3. \A r \in rows : r.id \in created
    BY DEF IdsIn
  <2>4. Gives(f)
    BY <1>2, <2>2, <2>3 DEF Gives
  <2> QED
    BY <2>4 DEF NamesGiven
<1>6. SectionHeld
  BY DEF SectionHeld
<1>7. \A c \in Commands : Agrees(cmd[c], c)
  BY <1>2 DEF Agrees, IdsIn
<1>8. Accounted
  BY DEF Accounted, NoRowLost
<1>9. Packed
  BY DEF Packed, QueuedHasPackage, IdsIn
<1>10. OwnersRan /\ TaktAcceptsFile /\ RunsAreOnFile
  BY <1>2 DEF OwnersRan, TaktAcceptsFile, RunsAreOnFile
<1> QED
  BY <1>3, <1>4, <1>5, <1>6, <1>7, <1>8, <1>9, <1>10 DEF IInv

-----------------------------------------------------------------------------
(* Steps outside the section.                                              *)

LEMMA EditSame ==
    ASSUME NEW c \in Commands, cmd'[c] = cmd[c], UNCHANGED rows
    PROVE  (Edit(rows, c))' = Edit(rows, c)
  BY DEF Edit, Create, Delete, Swap, Annotate, ForceFail, SanitizingPcs

(* The locals a command moves on to; the file, the lock and takt stay.     *)
LEMMA LocalIInv ==
    ASSUME IInv, UNCHANGED <<file, lock, takt, history>>,
           cmd' \in [Commands -> Local],
           \A d \in Commands : /\ cmd'[d].existing \in {cmd[d].existing, NamesIn(rows), {}}
                               /\ Agrees(cmd'[d], d)
                               /\ cmd'[d] = cmd[d] \/ section # d
    PROVE  IInv'
<1> USE DEF file, lock, takt, history
<1>1. TypeOK'
  BY DEF IInv, TypeOK
<1>2. Sound(rows)'
  BY DEF IInv, Sound
<1>3. NamesGiven'
  <2>1. PICK f : Gives(f)
    BY DEF IInv, NamesGiven
  <2>2. \A r \in rows : r.id \in created
    BY DEF IInv, Accounted, NoRowLost, IdsIn
  <2>3. NamesIn(rows) \subseteq {f[i] : i \in created}
    BY <2>1, <2>2 DEF Gives, NamesIn
  <2>4. \A d \in Commands : cmd'[d].existing \subseteq {f[i] : i \in created}
    BY <2>1, <2>3 DEF Gives
  <2>5. Gives(f)'
    BY <2>1, <2>4 DEF Gives
  <2> QED
    BY <2>5 DEF NamesGiven
<1>4. SectionHeld'
  <2>1. CASE section = Nobody
    BY <2>1 DEF IInv, SectionHeld
  <2>2. CASE section # Nobody
    <3>1. section \in Commands /\ cmd'[section] = cmd[section]
      BY <2>2 DEF IInv, TypeOK
    <3>2. Edit(rows, section)' = Edit(rows, section)
      BY <3>1, EditSame
    <3> QED
      BY <3>1, <3>2 DEF IInv, SectionHeld, IdsIn
  <2> QED
    BY <2>1, <2>2
<1>5. (\A c \in Commands : Agrees(cmd[c], c))'
  BY DEF Agrees, Target
<1>6. Accounted'
  BY DEF IInv, Accounted, NoRowLost
<1>7. Packed'
  <2>1. \A d \in Commands, x \in RowIds : x \in plan[d].drop => cmd'[d] = cmd[d]
    BY DEF IInv, SectionHeld, NoPlan
  <2>2. QueuedHasPackage'
    <3>1. \A r \in rows : r.id \in RowIds
      BY DEF IInv, TypeOK, Row
    <3> QED
      BY <2>1, <3>1 DEF IInv, Packed, QueuedHasPackage, Sanitizing
  <2>3. writer # Nobody => writer \in Commands /\ cmd'[writer] = cmd[writer]
    BY DEF IInv, SectionHeld, TypeOK
  <2> QED
    BY <2>2, <2>3 DEF IInv, Packed
<1>8. OwnersRan' /\ TaktAcceptsFile' /\ RunsAreOnFile'
  BY DEF IInv, OwnersRan, TaktAcceptsFile, RunsAreOnFile
<1> QED
  BY <1>1, <1>2, <1>3, <1>4, <1>5, <1>6, <1>7, <1>8 DEF IInv

LEMMA OneIInv ==
    ASSUME IInv, UNCHANGED <<file, lock, takt, history>>, NEW c \in Commands, NEW l \in Local,
           cmd' = [cmd EXCEPT ![c] = l],
           l.existing \in {cmd[c].existing, NamesIn(rows), {}}, Agrees(l, c), section # c
    PROVE  IInv'
<1>1. cmd' \in [Commands -> Local] /\ cmd'[c] = l /\ \A d \in Commands \ {c} : cmd'[d] = cmd[d]
  BY DEF IInv, TypeOK
<1>2. \A d \in Commands : Agrees(cmd[d], d)
  BY DEF IInv
<1> QED
  BY <1>1, <1>2, LocalIInv

(* Ending, or going on to a place of which nothing special is known.       *)
Plain == {"resolve", "swap", "delete", "migrate", "annotate", "sanitizeRun", "sanitizeAdded",
          "dispatch", "wait", "done", "failed"}

LEMMA PlainIInv ==
    ASSUME IInv, UNCHANGED <<file, lock, takt, history>>, NEW c \in Commands,
           NEW pc \in Plain, Goto(c, pc), section # c, cmd[c].pc # "idle"
    PROVE  IInv'
<1> DEFINE l == [cmd[c] EXCEPT !.pc = pc]
<1>1. cmd[c] \in Local /\ Agrees(cmd[c], c)
  BY DEF IInv, TypeOK
<1>2. /\ l \in Local /\ l.pc = pc /\ l.mode = cmd[c].mode /\ l.got = cmd[c].got
      /\ l.existing = cmd[c].existing
  BY <1>1 DEF Local, Plain, Pcs, SectionPcs, SanitizingPcs
<1>3. cmd' = [cmd EXCEPT ![c] = l]
  BY DEF Goto
<1> HIDE DEF l
<1>4. Agrees(l, c)
  BY <1>1, <1>2 DEF Agrees, Plain
<1> QED
  BY <1>2, <1>3, <1>4, OneIInv

LEMMA OutsideSection ==
    ASSUME IInv, NEW c \in Commands, cmd[c].pc \notin SectionPcs
    PROVE  section # c
  BY NobodyAssumption DEF IInv, SectionHeld

LEMMA BeginIInv ==
    ASSUME IInv, NEW c \in Commands, Begin(c)
    PROVE  IInv'
<1>1. PICK op \in Ops, n \in Names : Start(c, op, n)
  BY OfferedAssumption DEF Begin
<1> DEFINE l == [cmd[c] EXCEPT !.pc = FirstPc(op), !.op = op, !.name = n]
<1>2. cmd[c] \in Local /\ Agrees(cmd[c], c) /\ cmd[c].pc = "idle"
  BY <1>1 DEF IInv, TypeOK, Start
<1>3. FirstPc(op) \in {"delete", "migrate", "check"}
  BY DEF FirstPc
<1>4. l \in Local /\ l.pc = FirstPc(op) /\ l.got = cmd[c].got /\ l.existing = cmd[c].existing
  BY <1>2, <1>3 DEF Local, Pcs, SectionPcs, SanitizingPcs
<1>5. cmd' = [cmd EXCEPT ![c] = l] /\ UNCHANGED <<file, lock, takt, history>>
  BY <1>1 DEF Start
<1> HIDE DEF l
<1>6. Agrees(l, c)
  BY <1>2, <1>3, <1>4 DEF Agrees
<1>7. section # c
  BY <1>2, OutsideSection DEF SectionPcs, SanitizingPcs
<1> QED
  BY <1>4, <1>5, <1>6, <1>7, OneIInv

LEMMA ListingIInv ==
    ASSUME IInv, NEW c \in Commands, ListExisting(c) \/ FindOrigin(c)
    PROVE  IInv'
<1> DEFINE l == [cmd[c] EXCEPT !.pc = "sanitize", !.existing = NamesIn(ReadFresh)]
<1>1. /\ cmd[c] \in Local /\ Agrees(cmd[c], c) /\ cmd[c].pc = "check"
      /\ UNCHANGED <<file, lock, takt, history>>
  BY DEF IInv, TypeOK, ListExisting, FindOrigin
<1>2. section # c
  BY <1>1, OutsideSection DEF SectionPcs, SanitizingPcs
<1>3. NamesIn(ReadFresh) \in {NamesIn(rows), {}}
  BY DEF ReadFresh, NamesIn
<1>4. NamesIn(ReadFresh) \subseteq Names
  <2>1. NamesIn(rows) \subseteq Names
    BY DEF NamesIn, IInv, TypeOK, Row
  <2> QED
    BY <1>3, <2>1
<1>5. CASE cmd' = [cmd EXCEPT ![c] = l]
  <2>1. /\ l \in Local /\ l.pc = "sanitize" /\ l.mode = cmd[c].mode /\ l.got = cmd[c].got
        /\ l.existing = NamesIn(ReadFresh)
    BY <1>1, <1>4 DEF Local, Pcs, SectionPcs, SanitizingPcs
  <2> HIDE DEF l
  <2>2. Agrees(l, c)
    BY <1>1, <2>1 DEF Agrees
  <2> QED
    BY <1>1, <1>2, <1>3, <1>5, <2>1, <2>2, OneIInv
<1>6. CASE Goto(c, "failed")
  BY <1>1, <1>2, <1>6, PlainIInv DEF Plain
<1> QED
  BY <1>5, <1>6 DEF ListExisting, FindOrigin, Goto

LEMMA CheckIInv ==
    ASSUME IInv, NEW c \in Commands,
           CheckSwap(c) \/ CheckRun(c) \/ CheckStop(c) \/ TaktAddFails(c) \/ Fallback(c)
             \/ StopTimeout(c)
    PROVE  IInv'
<1>1. cmd[c].pc \in {"check", "add", "wait", "signal"} /\ UNCHANGED <<file, lock, takt, history>>
  BY DEF CheckSwap, CheckRun, CheckStop, TaktAddFails, Fallback, StopTimeout
<1>2. section # c
  BY <1>1, OutsideSection DEF SectionPcs, SanitizingPcs
<1>3. PICK pc \in Plain : Goto(c, pc)
  BY DEF CheckSwap, CheckRun, CheckStop, TaktAddFails, Fallback, StopTimeout, Plain
<1> QED
  BY <1>1, <1>2, <1>3, PlainIInv

(* A later timer for the same task replaces the one of another command.    *)
LEMMA DispatchIInv ==
    ASSUME IInv, NEW c \in Commands, Dispatch(c)
    PROVE  IInv'
<1>1. cmd[c].pc = "dispatch" /\ UNCHANGED <<file, lock, takt, history>>
  BY DEF Dispatch
<1>2. section # c
  BY <1>1, OutsideSection DEF SectionPcs, SanitizingPcs
<1>3. CASE Goto(c, "sanitizeRun")
  BY <1>1, <1>2, <1>3, PlainIInv DEF Plain
<1>4. CASE cmd' = [d \in Commands |->
                    IF d = c THEN [cmd[c] EXCEPT !.pc = "wait"]
                    ELSE IF cmd[d].pc = "wait" /\ cmd[d].name = cmd[c].name
                         THEN [cmd[d] EXCEPT !.pc = "done"] ELSE cmd[d]]
  <2>1. \A d \in Commands : cmd[d] \in Local /\ Agrees(cmd[d], d)
    BY DEF IInv, TypeOK
  <2>2. ASSUME NEW d \in Commands, NEW pc \in {"wait", "done"},
               cmd'[d] = [cmd[d] EXCEPT !.pc = pc], cmd[d].pc \in {"wait", "dispatch"}
        PROVE  /\ cmd'[d] \in Local /\ Agrees(cmd'[d], d)
               /\ cmd'[d].existing = cmd[d].existing /\ section # d
    <3> DEFINE l == [cmd[d] EXCEPT !.pc = pc]
    <3>1. /\ l \in Local /\ l.pc = pc /\ l.mode = cmd[d].mode /\ l.got = cmd[d].got
          /\ l.existing = cmd[d].existing
      BY <2>1 DEF Local, Pcs, SectionPcs, SanitizingPcs
    <3> HIDE DEF l
    <3>2. Agrees(l, d)
      BY <2>1, <2>2, <3>1 DEF Agrees
    <3>3. section # d
      BY <2>2, OutsideSection DEF SectionPcs, SanitizingPcs
    <3>4. cmd'[d] = l
      BY <2>2 DEF l
    <3> QED
      BY <3>1, <3>2, <3>3, <3>4
  <2>3. ASSUME NEW d \in Commands
        PROVE  /\ cmd'[d] \in Local /\ Agrees(cmd'[d], d)
               /\ cmd'[d].existing = cmd[d].existing
               /\ cmd'[d] = cmd[d] \/ section # d
    <3>1. CASE d = c
      BY <1>1, <1>4, <2>2, <3>1
    <3>2. CASE d # c /\ cmd[d].pc = "wait" /\ cmd[d].name = cmd[c].name
      BY <1>4, <2>2, <3>2
    <3>3. CASE d # c /\ ~(cmd[d].pc = "wait" /\ cmd[d].name = cmd[c].name)
      BY <1>4, <2>1, <3>3
    <3> QED
      BY <3>1, <3>2, <3>3
  <2>4. cmd' \in [Commands -> Local]
    BY <1>4, <2>3
  <2> QED
    BY <1>1, <2>3, <2>4, LocalIInv
<1> QED
  BY <1>3, <1>4 DEF Dispatch

LEMMA DiscoverIInv ==
    ASSUME IInv, NEW c \in Commands, Discover(c)
    PROVE  IInv'
<1>1. /\ cmd[c] \in Local /\ Agrees(cmd[c], c) /\ cmd[c].pc = "list"
      /\ UNCHANGED <<file, lock, takt, history>>
  BY DEF IInv, TypeOK, Discover
<1>2. section # c
  BY <1>1, OutsideSection DEF SectionPcs, SanitizingPcs
<1>3. ASSUME NEW r \in rows,
             cmd' = [cmd EXCEPT ![c].pc = "sanitizeAdded", ![c].name = r.name, ![c].got = r.id]
      PROVE  IInv'
  <2> DEFINE l == [cmd[c] EXCEPT !.pc = "sanitizeAdded", !.name = r.name, !.got = r.id]
  <2>1. r.name \in Names /\ r.id \in RowIds
    BY DEF IInv, TypeOK, Row
  <2>2. /\ l \in Local /\ l.pc = "sanitizeAdded" /\ l.mode = cmd[c].mode
        /\ l.existing = cmd[c].existing
    BY <1>1, <2>1 DEF Local, Pcs, SectionPcs, SanitizingPcs
  <2>3. cmd' = [cmd EXCEPT ![c] = l]
    BY <1>3
  <2> HIDE DEF l
  <2>4. Agrees(l, c)
    BY <1>1, <2>2 DEF Agrees
  <2> QED
    BY <1>1, <1>2, <2>2, <2>3, <2>4, OneIInv
<1>4. CASE Goto(c, "failed")
  BY <1>1, <1>2, <1>4, PlainIInv DEF Plain
<1> QED
  BY <1>3, <1>4 DEF Discover, Earliest, ReadFresh

(* A stop waits for its pid to be gone, and then for takt to settle the row.*)
LEMMA WaitIInv ==
    ASSUME IInv, NEW c \in Commands, AwaitExit(c) \/ Poll(c)
    PROVE  IInv'
<1>1. /\ cmd[c] \in Local /\ Agrees(cmd[c], c) /\ cmd[c].pc \in {"signal", "poll"}
      /\ UNCHANGED <<file, lock, takt, history>>
      /\ Target(cmd[c]) /\ procs[cmd[c].pid] = "dead"
  BY DEF IInv, TypeOK, AwaitExit, Poll, Agrees
<1>2. section # c
  BY <1>1, OutsideSection DEF SectionPcs, SanitizingPcs
<1>3. ASSUME NEW l \in Local, cmd' = [cmd EXCEPT ![c] = l],
             l.pc \in {"poll", "forceFail"}, l.mode = cmd[c].mode, l.got = cmd[c].got,
             l.pid = cmd[c].pid, l.name = cmd[c].name, l.existing = cmd[c].existing
      PROVE  IInv'
  <2>1. Agrees(l, c)
    BY <1>1, <1>3 DEF Agrees, Target
  <2> QED
    BY <1>1, <1>2, <1>3, <2>1, OneIInv
<1>4. CASE Goto(c, "done")
  BY <1>1, <1>2, <1>4, PlainIInv DEF Plain
<1>5. ASSUME NEW pc \in {"poll", "forceFail"}, Goto(c, pc) PROVE IInv'
  <2> DEFINE l == [cmd[c] EXCEPT !.pc = pc]
  <2>1. /\ l \in Local /\ l.pc = pc /\ l.mode = cmd[c].mode /\ l.got = cmd[c].got
        /\ l.pid = cmd[c].pid /\ l.name = cmd[c].name /\ l.existing = cmd[c].existing
    BY <1>1 DEF Local, Pcs, SectionPcs, SanitizingPcs
  <2>2. cmd' = [cmd EXCEPT ![c] = l]
    BY <1>5 DEF Goto
  <2> HIDE DEF l
  <2> QED
    BY <1>3, <2>1, <2>2
<1>6. ASSUME cmd[c].polls + 1 < MaxPolls, cmd' = [cmd EXCEPT ![c] = [cmd[c] EXCEPT !.polls = cmd[c].polls + 1]],
             cmd[c].pc = "poll"
      PROVE  IInv'
  <2> DEFINE l == [cmd[c] EXCEPT !.polls = cmd[c].polls + 1]
  <2>1. cmd[c].polls + 1 \in 0..(MaxPolls - 1)
    BY <1>1, <1>6, BoundAssumption DEF Local
  <2>2. /\ l \in Local /\ l.pc = "poll" /\ l.mode = cmd[c].mode /\ l.got = cmd[c].got
        /\ l.pid = cmd[c].pid /\ l.name = cmd[c].name /\ l.existing = cmd[c].existing
    BY <1>1, <1>6, <2>1 DEF Local
  <2>3. cmd' = [cmd EXCEPT ![c] = l]
    BY <1>6
  <2> HIDE DEF l
  <2> QED
    BY <1>3, <2>2, <2>3
<1>7. CASE AwaitExit(c)
  BY <1>5, <1>7 DEF AwaitExit
<1>8. CASE Poll(c)
  <2>1. CASE ~IsStatus(ReadFresh, cmd[c].name, "running")
    <3>1. Goto(c, "done")
      BY <1>8, <2>1 DEF Poll
    <3> QED
      BY <1>4, <3>1
  <2>2. CASE IsStatus(ReadFresh, cmd[c].name, "running") /\ cmd[c].polls + 1 < MaxPolls
    <3>1. cmd' = [cmd EXCEPT ![c] = [cmd[c] EXCEPT !.polls = cmd[c].polls + 1]] /\ cmd[c].pc = "poll"
      BY <1>1, <1>8, <2>2 DEF Poll, Local
    <3> QED
      BY <1>6, <2>2, <3>1
  <2>3. CASE IsStatus(ReadFresh, cmd[c].name, "running") /\ ~(cmd[c].polls + 1 < MaxPolls)
    <3>1. Goto(c, "forceFail")
      BY <1>8, <2>3 DEF Poll
    <3> QED
      BY <1>5, <3>1
  <2> QED
    BY <2>1, <2>2, <2>3
<1> QED
  BY <1>7, <1>8

-----------------------------------------------------------------------------
(* Steps into the section and out of it.                                   *)

(* An enqueue appends a row of its own, under a name that nobody has.      *)
LEMMA CreateAppends ==
    ASSUME IInv, NEW c \in Commands, cmd[c].pc = "create"
    PROVE  /\ c \in RowIds \ created
           /\ \E n \in Names \ NamesIn(rows) : Edit(rows, c) = Appended(rows, n, c)
<1>1. c \in RowIds \ created /\ IdsIn(rows) \subseteq created /\ created \in SUBSET RowIds
  BY DEF IInv, Agrees, RowIds, Accounted, NoRowLost, TypeOK
<1>2. PICK f : Gives(f)
  BY DEF IInv, NamesGiven
<1> DEFINE taken == NamesIn(rows) \cup cmd[c].existing
<1>3. taken \in SUBSET {f[i] : i \in created}
  <2>1. NamesIn(rows) \subseteq {f[i] : i \in created}
    BY <1>1, <1>2 DEF Gives, NamesIn, IdsIn
  <2>2. cmd[c].existing \subseteq {f[i] : i \in created}
    BY <1>2 DEF Gives
  <2> QED
    BY <2>1, <2>2
<1>4. UniqueTaskId(taken) \in Names \ taken
  <2>1. f \in [created -> Names]
    BY <1>2 DEF Gives
  <2> HIDE DEF taken
  <2> QED
    BY <1>1, <1>3, <2>1, FreshName
<1>5. Edit(rows, c) = Appended(rows, UniqueTaskId(taken), c)
  BY DEF Edit, Create, SanitizingPcs
<1> QED
  BY <1>1, <1>4, <1>5

(* A row that c adds under a new name.                                     *)
Adds(new, c) ==
    /\ Sound(new)
    /\ UniqueNames(rows) => UniqueNames(new)
    /\ IdsIn(new) = IdsIn(rows) \cup {c}
    /\ rows \subseteq new
    /\ \E n \in Names \ NamesIn(rows) : \A r \in new :
            r \in rows \/ (r.id = c /\ r.name = n /\ r.status = "pending")

LEMMA NewNameAdds ==
    ASSUME IInv, NEW c \in RowIds \ created, NEW n \in Names \ NamesIn(rows)
    PROVE  Adds(Appended(rows, n, c), c)
<1>1. n \in Names /\ n \notin NamesIn(rows)
  OBVIOUS
<1>2. Sound(rows) /\ c \in RowIds \ IdsIn(rows)
  BY DEF IInv, Accounted, NoRowLost
<1> DEFINE new == Appended(rows, n, c)
<1>3. /\ Sound(new)
      /\ (n \notin NamesIn(rows) /\ UniqueNames(rows)) => UniqueNames(new)
      /\ IdsIn(new) = IdsIn(rows) \cup {c}
      /\ rows \subseteq new
      /\ \A r \in new : r \in rows \/ (r.id = c /\ r.name = n /\ r.status = "pending")
  BY <1>1, <1>2, AppendedSound
<1> HIDE DEF new
<1>4. Adds(new, c)
  BY <1>1, <1>3 DEF Adds
<1> QED
  BY <1>4 DEF new

LEMMA CreateAdds ==
    ASSUME IInv, NEW c \in Commands, cmd[c].pc = "create"
    PROVE  c \in RowIds \ created /\ Adds(Edit(rows, c), c)
  BY CreateAppends, NewNameAdds

(* Of the rows with one name, one comes first.                             *)
LEMMA NamedIsOne ==
    ASSUME NEW rs, Sound(rs), NEW n, NEW r \in Named(rs, n), NEW s \in Named(rs, n)
    PROVE  r = s /\ r \in rs /\ r.name = n
<1>1. r \in rs /\ s \in rs /\ r.name = n /\ r.at <= s.at /\ s.at <= r.at
  BY DEF Named, Earliest
<1>2. r.at \in Nat /\ s.at \in Nat
  BY <1>1 DEF Sound, Row
<1> QED
  BY <1>1, <1>2 DEF Sound

LEMMA OwnerIsTarget ==
    ASSUME IInv, NEW l, l.pid = OwnerOf(rows, l.name), l.pid # NoPid
    PROVE  Target(l)
<1>1. IsStatus(rows, l.name, "running")
  BY DEF OwnerOf
<1>2. PICK r \in Named(rows, l.name) : r.status = "running"
  BY <1>1 DEF IsStatus
<1>3. (CHOOSE s \in Named(rows, l.name) : TRUE) = r /\ r \in rows /\ r.name = l.name
  BY <1>2, NamedIsOne DEF IInv
<1>4. l.pid = r.owner
  BY <1>1, <1>3 DEF OwnerOf
<1> QED
  BY <1>2, <1>3, <1>4 DEF IInv, OwnersRan, Target

(* A section that has nothing to change.                                   *)
LEMMA LeaveIInv ==
    ASSUME IInv, NEW c \in Commands, cmd[c].pc \in SectionPcs, section = Nobody,
           Edit(rows, c) = rows, cmd' = [cmd EXCEPT ![c] = AfterSection(c, FALSE)],
           UNCHANGED <<file, lock, takt, history>>
    PROVE  IInv'
<1>1. cmd[c] \in Local /\ Agrees(cmd[c], c)
  BY DEF IInv, TypeOK
<1>2. section # c
  BY NobodyAssumption
<1>3. ASSUME NEW pc \in Pcs \ {"create"}, NEW l, l = [cmd[c] EXCEPT !.pc = pc],
             cmd' = [cmd EXCEPT ![c] = l],
             pc \in {"add", "sanitize", "idle", "check", "list"} =>
                cmd[c].pc = "sanitize" /\ pc = "add" /\ cmd[c].mode = "takt_add",
             pc = "spawn" => UniqueNames(rows),
             pc \notin {"signal", "poll", "forceFail"}
      PROVE  IInv'
  <2>1. /\ l \in Local /\ l.pc = pc /\ l.mode = cmd[c].mode /\ l.got = cmd[c].got
        /\ l.existing = cmd[c].existing
    BY <1>1, <1>3 DEF Local
  <2>2. Agrees(l, c)
    BY <1>1, <1>3, <2>1 DEF Agrees
  <2> QED
    BY <1>2, <1>3, <2>1, <2>2, OneIInv
<1>4. CASE cmd[c].pc = "sanitize"
  <2>1. CASE cmd[c].mode = "takt_add"
    <3>1. AfterSection(c, FALSE) = [cmd[c] EXCEPT !.pc = "add"]
      BY <1>4, <2>1 DEF AfterSection
    <3> QED
      BY <1>3, <1>4, <2>1, <3>1 DEF Pcs
  <2>2. CASE cmd[c].mode # "takt_add"
    <3> DEFINE l == [cmd[c] EXCEPT !.pc = "create"]
    <3>1. AfterSection(c, FALSE) = l
      BY <1>4, <2>2 DEF AfterSection
    <3>2. /\ l \in Local /\ l.pc = "create" /\ l.mode = cmd[c].mode /\ l.got = cmd[c].got
          /\ l.existing = cmd[c].existing
      BY <1>1 DEF Local, Pcs, SectionPcs
    <3> HIDE DEF l
    <3>3. Agrees(l, c)
      BY <1>1, <1>4, <3>2 DEF Agrees
    <3> QED
      BY <1>2, <3>1, <3>2, <3>3, OneIInv
  <2> QED
    BY <2>1, <2>2
<1>5. CASE cmd[c].pc = "sanitizeAdded"
  <2>1. AfterSection(c, FALSE) = [cmd[c] EXCEPT !.pc = "annotate"]
    BY <1>5 DEF AfterSection
  <2> QED
    BY <1>3, <2>1 DEF Pcs, SectionPcs
<1>6. CASE cmd[c].pc = "sanitizeRun"
  <2>1. AfterSection(c, FALSE) = [cmd[c] EXCEPT !.pc = "spawn"]
    BY <1>6 DEF AfterSection
  <2>2. Dedupe(rows) = rows
    BY <1>6 DEF Edit, SanitizingPcs
  <2>3. UniqueNames(rows)
    <3> SUFFICES ASSUME NEW r \in rows, NEW s \in rows, r.name = s.name PROVE r = s
      BY DEF UniqueNames
    <3>1. r.at <= s.at /\ s.at <= r.at /\ r.at \in Nat /\ s.at \in Nat
      BY <2>2 DEF Dedupe, IInv, Sound, Row
    <3> QED
      BY <3>1 DEF IInv, Sound
  <2> QED
    BY <1>3, <2>1, <2>3 DEF Pcs
<1>7. CASE cmd[c].pc = "create"
  <2>1. IdsIn(Edit(rows, c)) = IdsIn(rows) \cup {c} /\ c \notin created
    BY <1>7, CreateAdds DEF Adds
  <2> QED
    BY <2>1 DEF IInv, Accounted, NoRowLost
<1>8. CASE cmd[c].pc \in {"delete", "swap"}
  <2>1. AfterSection(c, FALSE) = [cmd[c] EXCEPT !.pc = "failed"]
    BY <1>8 DEF AfterSection
  <2> QED
    BY <1>3, <2>1 DEF Pcs
<1>9. CASE cmd[c].pc = "resolve"
  <2>1. CASE OwnerOf(rows, cmd[c].name) = NoPid
    <3>1. AfterSection(c, FALSE) = [cmd[c] EXCEPT !.pc = "failed"]
      BY <1>9, <2>1 DEF AfterSection
    <3> QED
      BY <1>3, <3>1 DEF Pcs
  <2>2. CASE OwnerOf(rows, cmd[c].name) # NoPid
    <3> DEFINE l == [cmd[c] EXCEPT !.pc = "signal", !.pid = OwnerOf(rows, cmd[c].name)]
    <3>1. AfterSection(c, FALSE) = l
      BY <1>9, <2>2 DEF AfterSection
    <3>2. /\ l.pc = "signal" /\ l.mode = cmd[c].mode /\ l.got = cmd[c].got /\ l.name = cmd[c].name
          /\ l.existing = cmd[c].existing /\ l.pid = OwnerOf(rows, l.name)
          /\ l = [cmd[c] EXCEPT !.pc = "signal", !.pid = l.pid]
      BY <1>1 DEF Local
    <3> HIDE DEF l
    <3>3. Target(l)
      BY <2>2, <3>2, OwnerIsTarget
    <3>4. l \in Local
      BY <1>1, <3>2, <3>3 DEF Local, Target, Pcs
    <3>5. Agrees(l, c)
      BY <1>1, <3>2, <3>3 DEF Agrees
    <3> QED
      BY <1>2, <3>1, <3>2, <3>4, <3>5, OneIInv
  <2> QED
    BY <2>1, <2>2
<1>10. CASE cmd[c].pc = "annotate"
  <2>1. PICK pc \in {"dispatch", "done"} : pc = AfterEnqueue(cmd[c].op)
    BY DEF AfterEnqueue
  <2>2. AfterSection(c, FALSE) = [cmd[c] EXCEPT !.pc = pc]
    BY <1>10, <2>1 DEF AfterSection
  <2> QED
    BY <1>3, <2>2 DEF Pcs
<1>11. CASE cmd[c].pc \in {"forceFail", "migrate"}
  <2>1. AfterSection(c, FALSE) = [cmd[c] EXCEPT !.pc = "done"]
    BY <1>11 DEF AfterSection
  <2> QED
    BY <1>3, <2>1 DEF Pcs
<1> QED
  BY <1>4, <1>5, <1>6, <1>7, <1>8, <1>9, <1>10, <1>11 DEF SectionPcs, SanitizingPcs

LEMMA EditSound ==
    ASSUME IInv, NEW c \in Commands, cmd[c].pc \in SectionPcs
    PROVE  /\ Sound(Edit(rows, c))
           /\ UniqueNames(rows) => UniqueNames(Edit(rows, c))
           /\ IdsIn(Edit(rows, c)) \subseteq RowIds
           /\ cmd[c].pc # "create" => IdsIn(Edit(rows, c)) \subseteq IdsIn(rows)
<1>1. Sound(rows) /\ rows \subseteq Row /\ IdsIn(rows) \subseteq RowIds
  BY DEF IInv, TypeOK, IdsIn, Row
<1>2. CASE cmd[c].pc = "create"
  BY <1>1, <1>2, CreateAdds DEF Adds
<1>3. CASE cmd[c].pc \in Others
  <2>1. PICK T, g : /\ Revises(rows, T, g) /\ Edit(rows, c) = Image(T, g)
                    /\ \A s \in T : g[s] \in Row
    BY <1>1, <1>3, EditRevises
  <2>2. /\ Sound(Image(T, g)) /\ (UniqueNames(rows) => UniqueNames(Image(T, g)))
        /\ IdsIn(Image(T, g)) \subseteq IdsIn(rows)
    BY <1>1, <2>1, RevisedSound
  <2> QED
    BY <1>1, <2>1, <2>2
<1> QED
  BY <1>2, <1>3 DEF Others

(* A section that changes something, or rewrites what the model leaves out. *)
LEMMA HoldIInv ==
    ASSUME IInv, NEW c \in Commands, cmd[c].pc \in SectionPcs, section = Nobody,
           Edit(rows, c) # rows \/ RewritesUnmodelled(c),
           section' = c,
           plan' = [plan EXCEPT ![c] = [rows |-> Edit(rows, c),
                                        drop |-> IdsIn(rows) \ IdsIn(Edit(rows, c))]],
           UNCHANGED <<file, cmd, takt, history>>
    PROVE  IInv'
<1> USE DEF file, takt, history
<1> DEFINE held == [rows |-> Edit(rows, c), drop |-> IdsIn(rows) \ IdsIn(Edit(rows, c))]
<1>1. held # NoPlan
  <2> SUFFICES ASSUME Edit(rows, c) = {}, IdsIn(rows) \ IdsIn(Edit(rows, c)) = {} PROVE FALSE
    BY DEF NoPlan
  <2>1. rows = {}
    BY DEF IdsIn
  <2> QED
    BY <2>1 DEF RewritesUnmodelled
<1>2. held \in Plan
  <2>1. Edit(rows, c) \subseteq Row /\ IdsIn(rows) \subseteq RowIds
    BY EditSound DEF Sound, IInv, TypeOK, IdsIn, Row
  <2> QED
    BY <2>1 DEF Plan
<1>3. \A d \in Commands : plan[d] = NoPlan
  BY NobodyAssumption DEF IInv, SectionHeld
<1>4. /\ plan' \in [Commands -> Plan] /\ plan'[c] = held
      /\ \A d \in Commands \ {c} : plan'[d] = NoPlan
  BY <1>2, <1>3 DEF IInv, TypeOK
<1>5. writer = Nobody
  BY DEF IInv, SectionHeld
<1>6. Edit(rows, c)' = Edit(rows, c)
  BY EditSame
<1> HIDE DEF held
<1>7. SectionHeld'
  <2>1. plan'[section'] = [rows |-> Edit(rows, section), drop |-> IdsIn(rows) \ IdsIn(Edit(rows, section))]'
    BY <1>4, <1>6 DEF held, IdsIn
  <2> QED
    BY <1>1, <1>4, <1>5, <2>1 DEF SectionHeld
<1>8. TypeOK'
  BY <1>4 DEF IInv, TypeOK
<1>9. Packed'
  <2>1. \A d \in Commands, x \in RowIds : x \notin plan[d].drop
    BY <1>3 DEF NoPlan
  <2>2. \A r \in rows : r.id \in RowIds
    BY DEF IInv, TypeOK, Row
  <2> QED
    BY <1>5, <2>1, <2>2 DEF IInv, Packed, QueuedHasPackage
<1>10. Sound(rows)' /\ NamesGiven' /\ Accounted' /\ OwnersRan' /\ TaktAcceptsFile' /\ RunsAreOnFile'
  BY DEF IInv, Sound, NamesGiven, Gives, Accounted, NoRowLost, OwnersRan, TaktAcceptsFile,
         RunsAreOnFile
<1>11. (\A d \in Commands : Agrees(cmd[d], d))'
  BY DEF IInv, Agrees, Target
<1> QED
  BY <1>7, <1>8, <1>9, <1>10, <1>11 DEF IInv

LEMMA ReadIInv ==
    ASSUME IInv, NEW c \in Commands, Read(c)
    PROVE  IInv'
<1>1. /\ cmd[c].pc \in SectionPcs /\ section = Nobody /\ ReadThenLeaveOrHold(c)
      /\ UNCHANGED <<file, takt, history>>
  BY DEF Read
<1>2. CASE /\ Edit(rows, c) = rows
           /\ cmd' = [cmd EXCEPT ![c] = AfterSection(c, FALSE)]
           /\ UNCHANGED lock
  BY <1>1, <1>2, LeaveIInv
<1>3. CASE /\ Edit(rows, c) # rows \/ RewritesUnmodelled(c)
           /\ section' = c
           /\ plan' = [plan EXCEPT ![c] = [rows |-> Edit(rows, c),
                                           drop |-> IdsIn(rows) \ IdsIn(Edit(rows, c))]]
           /\ UNCHANGED cmd
  BY <1>1, <1>3, HoldIInv
<1> QED
  BY <1>1, <1>2, <1>3 DEF ReadThenLeaveOrHold

LEMMA TruncateIInv ==
    ASSUME IInv, NEW c \in Commands, Truncate(c)
    PROVE  IInv'
<1> USE DEF lock, takt, history
<1>1. /\ plan[c] # NoPlan /\ section = c /\ writer' = c /\ c \in RowIds /\ c # Nobody
      /\ packages' = (packages \ DroppedFirst(c))
                        \cup (IF cmd[c].pc = "create" THEN {c} ELSE {})
      /\ UNCHANGED <<rows, lock, cmd, takt, history>>
  BY NobodyAssumption DEF IInv, SectionHeld, Truncate, RowIds
<1>2. TypeOK'
  BY <1>1 DEF IInv, TypeOK
<1>3. SectionHeld'
  <2>1. Edit(rows, c)' = Edit(rows, c)
    BY <1>1, EditSame
  <2> QED
    BY <1>1, <2>1 DEF IInv, SectionHeld, IdsIn
<1>4. Packed'
  <2>1. QueuedHasPackage'
    <3> SUFFICES ASSUME NEW r \in rows, r.status = "pending", r.id \notin packages'
                 PROVE  \E d \in Commands : Sanitizing(d) /\ r.id \in plan[d].drop
      BY <1>1 DEF QueuedHasPackage, Sanitizing
    <3>1. CASE r.id \in packages
      BY <1>1, <3>1 DEF DroppedFirst
    <3>2. CASE r.id \notin packages
      BY <3>2 DEF IInv, Packed, QueuedHasPackage
    <3> QED
      BY <3>1, <3>2
  <2> QED
    BY <1>1, <2>1 DEF Packed
<1>5. Sound(rows)' /\ NamesGiven' /\ Accounted' /\ OwnersRan' /\ TaktAcceptsFile' /\ RunsAreOnFile'
  BY <1>1 DEF IInv, Sound, NamesGiven, Gives, Accounted, NoRowLost, OwnersRan, TaktAcceptsFile,
         RunsAreOnFile
<1>6. (\A d \in Commands : Agrees(cmd[d], d))'
  BY <1>1 DEF IInv, Agrees, Target
<1> QED
  BY <1>2, <1>3, <1>4, <1>5, <1>6 DEF IInv

(* The id enqueueTask answers with is the one of the row just appended: it *)
(* comes last, and no older row has its name.                              *)
LEMMA CreatedIsNew ==
    ASSUME IInv, NEW c \in Commands, cmd[c].pc = "create"
    PROVE  Created(Edit(rows, c)) \in Edit(rows, c) /\ Created(Edit(rows, c)).id = c
<1> DEFINE rs == Edit(rows, c)
<1>1. PICK n \in Names \ NamesIn(rows) : rs = Appended(rows, n, c)
  BY CreateAppends
<1>2. n \in Names /\ c \in RowIds /\ Sound(rows) /\ Sound(rs)
  BY <1>1, CreateAdds DEF IInv, Adds
<1>3. PICK at \in Nat : rs = rows \cup {NewRow(at, n, c)} /\ \A r \in rows : r.at < at
  BY <1>1, <1>2, AppendedLast
<1> DEFINE new == NewRow(at, n, c)
<1>4. /\ new.at = at /\ new.name = n /\ new.id = c /\ new \in rs
      /\ \A r \in rs : r = new \/ (r.name # n /\ r.at < at)
  BY <1>1, <1>3 DEF NewRow, NamesIn
<1>5. \A r \in rs : r.at \in Nat
  BY <1>2 DEF Sound, Row
<1> HIDE DEF new, rs
<1>6. (CHOOSE r \in rs : \A s \in rs : s.at <= r.at) = new
  <2>1. \A s \in rs : s.at <= new.at
    BY <1>4, <1>5
  <2>2. \A r \in rs : (\A s \in rs : s.at <= r.at) => r = new
    BY <1>4, <1>5
  <2> QED
    BY <1>4, <2>1, <2>2
<1>7. Named(rs, n) = {new}
  <2>1. {r \in rs : r.name = n} = {new}
    BY <1>4
  <2>2. new.at <= new.at
    BY <1>4
  <2> QED
    BY <2>1, <2>2 DEF Named, Earliest
<1>8. Created(rs) = new
  BY <1>4, <1>6, <1>7 DEF Created
<1> QED
  BY <1>4, <1>8 DEF rs

(* How the file after a section compares with the file before it.          *)
LEMMA EditKeeps ==
    ASSUME IInv, NEW c \in Commands, cmd[c].pc \in SectionPcs
    PROVE  /\ \A r \in Edit(rows, c) :
                \/ \E s \in rows : Kept(r, s, c)
                \/ cmd[c].pc = "create" /\ r.id = c /\ r.status = "pending"
           /\ \A s \in rows : s.status = "pending" \/ ~UniqueNames(rows) \/
                \E r \in Edit(rows, c) : Kept(r, s, c)
<1>1. CASE cmd[c].pc = "create"
  BY <1>1, CreateAdds DEF Kept, Adds
<1>2. CASE cmd[c].pc \in Others
  <2>1. rows \subseteq Row
    BY DEF IInv, TypeOK
  <2>2. PICK T, g : /\ Revises(rows, T, g) /\ Edit(rows, c) = Image(T, g)
                    /\ \A s \in T : g[s] \in Row /\ Kept(g[s], s, c)
                    /\ \A s \in rows \ T :
                          Sanitizing(c) \/ (cmd[c].pc = "delete" /\ s.status = "pending")
                    /\ (UniqueNames(rows) /\ Sanitizing(c)) => T = rows
    BY <1>2, <2>1, EditRevises
  <2>3. \A r \in Edit(rows, c) : \E s \in rows : Kept(r, s, c)
    BY <2>2 DEF Revises, Image
  <2>4. \A s \in T : \E r \in Edit(rows, c) : Kept(r, s, c)
    BY <2>2 DEF Revises, Image
  <2>5. \A s \in rows : s.status = "pending" \/ ~UniqueNames(rows) \/ s \in T
    BY <2>2
  <2> QED
    BY <2>3, <2>4, <2>5
<1> QED
  BY <1>1, <1>2 DEF Others

LEMMA DedupeUnique ==
    ASSUME NEW rs, Sound(rs)
    PROVE  UniqueNames(Dedupe(rs))
<1> SUFFICES ASSUME NEW r \in Dedupe(rs), NEW s \in Dedupe(rs), r.name = s.name PROVE r = s
  BY DEF UniqueNames
<1>1. r \in rs /\ s \in rs /\ r.at <= s.at /\ s.at <= r.at
  BY DEF Dedupe
<1>2. r.at \in Nat /\ s.at \in Nat
  BY <1>1 DEF Sound, Row
<1> QED
  BY <1>1, <1>2 DEF Sound

(* What takt did, and when its process is gone, no section forgets.        *)
LEMMA TargetStays ==
    ASSUME IInv, NEW c \in Commands, cmd[c].pc \in SectionPcs, rows' = Edit(rows, c),
           UNCHANGED procs, NEW l, Target(l)
    PROVE  Target(l)'
<1>1. PICK s \in rows : s.name = l.name /\ s.status # "pending" /\ (s.status = "running" => s.owner = l.pid)
  BY DEF Target
<1>2. UniqueNames(rows)
  BY DEF IInv, TaktAcceptsFile, Target
<1>3. PICK r \in rows' : Kept(r, s, c)
  BY <1>1, <1>2, EditKeeps
<1>4. r.name = l.name /\ r.status # "pending" /\ (r.status = "running" => r.owner = l.pid)
  BY <1>1, <1>3 DEF Kept
<1> QED
  BY <1>4 DEF Target

(* What is known of the locals l with which command c leaves its section.  *)
LeavesWell(l, c) ==
    /\ l \in Local /\ l.mode = cmd[c].mode /\ l.existing = cmd[c].existing
    /\ l.got = cmd[c].got \/ (cmd[c].pc = "create" /\ l.got = c)
    /\ l.pc \in {"add", "create"} => cmd[c].pc = "sanitize"
    /\ l.pc = "add" => l.mode = "takt_add"
    /\ l.pc = "spawn" => cmd[c].pc = "sanitizeRun"
    /\ l.pc = "signal" => l.pid = OwnerOf(rows, l.name) /\ l.pid # NoPid
    /\ l.pc \notin {"idle", "check", "sanitize", "list", "poll", "forceFail"}

LEMMA AfterIsLocal ==
    ASSUME IInv, NEW c \in Commands, cmd[c].pc \in SectionPcs, section = c
    PROVE  LeavesWell(AfterSection(c, TRUE), c)
<1> DEFINE l == AfterSection(c, TRUE)
           to(pc) == [cmd[c] EXCEPT !.pc = pc]
<1>1. cmd[c] \in Local
  BY DEF IInv, TypeOK
<1>2. ASSUME NEW pc \in Pcs
      PROVE  /\ to(pc) \in Local /\ to(pc).pc = pc /\ to(pc).mode = cmd[c].mode
             /\ to(pc).existing = cmd[c].existing /\ to(pc).got = cmd[c].got
  BY <1>1 DEF Local
<1>3. ASSUME NEW pc \in {"add", "create", "annotate", "spawn", "dispatch", "done", "failed"}, l = to(pc),
             pc \in {"add", "create"} => cmd[c].pc = "sanitize",
             pc = "add" => cmd[c].mode = "takt_add",
             pc = "spawn" => cmd[c].pc = "sanitizeRun"
      PROVE  LeavesWell(l, c)
  <2>1. pc \in Pcs
    BY DEF Pcs, SectionPcs
  <2>2. /\ l \in Local /\ l.pc = pc /\ l.mode = cmd[c].mode
        /\ l.existing = cmd[c].existing /\ l.got = cmd[c].got
    BY <1>2, <1>3, <2>1
  <2> HIDE DEF l
  <2> QED
    BY <1>3, <2>2 DEF LeavesWell
<1>4. CASE cmd[c].pc = "sanitize"
  <2>1. CASE cmd[c].mode = "takt_add"
    <3>1. l = to("add")
      BY <1>4, <2>1 DEF AfterSection
    <3> QED
      BY <1>3, <1>4, <2>1, <3>1
  <2>2. CASE cmd[c].mode # "takt_add"
    <3>1. l = to("create")
      BY <1>4, <2>2 DEF AfterSection
    <3> QED
      BY <1>3, <1>4, <3>1
  <2> QED
    BY <2>1, <2>2
<1>5. CASE cmd[c].pc = "sanitizeAdded"
  <2>1. l = to("annotate")
    BY <1>5 DEF AfterSection
  <2> QED
    BY <1>3, <2>1
<1>6. CASE cmd[c].pc = "sanitizeRun"
  <2>1. l = to("spawn")
    BY <1>6 DEF AfterSection
  <2> QED
    BY <1>3, <1>6, <2>1
<1>7. CASE cmd[c].pc = "create"
  <2> DEFINE new == Created(Edit(rows, c))
             base == to(AfterEnqueue(cmd[c].op))
  <2>1. plan[c].rows = Edit(rows, c)
    BY NobodyAssumption DEF IInv, SectionHeld
  <2>2. l = [base EXCEPT !.name = new.name, !.got = new.id]
    BY <1>7, <2>1 DEF AfterSection
  <2>3. new \in Row /\ new.id = c /\ c \in RowIds
    <3>1. Sound(Edit(rows, c)) /\ new \in Edit(rows, c) /\ new.id = c
      BY <1>7, CreateAdds, CreatedIsNew DEF Adds
    <3> QED
      BY <3>1 DEF Sound, RowIds
  <2>4. /\ base \in Local /\ base.mode = cmd[c].mode /\ base.pc \in {"dispatch", "done"}
        /\ base.existing = cmd[c].existing
    <3>1. AfterEnqueue(cmd[c].op) \in {"dispatch", "done"}
      BY DEF AfterEnqueue
    <3> QED
      BY <1>2, <3>1 DEF Pcs
  <2>5. new.name \in Names
    BY <2>3 DEF Row
  <2> HIDE DEF new, base, l
  <2>6. /\ l \in Local /\ l.mode = base.mode /\ l.pc = base.pc /\ l.existing = base.existing
        /\ l.got = c
    BY <2>2, <2>3, <2>4, <2>5 DEF Local
  <2> QED
    BY <1>7, <2>4, <2>6 DEF l, LeavesWell
<1>8. CASE cmd[c].pc \in {"delete", "swap"}
  <2>1. l = to("done")
    BY <1>8 DEF AfterSection
  <2> QED
    BY <1>3, <2>1
<1>9. CASE cmd[c].pc = "resolve"
  <2> DEFINE pid == OwnerOf(rows, cmd[c].name)
  <2>1. CASE pid = NoPid
    <3>1. l = to("failed")
      BY <1>9, <2>1 DEF AfterSection
    <3> QED
      BY <1>3, <3>1
  <2>2. CASE pid # NoPid
    <3>1. l = [to("signal") EXCEPT !.pid = pid]
      BY <1>9, <2>2 DEF AfterSection
    <3>2. pid \in Pids
      <4> DEFINE k == [cmd[c] EXCEPT !.pid = pid]
      <4>1. k.pid = OwnerOf(rows, k.name) /\ k.pid # NoPid /\ k.pid = pid
        BY <1>1, <2>2 DEF Local
      <4> HIDE DEF k
      <4> QED
        BY <4>1, OwnerIsTarget DEF Target
    <3>3. to("signal") \in Local /\ to("signal").name = cmd[c].name
      BY <1>1, <1>2 DEF Local, Pcs
    <3> HIDE DEF pid, to
    <3>4. /\ l \in Local /\ l.pid = pid /\ l.name = cmd[c].name /\ l.mode = to("signal").mode
          /\ l.pc = to("signal").pc /\ l.existing = to("signal").existing
          /\ l.got = to("signal").got
      BY <3>1, <3>2, <3>3 DEF Local
    <3> HIDE DEF l
    <3>5. l.pid = OwnerOf(rows, l.name)
      BY <3>4 DEF pid
    <3>6. to("signal").pc = "signal" /\ to("signal").mode = cmd[c].mode
          /\ to("signal").existing = cmd[c].existing /\ to("signal").got = cmd[c].got
      BY <1>1 DEF to, Local
    <3> QED
      BY <1>9, <2>2, <3>4, <3>5, <3>6 DEF l, LeavesWell, pid
  <2> QED
    BY <2>1, <2>2
<1>10. CASE cmd[c].pc = "annotate"
  <2>1. PICK pc \in {"dispatch", "done"} : pc = AfterEnqueue(cmd[c].op)
    BY DEF AfterEnqueue
  <2>2. l = to(pc)
    BY <1>10, <2>1 DEF AfterSection
  <2> QED
    BY <1>3, <2>2
<1>11. CASE cmd[c].pc \in {"forceFail", "migrate"}
  <2>1. l = to("done")
    BY <1>11 DEF AfterSection
  <2> QED
    BY <1>3, <2>1
<1> QED
  BY <1>4, <1>5, <1>6, <1>7, <1>8, <1>9, <1>10, <1>11 DEF SectionPcs, SanitizingPcs

(* The write that ends a section.                                          *)
LEMMA StoreIInv ==
    ASSUME IInv, NEW c \in Commands, Store(c)
    PROVE  IInv'
<1> DEFINE new == Edit(rows, c)
<1>0. PICK l : l = AfterSection(c, TRUE)
  OBVIOUS
<1>1. /\ section = c /\ writer = c /\ cmd[c].pc \in SectionPcs
      /\ plan[c].rows = new /\ plan[c].drop = IdsIn(rows) \ IdsIn(new)
  BY NobodyAssumption DEF IInv, SectionHeld, Store
<1>2. /\ rows' = new /\ writer' = Nobody /\ section' = Nobody
      /\ packages' = IF cmd[c].pc = "delete" THEN packages \ plan[c].drop ELSE packages
      /\ created' = created \cup IdsIn(new) /\ removed' = removed \cup plan[c].drop
      /\ plan' = [plan EXCEPT ![c] = NoPlan]
      /\ cmd' = [cmd EXCEPT ![c] = l]
      /\ procs' = procs /\ work' = work
  BY <1>0, <1>1 DEF Store, takt
<1>3. LeavesWell(l, c)
  BY <1>0, <1>1, AfterIsLocal
<1>4. /\ Sound(new) /\ new \subseteq Row /\ (UniqueNames(rows) => UniqueNames(new))
      /\ IdsIn(new) \subseteq RowIds
  BY <1>1, EditSound DEF Sound
<1>5. /\ cmd' \in [Commands -> Local] /\ cmd'[c] = l
      /\ \A d \in Commands \ {c} : cmd'[d] = cmd[d]
  BY <1>2, <1>3 DEF IInv, TypeOK, LeavesWell
<1>6. IdsIn(rows) = created \ removed /\ removed \subseteq created /\ created \subseteq RowIds
  BY DEF IInv, Accounted, NoRowLost, TypeOK
<1>7. created' = created \/ (cmd[c].pc = "create" /\ created' = created \cup {c} /\ c \notin created)
  <2>1. CASE cmd[c].pc = "create"
    <3>1. IdsIn(new) = IdsIn(rows) \cup {c} /\ c \notin created
      BY <2>1, CreateAdds DEF Adds
    <3> QED
      BY <1>2, <1>6, <2>1, <3>1
  <2>2. CASE cmd[c].pc # "create"
    BY <1>1, <1>2, <1>6, <2>2, EditSound
  <2> QED
    BY <2>1, <2>2
<1> HIDE DEF new
<1>8. \A r \in new : \/ \E s \in rows : Kept(r, s, c)
                     \/ cmd[c].pc = "create" /\ r.id = c /\ r.status = "pending"
  BY <1>1, EditKeeps DEF new
<1>9. TypeOK'
  <2>1. plan' \in [Commands -> Plan]
    BY <1>2 DEF IInv, TypeOK, NoPlan, Plan
  <2>2. plan[c].drop \subseteq RowIds
    BY <1>1, <1>6
  <2> QED
    BY <1>2, <1>4, <1>5, <1>6, <2>1, <2>2 DEF IInv, TypeOK
<1>10. NamesGiven'
  <2>1. PICK f : Gives(f)
    BY DEF IInv, NamesGiven
  <2>2. \A d \in Commands : cmd'[d].existing = cmd[d].existing
    BY <1>3, <1>5 DEF LeavesWell
  <2>3. CASE cmd[c].pc = "create"
    <3>1. PICK n \in Names \ NamesIn(rows) :
             \A r \in new : r \in rows \/ (r.id = c /\ r.name = n /\ r.status = "pending")
      BY <2>3, CreateAdds DEF new, Adds
    <3>2. c \notin created /\ created' = created \cup {c}
      <4>1. IdsIn(new) = IdsIn(rows) \cup {c} /\ c \notin created
        BY <2>3, CreateAdds DEF new, Adds
      <4> QED
        BY <1>2, <1>6, <4>1
    <3>0. PICK g : g = [i \in created' |-> IF i = c THEN n ELSE f[i]]
      OBVIOUS
    <3>3. g \in [created' -> Names]
      BY <2>1, <3>0, <3>2 DEF Gives
    <3>4. \A i \in created : g[i] = f[i]
      BY <3>0, <3>2
    <3>5. g[c] = n
      BY <3>0, <3>2
    <3>6. \A r \in new : g[r.id] = r.name
      <4>1. \A r \in rows : r.id \in created
        BY <1>6 DEF IdsIn
      <4> QED
        BY <2>1, <3>1, <3>4, <3>5, <4>1 DEF Gives
    <3>7. {f[i] : i \in created} \subseteq {g[i] : i \in created'}
      BY <3>2, <3>4
    <3>8. \A d \in Commands : cmd'[d].existing \subseteq {g[i] : i \in created'}
      BY <2>1, <2>2, <3>7 DEF Gives
    <3>9. Gives(g)'
      BY <1>2, <3>3, <3>6, <3>8 DEF Gives
    <3> QED
      BY <3>9 DEF NamesGiven
  <2>4. CASE cmd[c].pc # "create"
    <3>1. created' = created
      BY <1>7, <2>4
    <3>2. \A r \in new : f[r.id] = r.name
      BY <1>8, <2>1, <2>4 DEF Gives, Kept
    <3>3. Gives(f)'
      BY <1>2, <2>1, <2>2, <3>1, <3>2 DEF Gives
    <3> QED
      BY <3>3 DEF NamesGiven
  <2> QED
    BY <2>3, <2>4
<1>11. SectionHeld'
  <2>1. \A d \in Commands : plan'[d] = NoPlan
    BY <1>1, <1>2 DEF IInv, SectionHeld, TypeOK
  <2> QED
    BY <1>2, <2>1 DEF SectionHeld
<1>12. (\A d \in Commands : Agrees(cmd[d], d))'
  <2>1. \A k : Target(k) => Target(k)'
    BY <1>1, <1>2, TargetStays DEF new
  <2>2. ASSUME NEW d \in Commands \ {c} PROVE Agrees(cmd[d], d)'
    <3>1. Agrees(cmd[d], d) /\ cmd'[d] = cmd[d]
      BY <1>5 DEF IInv
    <3>2. d \notin created => d \notin created'
      BY <1>7
    <3> QED
      BY <1>2, <1>4, <2>1, <3>1, <3>2 DEF Agrees
  <2>3. Agrees(l, c)'
    <3>1. Agrees(cmd[c], c)
      BY DEF IInv
    <3>2. l.pc \in {"add", "create"} => c \notin created'
      BY <1>3, <1>7, <3>1 DEF LeavesWell, Agrees
    <3>3. l.pc = "spawn" => UniqueNames(new)
      <4> SUFFICES ASSUME cmd[c].pc = "sanitizeRun" PROVE UniqueNames(new)
        BY <1>3 DEF LeavesWell
      <4>1. new = Dedupe(rows)
        BY DEF new, Edit, SanitizingPcs
      <4> QED
        BY <4>1, DedupeUnique DEF IInv
    <3>4. l.pc = "signal" => Target(l)'
      BY <1>3, <2>1, OwnerIsTarget DEF LeavesWell
    <3>5. l.got = cmd[c].got \/ l.got = c
      BY <1>3 DEF LeavesWell
    <3> QED
      BY <1>2, <1>3, <3>1, <3>2, <3>3, <3>4, <3>5 DEF LeavesWell, Agrees
  <2> QED
    BY <1>5, <2>2, <2>3
<1>13. Accounted'
  <2>1. CASE cmd[c].pc = "create"
    <3>1. IdsIn(new) = IdsIn(rows) \cup {c} /\ c \notin created
      BY <2>1, CreateAdds DEF new, Adds
    <3>2. IdsIn(rows') = IdsIn(rows) \cup {c} /\ removed' = removed /\ created' = created \cup {c}
      BY <1>1, <1>2, <1>6, <3>1
    <3> QED
      BY <1>6, <3>1, <3>2 DEF Accounted, NoRowLost, IdsIn
  <2>2. CASE cmd[c].pc # "create"
    <3>1. IdsIn(new) \subseteq IdsIn(rows)
      BY <1>1, <2>2, EditSound DEF new
    <3>2. created' = created /\ removed' = removed \cup (IdsIn(rows) \ IdsIn(new))
      BY <1>1, <1>2, <1>7, <2>2
    <3>3. IdsIn(rows)' = IdsIn(new)
      BY <1>2 DEF IdsIn
    <3> QED
      BY <1>6, <3>1, <3>2, <3>3 DEF Accounted, NoRowLost
  <2> QED
    BY <2>1, <2>2
<1>14. Packed'
  <2> SUFFICES ASSUME NEW r \in new, r.status = "pending" PROVE r.id \in packages'
    BY <1>2 DEF Packed, QueuedHasPackage
  <2>1. CASE cmd[c].pc = "create" /\ r.id = c
    BY <1>1, <1>2, <2>1, NobodyAssumption DEF IInv, Packed
  <2>2. CASE \E s \in rows : Kept(r, s, c)
    <3>1. PICK s \in rows : s.id = r.id /\ s.status = "pending"
      BY <2>2 DEF Kept
    <3>2. r.id \notin plan[c].drop
      BY <1>1 DEF IdsIn
    <3>3. \A d \in Commands : s.id \notin plan[d].drop
      BY <1>1, <3>1, <3>2 DEF IInv, SectionHeld, NoPlan
    <3>4. s.id \in packages
      BY <3>1, <3>3 DEF IInv, Packed, QueuedHasPackage
    <3> QED
      BY <1>2, <3>1, <3>2, <3>4
  <2> QED
    BY <1>8, <2>1, <2>2
<1>15. OwnersRan'
  <2> SUFFICES ASSUME NEW r \in new, r.status = "running"
               PROVE  r.owner \in Pids /\ procs[r.owner] # "none"
    BY <1>2 DEF IInv, OwnersRan
  <2>1. PICK s \in rows : s.status = "running" /\ s.owner = r.owner
    BY <1>8 DEF Kept
  <2> QED
    BY <2>1 DEF IInv, OwnersRan
<1>16. TaktAcceptsFile'
  <2>1. UniqueNames(rows)' = UniqueNames(new)
    BY <1>2 DEF UniqueNames
  <2> QED
    BY <1>2, <1>4, <2>1 DEF IInv, TaktAcceptsFile
<1>17. RunsAreOnFile'
  <2> SUFFICES ASSUME NEW p \in Pids, procs[p] = "alive", work[p] # Nobody
               PROVE  \E r \in new : r.id = work[p] /\ r.status = "running" /\ r.owner = p
    BY <1>2 DEF RunsAreOnFile
  <2>1. PICK s \in rows : s.id = work[p] /\ s.status = "running" /\ s.owner = p
    BY DEF IInv, RunsAreOnFile
  <2>2. UniqueNames(rows)
    BY DEF IInv, TaktAcceptsFile
  <2>3. PICK r \in new : Kept(r, s, c)
    BY <1>1, <2>1, <2>2, EditKeeps DEF new
  <2>4. ~(cmd[c].pc = "forceFail" /\ s.name = cmd[c].name)
    <3> SUFFICES ASSUME cmd[c].pc = "forceFail", s.name = cmd[c].name PROVE FALSE
      OBVIOUS
    <3>1. Target(cmd[c]) /\ procs[cmd[c].pid] = "dead"
      BY DEF IInv, Agrees
    <3>2. PICK q \in rows : q.name = cmd[c].name /\ (q.status = "running" => q.owner = cmd[c].pid)
      BY <3>1 DEF Target
    <3>3. q = s
      BY <2>2, <3>2 DEF UniqueNames
    <3> QED
      BY <2>1, <3>1, <3>2, <3>3
  <2> QED
    BY <2>1, <2>3, <2>4 DEF Kept
<1>18. Sound(rows)'
  BY <1>2, <1>4 DEF Sound
<1> QED
  BY <1>9, <1>10, <1>11, <1>12, <1>13, <1>14, <1>15, <1>16, <1>17, <1>18 DEF IInv

-----------------------------------------------------------------------------
(* takt.                                                                   *)

(* A command that spawned a process knew the names unique.                 *)
LEMMA SpawnIInv ==
    ASSUME IInv, NEW c \in Commands, Spawn(c)
    PROVE  IInv'
<1>1. cmd[c].pc = "spawn" /\ Agrees(cmd[c], c) /\ cmd[c] \in Local
      /\ UNCHANGED <<file, lock, work, history>>
  BY DEF Spawn, IInv, TypeOK
<1>2. CASE Goto(c, "failed") /\ UNCHANGED procs
  <2>1. section # c
    BY <1>1, OutsideSection DEF SectionPcs, SanitizingPcs
  <2> QED
    BY <1>1, <1>2, <2>1, PlainIInv DEF Plain, takt
<1>3. ASSUME NEW p \in Pids, procs[p] = "none", procs' = [procs EXCEPT ![p] = "alive"], Goto(c, "done")
      PROVE  IInv'
  <2> USE <1>1, <1>3 DEF file, lock, history
  <2>1. PICK l : l = [cmd[c] EXCEPT !.pc = "done"]
    OBVIOUS
  <2>2. /\ l \in Local /\ l.pc = "done" /\ l.mode = cmd[c].mode /\ l.got = cmd[c].got
        /\ l.existing = cmd[c].existing
    BY <2>1 DEF Local, Pcs
  <2>3. /\ cmd' \in [Commands -> Local] /\ cmd'[c] = l
        /\ \A d \in Commands \ {c} : cmd'[d] = cmd[d]
    BY <2>1, <2>2 DEF Goto, IInv, TypeOK
  <2>4. /\ procs' \in [Pids -> {"none", "alive", "dead"}] /\ procs'[p] = "alive"
        /\ \A q \in Pids \ {p} : procs'[q] = procs[q]
    BY DEF IInv, TypeOK
  <2>5. TypeOK'
    BY <2>3, <2>4 DEF IInv, TypeOK
  <2>6. NamesGiven'
    <3>1. PICK f : Gives(f)
      BY DEF IInv, NamesGiven
    <3>2. Gives(f)'
      BY <2>2, <2>3, <3>1 DEF Gives
    <3> QED
      BY <3>2 DEF NamesGiven
  <2>7. section # c
    BY OutsideSection DEF SectionPcs, SanitizingPcs
  <2>8. SectionHeld'
    <3>1. CASE section = Nobody
      BY <3>1 DEF IInv, SectionHeld
    <3>2. CASE section # Nobody
      <4>1. section \in Commands /\ cmd'[section] = cmd[section]
        BY <2>3, <2>7, <3>2 DEF IInv, TypeOK
      <4>2. Edit(rows, section)' = Edit(rows, section)
        BY <4>1, EditSame
      <4> QED
        BY <4>1, <4>2 DEF IInv, SectionHeld, IdsIn
    <3> QED
      BY <3>1, <3>2
  <2>9. (\A d \in Commands : Agrees(cmd[d], d))'
    <3>1. \A k : Target(k) => Target(k)'
      BY <2>4 DEF Target
    <3>2. ASSUME NEW d \in Commands \ {c} PROVE Agrees(cmd[d], d)'
      <4>1. cmd'[d] = cmd[d] /\ Agrees(cmd[d], d)
        BY <2>3 DEF IInv
      <4>2. \A q \in Pids : procs[q] = "dead" => procs'[q] = "dead"
        BY <2>4
      <4> QED
        BY <3>1, <4>1, <4>2 DEF Agrees, Target
    <3>3. Agrees(l, c)'
      BY <2>2 DEF Agrees
    <3> QED
      BY <2>3, <3>2, <3>3
  <2>10. Packed'
    <3>1. \A d \in Commands, x \in RowIds : x \in plan[d].drop => cmd'[d] = cmd[d]
      BY <2>3, <2>7 DEF IInv, SectionHeld, NoPlan
    <3>2. QueuedHasPackage'
      <4>1. \A r \in rows : r.id \in RowIds
        BY DEF IInv, TypeOK, Row
      <4> QED
        BY <3>1, <4>1 DEF IInv, Packed, QueuedHasPackage, Sanitizing
    <3>3. writer # Nobody => writer \in Commands /\ cmd'[writer] = cmd[writer]
      BY <2>3, <2>7 DEF IInv, SectionHeld, TypeOK
    <3> QED
      BY <3>2, <3>3 DEF IInv, Packed
  <2>11. OwnersRan' /\ RunsAreOnFile'
    BY <2>4 DEF IInv, OwnersRan, RunsAreOnFile
  <2>12. TaktAcceptsFile'
    BY DEF Agrees, TaktAcceptsFile, UniqueNames
  <2>13. Sound(rows)' /\ Accounted'
    BY DEF IInv, Sound, Accounted, NoRowLost
  <2> QED
    BY <2>5, <2>6, <2>8, <2>9, <2>10, <2>11, <2>12, <2>13 DEF IInv
<1> QED
  BY <1>2, <1>3 DEF Spawn

LEMMA ExitIInv ==
    ASSUME IInv, NEW p \in Pids, Exit(p)
    PROVE  IInv'
<1> USE DEF file, lock, history
<1>1. /\ procs[p] = "alive" /\ procs' = [procs EXCEPT ![p] = "dead"]
      /\ work' = [work EXCEPT ![p] = Nobody] /\ UNCHANGED <<file, lock, cmd, history>>
  BY DEF Exit
<1>2. /\ procs' \in [Pids -> {"none", "alive", "dead"}] /\ procs'[p] = "dead"
      /\ \A q \in Pids \ {p} : procs'[q] = procs[q]
      /\ work' \in [Pids -> RowIds \cup {Nobody}] /\ work'[p] = Nobody
      /\ \A q \in Pids \ {p} : work'[q] = work[q]
  BY <1>1 DEF IInv, TypeOK
<1>3. TypeOK'
  BY <1>1, <1>2 DEF IInv, TypeOK
<1>4. NamesGiven' /\ Sound(rows)' /\ Accounted'
  BY <1>1 DEF IInv, NamesGiven, Gives, Sound, Accounted, NoRowLost
<1>5. SectionHeld'
  <2>1. \A c \in Commands : Edit(rows, c)' = Edit(rows, c)
    BY <1>1, EditSame
  <2> QED
    BY <1>1, <2>1 DEF IInv, SectionHeld, IdsIn, TypeOK
<1>6. (\A d \in Commands : Agrees(cmd[d], d))'
  <2>1. \A k : Target(k) => Target(k)'
    BY <1>1, <1>2 DEF Target
  <2>2. \A q \in Pids : procs[q] = "dead" => procs'[q] = "dead"
    BY <1>2
  <2> QED
    BY <1>1, <2>1, <2>2 DEF IInv, Agrees, Target
<1>7. Packed'
  BY <1>1 DEF IInv, Packed, QueuedHasPackage, Sanitizing
<1>8. OwnersRan' /\ RunsAreOnFile'
  BY <1>1, <1>2 DEF IInv, OwnersRan, RunsAreOnFile
<1>9. TaktAcceptsFile'
  BY <1>1, <1>2 DEF IInv, TaktAcceptsFile, UniqueNames
<1> QED
  BY <1>3, <1>4, <1>5, <1>6, <1>7, <1>8, <1>9 DEF IInv

(* `takt add` appends a row of its own name when no section is open.       *)
LEMMA TaktAddIInv ==
    ASSUME IInv, ~TaktOverlaps, NEW c \in Commands, TaktAdd(c)
    PROVE  IInv'
<1> USE DEF lock, takt
<1>1. PICK new : new = Appended(rows, UniqueTaskId(NamesIn(rows)), c)
  OBVIOUS
<1>2. /\ cmd[c].pc = "add" /\ section = Nobody /\ writer = Nobody
      /\ rows' = new /\ packages' = packages \cup {c} /\ created' = created \cup {c}
      /\ Goto(c, "list") /\ UNCHANGED <<writer, lock, takt, removed>>
  BY <1>1 DEF TaktAdd, TaktReady
<1>3. cmd[c] \in Local /\ Agrees(cmd[c], c) /\ cmd[c].mode = "takt_add" /\ c \in RowIds \ created
  BY <1>2 DEF IInv, TypeOK, Agrees, RowIds
<1>4. IdsIn(rows) = created \ removed /\ removed \subseteq created /\ created \subseteq RowIds
  BY DEF IInv, Accounted, NoRowLost, TypeOK
<1>5. PICK f : Gives(f)
  BY DEF IInv, NamesGiven
<1>6. Adds(new, c)
  <2>1. NamesIn(rows) \in SUBSET {f[i] : i \in created}
    BY <1>4, <1>5 DEF Gives, NamesIn, IdsIn
  <2>2. f \in [created -> Names] /\ created \in SUBSET RowIds
    BY <1>4, <1>5 DEF Gives
  <2>3. UniqueTaskId(NamesIn(rows)) \in Names \ NamesIn(rows)
    BY <1>3, <2>1, <2>2, FreshName
  <2> QED
    BY <1>1, <1>3, <2>3, NewNameAdds
<1>7. PICK l : l = [cmd[c] EXCEPT !.pc = "list"]
  OBVIOUS
<1>8. /\ l \in Local /\ l.pc = "list" /\ l.mode = cmd[c].mode /\ l.got = cmd[c].got
      /\ l.existing = cmd[c].existing
  BY <1>3, <1>7 DEF Local, Pcs
<1>9. /\ cmd' \in [Commands -> Local] /\ cmd'[c] = l
      /\ \A d \in Commands \ {c} : cmd'[d] = cmd[d]
  BY <1>2, <1>7, <1>8 DEF Goto, IInv, TypeOK
<1>10. TypeOK'
  BY <1>2, <1>3, <1>6, <1>9 DEF IInv, TypeOK, Adds, Sound
<1>11. NamesGiven'
  <2>1. PICK n \in Names \ NamesIn(rows) :
           \A r \in new : r \in rows \/ (r.id = c /\ r.name = n /\ r.status = "pending")
    BY <1>6 DEF Adds
  <2>2. PICK g : g = [i \in created' |-> IF i = c THEN n ELSE f[i]]
    OBVIOUS
  <2>3. g \in [created' -> Names]
    BY <1>2, <1>5, <2>2 DEF Gives
  <2>4. (\A i \in created : g[i] = f[i]) /\ g[c] = n
    BY <1>2, <1>3, <2>2
  <2>5. \A r \in new : g[r.id] = r.name
    <3>1. \A r \in rows : r.id \in created
      BY <1>4 DEF IdsIn
    <3> QED
      BY <1>5, <2>1, <2>4, <3>1 DEF Gives
  <2>6. {f[i] : i \in created} \subseteq {g[i] : i \in created'}
    BY <1>2, <2>4
  <2>7. \A d \in Commands : cmd'[d].existing \subseteq {g[i] : i \in created'}
    BY <1>5, <1>8, <1>9, <2>6 DEF Gives
  <2>8. Gives(g)'
    BY <1>2, <2>3, <2>5, <2>7 DEF Gives
  <2> QED
    BY <2>8 DEF NamesGiven
<1>12. SectionHeld'
  BY <1>2 DEF IInv, SectionHeld
<1>13. (\A d \in Commands : Agrees(cmd[d], d))'
  <2>1. \A k : Target(k) => Target(k)'
    BY <1>2, <1>6 DEF Target, Adds
  <2>2. ASSUME NEW d \in Commands \ {c} PROVE Agrees(cmd[d], d)'
    <3>1. Agrees(cmd[d], d) /\ cmd'[d] = cmd[d]
      BY <1>9 DEF IInv
    <3>2. d \notin created => d \notin created'
      BY <1>2
    <3>3. UniqueNames(rows) => UniqueNames(rows)'
      BY <1>2, <1>6 DEF Adds, UniqueNames
    <3> QED
      BY <1>2, <2>1, <3>1, <3>2, <3>3 DEF Agrees
  <2>3. Agrees(l, c)'
    BY <1>3, <1>8 DEF Agrees
  <2> QED
    BY <1>9, <2>2, <2>3
<1>14. Accounted'
  <2>1. IdsIn(rows)' = IdsIn(rows) \cup {c}
    BY <1>2, <1>6 DEF Adds, IdsIn
  <2> QED
    BY <1>2, <1>3, <1>4, <2>1 DEF Accounted, NoRowLost
<1>15. Packed'
  <2> SUFFICES ASSUME NEW r \in new, r.status = "pending" PROVE r.id \in packages'
    BY <1>2 DEF Packed, QueuedHasPackage
  <2>1. CASE r.id = c
    BY <1>2, <2>1
  <2>2. CASE r \in rows
    <3>1. \A d \in Commands : r.id \notin plan[d].drop
      BY <1>2, NobodyAssumption DEF IInv, SectionHeld, NoPlan
    <3> QED
      BY <1>2, <2>2, <3>1 DEF IInv, Packed, QueuedHasPackage
  <2> QED
    BY <1>6, <2>1, <2>2 DEF Adds
<1>16. OwnersRan' /\ RunsAreOnFile'
  BY <1>2, <1>6 DEF IInv, OwnersRan, RunsAreOnFile, Adds
<1>17. TaktAcceptsFile'
  <2>1. UniqueNames(rows) => UniqueNames(rows)'
    BY <1>2, <1>6 DEF Adds, UniqueNames
  <2> QED
    BY <1>2, <2>1 DEF IInv, TaktAcceptsFile
<1>18. Sound(rows)'
  BY <1>2, <1>6 DEF Adds, Sound
<1> QED
  BY <1>10, <1>11, <1>12, <1>13, <1>14, <1>15, <1>16, <1>17, <1>18 DEF IInv

(* What a takt process does to a row: it moves and renames none, and one   *)
(* that it has seen running ends or goes on under the same pid.            *)
Handled(g) ==
    /\ Revises(rows, rows, g)
    /\ \A s \in rows :
         /\ g[s] \in Row
         /\ g[s].status = "pending" => s.status = "pending"
         /\ g[s].status = "running" =>
                \/ s.status = "running" /\ g[s].owner = s.owner
                \/ s.status = "pending" /\ g[s].owner \in Pids /\ procs[g[s].owner] # "none"

LEMMA HandledIInv ==
    ASSUME IInv, NEW g, Handled(g), rows' = Image(rows, g), section = Nobody, writer = Nobody,
           work' \in [Pids -> RowIds \cup {Nobody}],
           \A p \in Pids : procs[p] # "alive" => work'[p] = Nobody,
           RunsAreOnFile',
           UNCHANGED <<writer, packages, lock, cmd, procs, history>>
    PROVE  IInv'
<1> USE DEF lock, history, Handled
<1>1. /\ Sound(Image(rows, g)) /\ (UniqueNames(rows) => UniqueNames(Image(rows, g)))
      /\ IdsIn(Image(rows, g)) \subseteq IdsIn(rows)
  <2>1. Sound(rows) /\ (\A s \in rows : g[s] \in Row) /\ Revises(rows, rows, g)
    BY DEF IInv
  <2> QED
    BY <2>1, RevisedSound
<1>2. /\ \A r \in rows' : \E s \in rows : r = g[s]
      /\ \A s \in rows : g[s] \in rows'
      /\ \A s \in rows : g[s].at = s.at /\ g[s].name = s.name /\ g[s].id = s.id
  BY DEF Image, Revises
<1>3. IdsIn(rows)' = IdsIn(rows)
  BY <1>2 DEF IdsIn
<1>4. UniqueNames(rows) => UniqueNames(rows)'
  BY <1>1 DEF UniqueNames
<1>5. TypeOK'
  BY <1>2 DEF IInv, TypeOK
<1>6. NamesGiven'
  <2>1. PICK f : Gives(f)
    BY DEF IInv, NamesGiven
  <2>2. Gives(f)'
    BY <1>2, <2>1 DEF Gives
  <2> QED
    BY <2>2 DEF NamesGiven
<1>7. SectionHeld'
  BY DEF IInv, SectionHeld
<1>8. (\A d \in Commands : Agrees(cmd[d], d))'
  <2>1. ASSUME NEW k, Target(k) PROVE Target(k)'
    <3>1. PICK s \in rows : /\ s.name = k.name /\ s.status # "pending"
                            /\ s.status = "running" => s.owner = k.pid
      BY <2>1 DEF Target
    <3>2. /\ g[s] \in rows' /\ g[s].name = k.name /\ g[s].status # "pending"
          /\ g[s].status = "running" => g[s].owner = k.pid
      BY <1>2, <3>1
    <3> QED
      BY <2>1, <3>2 DEF Target
  <2>2. \A k, d : Agrees(k, d) => Agrees(k, d)'
    BY <1>4, <2>1 DEF Agrees
  <2> QED
    BY <2>2 DEF IInv
<1>9. Accounted'
  BY <1>3 DEF IInv, Accounted, NoRowLost
<1>10. Packed'
  <2> SUFFICES ASSUME NEW s \in rows, g[s].status = "pending" PROVE s.id \in packages
    BY <1>2 DEF Packed, QueuedHasPackage
  <2>1. s.status = "pending" /\ \A d \in Commands : s.id \notin plan[d].drop
    BY NobodyAssumption DEF IInv, SectionHeld, NoPlan
  <2> QED
    BY <2>1 DEF IInv, Packed, QueuedHasPackage
<1>11. OwnersRan'
  BY <1>2 DEF IInv, OwnersRan
<1>12. TaktAcceptsFile'
  BY <1>4 DEF IInv, TaktAcceptsFile
<1>13. Sound(rows)'
  BY <1>1 DEF Sound
<1> QED
  BY <1>5, <1>6, <1>7, <1>8, <1>9, <1>10, <1>11, <1>12, <1>13 DEF IInv

LEMMA ClaimIInv ==
    ASSUME IInv, ~TaktOverlaps, NEW p \in Pids, NEW r \in rows, Claim(p, r)
    PROVE  IInv'
<1>1. PICK g : g = [s \in rows |-> IF s = r THEN [r EXCEPT !.status = "running", !.owner = p] ELSE s]
  OBVIOUS
<1>2. /\ procs[p] = "alive" /\ work[p] = Nobody /\ section = Nobody /\ writer = Nobody
      /\ r.status = "pending" /\ work' = [work EXCEPT ![p] = r.id]
      /\ rows' = (rows \ {r}) \cup {[r EXCEPT !.status = "running", !.owner = p]}
      /\ UNCHANGED <<writer, packages, lock, cmd, procs, history>>
  BY DEF Claim, TaktReady
<1>3. rows \subseteq Row /\ r \in Row /\ r.id \in RowIds
  BY DEF IInv, TypeOK, Row
<1>4. /\ g[r] \in Row /\ g[r].at = r.at /\ g[r].name = r.name /\ g[r].id = r.id
      /\ g[r].status = "running" /\ g[r].owner = p
      /\ \A s \in rows \ {r} : g[s] = s
  BY <1>1, <1>3 DEF Row
<1>5. g = [s \in rows |-> g[s]]
  BY <1>1
<1>6. rows' = Image(rows, g)
  BY <1>1, <1>2 DEF Image
<1>7. Handled(g)
  <2>1. Revises(rows, rows, g)
    BY <1>4, <1>5 DEF Revises
  <2> QED
    BY <1>2, <1>3, <1>4, <2>1 DEF Handled
<1>8. /\ work' \in [Pids -> RowIds \cup {Nobody}] /\ work'[p] = r.id
      /\ \A q \in Pids \ {p} : work'[q] = work[q]
  BY <1>2, <1>3 DEF IInv, TypeOK
<1>9. \A q \in Pids : procs[q] # "alive" => work'[q] = Nobody
  BY <1>2, <1>8 DEF IInv, OwnersRan
<1>10. RunsAreOnFile'
  <2> SUFFICES ASSUME NEW q \in Pids, procs[q] = "alive", work'[q] # Nobody
               PROVE  \E s \in rows' : s.id = work'[q] /\ s.status = "running" /\ s.owner = q
    BY <1>2 DEF RunsAreOnFile
  <2>1. CASE q = p
    BY <1>4, <1>6, <1>8, <2>1 DEF Image
  <2>2. CASE q # p
    <3>1. PICK s \in rows : s.id = work[q] /\ s.status = "running" /\ s.owner = q
      BY <1>8, <2>2 DEF IInv, RunsAreOnFile
    <3>2. s # r
      BY <1>2, <3>1
    <3> QED
      BY <1>2, <1>8, <2>2, <3>1, <3>2
  <2> QED
    BY <2>1, <2>2
<1> QED
  BY <1>2, <1>6, <1>7, <1>8, <1>9, <1>10, HandledIInv

LEMMA FinishIInv ==
    ASSUME IInv, ~TaktOverlaps, NEW p \in Pids, NEW outcome \in {"completed", "failed"},
           Finish(p, outcome)
    PROVE  IInv'
<1>1. PICK g : g = [s \in rows |-> IF s.id = work[p]
                                   THEN [s EXCEPT !.status = outcome, !.owner = NoPid] ELSE s]
  OBVIOUS
<1>2. /\ procs[p] = "alive" /\ work[p] # Nobody /\ section = Nobody /\ writer = Nobody
      /\ work' = [work EXCEPT ![p] = Nobody]
      /\ UNCHANGED <<writer, packages, lock, cmd, procs, history>>
  BY DEF Finish, TaktReady
<1>3. rows' = Image(rows, g)
  BY <1>1 DEF Finish, Image
<1>4. rows \subseteq Row
  BY DEF IInv, TypeOK
<1>5. ASSUME NEW s \in rows
      PROVE  /\ g[s] \in Row /\ g[s].at = s.at /\ g[s].name = s.name /\ g[s].id = s.id
             /\ s.id = work[p] => g[s].status = outcome
             /\ s.id # work[p] => g[s] = s
  <2>1. CASE s.id = work[p]
    <3>1. g[s] = [s EXCEPT !.status = outcome, !.owner = NoPid] /\ s \in Row
      BY <1>1, <1>4, <2>1
    <3> QED
      BY <2>1, <3>1 DEF Row
  <2>2. CASE s.id # work[p]
    BY <1>1, <1>4, <2>2
  <2> QED
    BY <2>1, <2>2
<1>6. Handled(g)
  <2>1. Revises(rows, rows, g)
    BY <1>1, <1>5 DEF Revises
  <2> QED
    BY <1>5, <2>1 DEF Handled
<1>7. /\ work' \in [Pids -> RowIds \cup {Nobody}] /\ work'[p] = Nobody
      /\ \A q \in Pids \ {p} : work'[q] = work[q]
  BY <1>2 DEF IInv, TypeOK
<1>8. \A q \in Pids : procs[q] # "alive" => work'[q] = Nobody
  BY <1>2, <1>7 DEF IInv, OwnersRan
<1>9. RunsAreOnFile'
  <2> SUFFICES ASSUME NEW q \in Pids, procs[q] = "alive", work'[q] # Nobody
               PROVE  \E s \in rows' : s.id = work'[q] /\ s.status = "running" /\ s.owner = q
    BY <1>2 DEF RunsAreOnFile
  <2>1. q # p /\ work'[q] = work[q]
    BY <1>7
  <2>2. PICK s \in rows : s.id = work[q] /\ s.status = "running" /\ s.owner = q
    BY <2>1 DEF IInv, RunsAreOnFile
  <2>3. s.id # work[p]
    <3>1. PICK t \in rows : t.id = work[p] /\ t.owner = p
      BY <1>2 DEF IInv, RunsAreOnFile
    <3> QED
      BY <2>1, <2>2, <3>1 DEF IInv, Sound
  <2> QED
    BY <1>3, <1>5, <2>1, <2>2, <2>3 DEF Image
<1> QED
  BY <1>2, <1>3, <1>6, <1>7, <1>8, <1>9, HandledIInv

-----------------------------------------------------------------------------
(* The theorems.                                                           *)

LEMMA StutterIInv ==
    ASSUME IInv, UNCHANGED vars
    PROVE  IInv'
<1>1. /\ UNCHANGED <<file, lock, takt, history>> /\ cmd' = cmd
      /\ cmd' \in [Commands -> Local] /\ \A d \in Commands : Agrees(cmd'[d], d)
  BY DEF vars, IInv, TypeOK
<1> QED
  BY <1>1, LocalIInv

LEMMA NextIInv ==
    ASSUME IInv, ~TaktOverlaps, [Next]_vars
    PROVE  IInv'
<1>1. CASE UNCHANGED vars
  BY <1>1, StutterIInv
<1>2. ASSUME NEW c \in Commands, Begin(c) PROVE IInv'
  BY <1>2, BeginIInv
<1>3. ASSUME NEW c \in Commands, Step(c) PROVE IInv'
  <2>1. CASE Read(c) \/ Truncate(c) \/ Store(c)
    BY <2>1, ReadIInv, TruncateIInv, StoreIInv
  <2>2. CASE ListExisting(c) \/ FindOrigin(c)
    BY <2>2, ListingIInv
  <2>3. CASE CheckSwap(c) \/ CheckRun(c) \/ CheckStop(c) \/ TaktAddFails(c) \/ Fallback(c)
               \/ StopTimeout(c)
    BY <2>3, CheckIInv
  <2>4. CASE TaktAdd(c)
    BY <2>4, TaktAddIInv
  <2>5. CASE Discover(c) \/ Dispatch(c) \/ Spawn(c)
    BY <2>5, DiscoverIInv, DispatchIInv, SpawnIInv
  <2>6. CASE AwaitExit(c) \/ Poll(c)
    BY <2>6, WaitIInv
  <2> QED
    BY <1>3, <2>1, <2>2, <2>3, <2>4, <2>5, <2>6 DEF Step, OwnStep
<1>4. ASSUME NEW p \in Pids, TaktStep(p) PROVE IInv'
  BY <1>4, ClaimIInv, FinishIInv, ExitIInv DEF TaktStep
<1> QED
  BY <1>1, <1>2, <1>3, <1>4 DEF Next

LEMMA Invariance ==
    ASSUME ~TaktOverlaps
    PROVE  Spec => []IInv
<1>1. Init => IInv
  BY InitIInv
<1>2. IInv /\ [Next]_vars => IInv'
  BY NextIInv
<1> QED
  BY <1>1, <1>2, PTL DEF Spec

(* Every variable keeps its type; in particular uniqueTaskId always finds a *)
(* free name and resolveRunningTaskOwnerPid a pid.                         *)
THEOREM TypeIsKept ==
    ASSUME ~TaktOverlaps
    PROVE  Spec => []TypeOK
<1>1. IInv => TypeOK
  BY DEF IInv
<1> QED
  BY <1>1, Invariance, PTL

(* As long as takt stays out of open sections, the file holds exactly the  *)
(* rows ever stored less those deleted or deduplicated, however the read-  *)
(* modify-writes of the commands interleave.                               *)
THEOREM NothingIsLost ==
    ASSUME ~TaktOverlaps
    PROVE  Spec => []NoRowLost
<1>1. IInv => NoRowLost
  BY DEF IInv, Accounted
<1> QED
  BY <1>1, Invariance, PTL

(* sanitizeTasksYamlForTakt before a spawn is enough: whatever is enqueued, *)
(* deleted or finished afterwards, names stay unique for takt.             *)
THEOREM TaktNeverRefuses ==
    ASSUME ~TaktOverlaps
    PROVE  Spec => []TaktAcceptsFile
<1>1. IInv => TaktAcceptsFile
  BY DEF IInv
<1> QED
  BY <1>1, Invariance, PTL

(* removeDroppedTaskPackageDirs and deletePendingTaskPackage only ever     *)
(* remove the package of a row that leaves the file.                       *)
THEOREM QueuedTasksKeepTheirPackage ==
    ASSUME ~TaktOverlaps
    PROVE  Spec => []QueuedHasPackage
<1>1. IInv => QueuedHasPackage
  BY DEF IInv, Packed
<1> QED
  BY <1>1, Invariance, PTL

(* No delete, swap, sanitize or stop takes a row from under the live takt  *)
(* process that executes it: forceFailRunningTask is reached only when the *)
(* pid it stopped is gone, and hits that pid's row.                        *)
THEOREM NoRunIsTakenAway ==
    ASSUME ~TaktOverlaps
    PROVE  Spec => []RunsAreOnFile
<1>1. IInv => RunsAreOnFile
  BY DEF IInv
<1> QED
  BY <1>1, Invariance, PTL

(* Through the package writer, whatever else happens to the file between   *)
(* the listing, the section and the write, enqueueTask, runTaskNow and     *)
(* deriveTask answer with the task they made, never with a namesake.  With *)
(* `takt add` there is no such theorem: the id is looked for afterwards.   *)
THEOREM EnqueueAnswersWithItsTask ==
    ASSUME ~TaktOverlaps
    PROVE  Spec => []PackageEnqueueReturnsOwnTask
<1>1. IInv => PackageEnqueueReturnsOwnTask
  BY DEF IInv, Agrees, PackageEnqueueReturnsOwnTask
<1> QED
  BY <1>1, Invariance, PTL

(* What a step makes of a row that was settled.                            *)
LEMMA SettledStays ==
    ASSUME IInv, ~TaktOverlaps, Next, NEW r \in rows, NEW s \in rows',
           r.status \in {"completed", "failed", "stopped"}, s.id = r.id
    PROVE  s.status = r.status
<1>1. \A q \in rows : q.id = r.id => q = r
  BY DEF IInv, Sound
<1>2. CASE UNCHANGED rows
  BY <1>1, <1>2
<1>3. ASSUME NEW c \in Commands, Store(c) PROVE s.status = r.status
  <2>1. /\ rows' = Edit(rows, c) /\ cmd[c].pc \in SectionPcs
    BY <1>3, NobodyAssumption DEF IInv, SectionHeld, Store
  <2>2. CASE \E q \in rows : Kept(s, q, c)
    BY <1>1, <2>2 DEF Kept
  <2>3. CASE cmd[c].pc = "create" /\ s.id = c
    <3>1. c \notin created /\ r.id \in created
      BY <2>3 DEF IInv, Agrees, Accounted, NoRowLost, IdsIn
    <3> QED
      BY <2>3, <3>1
  <2> QED
    BY <2>1, <2>2, <2>3, EditKeeps
<1>4. ASSUME NEW c \in Commands, TaktAdd(c) PROVE s.status = r.status
  <2>1. /\ cmd[c].pc = "add" /\ Sound(rows) /\ c \notin created /\ r.id \in created
        /\ rows' = Appended(rows, UniqueTaskId(NamesIn(rows)), c)
    BY <1>4 DEF TaktAdd, IInv, Agrees, Accounted, NoRowLost, IdsIn
  <2>2. s \in rows \/ s.id = c
    BY <2>1 DEF Appended, NewRow
  <2> QED
    BY <1>1, <2>1, <2>2
<1>5. ASSUME NEW p \in Pids, NEW q \in rows, Claim(p, q) PROVE s.status = r.status
  BY <1>1, <1>5 DEF Claim, IInv, TypeOK, Row
<1>6. ASSUME NEW p \in Pids, NEW outcome \in {"completed", "failed"}, Finish(p, outcome)
      PROVE  s.status = r.status
  <2>1. PICK q \in rows : q.id = work[p] /\ q.status = "running"
    BY <1>6 DEF Finish, IInv, RunsAreOnFile
  <2>2. r.id # work[p]
    BY <2>1 DEF IInv, Sound
  <2>3. PICK t \in rows :
           s = IF t.id = work[p] THEN [t EXCEPT !.status = outcome, !.owner = NoPid] ELSE t
    BY <1>6 DEF Finish
  <2>4. t \in Row
    BY DEF IInv, TypeOK
  <2>5. t.id = r.id
    BY <2>3, <2>4 DEF Row
  <2> QED
    BY <1>1, <2>2, <2>3, <2>5
<1>7. ASSUME NEW c \in Commands, Begin(c) PROVE UNCHANGED rows
  BY <1>7 DEF Begin, Start, file
<1>8. ASSUME NEW c \in Commands, Step(c), ~Store(c), ~TaktAdd(c) PROVE UNCHANGED rows
  BY <1>8 DEF Step, OwnStep, Read, Truncate, ListExisting, FindOrigin, CheckSwap, CheckRun, CheckStop,
              TaktAddFails, Discover, Dispatch, Fallback, Spawn, AwaitExit, StopTimeout, Poll, file
<1>9. ASSUME NEW p \in Pids, Exit(p) PROVE UNCHANGED rows
  BY <1>9 DEF Exit, file
<1> QED
  BY <1>2, <1>3, <1>4, <1>5, <1>6, <1>7, <1>8, <1>9 DEF Next, TaktStep

(* A completed, failed or stopped task keeps its status for good: the      *)
(* forced failure of a stop and the outcome takt reports exclude another.  *)
THEOREM OutcomesAreFinal ==
    ASSUME ~TaktOverlaps
    PROVE  Spec => OutcomeIsFinal
<1> DEFINE Final == \A r \in rows : r.status \in {"completed", "failed", "stopped"} =>
                      \A s \in rows' : s.id = r.id => s.status = r.status
<1>1. IInv /\ [Next]_vars => [Final]_rows
  BY SettledStays DEF vars, file
<1> HIDE DEF Final
<1>2. Spec => [][Final]_rows
  BY <1>1, Invariance, PTL DEF Spec
<1> QED
  BY <1>2 DEF OutcomeIsFinal, Final
=============================================================================
