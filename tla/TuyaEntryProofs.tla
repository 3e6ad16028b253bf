---------------------------- MODULE TuyaEntryProofs ----------------------------
(***************************************************************************)
(* What the migration of an entry keeps and what it ends with, for every   *)
(* device, every file and every number of stops; and what set-up,          *)
(* unloading and retry of a gateway and its children keep, however many    *)
(* there are.                                                              *)
(***************************************************************************)
EXTENDS TuyaEntry, FiniteSetTheorems, WellFoundedInduction, TLAPS

EntryOK(e) == e \in EntryType /\ (e.uid = "scoped" => e.level >= 1322)

FilesOK ==
    /\ conf \subseteq ConfType
    /\ registry \subseteq EntityType
    /\ disk = [entry |-> disk.entry, registry |-> disk.registry]
    /\ EntryOK(disk.entry)
    /\ disk.registry \subseteq EntityType
    /\ stops \in Nat

PcOK ==
    /\ pc = [status |-> pc.status, at |-> pc.at, todo |-> pc.todo]
    /\ pc.at \in Nat
    /\ pc.todo \subseteq EntityType
    /\ pc.status = "entities" => pc.at \in Levels /\ pc.at > entry.level

\* An id of its own comes with the last step, and a step in hand is one that
\* the entry has not yet: without the two, a file's entity could be taken for
\* one that is gone.
IInv == EntryOK(entry) /\ FilesOK /\ PcOK

LEMMA LevelsBounded == \A t \in Levels : t \in Nat /\ t <= 1322
BY DEF Levels, Order

LEMMA ChosenTarget ==
    ASSUME NEW C, C # {} PROVE First(C) \in C
BY DEF First

\* What an entity turns into is an entity.
LEMMA RenamedType ==
    ASSUME NEW e \in EntityType, NEW uid \in {"id", "scoped"}, NEW c \in ConfType
    PROVE  Renamed(e, uid, c) \in EntityType
BY DEF Renamed, EntityType, ConfType

LEMMA ReplaceType ==
    ASSUME conf \subseteq ConfType, NEW table, NEW e \in EntityType, NEW uid \in {"id", "scoped"}
    PROVE  Replace(table, e, uid) \in EntityType
<1>1. CASE Known(e, uid) \/ Targets(table, e) = {}
  BY <1>1 DEF Replace
<1>2. CASE ~(Known(e, uid) \/ Targets(table, e) = {})
  <2>1. First(Targets(table, e)) \in Targets(table, e)
    BY <1>2, ChosenTarget
  <2>2. First(Targets(table, e)) \in ConfType
    BY <2>1 DEF Targets, Unnamed
  <2> QED BY <1>2, <2>2, RenamedType DEF Replace
<1> QED BY <1>1, <1>2

LEMMA OutcomeType ==
    ASSUME conf \subseteq ConfType, NEW at, NEW e \in EntityType, NEW uid \in {"id", "scoped"}, NEW child
    PROVE  Outcome(at, e, uid, child) \in EntityType
<1>1. OldStyle(e) \in EntityType
  <2> DEFINE C == {c \in conf : e.old /\ c.on = e.on /\ (IF c.named THEN c.key ELSE "") = e.key}
  <2>1. CASE C = {}
    BY <2>1 DEF OldStyle
  <2>2. CASE C # {}
    <3>1. First(C) \in ConfType
      BY <2>2, ChosenTarget
    <3>2. OldStyle(e) = [e EXCEPT !.key = First(C).key, !.old = FALSE]
      BY <2>2 DEF OldStyle
    <3> HIDE DEF C
    <3> QED BY <3>1, <3>2 DEF EntityType, ConfType
  <2> QED BY <2>1, <2>2
<1>2. DeviceClass(e, uid) \in EntityType
  <2>1. CASE ~e.old /\ <<e.on, e.key>> \in EndsInPlatform /\ Unnamed(e.on) # {}
    <3>1. First(Unnamed(e.on)) \in ConfType
      BY <2>1, ChosenTarget DEF Unnamed
    <3> QED BY <2>1, <3>1, RenamedType DEF DeviceClass
  <2>2. CASE ~(~e.old /\ <<e.on, e.key>> \in EndsInPlatform /\ Unnamed(e.on) # {})
    <3>1. Replace(Table1, e, uid) \in EntityType
      BY ReplaceType
    <3> QED BY <2>2, <3>1 DEF DeviceClass
  <2> QED BY <2>1, <2>2
<1>3. [e EXCEPT !.of = "removed"] \in EntityType
  BY DEF EntityType
<1>4. Scoped(e, child) \in EntityType
  BY DEF Scoped, EntityType
<1>5. Replace(Tables[at], e, uid) \in EntityType
  BY ReplaceType
<1>6. \/ Outcome(at, e, uid, child) = e
      \/ Outcome(at, e, uid, child) = OldStyle(e)
      \/ Outcome(at, e, uid, child) = DeviceClass(e, uid)
      \/ Outcome(at, e, uid, child) = [e EXCEPT !.of = "removed"]
      \/ Outcome(at, e, uid, child) = Scoped(e, child)
      \/ Outcome(at, e, uid, child) = Replace(Tables[at], e, uid)
  BY SMT DEF Outcome
<1> QED BY <1>1, <1>2, <1>3, <1>4, <1>5, <1>6

-----------------------------------------------------------------------------
(* The invariant.                                                          *)

LEMMA InitInv == Init => IInv
<1> SUFFICES ASSUME Init PROVE IInv
  OBVIOUS
<1>1. EntryOK(entry)
  BY MigrationAssumption DEF Init, EntryOK
<1>2. FilesOK
  BY <1>1, MigrationAssumption DEF Init, FilesOK
<1>3. PcOK
  BY DEF Init, PcOK
<1> QED BY <1>1, <1>2, <1>3 DEF IInv

LEMMA UidType ==
    ASSUME entry \in EntryType PROVE Uid \in {"id", "scoped"}
<1>1. entry.uid \in {"unset", "id", "scoped"}
  BY DEF EntryType
<1> QED BY <1>1 DEF Uid

LEMMA TypeOfType ==
    ASSUME NEW e \in EntryType PROVE TypeOf(e) \in Types
BY DEF TypeOf, EntryType

\* What the steps write is an entry again.
LEMMA Updates ==
    ASSUME NEW e \in EntryType, NEW l \in Nat, NEW d \in Types, NEW o \in Types,
           NEW u \in {"unset", "id", "scoped"}, u = "scoped" => l >= 1322
    PROVE  EntryOK(Updated(e, l, d, o, u)) /\ Updated(e, l, d, o, u).level = l
BY DEF Updated, EntryOK, EntryType

LEMMA NextInv == IInv /\ [Next]_vars => IInv'
<1> SUFFICES ASSUME IInv, [Next]_vars PROVE IInv'
  OBVIOUS
<1>0. TypeOf(entry) \in Types /\ Uid \in {"id", "scoped"}
  BY UidType, TypeOfType DEF IInv, EntryOK
<1>f. UNCHANGED <<conf, registry, disk, stops>> => FilesOK'
  BY DEF IInv, FilesOK
<1>e. UNCHANGED entry => EntryOK(entry)'
  BY DEF IInv
<1>p. ASSUME NEW t \in Nat, Past(t) PROVE PcOK'
  BY <1>p DEF PcOK, Past
<1>g. ASSUME NEW s \in {"raised", "refused", "done"}, Goes(s), UNCHANGED entry PROVE PcOK'
  BY <1>g DEF IInv, PcOK, Goes
<1>r. ASSUME NEW t, Reaches(t) PROVE t \in Levels /\ t \in Nat /\ t > entry.level
  BY <1>r, LevelsBounded DEF Reaches, Ahead
<1>t. /\ entry \in EntryType /\ entry.level \in Nat /\ entry.opt \in Types /\ entry.data \in Types
      /\ entry.uid \in {"unset", "id", "scoped"}
      /\ entry.uid = "scoped" => entry.level >= 1322
  BY DEF IInv, EntryOK, EntryType
<1>n. {200, 300, 400, 1304} \subseteq Nat
  OBVIOUS
<1>1. CASE From1
  <2>1. CASE Goes("raised") /\ UNCHANGED entry
    BY <1>1, <2>1, <1>f, <1>e, <1>g DEF From1, IInv
  <2>2. CASE entry' = Updated(entry, 200, NoType, entry.opt, entry.uid) /\ Past(200)
    <3>1. EntryOK(entry')
      <4>1. NoType \in Types /\ (entry.uid = "scoped" => 200 >= 1322)
        BY <1>1, <1>r, <1>t DEF From1, NoType, Types
      <4> QED BY <4>1, <2>2, <1>t, <1>n, Updates
    <3> QED BY <1>1, <2>2, <3>1, <1>f, <1>p DEF From1, IInv
  <2> QED BY <1>1, <2>1, <2>2 DEF From1
<1>2. CASE From2
  <2>1. CASE Goes("raised") /\ UNCHANGED entry
    BY <1>2, <2>1, <1>f, <1>e, <1>g DEF From2, IInv
  <2>2. CASE entry' = Updated(entry, 300, TypeOf(entry), NoType, entry.uid) /\ Past(300)
    <3>1. EntryOK(entry')
      <4>1. NoType \in Types /\ (entry.uid = "scoped" => 300 >= 1322)
        BY <1>2, <1>r, <1>t DEF From2, NoType, Types
      <4> QED BY <4>1, <2>2, <1>0, <1>t, <1>n, Updates
    <3> QED BY <1>2, <2>2, <3>1, <1>f, <1>p DEF From2, IInv
  <2> QED BY <1>2, <2>1, <2>2 DEF From2
<1>3. CASE From3
  <2>1. CASE Goes("raised") /\ UNCHANGED entry
    BY <1>3, <2>1, <1>f, <1>e, <1>g DEF From3, IInv
  <2>2. CASE entry' = Updated(entry, 400, TypeOf(entry), entry.opt, entry.uid) /\ Past(400)
    <3>1. EntryOK(entry')
      <4>1. entry.uid = "scoped" => 400 >= 1322
        BY <1>3, <1>r, <1>t DEF From3
      <4> QED BY <4>1, <2>2, <1>0, <1>t, <1>n, Updates
    <3> QED BY <1>3, <2>2, <3>1, <1>f, <1>p DEF From3, IInv
  <2> QED BY <1>3, <2>1, <2>2 DEF From3
<1>4. ASSUME NEW t \in {900, 1000, 1100}, Trims(t) PROVE IInv'
  <2>1. EntryOK(entry')
    <3>1. t \in Nat /\ NoType \in Types /\ (entry.uid = "scoped" => t >= 1322)
      BY <1>4, <1>r, <1>t DEF Trims, NoType, Types
    <3>2. entry' = Updated(entry, t, TypeOf(entry), NoType, entry.uid)
      BY <1>4 DEF Trims
    <3> QED BY <3>1, <3>2, <1>0, <1>t, <1>n, Updates
  <2> QED BY <1>4, <2>1, <1>f, <1>p DEF Trims, IInv
<1>5. CASE Retypes
  <2> DEFINE d == IF TypeOf(entry) = "removed" THEN "known" ELSE TypeOf(entry)
  <2>1. d \in Types
    BY <1>0 DEF Types
  <2>2. entry' = Updated(entry, 1304, d, entry.opt, entry.uid)
    BY <1>5 DEF Retypes
  <2> HIDE DEF d
  <2>3. EntryOK(entry')
    <3>1. entry.uid = "scoped" => 1304 >= 1322
      BY <1>5, <1>r, <1>t DEF Retypes
    <3>2. EntryOK(Updated(entry, 1304, d, entry.opt, entry.uid))
      BY <3>1, <2>1, <1>t, Updates
    <3> QED BY <3>2, <2>2
  <2> QED BY <1>5, <2>3, <1>f, <1>p DEF Retypes, IInv
<1>6. ASSUME NEW t \in WithEntities, Begins(t) PROVE IInv'
  <2>0. t \in Levels /\ t \in Nat /\ t > entry.level
    BY <1>6, <1>r DEF Begins
  <2>1. CASE Goes("refused") /\ UNCHANGED entry
    BY <1>6, <2>1, <1>f, <1>e, <1>g DEF Begins, IInv
  <2>2. CASE /\ pc' = [status |-> "entities", at |-> t, todo |-> registry]
             /\ entry' = IF t = 1312 THEN Updated(entry, entry.level, entry.data, entry.opt, Uid) ELSE entry
    <3>1. EntryOK(entry') /\ entry'.level = entry.level
      <4>1. CASE entry' = entry
        BY <4>1 DEF IInv
      <4>2. CASE entry' = Updated(entry, entry.level, entry.data, entry.opt, Uid)
        <5>1. Uid = "scoped" => entry.uid = "scoped"
          BY DEF Uid
        <5> QED BY <4>2, <5>1, <1>0, <1>t, Updates
      <4> QED BY <2>2, <4>1, <4>2
    <3>2. PcOK'
      BY <2>0, <2>2, <3>1 DEF PcOK, IInv, FilesOK
    <3> QED BY <1>6, <3>1, <3>2, <1>f DEF Begins, IInv
  <2> QED BY <1>6, <2>1, <2>2 DEF Begins
<1>7. CASE Stores
  <2> DEFINE l == IF pc.at = 1305 THEN entry.level ELSE pc.at
             u == IF pc.at = 1322 /\ Uid = "id" /\ entry.child THEN "scoped" ELSE entry.uid
  <2>1. pc.at \in Nat /\ pc.at > entry.level
    BY <1>7 DEF Stores, IInv, PcOK
  <2>2. l \in Nat /\ l >= entry.level
    BY <2>1, <1>t
  <2>3. u \in {"unset", "id", "scoped"} /\ (u = "scoped" => l >= 1322)
    BY <2>1, <2>2, <1>t DEF IInv, EntryOK, EntryType
  <2>4. entry' = Updated(entry, l, entry.data, entry.opt, u)
    BY <1>7 DEF Stores
  <2> HIDE DEF l, u
  <2>5. EntryOK(entry')
    BY <2>2, <2>3, <2>4, <1>t, <1>n, Updates
  <2> QED BY <1>7, <2>1, <2>5, <1>f, <1>p DEF Stores, IInv
<1>8. CASE Ends13
  BY <1>8, <1>f, <1>e, <1>g DEF Ends13, IInv
<1>9. ASSUME NEW e \in registry, Entity(e) PROVE IInv'
  <2> DEFINE to == Outcome(pc.at, e, Uid, entry.child)
  <2>1. to \in EntityType
    BY <1>0, OutcomeType DEF IInv, FilesOK
  <2>2. CASE Goes("raised") /\ UNCHANGED registry
    BY <1>9, <2>2, <1>f, <1>e, <1>g DEF Entity, IInv
  <2>3. CASE /\ pc' = [pc EXCEPT !.todo = @ \ {e}]
             /\ registry' = Left((registry \ {e}) \cup {to})
    <3>1. FilesOK'
      BY <1>9, <2>1, <2>3 DEF Entity, IInv, FilesOK, Left
    <3>2. PcOK'
      BY <1>9, <2>3 DEF Entity, IInv, PcOK
    <3> QED BY <1>9, <3>1, <3>2, <1>e DEF Entity, IInv
  <2> QED BY <1>9, <2>2, <2>3 DEF Entity
<1>10. CASE Stops
  <2>1. EntryOK(entry')
    BY <1>10 DEF Stops, IInv, FilesOK
  <2>2. FilesOK'
    BY <1>10, <2>1 DEF Stops, IInv, FilesOK
  <2>3. PcOK'
    BY <1>10 DEF Stops, PcOK
  <2> QED BY <2>1, <2>2, <2>3 DEF IInv
<1>11. CASE UNCHANGED vars
  BY <1>11, <1>f, <1>e DEF vars, IInv, PcOK
<1> QED BY <1>1, <1>2, <1>3, <1>4, <1>5, <1>6, <1>7, <1>8, <1>9, <1>10, <1>11 DEF Next, Migrates

THEOREM Invariant == Spec => []IInv
BY InitInv, NextInv, PTL DEF Spec

-----------------------------------------------------------------------------
(* No entity that the file still has is lost.                              *)

\* An id that has its platform is none of the oldest.
LEMMA NewStyle ==
    ASSUME NEW e, e.old = FALSE
    PROVE  OldStyle(e) = e
<1> DEFINE C == {c \in conf : e.old /\ c.on = e.on /\ (IF c.named THEN c.key ELSE "") = e.key}
<1>1. \A c : c \in C => e.old
  OBVIOUS
<1>2. OldStyle(e) = IF C = {} THEN e ELSE [e EXCEPT !.key = First(C).key, !.old = FALSE]
  BY DEF OldStyle
<1> HIDE DEF C
<1> QED BY <1>1, <1>2

LEMMA KnownStyle ==
    ASSUME NEW e, Known(e, "id")
    PROVE  OldStyle(e) = e /\ \A table : Replace(table, e, "id") = e
<1>1. e.old = FALSE
  BY DEF Known
<1>2. OldStyle(e) = e
  BY <1>1, NewStyle
<1>3. \A table : Replace(table, e, "id") = e
  BY DEF Replace
<1> QED BY <1>2, <1>3

\* What a step makes of an entity that the file has: at most the gateway comes
\* in front.
LEMMA KnownOutcome ==
    ASSUME NEW at, at > 1301, NEW e \in EntityType, NEW child, Known(e, "id")
    PROVE  LET f == Outcome(at, e, "id", child)
           IN  f.on = e.on /\ f.key = e.key /\ f.of \in {"id", "scoped"}
<1>1. e.of = "id"
  BY DEF Known
<1>2. OldStyle(e) = e
  BY KnownStyle
<1>3. Replace(Tables[at], e, "id") = e
  BY KnownStyle
<1>4. Outcome(at, e, "id", child) \in {e, Scoped(e, child)}
  BY <1>1, <1>2, <1>3 DEF Outcome
<1> QED BY <1>1, <1>4 DEF Scoped, EntityType

LEMMA StepKeepsKnown ==
    ASSUME IInv, [Next]_vars, entry.level >= 1301, stops' = stops,
           NEW e \in registry, Known(e, "id")
    PROVE  \E f \in registry' : f.on = e.on /\ f.key = e.key /\ f.of \in {"id", "scoped"}
<1>0. e \in EntityType /\ e.of = "id"
  BY DEF IInv, FilesOK, Known
<1>1. CASE UNCHANGED registry
  BY <1>0, <1>1
<1>2. CASE \E e2 \in registry : Entity(e2)
  <2>1. PICK e2 \in registry : Entity(e2)
    BY <1>2
  <2> DEFINE to == Outcome(pc.at, e2, Uid, entry.child)
  <2>2. CASE registry' = Left((registry \ {e2}) \cup {to})
    <3>1. CASE e # e2
      BY <1>0, <2>2, <3>1 DEF Left
    <3>2. CASE e = e2
      <4>1. pc.at \in Levels /\ pc.at > entry.level
        BY <2>1 DEF Entity, IInv, PcOK
      <4>2. pc.at \in Nat /\ pc.at <= 1322 /\ entry.level \in Nat
        BY <4>1, LevelsBounded DEF IInv, EntryOK, EntryType
      <4>3. entry.uid # "scoped" /\ entry.uid \in {"unset", "id", "scoped"}
        BY <4>1, <4>2 DEF IInv, EntryOK, EntryType
      <4>4. Uid = "id"
        BY <4>3 DEF Uid
      <4>5. to.on = e.on /\ to.key = e.key /\ to.of \in {"id", "scoped"}
        BY <1>0, <3>2, <4>1, <4>2, <4>4, KnownOutcome
      <4> HIDE DEF to
      <4> QED BY <2>2, <4>5 DEF Left
    <3> QED BY <3>1, <3>2
  <2> QED BY <2>1, <2>2, <1>1 DEF Entity
<1>3. CASE Stops
  BY <1>3 DEF Stops, IInv, FilesOK
<1> QED BY <1>1, <1>2, <1>3 DEF Next, Migrates, vars, From1, From2, From3, Trims, Retypes, Begins, Stores, Ends13

\* Whatever the entry, the file, the entities and the stops: from version 13 on
\* no step of async_migrate_entry renames an entity that the file still has.
THEOREM KeepsKnown == Spec => KnownStays
<1>1. IInv /\ [Next]_vars =>
        [entry.level >= 1301 /\ stops' = stops =>
            \A e \in registry : Known(e, "id") =>
                \E f \in registry' : f.on = e.on /\ f.key = e.key /\ f.of \in {"id", "scoped"}]_vars
  BY StepKeepsKnown
<1> QED BY <1>1, Invariant, PTL DEF Spec, KnownStays

-----------------------------------------------------------------------------
(* What the steps make of an entity that nothing interrupts.               *)

\* Induction, as it is used below.
LEMMA Least ==
    ASSUME NEW T, T \subseteq Nat, T # {}
    PROVE  \E n \in T : \A m \in T : n <= m
<1> DEFINE Below == OpToRel(<, Nat)
<1>1. IsWellFoundedOn(Below, Nat)
  BY NatLessThanWellFounded
<1>2. \A m, n \in Nat : <<m, n>> \in Below <=> m < n
  BY DEF OpToRel
<1> HIDE DEF Below
<1>3. PICK n \in T : \A m \in T : ~(<<m, n>> \in Below)
  BY <1>1, WFMin
<1>4. \A m \in T : ~(m < n)
  BY <1>2, <1>3
<1> QED BY <1>4

LEMMA OrderFacts ==
    /\ Len(Order) = 28
    /\ \A i \in 1..28 : Order[i] \in Nat /\ Order[i] > 0 /\ Order[i] \in Levels /\ Order[i] <= 1322
    /\ \A t \in Levels : \E k \in 1..28 : t = Order[k]
BY DEF Order, Levels

LEMMA OrderRises == \A i, j \in 1..28 : i < j => Order[i] < Order[j]
BY DEF Order

LEMMA TableLevels ==
    DOMAIN Tables = {1301, 1302, 1303, 1305, 1306, 1307, 1308, 1309, 1310, 1313, 1315, 1316,
                     1317, 1318, 1319, 1320, 1321}
BY DEF Tables

\* The id by which the entities were known, and the steps since.
Given == IF hist.entry.uid = "unset" THEN "id" ELSE hist.entry.uid
Step(i, e) ==
    IF Order[i] <= hist.entry.level THEN e
    ELSE Outcome(Order[i], e, Given, hist.entry.child)

Steps == [i \in 1..28 |-> [e \in EntityType |-> Step(i, e)]]

\* What becomes of an entity, of which a step makes what S says.
Follows(S, c, e) ==
    /\ c \in [0..28 -> EntityType]
    /\ c[0] = e
    /\ \A i \in 1..28 : c[i] = S[i][c[i - 1]]

HistOK ==
    /\ hist = [entry |-> hist.entry, registry |-> hist.registry, lost |-> hist.lost]
    /\ EntryOK(hist.entry)
    /\ hist.registry \subseteq EntityType
    /\ conf \subseteq ConfType

LEMMA StepType ==
    ASSUME HistOK, NEW i, NEW e \in EntityType
    PROVE  Step(i, e) \in EntityType
<1>1. Given \in {"id", "scoped"}
  BY DEF HistOK, EntryOK, EntryType, Given
<1> QED BY <1>1, OutcomeType DEF Step, HistOK

LEMMA StepsType ==
    ASSUME HistOK
    PROVE  /\ Steps \in [1..28 -> [EntityType -> EntityType]]
           /\ \A i \in 1..28 : \A e \in EntityType : Steps[i][e] = Step(i, e)
BY StepType DEF Steps

LEMMA Longer ==
    ASSUME NEW n \in 1..28, NEW A, NEW c \in [0..(n - 1) -> A]
    PROVE  /\ c[n - 1] \in A
           /\ \A x \in A : [i \in 0..n |-> IF i = n THEN x ELSE c[i]] \in [0..n -> A]
<1>1. n - 1 \in 0..(n - 1) /\ \A i \in 0..n : i # n => i \in 0..(n - 1)
  OBVIOUS
<1>2. c[n - 1] \in A
  BY <1>1
<1>3. \A x \in A : \A i \in 0..n : (IF i = n THEN x ELSE c[i]) \in A
  BY <1>1
<1> QED BY <1>2, <1>3

\* The recursion has a solution.
LEMMA CourseExists ==
    ASSUME NEW S \in [1..28 -> [EntityType -> EntityType]], NEW e \in EntityType
    PROVE  \E c : Follows(S, c, e)
<1> DEFINE Up(n, c) == /\ c \in [0..n -> EntityType]
                       /\ c[0] = e
                       /\ \A i \in 1..n : c[i] = S[i][c[i - 1]]
           No(n) == ~\E c : Up(n, c)
           T == {n \in 0..28 : No(n)}
<1>1. SUFFICES ASSUME T # {} PROVE FALSE
  <2>1. T = {}
    BY <1>1
  <2>2. 28 \in 0..28
    OBVIOUS
  <2>3. PICK c : Up(28, c)
    BY <2>1, <2>2
  <2>4. Follows(S, c, e)
    BY <2>3 DEF Follows
  <2> QED BY <2>4
<1>2. PICK n \in T : \A m \in T : n <= m
  <2>1. T \subseteq Nat
    <3> HIDE DEF No
    <3> QED OBVIOUS
  <2> HIDE DEF T
  <2> QED BY <1>1, <2>1, Least
<1>3. CASE n = 0
  <2>1. Up(0, [i \in 0..0 |-> e])
    OBVIOUS
  <2> QED BY <1>2, <1>3, <2>1
<1>4. CASE n # 0
  <2>1. n \in 1..28 /\ n - 1 \in 0..28
    <3>1. n \in 0..28
      BY <1>2
    <3> HIDE DEF T, Up, No
    <3> QED BY <3>1, <1>4
  <2>2. n - 1 \notin T
    <3> HIDE DEF T
    <3> QED BY <1>2, <2>1
  <2>3. PICK c : Up(n - 1, c)
    BY <2>1, <2>2
  <2> DEFINE d == [i \in 0..n |-> IF i = n THEN S[n][c[n - 1]] ELSE c[i]]
  <2>4. c[n - 1] \in EntityType
    <3>1. c \in [0..(n - 1) -> EntityType]
      BY <2>3
    <3> HIDE DEF T, Up, No
    <3> QED BY <2>1, <3>1, Longer
  <2>5. d \in [0..n -> EntityType] /\ d[0] = e
    <3>1. c \in [0..(n - 1) -> EntityType] /\ c[0] = e
      BY <2>3
    <3> HIDE DEF T, Up, No
    <3>2. S[n][c[n - 1]] \in EntityType
      BY <2>1, <2>4
    <3>3. d \in [0..n -> EntityType]
      <4>1. \A x \in EntityType : [i \in 0..n |-> IF i = n THEN x ELSE c[i]] \in [0..n -> EntityType]
        BY <2>1, <3>1, Longer
      <4> QED BY <3>2, <4>1, Zenon
    <3>4. 0 \in 0..n /\ 0 # n
      BY <1>4, <2>1
    <3> QED BY <3>1, <3>3, <3>4
  <2>6. ASSUME NEW i \in 1..n PROVE d[i] = S[i][d[i - 1]]
    <3>1. i \in 0..n /\ i - 1 \in 0..n /\ i - 1 # n
      <4> HIDE DEF T, Up, No, d
      <4> QED BY <2>1
    <3>2. CASE i = n
      <4>1. d[i] = S[n][c[n - 1]] /\ d[i - 1] = c[n - 1]
        BY <3>1, <3>2
      <4> QED BY <3>2, <4>1
    <3>3. CASE i # n
      <4>1. d[i] = c[i] /\ d[i - 1] = c[i - 1]
        BY <3>1, <3>3
      <4>2. i \in 1..(n - 1)
        <5> HIDE DEF T, Up, No, d
        <5> QED BY <2>1, <3>3
      <4>3. c[i] = S[i][c[i - 1]]
        BY <2>3, <4>2
      <4> QED BY <4>1, <4>3
    <3> QED BY <3>2, <3>3
  <2> HIDE DEF d
  <2>7. Up(n, d)
    BY <2>5, <2>6
  <2> QED BY <1>2, <2>7
<1> QED BY <1>3, <1>4

\* Two solutions of the recursion are one.
LEMMA OneCourse ==
    ASSUME NEW S, NEW e, NEW c, NEW d, Follows(S, c, e), Follows(S, d, e)
    PROVE  c = d
<1> DEFINE T == {i \in 0..28 : c[i] # d[i]}
<1>1. T = {}
  <2> SUFFICES ASSUME T # {} PROVE FALSE
    OBVIOUS
  <2>1. PICK n \in T : \A m \in T : n <= m
    <3>1. T \subseteq Nat
      OBVIOUS
    <3> HIDE DEF T
    <3> QED BY <3>1, Least
  <2>2. n # 0
    BY DEF Follows
  <2>3. n \in 1..28 /\ c[n - 1] = d[n - 1]
    BY <2>1, <2>2
  <2> QED BY <2>3 DEF Follows
<1> QED BY <1>1 DEF Follows

LEMMA UndisturbedFollows ==
    ASSUME HistOK, NEW e \in EntityType
    PROVE  Follows(Steps, Undisturbed(e), e)
<1> DEFINE P(g) == g = [i \in 0..Len(Order) |-> IF i = 0 THEN e ELSE Step(i, g[i - 1])]
<1>1. PICK c : Follows(Steps, c, e)
  BY StepsType, CourseExists
<1>2. P(c)
  <2>1. c \in [0..28 -> EntityType] /\ c[0] = e
    BY <1>1 DEF Follows
  <2>2. ASSUME NEW i \in 1..28 PROVE c[i] = Step(i, c[i - 1])
    <3>1. c[i - 1] \in EntityType /\ c[i] = Steps[i][c[i - 1]]
      BY <1>1, <2>1 DEF Follows
    <3> HIDE DEF P
    <3> QED BY <3>1, StepsType
  <2> QED BY <2>1, <2>2, OrderFacts
<1>3. P(CHOOSE g : P(g))
  BY <1>2, Zenon
<1>4. Undisturbed(e) = CHOOSE g : P(g)
  BY DEF Undisturbed, Step, Given
<1>5. P(Undisturbed(e))
  BY <1>3, <1>4
<1> DEFINE u == Undisturbed(e)
<1> HIDE DEF u
<1>6. u = [i \in 0..28 |-> IF i = 0 THEN e ELSE Step(i, u[i - 1])]
  BY <1>5, OrderFacts DEF u
<1>7. u[0] = e /\ \A i \in 1..28 : u[i] = Step(i, u[i - 1])
  BY <1>6
<1>8. \A i \in 0..28 : u[i] = c[i]
  <2> DEFINE T == {i \in 0..28 : u[i] # c[i]}
  <2>1. SUFFICES ASSUME T # {} PROVE FALSE
    OBVIOUS
  <2>2. PICK n \in T : \A m \in T : n <= m
    <3>1. T \subseteq Nat
      OBVIOUS
    <3> HIDE DEF T
    <3> QED BY <2>1, <3>1, Least
  <2>3. n # 0
    BY <1>1, <1>7 DEF Follows
  <2>4. n \in 1..28 /\ n - 1 \in 0..28 /\ u[n - 1] = c[n - 1]
    BY <2>2, <2>3
  <2>5. c[n - 1] \in EntityType /\ c[n] = Steps[n][c[n - 1]]
    BY <1>1, <2>4 DEF Follows
  <2>6. u[n] = c[n]
    BY <1>7, <2>4, <2>5, StepsType
  <2> QED BY <2>6
<1>9. u = c
  BY <1>1, <1>6, <1>8 DEF Follows
<1> QED BY <1>1, <1>9 DEF u

\* What the steps do a second time: what the file has stays, but for the
\* gateway in front and what 13.1 does.
LEMMA KnownRests ==
    ASSUME NEW at, NEW e, NEW child, Known(e, "id"), at # 1301, at # 1322
    PROVE  Outcome(at, e, "id", child) = e
<1>1. e.of = "id"
  BY DEF Known
<1> QED BY <1>1, KnownStyle DEF Outcome

LEMMA Kinds ==
    ASSUME NEW at \in Nat, NEW e, NEW child, NEW to, to = Outcome(at, e, "id", child)
    PROVE  \/ to = e
           \/ at = 1200 /\ to = OldStyle(e) /\ e.of # "removed"
           \/ at = 1301 /\ to = DeviceClass(e, "id")
           \/ at = 1312 /\ to = [e EXCEPT !.of = "removed"]
           \/ at = 1322 /\ to = Scoped(e, child)
           \/ at \in DOMAIN Tables \ {1301} /\ to = Replace(Tables[at], e, "id")
<1>1. CASE e.of = "removed"
  <2>1. to = e
    BY <1>1 DEF Outcome
  <2> QED BY <2>1
<1>2. CASE e.of # "removed" /\ at = 1200
  BY <1>2 DEF Outcome
<1>3. CASE e.of # "removed" /\ at = 1301
  BY <1>3 DEF Outcome
<1>4. CASE e.of # "removed" /\ at = 1312
  BY <1>4 DEF Outcome
<1>5. CASE e.of # "removed" /\ at = 1322
  BY <1>5 DEF Outcome
<1>6. CASE e.of # "removed" /\ at \notin {1200, 1301, 1312, 1322}
  <2>1. CASE at \in DOMAIN Tables
    <3>1. to = Replace(Tables[at], e, "id")
      BY <1>6, <2>1 DEF Outcome
    <3> QED BY <1>6, <2>1, <3>1
  <2>2. CASE at \notin DOMAIN Tables
    <3>1. to = e
      BY <1>6, <2>2 DEF Outcome
    <3> QED BY <3>1
  <2> QED BY <2>1, <2>2
<1> QED BY <1>1, <1>2, <1>3, <1>4, <1>5, <1>6

LEMMA ReplaceKind ==
    ASSUME conf \subseteq ConfType, NEW table, NEW e \in EntityType, Replace(table, e, "id") # e
    PROVE  Known(Replace(table, e, "id"), "id")
<1> DEFINE c == First(Targets(table, e))
<1>1. c \in Targets(table, e) /\ Replace(table, e, "id") = Renamed(e, "id", c)
  BY ChosenTarget DEF Replace
<1>2. c \in conf /\ c.on = e.on
  BY <1>1 DEF Targets, Unnamed
<1> HIDE DEF c
<1> QED BY <1>1, <1>2 DEF Known, Renamed, EntityType

LEMMA OldStyleRests ==
    ASSUME NEW e \in EntityType
    PROVE  OldStyle(OldStyle(e)) = OldStyle(e)
<1>1. OldStyle(e) = e \/ OldStyle(e).old = FALSE
  BY DEF OldStyle, EntityType
<1> QED BY <1>1, NewStyle

LEMMA DeviceClassStyle ==
    ASSUME NEW e \in EntityType, DeviceClass(e, "id") # e
    PROVE  OldStyle(DeviceClass(e, "id")) = DeviceClass(e, "id")
<1>1. \E c : DeviceClass(e, "id") = Renamed(e, "id", c)
  BY DEF DeviceClass, Replace
<1>2. DeviceClass(e, "id").old = FALSE
  BY <1>1 DEF Renamed, EntityType
<1> QED BY <1>2, NewStyle

LEMMA DeviceClassRests ==
    ASSUME conf \subseteq ConfType, NEW e \in EntityType
    PROVE  DeviceClass(DeviceClass(e, "id"), "id") = DeviceClass(e, "id")
<1> DEFINE to == DeviceClass(e, "id")
<1>1. CASE ~e.old /\ <<e.on, e.key>> \in EndsInPlatform
  <2>1. CASE Unnamed(e.on) = {}
    BY <1>1, <2>1 DEF DeviceClass
  <2>2. CASE Unnamed(e.on) # {}
    <3> DEFINE c == First(Unnamed(e.on))
    <3>1. c \in conf /\ c.on = e.on
      BY <2>2, ChosenTarget DEF Unnamed
    <3>2. to = Renamed(e, "id", c)
      BY <1>1, <2>2 DEF DeviceClass
    <3>3. to.on = e.on /\ to.key = c.key /\ to.old = FALSE /\ to.of = "id" /\ to \in EntityType
      BY <3>1, <3>2 DEF Renamed, EntityType, ConfType
    <3>4. Known(to, "id")
      BY <3>1, <3>3 DEF Known
    <3>5. Replace(Table1, to, "id") = to
      BY <3>4 DEF Replace
    <3>6. Renamed(to, "id", c) = to
      <4> HIDE DEF to, c
      <4> QED BY <3>2 DEF Renamed
    <3>7. DeviceClass(to, "id") = to
      <4> HIDE DEF to
      <4> QED BY <2>2, <3>3, <3>5, <3>6 DEF DeviceClass
    <3> QED BY <3>7
  <2> QED BY <2>1, <2>2
<1>2. CASE ~(~e.old /\ <<e.on, e.key>> \in EndsInPlatform)
  <2>1. to = Replace(Table1, e, "id")
    BY <1>2 DEF DeviceClass
  <2>2. CASE to = e
    BY <2>2
  <2>3. CASE to # e
    <3>1. Known(to, "id")
      BY <2>1, <2>3, ReplaceKind
    <3>2. Targets(Table1, e) # {} /\ \E c : to = Renamed(e, "id", c)
      BY <2>1, <2>3 DEF Replace
    <3>3. e.on = "sensor"
      BY <3>2 DEF Targets, Rows, Table1, R
    <3>4. to.on = e.on
      BY <3>2 DEF Renamed, EntityType
    <3>5. <<to.on, to.key>> \notin EndsInPlatform
      BY <3>3, <3>4 DEF EndsInPlatform
    <3>6. Replace(Table1, to, "id") = to
      BY <3>1 DEF Replace
    <3> QED BY <3>5, <3>6 DEF DeviceClass
  <2> QED BY <2>2, <2>3
<1> QED BY <1>1, <1>2

LEMMA Idle ==
    ASSUME NEW at, at \notin DOMAIN Tables \cup {1200, 1312, 1322}, NEW e, NEW child
    PROVE  Outcome(at, e, "id", child) = e
BY TableLevels DEF Outcome

LEMMA Early ==
    ASSUME NEW e, NEW child
    PROVE  /\ OldStyle(e) = e => Outcome(1200, e, "id", child) = e
           /\ DeviceClass(e, "id") = e => Outcome(1301, e, "id", child) = e
<1>1. OldStyle(e) = e => Outcome(1200, e, "id", child) = e
  <2>1. 1200 \in Nat /\ 1200 \notin DOMAIN Tables
    BY TableLevels
  <2>2. Outcome(1200, e, "id", child) \in {e, OldStyle(e)}
    BY <2>1, Kinds
  <2> QED BY <2>2
<1>2. DeviceClass(e, "id") = e => Outcome(1301, e, "id", child) = e
  BY DEF Outcome
<1> QED BY <1>1, <1>2

\* What a step has done it does not do again, and it undoes nothing that a step
\* before it did; but for the last one, which goes by the gateway's id, and for
\* 13.1, which takes the names that later releases gave for its own.
LEMMA Settles ==
    ASSUME conf \subseteq ConfType, NEW at \in Levels, NEW f \in EntityType, NEW child,
           NEW to, to = Outcome(at, f, "id", child), NEW u \in Levels, u <= at,
           u < at => Outcome(u, f, "id", child) = f \/ f.of = "scoped" \/ u = 1301
    PROVE  Outcome(u, to, "id", child) = to \/ to.of = "scoped" \/ (u = 1301 /\ u < at)
<1>1. at \in Nat /\ u \in Nat
  BY LevelsBounded
<1>2. CASE to = f
  <2>1. CASE u = at
    BY <1>2, <2>1
  <2>2. CASE u # at
    <3>1. u < at
      BY <1>1, <2>2
    <3> QED BY <1>2, <3>1
  <2> QED BY <2>1, <2>2
<1>3. CASE to # f /\ at = 1200 /\ to = OldStyle(f)
  <2>2. CASE u = 1200
    <3>1. OldStyle(to) = to
      BY <1>3, OldStyleRests
    <3> QED BY <2>2, <3>1, Early
  <2>3. CASE u # 1200
    <3>1. u < 1200
      BY <1>1, <1>3, <2>3
    <3>2. u \notin DOMAIN Tables \cup {1200, 1312, 1322}
      BY <1>1, <3>1, TableLevels
    <3> QED BY <3>2, Idle
  <2> QED BY <2>2, <2>3
<1>4. CASE at = 1301 /\ to = DeviceClass(f, "id")
  <2>1. CASE u = 1301
    <3>1. DeviceClass(to, "id") = to
      BY <1>4, DeviceClassRests
    <3> QED BY <2>1, <3>1, Early
  <2>2. CASE u = 1200 /\ to # f
    <3>1. OldStyle(to) = to
      BY <1>4, <2>2, DeviceClassStyle
    <3> QED BY <2>2, <3>1, Early
  <2>3. CASE u # 1200 /\ u # 1301
    <3>1. u < 1301
      BY <1>1, <1>4, <2>3
    <3>2. u \notin DOMAIN Tables \cup {1200, 1312, 1322}
      BY <1>1, <2>3, <3>1, TableLevels
    <3> QED BY <3>2, Idle
  <2> QED BY <1>2, <2>1, <2>2, <2>3
<1>5. CASE at = 1312 /\ to = [f EXCEPT !.of = "removed"]
  <2>1. to.of = "removed"
    BY <1>5 DEF EntityType
  <2> QED BY <2>1 DEF Outcome
<1>6. CASE to # f /\ at = 1322 /\ to = Scoped(f, child)
  <2>1. to.of = "scoped"
    BY <1>6 DEF Scoped, EntityType
  <2> QED BY <2>1
<1>7. CASE to # f /\ at \in DOMAIN Tables \ {1301} /\ to = Replace(Tables[at], f, "id")
  <2>1. Known(to, "id")
    BY <1>7, ReplaceKind
  <2>2. at # 1322 /\ at <= 1321 /\ at > 1301
    BY <1>7, TableLevels
  <2>3. u # 1322
    BY <1>1, <2>2
  <2>4. CASE u # 1301
    BY <2>1, <2>3, <2>4, KnownRests
  <2>5. CASE u = 1301
    BY <2>2, <2>5
  <2> QED BY <2>4, <2>5
<1> QED BY <1>1, <1>2, <1>3, <1>4, <1>5, <1>6, <1>7, Kinds

-----------------------------------------------------------------------------
(* How far the steps have gone with each entity.                           *)

\* Whether step i is over with what is now f: the entry is of its level, or the
\* loop has been there.
Done(f, i, level, at, todo) ==
    Order[i] <= level \/ Order[i] < at \/ (Order[i] = at /\ f \notin todo)

\* What step i would make of it again.
Rests(S, f, i, level, at, todo) ==
    \/ S[i][f] = f
    \/ f.of = "scoped" /\ Done(f, i, level, at, todo)
    \/ Order[i] = 1301 /\ level >= 1301

\* Of the entities H, e is on its course c[e] after g[e] steps; which are those
\* that are over with it, and others that it does not need.
Along(c, g, S, H, reg, level, at, todo) ==
    /\ \A e \in H : Follows(S, c[e], e) /\ g[e] \in 0..28
    /\ reg = Left({c[e][g[e]] : e \in H})
    /\ \A e \in H : \A i \in 1..28 :
          /\ Done(c[e][g[e]], i, level, at, todo) => i <= g[e]
          /\ i <= g[e] => Rests(S, c[e][g[e]], i, level, at, todo)

IsAt(S, H, reg, level, at, todo) == \E c, g : Along(c, g, S, H, reg, level, at, todo)

\* The steps before k are over; step k changes none of those that it is over
\* with, or may rename x.
Behind(k, level, at) == \A i \in 1..28 : i < k => Order[i] <= level \/ Order[i] <= at
Leaves(S, k, reg, todo) ==
    \A f \in EntityType : f \notin todo /\ (f \in reg \/ f.of = "removed") => S[k][f] = f
Settled(S, k, x, to) ==
    \A i \in 1..28 :
        i <= k /\ (i < k => S[i][x] = x \/ x.of = "scoped" \/ Order[i] = 1301) =>
            S[i][to] = to \/ to.of = "scoped" \/ (Order[i] = 1301 /\ i < k)
Later(t, level) == t > 1301 => level >= 1301

\* Of a level m with these entities: those that bear the gateway's id are of a
\* gateway that has given it; 13.1 leaves all as they are, or need not be done
\* again.  And no step changes those that are gone.
Owned(reg, m) == (\E f \in reg : f.of = "scoped") => 1322 <= m
Unmoved(S, reg, level, m) ==
    m < 1301 /\ level >= 1301 =>
        \A i \in 1..28 : \A f \in reg : Order[i] = 1301 => S[i][f] = f
Free(S) == \A i \in 1..28 : \A f \in EntityType : f.of = "removed" => S[i][f] = f

\* A step that changes none of those it is over with.
LEMMA Passes ==
    ASSUME NEW S, NEW H, NEW reg, NEW l \in Nat, NEW at \in Nat, IsAt(S, H, reg, l, at, {}),
           NEW k \in 1..28, NEW m \in Nat, NEW todo, at < Order[k], l <= m,
           m = l \/ (m = Order[k] /\ todo = {}), Behind(k, l, at), Leaves(S, k, reg, todo)
    PROVE  IsAt(S, H, reg, m, Order[k], todo)
<1>a. PICK c, g : Along(c, g, S, H, reg, l, at, {})
  BY DEF IsAt
<1>b. ASSUME NEW e \in H, c[e][g[e]] \notin todo PROVE S[k][c[e][g[e]]] = c[e][g[e]]
  <2>1. c[e][g[e]] \in EntityType
    BY <1>a DEF Along, Follows
  <2>2. c[e][g[e]] \in reg \/ c[e][g[e]].of = "removed"
    BY <1>a DEF Along, Left
  <2> QED BY <1>b, <2>1, <2>2 DEF Leaves
<1> DEFINE h == [e \in H |-> IF c[e][g[e]] \notin todo /\ g[e] < k THEN k ELSE g[e]]
<1>1. ASSUME NEW e \in H
      PROVE  h[e] \in 0..28 /\ g[e] \in 0..28 /\ g[e] <= h[e] /\ c[e][h[e]] = c[e][g[e]]
  <2>1. Follows(S, c[e], e) /\ g[e] \in 0..28
    BY <1>a DEF Along
  <2>2. CASE c[e][g[e]] \notin todo /\ g[e] < k
    <3>1. g[e] = k - 1
      <4>1. CASE k = 1
        BY <2>1, <2>2, <4>1
      <4>2. CASE k # 1
        <5>1. k - 1 \in 1..28 /\ k - 1 < k
          BY <4>2
        <5>2. Order[k - 1] \in Nat /\ (Order[k - 1] <= l \/ Order[k - 1] <= at)
          BY <5>1, OrderFacts DEF Behind
        <5>3. Done(c[e][g[e]], k - 1, l, at, {})
          BY <5>2 DEF Done
        <5>4. k - 1 <= g[e]
          BY <1>a, <5>1, <5>3 DEF Along
        <5> QED BY <2>1, <2>2, <5>4
      <4> QED BY <4>1, <4>2
    <3>2. c[e][k] = S[k][c[e][k - 1]]
      BY <2>1 DEF Follows
    <3>3. h[e] = k
      BY <2>2
    <3>4. S[k][c[e][g[e]]] = c[e][g[e]]
      BY <1>b, <2>2
    <3> HIDE DEF h
    <3> QED BY <2>1, <2>2, <3>1, <3>2, <3>3, <3>4
  <2>3. CASE ~(c[e][g[e]] \notin todo /\ g[e] < k)
    <3>1. h[e] = g[e]
      BY <2>3
    <3> QED BY <2>1, <3>1
  <2> QED BY <2>2, <2>3
<1>2. reg = Left({c[e][h[e]] : e \in H})
  <2>1. {c[e][h[e]] : e \in H} = {c[e][g[e]] : e \in H}
    BY <1>1
  <2> QED BY <1>a, <2>1 DEF Along
<1>3. ASSUME NEW e \in H, NEW i \in 1..28
      PROVE  /\ Done(c[e][g[e]], i, m, Order[k], todo) => i <= h[e]
             /\ i <= h[e] => Rests(S, c[e][g[e]], i, m, Order[k], todo)
  <2> DEFINE f == c[e][g[e]]
  <2>1. h[e] \in 0..28 /\ g[e] \in 0..28 /\ g[e] <= h[e]
    BY <1>1
  <2>2. f \notin todo => k <= h[e]
    BY <1>1
  <2>3. h[e] = g[e] \/ (h[e] = k /\ f \notin todo)
    OBVIOUS
  <2>4. /\ Done(f, i, l, at, {}) => i <= g[e]
        /\ i <= g[e] => Rests(S, f, i, l, at, {})
    BY <1>a DEF Along
  <2>5. f \notin todo => S[k][f] = f
    BY <1>b
  <2>6. Order[i] \in Nat /\ Order[k] \in Nat
    BY OrderFacts
  <2>7. /\ i < k => Order[i] < Order[k] /\ (Order[i] <= l \/ Order[i] <= at)
        /\ k < i => Order[k] < Order[i]
    BY OrderRises DEF Behind
  <2> HIDE DEF f, h
  <2>8. CASE i < k
    <3>1. Done(f, i, l, at, {})
      BY <2>6, <2>7, <2>8 DEF Done
    <3>2. Done(f, i, m, Order[k], todo) /\ i <= g[e]
      BY <2>4, <2>6, <2>7, <2>8, <3>1 DEF Done
    <3>3. Rests(S, f, i, m, Order[k], todo)
      BY <2>4, <2>6, <3>2 DEF Rests
    <3> QED BY <2>1, <3>2, <3>3 DEF f
  <2>9. CASE i = k
    <3>1. Done(f, i, m, Order[k], todo) => i <= h[e]
      <4>1. Order[k] <= l => i <= g[e]
        BY <2>4, <2>9 DEF Done
      <4> QED BY <2>1, <2>2, <2>6, <2>9, <4>1 DEF Done
    <3>2. ASSUME i <= h[e] PROVE Rests(S, f, i, m, Order[k], todo)
      <4>1. CASE f \notin todo
        BY <2>5, <2>9, <4>1 DEF Rests
      <4>2. CASE f \in todo
        <5>1. i <= g[e]
          BY <2>3, <3>2, <4>2
        <5>2. Done(f, i, l, at, {}) => Done(f, i, m, Order[k], todo)
          BY <2>6, <2>9 DEF Done
        <5> QED BY <2>4, <2>6, <5>1, <5>2 DEF Rests
      <4> QED BY <4>1, <4>2
    <3> QED BY <3>1, <3>2 DEF f
  <2>10. CASE k < i
    <3>1. Done(f, i, m, Order[k], todo) => i <= g[e]
      BY <2>4, <2>6, <2>7, <2>10 DEF Done
    <3>2. Done(f, i, l, at, {}) => Done(f, i, m, Order[k], todo)
      BY <2>6, <2>7, <2>10 DEF Done
    <3>3. i <= h[e] => i <= g[e]
      BY <2>3, <2>10
    <3>4. i <= h[e] => Rests(S, f, i, m, Order[k], todo)
      BY <2>4, <2>6, <3>2, <3>3 DEF Rests
    <3> QED BY <2>1, <3>1, <3>4 DEF f
  <2> QED BY <2>8, <2>9, <2>10
<1>4. Along(c, h, S, H, reg, m, Order[k], todo)
  <2>1. \A e \in H : Follows(S, c[e], e)
    BY <1>a DEF Along
  <2> HIDE DEF h
  <2> QED BY <1>1, <1>2, <1>3, <2>1 DEF Along
<1> QED BY <1>4 DEF IsAt

\* One entity of a step.
LEMMA OneMore ==
    ASSUME NEW S, NEW H, NEW reg, NEW l \in Nat, NEW k \in 1..28, NEW todo,
           IsAt(S, H, reg, l, Order[k], todo), l < Order[k], todo \subseteq reg,
           NEW x \in todo, NEW to, to = S[k][x], to = x \/ to \notin reg,
           Later(Order[k], l), Settled(S, k, x, to)
    PROVE  IsAt(S, H, Left((reg \ {x}) \cup {to}), l, Order[k], todo \ {x})
<1>p. PICK c, g : Along(c, g, S, H, reg, l, Order[k], todo)
  BY DEF IsAt
<1> DEFINE val(e) == c[e][g[e]]
           h == [e \in H |-> IF val(e) = x /\ g[e] < k THEN k ELSE g[e]]
<1>0. \A i \in 1..28 : /\ Order[i] \in Nat
                       /\ i < k => Order[i] < Order[k]
                       /\ k < i => Order[k] < Order[i]
  BY OrderFacts, OrderRises
<1>a. \A e \in H : \A i \in 1..28 :
         /\ Done(val(e), i, l, Order[k], todo) => i <= g[e]
         /\ i <= g[e] => Rests(S, val(e), i, l, Order[k], todo)
  BY <1>p DEF Along
<1>b. \A e \in H : Follows(S, c[e], e) /\ g[e] \in 0..28
  BY <1>p DEF Along
<1>c. reg = Left({val(e) : e \in H})
  BY <1>p DEF Along
<1> HIDE DEF val
<1>1. ASSUME NEW e \in H, val(e) = x PROVE k - 1 <= g[e] /\ (k <= g[e] => to = x)
  <2>1. k - 1 <= g[e]
    <3>1. CASE k = 1
      BY <1>b, <3>1
    <3>2. CASE k # 1
      <4>1. k - 1 \in 1..28 /\ k - 1 < k
        BY <3>2
      <4>2. Done(val(e), k - 1, l, Order[k], todo)
        BY <1>0, <4>1 DEF Done
      <4> QED BY <1>a, <4>1, <4>2
    <3> QED BY <3>1, <3>2
  <2>2. k <= g[e] => to = x
    <3>1. ~Done(x, k, l, Order[k], todo)
      BY <1>0 DEF Done
    <3>2. ~(Order[k] = 1301 /\ l >= 1301)
      BY <1>0
    <3>3. k <= g[e] => Rests(S, x, k, l, Order[k], todo)
      BY <1>a, <1>1
    <3> QED BY <3>1, <3>2, <3>3 DEF Rests
  <2> QED BY <2>1, <2>2
<1>2. ASSUME NEW e \in H, val(e) = x
      PROVE  c[e][h[e]] = to /\ h[e] \in 0..28 /\ k <= h[e] /\ (k < h[e] => to = x /\ h[e] = g[e])
  <2>1. CASE g[e] < k
    <3>1. g[e] = k - 1
      BY <1>1, <1>2, <1>b, <2>1
    <3>2. c[e][k] = S[k][c[e][k - 1]]
      BY <1>b DEF Follows
    <3>3. c[e][k - 1] = x
      BY <1>2, <3>1 DEF val
    <3>4. h[e] = k
      BY <1>2, <2>1
    <3> HIDE DEF h
    <3> QED BY <3>2, <3>3, <3>4
  <2>2. CASE ~(g[e] < k)
    <3>1. h[e] = g[e] /\ k <= g[e] /\ g[e] \in 0..28
      BY <1>b, <2>2
    <3> HIDE DEF h
    <3>2. c[e][h[e]] = x
      BY <1>2, <3>1 DEF val
    <3> QED BY <1>1, <1>2, <3>1, <3>2
  <2> QED BY <2>1, <2>2
<1>3. ASSUME NEW e \in H, val(e) # x PROVE h[e] = g[e] /\ c[e][h[e]] = val(e)
  <2>1. h[e] = g[e]
    BY <1>3
  <2> HIDE DEF h
  <2> QED BY <2>1 DEF val
<1> HIDE DEF h
<1>4. PICK o \in H : val(o) = x
  BY <1>c DEF Left
<1>5. Left((reg \ {x}) \cup {to}) = Left({c[e][h[e]] : e \in H})
  <2>1. ASSUME NEW y, y.of # "removed"
        PROVE  y \in (reg \ {x}) \cup {to} <=> \E e \in H : y = c[e][h[e]]
    <3>1. ASSUME y \in reg \ {x} PROVE \E e \in H : y = c[e][h[e]]
      BY <1>3, <1>c, <3>1 DEF Left
    <3>2. ASSUME y = to PROVE \E e \in H : y = c[e][h[e]]
      BY <1>2, <1>4, <3>2
    <3>3. ASSUME NEW e \in H, y = c[e][h[e]] PROVE y \in (reg \ {x}) \cup {to}
      <4>1. CASE val(e) = x
        BY <1>2, <3>3, <4>1
      <4>2. CASE val(e) # x
        <5>1. y = val(e)
          BY <1>3, <3>3, <4>2
        <5> QED BY <1>c, <2>1, <4>2, <5>1 DEF Left
      <4> QED BY <4>1, <4>2
    <3> QED BY <3>1, <3>2, <3>3
  <2> QED BY <2>1 DEF Left
<1>6. ASSUME NEW f, NEW i \in 1..28
      PROVE  /\ Done(f, i, l, Order[k], todo) => Done(f, i, l, Order[k], todo \ {x})
             /\ f # x => (Done(f, i, l, Order[k], todo \ {x}) => Done(f, i, l, Order[k], todo))
  BY DEF Done
<1>7. ASSUME NEW e \in H, NEW i \in 1..28
      PROVE  /\ Done(c[e][h[e]], i, l, Order[k], todo \ {x}) => i <= h[e]
             /\ i <= h[e] => Rests(S, c[e][h[e]], i, l, Order[k], todo \ {x})
  <2>1. CASE val(e) # x
    <3> DEFINE f == val(e)
    <3>1. c[e][h[e]] = f /\ h[e] = g[e]
      BY <1>3, <2>1
    <3>2. /\ Done(f, i, l, Order[k], todo) => i <= g[e]
          /\ i <= g[e] => Rests(S, f, i, l, Order[k], todo)
      BY <1>a
    <3>3. f # x
      BY <2>1
    <3> HIDE DEF f
    <3>4. Done(f, i, l, Order[k], todo) <=> Done(f, i, l, Order[k], todo \ {x})
      BY <3>3 DEF Done
    <3>5. Rests(S, f, i, l, Order[k], todo) => Rests(S, f, i, l, Order[k], todo \ {x})
      BY <3>4 DEF Rests
    <3> QED BY <3>1, <3>2, <3>4, <3>5
  <2>2. CASE val(e) = x
    <3>1. c[e][h[e]] = to /\ h[e] \in 0..28 /\ k <= h[e] /\ (k < h[e] => to = x /\ h[e] = g[e])
      BY <1>2, <2>2
    <3>2. Done(to, i, l, Order[k], todo \ {x}) => i <= k
      BY <1>0 DEF Done
    <3>3. ASSUME i <= k PROVE Rests(S, to, i, l, Order[k], todo \ {x})
      <4>1. i < k => S[i][x] = x \/ x.of = "scoped" \/ Order[i] = 1301
        <5>1. i < k => i <= g[e]
          BY <1>1, <1>b, <2>2
        <5> QED BY <5>1, <1>a, <2>2 DEF Rests
      <4>2. S[i][to] = to \/ to.of = "scoped" \/ (Order[i] = 1301 /\ i < k)
        BY <3>3, <4>1 DEF Settled
      <4>3. to \notin todo \ {x}
        OBVIOUS
      <4>4. Done(to, i, l, Order[k], todo \ {x})
        <5>1. i < k \/ i = k
          BY <3>3
        <5> QED BY <1>0, <4>3, <5>1 DEF Done
      <4>5. Order[i] = 1301 /\ i < k => l >= 1301
        BY <1>0 DEF Later
      <4> QED BY <4>2, <4>4, <4>5 DEF Rests
    <3>4. ASSUME k < i, i <= h[e] PROVE Rests(S, to, i, l, Order[k], todo \ {x})
      <4>1. to = x /\ i <= g[e]
        BY <3>1, <3>4
      <4>2. Rests(S, x, i, l, Order[k], todo)
        BY <1>a, <2>2, <4>1
      <4> QED BY <1>6, <4>1, <4>2 DEF Rests
    <3> QED BY <3>1, <3>2, <3>3, <3>4
  <2> QED BY <2>1, <2>2
<1>8. \A e \in H : h[e] \in 0..28
  BY <1>2, <1>3, <1>b
<1> DEFINE now == Left((reg \ {x}) \cup {to})
           rest == todo \ {x}
<1>9. Along(c, h, S, H, now, l, Order[k], rest)
  <2>1. \A e \in H : \A i \in 1..28 :
           /\ Done(c[e][h[e]], i, l, Order[k], rest) => i <= h[e]
           /\ i <= h[e] => Rests(S, c[e][h[e]], i, l, Order[k], rest)
    BY <1>7
  <2>2. \A e \in H : Follows(S, c[e], e) /\ h[e] \in 0..28
    BY <1>8, <1>b
  <2>3. now = Left({c[e][h[e]] : e \in H})
    BY <1>5
  <2> HIDE DEF now, rest
  <2> QED BY <2>1, <2>2, <2>3, Zenon DEF Along
<1> QED BY <1>9 DEF IsAt

\* The entry is loaded again, at its level or an earlier one.
LEMMA Reloads ==
    ASSUME NEW S, NEW H, NEW reg, NEW l \in Nat, NEW at, NEW todo,
           IsAt(S, H, reg, l, at, todo), NEW m \in Nat, m <= l,
           Owned(reg, m), Unmoved(S, reg, l, m), Free(S)
    PROVE  IsAt(S, H, reg, m, 0, {})
<1>p. PICK c, g : Along(c, g, S, H, reg, l, at, todo)
  BY DEF IsAt
<1>1. ASSUME NEW e \in H, NEW i \in 1..28
      PROVE  /\ Done(c[e][g[e]], i, m, 0, {}) => i <= g[e]
             /\ i <= g[e] => Rests(S, c[e][g[e]], i, m, 0, {})
  <2> DEFINE f == c[e][g[e]]
  <2>1. /\ Done(f, i, l, at, todo) => i <= g[e]
        /\ i <= g[e] => Rests(S, f, i, l, at, todo)
    BY <1>p DEF Along
  <2>2. f \in EntityType
    <3>1. c[e] \in [0..28 -> EntityType] /\ g[e] \in 0..28
      BY <1>p DEF Along, Follows
    <3> QED BY <3>1
  <2>3. f \in reg \/ f.of = "removed"
    BY <1>p DEF Along, Left
  <2> HIDE DEF f
  <2>4. Order[i] \in Nat /\ Order[i] > 0 /\ Order[i] <= 1322
    BY OrderFacts
  <2>5. Done(f, i, m, 0, {}) <=> Order[i] <= m
    BY <2>4 DEF Done
  <2>6. Done(f, i, m, 0, {}) => i <= g[e]
    <3>1. Order[i] <= m => Order[i] <= l
      BY <2>4
    <3>2. Order[i] <= l => i <= g[e]
      BY <2>1 DEF Done
    <3> QED BY <2>5, <3>1, <3>2
  <2>7. ASSUME i <= g[e] PROVE Rests(S, f, i, m, 0, {})
    <3>1. CASE f.of = "removed"
      BY <2>2, <3>1 DEF Rests, Free
    <3>2. CASE f \in reg
      <4>1. CASE S[i][f] = f
        BY <4>1 DEF Rests
      <4>2. CASE f.of = "scoped"
        <5>1. Order[i] <= m
          BY <2>4, <3>2, <4>2 DEF Owned
        <5> QED BY <2>5, <4>2, <5>1 DEF Rests
      <4>3. CASE Order[i] = 1301 /\ l >= 1301
        <5>1. CASE m >= 1301
          BY <4>3, <5>1 DEF Rests
        <5>2. CASE m < 1301
          BY <3>2, <4>3, <5>2 DEF Rests, Unmoved
        <5> QED BY <5>1, <5>2
      <4> QED BY <2>1, <2>7, <4>1, <4>2, <4>3 DEF Rests
    <3> QED BY <2>3, <3>1, <3>2
  <2> QED BY <2>6, <2>7 DEF f
<1>2. Along(c, g, S, H, reg, m, 0, {})
  <2>1. /\ \A e \in H : Follows(S, c[e], e) /\ g[e] \in 0..28
        /\ reg = Left({c[e][g[e]] : e \in H})
    BY <1>p DEF Along
  <2>2. \A e \in H : \A i \in 1..28 :
           /\ Done(c[e][g[e]], i, m, 0, {}) => i <= g[e]
           /\ i <= g[e] => Rests(S, c[e][g[e]], i, m, 0, {})
    BY <1>1
  <2> QED BY <2>1, <2>2, Zenon DEF Along
<1> QED BY <1>2 DEF IsAt

\* The entry's level is that of the first n steps.
LEMMA Leading ==
    ASSUME NEW l \in Nat
    PROVE  \E n \in 0..28 : \A i \in 1..28 : Order[i] <= l <=> i <= n
<1> DEFINE T == {i \in 1..28 : ~(Order[i] <= l)}
<1>0. \A i \in 1..28 : Order[i] \in Nat
  BY OrderFacts
<1>1. CASE T = {}
  <2>1. \A i \in 1..28 : Order[i] <= l /\ i <= 28
    BY <1>1
  <2> QED BY <2>1
<1>2. CASE T # {}
  <2>1. PICK k \in T : \A j \in T : k <= j
    <3>1. T \subseteq Nat
      OBVIOUS
    <3> HIDE DEF T
    <3> QED BY <1>2, <3>1, Least
  <2>2. k \in 1..28 /\ ~(Order[k] <= l) /\ k - 1 \in 0..28
    BY <2>1
  <2>3. ASSUME NEW i \in 1..28 PROVE Order[i] <= l <=> i <= k - 1
    <3>1. CASE i < k
      <4>1. i \notin T
        BY <2>1, <2>2, <3>1
      <4> QED BY <2>2, <3>1, <4>1
    <3>2. CASE ~(i < k)
      <4>1. Order[k] <= Order[i]
        BY <1>0, <2>2, <3>2, OrderRises
      <4> QED BY <1>0, <2>2, <3>2, <4>1
    <3> QED BY <3>1, <3>2
  <2> QED BY <2>2, <2>3
<1> QED BY <1>1, <1>2

LEMMA Begun ==
    ASSUME NEW S \in [1..28 -> [EntityType -> EntityType]], NEW H, H \subseteq EntityType,
           \A e \in H : e.of # "removed", NEW l \in Nat,
           \A i \in 1..28 : Order[i] <= l => \A f \in EntityType : S[i][f] = f
    PROVE  IsAt(S, H, H, l, 0, {})
<1>1. PICK n \in 0..28 : \A i \in 1..28 : Order[i] <= l <=> i <= n
  BY Leading
<1> DEFINE c == [e \in H |-> CHOOSE d : Follows(S, d, e)]
           g == [e \in H |-> n]
<1>2. ASSUME NEW e \in H PROVE Follows(S, c[e], e)
  <2>1. \E d : Follows(S, d, e)
    BY CourseExists
  <2> QED BY <2>1
<1>3. \A e \in H : g[e] = n
  OBVIOUS
<1> HIDE DEF c, g
<1>4. ASSUME NEW e \in H PROVE c[e][n] = e
  <2> DEFINE d == c[e]
             T == {i \in 0..n : d[i] # e}
  <2>0. Follows(S, d, e)
    BY <1>2
  <2> HIDE DEF d
  <2>1. T = {}
    <3> SUFFICES ASSUME T # {} PROVE FALSE
      OBVIOUS
    <3>1. PICK k \in T : \A j \in T : k <= j
      <4>1. T \subseteq Nat
        OBVIOUS
      <4> HIDE DEF T
      <4> QED BY <4>1, Least
    <3>2. k # 0
      BY <2>0 DEF Follows
    <3>3. k \in 1..28 /\ k - 1 \in 0..n /\ k <= n
      BY <3>1, <3>2
    <3>4. d[k - 1] = e
      BY <3>1, <3>3
    <3>5. d[k] = S[k][e]
      BY <2>0, <3>3, <3>4 DEF Follows
    <3>6. d[k] = e
      BY <1>1, <3>3, <3>5
    <3> QED BY <3>1, <3>6
  <2> QED BY <2>1 DEF d
<1>5. H = Left({c[e][g[e]] : e \in H})
  <2>1. {c[e][g[e]] : e \in H} = H
    BY <1>3, <1>4
  <2> QED BY <2>1 DEF Left
<1>6. ASSUME NEW e \in H, NEW i \in 1..28
      PROVE  /\ Done(c[e][g[e]], i, l, 0, {}) => i <= g[e]
             /\ i <= g[e] => Rests(S, c[e][g[e]], i, l, 0, {})
  <2>1. c[e][g[e]] = e /\ g[e] = n /\ e \in EntityType
    BY <1>3, <1>4
  <2>2. Order[i] \in Nat /\ Order[i] > 0
    BY OrderFacts
  <2>3. Done(e, i, l, 0, {}) <=> Order[i] <= l
    BY <2>2 DEF Done
  <2> QED BY <1>1, <2>1, <2>3 DEF Rests
<1>7. Along(c, g, S, H, H, l, 0, {})
  BY <1>2, <1>3, <1>5, <1>6 DEF Along
<1> QED BY <1>7 DEF IsAt

\* All steps are over.
LEMMA Ended ==
    ASSUME HistOK, NEW reg, NEW l \in Nat, NEW at \in Nat, IsAt(Steps, hist.registry, reg, l, at, {}),
           \A i \in 1..28 : Order[i] <= l \/ Order[i] <= at
    PROVE  reg = Left({After(e) : e \in hist.registry})
<1>1. PICK c, g : Along(c, g, Steps, hist.registry, reg, l, at, {})
  BY DEF IsAt
<1>2. ASSUME NEW e \in hist.registry PROVE c[e][g[e]] = After(e)
  <2>1. Follows(Steps, c[e], e) /\ g[e] \in 0..28
    BY <1>1 DEF Along
  <2>2. e \in EntityType
    BY DEF HistOK
  <2>3. c[e] = Undisturbed(e)
    BY <2>1, <2>2, UndisturbedFollows, OneCourse
  <2>4. 28 \in 1..28 /\ Order[28] \in Nat
    BY OrderFacts
  <2>5. Done(c[e][g[e]], 28, l, at, {})
    BY <2>4 DEF Done
  <2>6. 28 <= g[e]
    BY <1>1, <2>4, <2>5 DEF Along
  <2>7. g[e] = 28
    BY <2>1, <2>6
  <2> QED BY <2>3, <2>7, OrderFacts DEF After
<1>3. {c[e][g[e]] : e \in hist.registry} = {After(e) : e \in hist.registry}
  BY <1>2
<1> QED BY <1>1, <1>3 DEF Along

\* What is written of a step that is over.
LEMMA Stored ==
    ASSUME NEW S, NEW H, NEW reg, NEW l \in Nat, NEW m \in Nat, NEW at \in Nat, l <= m, m = l \/ m = at,
           IsAt(S, H, reg, l, at, {})
    PROVE  IsAt(S, H, reg, m, at, {})
<1>1. PICK c, g : Along(c, g, S, H, reg, l, at, {})
  BY DEF IsAt
<1>2. ASSUME NEW f, NEW i \in 1..28
      PROVE  /\ Done(f, i, l, at, {}) <=> Done(f, i, m, at, {})
             /\ Rests(S, f, i, l, at, {}) => Rests(S, f, i, m, at, {})
  <2>1. Order[i] \in Nat
    BY OrderFacts
  <2>2. Done(f, i, l, at, {}) <=> Done(f, i, m, at, {})
    BY <2>1 DEF Done
  <2> QED BY <2>2 DEF Rests
<1>3. Along(c, g, S, H, reg, m, at, {})
  BY <1>1, <1>2 DEF Along
<1> QED BY <1>3 DEF IsAt

-----------------------------------------------------------------------------
(* The invariant.                                                          *)

\* The files and the entry in memory are of the same migration, which goes up
\* in levels; the names that 13.1 would change back come after it.
Related ==
    /\ HistOK
    /\ hist.entry.level <= disk.entry.level /\ disk.entry.level <= entry.level
    /\ disk.entry.child = hist.entry.child /\ entry.child = hist.entry.child
    /\ \A f \in registry \cup disk.registry : f.of # "removed"
    /\ pc.todo \subseteq registry
    /\ pc.status \in {"next", "done"} => pc.todo = {}
    /\ pc.at > 1301 \/ (pc.at = 1301 /\ pc.status = "next") => entry.level >= 1301
    /\ pc.status = "done" => Ahead = {}

\* Every entity is on its course, in memory and in the files.
Courses ==
    ~hist.lost =>
        /\ IsAt(Steps, hist.registry, registry, entry.level, pc.at, pc.todo)
        /\ IsAt(Steps, hist.registry, disk.registry, disk.entry.level, 0, {})

CourseInv == IInv /\ Related /\ Courses

LEMMA StepsKnown ==
    ASSUME HistOK
    PROVE  \A i \in 1..28 : \A f \in EntityType :
              /\ Order[i] <= hist.entry.level => Steps[i][f] = f
              /\ f.of = "removed" => Steps[i][f] = f
              /\ Order[i] \notin DOMAIN Tables \cup {1200, 1312, 1322} => Steps[i][f] = f
              /\ hist.entry.level < 1322 /\ Order[i] > hist.entry.level =>
                     Steps[i][f] = Outcome(Order[i], f, "id", hist.entry.child)
<1> SUFFICES ASSUME NEW i \in 1..28, NEW f \in EntityType
             PROVE  /\ Order[i] <= hist.entry.level => Steps[i][f] = f
                    /\ f.of = "removed" => Steps[i][f] = f
                    /\ Order[i] \notin DOMAIN Tables \cup {1200, 1312, 1322} => Steps[i][f] = f
                    /\ hist.entry.level < 1322 /\ Order[i] > hist.entry.level =>
                           Steps[i][f] = Outcome(Order[i], f, "id", hist.entry.child)
  OBVIOUS
<1>0. Steps[i][f] = Step(i, f)
  BY StepsType
<1>1. Order[i] \in Nat /\ Order[i] <= 1322 /\ hist.entry.level \in Nat
  BY OrderFacts DEF HistOK, EntryOK, EntryType
<1>2. hist.entry.level < 1322 => Given = "id"
  BY <1>1 DEF HistOK, EntryOK, EntryType, Given
<1>3. Order[i] <= hist.entry.level => Step(i, f) = f
  BY DEF Step
<1>4. f.of = "removed" => Step(i, f) = f
  BY DEF Step, Outcome
<1>5. hist.entry.level < 1322 /\ Order[i] > hist.entry.level =>
          Step(i, f) = Outcome(Order[i], f, "id", hist.entry.child)
  BY <1>1, <1>2 DEF Step
<1>6. Order[i] \notin DOMAIN Tables \cup {1200, 1312, 1322} => Step(i, f) = f
  BY <1>1, <1>3, <1>5, Idle
<1> QED BY <1>0, <1>3, <1>4, <1>5, <1>6

LEMMA StepAhead ==
    ASSUME HistOK, NEW i \in 1..28, hist.entry.level < 1322, Order[i] > hist.entry.level
    PROVE  \A f \in EntityType : Steps[i][f] = Outcome(Order[i], f, "id", hist.entry.child)
BY StepsKnown

LEMMA StepsStay ==
    ASSUME UNCHANGED conf, hist'.entry = hist.entry
    PROVE  Steps' = Steps
<1>1. Given' = Given
  BY DEF Given
<1>2. \A i, e : Step(i, e)' = Step(i, e)
  BY <1>1 DEF Step, Outcome, OldStyle, DeviceClass, Replace, Known, Targets, Unnamed
<1> QED BY <1>2 DEF Steps

LEMMA Numbers ==
    ASSUME CourseInv
    PROVE  /\ entry.level \in Nat /\ disk.entry.level \in Nat /\ hist.entry.level \in Nat
           /\ pc.at \in Nat
           /\ HistOK
BY DEF CourseInv, IInv, EntryOK, EntryType, FilesOK, PcOK, Related, HistOK

LEMMA Reached ==
    ASSUME CourseInv, NEW t, Reaches(t)
    PROVE  /\ \E k \in 1..28 :
                 /\ t = Order[k]
                 /\ \A i \in 1..28 : i < k => Order[i] <= entry.level \/ Order[i] <= pc.at
           /\ t \in Nat /\ pc.todo = {} /\ pc.at < t /\ entry.level < t
           /\ t > 1301 => entry.level >= 1301
<1>1. t \in Levels /\ pc.at < t /\ entry.level < t /\ pc.status = "next"
  BY DEF Reaches, Ahead
<1>2. t \in Nat /\ pc.todo = {}
  BY <1>1, LevelsBounded DEF CourseInv, Related
<1>3. \A u \in Levels : u < t => u <= entry.level \/ u <= pc.at
  BY <1>1, <1>2, Numbers, LevelsBounded DEF Reaches, Ahead
<1>4. PICK k \in 1..28 : t = Order[k]
  BY <1>1, OrderFacts
<1>5. \A i \in 1..28 : i < k => Order[i] <= entry.level \/ Order[i] <= pc.at
  <2>1. \A i \in 1..28 : i < k => Order[i] \in Levels /\ Order[i] < t
    BY <1>4, OrderFacts, OrderRises
  <2> QED BY <1>3, <2>1
<1>6. t > 1301 => entry.level >= 1301
  <2>1. 1301 \in Levels
    BY DEF Levels, Order
  <2>2. t > 1301 => entry.level >= 1301 \/ pc.at >= 1301
    BY <1>3, <2>1, Numbers
  <2>3. pc.at >= 1301 => entry.level >= 1301
    BY <1>1, Numbers DEF CourseInv, Related
  <2> QED BY <2>2, <2>3
<1> QED BY <1>1, <1>2, <1>4, <1>5, <1>6

LEMMA InitCourses == Init => CourseInv
<1> SUFFICES ASSUME Init PROVE CourseInv
  OBVIOUS
<1>0. IInv
  BY InitInv
<1>1. PICK d \in Devices : entry = d.entry /\ conf = d.conf /\ registry = d.registry
  BY DEF Init
<1>2. HistOK
  BY <1>0 DEF Init, IInv, FilesOK, HistOK
<1>3. Related
  <2>1. \A f \in registry : f.of # "removed"
    BY <1>1, MigrationAssumption
  <2> QED BY <1>0, <1>2, <2>1 DEF Init, Related, IInv, EntryOK, EntryType
<1>4. IsAt(Steps, registry, registry, entry.level, 0, {})
  <2>1. \A i \in 1..28 : Order[i] <= entry.level => \A f \in EntityType : Steps[i][f] = f
    BY <1>2, StepsKnown DEF Init
  <2>2. registry \subseteq EntityType /\ \A e \in registry : e.of # "removed"
    BY <1>1, MigrationAssumption
  <2>3. Steps \in [1..28 -> [EntityType -> EntityType]]
    BY <1>2, StepsType
  <2>4. entry.level \in Nat
    BY <1>0 DEF IInv, EntryOK, EntryType
  <2> QED BY <2>1, <2>2, <2>3, <2>4, Begun
<1>5. Courses
  BY <1>4 DEF Courses, Init
<1> QED BY <1>0, <1>3, <1>5 DEF CourseInv

\* A step of the entry alone.
OfEntry == {200, 300, 400, 900, 1000, 1100, 1304}

LEMMA PastCourses ==
    ASSUME CourseInv, NEW t \in OfEntry, Reaches(t), Past(t),
           entry'.level = t, entry'.child = entry.child, UNCHANGED <<conf, registry, disk, hist>>
    PROVE  Related' /\ Courses'
<1>1. PICK k \in 1..28 :
         /\ t = Order[k]
         /\ \A i \in 1..28 : i < k => Order[i] <= entry.level \/ Order[i] <= pc.at
  BY Reached
<1>2. pc.todo = {} /\ pc.at < t /\ entry.level < t /\ (t > 1301 => entry.level >= 1301)
  BY Reached
<1>3. /\ entry.level \in Nat /\ disk.entry.level \in Nat /\ hist.entry.level \in Nat
      /\ pc.at \in Nat /\ HistOK
  BY Numbers
<1>4. pc' = [status |-> "next", at |-> t, todo |-> {}]
  BY DEF Past
<1>5. Related'
  BY <1>2, <1>3, <1>4 DEF CourseInv, Related, HistOK, OfEntry
<1>6. Courses'
  <2> SUFFICES ASSUME ~hist.lost
               PROVE  /\ IsAt(Steps, hist.registry, registry, t, t, {})
                      /\ IsAt(Steps, hist.registry, disk.registry, disk.entry.level, 0, {})
    <3>1. Steps' = Steps
      BY StepsStay
    <3> QED BY <1>4, <3>1 DEF Courses
  <2>1. IsAt(Steps, hist.registry, registry, entry.level, pc.at, {})
    BY <1>2 DEF CourseInv, Courses
  <2>2. Order[k] \notin DOMAIN Tables \cup {1200, 1312, 1322}
    BY <1>1, TableLevels DEF OfEntry
  <2>3. Leaves(Steps, k, registry, {})
    BY <1>3, <2>2, StepsKnown DEF Leaves
  <2>4. Order[k] \in Nat /\ entry.level <= Order[k] /\ pc.at < Order[k]
    BY <1>1, <1>2, <1>3, OrderFacts
  <2>5. Behind(k, entry.level, pc.at)
    BY <1>1 DEF Behind
  <2>6. entry.level \in Nat /\ pc.at \in Nat
    BY <1>3
  <2>7. IsAt(Steps, hist.registry, registry, Order[k], Order[k], {})
    BY <2>1, <2>3, <2>4, <2>5, <2>6, Passes
  <2>8. IsAt(Steps, hist.registry, disk.registry, disk.entry.level, 0, {})
    BY DEF CourseInv, Courses
  <2> QED BY <1>1, <2>7, <2>8
<1> QED BY <1>5, <1>6

\* async_migrate_entry gives up.
LEMMA StopsCourses ==
    ASSUME CourseInv, NEW s \in {"raised", "refused"}, Goes(s), UNCHANGED <<entry, conf, registry, disk, hist>>
    PROVE  Related' /\ Courses'
<1>1. pc' = [pc EXCEPT !.status = s]
  BY DEF Goes
<1>2. pc'.status = s /\ pc'.at = pc.at /\ pc'.todo = pc.todo
  BY <1>1 DEF CourseInv, IInv, PcOK
<1>3. Related'
  BY <1>2 DEF CourseInv, Related, HistOK
<1>4. Steps' = Steps
  BY StepsStay
<1> QED BY <1>2, <1>3, <1>4 DEF CourseInv, Courses

LEMMA BeginsCourses ==
    ASSUME CourseInv, NEW t \in WithEntities, Begins(t)
    PROVE  Related' /\ Courses'
<1>1. CASE Goes("refused") /\ UNCHANGED entry
  BY <1>1, StopsCourses DEF Begins
<1>2. CASE /\ pc' = [status |-> "entities", at |-> t, todo |-> registry]
           /\ entry' = IF t = 1312 THEN Updated(entry, entry.level, entry.data, entry.opt, Uid) ELSE entry
  <2>0. UNCHANGED <<conf, registry, disk, hist>> /\ Reaches(t)
    BY DEF Begins
  <2>1. PICK k \in 1..28 :
           /\ t = Order[k]
           /\ \A i \in 1..28 : i < k => Order[i] <= entry.level \/ Order[i] <= pc.at
    BY <2>0, Reached
  <2>2. pc.todo = {} /\ pc.at < t /\ entry.level < t /\ (t > 1301 => entry.level >= 1301) /\ t \in Nat
    BY <2>0, Reached
  <2>3. /\ entry.level \in Nat /\ disk.entry.level \in Nat /\ hist.entry.level \in Nat
        /\ pc.at \in Nat /\ HistOK
    BY Numbers
  <2>4. entry'.level = entry.level /\ entry'.child = entry.child
    BY <1>2 DEF Updated
  <2>5. Related'
    BY <1>2, <2>0, <2>2, <2>3, <2>4 DEF CourseInv, Related, HistOK
  <2>6. Courses'
    <3> SUFFICES ASSUME ~hist.lost
                 PROVE  /\ IsAt(Steps, hist.registry, registry, entry.level, t, registry)
                        /\ IsAt(Steps, hist.registry, disk.registry, disk.entry.level, 0, {})
      <4>1. Steps' = Steps
        BY <2>0, StepsStay
      <4> QED BY <1>2, <2>0, <2>4, <4>1 DEF Courses
    <3>1. IsAt(Steps, hist.registry, registry, entry.level, pc.at, {})
      BY <2>2 DEF CourseInv, Courses
    <3>2. Leaves(Steps, k, registry, registry)
      BY <2>3, StepsKnown DEF Leaves
    <3>3. IsAt(Steps, hist.registry, registry, entry.level, Order[k], registry)
      <4>1. entry.level <= entry.level /\ pc.at < Order[k] /\ Behind(k, entry.level, pc.at)
        BY <2>1, <2>2, <2>3 DEF Behind
      <4> QED BY <2>1, <2>3, <3>1, <3>2, <4>1, Passes
    <3>4. IsAt(Steps, hist.registry, disk.registry, disk.entry.level, 0, {})
      BY DEF CourseInv, Courses
    <3> QED BY <2>1, <3>3, <3>4
  <2> QED BY <2>5, <2>6
<1> QED BY <1>1, <1>2 DEF Begins

LEMMA EntityCourses ==
    ASSUME CourseInv, NEW e \in registry, Entity(e)
    PROVE  Related' /\ Courses'
<1> DEFINE to == Outcome(pc.at, e, Uid, entry.child)
<1>1. CASE Goes("raised") /\ UNCHANGED registry
  BY <1>1, StopsCourses DEF Entity
<1>2. CASE /\ pc' = [pc EXCEPT !.todo = @ \ {e}]
           /\ registry' = Left((registry \ {e}) \cup {to})
           /\ to = e \/ to \notin registry
  <2>0. /\ UNCHANGED <<entry, conf, disk, hist>> /\ pc.status = "entities" /\ e \in pc.todo
        /\ e \in EntityType
    BY DEF Entity, CourseInv, IInv, FilesOK
  <2>1. pc'.status = pc.status /\ pc'.at = pc.at /\ pc'.todo = pc.todo \ {e}
    BY <1>2 DEF CourseInv, IInv, PcOK
  <2>2. /\ entry.level \in Nat /\ disk.entry.level \in Nat /\ hist.entry.level \in Nat
        /\ pc.at \in Nat /\ HistOK /\ conf \subseteq ConfType
    BY Numbers DEF HistOK
  <2>3. /\ pc.at \in Levels /\ pc.at > entry.level /\ pc.at <= 1322
        /\ pc.at > 1301 => entry.level >= 1301
        /\ hist.entry.level < pc.at /\ hist.entry.level < 1322
        /\ entry.child = hist.entry.child /\ pc.todo \subseteq registry
    <3>1. pc.at \in Levels /\ pc.at > entry.level
      BY <2>0 DEF CourseInv, IInv, PcOK
    <3>2. pc.at <= 1322
      BY <3>1, LevelsBounded
    <3> QED BY <2>2, <3>1, <3>2 DEF CourseInv, Related
  <2>4. PICK k \in 1..28 : pc.at = Order[k]
    BY <2>3, OrderFacts
  <2>5. Uid = "id"
    <3>1. entry.uid # "scoped" /\ entry.uid \in {"unset", "id", "scoped"}
      BY <2>2, <2>3 DEF CourseInv, IInv, EntryOK, EntryType
    <3> QED BY <3>1 DEF Uid
  <2>6. to = Outcome(pc.at, e, "id", hist.entry.child)
    BY <2>3, <2>5
  <2> HIDE DEF to
  <2>7. to = Steps[k][e]
    <3>1. hist.entry.level < 1322 /\ Order[k] > hist.entry.level
      BY <2>2, <2>3, <2>4
    <3>2. Steps[k][e] = Outcome(Order[k], e, "id", hist.entry.child)
      BY <2>0, <2>2, <3>1, StepAhead
    <3> QED BY <2>4, <2>6, <3>2
  <2>8. to \in EntityType
    BY <2>0, <2>2, <2>6, OutcomeType
  <2>9. Related'
    <3>1. pc'.todo \subseteq registry'
      BY <1>2, <2>1, <2>3 DEF CourseInv, Related, Left
    <3>2. \A f \in registry' : f.of # "removed"
      BY <1>2 DEF Left
    <3> QED BY <2>0, <2>1, <2>2, <3>1, <3>2 DEF CourseInv, Related, HistOK
  <2>10. Courses'
    <3> SUFFICES ASSUME ~hist.lost
                 PROVE  /\ IsAt(Steps, hist.registry, Left((registry \ {e}) \cup {to}),
                                entry.level, Order[k], pc.todo \ {e})
                        /\ IsAt(Steps, hist.registry, disk.registry, disk.entry.level, 0, {})
      <4>1. Steps' = Steps
        BY <2>0, StepsStay
      <4> QED BY <1>2, <2>0, <2>1, <2>4, <4>1 DEF Courses
    <3>1. IsAt(Steps, hist.registry, registry, entry.level, Order[k], pc.todo)
      BY <2>4 DEF CourseInv, Courses
    <3>2. ASSUME NEW i \in 1..28, i <= k, i < k => Steps[i][e] = e \/ e.of = "scoped" \/ Order[i] = 1301
          PROVE  Steps[i][to] = to \/ to.of = "scoped" \/ (Order[i] = 1301 /\ i < k)
      <4>1. /\ Order[i] \in Levels /\ Order[i] \in Nat /\ Order[k] \in Nat
            /\ i < k <=> Order[i] < Order[k]
            /\ Order[i] <= Order[k]
        <5>1. i < k \/ i = k
          BY <3>2
        <5> QED BY <5>1, OrderFacts, OrderRises
      <4>2. CASE Order[i] <= hist.entry.level
        BY <2>2, <2>8, <4>2, StepsKnown
      <4>3. CASE ~(Order[i] <= hist.entry.level)
        <5>1. Order[i] > hist.entry.level
          BY <2>2, <4>1, <4>3
        <5>2. \A f \in EntityType : Steps[i][f] = Outcome(Order[i], f, "id", hist.entry.child)
          BY <2>2, <2>3, <5>1, StepAhead
        <5>3. Order[i] < pc.at =>
                  Outcome(Order[i], e, "id", hist.entry.child) = e \/ e.of = "scoped" \/ Order[i] = 1301
          BY <2>0, <2>4, <3>2, <4>1, <5>2
        <5>4. \/ Outcome(Order[i], to, "id", hist.entry.child) = to
              \/ to.of = "scoped"
              \/ Order[i] = 1301 /\ Order[i] < pc.at
          BY <2>0, <2>2, <2>3, <2>4, <2>6, <4>1, <5>3, Settles
        <5> QED BY <2>4, <2>8, <4>1, <5>2, <5>4
      <4> QED BY <4>2, <4>3
    <3> DEFINE H == hist.registry
               rest == pc.todo \ {e}
               now == Left((registry \ {e}) \cup {to})
    <3>3. IsAt(Steps, H, now, entry.level, Order[k], rest)
      <4>1. entry.level \in Nat /\ entry.level < Order[k] /\ pc.todo \subseteq registry /\ e \in pc.todo
        BY <2>0, <2>2, <2>3, <2>4
      <4>2. to = Steps[k][e] /\ (to = e \/ to \notin registry) /\ Later(Order[k], entry.level)
        BY <1>2, <2>3, <2>4, <2>7 DEF Later
      <4>3. Settled(Steps, k, e, to)
        BY <3>2 DEF Settled
      <4>4. IsAt(Steps, H, registry, entry.level, Order[k], pc.todo)
        BY <3>1
      <4> HIDE DEF H
      <4> QED BY <4>1, <4>2, <4>3, <4>4, OneMore
    <3>4. IsAt(Steps, hist.registry, disk.registry, disk.entry.level, 0, {})
      BY DEF CourseInv, Courses
    <3> QED BY <3>3, <3>4
  <2> QED BY <2>9, <2>10
<1> QED BY <1>1, <1>2 DEF Entity

LEMMA StoresCourses ==
    ASSUME CourseInv, Stores
    PROVE  Related' /\ Courses'
<1>1. /\ pc.status = "entities" /\ pc.todo = {} /\ UNCHANGED <<conf, registry, disk, hist>>
      /\ pc' = [status |-> "next", at |-> pc.at, todo |-> {}]
      /\ entry'.level = IF pc.at = 1305 THEN entry.level ELSE pc.at
      /\ entry'.child = entry.child
  BY DEF Stores, Past, Updated
<1>2. /\ entry.level \in Nat /\ disk.entry.level \in Nat /\ hist.entry.level \in Nat
      /\ pc.at \in Nat /\ HistOK
  BY Numbers
<1>3. pc.at > entry.level
  BY <1>1 DEF CourseInv, IInv, PcOK
<1>4. Related'
  BY <1>1, <1>2, <1>3 DEF CourseInv, Related, HistOK
<1>5. Courses'
  <2>1. Steps' = Steps
    BY <1>1, StepsStay
  <2>2. /\ entry'.level \in Nat /\ entry.level <= entry'.level
        /\ entry'.level = entry.level \/ entry'.level = pc.at
    BY <1>1, <1>2, <1>3
  <2>3. ASSUME ~hist.lost PROVE IsAt(Steps, hist.registry, registry, entry'.level, pc.at, {})
    <3>1. IsAt(Steps, hist.registry, registry, entry.level, pc.at, {})
      BY <1>1, <2>3 DEF CourseInv, Courses
    <3> QED BY <1>2, <2>2, <3>1, Stored
  <2> QED BY <1>1, <2>1, <2>3 DEF CourseInv, Courses
<1> QED BY <1>4, <1>5

LEMMA Ends13Courses ==
    ASSUME CourseInv, Ends13
    PROVE  Related' /\ Courses'
<1>1. pc' = [pc EXCEPT !.status = "done"] /\ UNCHANGED <<entry, conf, registry, disk, hist>> /\ Ahead = {}
      /\ pc.status = "next"
  BY DEF Ends13, Goes
<1>2. pc'.status = "done" /\ pc'.at = pc.at /\ pc'.todo = pc.todo
  BY <1>1 DEF CourseInv, IInv, PcOK
<1>3. Ahead' = {}
  BY <1>1, <1>2 DEF Ahead
<1>4. Related'
  <2>1. HistOK'
    BY <1>1 DEF CourseInv, Related, HistOK
  <2> QED BY <1>1, <1>2, <1>3, <2>1 DEF CourseInv, Related
<1>5. Steps' = Steps
  BY <1>1, StepsStay
<1> QED BY <1>1, <1>2, <1>4, <1>5 DEF CourseInv, Courses

LEMMA ReloadCourses ==
    ASSUME CourseInv, Stops
    PROVE  Related' /\ Courses'
<1>1. /\ entry' \in {entry, disk.entry} /\ registry' \in {registry, disk.registry}
      /\ disk' = [entry |-> entry', registry |-> registry']
      /\ pc' = [status |-> "next", at |-> 0, todo |-> {}]
      /\ hist' = [hist EXCEPT !.lost = @ \/ Torn(entry', registry')]
      /\ UNCHANGED conf
  BY DEF Stops
<1>2. /\ entry.level \in Nat /\ disk.entry.level \in Nat /\ hist.entry.level \in Nat
      /\ pc.at \in Nat /\ HistOK
  BY Numbers
<1>3. /\ hist'.entry = hist.entry /\ hist'.registry = hist.registry
      /\ hist'.lost = (hist.lost \/ Torn(entry', registry'))
      /\ hist' = [entry |-> hist'.entry, registry |-> hist'.registry, lost |-> hist'.lost]
  BY <1>1, <1>2 DEF HistOK
<1>4. Related'
  <2>1. HistOK'
    BY <1>1, <1>2, <1>3 DEF HistOK
  <2> QED BY <1>1, <1>2, <1>3, <2>1 DEF CourseInv, Related
<1>5. ASSUME ~hist.lost, ~Torn(entry', registry')
      PROVE  IsAt(Steps, hist.registry, registry', entry'.level, 0, {})
  <2>1. IsAt(Steps, hist.registry, registry, entry.level, pc.at, pc.todo)
    BY <1>5 DEF CourseInv, Courses
  <2>2. IsAt(Steps, hist.registry, disk.registry, disk.entry.level, 0, {})
    BY <1>5 DEF CourseInv, Courses
  <2>3. CASE registry' = disk.registry /\ entry' = disk.entry
    BY <2>2, <2>3
  <2>4. CASE registry' = registry
    <3>1. /\ entry'.level \in Nat /\ entry'.level <= entry.level
          /\ entry'.uid = "scoped" => 1322 <= entry'.level
      BY <1>1, <1>2 DEF CourseInv, IInv, FilesOK, EntryOK, Related
    <3>2. Owned(registry, entry'.level)
      BY <1>5, <2>4, <3>1 DEF Torn, Owned
    <3>3. ASSUME entry'.level < 1301, entry.level >= 1301, NEW i \in 1..28, NEW f \in registry, Order[i] = 1301
          PROVE  Steps[i][f] = f
      <4>1. f \in EntityType
        BY DEF CourseInv, IInv, FilesOK
      <4>2. DeviceClass(f, "id") = f
        BY <1>5, <2>4, <3>3 DEF Torn
      <4>3. hist.entry.level <= entry'.level
        BY <1>1, <1>2 DEF CourseInv, Related
      <4>4. hist.entry.level < 1322 /\ Order[i] > hist.entry.level
        BY <1>2, <3>1, <3>3, <4>3
      <4>5. Steps[i][f] = Outcome(Order[i], f, "id", hist.entry.child)
        BY <1>2, <4>1, <4>4, StepAhead
      <4> QED BY <3>3, <4>2, <4>5, Early
    <3>4. \A i \in 1..28 : \A f \in EntityType : f.of = "removed" => Steps[i][f] = f
      BY <1>2, StepsKnown
    <3>5. Unmoved(Steps, registry, entry.level, entry'.level) /\ Free(Steps)
      BY <3>3, <3>4 DEF Unmoved, Free
    <3>6. IsAt(Steps, hist.registry, registry, entry'.level, 0, {})
      BY <1>2, <2>1, <3>1, <3>2, <3>5, Reloads
    <3> QED BY <2>4, <3>6
  <2>5. registry' = registry \/ (registry' = disk.registry /\ entry' = disk.entry)
    BY <1>1, <1>5 DEF Torn
  <2> QED BY <2>3, <2>4, <2>5
<1>6. Courses'
  <2>1. Steps' = Steps
    BY <1>1, <1>3, StepsStay
  <2> SUFFICES ASSUME ~hist'.lost
               PROVE  IsAt(Steps, hist.registry, registry', entry'.level, 0, {})
    BY <1>1, <1>3, <2>1 DEF Courses
  <2> QED BY <1>3, <1>5
<1> QED BY <1>4, <1>6

LEMMA NextCourses == CourseInv /\ [Next]_vars => CourseInv'
<1> SUFFICES ASSUME CourseInv, [Next]_vars PROVE CourseInv'
  OBVIOUS
<1>0. IInv'
  BY NextInv DEF CourseInv
<1> SUFFICES Related' /\ Courses'
  BY <1>0 DEF CourseInv
<1>p. ASSUME NEW t \in OfEntry, Reaches(t), Past(t), NEW d, NEW o, NEW u, entry' = Updated(entry, t, d, o, u),
             UNCHANGED <<conf, registry, disk, hist>>
      PROVE  Related' /\ Courses'
  <2>1. entry'.level = t /\ entry'.child = entry.child
    BY <1>p DEF Updated
  <2> QED BY <1>p, <2>1, PastCourses
<1>q. ASSUME Goes("raised"), UNCHANGED <<entry, conf, registry, disk, hist>>
      PROVE  Related' /\ Courses'
  BY <1>q, StopsCourses
<1>s. {200, 300, 400, 1304} \subseteq OfEntry /\ {900, 1000, 1100} \subseteq OfEntry
  BY DEF OfEntry
<1>1. CASE From1
  BY <1>1, <1>p, <1>q, <1>s DEF From1
<1>2. CASE From2
  BY <1>2, <1>p, <1>q, <1>s DEF From2
<1>3. CASE From3
  BY <1>3, <1>p, <1>q, <1>s DEF From3
<1>4. CASE Retypes
  BY <1>4, <1>p, <1>s DEF Retypes
<1>5. ASSUME NEW t \in {900, 1000, 1100}, Trims(t) PROVE Related' /\ Courses'
  BY <1>5, <1>p, <1>s DEF Trims
<1>6. ASSUME NEW t \in WithEntities, Begins(t) PROVE Related' /\ Courses'
  BY <1>6, BeginsCourses
<1>7. ASSUME NEW e \in registry, Entity(e) PROVE Related' /\ Courses'
  BY <1>7, EntityCourses
<1>8. CASE Stores
  BY <1>8, StoresCourses
<1>9. CASE Ends13
  BY <1>9, Ends13Courses
<1>10. CASE Stops
  BY <1>10, ReloadCourses
<1>11. CASE UNCHANGED vars
  <2>1. UNCHANGED <<entry, conf, registry, pc, disk, stops, hist>>
    BY <1>11 DEF vars
  <2>2. Steps' = Steps
    BY <2>1, StepsStay
  <2>3. Related'
    BY <2>1 DEF CourseInv, Related, HistOK, Ahead
  <2> QED BY <2>1, <2>2, <2>3 DEF CourseInv, Courses
<1> QED BY <1>1, <1>2, <1>3, <1>4, <1>5, <1>6, <1>7, <1>8, <1>9, <1>10, <1>11 DEF Next, Migrates

LEMMA CoursesEnd == CourseInv => EndsAsUndisturbed
<1> SUFFICES ASSUME CourseInv, pc.status = "done", ~hist.lost
             PROVE  registry = Left({After(e) : e \in hist.registry})
  BY DEF EndsAsUndisturbed
<1>1. entry.level \in Nat /\ pc.at \in Nat /\ HistOK
  BY Numbers
<1>2. IsAt(Steps, hist.registry, registry, entry.level, pc.at, {})
  <2>1. pc.todo = {}
    BY DEF CourseInv, Related
  <2>2. IsAt(Steps, hist.registry, registry, entry.level, pc.at, pc.todo)
    BY DEF CourseInv, Courses
  <2> QED BY <2>1, <2>2
<1>3. ASSUME NEW i \in 1..28 PROVE Order[i] <= entry.level \/ Order[i] <= pc.at
  <2>1. Order[i] \in Levels /\ Order[i] \in Nat
    BY OrderFacts
  <2>2. ~(Order[i] > pc.at /\ Order[i] > entry.level)
    BY <2>1 DEF CourseInv, Related, Ahead
  <2> QED BY <1>1, <2>1, <2>2
<1> QED BY <1>1, <1>2, <1>3, Ended

\* Wherever Home Assistant stops, however often and whatever it has written by
\* then: async_migrate_entry leaves the entities as an undisturbed run does.
THEOREM MigrationEndsAsUndisturbed == Spec => []EndsAsUndisturbed
<1>1. Spec => []CourseInv
  BY InitCourses, NextCourses, PTL DEF Spec
<1> QED BY <1>1, CoursesEnd, PTL

\* What is proved of the migration is proved of the component: its other part
\* leaves the migration at rest.
THEOREM EntryMigrates == EntrySpec => Spec
<1>1. EntryInit => Init
  BY DEF EntryInit
<1>2. [EntryNext]_<<part, vars, lifevars>> => [Next]_vars
  BY DEF EntryNext
<1> QED BY <1>1, <1>2, PTL DEF EntrySpec, Spec

-----------------------------------------------------------------------------
(* Set-up and unloading: the invariant.                                    *)

HeldStates == {"refresh", "loaded", "unload", "delete"}
ObjectType == [id : Life!Entries, api : 1..MaxSetups, lock : 1..MaxSetups, children : SUBSET Ents,
               running : BOOLEAN, listener : {"none", "waits", "left"},
               task : {"none", "check", "acquire", "poll", "over"}]
BucketType == [dev : {-1} \cup (0..MaxSetups), api : 0..MaxSetups, lock : 0..MaxSetups]
SetupType == [st : HeldStates \cup {"out", "retry"}, obj : 0..MaxSetups]
PastType == [cut : BOOLEAN, early : SUBSET Nat, missed : SUBSET Nat]

LifeType ==
    /\ ha \in {"starting", "running"}
    /\ \E k \in 0..MaxSetups : obj \in [1..k -> ObjectType]
    /\ bucket \in [Life!Entries -> BucketType]
    /\ setup \in [Life!Entries -> SetupType]
    /\ owner \in [1..MaxSetups -> 0..MaxSetups]
    /\ past \in PastType

\* A connection goes with its lock, and who polls holds the lock.
LockWithApi ==
    /\ \A n \in DOMAIN obj : obj[n].api = obj[n].lock
    /\ \A d \in Life!Entries : bucket[d].api = bucket[d].lock /\ (bucket[d] # Life!NoBucket => bucket[d].api # 0)
PollOwns == \A n \in DOMAIN obj : obj[n].task = "poll" => owner[obj[n].lock] = n

HasObject ==
    \A d \in Life!Entries : setup[d].st \in HeldStates =>
        setup[d].obj \in DOMAIN obj /\ obj[setup[d].obj].id = d

\* Who uses a connection uses the one in the gateway's bucket.
Connected ==
    ~past.cut => \A n \in DOMAIN obj : Life!Uses(n) =>
        bucket[Gateway] # Life!NoBucket /\ bucket[Gateway].api = obj[n].api

LoopsIn(o) == o.task \in {"check", "acquire", "poll"}

\* What an object is, whoever uses it.
WatchedIn(o, n, h, missed) ==
    /\ o.running => LoopsIn(o) \/ o.listener = "left" \/ n \in missed
    /\ o.children # {} => o.running \/ o.listener # "none"
    /\ h = "running" => o.listener # "waits"
Watched == \A n \in DOMAIN obj : WatchedIn(obj[n], n, ha, past.missed)

\* A loop, or one that will start, is of a set-up entry; and there is none yet
\* while its first poll is awaited.
Wanted ==
    \A n \in DOMAIN obj :
        /\ LoopsIn(obj[n]) \/ obj[n].listener = "waits" => Life!Uses(n) \/ n \in past.early
        /\ setup[obj[n].id].obj = n /\ setup[obj[n].id].st = "refresh" =>
               obj[n].task = "none" /\ obj[n].listener = "none"

LifeInv == LifeType /\ LockWithApi /\ PollOwns /\ HasObject /\ Connected /\ Watched /\ Wanted

LEMMA LifeShows == LifeInv => OneConnection /\ Monitored
<1> SUFFICES ASSUME LifeInv PROVE OneConnection /\ Monitored
  OBVIOUS
<1>1. Life!OneConnection
  <2>1. ~past.cut => \A n, m \in DOMAIN obj : Life!Uses(n) /\ Life!Uses(m) => obj[n].api = obj[m].api
    BY DEF LifeInv, Connected
  <2>2. \A n, m \in DOMAIN obj : n # m /\ obj[n].api = obj[m].api =>
            ~(obj[n].task = "poll" /\ obj[m].task = "poll")
    BY DEF LifeInv, LockWithApi, PollOwns
  <2> QED BY <2>1, <2>2 DEF Life!OneConnection, Life!Objects
<1>2. Life!Monitored
  <2> SUFFICES ASSUME NEW n \in DOMAIN obj
               PROVE  /\ ha = "running" /\ obj[n].children # {} =>
                             Life!Loops(n) \/ obj[n].listener = "left" \/ n \in past.missed
                      /\ Life!Loops(n) => Life!Uses(n) \/ n \in past.early
    BY DEF Life!Monitored, Life!Objects
  <2>1. WatchedIn(obj[n], n, ha, past.missed) /\ obj[n].listener \in {"none", "waits", "left"}
    BY DEF LifeInv, Watched, LifeType, ObjectType
  <2>2. Life!Loops(n) <=> LoopsIn(obj[n])
    BY DEF Life!Loops, LoopsIn
  <2>3. LoopsIn(obj[n]) => Life!Uses(n) \/ n \in past.early
    BY DEF LifeInv, Wanted
  <2> QED BY <2>1, <2>2, <2>3 DEF WatchedIn
<1> QED BY <1>1, <1>2 DEF OneConnection, Monitored

LEMMA LifeInit == Life!Init => LifeInv
<1> SUFFICES ASSUME Life!Init PROVE LifeInv
  OBVIOUS
<1>0. MaxSetups \in Nat
  BY EntryAssumption
<1>1. DOMAIN obj = {} /\ 1..0 = {}
  BY DEF Life!Init
<1>2. LifeType
  <2>1. obj \in [1..0 -> ObjectType]
    BY <1>1 DEF Life!Init
  <2>2. 0 \in 0..MaxSetups
    BY <1>0
  <2>3. bucket \in [Life!Entries -> BucketType]
    BY <1>0 DEF Life!Init, BucketType, Life!NoBucket
  <2>4. setup \in [Life!Entries -> SetupType]
    BY <1>0 DEF Life!Init, SetupType
  <2>5. owner \in [1..MaxSetups -> 0..MaxSetups]
    BY <1>0 DEF Life!Init
  <2>6. past \in PastType /\ ha \in {"starting", "running"}
    BY DEF Life!Init, PastType
  <2> QED BY <2>1, <2>2, <2>3, <2>4, <2>5, <2>6 DEF LifeType
<1>3. LockWithApi
  BY <1>1 DEF LockWithApi, Life!Init, Life!NoBucket
<1>4. HasObject
  BY <1>1 DEF HasObject, Life!Init, HeldStates
<1> QED BY <1>1, <1>2, <1>3, <1>4 DEF LifeInv, PollOwns, Connected, Watched, Wanted

-----------------------------------------------------------------------------
(* Steps of one object.                                                    *)

SameMaker(o, r) == r.id = o.id /\ r.api = o.api /\ r.lock = o.lock

\* One object's record is replaced, and its entry stays set up.
LEMMA Moves ==
    ASSUME LifeInv, NEW n \in DOMAIN obj, NEW r \in ObjectType, SameMaker(obj[n], r),
           obj' = [obj EXCEPT ![n] = r], UNCHANGED <<ha, bucket>>,
           setup' \in [Life!Entries -> SetupType], owner' \in [1..MaxSetups -> 0..MaxSetups],
           past' \in PastType, past'.cut = past.cut, past.early = past'.early,
           past.missed \subseteq past'.missed,
           \A d \in Life!Entries : setup'[d].obj = setup[d].obj
               /\ (setup[d].st \in HeldStates <=> setup'[d].st \in HeldStates)
               /\ (setup'[d].st = "refresh" => setup[d].st = "refresh"),
           PollOwns',
           WatchedIn(r, n, ha, past'.missed),
           LoopsIn(r) \/ r.listener = "waits" => Life!Uses(n) \/ n \in past.early,
           setup'[r.id].obj = n /\ setup'[r.id].st = "refresh" => r.task = "none" /\ r.listener = "none"
    PROVE  LifeInv'
<1>1. PICK k \in 0..MaxSetups : obj \in [1..k -> ObjectType]
  BY DEF LifeInv, LifeType
<1>2. obj' \in [1..k -> ObjectType] /\ DOMAIN obj' = DOMAIN obj
  BY <1>1
<1>3. obj'[n] = r /\ \A m \in DOMAIN obj : m # n => obj'[m] = obj[m]
  BY <1>1
<1>4. \A m \in DOMAIN obj : SameMaker(obj[m], obj'[m]) /\ obj[m].id \in Life!Entries
  BY <1>1, <1>3 DEF SameMaker, ObjectType
<1>5. \A m \in DOMAIN obj : Life!Uses(m)' <=> Life!Uses(m)
  BY <1>4 DEF Life!Uses, SameMaker, HeldStates
<1>6. LifeType'
  BY <1>2 DEF LifeInv, LifeType
<1>7. LockWithApi'
  BY <1>2, <1>4 DEF LifeInv, LockWithApi, SameMaker, Life!Entries, Life!NoBucket
<1>8. HasObject'
  BY <1>2, <1>4 DEF LifeInv, HasObject, SameMaker, Life!Entries
<1>9. Connected'
  BY <1>2, <1>4, <1>5 DEF LifeInv, Connected, SameMaker, Life!NoBucket
<1>10. Watched'
  <2> SUFFICES ASSUME NEW m \in DOMAIN obj PROVE WatchedIn(obj'[m], m, ha, past'.missed)
    BY <1>2 DEF Watched
  <2>1. CASE m = n
    BY <1>3, <2>1
  <2>2. CASE m # n
    BY <1>3, <2>2 DEF LifeInv, Watched, WatchedIn
  <2> QED BY <2>1, <2>2
<1>11. Wanted'
  <2> SUFFICES ASSUME NEW m \in DOMAIN obj
               PROVE  /\ LoopsIn(obj'[m]) \/ obj'[m].listener = "waits" => Life!Uses(m)' \/ m \in past'.early
                      /\ setup'[obj'[m].id].obj = m /\ setup'[obj'[m].id].st = "refresh" =>
                             obj'[m].task = "none" /\ obj'[m].listener = "none"
    BY <1>2 DEF Wanted, LoopsIn
  <2>1. CASE m = n
    BY <1>3, <1>5, <2>1
  <2>2. CASE m # n
    BY <1>3, <1>4, <1>5, <2>2 DEF LifeInv, Wanted
  <2> QED BY <2>1, <2>2
<1> QED BY <1>6, <1>7, <1>8, <1>9, <1>10, <1>11 DEF LifeInv

\* What the lemma says of polls follows when no poll begins.
LEMMA NoPollBegins ==
    ASSUME LifeInv, NEW n \in DOMAIN obj, NEW r, SameMaker(obj[n], r),
           obj' = [obj EXCEPT ![n] = r], UNCHANGED owner, r.task = "poll" => obj[n].task = "poll"
    PROVE  PollOwns'
BY DEF LifeInv, PollOwns, SameMaker

LEMMA Objects ==
    ASSUME LifeInv
    PROVE  /\ \A n \in DOMAIN obj : obj[n] \in ObjectType /\ n \in Nat
           /\ \A d \in Life!Entries : setup[d] \in SetupType
BY EntryAssumption DEF LifeInv, LifeType

\* Home Assistant adds, renames or takes out an entity of a loaded entry, or of
\* one that is being unloaded.
LEMMA AddsInv ==
    ASSUME LifeInv, NEW d \in Life!Entries, NEW e \in Ents, Life!Adds(d, e)
    PROVE  LifeInv'
<1> DEFINE n == setup[d].obj
           o == obj[n]
           r == Life!Registered(o, e)
<1>1. n \in DOMAIN obj /\ o.id = d /\ setup[d].st = "loaded"
  BY DEF LifeInv, HasObject, Life!Adds, HeldStates
<1>2. o \in ObjectType /\ n \in Nat
  BY <1>1, Objects
<1>3. WatchedIn(o, n, ha, past.missed) /\ (o.listener = "waits" => Life!Uses(n) \/ n \in past.early)
  BY <1>1 DEF LifeInv, Watched, Wanted
<1>4. Life!Uses(n)
  BY <1>1 DEF Life!Uses
<1>5. /\ obj' = [obj EXCEPT ![n] = r]
      /\ past' = IF Life!Misses(n) THEN [past EXCEPT !.missed = @ \cup {n}] ELSE past
      /\ UNCHANGED <<ha, bucket, setup, owner>>
  BY DEF Life!Adds
<1>6. past \in PastType /\ ha \in {"starting", "running"}
  BY DEF LifeInv, LifeType
<1>7. /\ past' \in PastType /\ past'.cut = past.cut /\ past'.early = past.early
      /\ past'.missed = IF Life!Misses(n) THEN past.missed \cup {n} ELSE past.missed
  BY <1>2, <1>5, <1>6 DEF PastType
<1>8. Life!Misses(n) <=> o.task = "over" /\ ~o.running /\ o.listener = "none" /\ ha = "running"
  BY DEF Life!Misses
<1> HIDE DEF o, n
<1>9. /\ r \in ObjectType /\ SameMaker(o, r)
      /\ r.children = o.children \cup {e}
      /\ IF o.running \/ o.listener # "none"
         THEN r.running = o.running /\ r.listener = o.listener /\ r.task = o.task
         ELSE IF ha = "running"
         THEN r.running /\ r.listener = o.listener /\ r.task = IF o.task = "none" THEN "check" ELSE o.task
         ELSE ~r.running /\ r.listener = "waits" /\ r.task = o.task
  <2> DEFINE c == o.children \cup {e}
             q == [o EXCEPT !.children = c]
  <2>1. q \in ObjectType /\ SameMaker(o, q) /\ q.children = c /\ q.running = o.running
        /\ q.listener = o.listener /\ q.task = o.task
    BY <1>2 DEF ObjectType, SameMaker
  <2>2. r = IF q.running \/ q.listener # "none" THEN q
            ELSE IF ha = "running" THEN Life!Started(q) ELSE [q EXCEPT !.listener = "waits"]
    BY DEF Life!Registered
  <2> HIDE DEF q, r
  <2>3. LET s == Life!Started(q)
        IN  s \in ObjectType /\ SameMaker(q, s) /\ s.children = q.children /\ s.running
            /\ s.listener = q.listener /\ s.task = IF q.task = "none" THEN "check" ELSE q.task
    BY <2>1 DEF Life!Started, ObjectType, SameMaker
  <2>4. LET s == [q EXCEPT !.listener = "waits"]
        IN  s \in ObjectType /\ SameMaker(q, s) /\ s.children = q.children /\ s.running = q.running
            /\ s.listener = "waits" /\ s.task = q.task
    BY <2>1 DEF ObjectType, SameMaker
  <2>5. o.running \in BOOLEAN
    BY <1>2 DEF ObjectType
  <2> QED BY <2>1, <2>2, <2>3, <2>4, <2>5 DEF SameMaker
<1> HIDE DEF r
<1>10. o = obj[n]
  BY DEF o
<1>11. PollOwns'
  BY <1>1, <1>5, <1>9, <1>10, NoPollBegins
<1>12. WatchedIn(r, n, ha, past'.missed)
  <2>1. o.task \in {"none", "check", "acquire", "poll", "over"} /\ o.listener \in {"none", "waits", "left"}
        /\ o.running \in BOOLEAN
    BY <1>2 DEF ObjectType
  <2> QED BY <2>1, <1>3, <1>6, <1>7, <1>8, <1>9 DEF WatchedIn, LoopsIn
<1>13. LoopsIn(r) \/ r.listener = "waits" => Life!Uses(n) \/ n \in past.early
  BY <1>4
<1>14. setup[r.id].st = "loaded" /\ "loaded" # "refresh"
  BY <1>1, <1>9 DEF SameMaker
<1>15. setup' \in [Life!Entries -> SetupType] /\ owner' \in [1..MaxSetups -> 0..MaxSetups]
  BY <1>5 DEF LifeInv, LifeType
<1>16. \A i \in Life!Entries : setup'[i].obj = setup[i].obj
          /\ (setup[i].st \in HeldStates <=> setup'[i].st \in HeldStates)
          /\ (setup'[i].st = "refresh" => setup[i].st = "refresh")
  BY <1>5
<1>17. past.missed \subseteq past'.missed /\ past.early = past'.early
  BY <1>7
<1>18. r.id = d /\ setup'[d].st # "refresh" /\ SameMaker(obj[n], r)
  BY <1>1, <1>5, <1>9, <1>10, <1>14 DEF SameMaker
<1> QED BY <1>1, <1>5, <1>7, <1>9, <1>11, <1>12, <1>13, <1>15, <1>16, <1>17, <1>18, Moves

LEMMA LeavesInv ==
    ASSUME LifeInv, NEW d \in Life!Entries, NEW e \in Ents, NEW after, Life!Leaves(d, e, after),
           setup[d].st \in {"loaded", "unload"}, UNCHANGED <<ha, bucket, setup, owner, past>>
    PROVE  LifeInv'
<1> DEFINE n == setup[d].obj
           o == obj[n]
           r == Life!Unregistered(o, e)
<1>1. n \in DOMAIN obj /\ o.id = d
  BY DEF LifeInv, HasObject, HeldStates
<1>2. o \in ObjectType /\ n \in Nat
  BY <1>1, Objects
<1>3. /\ WatchedIn(o, n, ha, past.missed)
      /\ LoopsIn(o) \/ o.listener = "waits" => Life!Uses(n) \/ n \in past.early
  BY <1>1 DEF LifeInv, Watched, Wanted
<1>5. obj' = [obj EXCEPT ![n] = r]
  BY DEF Life!Leaves
<1>6. o = obj[n] /\ setup[d].st # "refresh"
  OBVIOUS
<1> HIDE DEF o, n
<1>7. /\ r \in ObjectType /\ SameMaker(o, r) /\ r.task = o.task /\ r.listener = o.listener
      /\ (~r.running /\ r.children = {}) \/ (r.running = o.running /\ r.children \subseteq o.children)
  <2> DEFINE c == o.children \ {e}
             q == [o EXCEPT !.children = c]
  <2>1. q \in ObjectType /\ SameMaker(o, q) /\ q.children = c /\ q.running = o.running
        /\ q.listener = o.listener /\ q.task = o.task
    BY <1>2 DEF ObjectType, SameMaker
  <2>2. r = IF q.children = {} THEN Life!Stopped(q) ELSE q
    BY DEF Life!Unregistered
  <2> HIDE DEF q, r
  <2>3. LET s == Life!Stopped(q)
        IN  s \in ObjectType /\ SameMaker(q, s) /\ s.children = {} /\ s.running = FALSE
            /\ s.listener = q.listener /\ s.task = q.task
    BY <2>1 DEF Life!Stopped, ObjectType, SameMaker
  <2> QED BY <2>1, <2>2, <2>3 DEF SameMaker
<1> HIDE DEF r
<1>8. PollOwns'
  BY <1>1, <1>5, <1>6, <1>7, NoPollBegins
<1>9. WatchedIn(r, n, ha, past.missed)
  <2>1. r.children # {} => o.children # {}
    BY <1>7
  <2> QED BY <2>1, <1>3, <1>7 DEF WatchedIn, LoopsIn
<1>10. LoopsIn(r) \/ r.listener = "waits" => Life!Uses(n) \/ n \in past.early
  BY <1>3, <1>7 DEF LoopsIn
<1>11. setup[r.id].st # "refresh"
  BY <1>1, <1>6, <1>7 DEF SameMaker
<1>12. /\ setup \in [Life!Entries -> SetupType] /\ owner \in [1..MaxSetups -> 0..MaxSetups]
       /\ past \in PastType
  BY DEF LifeInv, LifeType
<1> QED BY <1>1, <1>5, <1>6, <1>7, <1>8, <1>9, <1>10, <1>11, <1>12, Moves

\* The stop of an unloaded entry's object.
LEMMA DeletesInv ==
    ASSUME LifeInv, NEW d \in Life!Entries, Life!Deletes(d)
    PROVE  LifeInv'
<1> DEFINE n == setup[d].obj
           o == obj[n]
           r == Life!Stopped(o)
<1>1. n \in DOMAIN obj /\ o.id = d /\ setup[d].st = "unload"
  BY DEF LifeInv, HasObject, Life!Deletes, HeldStates
<1>2. o \in ObjectType /\ n \in Nat
  BY <1>1, Objects
<1>3. /\ WatchedIn(o, n, ha, past.missed)
      /\ LoopsIn(o) \/ o.listener = "waits" => Life!Uses(n) \/ n \in past.early
  BY <1>1 DEF LifeInv, Watched, Wanted
<1>4. setup \in [Life!Entries -> SetupType] /\ owner \in [1..MaxSetups -> 0..MaxSetups]
      /\ past \in PastType
  BY DEF LifeInv, LifeType
<1>5. /\ obj' = [obj EXCEPT ![n] = r] /\ setup' = [setup EXCEPT ![d].st = "delete"]
      /\ UNCHANGED <<ha, bucket, owner, past>>
  BY DEF Life!Deletes
<1>6. o = obj[n]
  OBVIOUS
<1>7. /\ setup' \in [Life!Entries -> SetupType] /\ setup'[d].st = "delete"
      /\ \A i \in Life!Entries : setup'[i].obj = setup[i].obj /\ (i # d => setup'[i] = setup[i])
  BY <1>4, <1>5 DEF SetupType, HeldStates
<1> HIDE DEF o, n
<1>8. /\ r \in ObjectType /\ SameMaker(o, r) /\ r.task = o.task /\ r.listener = o.listener
      /\ ~r.running /\ r.children = {}
  BY <1>2 DEF Life!Stopped, ObjectType, SameMaker
<1> HIDE DEF r
<1>9. PollOwns'
  BY <1>1, <1>5, <1>6, <1>8, NoPollBegins
<1>10. WatchedIn(r, n, ha, past.missed)
  BY <1>3, <1>8 DEF WatchedIn
<1>11. LoopsIn(r) \/ r.listener = "waits" => Life!Uses(n) \/ n \in past.early
  BY <1>3, <1>8 DEF LoopsIn
<1>12. setup'[r.id].st # "refresh"
  BY <1>1, <1>7, <1>8 DEF SameMaker
<1>13. \A i \in Life!Entries : setup'[i].obj = setup[i].obj
          /\ (setup[i].st \in HeldStates <=> setup'[i].st \in HeldStates)
          /\ (setup'[i].st = "refresh" => setup[i].st = "refresh")
  BY <1>1, <1>7 DEF HeldStates
<1> QED BY <1>1, <1>4, <1>5, <1>6, <1>7, <1>8, <1>9, <1>10, <1>11, <1>12, <1>13, Moves

\* The task of an object goes from one place to another.
LEMMA TaskInv ==
    ASSUME LifeInv, NEW n \in DOMAIN obj, NEW to \in {"none", "check", "acquire", "poll", "over"},
           obj' = [obj EXCEPT ![n].task = to], UNCHANGED <<ha, bucket, setup, past>>,
           owner' \in [1..MaxSetups -> 0..MaxSetups], PollOwns',
           to \in {"check", "acquire", "poll"} => LoopsIn(obj[n]),
           LoopsIn(obj[n]) /\ obj[n].running => to \in {"check", "acquire", "poll"},
           obj[n].task # "none"
    PROVE  LifeInv'
<1> DEFINE o == obj[n]
           r == [o EXCEPT !.task = to]
<1>1. o \in ObjectType /\ n \in Nat
  BY Objects
<1>2. /\ WatchedIn(o, n, ha, past.missed)
      /\ LoopsIn(o) \/ o.listener = "waits" => Life!Uses(n) \/ n \in past.early
      /\ setup[o.id].obj = n /\ setup[o.id].st = "refresh" => o.task = "none" /\ o.listener = "none"
  BY DEF LifeInv, Watched, Wanted
<1>3. obj' = [obj EXCEPT ![n] = r] /\ o = obj[n]
  OBVIOUS
<1>4. setup \in [Life!Entries -> SetupType] /\ past \in PastType
  BY DEF LifeInv, LifeType
<1> HIDE DEF o
<1>5. /\ r \in ObjectType /\ SameMaker(o, r) /\ r.task = to /\ r.listener = o.listener
      /\ r.running = o.running /\ r.children = o.children
  BY <1>1 DEF ObjectType, SameMaker
<1> HIDE DEF r
<1>6. WatchedIn(r, n, ha, past.missed)
  BY <1>2, <1>3, <1>5 DEF WatchedIn, LoopsIn
<1>7. LoopsIn(r) \/ r.listener = "waits" => Life!Uses(n) \/ n \in past.early
  BY <1>2, <1>3, <1>5 DEF LoopsIn
<1>8. setup[r.id].obj = n /\ setup[r.id].st = "refresh" => r.task = "none" /\ r.listener = "none"
  BY <1>1, <1>2, <1>3, <1>5 DEF SameMaker, LoopsIn, ObjectType
<1> QED BY <1>3, <1>4, <1>5, <1>6, <1>7, <1>8, Moves

\* The end of a task, and the three steps of its loop.
LEMMA LoopInv ==
    ASSUME LifeInv, NEW n \in DOMAIN obj,
           Life!Joins(n) \/ Life!Checks(n) \/ Life!Acquires(n) \/ Life!Releases(n)
    PROVE  LifeInv'
<1>0. /\ owner \in [1..MaxSetups -> 0..MaxSetups] /\ obj[n] \in ObjectType
      /\ \A m \in DOMAIN obj : obj[m].lock \in 1..MaxSetups
      /\ n \in 1..MaxSetups
  BY Objects, EntryAssumption DEF LifeInv, LifeType, ObjectType
<1>1. CASE Life!Joins(n)
  <2>1. /\ obj[n].task = "over" /\ obj' = [obj EXCEPT ![n].task = "none"]
        /\ UNCHANGED <<ha, bucket, setup, owner, past>>
    BY <1>1 DEF Life!Joins
  <2>2. PollOwns'
    BY <2>1 DEF LifeInv, PollOwns
  <2>3. ~LoopsIn(obj[n])
    BY <2>1 DEF LoopsIn
  <2> QED BY <1>0, <2>1, <2>2, <2>3, TaskInv
<1>2. CASE Life!Checks(n)
  <2> DEFINE to == IF obj[n].running THEN "acquire" ELSE "over"
  <2>1. /\ obj[n].task = "check" /\ obj' = [obj EXCEPT ![n].task = to]
        /\ UNCHANGED <<ha, bucket, setup, owner, past>>
    BY <1>2 DEF Life!Checks, Life!Task
  <2>2. to \in {"acquire", "over"} /\ (obj[n].running => to = "acquire")
    OBVIOUS
  <2> HIDE DEF to
  <2>3. PollOwns'
    BY <2>1, <2>2 DEF LifeInv, PollOwns
  <2>4. LoopsIn(obj[n])
    BY <2>1 DEF LoopsIn
  <2> QED BY <1>0, <2>1, <2>2, <2>3, <2>4, TaskInv
<1>3. CASE Life!Acquires(n)
  <2>1. /\ obj[n].task = "acquire" /\ obj' = [obj EXCEPT ![n].task = "poll"]
        /\ owner[obj[n].lock] = 0 /\ owner' = [owner EXCEPT ![obj[n].lock] = n]
        /\ UNCHANGED <<ha, bucket, setup, past>>
    BY <1>3 DEF Life!Acquires, Life!Task
  <2>2. owner' \in [1..MaxSetups -> 0..MaxSetups]
    BY <1>0, <2>1
  <2>3. PollOwns'
    <3> SUFFICES ASSUME NEW m \in DOMAIN obj, obj'[m].task = "poll"
                 PROVE  owner'[obj'[m].lock] = m
      BY <2>1 DEF PollOwns
    <3>1. obj'[m].lock = obj[m].lock
      BY <1>0, <2>1 DEF ObjectType
    <3>2. CASE m = n
      BY <1>0, <2>1, <3>1, <3>2
    <3>3. CASE m # n
      <4>1. owner[obj[m].lock] = m /\ m \in Nat /\ m # 0
        BY <2>1, <3>3, EntryAssumption DEF LifeInv, PollOwns, LifeType
      <4> QED BY <1>0, <2>1, <3>1, <3>3, <4>1
    <3> QED BY <3>2, <3>3
  <2>4. LoopsIn(obj[n])
    BY <2>1 DEF LoopsIn
  <2> QED BY <2>1, <2>2, <2>3, <2>4, TaskInv
<1>4. CASE Life!Releases(n)
  <2>1. /\ obj[n].task = "poll" /\ obj' = [obj EXCEPT ![n].task = "check"]
        /\ owner' = [owner EXCEPT ![obj[n].lock] = 0]
        /\ UNCHANGED <<ha, bucket, setup, past>>
    BY <1>4 DEF Life!Releases, Life!Task
  <2>2. owner' \in [1..MaxSetups -> 0..MaxSetups]
    BY <1>0, <2>1, EntryAssumption
  <2>3. PollOwns'
    <3> SUFFICES ASSUME NEW m \in DOMAIN obj, obj'[m].task = "poll"
                 PROVE  owner'[obj'[m].lock] = m
      BY <2>1 DEF PollOwns
    <3>1. m # n
      BY <1>0, <2>1 DEF ObjectType
    <3>2. obj'[m] = obj[m] /\ owner[obj[m].lock] = m /\ owner[obj[n].lock] = n
      BY <2>1, <3>1 DEF LifeInv, PollOwns
    <3> QED BY <1>0, <2>1, <3>1, <3>2
  <2>4. LoopsIn(obj[n])
    BY <2>1 DEF LoopsIn
  <2> QED BY <2>1, <2>2, <2>3, <2>4, TaskInv
<1> QED BY <1>1, <1>2, <1>3, <1>4

-----------------------------------------------------------------------------
(* Steps of an entry.                                                      *)

LEMMA HaStartsInv ==
    ASSUME LifeInv, Life!HaStarts PROVE LifeInv'
<1>1. /\ ha = "starting" /\ ha' = "running" /\ UNCHANGED <<bucket, setup, owner, past>>
      /\ obj' = [n \in DOMAIN obj |->
            IF obj[n].listener = "waits" THEN [Life!Started(obj[n]) EXCEPT !.listener = "left"] ELSE obj[n]]
  BY DEF Life!HaStarts, Life!Objects
<1>2. \A n \in DOMAIN obj :
          /\ obj'[n] \in ObjectType /\ SameMaker(obj[n], obj'[n])
          /\ \/ obj[n].listener # "waits" /\ obj'[n] = obj[n]
             \/ /\ obj[n].listener = "waits" /\ obj'[n].listener = "left" /\ obj'[n].running
                /\ obj'[n].task = IF obj[n].task = "none" THEN "check" ELSE obj[n].task
  <2> SUFFICES ASSUME NEW n \in DOMAIN obj
               PROVE  /\ obj'[n] \in ObjectType /\ SameMaker(obj[n], obj'[n])
                      /\ \/ obj[n].listener # "waits" /\ obj'[n] = obj[n]
                         \/ /\ obj[n].listener = "waits" /\ obj'[n].listener = "left" /\ obj'[n].running
                            /\ obj'[n].task = IF obj[n].task = "none" THEN "check" ELSE obj[n].task
    OBVIOUS
  <2>1. obj[n] \in ObjectType
    BY Objects
  <2>2. CASE obj[n].listener # "waits"
    BY <1>1, <2>1, <2>2 DEF SameMaker
  <2>3. CASE obj[n].listener = "waits"
    <3> DEFINE o == obj[n]
               s == [o EXCEPT !.running = TRUE, !.task = IF @ = "none" THEN "check" ELSE @]
               r == [s EXCEPT !.listener = "left"]
    <3>1. obj'[n] = r
      BY <1>1, <2>3 DEF Life!Started
    <3> HIDE DEF o
    <3>2. s \in ObjectType /\ SameMaker(o, s) /\ s.running /\ s.task = IF o.task = "none" THEN "check" ELSE o.task
      BY <2>1 DEF ObjectType, SameMaker, o
    <3> HIDE DEF s
    <3>3. r \in ObjectType /\ SameMaker(s, r) /\ r.running = s.running /\ r.listener = "left" /\ r.task = s.task
      BY <3>2 DEF ObjectType, SameMaker
    <3> HIDE DEF r
    <3>4. o = obj[n]
      BY DEF o
    <3> QED BY <2>3, <3>1, <3>2, <3>3, <3>4 DEF SameMaker
  <2> QED BY <2>2, <2>3
<1>3. DOMAIN obj' = DOMAIN obj
  BY <1>1
<1>4. \A n \in DOMAIN obj : Life!Uses(n)' <=> Life!Uses(n)
  BY <1>1, <1>2 DEF Life!Uses, SameMaker
<1>5. LifeType'
  <2>1. PICK k \in 0..MaxSetups : obj \in [1..k -> ObjectType]
    BY DEF LifeInv, LifeType
  <2>2. obj' \in [1..k -> ObjectType]
    BY <1>1, <1>2, <2>1
  <2> QED BY <1>1, <2>2 DEF LifeInv, LifeType
<1>6. LockWithApi' /\ HasObject' /\ PollOwns'
  BY <1>1, <1>2, <1>3 DEF LifeInv, LockWithApi, HasObject, PollOwns, SameMaker, Life!Entries, Life!NoBucket
<1>7. Connected'
  BY <1>1, <1>2, <1>3, <1>4 DEF LifeInv, Connected, SameMaker, Life!NoBucket
<1>8. Watched'
  <2> SUFFICES ASSUME NEW n \in DOMAIN obj PROVE WatchedIn(obj'[n], n, "running", past.missed)
    BY <1>1, <1>3 DEF Watched
  <2>1. WatchedIn(obj[n], n, ha, past.missed)
    BY DEF LifeInv, Watched
  <2> QED BY <1>2, <2>1 DEF WatchedIn
<1>9. Wanted'
  <2> SUFFICES ASSUME NEW n \in DOMAIN obj
               PROVE  /\ LoopsIn(obj'[n]) \/ obj'[n].listener = "waits" => Life!Uses(n) \/ n \in past.early
                      /\ setup[obj'[n].id].obj = n /\ setup[obj'[n].id].st = "refresh" =>
                             obj'[n].task = "none" /\ obj'[n].listener = "none"
    BY <1>1, <1>3, <1>4 DEF Wanted
  <2>1. /\ LoopsIn(obj[n]) \/ obj[n].listener = "waits" => Life!Uses(n) \/ n \in past.early
        /\ setup[obj[n].id].obj = n /\ setup[obj[n].id].st = "refresh" =>
               obj[n].task = "none" /\ obj[n].listener = "none"
    BY DEF LifeInv, Wanted
  <2> QED BY <1>2, <2>1 DEF SameMaker
<1> QED BY <1>5, <1>6, <1>7, <1>8, <1>9 DEF LifeInv

\* An entry stays set up, and its first poll is not awaited again.
LEMMA StaysSetUp ==
    ASSUME LifeInv, NEW d \in Life!Entries, NEW st \in {"loaded", "unload"}, setup[d].st \in HeldStates,
           setup' = [setup EXCEPT ![d].st = st], UNCHANGED <<ha, bucket, obj, owner, past>>
    PROVE  LifeInv'
<1>1. /\ setup' \in [Life!Entries -> SetupType]
      /\ \A i \in Life!Entries : setup'[i].obj = setup[i].obj
            /\ (setup[i].st \in HeldStates <=> setup'[i].st \in HeldStates)
            /\ (setup'[i].st = "refresh" => setup[i].st = "refresh")
  BY DEF LifeInv, LifeType, SetupType, HeldStates
<1>2. \A n \in DOMAIN obj : obj[n].id \in Life!Entries
  BY Objects DEF ObjectType
<1>3. \A n \in DOMAIN obj : Life!Uses(n)' <=> Life!Uses(n)
  BY <1>1, <1>2 DEF Life!Uses, HeldStates
<1>4. LifeType' /\ LockWithApi' /\ PollOwns' /\ Watched'
  BY <1>1 DEF LifeInv, LifeType, LockWithApi, PollOwns, Watched, WatchedIn, LoopsIn, Life!Entries, Life!NoBucket
<1>5. HasObject'
  BY <1>1 DEF LifeInv, HasObject, Life!Entries
<1>6. Connected'
  BY <1>3 DEF LifeInv, Connected, Life!NoBucket
<1>7. Wanted'
  BY <1>1, <1>2, <1>3 DEF LifeInv, Wanted, LoopsIn
<1> QED BY <1>4, <1>5, <1>6, <1>7 DEF LifeInv

\* An entry that is given up drops its bucket; nothing of its object runs.
LEMMA GivesUp ==
    ASSUME LifeInv, NEW d \in Life!Entries, NEW st \in {"retry", "out"}, setup[d].st \in HeldStates,
           setup' = [setup EXCEPT ![d].st = st],
           bucket' = [bucket EXCEPT ![d] = Life!NoBucket],
           UNCHANGED <<ha, obj, owner>>,
           past' \in PastType, past'.cut = (past.cut \/ Life!Cuts(d)), past'.missed = past.missed,
           past.early \subseteq past'.early,
           ~LoopsIn(obj[setup[d].obj]),
           obj[setup[d].obj].listener = "waits" => setup[d].obj \in past'.early
    PROVE  LifeInv'
<1>0. bucket \in [Life!Entries -> BucketType]
  BY DEF LifeInv, LifeType
<1>1. /\ setup' \in [Life!Entries -> SetupType]
      /\ \A i \in Life!Entries : setup'[i].obj = setup[i].obj /\ (i # d => setup'[i] = setup[i])
      /\ setup'[d].st = st /\ st \notin HeldStates
  BY DEF LifeInv, LifeType, SetupType, HeldStates
<1>2. \A n \in DOMAIN obj : obj[n].id \in Life!Entries
  BY Objects DEF ObjectType
<1>3. \A n \in DOMAIN obj : Life!Uses(n)' <=> Life!Uses(n) /\ obj[n].id # d
  BY <1>1, <1>2 DEF Life!Uses, HeldStates
<1>4. bucket'[d] = Life!NoBucket /\ \A i \in Life!Entries : i # d => bucket'[i] = bucket[i]
  BY <1>0
<1>5. Life!NoBucket \in BucketType /\ Life!NoBucket.api = 0 /\ Life!NoBucket.lock = 0
  BY EntryAssumption DEF Life!NoBucket, BucketType
<1>n. Life!NoBucket' = Life!NoBucket
  BY DEF Life!NoBucket
<1>6. LifeType'
  BY <1>0, <1>1, <1>5 DEF LifeInv, LifeType
<1>7. LockWithApi'
  <2> SUFFICES ASSUME NEW i \in Life!Entries
               PROVE  bucket'[i].api = bucket'[i].lock /\ (bucket'[i] # Life!NoBucket => bucket'[i].api # 0)
    BY <1>n DEF LifeInv, LockWithApi, Life!Entries
  <2> QED BY <1>4, <1>5 DEF LifeInv, LockWithApi
<1>8. PollOwns' /\ Watched'
  BY DEF LifeInv, PollOwns, Watched, WatchedIn, LoopsIn
<1>9. HasObject'
  BY <1>1 DEF LifeInv, HasObject, Life!Entries
<1>10. Connected'
  <2> SUFFICES ASSUME ~past'.cut, NEW n \in DOMAIN obj, Life!Uses(n), obj[n].id # d
               PROVE  bucket'[Gateway] # Life!NoBucket /\ bucket'[Gateway].api = obj[n].api
    BY <1>3, <1>n DEF Connected
  <2>1. ~past.cut /\ ~Life!Cuts(d)
    BY DEF LifeInv, LifeType, PastType
  <2>2. bucket[Gateway] # Life!NoBucket /\ bucket[Gateway].api = obj[n].api
    BY <2>1 DEF LifeInv, Connected
  <2>3. d # Gateway
    BY <2>1, <2>2 DEF Life!Cuts, Life!Objects
  <2> QED BY <1>4, <2>2, <2>3 DEF Life!Entries
<1>11. Wanted'
  <2> SUFFICES ASSUME NEW n \in DOMAIN obj
               PROVE  /\ LoopsIn(obj[n]) \/ obj[n].listener = "waits" =>
                             (Life!Uses(n) /\ obj[n].id # d) \/ n \in past'.early
                      /\ setup'[obj[n].id].obj = n /\ setup'[obj[n].id].st = "refresh" =>
                             obj[n].task = "none" /\ obj[n].listener = "none"
    BY <1>3 DEF Wanted, LoopsIn
  <2>1. LoopsIn(obj[n]) \/ obj[n].listener = "waits" => Life!Uses(n) \/ n \in past'.early
    BY DEF LifeInv, Wanted
  <2>2. Life!Uses(n) /\ obj[n].id = d => n = setup[d].obj
    BY DEF Life!Uses
  <2>3. setup'[obj[n].id].obj = n /\ setup'[obj[n].id].st = "refresh" =>
            obj[n].task = "none" /\ obj[n].listener = "none"
    BY <1>1, <1>2 DEF LifeInv, Wanted, HeldStates
  <2> QED BY <2>1, <2>2, <2>3
<1> QED BY <1>6, <1>7, <1>8, <1>9, <1>10, <1>11 DEF LifeInv

LEMMA NotReadyInv ==
    ASSUME LifeInv, NEW d \in Life!Entries, Life!NotReady(d)
    PROVE  LifeInv'
<1>1. /\ setup[d].st = "refresh" /\ setup' = [setup EXCEPT ![d].st = "retry"]
      /\ bucket' = [bucket EXCEPT ![d] = Life!NoBucket]
      /\ past' = [past EXCEPT !.cut = @ \/ Life!Cuts(d)]
      /\ UNCHANGED <<ha, obj, owner>>
  BY DEF Life!NotReady
<1>2. Life!Cuts(d) \in BOOLEAN
  BY DEF Life!Cuts
<1>3. /\ past' \in PastType /\ past'.cut = (past.cut \/ Life!Cuts(d))
      /\ past'.missed = past.missed /\ past'.early = past.early
  BY <1>1, <1>2 DEF LifeInv, LifeType, PastType
<1>4. setup[d].obj \in DOMAIN obj /\ obj[setup[d].obj].id = d
  BY <1>1 DEF LifeInv, HasObject, HeldStates
<1>5. obj[setup[d].obj].task = "none" /\ obj[setup[d].obj].listener = "none"
  BY <1>1, <1>4 DEF LifeInv, Wanted
<1>6. ~LoopsIn(obj[setup[d].obj]) /\ obj[setup[d].obj].listener # "waits" /\ setup[d].st \in HeldStates
  BY <1>1, <1>5 DEF LoopsIn, HeldStates
<1> QED BY <1>1, <1>3, <1>6, GivesUp

LEMMA DeletedInv ==
    ASSUME LifeInv, NEW d \in Life!Entries, Life!Deleted(d)
    PROVE  LifeInv'
<1> DEFINE n == setup[d].obj
           early == IF obj[n].listener = "waits" THEN past.early \cup {n} ELSE past.early
<1>1. /\ setup[d].st = "delete" /\ setup' = [setup EXCEPT ![d].st = "out"] /\ obj[n].task = "none"
      /\ bucket' = [bucket EXCEPT ![d] = Life!NoBucket]
      /\ past' = [past EXCEPT !.cut = @ \/ Life!Cuts(d), !.early = early]
      /\ UNCHANGED <<ha, obj, owner>>
  BY DEF Life!Deleted
<1>2. Life!Cuts(d) \in BOOLEAN
  BY DEF Life!Cuts
<1>3. n \in DOMAIN obj
  BY <1>1 DEF LifeInv, HasObject, HeldStates
<1>4. past \in PastType /\ early \subseteq Nat
  BY <1>3, Objects DEF LifeInv, LifeType, PastType
<1>5. ~LoopsIn(obj[n]) /\ setup[d].st \in HeldStates
  BY <1>1 DEF LoopsIn, HeldStates
<1>6. past.early \subseteq early /\ (obj[n].listener = "waits" => n \in early)
  OBVIOUS
<1> HIDE DEF early
<1>7. /\ past' \in PastType /\ past'.cut = (past.cut \/ Life!Cuts(d))
      /\ past'.missed = past.missed /\ past'.early = early
  BY <1>1, <1>2, <1>4 DEF PastType
<1> QED BY <1>1, <1>5, <1>6, <1>7, GivesUp

\* setup_device: a new object, with the connection of the gateway's bucket.
LEMMA ConstructsInv ==
    ASSUME LifeInv, NEW d \in Life!Entries, Life!Constructs(d)
    PROVE  LifeInv'
<1>1. PICK k \in 0..MaxSetups : obj \in [1..k -> ObjectType]
  BY DEF LifeInv, LifeType
<1>m. k \in Nat /\ MaxSetups \in Nat /\ k <= MaxSetups
  BY EntryAssumption
<1>2. Life!Cardinality(Life!Objects) = k
  <2>1. DOMAIN obj = 1..k
    BY <1>1
  <2>2. Cardinality(1..k) = k
    BY <1>m, FS_Interval
  <2>3. Life!Cardinality(1..k) = Cardinality(1..k)
    BY DEF Life!Cardinality, Cardinality
  <2> QED BY <2>1, <2>2, <2>3 DEF Life!Objects
<1> DEFINE n == k + 1
           s == Life!Shared(d, n)
           raw == [dev |-> 0, api |-> s.api, lock |-> s.lock]
           mine == [raw EXCEPT !.dev = n]
           new == [id |-> d, api |-> s.api, lock |-> s.lock, children |-> {},
                   running |-> FALSE, listener |-> "none", task |-> "none"]
<1>3. /\ setup[d].st \in {"out", "retry"} /\ n <= MaxSetups
      /\ obj' = [m \in DOMAIN obj \cup {n} |-> IF m # n THEN obj[m] ELSE new]
      /\ bucket' = [i \in Life!Entries |->
            IF i = d THEN mine
            ELSE IF i = Gateway /\ bucket[i] = Life!NoBucket THEN raw ELSE bucket[i]]
      /\ setup' = [setup EXCEPT ![d] = [st |-> "refresh", obj |-> n]]
      /\ UNCHANGED <<ha, owner, past>>
  BY <1>2 DEF Life!Constructs, Life!Objects
<1>4. n \in 1..MaxSetups /\ n \in Nat /\ n \notin DOMAIN obj /\ DOMAIN obj = 1..k /\ 1..n = 1..k \cup {n}
  BY <1>1, <1>m, <1>3
<1>5. bucket \in [Life!Entries -> BucketType] /\ setup \in [Life!Entries -> SetupType]
  BY DEF LifeInv, LifeType
<1>g. Gateway \in Life!Entries
  BY DEF Life!Entries
<1>6. /\ s.api \in 1..MaxSetups /\ s.lock = s.api
      /\ bucket[Gateway] # Life!NoBucket => s.api = bucket[Gateway].api
  <2>1. CASE bucket[Gateway] = Life!NoBucket
    BY <1>4, <2>1 DEF Life!Shared
  <2>2. CASE bucket[Gateway] # Life!NoBucket
    <3>1. s.api = bucket[Gateway].api /\ s.lock = bucket[Gateway].lock
      BY <2>2 DEF Life!Shared
    <3>2. bucket[Gateway].api = bucket[Gateway].lock /\ bucket[Gateway].api # 0
      BY <1>g, <2>2 DEF LifeInv, LockWithApi
    <3> QED BY <1>5, <1>g, <1>m, <3>1, <3>2 DEF BucketType
  <2> QED BY <2>1, <2>2
<1> HIDE DEF n, s
<1>7. /\ raw \in BucketType /\ raw.api = s.api /\ raw.lock = s.api /\ raw # Life!NoBucket
      /\ mine \in BucketType /\ mine.api = s.api /\ mine.lock = s.api /\ mine # Life!NoBucket
  <2>1. raw.dev = 0 /\ mine.dev = n /\ Life!NoBucket.dev = -1
    BY DEF Life!NoBucket
  <2> QED BY <1>4, <1>6, <1>m, <2>1 DEF BucketType
<1>8. /\ new \in ObjectType /\ new.id = d /\ new.api = s.api /\ new.lock = s.api /\ new.children = {}
      /\ new.running = FALSE /\ new.listener = "none" /\ new.task = "none"
  BY <1>6 DEF ObjectType
<1> HIDE DEF raw, mine, new
<1>9. DOMAIN obj' = DOMAIN obj \cup {n} /\ obj'[n] = new /\ \A m \in DOMAIN obj : obj'[m] = obj[m]
  BY <1>3, <1>4
<1>10. /\ setup'[d].st = "refresh" /\ setup'[d].obj = n
       /\ \A i \in Life!Entries : i # d => setup'[i] = setup[i]
       /\ setup' \in [Life!Entries -> SetupType]
  BY <1>3, <1>4, <1>5 DEF SetupType, HeldStates
<1>11. \A m \in DOMAIN obj : obj[m].id \in Life!Entries /\ m \in Nat /\ m # n
  BY <1>4, Objects DEF ObjectType
<1>12. \A m \in DOMAIN obj : (Life!Uses(m)' <=> Life!Uses(m)) /\ (Life!Uses(m) => obj[m].id # d)
  BY <1>3, <1>9, <1>10, <1>11 DEF Life!Uses, HeldStates
<1>13. /\ bucket'[d] = mine
       /\ \A i \in Life!Entries : i # d => bucket'[i] = bucket[i] \/ (i = Gateway /\ bucket'[i] = raw)
       /\ bucket[Gateway] # Life!NoBucket /\ d # Gateway => bucket'[Gateway] = bucket[Gateway]
       /\ bucket'[Gateway] # Life!NoBucket /\ bucket'[Gateway].api = s.api
  <2>1. CASE d = Gateway
    BY <1>3, <1>7, <1>g, <2>1
  <2>2. CASE d # Gateway
    BY <1>3, <1>6, <1>7, <1>g, <2>2
  <2> QED BY <2>1, <2>2
<1>n. Life!NoBucket' = Life!NoBucket
  BY DEF Life!NoBucket
<1>14. LifeType'
  <2>1. obj' \in [1..n -> ObjectType]
    BY <1>1, <1>4, <1>8, <1>9, <1>3
  <2>2. n \in 0..MaxSetups
    BY <1>4
  <2>3. bucket' \in [Life!Entries -> BucketType]
    BY <1>3, <1>5, <1>7
  <2> QED BY <1>3, <1>10, <2>1, <2>2, <2>3 DEF LifeInv, LifeType
<1>15. LockWithApi'
  <2>1. \A m \in DOMAIN obj' : obj'[m].api = obj'[m].lock
    BY <1>8, <1>9 DEF LifeInv, LockWithApi
  <2>2. ASSUME NEW i \in Life!Entries
        PROVE  bucket'[i].api = bucket'[i].lock /\ (bucket'[i] # Life!NoBucket => bucket'[i].api # 0)
    <3>1. s.api # 0
      BY <1>6
    <3> QED BY <3>1, <1>7, <1>13 DEF LifeInv, LockWithApi
  <2> QED BY <2>1, <2>2, <1>n DEF LockWithApi, Life!Entries
<1>16. PollOwns'
  BY <1>3, <1>8, <1>9 DEF LifeInv, PollOwns
<1>17. HasObject'
  BY <1>8, <1>9, <1>10 DEF LifeInv, HasObject, Life!Entries
<1>18. Connected'
  <2> SUFFICES ASSUME ~past.cut, NEW m \in DOMAIN obj', Life!Uses(m)'
               PROVE  bucket'[Gateway] # Life!NoBucket /\ bucket'[Gateway].api = obj'[m].api
    BY <1>3, <1>n DEF Connected
  <2>1. CASE m = n
    BY <1>8, <1>9, <1>13, <2>1
  <2>2. CASE m \in DOMAIN obj
    <3>1. bucket[Gateway] # Life!NoBucket /\ bucket[Gateway].api = obj[m].api
      BY <1>12, <2>2 DEF LifeInv, Connected
    <3> QED BY <1>6, <1>9, <1>13, <2>2, <3>1
  <2> QED BY <1>9, <2>1, <2>2
<1>19. Watched'
  <2> SUFFICES ASSUME NEW m \in DOMAIN obj' PROVE WatchedIn(obj'[m], m, ha, past.missed)
    BY <1>3 DEF Watched
  <2>1. CASE m = n
    BY <1>8, <1>9, <2>1 DEF WatchedIn
  <2>2. CASE m \in DOMAIN obj
    BY <1>9, <2>2 DEF LifeInv, Watched
  <2> QED BY <1>9, <2>1, <2>2
<1>20. Wanted'
  <2> SUFFICES ASSUME NEW m \in DOMAIN obj'
               PROVE  /\ LoopsIn(obj'[m]) \/ obj'[m].listener = "waits" => Life!Uses(m)' \/ m \in past.early
                      /\ setup'[obj'[m].id].obj = m /\ setup'[obj'[m].id].st = "refresh" =>
                             obj'[m].task = "none" /\ obj'[m].listener = "none"
    BY <1>3 DEF Wanted, LoopsIn
  <2>1. CASE m = n
    BY <1>8, <1>9, <2>1 DEF LoopsIn
  <2>2. CASE m \in DOMAIN obj
    BY <1>9, <1>10, <1>11, <1>12, <2>2 DEF LifeInv, Wanted
  <2> QED BY <1>9, <2>1, <2>2
<1> QED BY <1>14, <1>15, <1>16, <1>17, <1>18, <1>19, <1>20 DEF LifeInv

LEMMA LifeNext == LifeInv /\ [Life!Next]_lifevars => LifeInv'
<1> SUFFICES ASSUME LifeInv, [Life!Next]_lifevars PROVE LifeInv'
  OBVIOUS
<1>1. CASE Life!HaStarts
  BY <1>1, HaStartsInv
<1>2. ASSUME NEW d \in Life!Entries,
             \/ Life!Constructs(d) \/ Life!NotReady(d) \/ Life!Deletes(d) \/ Life!Deleted(d)
      PROVE  LifeInv'
  BY <1>2, ConstructsInv, NotReadyInv, DeletesInv, DeletedInv
<1>3. ASSUME NEW d \in Life!Entries, Life!Ready(d) \/ Life!Unloads(d) PROVE LifeInv'
  <2>1. PICK st \in {"loaded", "unload"} : setup' = [setup EXCEPT ![d].st = st]
    BY <1>3 DEF Life!Ready, Life!Unloads
  <2>2. setup[d].st \in HeldStates /\ UNCHANGED <<ha, bucket, obj, owner, past>>
    BY <1>3 DEF Life!Ready, Life!Unloads, HeldStates
  <2> QED BY <2>1, <2>2, StaysSetUp
<1>4. ASSUME NEW d \in Life!Entries, NEW e \in Ents,
             Life!Adds(d, e) \/ Life!Renames(d, e) \/ Life!UnloadsPlatform(d, e)
      PROVE  LifeInv'
  <2>1. CASE Life!Renames(d, e)
    BY <2>1, LeavesInv DEF Life!Renames
  <2>2. CASE Life!UnloadsPlatform(d, e)
    BY <2>2, LeavesInv DEF Life!UnloadsPlatform
  <2> QED BY <1>4, <2>1, <2>2, AddsInv
<1>5. ASSUME NEW n \in DOMAIN obj,
             Life!Joins(n) \/ Life!Checks(n) \/ Life!Acquires(n) \/ Life!Releases(n)
      PROVE  LifeInv'
  BY <1>5, LoopInv
<1>6. CASE UNCHANGED lifevars
  BY <1>6 DEF lifevars, LifeInv, LifeType, LockWithApi, PollOwns, HasObject, Connected, Watched,
              WatchedIn, Wanted, LoopsIn, Life!Uses, Life!NoBucket, Life!Entries
<1> QED BY <1>1, <1>2, <1>3, <1>4, <1>5, <1>6 DEF Life!Next, Life!Objects

\* The invariant above holds of every behaviour.
THEOREM LifeInvariant == EntrySpec => []LifeInv
<1>1. EntryInit => LifeInv
  BY LifeInit DEF EntryInit
<1>2. LifeInv /\ [EntryNext]_<<part, vars, lifevars>> => LifeInv'
  BY LifeNext DEF EntryNext
<1> QED BY <1>1, <1>2, PTL DEF EntrySpec

\* However many children there are, in whichever order they and the gateway are
\* set up, fail, are unloaded and set up again: whoever is set up uses the one
\* connection, until the gateway leaves somebody on it; and devices on one
\* connection never poll at once.
THEOREM OneConnectionEach == EntrySpec => []OneConnection
BY LifeInvariant, LifeShows, PTL

\* A device with entities has its monitor, and none goes on after an unload, but
\* for the three cases that the property names.
THEOREM MonitoredWhileUsed == EntrySpec => []Monitored
BY LifeInvariant, LifeShows, PTL
================================================================================
