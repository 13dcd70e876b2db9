-------------------------- MODULE OracleExportProofs --------------------------
(* For any schema, any collisions of names and any number of exports: what   *)
(* an export has written stays, nothing it listed is lost sight of, and an   *)
(* object keeps the name of its file from one export to the next.            *)
EXTENDS OracleExport, FiniteSetTheorems, WellFoundedInduction, TLAPS

-----------------------------------------------------------------------------
(* A file name is always found. *)

LEMMA SmallestOf == ASSUME NEW S \in SUBSET Nat, S # {} PROVE \E n \in S : \A m \in S : n <= m
<1> DEFINE Less == OpToRel(<, Nat)
<1>1. Less = {ss \in Nat \X Nat : ss[1] < ss[2]}
  BY Zenon DEF OpToRel
<1>2. IsWellFoundedOn(Less, Nat)
  BY NatLessThanWellFounded, Zenon
<1> HIDE DEF Less
<1>3. PICK n \in S : \A m \in S : ~ (<<m, n>> \in Less)
  BY <1>2, WFMin, Zenon
<1>4. \A m, k \in Nat : m < k => <<m, k>> \in Less
  BY <1>1
<1>5. \A m \in S : ~ (m < n)
  BY <1>3, <1>4
<1> QED BY <1>5

\* A stem makes another name with each number.
LEMMA NumberedApart ==
    ASSUME OracleExportAssumption, NEW stem \in Stems, NEW m \in Objects, NEW n \in Objects,
           Numbered(stem, m) = Numbered(stem, n)
    PROVE  m = n
<1>1. stem \in Seq(Parts \union Nat)
  BY DEF OracleExportAssumption, Stems
<1>2. \A k \in Objects : k \in Parts \union Nat
  BY DEF Objects
<1>3. \A k \in Objects : /\ Len(Append(stem, k)) = Len(stem) + 1
                         /\ Append(stem, k)[Len(stem) + 1] = k
  BY <1>1, <1>2
<1>4. Len(stem) # Len(stem) + 1
  BY <1>1
<1>5. CASE m = 1 /\ n # 1
  BY <1>3, <1>4, <1>5 DEF Numbered
<1>6. CASE m # 1 /\ n = 1
  BY <1>3, <1>4, <1>6 DEF Numbered
<1>7. CASE m # 1 /\ n # 1
  BY <1>3, <1>7 DEF Numbered
<1> QED BY <1>5, <1>6, <1>7

\* While fewer paths are taken than there are objects, _unique_output_path
\* comes to the first one of the stem that is not.
LEMMA FreshPath ==
    ASSUME OracleExportAssumption, NEW stem \in Stems,
           IsFiniteSet(taken), Cardinality(taken) < Count
    PROVE  \E n \in Objects :
              /\ UniqueOutputPath(stem) = Numbered(stem, n)
              /\ Numbered(stem, n) \in Paths \ taken
              /\ \A m \in 1 .. n - 1 : Numbered(stem, m) \in taken
<1> DEFINE Free == {n \in Objects : Numbered(stem, n) \notin taken}
<1> DEFINE at == [n \in Objects |-> Numbered(stem, n)]
<1>1. Count \in Nat /\ IsFiniteSet(Objects) /\ Cardinality(Objects) = Count
  BY FS_Interval DEF OracleExportAssumption, Objects
<1>2. Free # {}
  <2>1. SUFFICES ASSUME Free = {} PROVE FALSE
    OBVIOUS
  <2>2. at \in [Objects -> taken]
    BY <2>1
  <2>3. \E x, y \in Objects : x # y /\ at[x] = at[y]
    <3> HIDE DEF at
    <3> QED BY <1>1, <2>2, FS_PigeonHole
  <2> QED BY <2>3, NumberedApart
<1>3. Free \in SUBSET Nat
  BY DEF Objects
<1>4. PICK n \in Free : \A m \in Free : n <= m
  <2> HIDE DEF Free
  <2> QED BY <1>2, <1>3, SmallestOf
<1>5. n \in Objects /\ Candidate(stem, n) /\ \A m \in 1 .. n - 1 : ~ Candidate(stem, m)
  <2>1. n \in Objects /\ Numbered(stem, n) \notin taken
    OBVIOUS
  <2>2. \A m \in 1 .. n - 1 : m \in Objects /\ ~ (n <= m)
    BY <1>1, <2>1 DEF Objects
  <2>3. \A m \in 1 .. n - 1 : Numbered(stem, m) \in taken
    BY <1>4, <2>2
  <2> QED BY <2>1, <2>3 DEF Candidate
<1> DEFINE chosen == CHOOSE k \in Objects :
                         Candidate(stem, k) /\ \A m \in 1 .. k - 1 : ~ Candidate(stem, m)
<1>6. chosen \in Objects /\ Candidate(stem, chosen) /\ \A m \in 1 .. chosen - 1 : ~ Candidate(stem, m)
  <2> HIDE DEF Free
  <2> QED BY <1>5, Zenon
<1>7. UniqueOutputPath(stem) = Numbered(stem, chosen)
  BY Zenon DEF UniqueOutputPath
<1> HIDE DEF chosen
<1>8. Numbered(stem, chosen) \in Paths \ taken /\ \A m \in 1 .. chosen - 1 : Numbered(stem, m) \in taken
  BY <1>6 DEF Candidate, Paths
<1> QED BY <1>6, <1>7, <1>8

-----------------------------------------------------------------------------
(* The invariant. *)

\* Whose turn it is, and what the step holds.
Turn ==
    /\ pc \in {"idle", "list"} => pending = {}
    /\ pc \notin {"open", "write"} => now = {}
    /\ pc \in {"open", "write"} => \E e \in Exports : now = {e}
    /\ pending \subseteq listed
    /\ \A o \in listed : TypeOf[o] <= type

\* Each name an export listed is waiting, or in hand or written, or has an
\* error or no DDL.
Counted ==
    pc # "idle" \/ ended = "done" =>
        /\ listed \ pending = ObjectsOf(written \union now) \union errors \union gone
        /\ ObjectsOf(written \union now) \intersect errors = {}
        /\ (ObjectsOf(written \union now) \union errors) \intersect gone = {}

\* The paths in use are taken, one for a name at most.
PathsTaken ==
    /\ \A e \in written \union now : e.path \in taken
    /\ \A e \in now, w \in written : e.path # w.path
    /\ IsFiniteSet(taken)
    /\ pc # "idle" => Cardinality(taken) <= Cardinality(listed \ pending)

Safety == Turn /\ Counted /\ PathsTaken /\ OneFileEach

LEMMA InitSafe == OracleExportAssumption /\ Init => TypeOK /\ Safety
<1> SUFFICES ASSUME OracleExportAssumption, Init PROVE TypeOK /\ Safety
  OBVIOUS
<1>1. schema \in [Objects -> 0 .. MaxChanges + 1]
  BY DEF Init, OracleExportAssumption
<1>2. TypeOK
  BY <1>1 DEF OracleExportAssumption, Init, TypeOK
<1>3. Turn /\ Counted /\ OneFileEach
  BY DEF Init, Turn, Counted, OneFileEach
<1>4. IsFiniteSet({})
  BY FS_EmptySet
<1>5. PathsTaken
  BY <1>4 DEF Init, PathsTaken
<1> QED BY <1>2, <1>3, <1>5 DEF Safety

\* The directory with a file replaced.
LEMMA ReplacedType ==
    ASSUME TypeOK, NEW e \in now, NEW whole \in BOOLEAN
    PROVE  Replaced(e, whole) \subseteq [path : Paths, what : Exports, whole : BOOLEAN]
<1>1. e \in Exports /\ e.path \in Paths
  BY DEF TypeOK, Exports
<1>2. [path |-> e.path, what |-> e, whole |-> whole] \in [path : Paths, what : Exports, whole : BOOLEAN]
  BY <1>1
<1> QED BY <1>2 DEF TypeOK, Replaced

\* What is in hand once GET_DDL has answered: a path that was free.
LEMMA InHand ==
    ASSUME OracleExportAssumption, TypeOK, Safety, GetDDL
    PROVE  \E o \in pending, e \in Exports :
                /\ e.of = o /\ e.path \in Paths \ taken
                /\ \E n \in Objects :
                        /\ e.path = Numbered(FileStem[o], n)
                        /\ \A m \in 1 .. n - 1 : Numbered(FileStem[o], m) \in taken
                /\ \A p \in pending : o <= p
                /\ now' = {e}
                /\ taken' = taken \union {e.path}
                /\ pending' = pending \ {o}
<1>1. PICK o \in Objects :
        /\ o \in pending /\ \A p \in pending : o <= p
        /\ pending' = pending \ {o}
        /\ now' = {[of |-> o, path |-> UniqueOutputPath(FileStem[o]),
                    ddl |-> [of |-> UpperCase[o], version |-> schema[UpperCase[o]]]]}
        /\ taken' = taken \union {UniqueOutputPath(FileStem[o])}
  BY DEF GetDDL, First
<1>2. IsFiniteSet(Objects) /\ Cardinality(Objects) = Count /\ Count \in Nat
  BY FS_Interval DEF OracleExportAssumption, Objects
<1>3. IsFiniteSet(Objects \ {o}) /\ Cardinality(Objects \ {o}) = Count - 1
  BY <1>2, FS_RemoveElement
<1>4. listed \ pending \in SUBSET (Objects \ {o})
  BY <1>1 DEF TypeOK
<1>5. Cardinality(listed \ pending) <= Count - 1 /\ Cardinality(listed \ pending) \in Nat
  BY <1>3, <1>4, FS_Subset, FS_CardinalityType
<1>6. IsFiniteSet(taken) /\ Cardinality(taken) \in Nat /\ Cardinality(taken) <= Cardinality(listed \ pending)
  BY FS_CardinalityType DEF Safety, PathsTaken, GetDDL
<1>7. FileStem[o] \in Stems /\ UpperCase[o] \in Objects
  BY DEF OracleExportAssumption, Stems
<1>8. Cardinality(taken) < Count
  BY <1>2, <1>5, <1>6
<1>9. /\ UniqueOutputPath(FileStem[o]) \in Paths \ taken
      /\ \E n \in Objects :
            /\ UniqueOutputPath(FileStem[o]) = Numbered(FileStem[o], n)
            /\ \A m \in 1 .. n - 1 : Numbered(FileStem[o], m) \in taken
  BY <1>6, <1>7, <1>8, FreshPath
<1>10. schema[UpperCase[o]] \in 0 .. MaxChanges + 1
  BY <1>7 DEF TypeOK
<1> DEFINE e == [of |-> o, path |-> UniqueOutputPath(FileStem[o]),
                 ddl |-> [of |-> UpperCase[o], version |-> schema[UpperCase[o]]]]
<1>11. e \in Exports /\ e.of = o /\ e.path = UniqueOutputPath(FileStem[o])
  BY <1>7, <1>9, <1>10 DEF Exports, DDLs
<1>12. now' = {e} /\ taken' = taken \union {e.path}
  BY <1>1
<1> HIDE DEF e
<1>13. e.path \in Paths \ taken
  BY <1>9, <1>11
<1>14. \E n \in Objects :
          /\ e.path = Numbered(FileStem[o], n)
          /\ \A m \in 1 .. n - 1 : Numbered(FileStem[o], m) \in taken
  BY <1>9, <1>11
<1> QED BY <1>1, <1>11, <1>12, <1>13, <1>14

LEMMA TypeStep == OracleExportAssumption /\ TypeOK /\ Safety /\ [Next]_vars => TypeOK'
<1> SUFFICES ASSUME OracleExportAssumption, TypeOK, Safety, [Next]_vars PROVE TypeOK'
  OBVIOUS
<1> USE DEF TypeOK, OracleExportAssumption
<1>1. CASE CreateObject
  BY <1>1 DEF CreateObject, Change, work
<1>2. CASE DropObject
  BY <1>2 DEF DropObject, Change, work
<1>3. CASE Begin
  BY <1>3 DEF Begin
<1>4. CASE List
  BY <1>4 DEF List, ListNext
<1>5. CASE GetDDL
  BY <1>5, InHand DEF GetDDL
<1>6. CASE GetFails
  BY <1>6 DEF GetFails
<1>7. CASE GetNothing
  BY <1>7 DEF GetNothing
<1>8. CASE NextType
  BY <1>8 DEF NextType
<1>9. CASE Open
  BY <1>9, ReplacedType DEF Open
<1>10. CASE Write
  BY <1>10, ReplacedType DEF Write
<1>11. CASE Finish \/ Fail \/ Kill
  BY <1>11 DEF Finish, Fail, Kill, Stop
<1>12. CASE Rest \/ UNCHANGED vars
  BY <1>12 DEF Rest, vars
<1> QED BY <1>1, <1>2, <1>3, <1>4, <1>5, <1>6, <1>7, <1>8, <1>9, <1>10, <1>11, <1>12 DEF Next

LEMMA SafeStep == OracleExportAssumption /\ TypeOK /\ Safety /\ [Next]_vars => Safety'
<1> SUFFICES ASSUME OracleExportAssumption, TypeOK, Safety, [Next]_vars PROVE Safety'
  OBVIOUS
<1> USE DEF Safety
<1>1. CASE CreateObject \/ DropObject \/ Rest \/ UNCHANGED vars
  BY <1>1 DEF CreateObject, DropObject, Change, work, Rest, vars, Turn, Counted, PathsTaken,
              OneFileEach, ObjectsOf
<1>2. CASE Begin
  <2>1. Turn' /\ Counted' /\ OneFileEach'
    BY <1>2 DEF Begin, Turn, Counted, OneFileEach, ObjectsOf, TypeOK
  <2>2. IsFiniteSet({}) /\ Cardinality({}) = 0
    BY FS_EmptySet
  <2>3. PathsTaken'
    BY <1>2, <2>2 DEF Begin, PathsTaken, Turn
  <2> QED BY <2>1, <2>3
<1>3. CASE List
  <2>1. listed' \ pending' = listed \ pending
    BY <1>3 DEF List, ListNext, Turn, TypeOK
  <2>2. Turn'
    BY <1>3 DEF List, ListNext, Turn, TypeOK, OracleExportAssumption
  <2> QED BY <1>3, <2>1, <2>2 DEF List, ListNext, Counted, PathsTaken, OneFileEach, ObjectsOf
<1>4. CASE GetDDL
  <2>1. PICK o \in pending, e \in Exports :
          /\ e.of = o /\ e.path \in Paths \ taken
          /\ now' = {e}
          /\ taken' = taken \union {e.path}
          /\ pending' = pending \ {o}
    BY <1>4, InHand
  <2>2. UNCHANGED <<schema, changes, files, type, written, errors, gone, exports, ended, listed, before>>
        /\ pc = "get" /\ pc' = "open" /\ now = {}
    BY <1>4 DEF GetDDL, Turn
  <2>3. Turn'
    BY <2>1, <2>2 DEF Turn
  <2>4. listed \ pending' = (listed \ pending) \union {o} /\ o \notin listed \ pending
    BY <2>1 DEF Turn
  <2>5. ObjectsOf((written \union now)') = ObjectsOf(written \union now) \union {o}
    BY <2>1, <2>2 DEF ObjectsOf
  <2>6. Counted'
    <3>1. /\ listed \ pending = ObjectsOf(written \union now) \union errors \union gone
          /\ ObjectsOf(written \union now) \intersect errors = {}
          /\ (ObjectsOf(written \union now) \union errors) \intersect gone = {}
      BY <2>2 DEF Counted
    <3>2. o \notin errors /\ o \notin gone
      BY <2>4, <3>1
    <3>3. errors' = errors /\ gone' = gone /\ listed' = listed
      BY <2>2
    <3>4. listed' \ pending' = ObjectsOf((written \union now)') \union errors' \union gone'
      BY <2>4, <2>5, <3>1, <3>3
    <3>5. /\ ObjectsOf((written \union now)') \intersect errors' = {}
          /\ (ObjectsOf((written \union now)') \union errors') \intersect gone' = {}
      BY <2>5, <3>1, <3>2, <3>3
    <3> QED BY <3>4, <3>5 DEF Counted, ObjectsOf
  <2>7. IsFiniteSet(listed \ pending) /\ IsFiniteSet(listed)
    <3>1. IsFiniteSet(Objects)
      BY FS_Interval DEF OracleExportAssumption, Objects
    <3> QED BY <3>1, FS_Subset DEF TypeOK
  <2>8. Cardinality(listed \ pending') = Cardinality(listed \ pending) + 1
    BY <2>4, <2>7, FS_AddElement
  <2>9. IsFiniteSet(taken') /\ Cardinality(taken') = Cardinality(taken) + 1
    BY <2>1, FS_AddElement DEF PathsTaken
  <2>10. Cardinality(taken) \in Nat /\ Cardinality(listed \ pending) \in Nat
    BY <2>7, FS_CardinalityType DEF PathsTaken
  <2>11. PathsTaken'
    BY <2>1, <2>2, <2>8, <2>9, <2>10 DEF PathsTaken
  <2> QED BY <2>2, <2>3, <2>6, <2>11 DEF OneFileEach
<1>5. CASE GetFails \/ GetNothing
  <2>1. PICK o \in pending :
          /\ pending' = pending \ {o}
          /\ errors' \union gone' = errors \union gone \union {o}
          /\ \/ errors' = errors \union {o} /\ gone' = gone
             \/ errors' = errors /\ gone' = gone \union {o}
    BY <1>5 DEF GetFails, GetNothing, First
  <2>2. UNCHANGED <<files, pc, type, now, taken, written, ended, listed>> /\ pc = "get"
    BY <1>5 DEF GetFails, GetNothing
  <2>3. listed \ pending' = (listed \ pending) \union {o} /\ o \notin listed \ pending
    BY <2>1 DEF Turn
  <2>4. Turn' /\ Counted' /\ OneFileEach'
    BY <2>1, <2>2, <2>3 DEF Turn, Counted, OneFileEach, ObjectsOf
  <2>5. IsFiniteSet(listed \ pending)
    <3>1. IsFiniteSet(Objects)
      BY FS_Interval DEF OracleExportAssumption, Objects
    <3> QED BY <3>1, FS_Subset DEF TypeOK
  <2>6. Cardinality(listed \ pending') = Cardinality(listed \ pending) + 1
    BY <2>3, <2>5, FS_AddElement
  <2>7. Cardinality(taken) \in Nat /\ Cardinality(listed \ pending) \in Nat
    BY <2>5, FS_CardinalityType DEF PathsTaken
  <2>8. PathsTaken'
    BY <2>2, <2>6, <2>7 DEF PathsTaken
  <2> QED BY <2>4, <2>8
<1>6. CASE NextType
  BY <1>6 DEF NextType, Turn, Counted, PathsTaken, OneFileEach, ObjectsOf
<1>7. CASE Open
  <2>1. PICK e \in now : now = {e} /\ files' = Replaced(e, FALSE) /\ e \in Exports
    BY <1>7 DEF Open, Turn
  <2>2. OneFileEach'
    BY <1>7, <2>1 DEF Open, Replaced, OneFileEach, PathsTaken
  <2> QED BY <1>7, <2>2 DEF Open, Turn, Counted, PathsTaken, ObjectsOf
<1>8. CASE Write
  <2>1. PICK e \in now : now = {e} /\ files' = Replaced(e, TRUE) /\ e \in Exports
    BY <1>8 DEF Write, Turn
  <2>2. written' = written \union {e} /\ now' = {} /\ (written \union now)' = written \union now
    BY <1>8, <2>1 DEF Write
  <2>3. OneFileEach'
    BY <2>1, <2>2 DEF Replaced, OneFileEach, PathsTaken
  <2>4. Turn'
    BY <1>8 DEF Write, Turn
  <2>5. Counted'
    BY <1>8, <2>2 DEF Write, Counted
  <2>6. PathsTaken'
    BY <1>8, <2>2 DEF Write, PathsTaken
  <2> QED BY <2>3, <2>4, <2>5, <2>6
<1>9. CASE Finish
  BY <1>9 DEF Finish, Stop, Turn, Counted, PathsTaken, OneFileEach, ObjectsOf
<1>10. CASE Fail \/ Kill
  BY <1>10 DEF Fail, Kill, Stop, Turn, Counted, PathsTaken, OneFileEach, ObjectsOf
<1> QED BY <1>1, <1>2, <1>3, <1>4, <1>5, <1>6, <1>7, <1>8, <1>9, <1>10 DEF Next

LEMMA AlwaysSafe == Spec => [](TypeOK /\ Safety)
<1>1. Init => TypeOK /\ Safety
  BY InitSafe, OracleExportAssumption
<1>2. TypeOK /\ Safety /\ [Next]_vars => (TypeOK /\ Safety)'
  BY TypeStep, SafeStep, OracleExportAssumption
<1> QED BY <1>1, <1>2, PTL DEF Spec

-----------------------------------------------------------------------------
(* The names of the files. *)

\* Objects are exported type by type, and in the order of the listing.
Earlier(a, b) == TypeOf[a] < TypeOf[b] \/ (TypeOf[a] = TypeOf[b] /\ a < b)

\* e has the first path of its stem that no earlier one of es has, of whatever stem.
Placed(e, es) ==
    /\ \A d \in es : Earlier(d.of, e.of) => d.path # e.path
    /\ \E n \in Objects :
            /\ e.path = Numbered(FileStem[e.of], n)
            /\ \A k \in 1 .. n - 1 :
                    \E d \in es : Earlier(d.of, e.of) /\ d.path = Numbered(FileStem[e.of], k)

\* What is written and in hand is placed, and comes before what is pending; so
\* is what the last complete export wrote.
InOrder ==
    /\ pc # "idle" =>
        /\ taken = {e.path : e \in written \union now}
        /\ \A e \in written \union now : Placed(e, written \union now)
        /\ \A e \in written \union now : TypeOf[e.of] <= type
        /\ \A p \in pending : TypeOf[p] = type
        /\ \A e \in written \union now, p \in pending : Earlier(e.of, p)
    /\ \A e \in before : Placed(e, before)

\* In a set of objects with a property there is an earliest one.
LEMMA EarliestOf ==
    ASSUME OracleExportAssumption, NEW S \in SUBSET Objects, S # {}
    PROVE  \E o \in S : \A p \in Objects : Earlier(p, o) => p \notin S
<1>1. \A o \in Objects : TypeOf[o] \in Nat /\ o \in Nat
  BY DEF OracleExportAssumption, Objects
<1> DEFINE T == {TypeOf[o] : o \in S}
<1>2. PICK t \in T : \A u \in T : t <= u
  <2>1. T \in SUBSET Nat /\ T # {}
    BY <1>1
  <2> HIDE DEF T
  <2> QED BY <2>1, SmallestOf
<1> DEFINE O == {o \in S : TypeOf[o] = t}
<1>3. PICK o \in O : \A p \in O : o <= p
  <2>1. O \in SUBSET Nat /\ O # {}
    BY <1>1
  <2> HIDE DEF O
  <2> QED BY <2>1, SmallestOf
<1>4. ASSUME NEW p \in S, Earlier(p, o) PROVE FALSE
  <2>1. t <= TypeOf[p] /\ TypeOf[o] = t /\ t \in Nat /\ TypeOf[p] \in Nat /\ o \in Nat /\ p \in Nat
    BY <1>1, <1>2
  <2>2. TypeOf[p] = t /\ p < o
    BY <1>4, <2>1 DEF Earlier
  <2>3. o <= p
    BY <1>3, <2>2
  <2> QED BY <2>1, <2>2, <2>3
<1> QED BY <1>4

\* Placed, of the export of an object.
LEMMA PlacedPath ==
    ASSUME NEW X, NEW x, NEW o, x.of = o, Placed(x, X)
    PROVE  /\ \A d \in X : Earlier(d.of, o) => d.path # x.path
           /\ \E n \in Objects :
                 /\ x.path = Numbered(FileStem[o], n)
                 /\ \A k \in 1 .. n - 1 :
                       \E d \in X : Earlier(d.of, o) /\ d.path = Numbered(FileStem[o], k)
<1>1. \A d \in X : Earlier(d.of, o) => d.path # x.path
  BY DEF Placed
<1>2. PICK n \in Objects :
        /\ x.path = Numbered(FileStem[x.of], n)
        /\ \A k \in 1 .. n - 1 :
              \E d \in X : Earlier(d.of, x.of) /\ d.path = Numbered(FileStem[x.of], k)
  BY Zenon DEF Placed
<1> QED BY <1>1, <1>2

\* The objects decide the names: of two placed sets of exports, what one has
\* taken before an object the other has taken too, so the object comes to the
\* same path in both.
LEMMA PlacedAlike ==
    ASSUME OracleExportAssumption, NEW E \in SUBSET Exports, NEW F \in SUBSET Exports,
           ObjectsOf(E) = ObjectsOf(F),
           \A e \in E : Placed(e, E), \A f \in F : Placed(f, F)
    PROVE  Names(E) = Names(F)
<1> DEFINE Moved == {o \in Objects : \E e \in E, f \in F : e.of = o /\ f.of = o /\ e.path # f.path}
<1>1. ASSUME Moved # {} PROVE FALSE
  <2>1. PICK o \in Moved : \A p \in Objects : Earlier(p, o) => p \notin Moved
    <3>1. Moved \in SUBSET Objects
      OBVIOUS
    <3> HIDE DEF Moved
    <3> QED BY <1>1, <3>1, EarliestOf
  <2>2. PICK e \in E, f \in F : e.of = o /\ f.of = o /\ e.path # f.path
    BY <2>1
  <2>3. ASSUME NEW d \in E, Earlier(d.of, o) PROVE \E g \in F : Earlier(g.of, o) /\ g.path = d.path
    <3>1. PICK g \in F : g.of = d.of
      BY DEF ObjectsOf
    <3> QED BY <2>1, <2>3, <3>1 DEF Exports
  <2>4. ASSUME NEW g \in F, Earlier(g.of, o) PROVE \E d \in E : Earlier(d.of, o) /\ d.path = g.path
    <3>1. PICK d \in E : d.of = g.of
      BY DEF ObjectsOf
    <3> QED BY <2>1, <2>4, <3>1 DEF Exports
  <2>5. Placed(e, E) /\ Placed(f, F) /\ e.of = o /\ f.of = o
    BY <2>2
  <2> HIDE DEF Moved
  <2>6. PICK n \in Objects :
          /\ e.path = Numbered(FileStem[o], n)
          /\ \A k \in 1 .. n - 1 :
                \E d \in E : Earlier(d.of, o) /\ d.path = Numbered(FileStem[o], k)
    BY <2>5, PlacedPath, SMTT(60)
  <2>7. PICK m \in Objects :
          /\ f.path = Numbered(FileStem[o], m)
          /\ \A k \in 1 .. m - 1 :
                \E g \in F : Earlier(g.of, o) /\ g.path = Numbered(FileStem[o], k)
    BY <2>5, PlacedPath
  <2>8. /\ \A d \in E : Earlier(d.of, o) => d.path # e.path
        /\ \A g \in F : Earlier(g.of, o) => g.path # f.path
    BY <2>5, PlacedPath
  <2>9. n \in Nat \ {0} /\ m \in Nat \ {0} /\ n # m
    <3>1. n # m
      BY <2>2, <2>6, <2>7
    <3>2. \A k \in Objects : k \in Nat \ {0}
      BY DEF Objects, OracleExportAssumption
    <3> QED BY <3>1, <3>2
  <2>10. CASE n < m
    <3>1. n \in 1 .. m - 1
      BY <2>10, <2>9
    <3>2. \E g \in F : Earlier(g.of, o) /\ g.path = e.path
      BY <2>6, <2>7, <3>1
    <3> QED BY <2>4, <2>8, <3>2
  <2>11. CASE m < n
    <3>1. m \in 1 .. n - 1
      BY <2>11, <2>9
    <3>2. \E d \in E : Earlier(d.of, o) /\ d.path = f.path
      BY <2>6, <2>7, <3>1
    <3> QED BY <2>3, <2>8, <3>2
  <2> QED BY <2>10, <2>11, <2>9
<1>2. \A e \in E, f \in F : e.of = f.of => e.path = f.path
  BY <1>1 DEF Exports
<1>3. ASSUME NEW X \in SUBSET Exports, NEW Y \in SUBSET Exports, ObjectsOf(X) = ObjectsOf(Y),
             \A x \in X, y \in Y : x.of = y.of => x.path = y.path
      PROVE  Names(X) \subseteq Names(Y)
  <2> SUFFICES ASSUME NEW x \in X PROVE \E y \in Y : <<x.of, x.path>> = <<y.of, y.path>>
    BY DEF Names
  <2>1. x.of \in ObjectsOf(Y)
    BY <1>3 DEF ObjectsOf
  <2>2. PICK y \in Y : y.of = x.of
    BY <2>1 DEF ObjectsOf
  <2> QED BY <1>3, <2>2
<1>4. Names(E) \subseteq Names(F) /\ Names(F) \subseteq Names(E)
  BY <1>2, <1>3
<1> QED BY <1>4

LEMMA OrderStep == OracleExportAssumption /\ TypeOK /\ Safety /\ InOrder /\ [Next]_vars => InOrder'
<1> SUFFICES ASSUME OracleExportAssumption, TypeOK, Safety, InOrder, [Next]_vars PROVE InOrder'
  OBVIOUS
<1>0. /\ pc \notin {"open", "write"} => now = {}
      /\ pc \in {"open", "write"} => \E e \in Exports : now = {e}
      /\ pc \in {"idle", "list"} => pending = {}
  BY DEF Safety, Turn
<1>1. CASE CreateObject \/ DropObject \/ Rest \/ UNCHANGED vars
  BY <1>1 DEF CreateObject, DropObject, Change, work, Rest, vars, InOrder
<1>2. CASE Begin
  BY <1>0, <1>2 DEF Begin, InOrder
<1>3. CASE List
  <2>1. /\ pc = "list" /\ pc' = "get" /\ type' = type + 1 /\ type \in Nat
        /\ pending' = {o \in Objects : TypeOf[o] = type' /\ schema[o] # 0}
        /\ UNCHANGED <<now, taken, written, before>>
    BY <1>3 DEF List, ListNext, TypeOK
  <2>2. \A e \in written \union now : TypeOf[e.of] <= type /\ TypeOf[e.of] \in Nat
    BY <2>1 DEF InOrder, TypeOK, Exports, OracleExportAssumption
  <2>3. \A e \in written \union now : TypeOf[e.of] < type' /\ TypeOf[e.of] <= type'
    BY <2>1, <2>2
  <2>4. \A e \in written \union now, p \in pending' : Earlier(e.of, p)
    BY <2>1, <2>3 DEF Earlier
  <2> QED BY <2>1, <2>3, <2>4 DEF InOrder
<1>4. CASE GetDDL
  <2>1. PICK o \in pending, e \in Exports :
          /\ e.of = o /\ e.path \in Paths \ taken
          /\ \E n \in Objects :
                /\ e.path = Numbered(FileStem[o], n)
                /\ \A m \in 1 .. n - 1 : Numbered(FileStem[o], m) \in taken
          /\ \A p \in pending : o <= p
          /\ now' = {e}
          /\ taken' = taken \union {e.path}
          /\ pending' = pending \ {o}
    BY <1>4, InHand
  <2>2. pc = "get" /\ now = {} /\ UNCHANGED <<type, written, before>>
    BY <1>0, <1>4 DEF GetDDL
  <2>3. (written \union now)' = written \union {e} /\ written \union now = written
    BY <2>1, <2>2
  <2>4. /\ taken = {d.path : d \in written}
        /\ \A d \in written : Placed(d, written)
        /\ \A d \in written : TypeOf[d.of] <= type
        /\ \A p \in pending : TypeOf[p] = type
        /\ \A d \in written, p \in pending : Earlier(d.of, p)
        /\ \A d \in before : Placed(d, before)
    BY <2>2, <2>3 DEF InOrder
  <2>5. \A p \in Objects : p \in Nat /\ TypeOf[p] \in Nat
    BY DEF Objects, OracleExportAssumption
  <2>6. o \in Objects /\ \A d \in written : d.of \in Objects
    BY DEF TypeOK, Exports
  <2>7. \A d \in written : Earlier(d.of, o) /\ ~ Earlier(o, d.of)
    BY <2>4, <2>5, <2>6 DEF Earlier
  <2>8. ~ Earlier(o, o)
    BY <2>5, <2>6 DEF Earlier
  <2>9. Placed(e, written \union {e})
    <3>1. \A d \in written \union {e} : Earlier(d.of, e.of) => d \in written /\ d.path # e.path
      BY <2>1, <2>4, <2>8
    <3>2. PICK n \in Objects :
            /\ e.path = Numbered(FileStem[o], n)
            /\ \A m \in 1 .. n - 1 : Numbered(FileStem[o], m) \in taken
      BY <2>1
    <3>3. ASSUME NEW m \in 1 .. n - 1
          PROVE  \E d \in written \union {e} :
                    Earlier(d.of, e.of) /\ d.path = Numbered(FileStem[e.of], m)
      <4>1. PICK d \in written : d.path = Numbered(FileStem[o], m)
        BY <2>4, <3>2, <3>3
      <4> QED BY <2>1, <2>7, <4>1
    <3>4. e.path = Numbered(FileStem[e.of], n)
      BY <2>1, <3>2
    <3> QED BY <3>1, <3>3, <3>4 DEF Placed
  <2>10. ASSUME NEW d \in written PROVE Placed(d, written \union {e})
    <3>1. Placed(d, written) /\ ~ Earlier(e.of, d.of)
      BY <2>1, <2>4, <2>7
    <3>2. ASSUME NEW c \in written \union {e}, Earlier(c.of, d.of) PROVE c.path # d.path
      <4>1. c \in written
        BY <3>1, <3>2
      <4> QED BY <3>1, <3>2, <4>1 DEF Placed
    <3>3. \E n \in Objects :
            /\ d.path = Numbered(FileStem[d.of], n)
            /\ \A k \in 1 .. n - 1 :
                \E c \in written \union {e} :
                    Earlier(c.of, d.of) /\ c.path = Numbered(FileStem[d.of], k)
      BY <3>1 DEF Placed
    <3> QED BY <3>2, <3>3 DEF Placed
  <2>11. \A p \in pending' : Earlier(o, p)
    BY <2>1, <2>4, <2>5, <2>6 DEF Earlier, TypeOK
  <2>12. taken' = {d.path : d \in written \union {e}}
    BY <2>1, <2>4
  <2>13. TypeOf[o] <= type
    BY <2>4, <2>5, <2>6
  <2>14. (\A d \in before : Placed(d, before))'
    BY <2>2, <2>4
  <2>15. (\A d \in written \union now : Placed(d, written \union now))'
    BY <2>3, <2>9, <2>10
  <2> QED BY <2>1, <2>2, <2>3, <2>4, <2>7, <2>11, <2>12, <2>13, <2>14, <2>15 DEF InOrder
<1>5. CASE GetFails \/ GetNothing
  <2>1. /\ pending' \subseteq pending /\ pc = "get"
        /\ UNCHANGED <<pc, type, now, taken, written, before>>
    BY <1>5 DEF GetFails, GetNothing
  <2> QED BY <2>1 DEF InOrder
<1>6. CASE NextType
  BY <1>6 DEF NextType, InOrder
<1>7. CASE Open
  BY <1>7 DEF Open, InOrder
<1>8. CASE Write
  <2>1. (written \union now)' = written \union now /\ UNCHANGED <<type, pending, taken, before>>
        /\ pc # "idle"
    BY <1>8 DEF Write
  <2> QED BY <2>1 DEF InOrder
<1>9. CASE Finish
  <2>1. written \union now = written /\ pc' = "idle" /\ pc = "list" /\ before' = written
    BY <1>0, <1>9 DEF Finish, Stop
  <2> QED BY <2>1 DEF InOrder
<1>10. CASE Fail \/ Kill
  BY <1>10 DEF Fail, Kill, Stop, InOrder
<1> QED BY <1>1, <1>2, <1>3, <1>4, <1>5, <1>6, <1>7, <1>8, <1>9, <1>10 DEF Next

LEMMA AlwaysInOrder == Spec => []InOrder
<1>1. Init => InOrder
  BY DEF Init, InOrder
<1>2. TypeOK /\ Safety /\ InOrder /\ [Next]_vars => InOrder'
  BY OrderStep, OracleExportAssumption
<1> QED BY <1>1, <1>2, AlwaysSafe, PTL DEF Spec

-----------------------------------------------------------------------------
(* Theorems. *)

\* The variables keep their types; in particular a file name is found for
\* every object (_unique_output_path ends).
THEOREM TypeCorrect == Spec => []TypeOK
BY AlwaysSafe, PTL

\* Whatever the names of the objects become on the disk, no export overwrites
\* a file it has written (export_schema, _unique_output_path).
THEOREM NothingOverwritten == Spec => []OneFileEach
<1>1. Safety => OneFileEach
  BY DEF Safety
<1> QED BY <1>1, AlwaysSafe, PTL

\* An export that ends well has accounted for every name it listed, however the
\* schema changed meanwhile (export_schema).
THEOREM EveryNameAccounted == Spec => []AllAccounted
<1>1. Safety => AllAccounted
  <2>1. SUFFICES ASSUME Safety, Complete PROVE
          /\ listed = ObjectsOf(written) \union errors \union gone
          /\ ObjectsOf(written) \intersect errors = {}
          /\ (ObjectsOf(written) \union errors) \intersect gone = {}
    BY DEF AllAccounted
  <2>2. pending = {} /\ now = {} /\ Counted /\ ended = "done"
    BY <2>1 DEF Safety, Turn, Complete
  <2> QED BY <2>2 DEF Counted
<1> QED BY <1>1, AlwaysSafe, PTL

\* Exporting the same objects again gives each the file name it had, however
\* many names become one on the disk, whatever else was exported, failed or
\* was killed meanwhile (_unique_output_path, the loops of export_schema).
THEOREM SameNamesAgain == Spec => NamesAreStable
<1>1. TypeOK /\ Safety /\ InOrder =>
        (Finish /\ ObjectsOf(written) = ObjectsOf(before) => Names(written) = Names(before))
  <2> SUFFICES ASSUME TypeOK, Safety, InOrder, Finish, ObjectsOf(written) = ObjectsOf(before)
               PROVE  Names(written) = Names(before)
    OBVIOUS
  <2>1. written \union now = written
    BY DEF Finish, Safety, Turn
  <2>2. \A e \in written : Placed(e, written)
    BY <2>1 DEF Finish, InOrder
  <2>3. written \in SUBSET Exports /\ before \in SUBSET Exports
    BY DEF TypeOK
  <2>4. \A e \in before : Placed(e, before)
    BY DEF InOrder
  <2> QED BY <2>2, <2>3, <2>4, PlacedAlike, OracleExportAssumption
<1> QED BY <1>1, AlwaysSafe, AlwaysInOrder, PTL DEF NamesAreStable
=============================================================================
