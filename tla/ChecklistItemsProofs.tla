------------------------- MODULE ChecklistItemsProofs -------------------------
(***************************************************************************)
(* Lemmas about ChecklistItems, for any names and files: what a matched    *)
(* pair is, what BuildItems leaves at a key, that no two boxes become one, *)
(* and that regenerating twice with the same findings is regenerating once.*)
(***************************************************************************)
EXTENDS ChecklistItems, FiniteSetTheorems, TLAPS

\* A pair of Moves joins a newly found key to a remembered key that was not
\* found, and the two share a signature.
LEMMA MovePairs ==
    ASSUME NEW now \in SUBSET ItemKey, NEW prev \in Checklists,
           NEW p \in Moves(now, prev)
    PROVE  /\ p[1] \in now \ Listed(prev)
           /\ p[2] \in Listed(prev) \ now
           /\ SameItem(p[1], p[2])
  BY DEF Moves, Match, SameItem, Listed

\* BuildItems returns a checklist.
LEMMA BuildItemsType ==
    ASSUME NEW now \in SUBSET ItemKey, NEW prev \in Checklists, NEW scanned
    PROVE  BuildItems(now, prev, scanned) \in Checklists
  BY DEF BuildItems, Checklists

\* The pairs are one to one: a key takes part in one move at most.
LEMMA MovesOneToOne ==
    ASSUME NEW now \in SUBSET ItemKey, NEW prev \in Checklists,
           NEW p \in Moves(now, prev), NEW q \in Moves(now, prev),
           p[1] = q[1] \/ p[2] = q[2]
    PROVE  p = q
<1> DEFINE new     == now \ Listed(prev)
           old     == Listed(prev) \ now
           found   == Match(SameObject, new, old)
           restNew == {n \in new : n.object \in Qualified /\ \A f \in found : f[1] # n}
           restOld == {o \in old : o.object \in Qualified /\ \A f \in found : f[2] # o}
           rest    == Match(SameRoutine, restNew, restOld)
<1>1. p \in found \union rest /\ q \in found \union rest
  BY DEF Moves
<1>2. ASSUME NEW sig, NEW N, NEW O, NEW a \in Match(sig, N, O), NEW b \in Match(sig, N, O),
             a[1] = b[1] \/ a[2] = b[2]
      PROVE  a = b
  <2>1. a \in N \X O /\ b \in N \X O
    BY <1>2 DEF Match
  <2>2. a[1] = b[1] /\ a[2] = b[2]
    BY <1>2, <2>1 DEF Match
  <2> QED BY <2>1, <2>2
<1>3. \A r \in rest, f \in found : r[1] # f[1] /\ r[2] # f[2]
  BY DEF Match
<1> QED
  BY <1>1, <1>2, <1>3

\* When a key has a box after BuildItems, and when that box is ticked.
LEMMA BoxAfter ==
    ASSUME NEW now \in SUBSET ItemKey, NEW prev \in Checklists, NEW scanned,
           NEW k \in ItemKey
    PROVE  /\ k \in Listed(BuildItems(now, prev, scanned)) <=>
                /\ k \in now \union Listed(prev)
                /\ \A p \in Moves(now, prev) : p[2] # k
           /\ k \in Ticked(BuildItems(now, prev, scanned)) <=>
                /\ k \in Listed(BuildItems(now, prev, scanned))
                /\ \/ k \in Ticked(prev)
                   \/ k \in Carried(Moves(now, prev), prev)
                   \/ k \in Gone(now, prev, scanned)
  BY DEF BuildItems, Listed, Ticked

\* The key an item moved to has a box, and the key it moved from has none.
LEMMA MoveBoxes ==
    ASSUME NEW now \in SUBSET ItemKey, NEW prev \in Checklists, NEW scanned,
           NEW p \in Moves(now, prev)
    PROVE  /\ p[1] \in ItemKey /\ p[2] \in ItemKey
           /\ p[1] \in Listed(BuildItems(now, prev, scanned))
           /\ p[2] \notin Listed(BuildItems(now, prev, scanned))
           /\ p[1] \in Ticked(BuildItems(now, prev, scanned)) <=> p[2] \in Ticked(prev)
<1>1. p[1] \in now \ Listed(prev) /\ p[2] \in Listed(prev) \ now
  BY MovePairs
<1>2. p[1] \in ItemKey /\ p[2] \in ItemKey
  BY <1>1 DEF Listed
<1>3. \A q \in Moves(now, prev) : q[2] # p[1]
  BY <1>1, MovePairs
<1>4. p[1] \in Listed(BuildItems(now, prev, scanned))
  BY <1>1, <1>2, <1>3, BoxAfter
<1>5. p[2] \notin Listed(BuildItems(now, prev, scanned))
  BY <1>2, BoxAfter
<1>6. p[1] \notin Ticked(prev) /\ p[1] \notin Gone(now, prev, scanned)
  BY <1>1 DEF Ticked, Listed, Gone
<1>7. p[1] \in Carried(Moves(now, prev), prev) <=> p[2] \in Ticked(prev)
  BY <1>2, MovesOneToOne DEF Carried
<1> QED
  BY <1>2, <1>4, <1>5, <1>6, <1>7, BoxAfter

\* No two boxes become one: every box of the previous checklist, and every
\* tick in it, has one of its own in the new one, where it was or where its
\* item moved to.
LEMMA BoxesAreKept ==
    ASSUME NEW now \in SUBSET ItemKey, NEW prev \in Checklists, NEW scanned,
           IsFiniteSet(ItemKey)
    PROVE  LET next == BuildItems(now, prev, scanned)
           IN  /\ Cardinality(Listed(next)) >= Cardinality(Listed(prev))
               /\ Cardinality(Ticked(next)) >= Cardinality(Ticked(prev))
<1> DEFINE next  == BuildItems(now, prev, scanned)
           moves == Moves(now, prev)
           To(k) == IF \E p \in moves : p[2] = k THEN (CHOOSE p \in moves : p[2] = k)[1] ELSE k
<1>1. ASSUME NEW k \in Listed(prev)
      PROVE  /\ To(k) \in Listed(next)
             /\ k \in Ticked(prev) => To(k) \in Ticked(next)
  <2>1. k \in ItemKey
    BY DEF Listed
  <2>2. CASE \E p \in moves : p[2] = k
    <3>1. PICK p \in moves : p[2] = k /\ To(k) = p[1]
      BY <2>2
    <3> QED BY <3>1, MoveBoxes
  <2>3. CASE ~ \E p \in moves : p[2] = k
    <3> QED BY <2>1, <2>3, BoxAfter
  <2> QED
    BY <2>2, <2>3
<1>2. ASSUME NEW k \in Listed(prev), NEW l \in Listed(prev), To(k) = To(l)
      PROVE  k = l
  <2>1. CASE (\E p \in moves : p[2] = k) /\ (\E p \in moves : p[2] = l)
    <3>1. PICK p \in moves : p[2] = k /\ To(k) = p[1]
      BY <2>1
    <3>2. PICK q \in moves : q[2] = l /\ To(l) = q[1]
      BY <2>1
    <3>3. p = q
      BY <1>2, <3>1, <3>2, MovesOneToOne
    <3> QED BY <3>1, <3>2, <3>3
  <2>2. ASSUME NEW m \in Listed(prev), NEW n \in Listed(prev), To(m) = To(n),
               \E p \in moves : p[2] = m, ~ \E p \in moves : p[2] = n
        PROVE  FALSE
    <3>1. PICK p \in moves : p[2] = m /\ To(m) = p[1]
      BY <2>2
    <3>2. p[1] \notin Listed(prev)
      BY MovePairs
    <3> QED BY <2>2, <3>1, <3>2
  <2>3. CASE (~ \E p \in moves : p[2] = k) /\ (~ \E p \in moves : p[2] = l)
    BY <1>2, <2>3
  <2> QED
    BY <1>2, <2>1, <2>2, <2>3
<1>3. Ticked(prev) \subseteq Listed(prev)
  BY DEF Ticked, Listed
<1>4. IsFiniteSet(Listed(next)) /\ IsFiniteSet(Ticked(next))
  <2>1. Listed(next) \in SUBSET ItemKey /\ Ticked(next) \in SUBSET ItemKey
    BY DEF Listed, Ticked
  <2> QED BY <2>1, FS_Subset
<1> HIDE DEF To, next, moves
<1>5. ASSUME NEW S \in SUBSET Listed(prev), NEW T, IsFiniteSet(T), \A k \in S : To(k) \in T
      PROVE  Cardinality(T) >= Cardinality(S)
  <2> DEFINE f == [k \in S |-> To(k)]
  <2>1. f \in Injection(S, T)
    <3>1. f \in [S -> T]
      BY <1>5
    <3>2. \A k, l \in S : f[k] = f[l] => k = l
      BY <1>2
    <3> HIDE DEF f
    <3> QED BY <3>1, <3>2 DEF Injection, IsInjective
  <2>2. IsFiniteSet(S) /\ Cardinality(S) <= Cardinality(T)
    BY <1>5, <2>1, FS_Injection
  <2>3. Cardinality(S) \in Nat /\ Cardinality(T) \in Nat
    BY <1>5, <2>2, FS_CardinalityType
  <2> QED BY <2>2, <2>3
<1>6. Cardinality(Listed(next)) >= Cardinality(Listed(prev))
  BY <1>1, <1>4, <1>5
<1>7. Cardinality(Ticked(next)) >= Cardinality(Ticked(prev))
  BY <1>1, <1>3, <1>4, <1>5
<1> QED
  BY <1>6, <1>7 DEF next

\* BuildItems is idempotent: with the same findings a second regeneration
\* has no move to make and nothing left to tick.
LEMMA BuildItemsIdempotent ==
    ASSUME NEW now \in SUBSET ItemKey, NEW prev \in Checklists, NEW scanned
    PROVE  LET once == BuildItems(now, prev, scanned)
           IN  BuildItems(now, once, scanned) = once
<1> DEFINE once == BuildItems(now, prev, scanned)
           twice == BuildItems(now, once, scanned)
<1>1. once \in Checklists /\ twice \in Checklists
  BY BuildItemsType
<1>2. now \subseteq Listed(once)
  BY BoxAfter, MovePairs
<1>3. Moves(now, once) = {}
  BY <1>1, <1>2, MovePairs
<1>4. Gone(now, once, scanned) \subseteq Ticked(once)
  <2> SUFFICES ASSUME NEW k \in Gone(now, once, scanned) PROVE k \in Ticked(once)
    OBVIOUS
  <2>1. k \in ItemKey /\ k \in Listed(once) /\ k \notin now /\ k.file \in scanned
    BY DEF Gone, Listed
  <2>2. k \in Gone(now, prev, scanned)
    BY <2>1, BoxAfter DEF Gone
  <2> QED BY <2>1, <2>2, BoxAfter
<1>5. ASSUME NEW k \in ItemKey
      PROVE  /\ k \in Listed(twice) <=> k \in Listed(once)
             /\ k \in Ticked(twice) <=> k \in Ticked(once)
  <2>1. Ticked(once) \subseteq Listed(once)
    BY DEF Ticked, Listed
  <2>2. Carried(Moves(now, once), once) = {}
    BY <1>3 DEF Carried
  <2> HIDE DEF once
  <2>3. k \in Listed(twice) <=> k \in Listed(once)
    BY <1>1, <1>2, <1>3, BoxAfter
  <2> QED BY <1>1, <1>4, <2>1, <2>2, <2>3, BoxAfter
<1>6. ASSUME NEW k \in ItemKey PROVE once[k] = twice[k]
  <2> HIDE DEF once, twice
  <2> QED BY <1>1, <1>5 DEF Checklists, Listed, Ticked
<1> HIDE DEF once, twice
<1>7. once = twice
  BY <1>1, <1>6 DEF Checklists
<1> QED
  BY <1>7 DEF once, twice
=============================================================================
