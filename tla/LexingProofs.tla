---------------------------- MODULE LexingProofs ----------------------------
(***************************************************************************)
(* Theorems about Lexing, for texts of any length over any symbols.        *)
(***************************************************************************)
EXTENDS Lexing, WellFoundedInduction, TLAPS

-----------------------------------------------------------------------------
(* Places in a text *)

LEMMA SmallestOf == ASSUME NEW S \in SUBSET Nat, S # {} PROVE \E n \in S : \A m \in S : n <= m
<1> DEFINE Less == OpToRel(<, Nat)
<1>1. Less = {ss \in Nat \X Nat : ss[1] < ss[2]}
  BY Zenon DEF OpToRel
<1>2. IsWellFoundedOn(Less, Nat)
  BY NatLessThanWellFounded, Zenon
<1> HIDE DEF Less
<1>3. PICK n \in S : \A m \in S : ~ (<<m, n>> \in Less)
  BY <1>2, WFMin, Zenon
<1>4. \A m, k \in Nat : m < k => <<m, k>> \in Less
  BY <1>1
<1>5. \A m \in S : ~ (m < n)
  BY <1>3, <1>4
<1> QED BY <1>5

\* "a", which a body is read on with, and the blanks are named because the provers know of
\* no string that it is in STRING.
Symbols == STRING \cup {"a", "sp", "nl"}
Texts == Seq(Symbols)

LEMMA AreTexts == Seq(STRING) \subseteq Texts
<1>1. \A t \in Seq(STRING) : t \in Seq(Symbols)
  BY DEF Symbols
<1> QED BY <1>1 DEF Texts

LEMMA AtOne ==
    ASSUME NEW s \in Texts, NEW i \in Nat \ {0}, NEW a
    PROVE  At(s, i, <<a>>) <=> i <= Len(s) /\ s[i] = a
  BY DEF At, Texts

LEMMA AtTwo ==
    ASSUME NEW s \in Texts, NEW i \in Nat \ {0}, NEW a, NEW b
    PROVE  At(s, i, <<a, b>>) <=> i < Len(s) /\ s[i] = a /\ s[i + 1] = b
  BY DEF At, Texts

LEMMA MinIs ==
    ASSUME NEW S \in SUBSET Nat, S # {}
    PROVE  Min(S) \in S /\ \A x \in S : Min(S) <= x
  BY SmallestOf DEF Min

\* Find is the first place from i on, or the end of the text.
LEMMA FindIs ==
    ASSUME NEW s \in Texts, NEW i \in Nat \ {0}, i <= Len(s) + 1, NEW w
    PROVE  /\ Find(s, i, w) \in i .. Len(s) + 1
           /\ \A j \in i .. Find(s, i, w) - 1 : ~At(s, j, w)
           /\ Find(s, i, w) <= Len(s) => At(s, Find(s, i, w), w)
<1> DEFINE S == {j \in i .. Len(s) : At(s, j, w)} \cup {Len(s) + 1}
<1>1. Len(s) \in Nat
  BY DEF Texts
<1>2. S \in SUBSET Nat /\ S # {}
  BY <1>1
<1>3. Min(S) \in S /\ \A x \in S : Min(S) <= x
  BY <1>2, MinIs
<1>4. Find(s, i, w) = Min(S)
  BY DEF Find
<1>5. \A x : x \in S <=> (x \in i .. Len(s) /\ At(s, x, w)) \/ x = Len(s) + 1
  OBVIOUS
<1> HIDE DEF S
<1> DEFINE f == Find(s, i, w)
<1>6. f \in S /\ \A x \in S : f <= x
  BY <1>3, <1>4
<1>7. f \in i .. Len(s) + 1
  BY <1>1, <1>5, <1>6
<1>8. f <= Len(s) => At(s, f, w)
  BY <1>1, <1>5, <1>6
<1> HIDE DEF f
<1>9. ASSUME NEW j \in i .. f - 1, At(s, j, w) PROVE FALSE
  <2>1. j \in i .. Len(s) /\ ~(f <= j)
    BY <1>1, <1>7
  <2> QED BY <1>5, <1>6, <1>9, <2>1
<1> QED BY <1>7, <1>8, <1>9 DEF f

\* Past is just past what Find finds.
LEMMA PastIs ==
    ASSUME NEW s \in Texts, NEW i \in Nat \ {0}, i <= Len(s) + 1, NEW w, Len(w) \in Nat
    PROVE  Past(s, i, w) = IF Find(s, i, w) + Len(w) <= Len(s) + 1
                           THEN Find(s, i, w) + Len(w) ELSE Len(s) + 1
<1> DEFINE S == {Find(s, i, w) + Len(w), Len(s) + 1}
<1>1. Len(s) \in Nat /\ Find(s, i, w) \in Nat
  BY FindIs DEF Texts
<1>2. S \in SUBSET Nat /\ S # {}
  BY <1>1
<1>3. Min(S) \in S /\ \A x \in S : Min(S) <= x
  BY <1>2, MinIs
<1> QED BY <1>1, <1>3 DEF Past

-----------------------------------------------------------------------------
(* What a scanner makes of a text *)

PieceType == [take : Nat \ {0}, kind : Kinds, mode : Modes]
Takes(n) == [(1 .. n) \X Modes -> PieceType]

(* One piece follows the other *)
Follows(pieces, n, takes) ==
    /\ pieces \in [1 .. n -> PieceType]
    /\ n > 0 => pieces[1] = takes[<<1, "code">>]
    /\ \A i \in 1 .. n - 1 :
            pieces[i + 1] = IF pieces[i].take > 1 THEN Remainder(pieces[i])
                            ELSE takes[<<i + 1, pieces[i].mode>>]

(* What Pieces builds for the first i symbols, given what it built for fewer *)
Built(f, i, takes) ==
    IF i = 0 THEN <<>>
    ELSE LET before == f[i - 1]
             last == before[i - 1]
         IN  Append(before, IF i = 1 THEN takes[<<i, "code">>]
                            ELSE IF last.take > 1 THEN Remainder(last)
                            ELSE takes[<<i, last.mode>>])

UpTo(f, n, takes) == f = [i \in 0 .. n |-> Built(f, i, takes)]

LEMMA BuiltFirst ==
    ASSUME NEW f, NEW takes
    PROVE  Built(f, 0, takes) = <<>> /\ Follows(<<>>, 0, takes)
  BY DEF Built, Follows

LEMMA BuiltNext ==
    ASSUME NEW n \in Nat, NEW takes \in Takes(n), NEW f, NEW i \in 1 .. n,
           Follows(f[i - 1], i - 1, takes)
    PROVE  /\ Follows(Built(f, i, takes), i, takes)
           /\ \A j \in 1 .. i - 1 : Built(f, i, takes)[j] = f[i - 1][j]
<1> DEFINE before == f[i - 1]
           last == before[i - 1]
           new == IF i = 1 THEN takes[<<i, "code">>]
                  ELSE IF last.take > 1 THEN Remainder(last)
                  ELSE takes[<<i, last.mode>>]
           g == Append(before, new)
<1>1. Built(f, i, takes) = g
  BY DEF Built
<1>2. before \in [1 .. i - 1 -> PieceType]
  BY DEF Follows
<1>3. new \in PieceType
  <2>1. CASE i = 1
    BY <2>1 DEF Takes, Modes
  <2>2. CASE i > 1
    <3>1. last \in PieceType
      BY <1>2, <2>2
    <3>2. last.take > 1 => Remainder(last) \in PieceType
      BY <3>1 DEF PieceType, Remainder, Piece
    <3>3. takes[<<i, last.mode>>] \in PieceType
      BY <3>1 DEF Takes, PieceType
    <3> QED BY <2>2, <3>2, <3>3
  <2> QED BY <2>1, <2>2
<1> HIDE DEF new
<1>4. before \in Seq(PieceType) /\ Len(before) = i - 1
  BY <1>2
<1>5. g \in Seq(PieceType) /\ Len(g) = i /\ g[i] = new /\ \A j \in 1 .. i - 1 : g[j] = before[j]
  BY <1>3, <1>4
<1> HIDE DEF g
<1>6. g \in [1 .. i -> PieceType]
  BY <1>5
<1>7. g[1] = takes[<<1, "code">>]
  <2>1. CASE i = 1
    BY <1>5, <2>1 DEF new
  <2>2. CASE i > 1
    BY <1>5, <2>2 DEF Follows
  <2> QED BY <2>1, <2>2
<1>8. ASSUME NEW j \in 1 .. i - 1
      PROVE  g[j + 1] = IF g[j].take > 1 THEN Remainder(g[j]) ELSE takes[<<j + 1, g[j].mode>>]
  <2>1. CASE j = i - 1
    BY <1>5, <2>1 DEF new
  <2>2. CASE j < i - 1
    <3>1. j \in 1 .. (i - 1) - 1 /\ j + 1 \in 1 .. i - 1
      BY <2>2
    <3> QED BY <1>5, <3>1 DEF Follows
  <2> QED BY <2>1, <2>2
<1>9. Follows(g, i, takes)
  BY <1>6, <1>7, <1>8 DEF Follows
<1> QED BY <1>1, <1>5, <1>9

\* Scanning is a recursion that ends, and its pieces follow each other.
LEMMA UpToExists ==
    ASSUME NEW n \in Nat, NEW takes \in Takes(n)
    PROVE  \E f : UpTo(f, n, takes)
<1> DEFINE Good(f, k) == UpTo(f, k, takes) /\ \A i \in 0 .. k : Follows(f[i], i, takes)
           Bad == {k \in 0 .. n : ~\E f : Good(f, k)}
<1> SUFFICES ASSUME Bad # {} PROVE FALSE
  <2>1. \A f : Good(f, n) => UpTo(f, n, takes)
    OBVIOUS
  <2> HIDE DEF Good
  <2>2. n \notin Bad => \E f : Good(f, n)
    OBVIOUS
  <2> QED BY <2>1, <2>2
<1>1. PICK k \in Bad : \A m \in Bad : k <= m
  <2>1. Bad \in SUBSET Nat
    OBVIOUS
  <2> HIDE DEF Bad
  <2> QED BY <2>1, SmallestOf
<1>2. ~\E f : Good(f, k)
  OBVIOUS
<1>3. CASE k = 0
  <2> DEFINE f == [i \in 0 .. 0 |-> <<>>]
  <2>1. UpTo(f, 0, takes)
    BY DEF UpTo, Built
  <2>2. \A i \in 0 .. 0 : Follows(f[i], i, takes)
    BY DEF Follows
  <2>3. Good(f, k)
    BY <1>3, <2>1, <2>2
  <2> HIDE DEF Good
  <2> QED BY <1>2, <2>3
<1>4. CASE k > 0
  <2>1. k - 1 \notin Bad /\ k - 1 \in 0 .. n /\ k \in 1 .. n
    BY <1>1, <1>4
  <2>2. PICK f : Good(f, k - 1)
    <3> HIDE DEF Good
    <3> QED BY <2>1
  <2> DEFINE g == [i \in 0 .. k |-> IF i < k THEN f[i] ELSE Built(f, k, takes)]
  <2>3. \A i \in 0 .. k - 1 : g[i] = f[i] /\ f[i] = Built(f, i, takes)
    <3>1. f = [i \in 0 .. k - 1 |-> Built(f, i, takes)]
      BY <2>2 DEF UpTo
    <3>2. \A i \in 0 .. k - 1 : f[i] = Built(f, i, takes)
      BY <3>1
    <3> QED BY <2>1, <3>2
  <2>4. g[k] = Built(f, k, takes)
    BY <2>1
  <2>5. g = [i \in 0 .. k |-> g[i]]
    OBVIOUS
  <2> HIDE DEF g
  <2>6. \A i \in 0 .. k : Built(g, i, takes) = Built(f, i, takes)
    <3> TAKE i \in 0 .. k
    <3>1. i > 0 => g[i - 1] = f[i - 1]
      BY <2>1, <2>3
    <3> QED BY <3>1 DEF Built
  <2>7. \A i \in 0 .. k : g[i] = Built(g, i, takes)
    BY <2>1, <2>3, <2>4, <2>6
  <2>8. UpTo(g, k, takes)
    BY <2>5, <2>7 DEF UpTo
  <2>9. Follows(g[k], k, takes)
    BY <2>1, <2>2, <2>4, BuiltNext
  <2>10. \A i \in 0 .. k : Follows(g[i], i, takes)
    BY <2>1, <2>2, <2>3, <2>9
  <2>11. Good(g, k)
    BY <2>8, <2>10
  <2> HIDE DEF Good
  <2> QED BY <1>2, <2>11
<1> QED BY <1>1, <1>3, <1>4

LEMMA PiecesFollow ==
    ASSUME NEW n \in Nat, NEW takes \in Takes(n)
    PROVE  Follows(Pieces(n, takes), n, takes)
<1> DEFINE f == CHOOSE g : UpTo(g, n, takes)
<1>1. UpTo(f, n, takes)
  BY UpToExists
<1>2. Pieces(n, takes) = f[n]
  BY DEF Pieces, UpTo, Built
<1> HIDE DEF f
<1>3. \A i \in 0 .. n : f[i] = Built(f, i, takes)
  BY <1>1 DEF UpTo
<1> DEFINE Bad == {i \in 0 .. n : ~Follows(f[i], i, takes)}
<1>4. Bad = {}
  <2> SUFFICES ASSUME Bad # {} PROVE FALSE
    OBVIOUS
  <2>1. PICK k \in Bad : \A m \in Bad : k <= m
    <3>1. Bad \in SUBSET Nat
      OBVIOUS
    <3> HIDE DEF Bad
    <3> QED BY <3>1, SmallestOf
  <2>2. CASE k = 0
    <3>1. f[k] = Built(f, k, takes)
      BY <1>3
    <3> QED BY <2>2, <3>1, BuiltFirst
  <2>3. CASE k > 0
    <3>1. k - 1 \in 0 .. n /\ k - 1 \notin Bad
      BY <2>1, <2>3
    <3>2. Follows(f[k - 1], k - 1, takes)
      BY <3>1
    <3>3. Follows(Built(f, k, takes), k, takes)
      BY <2>3, <3>2, BuiltNext
    <3> QED BY <1>3, <3>3
  <2> QED BY <2>2, <2>3
<1> QED BY <1>2, <1>4

LEMMA UpTheText ==
    ASSUME NEW n \in Nat, NEW S, n > 0 => 1 \in S, \A i \in 1 .. n - 1 : i \in S => i + 1 \in S
    PROVE  \A i \in 1 .. n : i \in S
<1> DEFINE Bad == {i \in 1 .. n : i \notin S}
<1> SUFFICES ASSUME Bad # {} PROVE FALSE
  OBVIOUS
<1>1. PICK k \in Bad : \A m \in Bad : k <= m
  <2>1. Bad \in SUBSET Nat
    OBVIOUS
  <2> HIDE DEF Bad
  <2> QED BY <2>1, SmallestOf
<1>2. k # 1
  OBVIOUS
<1>3. k - 1 \in 1 .. n - 1 /\ k - 1 \notin Bad
  BY <1>1, <1>2
<1> QED BY <1>3

LEMMA ToTheEnd ==
    ASSUME NEW n \in Nat, NEW S, NEW k \in 1 .. n, k \in S,
           \A i \in k .. n - 1 : i \in S => i + 1 \in S
    PROVE  \A i \in k .. n : i \in S
<1> DEFINE T == {i \in 1 .. n : i < k \/ i \in S}
<1>1. n > 0 => 1 \in T
  OBVIOUS
<1>2. \A i \in 1 .. n - 1 : i \in T => i + 1 \in T
  <2> TAKE i \in 1 .. n - 1
  <2> HAVE i \in T
  <2>1. CASE i + 1 < k
    BY <2>1
  <2>2. CASE i + 1 = k
    BY <2>2
  <2>3. CASE i >= k
    BY <2>3
  <2> QED BY <2>1, <2>2, <2>3
<1>3. \A i \in 1 .. n : i \in T
  <2> HIDE DEF T
  <2> QED BY <1>1, <1>2, UpTheText
<1> QED BY <1>3

LEMMA DownTheText ==
    ASSUME NEW n \in Nat, NEW S, n \in S,
           \A k \in 1 .. n - 1 : (\A j \in k + 1 .. n : j \in S) => k \in S
    PROVE  \A k \in 1 .. n : k \in S
<1> DEFINE Bad == {d \in 0 .. n - 1 : n - d \notin S}
<1>1. Bad = {}
  <2> SUFFICES ASSUME Bad # {} PROVE FALSE
    OBVIOUS
  <2>1. PICK d \in Bad : \A m \in Bad : d <= m
    <3>1. Bad \in SUBSET Nat
      OBVIOUS
    <3> HIDE DEF Bad
    <3> QED BY <3>1, SmallestOf
  <2>2. d # 0
    OBVIOUS
  <2>3. n - d \in 1 .. n - 1
    BY <2>2
  <2>4. ASSUME NEW j \in (n - d) + 1 .. n PROVE j \in S
    <3>1. n - j \in 0 .. n - 1 /\ n - j < d /\ n - (n - j) = j
      BY <2>3
    <3> QED BY <2>1, <3>1
  <2> QED BY <2>3, <2>4
<1>2. \A d \in 0 .. n - 1 : n - d \in S
  BY <1>1
<1>3. ASSUME NEW k \in 1 .. n PROVE k \in S
  <2> DEFINE d == n - k
  <2>1. d \in 0 .. n - 1 /\ n - d = k
    OBVIOUS
  <2> HIDE DEF d
  <2> QED BY <1>2, <2>1
<1> QED BY <1>3

IsHidden(piece) == piece.kind \in {"string", "escape", "comment"}

LEMMA HiddenAlike ==
    ASSUME NEW n \in Nat, NEW p, NEW q, \A i \in 1 .. n : IsHidden(p[i]) <=> IsHidden(q[i])
    PROVE  Hidden([i \in 1 .. n |-> p[i].kind]) = Hidden([i \in 1 .. n |-> q[i].kind])
<1> DEFINE f == [i \in 1 .. n |-> p[i].kind]
           g == [i \in 1 .. n |-> q[i].kind]
<1>1. \A i \in 1 .. n : i \in Hidden(f) <=> i \in Hidden(g)
  BY DEF Hidden, IsHidden
<1>2. Hidden(f) \subseteq 1 .. n /\ Hidden(g) \subseteq 1 .. n
  BY DEF Hidden
<1>3. Hidden(f) = Hidden(g)
  <2> HIDE DEF f, g
  <2> QED BY <1>1, <1>2
<1> QED BY <1>3

-----------------------------------------------------------------------------
(* Pieces *)

LEMMA PieceIs ==
    ASSUME NEW take \in Nat \ {0}, NEW kind \in Kinds, NEW mode \in Modes
    PROVE  /\ Piece(take, kind, mode) \in PieceType
           /\ Piece(take, kind, mode).take = take
           /\ Piece(take, kind, mode).kind = kind
           /\ Piece(take, kind, mode).mode = mode
  BY DEF Piece, PieceType

LEMMA LineCommentType ==
    ASSUME NEW s \in Texts, NEW i \in 1 .. Len(s), s[i] # "nl"
    PROVE  LineComment(s, i) \in PieceType
<1> DEFINE f == Find(s, i, <<"nl">>)
<1>1. Len(s) \in Nat /\ ~At(s, i, <<"nl">>)
  BY AtOne DEF Texts
<1>2. f \in i .. Len(s) + 1 /\ (f <= Len(s) => At(s, f, <<"nl">>))
  BY <1>1, FindIs
<1> HIDE DEF f
<1>3. f - i \in Nat \ {0}
  BY <1>1, <1>2
<1> QED BY <1>3 DEF f, LineComment, PieceType, Piece, Kinds, Modes

\* Past takes at least the symbols before it.
LEMMA PastType ==
    ASSUME NEW s \in Texts, NEW i \in Nat \ {0}, i <= Len(s) + 1, NEW w, Len(w) \in Nat
    PROVE  Past(s, i, w) \in i .. Len(s) + 1
<1>1. Len(s) \in Nat /\ Find(s, i, w) \in i .. Len(s) + 1
  BY FindIs DEF Texts
<1> QED BY <1>1, PastIs

LEMMA BlockCommentType ==
    ASSUME NEW s \in Texts, NEW i \in 1 .. Len(s), At(s, i, <<"/", "*">>)
    PROVE  BlockComment(s, i) \in PieceType
<1> DEFINE p == Past(s, i + 2, <<"*", "/">>)
<1>1. Len(s) \in Nat /\ i < Len(s)
  BY AtTwo DEF Texts
<1>2. p \in i + 2 .. Len(s) + 1
  BY <1>1, PastType
<1> HIDE DEF p
<1>3. p - i \in Nat \ {0}
  BY <1>1, <1>2
<1> QED BY <1>3 DEF p, BlockComment, PieceType, Piece, Kinds, Modes

LEMMA DelimitedType ==
    ASSUME NEW s \in Texts, NEW i \in 1 .. Len(s), NEW closer \in Modes, NEW kind \in Kinds
    PROVE  Delimited(s, i, closer, kind) \in PieceType
  BY DEF Delimited, PieceType, Piece, Modes

\* A name or a literal taken whole: from its delimiter past the next one.
LEMMA WholeType ==
    ASSUME NEW s \in Texts, NEW i \in 1 .. Len(s), NEW w, Len(w) \in Nat, NEW kind \in Kinds
    PROVE  Piece(Past(s, i + 1, w) - i, kind, "code") \in PieceType
<1> DEFINE p == Past(s, i + 1, w)
<1>1. Len(s) \in Nat
  BY DEF Texts
<1>2. p \in i + 1 .. Len(s) + 1
  BY <1>1, PastType
<1> HIDE DEF p
<1>3. p - i \in Nat \ {0}
  BY <1>1, <1>2
<1> QED BY <1>3 DEF p, PieceType, Piece, Modes

\* One symbol further on.
LEMMA PastOne ==
    ASSUME NEW s \in Texts, NEW i \in 1 .. Len(s), NEW a
    PROVE  Past(s, i, <<a>>) = IF s[i] = a THEN i + 1 ELSE Past(s, i + 1, <<a>>)
<1> DEFINE f == Find(s, i, <<a>>)
           g == Find(s, i + 1, <<a>>)
<1>1. Len(s) \in Nat /\ \A j \in 1 .. Len(s) : At(s, j, <<a>>) <=> s[j] = a
  BY AtOne DEF Texts
<1>2. /\ f \in i .. Len(s) + 1
      /\ \A j \in i .. f - 1 : ~At(s, j, <<a>>)
      /\ f <= Len(s) => At(s, f, <<a>>)
  BY <1>1, FindIs
<1>3. /\ g \in i + 1 .. Len(s) + 1
      /\ \A j \in i + 1 .. g - 1 : ~At(s, j, <<a>>)
      /\ g <= Len(s) => At(s, g, <<a>>)
  BY <1>1, FindIs
<1>4. Len(<<a>>) = 1
  OBVIOUS
<1>5. Past(s, i, <<a>>) = IF f + 1 <= Len(s) + 1 THEN f + 1 ELSE Len(s) + 1
  BY <1>1, <1>4, PastIs
<1>6. Past(s, i + 1, <<a>>) = IF g + 1 <= Len(s) + 1 THEN g + 1 ELSE Len(s) + 1
  <2>1. i + 1 \in Nat \ {0} /\ i + 1 <= Len(s) + 1
    BY <1>1
  <2> QED BY <1>4, <2>1, PastIs
<1> HIDE DEF f, g
<1>7. CASE s[i] = a
  <2>1. ~(i \in i .. f - 1)
    BY <1>1, <1>2, <1>7
  <2>2. f = i
    BY <1>1, <1>2, <2>1
  <2> QED BY <1>1, <1>5, <1>7, <2>2
<1>8. CASE s[i] # a
  <2>1. f # i
    BY <1>1, <1>2, <1>8
  <2>2. ~(g < f)
    <3> SUFFICES ASSUME g < f PROVE FALSE
      OBVIOUS
    <3>1. g <= Len(s) /\ g \in i .. f - 1
      BY <1>1, <1>2, <1>3
    <3> QED BY <1>2, <1>3, <3>1
  <2>3. ~(f < g)
    <3> SUFFICES ASSUME f < g PROVE FALSE
      OBVIOUS
    <3>1. f <= Len(s) /\ f \in i + 1 .. g - 1
      BY <1>1, <1>2, <1>3, <2>1
    <3> QED BY <1>2, <1>3, <3>1
  <2>4. f = g
    BY <1>2, <1>3, <2>2, <2>3, <1>1
  <2> QED BY <1>5, <1>6, <1>8, <2>4
<1> QED BY <1>7, <1>8

-----------------------------------------------------------------------------
(* Two scanners side by side *)

\* Both are in the same piece.
SamePiece(p, q, modes) ==
    /\ p.take = q.take /\ p.mode = q.mode /\ p.mode \in modes
    /\ IsHidden(p) <=> IsHidden(q)

\* Both are in a name closed by quote, which p takes symbol by symbol and q whole:
\* p knows the closer doubled, q starts a name again.
InName(s, i, p, q, quote) ==
    /\ p.kind = "name" /\ q.kind = "name" /\ p.mode = quote /\ q.mode = "code"
    /\ \/ p.take = 1 /\ q.take = Past(s, i + 1, <<quote>>) - i
       \/ p.take = 2 /\ q.take = 1 /\ i < Len(s) /\ s[i + 1] = quote

NameEnded(p, q) ==
    /\ p.take = 1 /\ q.take = 1 /\ p.mode = "code" /\ q.mode = "code"
    /\ p.kind = "name" /\ q.kind = "name"

LEMMA InNameNext ==
    ASSUME NEW s \in Texts, NEW i \in 1 .. Len(s), i + 1 <= Len(s), NEW quote \in Modes,
           NEW p, NEW q, InName(s, i, p, q, quote), NEW walk,
           s[i + 1] = quote => walk = Piece(Past(s, i + 2, <<quote>>) - (i + 1), "name", "code"),
           NEW p2, NEW q2,
           p2 = IF p.take > 1 THEN Remainder(p) ELSE Delimited(s, i + 1, quote, "name"),
           q2 = IF q.take > 1 THEN Remainder(q) ELSE walk
    PROVE  NameEnded(p2, q2) \/ InName(s, i + 1, p2, q2, quote)
<1>1. Len(s) \in Nat /\ i + 1 \in 1 .. Len(s) /\ (i + 1) + 1 = i + 2
  BY DEF Texts
<1>2. q.mode = "code" /\ q.kind = "name" /\ p.mode = quote /\ p.kind = "name"
  BY DEF InName
<1>3. CASE p.take = 1 /\ q.take = Past(s, i + 1, <<quote>>) - i
  <2> DEFINE whole == Past(s, i + 1, <<quote>>)
             next == Past(s, i + 2, <<quote>>)
  <2>1. whole = IF s[i + 1] = quote THEN i + 2 ELSE next
    <3>1. Past(s, i + 1, <<quote>>)
            = IF s[i + 1] = quote THEN (i + 1) + 1 ELSE Past(s, (i + 1) + 1, <<quote>>)
      BY <1>1, PastOne
    <3> QED BY <1>1, <3>1
  <2>2. next \in i + 2 .. Len(s) + 1
    <3>1. i + 2 \in Nat \ {0} /\ i + 2 <= Len(s) + 1 /\ Len(<<quote>>) \in Nat
      BY <1>1
    <3> QED BY <3>1, PastType
  <2> HIDE DEF whole, next
  <2>3. whole \in i + 2 .. Len(s) + 1
    BY <1>1, <2>1, <2>2
  <2>4. q.take = whole - i
    BY <1>3 DEF whole
  <2>5. q2 = Piece(q.take - 1, "name", "code")
    <3>1. q.take > 1
      BY <1>1, <2>3, <2>4
    <3> QED BY <1>2, <3>1 DEF Remainder
  <2>6. p2 = Delimited(s, i + 1, quote, "name")
    BY <1>3
  <2>7. CASE s[i + 1] # quote
    <3>1. p2 = Piece(1, "name", quote)
      BY <1>1, <2>6, <2>7, AtTwo DEF Delimited
    <3>2. q.take - 1 = next - (i + 1)
      BY <1>1, <2>1, <2>2, <2>4, <2>7
    <3>3. next = Past(s, (i + 1) + 1, <<quote>>)
      BY <1>1 DEF next
    <3> QED BY <2>5, <3>1, <3>2, <3>3 DEF InName, Piece
  <2>8. CASE s[i + 1] = quote
    <3>1. q2 = Piece(1, "name", "code")
      BY <2>1, <2>4, <2>5, <2>8
    <3>2. At(s, i + 1, <<quote, quote>>) <=> i + 1 < Len(s) /\ s[(i + 1) + 1] = quote
      BY <1>1, <2>8, AtTwo
    <3>3. CASE At(s, i + 1, <<quote, quote>>)
      <4>1. p2 = Piece(2, "name", quote)
        BY <2>6, <3>3 DEF Delimited
      <4> QED BY <3>1, <3>2, <3>3, <4>1 DEF InName, Piece
    <3>4. CASE ~At(s, i + 1, <<quote, quote>>)
      <4>1. p2 = Piece(1, "name", "code")
        BY <2>6, <2>8, <3>4 DEF Delimited
      <4> QED BY <3>1, <4>1 DEF NameEnded, Piece
    <3> QED BY <3>3, <3>4
  <2> QED BY <2>7, <2>8
<1>4. CASE p.take = 2 /\ q.take = 1 /\ i < Len(s) /\ s[i + 1] = quote
  <2>1. p2 = Piece(1, "name", quote)
    BY <1>2, <1>4 DEF Remainder
  <2>2. q2 = Piece(Past(s, (i + 1) + 1, <<quote>>) - (i + 1), "name", "code")
    BY <1>1, <1>4
  <2> QED BY <2>1, <2>2 DEF InName, Piece
<1> QED BY <1>3, <1>4 DEF InName

-----------------------------------------------------------------------------
(* MySQL *)

LEMMA MySqlMaskType ==
    ASSUME NEW s \in Texts, NEW i \in 1 .. Len(s), NEW mode \in Modes
    PROVE  MySqlMask(s, i, mode) \in PieceType
<1>1. Dashes(s, i) => s[i] = "-"
  BY AtTwo DEF Dashes
<1>2. (Dashes(s, i) \/ s[i] = "#") => LineComment(s, i) \in PieceType
  BY <1>1, LineCommentType
<1>3. At(s, i, <<"/", "*">>) => BlockComment(s, i) \in PieceType
  BY BlockCommentType
<1>4. /\ Piece(1, "name", "bt") \in PieceType
      /\ s[i] \in {"'", "dq"} => Piece(1, "string", s[i]) \in PieceType
      /\ Piece(2, "escape", mode) \in PieceType
      /\ Piece(1, "code", "code") \in PieceType
  BY DEF Piece, PieceType, Kinds, Modes
<1>5. Delimited(s, i, "bt", "name") \in PieceType /\ Delimited(s, i, mode, "string") \in PieceType
  BY DelimitedType DEF Modes, Kinds
<1> QED BY <1>2, <1>3, <1>4, <1>5 DEF MySqlMask

LEMMA MySqlSegmentsType ==
    ASSUME NEW s \in Texts, NEW i \in 1 .. Len(s), NEW mode \in Modes
    PROVE  MySqlSegments(s, i, mode) \in PieceType
<1>1. DashesToTheEnd(s, i) => s[i] = "-"
  BY AtTwo DEF Dashes, DashesToTheEnd
<1>2. (DashesToTheEnd(s, i) \/ s[i] = "#") => LineComment(s, i) \in PieceType
  BY <1>1, LineCommentType
<1>3. At(s, i, <<"/", "*">>) => BlockComment(s, i) \in PieceType
  BY BlockCommentType
<1>4. Min({2, Len(s) + 1 - i}) \in Nat \ {0}
  <2> DEFINE S == {2, Len(s) + 1 - i}
  <2>1. Len(s) \in Nat
    BY DEF Texts
  <2>2. S \in SUBSET Nat /\ S # {} /\ 0 \notin S
    BY <2>1
  <2> HIDE DEF S
  <2>3. Min(S) \in S
    BY <2>2, MinIs
  <2>4. Min(S) \in Nat \ {0}
    BY <2>2, <2>3
  <2> QED BY <2>4 DEF S
<1>5. /\ s[i] \in {"'", "dq"} => Piece(1, "string", s[i]) \in PieceType
      /\ Piece(Min({2, Len(s) + 1 - i}), "string", mode) \in PieceType
      /\ Piece(1, "code", "code") \in PieceType
  BY <1>4, PieceIs DEF Kinds, Modes
<1>6. Delimited(s, i, mode, "string") \in PieceType
  BY DelimitedType DEF Modes, Kinds
<1>7. Piece(Past(s, i + 1, <<"bt">>) - i, "name", "code") \in PieceType
  BY WholeType DEF Kinds
<1> QED BY <1>2, <1>3, <1>5, <1>6, <1>7 DEF MySqlSegments

MySqlAlike(s, i, p, q) == SamePiece(p, q, {"code", "'", "dq"}) \/ InName(s, i, p, q, "bt")

LEMMA MySqlStep ==
    ASSUME NEW s \in Texts, NEW i \in 1 .. Len(s), NEW mode \in {"code", "'", "dq"},
           ~(Len(s) > 1 /\ At(s, Len(s) - 1, <<"-", "-">>))
    PROVE  MySqlAlike(s, i, MySqlMask(s, i, mode), MySqlSegments(s, i, mode))
<1>1. Len(s) \in Nat
  BY DEF Texts
<1>2. DashesToTheEnd(s, i) <=> Dashes(s, i)
  <2>1. i + 1 = Len(s) => ~At(s, i, <<"-", "-">>)
    BY <1>1
  <2> QED BY <2>1 DEF DashesToTheEnd
<1>3. Dashes(s, i) => s[i] = "-"
  BY AtTwo DEF Dashes
<1>4. At(s, i, <<"/", "*">>) => s[i] = "/"
  BY AtTwo
<1>5. CASE mode = "code"
  <2>1. CASE Dashes(s, i) \/ s[i] = "#"
    <3>1. MySqlMask(s, i, mode) = LineComment(s, i)
      BY <1>3, <1>5, <2>1, <1>4 DEF MySqlMask
    <3>2. MySqlSegments(s, i, mode) = LineComment(s, i)
      BY <1>2, <1>3, <1>4, <1>5, <2>1 DEF MySqlSegments
    <3> QED BY <3>1, <3>2 DEF MySqlAlike, SamePiece, LineComment, Piece
  <2>2. CASE At(s, i, <<"/", "*">>)
    <3>1. MySqlMask(s, i, mode) = BlockComment(s, i)
      BY <1>3, <1>5, <2>2, <1>4 DEF MySqlMask
    <3>2. MySqlSegments(s, i, mode) = BlockComment(s, i)
      BY <1>2, <1>3, <1>4, <1>5, <2>2 DEF MySqlSegments
    <3> QED BY <3>1, <3>2 DEF MySqlAlike, SamePiece, BlockComment, Piece
  <2>3. CASE s[i] = "bt"
    <3>1. MySqlMask(s, i, mode) = Piece(1, "name", "bt")
      BY <1>3, <1>4, <1>5, <2>3 DEF MySqlMask
    <3>2. MySqlSegments(s, i, mode) = Piece(Past(s, i + 1, <<"bt">>) - i, "name", "code")
      BY <1>2, <1>3, <1>4, <1>5, <2>3 DEF MySqlSegments
    <3> QED BY <3>1, <3>2 DEF MySqlAlike, InName, Piece
  <2>4. CASE s[i] \in {"'", "dq"}
    <3>1. MySqlMask(s, i, mode) = Piece(1, "string", s[i])
      BY <1>3, <1>4, <1>5, <2>4 DEF MySqlMask
    <3>2. MySqlSegments(s, i, mode) = Piece(1, "string", s[i])
      BY <1>2, <1>3, <1>4, <1>5, <2>4 DEF MySqlSegments
    <3> QED BY <2>4, <3>1, <3>2 DEF MySqlAlike, SamePiece, Piece
  <2>5. CASE /\ ~Dashes(s, i) /\ s[i] # "#" /\ ~At(s, i, <<"/", "*">>)
             /\ s[i] # "bt" /\ s[i] \notin {"'", "dq"}
    <3>1. MySqlMask(s, i, mode) = Piece(1, "code", "code")
      BY <1>5, <2>5 DEF MySqlMask
    <3>2. MySqlSegments(s, i, mode) = Piece(1, "code", "code")
      BY <1>2, <1>5, <2>5 DEF MySqlSegments
    <3> QED BY <3>1, <3>2 DEF MySqlAlike, SamePiece, Piece
  <2> QED BY <2>1, <2>2, <2>3, <2>4, <2>5
<1>6. CASE mode \in {"'", "dq"}
  <2>1. CASE s[i] # "\\"
    <3>1. MySqlMask(s, i, mode) = Delimited(s, i, mode, "string")
      BY <1>6, <2>1 DEF MySqlMask, Escape
    <3>2. MySqlSegments(s, i, mode) = Delimited(s, i, mode, "string")
      BY <1>6, <2>1 DEF MySqlSegments
    <3>3. Delimited(s, i, mode, "string").mode \in {"code", mode}
      BY DEF Delimited, Piece
    <3> QED BY <1>6, <3>1, <3>2, <3>3 DEF MySqlAlike, SamePiece
  <2>2. CASE s[i] = "\\"
    <3> DEFINE least == Min({2, Len(s) + 1 - i})
    <3>1. MySqlSegments(s, i, mode) = Piece(least, "string", mode)
      BY <1>6, <2>2 DEF MySqlSegments
    <3>2. least = IF i < Len(s) THEN 2 ELSE 1
      <4> DEFINE S == {2, Len(s) + 1 - i}
      <4>1. S \in SUBSET Nat /\ S # {}
        BY <1>1
      <4>2. Min(S) \in S /\ \A x \in S : Min(S) <= x
        BY <4>1, MinIs
      <4> QED BY <1>1, <4>2
    <3> HIDE DEF least
    <3>3. CASE i < Len(s)
      <4>1. MySqlMask(s, i, mode) = Piece(2, "escape", mode)
        BY <1>6, <2>2, <3>3 DEF MySqlMask, Escape
      <4> QED BY <1>6, <3>1, <3>2, <3>3, <4>1 DEF MySqlAlike, SamePiece, Piece, IsHidden
    <3>4. CASE i = Len(s)
      <4>1. MySqlMask(s, i, mode) = Delimited(s, i, mode, "string")
        BY <1>1, <1>6, <2>2, <3>4 DEF MySqlMask, Escape
      <4>2. ~At(s, i, <<mode, mode>>)
        BY <1>1, <3>4, AtTwo
      <4>3. Delimited(s, i, mode, "string") = Piece(1, "string", mode)
        BY <1>6, <2>2, <4>2 DEF Delimited
      <4> QED BY <1>1, <1>6, <3>1, <3>2, <3>4, <4>1, <4>3 DEF MySqlAlike, SamePiece, Piece, IsHidden
    <3> QED BY <1>1, <3>3, <3>4
  <2> QED BY <2>1, <2>2
<1> QED BY <1>5, <1>6

LEMMA MySqlNext ==
    ASSUME NEW s \in Texts, NEW i \in 1 .. Len(s), i + 1 <= Len(s),
           NEW p \in PieceType, NEW q \in PieceType, MySqlAlike(s, i, p, q),
           ~(Len(s) > 1 /\ At(s, Len(s) - 1, <<"-", "-">>)),
           NEW p2, NEW q2,
           p2 = IF p.take > 1 THEN Remainder(p) ELSE MySqlMask(s, i + 1, p.mode),
           q2 = IF q.take > 1 THEN Remainder(q) ELSE MySqlSegments(s, i + 1, q.mode)
    PROVE  MySqlAlike(s, i + 1, p2, q2)
<1>1. Len(s) \in Nat /\ i + 1 \in 1 .. Len(s)
  BY DEF Texts
<1>2. p.take \in Nat \ {0} /\ q.take \in Nat \ {0}
  BY DEF PieceType
<1>3. CASE SamePiece(p, q, {"code", "'", "dq"})
  <2>1. CASE p.take > 1
    <3>1. p2 = Remainder(p) /\ q2 = Remainder(q)
      BY <1>3, <2>1 DEF SamePiece
    <3>2. SamePiece(p2, q2, {"code", "'", "dq"})
      BY <1>3, <3>1 DEF SamePiece, Remainder, Piece, IsHidden
    <3> QED BY <3>2 DEF MySqlAlike
  <2>2. CASE p.take = 1
    <3>1. p2 = MySqlMask(s, i + 1, p.mode) /\ q2 = MySqlSegments(s, i + 1, p.mode)
      BY <1>3, <2>2 DEF SamePiece
    <3>2. p.mode \in {"code", "'", "dq"}
      BY <1>3 DEF SamePiece
    <3> QED BY <1>1, <3>1, <3>2, MySqlStep
  <2> QED BY <1>2, <2>1, <2>2
<1>4. CASE InName(s, i, p, q, "bt")
  <2> DEFINE walk == MySqlSegments(s, i + 1, "code")
  <2>1. p.mode = "bt" /\ q.mode = "code"
    BY <1>4 DEF InName
  <2>2. p2 = IF p.take > 1 THEN Remainder(p) ELSE Delimited(s, i + 1, "bt", "name")
    BY <2>1 DEF MySqlMask
  <2>3. q2 = IF q.take > 1 THEN Remainder(q) ELSE walk
    BY <2>1
  <2>4. s[i + 1] = "bt" => walk = Piece(Past(s, i + 2, <<"bt">>) - (i + 1), "name", "code")
    <3> SUFFICES ASSUME s[i + 1] = "bt"
                 PROVE  walk = Piece(Past(s, i + 2, <<"bt">>) - (i + 1), "name", "code")
      OBVIOUS
    <3>1. ~DashesToTheEnd(s, i + 1) /\ ~At(s, i + 1, <<"/", "*">>)
      BY <1>1, AtTwo DEF DashesToTheEnd, Dashes
    <3>2. (i + 1) + 1 = i + 2
      OBVIOUS
    <3> QED BY <3>1, <3>2 DEF MySqlSegments
  <2> HIDE DEF walk
  <2>5. NameEnded(p2, q2) \/ InName(s, i + 1, p2, q2, "bt")
    <3>1. "bt" \in Modes
      BY DEF Modes
    <3> QED BY <1>4, <2>2, <2>3, <2>4, <3>1, InNameNext
  <2> QED BY <2>5 DEF MySqlAlike, NameEnded, SamePiece, IsHidden
<1> QED BY <1>3, <1>4 DEF MySqlAlike

LEMMA MySqlAlikeHidden ==
    ASSUME NEW s, NEW i, NEW p, NEW q, MySqlAlike(s, i, p, q)
    PROVE  IsHidden(p) <=> IsHidden(q)
  BY DEF MySqlAlike, SamePiece, InName, IsHidden

LEMMA MySqlHidden ==
    ASSUME NEW s \in Texts, ~(Len(s) > 1 /\ At(s, Len(s) - 1, <<"-", "-">>))
    PROVE  Hidden(KindsOf(s, MySqlMask)) = Hidden(KindsOf(s, MySqlSegments))
<1> DEFINE n == Len(s)
           masks == Scanner(s, MySqlMask)
           walks == Scanner(s, MySqlSegments)
           p == Pieces(n, masks)
           q == Pieces(n, walks)
           S == {i \in 1 .. n : MySqlAlike(s, i, p[i], q[i])}
<1>1. n \in Nat
  BY DEF Texts
<1>2. /\ \A i \in 1 .. n, m \in Modes : masks[<<i, m>>] = MySqlMask(s, i, m)
      /\ \A i \in 1 .. n, m \in Modes : walks[<<i, m>>] = MySqlSegments(s, i, m)
  BY DEF Scanner
<1>3. masks \in Takes(n)
  <2>1. masks = [at \in (1 .. n) \X Modes |-> MySqlMask(s, at[1], at[2])]
    BY DEF Scanner
  <2>2. \A at \in (1 .. n) \X Modes : MySqlMask(s, at[1], at[2]) \in PieceType
    BY MySqlMaskType
  <2> QED BY <2>1, <2>2 DEF Takes
<1>4. walks \in Takes(n)
  <2>1. walks = [at \in (1 .. n) \X Modes |-> MySqlSegments(s, at[1], at[2])]
    BY DEF Scanner
  <2>2. \A at \in (1 .. n) \X Modes : MySqlSegments(s, at[1], at[2]) \in PieceType
    BY MySqlSegmentsType
  <2> QED BY <2>1, <2>2 DEF Takes
<1>5. Follows(p, n, masks) /\ Follows(q, n, walks)
  <2> HIDE DEF masks, walks
  <2> QED BY <1>1, <1>3, <1>4, PiecesFollow
<1>6. /\ KindsOf(s, MySqlMask) = [i \in 1 .. n |-> p[i].kind]
      /\ KindsOf(s, MySqlSegments) = [i \in 1 .. n |-> q[i].kind]
  BY DEF KindsOf
<1> HIDE DEF p, q, masks, walks
<1>7. \A i \in 1 .. n : p[i] \in PieceType /\ q[i] \in PieceType /\ p[i].mode \in Modes /\ q[i].mode \in Modes
  BY <1>5 DEF Follows, PieceType
<1>8. n > 0 => 1 \in S
  <2> SUFFICES ASSUME n > 0 PROVE 1 \in S
    OBVIOUS
  <2>1. 1 \in 1 .. n /\ "code" \in Modes
    BY <1>1 DEF Modes
  <2>2. p[1] = MySqlMask(s, 1, "code") /\ q[1] = MySqlSegments(s, 1, "code")
    BY <1>2, <1>5, <2>1 DEF Follows
  <2> QED BY <2>1, <2>2, MySqlStep
<1>9. \A i \in 1 .. n - 1 : i \in S => i + 1 \in S
  <2> TAKE i \in 1 .. n - 1
  <2> HAVE i \in S
  <2>1. i \in 1 .. n /\ i + 1 \in 1 .. n /\ MySqlAlike(s, i, p[i], q[i])
    BY <1>1
  <2>2. p[i + 1] = IF p[i].take > 1 THEN Remainder(p[i]) ELSE MySqlMask(s, i + 1, p[i].mode)
    BY <1>2, <1>5, <1>7, <2>1 DEF Follows
  <2>3. q[i + 1] = IF q[i].take > 1 THEN Remainder(q[i]) ELSE MySqlSegments(s, i + 1, q[i].mode)
    BY <1>2, <1>5, <1>7, <2>1 DEF Follows
  <2>4. MySqlAlike(s, i + 1, p[i + 1], q[i + 1])
    BY <1>7, <2>1, <2>2, <2>3, MySqlNext
  <2> QED BY <2>1, <2>4
<1>10. \A i \in 1 .. n : i \in S
  <2> HIDE DEF S
  <2> QED BY <1>1, <1>8, <1>9, UpTheText
<1>11. \A i \in 1 .. n : IsHidden(p[i]) <=> IsHidden(q[i])
  BY <1>10, MySqlAlikeHidden
<1>12. Hidden([i \in 1 .. n |-> p[i].kind]) = Hidden([i \in 1 .. n |-> q[i].kind])
  <2> HIDE DEF n
  <2> QED BY <1>1, <1>11, HiddenAlike
<1> QED BY <1>6, <1>12

-----------------------------------------------------------------------------
(* Oracle *)

\* A q-quote starts at a q or an n, and its delimiter is two symbols on.
LEMMA QOpenIs ==
    ASSUME NEW s \in Texts, NEW i \in 1 .. Len(s), NEW identifier
    PROVE  LET open == QOpen(s, i, identifier)
           IN  open # 0 => open \in i + 2 .. Len(s) /\ s[i] \in {"q", "n"}
<1>1. Len(s) \in Nat
  BY DEF Texts
<1> DEFINE at == IF s[i] = "n" THEN i + 1 ELSE i
<1>2. at \in Nat \ {0} /\ (at = i \/ (at = i + 1 /\ s[i] = "n"))
  BY <1>1
<1> HIDE DEF at
<1>3. At(s, at, <<"q", "'">>) => s[at] = "q"
  BY <1>2, AtTwo
<1>4. QOpen(s, i, identifier) # 0
        => QOpen(s, i, identifier) = at + 2 /\ at + 2 <= Len(s) /\ At(s, at, <<"q", "'">>)
  BY <1>1, <1>2 DEF QOpen, at
<1> QED BY <1>1, <1>2, <1>3, <1>4

\* A q-quote that closes ends behind its delimiter.
LEMMA QEndIs ==
    ASSUME NEW s \in Texts, NEW open \in 1 .. Len(s)
    PROVE  QEnd(s, open) # 0 => QEnd(s, open) \in open + 1 .. Len(s) + 2
<1> DEFINE close == Find(s, open + 1, <<QCloser(s[open]), "'">>)
<1>1. Len(s) \in Nat /\ open + 1 \in Nat \ {0} /\ open + 1 <= Len(s) + 1
  BY DEF Texts
<1>2. close \in open + 1 .. Len(s) + 1
  BY <1>1, FindIs
<1>3. QEnd(s, open) = IF close > Len(s) THEN 0 ELSE close + 2
  BY DEF QEnd
<1> HIDE DEF close
<1> QED BY <1>1, <1>2, <1>3

LEMMA QQuoteType ==
    ASSUME NEW s \in Texts, NEW i \in 1 .. Len(s), NEW identifier,
           QOpen(s, i, identifier) # 0
    PROVE  /\ QEnd(s, QOpen(s, i, identifier)) # 0 =>
                Piece(QEnd(s, QOpen(s, i, identifier)) - i, "string", "code") \in PieceType
           /\ Piece(Len(s) + 1 - i, "string", "code") \in PieceType
<1> DEFINE open == QOpen(s, i, identifier)
           end == QEnd(s, open)
<1>1. Len(s) \in Nat
  BY DEF Texts
<1>2. open \in i + 2 .. Len(s)
  BY QOpenIs
<1> HIDE DEF open
<1>3. end # 0 => end \in open + 1 .. Len(s) + 2
  BY <1>1, <1>2, QEndIs
<1> HIDE DEF end
<1>4. end # 0 => end - i \in Nat \ {0}
  BY <1>1, <1>2, <1>3
<1>5. Len(s) + 1 - i \in Nat \ {0}
  BY <1>1
<1>6. "string" \in Kinds /\ "code" \in Modes
  BY DEF Kinds, Modes
<1> QED BY <1>4, <1>5, <1>6, PieceIs DEF open, end

LEMMA OracleMaskType ==
    ASSUME NEW s \in Texts, NEW i \in 1 .. Len(s), NEW mode \in Modes
    PROVE  OracleMask(s, i, mode) \in PieceType
<1> DEFINE open == QOpen(s, i, Letters)
           closed == open # 0 /\ QEnd(s, open) # 0
<1>1. (At(s, i, <<"-", "-">>) \/ Rem(s, i)) => LineComment(s, i) \in PieceType
  BY AtTwo, LineCommentType DEF Rem
<1>2. At(s, i, <<"/", "*">>) => BlockComment(s, i) \in PieceType
  BY BlockCommentType
<1>3. closed => Piece(QEnd(s, open) - i, "string", "code") \in PieceType
  BY QQuoteType
<1>4. Piece(1, "string", "'") \in PieceType /\ Piece(1, "code", "code") \in PieceType
  BY DEF Piece, PieceType, Kinds, Modes
<1>5. Delimited(s, i, "'", "string") \in PieceType
  BY DelimitedType DEF Modes, Kinds
<1> QED BY <1>1, <1>2, <1>3, <1>4, <1>5 DEF OracleMask

LEMMA OracleSegmentsType ==
    ASSUME NEW s \in Texts, NEW i \in 1 .. Len(s), NEW mode \in Modes
    PROVE  OracleSegments(s, i, mode) \in PieceType
<1> DEFINE open == QOfSegments(s, i)
           end == IF QEnd(s, open) = 0 THEN Len(s) + 1 ELSE QEnd(s, open)
<1>1. At(s, i, <<"-", "-">>) => LineComment(s, i) \in PieceType
  BY AtTwo, LineCommentType
<1>2. At(s, i, <<"/", "*">>) => BlockComment(s, i) \in PieceType
  BY BlockCommentType
<1>3. open # 0 => Piece(end - i, "string", "code") \in PieceType
  BY QQuoteType DEF QOfSegments
<1>4. Piece(1, "string", "'") \in PieceType /\ Piece(1, "code", "code") \in PieceType
  BY DEF Piece, PieceType, Kinds, Modes
<1>5. Delimited(s, i, "'", "string") \in PieceType
  BY DelimitedType DEF Modes, Kinds
<1>6. Piece(Past(s, i + 1, <<"dq">>) - i, "name", "code") \in PieceType
  BY WholeType DEF Kinds
<1> QED BY <1>1, <1>2, <1>3, <1>4, <1>5, <1>6 DEF OracleSegments

OracleModes == {"code", "'"}

LEMMA OracleStep ==
    ASSUME NEW s \in Texts, NEW i \in 1 .. Len(s), NEW mode \in OracleModes,
           \A j \in 1 .. Len(s) : s[j] \notin {"rem", "dq", "$"},
           LET open == QOpen(s, i, Letters) IN open # 0 => QEnd(s, open) # 0
    PROVE  /\ OracleMask(s, i, mode) = OracleSegments(s, i, mode)
           /\ OracleMask(s, i, mode).mode \in OracleModes
<1> DEFINE open == QOpen(s, i, Letters)
           closed == open # 0 /\ QEnd(s, open) # 0
<1>1. Len(s) \in Nat
  BY DEF Texts
<1>2. QOfSegments(s, i) = open
  <2>1. (i > 1 /\ s[i - 1] \in Letters) <=> (i > 1 /\ s[i - 1] \in Letters \cup {"$"})
    BY <1>1
  <2> QED BY <2>1 DEF QOfSegments, QOpen
<1>3. open # 0 => s[i] \in {"q", "n"}
  BY QOpenIs
<1>4. /\ At(s, i, <<"-", "-">>) => s[i] = "-"
      /\ At(s, i, <<"/", "*">>) => s[i] = "/"
      /\ ~Rem(s, i) /\ s[i] # "dq"
  BY AtTwo DEF Rem
<1>5. open # 0 <=> closed
  OBVIOUS
<1> HIDE DEF open
<1>6. CASE mode = "'"
  <2>1. OracleMask(s, i, mode) = Delimited(s, i, "'", "string")
    BY <1>6 DEF OracleMask
  <2>2. OracleSegments(s, i, mode) = Delimited(s, i, "'", "string")
    BY <1>6 DEF OracleSegments
  <2> QED BY <2>1, <2>2 DEF Delimited, Piece, OracleModes
<1>7. CASE mode = "code" /\ open # 0
  <2>1. OracleMask(s, i, mode) = Piece(QEnd(s, open) - i, "string", "code")
    BY <1>3, <1>4, <1>5, <1>7 DEF OracleMask, open
  <2>2. OracleSegments(s, i, mode) = Piece(QEnd(s, open) - i, "string", "code")
    <3>1. QOfSegments(s, i) # 0 /\ QEnd(s, QOfSegments(s, i)) # 0
      BY <1>2, <1>5, <1>7
    <3>2. OracleSegments(s, i, mode) = Piece(QEnd(s, QOfSegments(s, i)) - i, "string", "code")
      BY <1>3, <1>4, <1>7, <3>1 DEF OracleSegments
    <3> QED BY <1>2, <3>2
  <2> QED BY <2>1, <2>2 DEF Piece, OracleModes
<1>8. CASE mode = "code" /\ open = 0
  <2>1. OracleMask(s, i, mode)
          = CASE At(s, i, <<"-", "-">>) -> LineComment(s, i)
              [] At(s, i, <<"/", "*">>) -> BlockComment(s, i)
              [] s[i] = "'" -> Piece(1, "string", "'")
              [] OTHER -> Piece(1, "code", "code")
    BY <1>4, <1>8 DEF OracleMask, open
  <2>2. OracleSegments(s, i, mode)
          = CASE At(s, i, <<"-", "-">>) -> LineComment(s, i)
              [] At(s, i, <<"/", "*">>) -> BlockComment(s, i)
              [] s[i] = "'" -> Piece(1, "string", "'")
              [] OTHER -> Piece(1, "code", "code")
    BY <1>2, <1>4, <1>8 DEF OracleSegments
  <2> QED BY <1>4, <2>1, <2>2 DEF Piece, LineComment, BlockComment, OracleModes
<1> QED BY <1>6, <1>7, <1>8 DEF OracleModes

LEMMA OracleHidden ==
    ASSUME NEW s \in Texts,
           \A j \in 1 .. Len(s) : s[j] \notin {"rem", "dq", "$"},
           \A j \in 1 .. Len(s) :
                LET open == QOpen(s, j, Letters) IN open # 0 => QEnd(s, open) # 0
    PROVE  Hidden(KindsOf(s, OracleMask)) = Hidden(KindsOf(s, OracleSegments))
<1> DEFINE n == Len(s)
           masks == Scanner(s, OracleMask)
           walks == Scanner(s, OracleSegments)
           p == Pieces(n, masks)
           q == Pieces(n, walks)
           S == {i \in 1 .. n : p[i] = q[i] /\ p[i].mode \in OracleModes}
<1>1. n \in Nat
  BY DEF Texts
<1>2. /\ \A i \in 1 .. n, m \in Modes : masks[<<i, m>>] = OracleMask(s, i, m)
      /\ \A i \in 1 .. n, m \in Modes : walks[<<i, m>>] = OracleSegments(s, i, m)
  BY DEF Scanner
<1>3. masks \in Takes(n)
  <2>1. masks = [at \in (1 .. n) \X Modes |-> OracleMask(s, at[1], at[2])]
    BY DEF Scanner
  <2>2. \A at \in (1 .. n) \X Modes : OracleMask(s, at[1], at[2]) \in PieceType
    BY OracleMaskType
  <2> QED BY <2>1, <2>2 DEF Takes
<1>4. walks \in Takes(n)
  <2>1. walks = [at \in (1 .. n) \X Modes |-> OracleSegments(s, at[1], at[2])]
    BY DEF Scanner
  <2>2. \A at \in (1 .. n) \X Modes : OracleSegments(s, at[1], at[2]) \in PieceType
    BY OracleSegmentsType
  <2> QED BY <2>1, <2>2 DEF Takes
<1>5. Follows(p, n, masks) /\ Follows(q, n, walks)
  <2> HIDE DEF masks, walks
  <2> QED BY <1>1, <1>3, <1>4, PiecesFollow
<1>6. /\ KindsOf(s, OracleMask) = [i \in 1 .. n |-> p[i].kind]
      /\ KindsOf(s, OracleSegments) = [i \in 1 .. n |-> q[i].kind]
  BY DEF KindsOf
<1> HIDE DEF p, q, masks, walks
<1>7. \A i \in 1 .. n, m \in OracleModes :
        masks[<<i, m>>] = walks[<<i, m>>] /\ masks[<<i, m>>].mode \in OracleModes
  <2> TAKE i \in 1 .. n, m \in OracleModes
  <2>1. m \in Modes
    BY DEF OracleModes, Modes
  <2>2. OracleMask(s, i, m) = OracleSegments(s, i, m) /\ OracleMask(s, i, m).mode \in OracleModes
    BY OracleStep
  <2> QED BY <1>2, <2>1, <2>2
<1>8. n > 0 => 1 \in S
  <2> SUFFICES ASSUME n > 0 PROVE 1 \in S
    OBVIOUS
  <2>1. 1 \in 1 .. n /\ "code" \in OracleModes
    BY <1>1 DEF OracleModes
  <2>2. p[1] = masks[<<1, "code">>] /\ q[1] = walks[<<1, "code">>]
    BY <1>5 DEF Follows
  <2> QED BY <1>7, <2>1, <2>2
<1>9. \A i \in 1 .. n - 1 : i \in S => i + 1 \in S
  <2> TAKE i \in 1 .. n - 1
  <2> HAVE i \in S
  <2>1. i \in 1 .. n /\ i + 1 \in 1 .. n /\ p[i] = q[i] /\ p[i].mode \in OracleModes
    BY <1>1
  <2>2. p[i + 1] = IF p[i].take > 1 THEN Remainder(p[i]) ELSE masks[<<i + 1, p[i].mode>>]
    BY <1>5 DEF Follows
  <2>3. q[i + 1] = IF p[i].take > 1 THEN Remainder(p[i]) ELSE walks[<<i + 1, p[i].mode>>]
    BY <1>5, <2>1 DEF Follows
  <2>4. Remainder(p[i]).mode = p[i].mode
    BY DEF Remainder, Piece
  <2> QED BY <1>7, <2>1, <2>2, <2>3, <2>4
<1>10. \A i \in 1 .. n : i \in S
  <2> HIDE DEF S
  <2> QED BY <1>1, <1>8, <1>9, UpTheText
<1>11. \A i \in 1 .. n : IsHidden(p[i]) <=> IsHidden(q[i])
  BY <1>10
<1>12. Hidden([i \in 1 .. n |-> p[i].kind]) = Hidden([i \in 1 .. n |-> q[i].kind])
  <2> HIDE DEF n
  <2> QED BY <1>1, <1>11, HiddenAlike
<1> QED BY <1>6, <1>12

-----------------------------------------------------------------------------
(* T-SQL *)

\* The end of a nested comment, given the ends from later places on
NestedBody(s, past, j) ==
    IF j > Len(s) THEN j
    ELSE IF At(s, j, <<"/", "*">>) THEN past[past[j + 2]]
    ELSE IF At(s, j, <<"*", "/">>) THEN j + 2
    ELSE past[j + 1]

\* past tells it from the place k on.
NestedFrom(s, past, k) ==
    /\ past = [j \in k .. Len(s) + 1 |-> NestedBody(s, past, j)]
    /\ \A j \in k .. Len(s) + 1 : past[j] \in j .. Len(s) + 1

LEMMA NestedBodyIs ==
    ASSUME NEW s \in Texts, NEW k \in 1 .. Len(s), NEW past,
           \A j \in k + 1 .. Len(s) + 1 : past[j] \in j .. Len(s) + 1
    PROVE  NestedBody(s, past, k) \in k .. Len(s) + 1
<1>1. Len(s) \in Nat
  BY DEF Texts
<1>2. (At(s, k, <<"/", "*">>) \/ At(s, k, <<"*", "/">>)) => k < Len(s)
  BY AtTwo
<1>3. k < Len(s) => past[k + 2] \in k + 2 .. Len(s) + 1 /\ past[past[k + 2]] \in past[k + 2] .. Len(s) + 1
  BY <1>1
<1>4. past[k + 1] \in k + 1 .. Len(s) + 1
  BY <1>1
<1> QED BY <1>1, <1>2, <1>3, <1>4 DEF NestedBody

\* Comments in comments end: the recursion reads forward only.
LEMMA NestedExists ==
    ASSUME NEW s \in Texts
    PROVE  \E past : NestedFrom(s, past, 1)
<1> DEFINE n == Len(s)
           S == {k \in 1 .. n + 1 : \E past : NestedFrom(s, past, k)}
<1>1. n \in Nat
  BY DEF Texts
<1>2. n + 1 \in S
  <2> DEFINE f == [j \in n + 1 .. n + 1 |-> j]
  <2>1. \A j \in n + 1 .. n + 1 : NestedBody(s, f, j) = j
    BY <1>1 DEF NestedBody
  <2>2. NestedFrom(s, f, n + 1)
    BY <1>1, <2>1 DEF NestedFrom
  <2> HIDE DEF f
  <2> QED BY <1>1, <2>2
<1>3. \A k \in 1 .. (n + 1) - 1 : (\A j \in k + 1 .. n + 1 : j \in S) => k \in S
  <2> TAKE k \in 1 .. (n + 1) - 1
  <2> HAVE \A j \in k + 1 .. n + 1 : j \in S
  <2>1. k \in 1 .. n /\ k + 1 \in S
    BY <1>1
  <2>2. PICK f : NestedFrom(s, f, k + 1)
    BY <2>1
  <2> DEFINE g == [j \in k .. n + 1 |-> IF j = k THEN NestedBody(s, f, k) ELSE f[j]]
  <2>3. \A j \in k + 1 .. n + 1 : f[j] = NestedBody(s, f, j) /\ f[j] \in j .. n + 1
    <3> DEFINE body == [j \in k + 1 .. n + 1 |-> NestedBody(s, f, j)]
    <3>1. f = body /\ \A j \in k + 1 .. n + 1 : f[j] \in j .. n + 1
      BY <2>2 DEF NestedFrom
    <3>2. \A j \in k + 1 .. n + 1 : body[j] = NestedBody(s, f, j)
      OBVIOUS
    <3> HIDE DEF body
    <3> QED BY <3>1, <3>2
  <2>4. /\ g[k] = NestedBody(s, f, k)
        /\ \A j \in k + 1 .. n + 1 : g[j] = f[j]
        /\ g = [j \in k .. n + 1 |-> g[j]]
    BY <1>1, <2>1
  <2> HIDE DEF g
  <2>5. \A j \in k .. n + 1 : NestedBody(s, g, j) = NestedBody(s, f, j)
    <3> TAKE j \in k .. n + 1
    <3>1. CASE j > n
      BY <3>1 DEF NestedBody
    <3>2. CASE j <= n
      <4>1. j + 1 \in k + 1 .. n + 1
        BY <1>1, <2>1, <3>2
      <4>2. At(s, j, <<"/", "*">>) => j + 2 \in k + 1 .. n + 1
        BY <1>1, <2>1, <3>2, AtTwo
      <4>3. At(s, j, <<"/", "*">>) => f[j + 2] \in k + 1 .. n + 1
        BY <1>1, <2>1, <2>3, <4>2
      <4>4. At(s, j, <<"/", "*">>) => g[j + 2] = f[j + 2] /\ g[g[j + 2]] = f[f[j + 2]]
        BY <2>4, <4>2, <4>3
      <4>5. g[j + 1] = f[j + 1]
        BY <2>4, <4>1
      <4> QED BY <4>4, <4>5 DEF NestedBody
    <3> QED BY <1>1, <2>1, <3>1, <3>2
  <2>6. \A j \in k .. n + 1 : g[j] = NestedBody(s, g, j)
    <3> TAKE j \in k .. n + 1
    <3>1. j = k \/ j \in k + 1 .. n + 1
      BY <1>1, <2>1
    <3>2. g[j] = NestedBody(s, f, j)
      BY <2>3, <2>4, <3>1
    <3> QED BY <2>5, <3>2
  <2>7. g[k] \in k .. n + 1
    BY <2>1, <2>3, <2>4, NestedBodyIs
  <2>8. \A j \in k .. n + 1 : g[j] \in j .. n + 1
    <3> TAKE j \in k .. n + 1
    <3>1. j = k \/ j \in k + 1 .. n + 1
      BY <1>1, <2>1
    <3> QED BY <2>3, <2>4, <2>7, <3>1
  <2>9. NestedFrom(s, g, k)
    BY <2>4, <2>6, <2>8 DEF NestedFrom
  <2> QED BY <1>1, <2>1, <2>9
<1>4. \A k \in 1 .. n + 1 : k \in S
  <2> HIDE DEF S, n
  <2>1. n + 1 \in Nat
    BY <1>1
  <2> QED BY <1>2, <1>3, <2>1, DownTheText
<1> QED BY <1>1, <1>4

\* NestedEnd reads one such table.
LEMMA NestedTable ==
    ASSUME NEW s \in Texts
    PROVE  \E past : /\ \A j \in 1 .. Len(s) + 1 : past[j] = NestedBody(s, past, j)
                     /\ \A j \in 1 .. Len(s) + 1 : past[j] \in j .. Len(s) + 1
                     /\ \A i : NestedEnd(s, i) = past[i + 2]
<1> DEFINE Is(past) == past = [j \in 1 .. Len(s) + 1 |-> NestedBody(s, past, j)]
           past == CHOOSE f : Is(f)
<1>1. Is(past)
  <2>1. \E f : Is(f)
    BY NestedExists DEF NestedFrom
  <2> QED BY <2>1
<1>2. \A i : NestedEnd(s, i) = past[i + 2]
  BY DEF NestedEnd, NestedBody
<1>3. \A j \in 1 .. Len(s) + 1 : past[j] = NestedBody(s, past, j)
  <2> DEFINE body == [j \in 1 .. Len(s) + 1 |-> NestedBody(s, past, j)]
  <2>1. \A j \in 1 .. Len(s) + 1 : body[j] = NestedBody(s, past, j)
    OBVIOUS
  <2>2. past = body
    BY <1>1
  <2> HIDE DEF past, body
  <2> QED BY <2>1, <2>2
<1> HIDE DEF past
<1> DEFINE n == Len(s)
           S == {j \in 1 .. n + 1 : past[j] \in j .. n + 1}
<1>4. n \in Nat /\ n + 1 \in Nat
  BY DEF Texts
<1>5. n + 1 \in S
  BY <1>3, <1>4 DEF NestedBody
<1>6. \A k \in 1 .. (n + 1) - 1 : (\A j \in k + 1 .. n + 1 : j \in S) => k \in S
  <2> TAKE k \in 1 .. (n + 1) - 1
  <2> HAVE \A j \in k + 1 .. n + 1 : j \in S
  <2>1. k \in 1 .. n
    BY <1>4
  <2>2. NestedBody(s, past, k) \in k .. n + 1
    BY <2>1, NestedBodyIs
  <2> QED BY <1>3, <1>4, <2>1, <2>2
<1>7. \A j \in 1 .. n + 1 : j \in S
  <2> HIDE DEF S, n
  <2> QED BY <1>4, <1>5, <1>6, DownTheText
<1> QED BY <1>2, <1>3, <1>7

LEMMA NestedEndType ==
    ASSUME NEW s \in Texts, NEW i \in 1 .. Len(s), i < Len(s)
    PROVE  NestedEnd(s, i) \in i + 2 .. Len(s) + 1
<1>1. Len(s) \in Nat /\ i + 2 \in 1 .. Len(s) + 1
  BY DEF Texts
<1> QED BY <1>1, NestedTable

\* With no comment inside, a nested comment is a plain one.
LEMMA NestedEndIs ==
    ASSUME NEW s \in Texts, NEW i \in 1 .. Len(s), i < Len(s),
           \A j \in i + 2 .. NestedEnd(s, i) - 1 : ~At(s, j, <<"/", "*">>)
    PROVE  NestedEnd(s, i) = Past(s, i + 2, <<"*", "/">>)
<1> DEFINE n == Len(s)
           close == Find(s, i + 2, <<"*", "/">>)
           end == NestedEnd(s, i)
           first == i + 2
<1>1. n \in Nat /\ first \in 1 .. n + 1 /\ first \in Nat \ {0} /\ first <= n + 1
  BY DEF Texts
<1>2. PICK past : /\ \A j \in 1 .. n + 1 : past[j] = NestedBody(s, past, j)
                  /\ \A j \in 1 .. n + 1 : past[j] \in j .. n + 1
                  /\ \A k : NestedEnd(s, k) = past[k + 2]
  BY NestedTable
<1>3. /\ close \in first .. n + 1
      /\ \A j \in first .. close - 1 : ~At(s, j, <<"*", "/">>)
      /\ close <= n => At(s, close, <<"*", "/">>)
  BY <1>1, FindIs
<1>4. Past(s, first, <<"*", "/">>) = IF close + 2 <= n + 1 THEN close + 2 ELSE n + 1
  <2>1. Len(<<"*", "/">>) = 2
    OBVIOUS
  <2> QED BY <1>1, <2>1, PastIs
<1>5. end = past[first] /\ \A j \in first .. end - 1 : ~At(s, j, <<"/", "*">>)
  BY <1>2
<1> HIDE DEF close, end, first
<1> DEFINE S == {j \in first .. close : past[j] = end}
<1>6. first \in S
  BY <1>1, <1>3, <1>5
<1>7. \A j \in first .. close - 1 : j \in S => j + 1 \in S
  <2> TAKE j \in first .. close - 1
  <2> HAVE j \in S
  <2>1. /\ j \in 1 .. n /\ j + 1 \in first .. close /\ ~At(s, j, <<"*", "/">>)
        /\ past[j] = end /\ past[j] = NestedBody(s, past, j)
    BY <1>1, <1>2, <1>3
  <2>2. ~At(s, j, <<"/", "*">>)
    <3> SUFFICES ASSUME At(s, j, <<"/", "*">>) PROVE FALSE
      OBVIOUS
    <3>1. j < n
      BY <2>1, AtTwo
    <3>2. j + 2 \in 1 .. n + 1
      BY <1>1, <2>1, <3>1
    <3>3. past[j + 2] \in j + 2 .. n + 1
      BY <1>2, <3>2
    <3>4. past[j + 2] \in 1 .. n + 1
      BY <2>1, <3>3
    <3>5. past[past[j + 2]] \in past[j + 2] .. n + 1
      BY <1>2, <3>4
    <3>6. end = past[past[j + 2]]
      BY <1>1, <2>1 DEF NestedBody
    <3>7. j \in first .. end - 1
      <4>1. past[j + 2] \in Nat /\ j + 2 <= past[j + 2]
        BY <2>1, <3>3
      <4>2. end \in Nat /\ past[j + 2] <= end
        BY <1>1, <3>5, <3>6, <4>1
      <4> QED BY <1>1, <2>1, <4>1, <4>2
    <3> QED BY <1>5, <3>7
  <2>3. NestedBody(s, past, j) = past[j + 1]
    BY <1>1, <2>1, <2>2 DEF NestedBody
  <2> QED BY <2>1, <2>3
<1>8. past[close] = end
  <2> HIDE DEF S
  <2>1. close \in Nat /\ first \in 1 .. close
    BY <1>1, <1>3
  <2>2. \A j \in first .. close : j \in S
    BY <1>6, <1>7, <2>1, ToTheEnd
  <2>3. close \in first .. close
    BY <1>1, <1>3
  <2> QED BY <2>2, <2>3 DEF S
<1>9. close \in 1 .. n + 1 /\ past[close] = NestedBody(s, past, close)
  BY <1>1, <1>2, <1>3
<1>10. CASE close > n
  <2>1. end = close /\ close = n + 1
    BY <1>1, <1>8, <1>9, <1>10 DEF NestedBody
  <2> QED BY <1>1, <1>4, <2>1 DEF end, first
<1>11. CASE close <= n
  <2>1. At(s, close, <<"*", "/">>) /\ close \in Nat \ {0}
    BY <1>1, <1>3, <1>9, <1>11
  <2>2. s[close] = "*" /\ close < n
    BY <2>1, AtTwo
  <2>3. ~At(s, close, <<"/", "*">>)
    BY <2>1, <2>2, AtTwo
  <2>4. end = close + 2
    BY <1>1, <1>8, <1>9, <1>11, <2>1, <2>3 DEF NestedBody
  <2> QED BY <1>1, <1>4, <2>1, <2>2, <2>4 DEF end, first
<1> QED BY <1>1, <1>9, <1>10, <1>11

\* The end of a bracketed name, given the ends from later places on
BracketBody(s, from, j) ==
    IF j > Len(s) \/ s[j] = "nl" THEN 0
    ELSE IF At(s, j, <<"]", "]">>) THEN from[j + 2]
    ELSE IF s[j] = "]" THEN j + 1
    ELSE from[j + 1]

LEMMA BracketExists ==
    ASSUME NEW s \in Texts
    PROVE  \E from : from = [j \in 1 .. Len(s) + 1 |-> BracketBody(s, from, j)]
<1> DEFINE n == Len(s)
           From(from, k) == from = [j \in k .. n + 1 |-> BracketBody(s, from, j)]
           S == {k \in 1 .. n + 1 : \E from : From(from, k)}
<1>1. n \in Nat
  BY DEF Texts
<1>2. n + 1 \in S
  <2> DEFINE f == [j \in n + 1 .. n + 1 |-> 0]
  <2>1. \A j \in n + 1 .. n + 1 : BracketBody(s, f, j) = 0
    BY <1>1 DEF BracketBody
  <2>2. From(f, n + 1)
    BY <1>1, <2>1
  <2> HIDE DEF f, From
  <2> QED BY <1>1, <2>2
<1>3. \A k \in 1 .. (n + 1) - 1 : (\A j \in k + 1 .. n + 1 : j \in S) => k \in S
  <2> TAKE k \in 1 .. (n + 1) - 1
  <2> HAVE \A j \in k + 1 .. n + 1 : j \in S
  <2>1. k \in 1 .. n /\ k + 1 \in S
    BY <1>1
  <2>2. PICK f : From(f, k + 1)
    BY <2>1
  <2> DEFINE g == [j \in k .. n + 1 |-> IF j = k THEN BracketBody(s, f, k) ELSE f[j]]
  <2>3. \A j \in k + 1 .. n + 1 : f[j] = BracketBody(s, f, j)
    <3> DEFINE body == [j \in k + 1 .. n + 1 |-> BracketBody(s, f, j)]
    <3>1. f = body
      BY <2>2
    <3>2. \A j \in k + 1 .. n + 1 : body[j] = BracketBody(s, f, j)
      OBVIOUS
    <3> HIDE DEF body
    <3> QED BY <3>1, <3>2
  <2>4. /\ g[k] = BracketBody(s, f, k)
        /\ \A j \in k + 1 .. n + 1 : g[j] = f[j]
        /\ g = [j \in k .. n + 1 |-> g[j]]
    BY <1>1, <2>1
  <2> HIDE DEF g
  <2>5. \A j \in k .. n + 1 : BracketBody(s, g, j) = BracketBody(s, f, j)
    <3> TAKE j \in k .. n + 1
    <3>1. CASE j > n
      BY <3>1 DEF BracketBody
    <3>2. CASE j <= n
      <4>1. j + 1 \in k + 1 .. n + 1
        BY <1>1, <2>1, <3>2
      <4>2. At(s, j, <<"]", "]">>) => j + 2 \in k + 1 .. n + 1
        BY <1>1, <2>1, <3>2, AtTwo
      <4> QED BY <2>4, <4>1, <4>2 DEF BracketBody
    <3> QED BY <1>1, <2>1, <3>1, <3>2
  <2>6. \A j \in k .. n + 1 : g[j] = BracketBody(s, g, j)
    <3> TAKE j \in k .. n + 1
    <3>1. j = k \/ j \in k + 1 .. n + 1
      BY <1>1, <2>1
    <3>2. g[j] = BracketBody(s, f, j)
      BY <2>3, <2>4, <3>1
    <3> QED BY <2>5, <3>2
  <2>7. From(g, k)
    BY <2>4, <2>6
  <2> HIDE DEF From
  <2> QED BY <1>1, <2>1, <2>7
<1>4. \A k \in 1 .. n + 1 : k \in S
  <2> HIDE DEF S, n
  <2>1. n + 1 \in Nat
    BY <1>1
  <2> QED BY <1>2, <1>3, <2>1, DownTheText
<1>5. 1 \in S
  BY <1>1, <1>4
<1> QED BY <1>5

\* BracketEnd reads one such table: 0, or a place behind the one it is read from.
LEMMA BracketTable ==
    ASSUME NEW s \in Texts
    PROVE  \E from : /\ \A j \in 1 .. Len(s) + 1 : from[j] = BracketBody(s, from, j)
                     /\ \A j \in 1 .. Len(s) + 1 : from[j] \in {0} \cup (j + 1 .. Len(s) + 1)
                     /\ \A i : BracketEnd(s, i) = from[i + 1]
<1> DEFINE Is(from) == from = [j \in 1 .. Len(s) + 1 |-> BracketBody(s, from, j)]
           from == CHOOSE f : Is(f)
<1>1. Is(from)
  <2>1. \E f : Is(f)
    BY BracketExists
  <2> QED BY <2>1
<1>2. \A i : BracketEnd(s, i) = from[i + 1]
  BY DEF BracketEnd, BracketBody
<1>3. \A j \in 1 .. Len(s) + 1 : from[j] = BracketBody(s, from, j)
  <2> DEFINE body == [j \in 1 .. Len(s) + 1 |-> BracketBody(s, from, j)]
  <2>1. \A j \in 1 .. Len(s) + 1 : body[j] = BracketBody(s, from, j)
    OBVIOUS
  <2>2. from = body
    BY <1>1
  <2> HIDE DEF from, body
  <2> QED BY <2>1, <2>2
<1> HIDE DEF from
<1> DEFINE n == Len(s)
           S == {j \in 1 .. n + 1 : from[j] \in {0} \cup (j + 1 .. n + 1)}
<1>4. n \in Nat /\ n + 1 \in Nat
  BY DEF Texts
<1>5. n + 1 \in S
  BY <1>3, <1>4 DEF BracketBody
<1>6. \A k \in 1 .. (n + 1) - 1 : (\A j \in k + 1 .. n + 1 : j \in S) => k \in S
  <2> TAKE k \in 1 .. (n + 1) - 1
  <2> HAVE \A j \in k + 1 .. n + 1 : j \in S
  <2>1. k \in 1 .. n /\ k + 1 \in k + 1 .. n + 1 /\ (k < n => k + 2 \in k + 1 .. n + 1)
    BY <1>4
  <2>2. At(s, k, <<"]", "]">>) => k < n
    BY <2>1, AtTwo
  <2>3. from[k + 1] \in {0} \cup ((k + 1) + 1 .. n + 1)
    BY <2>1
  <2>4. k < n => from[k + 2] \in {0} \cup ((k + 2) + 1 .. n + 1)
    BY <2>1
  <2>5. BracketBody(s, from, k) \in {0} \cup (k + 1 .. n + 1)
    BY <1>4, <2>1, <2>2, <2>3, <2>4 DEF BracketBody
  <2> QED BY <1>3, <1>4, <2>1, <2>5
<1>7. \A j \in 1 .. n + 1 : j \in S
  <2> HIDE DEF S, n
  <2> QED BY <1>4, <1>5, <1>6, DownTheText
<1> QED BY <1>2, <1>3, <1>7

LEMMA MsSqlMaskType ==
    ASSUME NEW s \in Texts, NEW i \in 1 .. Len(s), NEW mode \in Modes
    PROVE  MsSqlMask(s, i, mode) \in PieceType
<1>1. Len(s) \in Nat
  BY DEF Texts
<1>2. At(s, i, <<"-", "-">>) => LineComment(s, i) \in PieceType
  BY AtTwo, LineCommentType
<1>3. At(s, i, <<"/", "*">>) => Piece(NestedEnd(s, i) - i, "comment", "code") \in PieceType
  <2> SUFFICES ASSUME At(s, i, <<"/", "*">>)
               PROVE  Piece(NestedEnd(s, i) - i, "comment", "code") \in PieceType
    OBVIOUS
  <2>1. NestedEnd(s, i) \in i + 2 .. Len(s) + 1
    BY AtTwo, NestedEndType
  <2>2. NestedEnd(s, i) - i \in Nat \ {0}
    BY <1>1, <2>1
  <2> QED BY <2>2, PieceIs DEF Kinds, Modes
<1>4. /\ Piece(1, "name", "]") \in PieceType /\ Piece(1, "name", "dq") \in PieceType
      /\ Piece(1, "string", "'") \in PieceType /\ Piece(1, "code", "code") \in PieceType
  BY DEF Piece, PieceType, Kinds, Modes
<1>5. Delimited(s, i, "'", "string") \in PieceType /\ Delimited(s, i, mode, "name") \in PieceType
  BY DelimitedType DEF Modes, Kinds
<1> QED BY <1>2, <1>3, <1>4, <1>5 DEF MsSqlMask

LEMMA MsSqlBracketsType ==
    ASSUME NEW s \in Texts, NEW i \in 1 .. Len(s), NEW mode \in Modes
    PROVE  MsSqlBrackets(s, i, mode) \in PieceType
<1>1. Len(s) \in Nat /\ i + 1 \in 1 .. Len(s) + 1
  BY DEF Texts
<1>2. At(s, i, <<"-", "-">>) => LineComment(s, i) \in PieceType
  BY AtTwo, LineCommentType
<1>3. At(s, i, <<"/", "*">>) => BlockComment(s, i) \in PieceType
  BY BlockCommentType
<1>4. Piece(1, "string", "'") \in PieceType /\ Piece(1, "code", "code") \in PieceType
  BY DEF Piece, PieceType, Kinds, Modes
<1>5. Delimited(s, i, "'", "string") \in PieceType
  BY DelimitedType DEF Modes, Kinds
<1>6. Piece(Past(s, i + 1, <<"dq">>) - i, "name", "code") \in PieceType
  BY WholeType DEF Kinds
<1>7. Bracketed(s, i) => Piece(BracketEnd(s, i) - i, "bracket", "code") \in PieceType
  <2> SUFFICES ASSUME Bracketed(s, i)
               PROVE  Piece(BracketEnd(s, i) - i, "bracket", "code") \in PieceType
    OBVIOUS
  <2>1. BracketEnd(s, i) \in {0} \cup ((i + 1) + 1 .. Len(s) + 1)
    BY <1>1, BracketTable
  <2>2. BracketEnd(s, i) - i \in Nat \ {0}
    BY <1>1, <2>1 DEF Bracketed
  <2> QED BY <2>2, PieceIs DEF Kinds, Modes
<1> QED BY <1>2, <1>3, <1>4, <1>5, <1>6, <1>7 DEF MsSqlBrackets

\* pieces is what the scanner of the detectors reads s as.
MsSqlRead(s, pieces) ==
    /\ pieces \in [1 .. Len(s) -> PieceType]
    /\ Len(s) > 0 => pieces[1] = MsSqlMask(s, 1, "code")
    /\ \A i \in 1 .. Len(s) - 1 :
            pieces[i + 1] = IF pieces[i].take > 1 THEN Remainder(pieces[i])
                            ELSE MsSqlMask(s, i + 1, pieces[i].mode)

\* A piece is of one kind to its end.
LEMMA PieceLasts ==
    ASSUME NEW n \in Nat, NEW p \in [1 .. n -> PieceType],
           \A k \in 1 .. n - 1 : p[k].take > 1 => p[k + 1] = Remainder(p[k]),
           NEW i \in 1 .. n, NEW j \in i .. n, j < i + p[i].take
    PROVE  p[j].kind = p[i].kind /\ p[j].take = p[i].take - (j - i)
<1> DEFINE S == {k \in i .. j : p[k].kind = p[i].kind /\ p[k].take = p[i].take - (k - i)}
<1>1. j \in Nat /\ i \in 1 .. j
  OBVIOUS
<1>2. \A k \in 1 .. n : p[k].take \in Nat
  BY DEF PieceType
<1>3. i \in S
  BY <1>1, <1>2
<1>4. \A k \in i .. j - 1 : k \in S => k + 1 \in S
  <2> TAKE k \in i .. j - 1
  <2> HAVE k \in S
  <2>1. k \in 1 .. n - 1 /\ k + 1 \in i .. j
    BY <1>1
  <2>2. p[k].kind = p[i].kind /\ p[k].take = p[i].take - (k - i)
    OBVIOUS
  <2>3. p[k].take > 1
    BY <1>1, <1>2, <2>1, <2>2
  <2>4. p[k + 1] = Remainder(p[k])
    BY <2>1, <2>3
  <2>5. p[k + 1].kind = p[k].kind /\ p[k + 1].take = p[k].take - 1
    BY <2>4 DEF Remainder, Piece
  <2> QED BY <1>1, <1>2, <2>1, <2>2, <2>5
<1>5. \A k \in i .. j : k \in S
  <2> HIDE DEF S
  <2> QED BY <1>1, <1>3, <1>4, ToTheEnd
<1> QED BY <1>1, <1>5

\* A comment without a comment in it is one for both scanners.
LEMMA FlatComment ==
    ASSUME NEW s \in Texts, NEW p, MsSqlRead(s, p), NEW i \in 1 .. Len(s),
           p[i] = MsSqlMask(s, i, "code"), At(s, i, <<"/", "*">>),
           ~\E k, j \in 1 .. Len(s) :
                /\ k + 1 < j /\ At(s, k, <<"/", "*">>) /\ At(s, j, <<"/", "*">>)
                /\ \A m \in k .. j : p[m].kind = "comment"
    PROVE  NestedEnd(s, i) = Past(s, i + 2, <<"*", "/">>)
<1>1. Len(s) \in Nat /\ i < Len(s) /\ s[i] = "/"
  BY AtTwo DEF Texts
<1>2. NestedEnd(s, i) \in i + 2 .. Len(s) + 1
  BY <1>1, NestedEndType
<1>3. p[i] = Piece(NestedEnd(s, i) - i, "comment", "code")
  <2>1. ~At(s, i, <<"-", "-">>)
    BY <1>1, AtTwo
  <2> QED BY <1>1, <2>1 DEF MsSqlMask
<1>4. p[i].kind = "comment" /\ p[i].take = NestedEnd(s, i) - i
  BY <1>3 DEF Piece
<1>5. ASSUME NEW j \in i + 2 .. NestedEnd(s, i) - 1, At(s, j, <<"/", "*">>) PROVE FALSE
  <2>1. j \in 1 .. Len(s) /\ i + 1 < j
    BY <1>1, <1>2
  <2>2. ASSUME NEW m \in i .. j PROVE p[m].kind = "comment"
    <3>1. m \in i .. Len(s) /\ m < i + p[i].take
      BY <1>1, <1>2, <1>4, <2>1
    <3>2. /\ p \in [1 .. Len(s) -> PieceType] /\ Len(s) \in Nat /\ i \in 1 .. Len(s)
          /\ \A k \in 1 .. Len(s) - 1 : p[k].take > 1 => p[k + 1] = Remainder(p[k])
      BY <1>1 DEF MsSqlRead
    <3> QED BY <1>4, <3>1, <3>2, PieceLasts
  <2> QED BY <1>5, <2>1, <2>2
<1> QED BY <1>1, <1>5, NestedEndIs

\* In a finished text without a name over two lines, a bracket closes on its line.
LEMMA BracketCloses ==
    ASSUME NEW s \in Texts, NEW p, MsSqlRead(s, p), NEW i \in 1 .. Len(s),
           p[i] = MsSqlMask(s, i, "code"), s[i] = "[",
           ~\E k \in 1 .. Len(s) : s[k] = "nl" /\ p[k].kind = "name",
           p[Len(s)].mode = "code"
    PROVE  BracketEnd(s, i) # 0
<1> DEFINE n == Len(s)
<1>1. n \in Nat
  BY DEF Texts
<1>2. PICK from : /\ \A j \in 1 .. n + 1 : from[j] = BracketBody(s, from, j)
                  /\ \A j : BracketEnd(s, j) = from[j + 1]
  BY BracketTable
<1> SUFFICES ASSUME from[i + 1] = 0 PROVE FALSE
  BY <1>2
<1> DEFINE Open(k) == /\ p[k].kind = "name" /\ p[k].mode = "]"
                      /\ \/ p[k].take = 1 /\ from[k + 1] = 0
                         \/ p[k].take = 2 /\ from[k + 2] = 0
           S == {k \in i .. n : Open(k)}
<1>3. i \in S
  <2>1. ~At(s, i, <<"-", "-">>) /\ ~At(s, i, <<"/", "*">>)
    BY AtTwo
  <2>2. p[i] = Piece(1, "name", "]")
    BY <2>1 DEF MsSqlMask
  <2> QED BY <1>1, <2>2 DEF Piece
<1>4. \A k \in i .. n - 1 : k \in S => k + 1 \in S
  <2> TAKE k \in i .. n - 1
  <2> HAVE k \in S
  <2>1. /\ k \in 1 .. n - 1 /\ k + 1 \in 1 .. n /\ k + 1 \in i .. n
        /\ (k + 1) + 1 = k + 2 /\ (k + 1) + 2 = k + 3
    BY <1>1
  <2>2. Open(k)
    OBVIOUS
  <2>3. CASE p[k].take = 2 /\ from[k + 2] = 0
    <3>1. p[k + 1] = Remainder(p[k])
      BY <2>1, <2>3 DEF MsSqlRead
    <3>2. p[k + 1] = Piece(1, "name", "]")
      BY <2>2, <2>3, <3>1 DEF Remainder
    <3> QED BY <2>1, <2>3, <3>2 DEF Piece
  <2>4. CASE p[k].take = 1 /\ from[k + 1] = 0
    <3>1. p[k + 1] = Delimited(s, k + 1, "]", "name")
      <4>1. p[k + 1] = MsSqlMask(s, k + 1, "]")
        BY <2>1, <2>2, <2>4 DEF MsSqlRead
      <4> QED BY <4>1 DEF MsSqlMask
    <3>2. s[k + 1] # "nl"
      <4>1. p[k + 1].kind = "name"
        BY <3>1 DEF Delimited, Piece
      <4> QED BY <2>1, <4>1
    <3>3. BracketBody(s, from, k + 1) = 0
      <4>1. k + 1 \in 1 .. n + 1
        BY <1>1, <2>1
      <4> QED BY <1>2, <2>4, <4>1
    <3>4. CASE At(s, k + 1, <<"]", "]">>)
      <4>1. p[k + 1] = Piece(2, "name", "]")
        BY <3>1, <3>4 DEF Delimited
      <4>2. from[(k + 1) + 2] = 0
        BY <1>1, <2>1, <3>2, <3>3, <3>4 DEF BracketBody
      <4> QED BY <2>1, <4>1, <4>2 DEF Piece
    <3>5. CASE ~At(s, k + 1, <<"]", "]">>)
      <4>1. s[k + 1] # "]" /\ from[(k + 1) + 1] = 0
        BY <1>1, <2>1, <3>2, <3>3, <3>5 DEF BracketBody
      <4>2. p[k + 1] = Piece(1, "name", "]")
        BY <3>1, <3>5, <4>1 DEF Delimited
      <4> QED BY <2>1, <4>1, <4>2 DEF Piece
    <3> QED BY <3>4, <3>5
  <2> QED BY <2>2, <2>3, <2>4
<1>5. \A k \in i .. n : k \in S
  <2> HIDE DEF S, n
  <2> QED BY <1>1, <1>3, <1>4, ToTheEnd
<1>6. Open(n)
  BY <1>1, <1>5
<1> QED BY <1>6

\* In a bracketed name, which p takes symbol by symbol and q whole, to the end the
\* table from tells; a name with nothing in it is code to q.
InBracket(s, i, p, q, from) ==
    /\ p.kind = "name" /\ q.kind = "bracket" /\ p.mode = "]" /\ q.mode = "code"
    /\ \/ p.take = 1 /\ from[i + 1] # 0 /\ q.take = from[i + 1] - i
       \/ p.take = 2 /\ i < Len(s) /\ from[i + 2] # 0 /\ q.take = from[i + 2] - i

InEmptyBrackets(s, i, p, q) ==
    /\ p.kind = "name" /\ p.take = 1 /\ p.mode = "]"
    /\ q.kind = "code" /\ q.take = 1 /\ q.mode = "code"
    /\ i < Len(s) /\ s[i + 1] = "]" /\ ~At(s, i + 1, <<"]", "]">>)

MsSqlAlike(s, i, p, q, from) ==
    \/ SamePiece(p, q, {"code", "'"}) \/ InName(s, i, p, q, "dq")
    \/ InBracket(s, i, p, q, from) \/ InEmptyBrackets(s, i, p, q)

IsBracketTable(s, from) ==
    /\ \A j \in 1 .. Len(s) + 1 : from[j] = BracketBody(s, from, j)
    /\ \A j \in 1 .. Len(s) + 1 : from[j] \in {0} \cup (j + 1 .. Len(s) + 1)
    /\ \A i : BracketEnd(s, i) = from[i + 1]

LEMMA EmptyBrackets ==
    ASSUME NEW s \in Texts, NEW i \in 1 .. Len(s), NEW from, IsBracketTable(s, from),
           BracketEnd(s, i) = i + 2
    PROVE  i < Len(s) /\ s[i + 1] = "]" /\ ~At(s, i + 1, <<"]", "]">>)
<1> DEFINE n == Len(s)
<1>1. n \in Nat /\ i + 1 \in 1 .. n + 1 /\ (i + 1) + 1 = i + 2 /\ (i + 1) + 2 = i + 3
  BY DEF Texts
<1>2. BracketBody(s, from, i + 1) = i + 2
  BY <1>1 DEF IsBracketTable
<1>3. i < n
  BY <1>1, <1>2 DEF BracketBody
<1>4. ~At(s, i + 1, <<"]", "]">>)
  <2> SUFFICES ASSUME At(s, i + 1, <<"]", "]">>) PROVE FALSE
    OBVIOUS
  <2>1. i + 1 < n
    BY <1>1, AtTwo
  <2>2. i + 3 \in 1 .. n + 1
    BY <1>1, <2>1
  <2>3. from[i + 3] = 0 \/ from[i + 3] \in (i + 3) + 1 .. n + 1
    BY <2>2 DEF IsBracketTable
  <2>4. BracketBody(s, from, i + 1) = 0 \/ BracketBody(s, from, i + 1) = from[i + 3]
    BY <1>1, <2>1 DEF BracketBody
  <2> QED BY <1>1, <1>2, <2>3, <2>4
<1>5. s[i + 1] = "]"
  <2> SUFFICES ASSUME s[i + 1] # "]" PROVE FALSE
    OBVIOUS
  <2>1. i + 2 \in 1 .. n + 1
    BY <1>1, <1>3
  <2>2. from[i + 2] = 0 \/ from[i + 2] \in (i + 2) + 1 .. n + 1
    BY <2>1 DEF IsBracketTable
  <2>3. BracketBody(s, from, i + 1) = 0 \/ BracketBody(s, from, i + 1) = from[i + 2]
    BY <1>1, <1>3, <1>4 DEF BracketBody
  <2> QED BY <1>1, <1>2, <2>2, <2>3
<1> QED BY <1>3, <1>4, <1>5

LEMMA MsSqlStep ==
    ASSUME NEW s \in Texts, NEW i \in 1 .. Len(s), NEW mode \in {"code", "'"},
           NEW from, IsBracketTable(s, from),
           mode = "code" /\ At(s, i, <<"/", "*">>) =>
                NestedEnd(s, i) = Past(s, i + 2, <<"*", "/">>),
           mode = "code" /\ s[i] = "[" => BracketEnd(s, i) # 0
    PROVE  MsSqlAlike(s, i, MsSqlMask(s, i, mode), MsSqlBrackets(s, i, mode), from)
<1> DEFINE p == MsSqlMask(s, i, mode)
           q == MsSqlBrackets(s, i, mode)
<1>1. /\ At(s, i, <<"-", "-">>) => s[i] = "-"
      /\ At(s, i, <<"/", "*">>) => s[i] = "/"
      /\ Bracketed(s, i) => s[i] = "["
  BY AtTwo DEF Bracketed
<1>2. CASE mode = "'"
  <2>1. p = Delimited(s, i, "'", "string") /\ q = Delimited(s, i, "'", "string")
    BY <1>2 DEF MsSqlMask, MsSqlBrackets
  <2>2. Delimited(s, i, "'", "string").mode \in {"code", "'"}
    BY DEF Delimited, Piece
  <2> QED BY <2>1, <2>2 DEF MsSqlAlike, SamePiece
<1>3. CASE mode = "code" /\ At(s, i, <<"-", "-">>)
  <2>1. p = LineComment(s, i) /\ q = LineComment(s, i)
    BY <1>1, <1>3 DEF MsSqlMask, MsSqlBrackets
  <2> QED BY <2>1 DEF MsSqlAlike, SamePiece, LineComment, Piece
<1>4. CASE mode = "code" /\ At(s, i, <<"/", "*">>)
  <2>1. p = Piece(NestedEnd(s, i) - i, "comment", "code")
    BY <1>1, <1>4 DEF MsSqlMask
  <2>2. q = BlockComment(s, i)
    BY <1>1, <1>4 DEF MsSqlBrackets
  <2> QED BY <1>4, <2>1, <2>2 DEF MsSqlAlike, SamePiece, BlockComment, Piece
<1>5. CASE mode = "code" /\ s[i] = "'"
  <2>1. p = Piece(1, "string", "'") /\ q = Piece(1, "string", "'")
    BY <1>1, <1>5 DEF MsSqlMask, MsSqlBrackets
  <2> QED BY <2>1 DEF MsSqlAlike, SamePiece, Piece
<1>6. CASE mode = "code" /\ s[i] = "dq"
  <2>1. p = Piece(1, "name", "dq")
    BY <1>1, <1>6 DEF MsSqlMask
  <2>2. q = Piece(Past(s, i + 1, <<"dq">>) - i, "name", "code")
    BY <1>1, <1>6 DEF MsSqlBrackets
  <2> QED BY <2>1, <2>2 DEF MsSqlAlike, InName, Piece
<1>7. CASE mode = "code" /\ s[i] = "["
  <2>1. p = Piece(1, "name", "]")
    BY <1>1, <1>7 DEF MsSqlMask
  <2>2. BracketEnd(s, i) = from[i + 1] /\ BracketEnd(s, i) # 0
    BY <1>7 DEF IsBracketTable
  <2>3. CASE BracketEnd(s, i) > i + 2
    <3>1. q = Piece(BracketEnd(s, i) - i, "bracket", "code")
      BY <1>1, <1>7, <2>3 DEF MsSqlBrackets, Bracketed
    <3> QED BY <2>1, <2>2, <3>1 DEF MsSqlAlike, InBracket, Piece
  <2>4. CASE ~(BracketEnd(s, i) > i + 2)
    <3>1. q = Piece(1, "code", "code")
      BY <1>1, <1>7, <2>4 DEF MsSqlBrackets, Bracketed
    <3>2. BracketEnd(s, i) = i + 2
      <4>1. Len(s) \in Nat /\ i + 1 \in 1 .. Len(s) + 1
        BY DEF Texts
      <4>2. from[i + 1] \in {0} \cup ((i + 1) + 1 .. Len(s) + 1)
        BY <4>1 DEF IsBracketTable
      <4> QED BY <2>2, <2>4, <4>1, <4>2
    <3>3. i < Len(s) /\ s[i + 1] = "]" /\ ~At(s, i + 1, <<"]", "]">>)
      BY <3>2, EmptyBrackets
    <3> QED BY <2>1, <3>1, <3>3 DEF MsSqlAlike, InEmptyBrackets, Piece
  <2> QED BY <2>3, <2>4
<1>8. CASE /\ mode = "code" /\ ~At(s, i, <<"-", "-">>) /\ ~At(s, i, <<"/", "*">>)
           /\ s[i] \notin {"'", "dq", "["}
  <2>1. p = Piece(1, "code", "code") /\ q = Piece(1, "code", "code")
    BY <1>1, <1>8 DEF MsSqlMask, MsSqlBrackets
  <2> QED BY <2>1 DEF MsSqlAlike, SamePiece, Piece
<1> QED BY <1>2, <1>3, <1>4, <1>5, <1>6, <1>7, <1>8

LEMMA InBracketNext ==
    ASSUME NEW s \in Texts, NEW i \in 1 .. Len(s), i + 1 <= Len(s),
           NEW from, IsBracketTable(s, from),
           NEW p, NEW q, InBracket(s, i, p, q, from), NEW walk, NEW p2, NEW q2,
           p2 = IF p.take > 1 THEN Remainder(p) ELSE Delimited(s, i + 1, "]", "name"),
           q2 = IF q.take > 1 THEN Remainder(q) ELSE walk
    PROVE  MsSqlAlike(s, i + 1, p2, q2, from)
<1> DEFINE n == Len(s)
<1>1. /\ n \in Nat /\ i + 1 \in 1 .. n /\ i + 1 \in 1 .. n + 1 /\ i + 2 \in 1 .. n + 1
      /\ (i + 1) + 1 = i + 2 /\ (i + 1) + 2 = i + 3
  BY DEF Texts
<1>2. /\ from[i + 1] = BracketBody(s, from, i + 1)
      /\ from[i + 1] \in {0} \cup ((i + 1) + 1 .. n + 1)
      /\ from[i + 2] \in {0} \cup ((i + 2) + 1 .. n + 1)
  BY <1>1 DEF IsBracketTable
<1>3. p.kind = "name" /\ q.kind = "bracket" /\ p.mode = "]" /\ q.mode = "code"
  BY DEF InBracket
<1>4. CASE p.take = 2 /\ from[i + 2] # 0 /\ q.take = from[i + 2] - i
  <2>1. q.take > 1 /\ q.take - 1 = from[i + 2] - (i + 1)
    BY <1>1, <1>2, <1>4
  <2>2. p2 = Piece(1, "name", "]") /\ q2 = Piece(from[i + 2] - (i + 1), "bracket", "code")
    BY <1>3, <1>4, <2>1 DEF Remainder
  <2> QED BY <1>1, <1>4, <2>2 DEF MsSqlAlike, InBracket, Piece
<1>5. CASE p.take = 1 /\ from[i + 1] # 0 /\ q.take = from[i + 1] - i
  <2>1. q.take > 1 /\ q.take - 1 = from[i + 1] - (i + 1)
    BY <1>1, <1>2, <1>5
  <2>2. q2 = Piece(from[i + 1] - (i + 1), "bracket", "code")
    BY <1>3, <1>5, <2>1 DEF Remainder
  <2>3. p2 = Delimited(s, i + 1, "]", "name")
    BY <1>5
  <2>4. CASE At(s, i + 1, <<"]", "]">>)
    <3>1. p2 = Piece(2, "name", "]")
      BY <2>3, <2>4 DEF Delimited
    <3>2. i + 1 < n /\ s[i + 1] = "]"
      BY <1>1, <2>4, AtTwo
    <3>3. from[i + 1] = from[(i + 1) + 2]
      BY <1>1, <1>2, <2>4, <3>2 DEF BracketBody
    <3> QED BY <1>5, <2>2, <3>1, <3>2, <3>3 DEF MsSqlAlike, InBracket, Piece
  <2>5. CASE ~At(s, i + 1, <<"]", "]">>) /\ s[i + 1] = "]"
    <3>1. p2 = Piece(1, "name", "code")
      BY <2>3, <2>5 DEF Delimited
    <3>2. from[i + 1] = i + 2
      BY <1>1, <1>2, <2>5 DEF BracketBody
    <3>3. q2 = Piece(1, "bracket", "code")
      BY <2>2, <3>2
    <3> QED BY <3>1, <3>3 DEF MsSqlAlike, SamePiece, IsHidden, Piece
  <2>6. CASE ~At(s, i + 1, <<"]", "]">>) /\ s[i + 1] # "]"
    <3>1. p2 = Piece(1, "name", "]")
      BY <2>3, <2>6 DEF Delimited
    <3>2. from[i + 1] = from[(i + 1) + 1]
      BY <1>1, <1>2, <1>5, <2>6 DEF BracketBody
    <3> QED BY <1>5, <2>2, <3>1, <3>2 DEF MsSqlAlike, InBracket, Piece
  <2> QED BY <2>4, <2>5, <2>6
<1> QED BY <1>4, <1>5 DEF InBracket

LEMMA MsSqlNext ==
    ASSUME NEW s \in Texts, NEW i \in 1 .. Len(s), i + 1 <= Len(s),
           NEW from, IsBracketTable(s, from),
           NEW p \in PieceType, NEW q \in PieceType, MsSqlAlike(s, i, p, q, from),
           NEW p2, NEW q2,
           p2 = IF p.take > 1 THEN Remainder(p) ELSE MsSqlMask(s, i + 1, p.mode),
           q2 = IF q.take > 1 THEN Remainder(q) ELSE MsSqlBrackets(s, i + 1, q.mode),
           p2 = MsSqlMask(s, i + 1, "code") /\ At(s, i + 1, <<"/", "*">>) =>
                NestedEnd(s, i + 1) = Past(s, i + 3, <<"*", "/">>),
           p2 = MsSqlMask(s, i + 1, "code") /\ s[i + 1] = "[" => BracketEnd(s, i + 1) # 0
    PROVE  MsSqlAlike(s, i + 1, p2, q2, from)
<1>1. Len(s) \in Nat /\ i + 1 \in 1 .. Len(s) /\ (i + 1) + 1 = i + 2 /\ (i + 1) + 2 = i + 3
  BY DEF Texts
<1>2. p.take \in Nat \ {0} /\ q.take \in Nat \ {0}
  BY DEF PieceType
<1>3. CASE SamePiece(p, q, {"code", "'"})
  <2>1. CASE p.take > 1
    <3>1. p2 = Remainder(p) /\ q2 = Remainder(q)
      BY <1>3, <2>1 DEF SamePiece
    <3>2. SamePiece(p2, q2, {"code", "'"})
      BY <1>3, <3>1 DEF SamePiece, Remainder, Piece, IsHidden
    <3> QED BY <3>2 DEF MsSqlAlike
  <2>2. CASE p.take = 1
    <3>1. p2 = MsSqlMask(s, i + 1, p.mode) /\ q2 = MsSqlBrackets(s, i + 1, p.mode)
      BY <1>3, <2>2 DEF SamePiece
    <3>2. p.mode \in {"code", "'"}
      BY <1>3 DEF SamePiece
    <3>3. p.mode = "code" /\ At(s, i + 1, <<"/", "*">>) =>
            NestedEnd(s, i + 1) = Past(s, (i + 1) + 2, <<"*", "/">>)
      BY <1>1, <3>1
    <3>4. p.mode = "code" /\ s[i + 1] = "[" => BracketEnd(s, i + 1) # 0
      BY <3>1
    <3> QED BY <1>1, <3>1, <3>2, <3>3, <3>4, MsSqlStep
  <2> QED BY <1>2, <2>1, <2>2
<1>4. CASE InName(s, i, p, q, "dq")
  <2> DEFINE walk == MsSqlBrackets(s, i + 1, "code")
  <2>1. p.mode = "dq" /\ q.mode = "code"
    BY <1>4 DEF InName
  <2>2. p2 = IF p.take > 1 THEN Remainder(p) ELSE Delimited(s, i + 1, "dq", "name")
    BY <2>1 DEF MsSqlMask
  <2>3. q2 = IF q.take > 1 THEN Remainder(q) ELSE walk
    BY <2>1
  <2>4. s[i + 1] = "dq" => walk = Piece(Past(s, i + 2, <<"dq">>) - (i + 1), "name", "code")
    <3> SUFFICES ASSUME s[i + 1] = "dq"
                 PROVE  walk = Piece(Past(s, i + 2, <<"dq">>) - (i + 1), "name", "code")
      OBVIOUS
    <3>1. ~At(s, i + 1, <<"-", "-">>) /\ ~At(s, i + 1, <<"/", "*">>) /\ ~Bracketed(s, i + 1)
      BY <1>1, AtTwo DEF Bracketed
    <3> QED BY <1>1, <3>1 DEF MsSqlBrackets
  <2> HIDE DEF walk
  <2>5. NameEnded(p2, q2) \/ InName(s, i + 1, p2, q2, "dq")
    <3>1. "dq" \in Modes
      BY DEF Modes
    <3> QED BY <1>4, <2>2, <2>3, <2>4, <3>1, InNameNext
  <2> QED BY <2>5 DEF MsSqlAlike, NameEnded, SamePiece, IsHidden
<1>5. CASE InBracket(s, i, p, q, from)
  <2>1. p2 = IF p.take > 1 THEN Remainder(p) ELSE Delimited(s, i + 1, "]", "name")
    BY <1>5 DEF InBracket, MsSqlMask
  <2> QED BY <1>5, <2>1, InBracketNext
<1>6. CASE InEmptyBrackets(s, i, p, q)
  <2>1. p2 = MsSqlMask(s, i + 1, "]") /\ q2 = MsSqlBrackets(s, i + 1, "code")
        /\ s[i + 1] = "]" /\ ~At(s, i + 1, <<"]", "]">>)
    BY <1>6 DEF InEmptyBrackets
  <2>2. MsSqlMask(s, i + 1, "]") = Piece(1, "name", "code")
    BY <2>1 DEF MsSqlMask, Delimited
  <2>3. MsSqlBrackets(s, i + 1, "code") = Piece(1, "code", "code")
    <3>1. ~At(s, i + 1, <<"-", "-">>) /\ ~At(s, i + 1, <<"/", "*">>) /\ ~Bracketed(s, i + 1)
      BY <1>1, <2>1, AtTwo DEF Bracketed
    <3> QED BY <2>1, <3>1 DEF MsSqlBrackets
  <2> QED BY <2>1, <2>2, <2>3 DEF MsSqlAlike, SamePiece, IsHidden, Piece
<1> QED BY <1>3, <1>4, <1>5, <1>6 DEF MsSqlAlike

LEMMA MsSqlAlikeHidden ==
    ASSUME NEW s, NEW i, NEW p, NEW q, NEW from, MsSqlAlike(s, i, p, q, from)
    PROVE  IsHidden(p) <=> IsHidden(q)
  BY DEF MsSqlAlike, SamePiece, InName, InBracket, InEmptyBrackets, IsHidden

LEMMA MsSqlHidden ==
    ASSUME NEW s \in Texts, ModeAfter(s, MsSqlMask) = "code",
           ~\E k, j \in 1 .. Len(s) :
                /\ k + 1 < j /\ At(s, k, <<"/", "*">>) /\ At(s, j, <<"/", "*">>)
                /\ \A m \in k .. j : KindsOf(s, MsSqlMask)[m] = "comment",
           ~\E k \in 1 .. Len(s) : s[k] = "nl" /\ KindsOf(s, MsSqlMask)[k] = "name"
    PROVE  Hidden(KindsOf(s, MsSqlMask)) = Hidden(KindsOf(s, MsSqlBrackets))
<1> DEFINE n == Len(s)
           masks == Scanner(s, MsSqlMask)
           walks == Scanner(s, MsSqlBrackets)
           p == Pieces(n, masks)
           q == Pieces(n, walks)
<1>1. n \in Nat
  BY DEF Texts
<1>2. /\ \A i \in 1 .. n, m \in Modes : masks[<<i, m>>] = MsSqlMask(s, i, m)
      /\ \A i \in 1 .. n, m \in Modes : walks[<<i, m>>] = MsSqlBrackets(s, i, m)
  BY DEF Scanner
<1>3. masks \in Takes(n)
  <2>1. masks = [at \in (1 .. n) \X Modes |-> MsSqlMask(s, at[1], at[2])]
    BY DEF Scanner
  <2>2. \A at \in (1 .. n) \X Modes : MsSqlMask(s, at[1], at[2]) \in PieceType
    BY MsSqlMaskType
  <2> QED BY <2>1, <2>2 DEF Takes
<1>4. walks \in Takes(n)
  <2>1. walks = [at \in (1 .. n) \X Modes |-> MsSqlBrackets(s, at[1], at[2])]
    BY DEF Scanner
  <2>2. \A at \in (1 .. n) \X Modes : MsSqlBrackets(s, at[1], at[2]) \in PieceType
    BY MsSqlBracketsType
  <2> QED BY <2>1, <2>2 DEF Takes
<1>5. Follows(p, n, masks) /\ Follows(q, n, walks)
  <2> HIDE DEF masks, walks
  <2> QED BY <1>1, <1>3, <1>4, PiecesFollow
<1>6. /\ KindsOf(s, MsSqlMask) = [i \in 1 .. n |-> p[i].kind]
      /\ KindsOf(s, MsSqlBrackets) = [i \in 1 .. n |-> q[i].kind]
  BY DEF KindsOf
<1>7. n > 0 => p[n].mode = "code"
  <2>1. n > 0 => s # <<>>
    OBVIOUS
  <2> QED BY <2>1 DEF ModeAfter
<1> HIDE DEF p, q, masks, walks
<1>8. \A i \in 1 .. n : p[i] \in PieceType /\ q[i] \in PieceType /\ p[i].mode \in Modes /\ q[i].mode \in Modes
  BY <1>5 DEF Follows, PieceType
<1>9. MsSqlRead(s, p)
  <2>1. n > 0 => p[1] = MsSqlMask(s, 1, "code")
    <3> SUFFICES ASSUME n > 0 PROVE p[1] = MsSqlMask(s, 1, "code")
      OBVIOUS
    <3>1. 1 \in 1 .. n /\ "code" \in Modes
      BY <1>1 DEF Modes
    <3> QED BY <1>2, <1>5, <3>1 DEF Follows
  <2>2. ASSUME NEW i \in 1 .. n - 1
        PROVE  p[i + 1] = IF p[i].take > 1 THEN Remainder(p[i]) ELSE MsSqlMask(s, i + 1, p[i].mode)
    <3>1. i \in 1 .. n /\ i + 1 \in 1 .. n
      BY <1>1
    <3> QED BY <1>2, <1>5, <1>8, <3>1 DEF Follows
  <2> QED BY <1>5, <2>1, <2>2 DEF Follows, MsSqlRead
<1>10. PICK from : IsBracketTable(s, from)
  BY BracketTable DEF IsBracketTable
<1>11. ~\E k, j \in 1 .. n :
            /\ k + 1 < j /\ At(s, k, <<"/", "*">>) /\ At(s, j, <<"/", "*">>)
            /\ \A m \in k .. j : p[m].kind = "comment"
  <2> SUFFICES ASSUME NEW k \in 1 .. n, NEW j \in 1 .. n, k + 1 < j,
                      At(s, k, <<"/", "*">>), At(s, j, <<"/", "*">>),
                      \A m \in k .. j : p[m].kind = "comment"
               PROVE  FALSE
    OBVIOUS
  <2>1. \A m \in k .. j : m \in 1 .. n
    BY <1>1
  <2>2. \A m \in k .. j : KindsOf(s, MsSqlMask)[m] = "comment"
    BY <1>6, <2>1
  <2> QED BY <2>2
<1>12. ~\E k \in 1 .. n : s[k] = "nl" /\ p[k].kind = "name"
  BY <1>6
<1>13. ASSUME NEW i \in 1 .. n, p[i] = MsSqlMask(s, i, "code")
       PROVE  /\ At(s, i, <<"/", "*">>) => NestedEnd(s, i) = Past(s, i + 2, <<"*", "/">>)
              /\ s[i] = "[" => BracketEnd(s, i) # 0
  <2>1. At(s, i, <<"/", "*">>) => NestedEnd(s, i) = Past(s, i + 2, <<"*", "/">>)
    BY <1>9, <1>11, <1>13, FlatComment
  <2>2. s[i] = "[" => BracketEnd(s, i) # 0
    BY <1>1, <1>7, <1>9, <1>12, <1>13, BracketCloses
  <2> QED BY <2>1, <2>2
<1> DEFINE S == {i \in 1 .. n : MsSqlAlike(s, i, p[i], q[i], from)}
<1>14. n > 0 => 1 \in S
  <2> SUFFICES ASSUME n > 0 PROVE 1 \in S
    OBVIOUS
  <2>1. 1 \in 1 .. n /\ "code" \in Modes
    BY <1>1 DEF Modes
  <2>2. p[1] = MsSqlMask(s, 1, "code") /\ q[1] = MsSqlBrackets(s, 1, "code")
    BY <1>2, <1>5, <2>1 DEF Follows
  <2>3. /\ At(s, 1, <<"/", "*">>) => NestedEnd(s, 1) = Past(s, 1 + 2, <<"*", "/">>)
        /\ s[1] = "[" => BracketEnd(s, 1) # 0
    BY <1>13, <2>1, <2>2
  <2> QED BY <1>10, <2>1, <2>2, <2>3, MsSqlStep
<1>15. \A i \in 1 .. n - 1 : i \in S => i + 1 \in S
  <2> TAKE i \in 1 .. n - 1
  <2> HAVE i \in S
  <2>1. i \in 1 .. n /\ i + 1 \in 1 .. n /\ (i + 1) + 2 = i + 3 /\ MsSqlAlike(s, i, p[i], q[i], from)
    BY <1>1
  <2>2. p[i + 1] = IF p[i].take > 1 THEN Remainder(p[i]) ELSE MsSqlMask(s, i + 1, p[i].mode)
    BY <1>9 DEF MsSqlRead
  <2>3. q[i + 1] = IF q[i].take > 1 THEN Remainder(q[i]) ELSE MsSqlBrackets(s, i + 1, q[i].mode)
    BY <1>2, <1>5, <1>8, <2>1 DEF Follows
  <2>4. p[i + 1] = MsSqlMask(s, i + 1, "code") =>
            /\ At(s, i + 1, <<"/", "*">>) => NestedEnd(s, i + 1) = Past(s, i + 3, <<"*", "/">>)
            /\ s[i + 1] = "[" => BracketEnd(s, i + 1) # 0
    BY <1>13, <2>1
  <2>5. MsSqlAlike(s, i + 1, p[i + 1], q[i + 1], from)
    BY <1>8, <1>10, <2>1, <2>2, <2>3, <2>4, MsSqlNext
  <2> QED BY <2>1, <2>5
<1>16. \A i \in 1 .. n : i \in S
  <2> HIDE DEF S
  <2> QED BY <1>1, <1>14, <1>15, UpTheText
<1>17. \A i \in 1 .. n : IsHidden(p[i]) <=> IsHidden(q[i])
  BY <1>16, MsSqlAlikeHidden
<1>18. Hidden([i \in 1 .. n |-> p[i].kind]) = Hidden([i \in 1 .. n |-> q[i].kind])
  <2> HIDE DEF n
  <2> QED BY <1>1, <1>17, HiddenAlike
<1> QED BY <1>6, <1>18

-----------------------------------------------------------------------------
(* Generated files: quotes *)

\* The end of what a quote begins, given the ends from later places on
QuoteBody(s, quote, escapes, from, j) ==
    IF j > Len(s) THEN 0
    ELSE IF escapes /\ s[j] = "\\" THEN from[j + 2]
    ELSE IF At(s, j, <<quote, quote>>) THEN from[j + 2]
    ELSE IF s[j] = quote THEN j + 1
    ELSE from[j + 1]

LEMMA QuoteExists ==
    ASSUME NEW s \in Texts, NEW quote, NEW escapes
    PROVE  \E from : from = [j \in 1 .. Len(s) + 2 |-> QuoteBody(s, quote, escapes, from, j)]
<1> DEFINE n == Len(s)
           From(from, k) == from = [j \in k .. n + 2 |-> QuoteBody(s, quote, escapes, from, j)]
           S == {k \in 1 .. n + 2 : \E from : From(from, k)}
<1>1. n \in Nat
  BY DEF Texts
<1>2. n + 2 \in S
  <2> DEFINE f == [j \in n + 2 .. n + 2 |-> 0]
  <2>1. \A j \in n + 2 .. n + 2 : QuoteBody(s, quote, escapes, f, j) = 0
    BY <1>1 DEF QuoteBody
  <2>2. From(f, n + 2)
    BY <1>1, <2>1
  <2> HIDE DEF f, From
  <2> QED BY <1>1, <2>2
<1>3. \A k \in 1 .. (n + 2) - 1 : (\A j \in k + 1 .. n + 2 : j \in S) => k \in S
  <2> TAKE k \in 1 .. (n + 2) - 1
  <2> HAVE \A j \in k + 1 .. n + 2 : j \in S
  <2>1. k \in 1 .. n + 1 /\ k + 1 \in S
    BY <1>1
  <2>2. PICK f : From(f, k + 1)
    BY <2>1
  <2> DEFINE g == [j \in k .. n + 2 |-> IF j = k THEN QuoteBody(s, quote, escapes, f, k) ELSE f[j]]
  <2>3. \A j \in k + 1 .. n + 2 : f[j] = QuoteBody(s, quote, escapes, f, j)
    <3> DEFINE body == [j \in k + 1 .. n + 2 |-> QuoteBody(s, quote, escapes, f, j)]
    <3>1. f = body
      BY <2>2
    <3>2. \A j \in k + 1 .. n + 2 : body[j] = QuoteBody(s, quote, escapes, f, j)
      OBVIOUS
    <3> HIDE DEF body
    <3> QED BY <3>1, <3>2
  <2>4. /\ g[k] = QuoteBody(s, quote, escapes, f, k)
        /\ \A j \in k + 1 .. n + 2 : g[j] = f[j]
        /\ g = [j \in k .. n + 2 |-> g[j]]
    BY <1>1, <2>1
  <2> HIDE DEF g
  <2>5. \A j \in k .. n + 2 : QuoteBody(s, quote, escapes, g, j) = QuoteBody(s, quote, escapes, f, j)
    <3> TAKE j \in k .. n + 2
    <3>1. CASE j > n
      BY <3>1 DEF QuoteBody
    <3>2. CASE j <= n
      <4>1. j + 1 \in k + 1 .. n + 2 /\ j + 2 \in k + 1 .. n + 2
        BY <1>1, <2>1, <3>2
      <4> QED BY <2>4, <4>1 DEF QuoteBody
    <3> QED BY <1>1, <2>1, <3>1, <3>2
  <2>6. \A j \in k .. n + 2 : g[j] = QuoteBody(s, quote, escapes, g, j)
    <3> TAKE j \in k .. n + 2
    <3>1. j = k \/ j \in k + 1 .. n + 2
      BY <1>1, <2>1
    <3>2. g[j] = QuoteBody(s, quote, escapes, f, j)
      BY <2>3, <2>4, <3>1
    <3> QED BY <2>5, <3>2
  <2>7. From(g, k)
    BY <2>4, <2>6
  <2> HIDE DEF From
  <2> QED BY <1>1, <2>1, <2>7
<1>4. \A k \in 1 .. n + 2 : k \in S
  <2> HIDE DEF S, n
  <2>1. n + 2 \in Nat
    BY <1>1
  <2> QED BY <1>2, <1>3, <2>1, DownTheText
<1>5. 1 \in S
  BY <1>1, <1>4
<1> QED BY <1>5

\* from tells the ends of what a quote begins: 0, or a place behind the one it is read from.
IsQuoteTable(s, quote, escapes, from) ==
    \A j \in 1 .. Len(s) + 2 : /\ from[j] = QuoteBody(s, quote, escapes, from, j)
                               /\ from[j] \in {0} \cup (j + 1 .. Len(s) + 1)

LEMMA QuoteTable ==
    ASSUME NEW s \in Texts, NEW i, NEW escapes
    PROVE  \E from : IsQuoteTable(s, s[i], escapes, from) /\ QuoteEnd(s, i, escapes) = from[i + 1]
<1> DEFINE Is(from) == from = [j \in 1 .. Len(s) + 2 |-> QuoteBody(s, s[i], escapes, from, j)]
           from == CHOOSE f : Is(f)
<1>1. Is(from)
  <2>1. \E f : Is(f)
    BY QuoteExists
  <2> QED BY <2>1
<1>2. QuoteEnd(s, i, escapes) = from[i + 1]
  BY DEF QuoteEnd, QuoteBody
<1>3. \A j \in 1 .. Len(s) + 2 : from[j] = QuoteBody(s, s[i], escapes, from, j)
  <2> DEFINE body == [j \in 1 .. Len(s) + 2 |-> QuoteBody(s, s[i], escapes, from, j)]
  <2>1. \A j \in 1 .. Len(s) + 2 : body[j] = QuoteBody(s, s[i], escapes, from, j)
    OBVIOUS
  <2>2. from = body
    BY <1>1
  <2> HIDE DEF from, body
  <2> QED BY <2>1, <2>2
<1> HIDE DEF from
<1> DEFINE n == Len(s)
           S == {j \in 1 .. n + 2 : from[j] \in {0} \cup (j + 1 .. n + 1)}
<1>4. n \in Nat /\ n + 2 \in Nat
  BY DEF Texts
<1>5. n + 2 \in S
  BY <1>3, <1>4 DEF QuoteBody
<1>6. \A k \in 1 .. (n + 2) - 1 : (\A j \in k + 1 .. n + 2 : j \in S) => k \in S
  <2> TAKE k \in 1 .. (n + 2) - 1
  <2> HAVE \A j \in k + 1 .. n + 2 : j \in S
  <2>1. k \in 1 .. n + 1 /\ k + 1 \in k + 1 .. n + 2 /\ (k <= n => k + 2 \in k + 1 .. n + 2)
    BY <1>4
  <2>2. from[k + 1] \in {0} \cup ((k + 1) + 1 .. n + 1)
    BY <2>1
  <2>3. k <= n => from[k + 2] \in {0} \cup ((k + 2) + 1 .. n + 1)
    BY <2>1
  <2>4. QuoteBody(s, s[i], escapes, from, k) \in {0} \cup (k + 1 .. n + 1)
    BY <1>4, <2>1, <2>2, <2>3 DEF QuoteBody
  <2> QED BY <1>3, <1>4, <2>1, <2>4
<1>7. \A j \in 1 .. n + 2 : j \in S
  <2> HIDE DEF S, n
  <2> QED BY <1>4, <1>5, <1>6, DownTheText
<1> QED BY <1>2, <1>3, <1>7 DEF IsQuoteTable

LEMMA QuoteEndType ==
    ASSUME NEW s \in Texts, NEW i \in 1 .. Len(s), NEW escapes
    PROVE  QuoteEnd(s, i, escapes) \in {0} \cup (i + 2 .. Len(s) + 1)
<1>1. Len(s) \in Nat /\ i + 1 \in 1 .. Len(s) + 2 /\ (i + 1) + 1 = i + 2
  BY DEF Texts
<1> QED BY <1>1, QuoteTable DEF IsQuoteTable

-----------------------------------------------------------------------------
(* Dollar quotes *)

\* A tag begins and ends with a dollar, and has no other dollar before it.
LEMMA DollarTagIs ==
    ASSUME NEW s \in Texts, NEW i \in 1 .. Len(s), DollarTag(s, i) # <<>>
    PROVE  /\ s[i] = "$" /\ (i > 1 => s[i - 1] # "$")
           /\ \/ DollarTag(s, i) = <<"$", "$">>
              \/ \E x \in Symbols : DollarTag(s, i) = <<"$", x, "$">>
<1>1. Len(s) \in Nat
  BY DEF Texts
<1>2. s[i] = "$" /\ ~(i > 1 /\ IdentChar(s[i - 1]))
  BY DEF DollarTag
<1>3. i > 1 => s[i - 1] # "$"
  BY <1>2 DEF IdentChar
<1>4. CASE At(s, i, <<"$", "$">>)
  BY <1>2, <1>3, <1>4 DEF DollarTag
<1>5. CASE ~At(s, i, <<"$", "$">>)
  <2>1. i + 2 <= Len(s) /\ s[i + 2] = "$" /\ DollarTag(s, i) = SubSeq(s, i, i + 2)
    BY <1>2, <1>5 DEF DollarTag
  <2>2. s[i + 1] \in Symbols
    BY <1>1, <2>1 DEF Texts
  <2>3. SubSeq(s, i, i + 2) = <<s[i], s[i + 1], s[i + 2]>>
    <3> DEFINE t == SubSeq(s, i, i + 2)
               u == <<s[i], s[i + 1], s[i + 2]>>
    <3>1. t \in Seq(Symbols) /\ Len(t) = 3 /\ t[1] = s[i] /\ t[2] = s[i + 1] /\ t[3] = s[i + 2]
      BY <1>1, <2>1 DEF Texts
    <3>2. u \in Seq(Symbols) /\ Len(u) = 3 /\ u[1] = s[i] /\ u[2] = s[i + 1] /\ u[3] = s[i + 2]
      BY <1>1, <2>1 DEF Texts
    <3> HIDE DEF t, u
    <3>3. \A k \in 1 .. 3 : t[k] = u[k]
      <4> TAKE k \in 1 .. 3
      <4>1. k = 1 \/ k = 2 \/ k = 3
        OBVIOUS
      <4> QED BY <3>1, <3>2, <4>1
    <3>4. t = u
      BY <3>1, <3>2, <3>3
    <3> QED BY <3>4 DEF t, u
  <2> QED BY <1>2, <1>3, <2>1, <2>2, <2>3
<1> QED BY <1>4, <1>5

\* A dollar quote that closes ends with a dollar.
LEMMA DollarEndIs ==
    ASSUME NEW s \in Texts, NEW i \in 1 .. Len(s), DollarTag(s, i) # <<>>
    PROVE  /\ DollarEnd(s, i) \in {0} \cup (i + 4 .. Len(s) + 1)
           /\ DollarEnd(s, i) # 0 => s[DollarEnd(s, i) - 1] = "$"
<1> DEFINE tag == DollarTag(s, i)
           close == Find(s, i + Len(tag), tag)
<1>1. Len(s) \in Nat
  BY DEF Texts
<1>2. tag = <<"$", "$">> \/ \E x \in Symbols : tag = <<"$", x, "$">>
  BY DollarTagIs
<1>3. Len(tag) \in {2, 3} /\ tag[Len(tag)] = "$"
  <2>1. ASSUME NEW x, tag = <<"$", x, "$">> PROVE Len(tag) = 3 /\ tag[3] = "$"
    BY <2>1
  <2>2. ASSUME tag = <<"$", "$">> PROVE Len(tag) = 2 /\ tag[2] = "$"
    BY <2>2
  <2> HIDE DEF tag
  <2> QED BY <1>2, <2>1, <2>2
<1>4. i + Len(tag) <= Len(s) + 1
  <2>1. CASE At(s, i, <<"$", "$">>)
    <3>1. tag = <<"$", "$">>
      BY <2>1, DollarTagIs DEF DollarTag
    <3> QED BY <1>1, <2>1, <3>1, AtTwo
  <2>2. CASE ~At(s, i, <<"$", "$">>)
    <3>1. i + 2 <= Len(s)
      BY <2>2 DEF DollarTag
    <3> QED BY <1>1, <1>3, <3>1
  <2> QED BY <2>1, <2>2
<1>5. DollarEnd(s, i) = IF close > Len(s) THEN 0 ELSE close + Len(tag)
  BY DEF DollarEnd
<1> HIDE DEF tag
<1>6. close \in i + Len(tag) .. Len(s) + 1 /\ (close <= Len(s) => At(s, close, tag))
  <2>1. i + Len(tag) \in Nat \ {0}
    BY <1>3
  <2> QED BY <1>4, <2>1, FindIs
<1> HIDE DEF close
<1>7. CASE close > Len(s)
  BY <1>5, <1>7
<1>8. CASE close <= Len(s)
  <2>1. close + Len(tag) - 1 <= Len(s) /\ s[close + Len(tag) - 1] = tag[Len(tag)]
    <3>1. Len(tag) \in 1 .. Len(tag)
      BY <1>3
    <3> QED BY <1>6, <1>8, <3>1 DEF At
  <2>2. DollarEnd(s, i) = close + Len(tag) /\ close \in Nat
    BY <1>1, <1>3, <1>5, <1>6, <1>8
  <2>3. DollarEnd(s, i) \in i + 4 .. Len(s) + 1
    <3>1. ASSUME NEW m \in {2, 3}, NEW c \in i + m .. Len(s) + 1, c + m - 1 <= Len(s)
          PROVE  c + m \in i + 4 .. Len(s) + 1
      BY <1>1, <3>1
    <3> QED BY <1>3, <1>6, <2>1, <2>2, <3>1
  <2>4. s[DollarEnd(s, i) - 1] = "$"
    BY <1>3, <2>1, <2>2
  <2> QED BY <2>3, <2>4
<1> QED BY <1>1, <1>6, <1>7, <1>8

\* No dollar quote begins behind a dollar.
LEMMA NoTagBehind ==
    ASSUME NEW s \in Texts, NEW i \in 2 .. Len(s), s[i - 1] = "$"
    PROVE  DollarTag(s, i) = <<>>
<1>1. i \in 1 .. Len(s) /\ i > 1
  BY DEF Texts
<1> QED BY <1>1, DollarTagIs

-----------------------------------------------------------------------------
(* The pieces of parse_script and of the view of the fixes *)

ScriptPieceType == [take : Nat \ {0}, kind : Kinds, closed : BOOLEAN]

LEMMA QuotedIs ==
    ASSUME NEW s \in Texts, NEW i \in 1 .. Len(s), NEW kind \in Kinds,
           NEW end \in {0} \cup (i + 1 .. Len(s) + 1)
    PROVE  /\ Quoted(kind, i, end, s) \in ScriptPieceType
           /\ i + Quoted(kind, i, end, s).take <= Len(s) + 1
<1>1. Len(s) \in Nat
  BY DEF Texts
<1> QED BY <1>1 DEF Quoted, ScriptPieceType

LEMMA WholeIs ==
    ASSUME NEW kind \in Kinds, NEW take \in Nat \ {0}
    PROVE  Whole(kind, take) \in ScriptPieceType /\ Whole(kind, take).take = take
  BY DEF Whole, ScriptPieceType

LEMMA LineTake ==
    ASSUME NEW s \in Texts, NEW i \in 1 .. Len(s), s[i] # "nl"
    PROVE  /\ Find(s, i, <<"nl">>) - i \in Nat \ {0}
           /\ i + (Find(s, i, <<"nl">>) - i) <= Len(s) + 1
<1> DEFINE f == Find(s, i, <<"nl">>)
<1>1. Len(s) \in Nat /\ ~At(s, i, <<"nl">>)
  BY AtOne DEF Texts
<1>2. f \in i .. Len(s) + 1 /\ (f <= Len(s) => At(s, f, <<"nl">>))
  BY <1>1, FindIs
<1> HIDE DEF f
<1> QED BY <1>1, <1>2 DEF f

\* What begins a piece tells what it is.
LEMMA ScriptPieceCases ==
    ASSUME NEW s \in Texts, NEW i \in 1 .. Len(s)
    PROVE  /\ s[i] \in Blanks => ScriptPiece(s, i) = Whole("code", 1)
           /\ At(s, i, <<"-", "-">>) =>
                ScriptPiece(s, i) = Whole("comment", Find(s, i, <<"nl">>) - i)
           /\ At(s, i, <<"/", "*">>) =>
                ScriptPiece(s, i) = [take |-> NestedEnd(s, i) - i, kind |-> "comment",
                                     closed |-> NestedClosed(s, i)]
           /\ s[i] = "\\" => ScriptPiece(s, i) = Whole("meta", Find(s, i, <<"nl">>) - i)
           /\ s[i] = "'" =>
                ScriptPiece(s, i) = Quoted("string", i, QuoteEnd(s, i, IsEscapeString(s, i)), s)
           /\ s[i] = "dq" => ScriptPiece(s, i) = Quoted("name", i, QuoteEnd(s, i, FALSE), s)
           /\ DollarTag(s, i) # <<>> => ScriptPiece(s, i) = Quoted("body", i, DollarEnd(s, i), s)
           /\ /\ ~At(s, i, <<"-", "-">>) /\ ~At(s, i, <<"/", "*">>) /\ DollarTag(s, i) = <<>>
              /\ s[i] \notin {"\\", "'", "dq"}
              => ScriptPiece(s, i) = Whole("code", 1)
<1>1. /\ At(s, i, <<"-", "-">>) => s[i] = "-"
      /\ At(s, i, <<"/", "*">>) => s[i] = "/"
      /\ DollarTag(s, i) # <<>> => s[i] = "$"
  BY AtTwo, DollarTagIs
<1> QED BY <1>1 DEF ScriptPiece, Blanks

LEMMA ScriptPieceIs ==
    ASSUME NEW s \in Texts, NEW i \in 1 .. Len(s)
    PROVE  ScriptPiece(s, i) \in ScriptPieceType /\ i + ScriptPiece(s, i).take <= Len(s) + 1
<1> DEFINE Fits(p) == p \in ScriptPieceType /\ i + p.take <= Len(s) + 1
<1>1. Len(s) \in Nat
  BY DEF Texts
<1>2. Fits(Whole("code", 1))
  BY <1>1, WholeIs DEF Kinds
<1>3. s[i] # "nl" => /\ Fits(Whole("comment", Find(s, i, <<"nl">>) - i))
                     /\ Fits(Whole("meta", Find(s, i, <<"nl">>) - i))
  BY LineTake, WholeIs DEF Kinds
<1>4. At(s, i, <<"/", "*">>) =>
        Fits([take |-> NestedEnd(s, i) - i, kind |-> "comment", closed |-> NestedClosed(s, i)])
  <2> SUFFICES ASSUME At(s, i, <<"/", "*">>)
               PROVE  Fits([take |-> NestedEnd(s, i) - i, kind |-> "comment", closed |-> NestedClosed(s, i)])
    OBVIOUS
  <2>1. NestedEnd(s, i) \in i + 2 .. Len(s) + 1
    BY AtTwo, NestedEndType
  <2>2. NestedClosed(s, i) \in BOOLEAN
    BY DEF NestedClosed
  <2>3. NestedEnd(s, i) - i \in Nat \ {0} /\ i + (NestedEnd(s, i) - i) <= Len(s) + 1
    BY <1>1, <2>1
  <2> QED BY <2>2, <2>3 DEF ScriptPieceType, Kinds
<1>5. \A escapes : Fits(Quoted("string", i, QuoteEnd(s, i, escapes), s))
  <2> TAKE escapes
  <2>1. QuoteEnd(s, i, escapes) \in {0} \cup (i + 1 .. Len(s) + 1)
    BY <1>1, QuoteEndType
  <2> QED BY <2>1, QuotedIs DEF Kinds
<1>6. Fits(Quoted("name", i, QuoteEnd(s, i, FALSE), s))
  <2> DEFINE end == QuoteEnd(s, i, FALSE)
  <2>1. end \in {0} \cup (i + 2 .. Len(s) + 1)
    BY QuoteEndType
  <2> HIDE DEF end
  <2>2. end \in {0} \cup (i + 1 .. Len(s) + 1)
    BY <1>1, <2>1
  <2>3. Fits(Quoted("name", i, end, s))
    BY <2>2, QuotedIs DEF Kinds
  <2> QED BY <2>3 DEF end
<1>7. DollarTag(s, i) # <<>> => Fits(Quoted("body", i, DollarEnd(s, i), s))
  <2> SUFFICES ASSUME DollarTag(s, i) # <<>> PROVE Fits(Quoted("body", i, DollarEnd(s, i), s))
    OBVIOUS
  <2>1. DollarEnd(s, i) \in {0} \cup (i + 1 .. Len(s) + 1)
    BY <1>1, DollarEndIs
  <2> QED BY <2>1, QuotedIs DEF Kinds
<1>8. At(s, i, <<"-", "-">>) => s[i] = "-"
  BY AtTwo
<1> HIDE DEF Fits
<1>9. Fits(ScriptPiece(s, i))
  BY <1>2, <1>3, <1>4, <1>5, <1>6, <1>7, <1>8 DEF ScriptPiece
<1> QED BY <1>9 DEF Fits

LEMMA ScriptSegmentsType ==
    ASSUME NEW s \in Texts, NEW i \in 1 .. Len(s), NEW mode \in Modes
    PROVE  ScriptSegments(s, i, mode) \in PieceType
<1>1. ScriptPiece(s, i) \in ScriptPieceType
  BY ScriptPieceIs
<1>2. ScriptPiece(s, i).take \in Nat \ {0} /\ ScriptPiece(s, i).kind \in Kinds
  BY <1>1 DEF ScriptPieceType
<1> QED BY <1>2, PieceIs DEF ScriptSegments

LEMMA LiteralMaskType ==
    ASSUME NEW s \in Texts, NEW i \in 1 .. Len(s), NEW mode \in Modes
    PROVE  /\ LiteralMask(s, i, mode) \in PieceType
           /\ LiteralMask(s, i, mode).mode = "code"
           /\ LiteralMask(s, i, mode).kind = "code" => LiteralMask(s, i, mode).take = 1
<1> DEFINE end == QuoteEnd(s, i, s[i] = "'" /\ IsEscapeString(s, i))
           last == IF end = 0 THEN Len(s) + 1 ELSE end
           Fits(p) == p \in PieceType /\ p.mode = "code" /\ (p.kind = "code" => p.take = 1)
<1>1. Len(s) \in Nat
  BY DEF Texts
<1>2. At(s, i, <<"-", "-">>) => Fits(LineComment(s, i))
  <2>1. At(s, i, <<"-", "-">>) => s[i] = "-"
    BY AtTwo
  <2>2. LineComment(s, i).mode = "code" /\ LineComment(s, i).kind = "comment"
    BY DEF LineComment, Piece
  <2> QED BY <2>1, <2>2, LineCommentType
<1>3. At(s, i, <<"/", "*">>) => Fits(Piece(NestedEnd(s, i) - i, "comment", "code"))
  <2> SUFFICES ASSUME At(s, i, <<"/", "*">>) PROVE Fits(Piece(NestedEnd(s, i) - i, "comment", "code"))
    OBVIOUS
  <2>1. NestedEnd(s, i) \in i + 2 .. Len(s) + 1
    BY AtTwo, NestedEndType
  <2>2. NestedEnd(s, i) - i \in Nat \ {0}
    BY <1>1, <2>1
  <2> QED BY <2>2, PieceIs DEF Kinds, Modes
<1>4. Fits(Piece(last - i, "string", "code"))
  <2>1. end \in {0} \cup (i + 2 .. Len(s) + 1)
    BY QuoteEndType
  <2> HIDE DEF end
  <2>2. last - i \in Nat \ {0}
    BY <1>1, <2>1
  <2> HIDE DEF last
  <2> QED BY <2>2, PieceIs DEF Kinds, Modes
<1>5. Fits(Piece(1, "code", "code"))
  BY PieceIs DEF Kinds, Modes
<1> HIDE DEF Fits
<1>6. Fits(LiteralMask(s, i, mode))
  BY <1>2, <1>3, <1>4, <1>5 DEF LiteralMask, LiteralPiece
<1> QED BY <1>6 DEF Fits

-----------------------------------------------------------------------------
(* parse_script *)

\* The data of a COPY end at a place behind the statement, or with the text.
LEMMA PastCopyDataIs ==
    ASSUME NEW s \in Texts, NEW i \in 1 .. Len(s) + 1
    PROVE  PastCopyData(s, i) \in i .. Len(s) + 1
<1> DEFINE lines == {j + 1 : j \in {k \in i .. Len(s) : s[k] = "nl"}}
           ends == {j \in lines : At(s, j, <<"\\", ".">>) /\ (j + 2 > Len(s) \/ s[j + 2] = "nl")}
<1>1. Len(s) \in Nat
  BY DEF Texts
<1>2. PastCopyData(s, i) = IF ends = {} THEN Len(s) + 1 ELSE Min(ends) + 2
  BY DEF PastCopyData
<1>3. \A j \in ends : j \in i + 1 .. Len(s) + 1 /\ At(s, j, <<"\\", ".">>)
  OBVIOUS
<1> HIDE DEF ends
<1>4. ends \in SUBSET Nat
  BY <1>3
<1>5. CASE ends # {}
  <2>1. Min(ends) \in i + 1 .. Len(s) + 1 /\ At(s, Min(ends), <<"\\", ".">>)
    BY <1>3, <1>4, <1>5, MinIs
  <2>2. Min(ends) < Len(s)
    BY <2>1, AtTwo
  <2> QED BY <1>1, <1>2, <1>5, <2>1, <2>2
<1> QED BY <1>1, <1>2, <1>5

\* What parse_script makes of the text from i on, given what it makes of it from later on
ScriptBody(s, from, i, start, depth) ==
    LET piece == ScriptPiece(s, i)
        past == i + piece.take
        here == IF start = 0 THEN i ELSE start
        statement == Span(here, past)
        next == IF CopiesFromStdin(SpanText(s, statement)) THEN PastCopyData(s, past) ELSE past
        code == piece.kind = "code"
    IN  IF i > Len(s) THEN Script(IF start = 0 THEN {} ELSE {Span(start, i)}, {}, TRUE)
        ELSE IF ~piece.closed THEN Script({}, {}, FALSE)
        ELSE CASE piece.kind = "comment" \/ s[i] \in Blanks -> from[<<past, start, depth>>]
               [] piece.kind = "meta" ->
                    [from[<<past, start, depth>>] EXCEPT !.metas = @ \cup {Span(i, past)}]
               [] code /\ s[i] = "(" -> from[<<past, here, depth + 1>>]
               [] code /\ s[i] = ")" -> from[<<past, here, IF depth = 0 THEN 0 ELSE depth - 1>>]
               [] code /\ s[i] = ";" /\ depth = 0 ->
                    [from[<<next, 0, 0>>] EXCEPT !.statements = @ \cup {statement}]
               [] OTHER -> from[<<past, here, depth>>]

\* The places it goes on at: past the piece, or past the data of a COPY.
GoesOn(s, i, start, past, here, next) ==
    /\ past = i + ScriptPiece(s, i).take
    /\ here = IF start = 0 THEN i ELSE start
    /\ next = IF CopiesFromStdin(SpanText(s, Span(here, past))) THEN PastCopyData(s, past) ELSE past

Less(depth) == IF depth = 0 THEN 0 ELSE depth - 1

LEMMA GoesOnFurther ==
    ASSUME NEW s \in Texts, NEW i \in 1 .. Len(s), NEW start \in Nat, NEW depth \in Nat,
           NEW past, NEW here, NEW next, GoesOn(s, i, start, past, here, next)
    PROVE  /\ past \in i + 1 .. Len(s) + 1 /\ next \in i + 1 .. Len(s) + 1
           /\ here \in Nat /\ Less(depth) \in Nat
<1>1. Len(s) \in Nat /\ i \in Nat
  BY DEF Texts
<1>2. ScriptPiece(s, i).take \in Nat \ {0} /\ past <= Len(s) + 1
  BY ScriptPieceIs DEF ScriptPieceType, GoesOn
<1>3. past \in i + 1 .. Len(s) + 1 /\ past \in 1 .. Len(s) + 1
  BY <1>1, <1>2 DEF GoesOn
<1>4. PastCopyData(s, past) \in past .. Len(s) + 1
  BY <1>3, PastCopyDataIs
<1>5. next \in i + 1 .. Len(s) + 1
  BY <1>1, <1>3, <1>4 DEF GoesOn
<1>6. here \in Nat /\ Less(depth) \in Nat
  BY <1>1 DEF Less, GoesOn
<1> QED BY <1>3, <1>5, <1>6

\* The same, by the places it goes on at
Onward(s, from, i, start, depth, past, here, next) ==
    LET piece == ScriptPiece(s, i)
        code == piece.kind = "code"
    IN  IF ~piece.closed THEN Script({}, {}, FALSE)
        ELSE CASE piece.kind = "comment" \/ s[i] \in Blanks -> from[<<past, start, depth>>]
               [] piece.kind = "meta" ->
                    [from[<<past, start, depth>>] EXCEPT !.metas = @ \cup {Span(i, past)}]
               [] code /\ s[i] = "(" -> from[<<past, here, depth + 1>>]
               [] code /\ s[i] = ")" -> from[<<past, here, Less(depth)>>]
               [] code /\ s[i] = ";" /\ depth = 0 ->
                    [from[<<next, 0, 0>>] EXCEPT !.statements = @ \cup {Span(here, past)}]
               [] OTHER -> from[<<past, here, depth>>]

LEMMA ScriptBodyIsOnward ==
    ASSUME NEW s, NEW i, NEW start, NEW depth, NEW from, ~(i > Len(s)),
           NEW past, NEW here, NEW next, GoesOn(s, i, start, past, here, next)
    PROVE  ScriptBody(s, from, i, start, depth) = Onward(s, from, i, start, depth, past, here, next)
<1> DEFINE P == i + ScriptPiece(s, i).take
           H == IF start = 0 THEN i ELSE start
           C == IF CopiesFromStdin(SpanText(s, Span(H, P))) THEN PastCopyData(s, P) ELSE P
<1>1. ScriptBody(s, from, i, start, depth) =
            IF i > Len(s) THEN Script(IF start = 0 THEN {} ELSE {Span(start, i)}, {}, TRUE)
            ELSE Onward(s, from, i, start, depth, P, H, C)
  BY Zenon DEF ScriptBody, Onward, Less
<1>2. P = past /\ H = here /\ C = next
  BY DEF GoesOn
<1> HIDE DEF P, H, C
<1> QED BY <1>1, <1>2

WithMeta(script, span) == [script EXCEPT !.metas = @ \cup {span}]
WithStatement(script, span) == [script EXCEPT !.statements = @ \cup {span}]

\* It goes on in one of these ways.
LEMMA ScriptCases ==
    ASSUME NEW s, NEW i, NEW start, NEW depth, NEW from, NEW past, NEW here, NEW next
    PROVE  LET piece == ScriptPiece(s, i)
               body == Onward(s, from, i, start, depth, past, here, next)
           IN  \/ ~piece.closed /\ body = Script({}, {}, FALSE)
               \/ /\ piece.closed /\ piece.kind = "meta"
                  /\ body = WithMeta(from[<<past, start, depth>>], Span(i, past))
               \/ /\ piece.closed /\ (piece.kind # "meta" \/ s[i] \in Blanks)
                  /\ \/ body = from[<<past, start, depth>>]
                     \/ body = from[<<past, here, depth + 1>>]
                     \/ body = from[<<past, here, Less(depth)>>]
                     \/ body = WithStatement(from[<<next, 0, 0>>], Span(here, past))
                     \/ body = from[<<past, here, depth>>]
<1> DEFINE piece == ScriptPiece(s, i)
           body == Onward(s, from, i, start, depth, past, here, next)
           a1 == piece.kind = "comment" \/ s[i] \in Blanks
           a2 == piece.kind = "meta"
           a3 == piece.kind = "code" /\ s[i] = "("
           a4 == piece.kind = "code" /\ s[i] = ")"
           a5 == piece.kind = "code" /\ s[i] = ";" /\ depth = 0
           b1 == from[<<past, start, depth>>]
           b2 == WithMeta(from[<<past, start, depth>>], Span(i, past))
           b3 == from[<<past, here, depth + 1>>]
           b4 == from[<<past, here, Less(depth)>>]
           b5 == WithStatement(from[<<next, 0, 0>>], Span(here, past))
           b6 == from[<<past, here, depth>>]
<1>1. body = IF ~piece.closed THEN Script({}, {}, FALSE)
             ELSE CASE a1 -> b1 [] a2 -> b2 [] a3 -> b3 [] a4 -> b4 [] a5 -> b5 [] OTHER -> b6
  BY Zenon DEF Onward, WithMeta, WithStatement
<1>2. (a1 \/ a3 \/ a4 \/ a5 \/ ~a2) => piece.kind # "meta" \/ s[i] \in Blanks
  OBVIOUS
<1> DEFINE plain == piece.kind # "meta" \/ s[i] \in Blanks
<1> HIDE DEF a1, a3, a4, a5, b1, b2, b3, b4, b5, b6, body, piece, plain
<1>3. \/ ~piece.closed /\ body = Script({}, {}, FALSE)
      \/ piece.closed /\ a2 /\ body = b2
      \/ piece.closed /\ plain /\ body \in {b1, b3, b4, b5, b6}
  <2>1. CASE ~piece.closed
    BY <1>1, <2>1
  <2>2. CASE piece.closed
    <3>1. body = CASE a1 -> b1 [] a2 -> b2 [] a3 -> b3 [] a4 -> b4 [] a5 -> b5 [] OTHER -> b6
      BY <1>1, <2>2
    <3>2. (a2 /\ body = b2) \/ (plain /\ body \in {b1, b3, b4, b5, b6})
      BY <1>2, <3>1 DEF plain
    <3> QED BY <2>2, <3>2
  <2> QED BY <2>1, <2>2
<1> QED BY <1>3 DEF b1, b2, b3, b4, b5, b6, body, piece, plain

\* It reads the text only further on.
LEMMA ScriptBodyReads ==
    ASSUME NEW s \in Texts, NEW i \in 1 .. Len(s), NEW start \in Nat, NEW depth \in Nat,
           NEW f, NEW g, \A at \in (i + 1 .. Len(s) + 1) \X Nat \X Nat : f[at] = g[at]
    PROVE  ScriptBody(s, f, i, start, depth) = ScriptBody(s, g, i, start, depth)
<1>1. PICK past, here, next : GoesOn(s, i, start, past, here, next)
  BY DEF GoesOn
<1>2. /\ past \in i + 1 .. Len(s) + 1 /\ next \in i + 1 .. Len(s) + 1
      /\ here \in Nat /\ Less(depth) \in Nat
  BY <1>1, GoesOnFurther
<1> HIDE DEF Less
<1>3. /\ f[<<past, start, depth>>] = g[<<past, start, depth>>]
      /\ f[<<past, here, depth>>] = g[<<past, here, depth>>]
      /\ f[<<past, here, depth + 1>>] = g[<<past, here, depth + 1>>]
      /\ f[<<past, here, Less(depth)>>] = g[<<past, here, Less(depth)>>]
      /\ f[<<next, 0, 0>>] = g[<<next, 0, 0>>]
  BY <1>2
<1>4. Onward(s, f, i, start, depth, past, here, next) = Onward(s, g, i, start, depth, past, here, next)
  BY <1>3 DEF Onward
<1>5. ~(i > Len(s))
  BY DEF Texts
<1> QED BY <1>1, <1>4, <1>5, ScriptBodyIsOnward

LEMMA ScriptExists ==
    ASSUME NEW s \in Texts
    PROVE  \E from : from = [at \in (1 .. Len(s) + 1) \X Nat \X Nat |-> ScriptBody(s, from, at[1], at[2], at[3])]
<1> DEFINE n == Len(s)
           From(from, k) == from = [at \in (k .. n + 1) \X Nat \X Nat |-> ScriptBody(s, from, at[1], at[2], at[3])]
           S == {k \in 1 .. n + 1 : \E from : From(from, k)}
<1>1. n \in Nat
  BY DEF Texts
<1>2. n + 1 \in S
  <2> DEFINE f == [at \in (n + 1 .. n + 1) \X Nat \X Nat |-> ScriptBody(s, s, at[1], at[2], at[3])]
  <2>1. ASSUME NEW at \in (n + 1 .. n + 1) \X Nat \X Nat
        PROVE  ScriptBody(s, f, at[1], at[2], at[3]) = ScriptBody(s, s, at[1], at[2], at[3])
    <3>1. at[1] > Len(s)
      BY <1>1
    <3> HIDE DEF f
    <3> QED BY <3>1 DEF ScriptBody
  <2>2. f = [at \in (n + 1 .. n + 1) \X Nat \X Nat |-> ScriptBody(s, f, at[1], at[2], at[3])]
    <3> DEFINE g == [at \in (n + 1 .. n + 1) \X Nat \X Nat |-> ScriptBody(s, f, at[1], at[2], at[3])]
    <3>1. \A at \in (n + 1 .. n + 1) \X Nat \X Nat : f[at] = g[at]
      BY <2>1
    <3>2. f = [at \in (n + 1 .. n + 1) \X Nat \X Nat |-> f[at]]
      OBVIOUS
    <3>3. g = [at \in (n + 1 .. n + 1) \X Nat \X Nat |-> g[at]]
      OBVIOUS
    <3> HIDE DEF f, g, n
    <3>4. f = g
      BY <3>1, <3>2, <3>3
    <3> QED BY <3>4 DEF g, n
  <2>3. From(f, n + 1)
    BY <2>2
  <2> HIDE DEF f, From
  <2> QED BY <1>1, <2>3
<1>3. \A k \in 1 .. (n + 1) - 1 : (\A j \in k + 1 .. n + 1 : j \in S) => k \in S
  <2> TAKE k \in 1 .. (n + 1) - 1
  <2> HAVE \A j \in k + 1 .. n + 1 : j \in S
  <2>1. k \in 1 .. n /\ k + 1 \in S
    <3>1. k \in 1 .. n /\ k + 1 \in k + 1 .. n + 1
      BY <1>1
    <3> HIDE DEF S
    <3> QED BY <3>1
  <2>2. PICK f : From(f, k + 1)
    BY <2>1
  <2> DEFINE Later == (k + 1 .. n + 1) \X Nat \X Nat
             All == (k .. n + 1) \X Nat \X Nat
             g == [at \in All |-> IF at[1] = k THEN ScriptBody(s, f, at[1], at[2], at[3]) ELSE f[at]]
  <2>3. \A at \in Later : f[at] = ScriptBody(s, f, at[1], at[2], at[3])
    <3> DEFINE body == [at \in Later |-> ScriptBody(s, f, at[1], at[2], at[3])]
    <3>1. f = body
      BY <2>2
    <3>2. \A at \in Later : body[at] = ScriptBody(s, f, at[1], at[2], at[3])
      OBVIOUS
    <3> HIDE DEF body
    <3> QED BY <3>1, <3>2
  <2>4. \A at \in All : /\ at = <<at[1], at[2], at[3]>> /\ at[2] \in Nat /\ at[3] \in Nat
                        /\ at[1] = k \/ (at \in Later /\ at[1] \in k + 1 .. n + 1)
    BY <1>1, <2>1
  <2>5. \A at \in Later : at \in All /\ at[1] # k
    BY <1>1, <2>1
  <2>6. /\ \A at \in All : at[1] = k => g[at] = ScriptBody(s, f, at[1], at[2], at[3])
        /\ \A at \in Later : g[at] = f[at]
        /\ g = [at \in All |-> g[at]]
    BY <2>5
  <2> HIDE DEF g
  <2>7. ASSUME NEW at \in All PROVE ScriptBody(s, g, at[1], at[2], at[3]) = ScriptBody(s, f, at[1], at[2], at[3])
    <3>1. CASE at[1] > n
      BY <3>1 DEF ScriptBody
    <3>2. CASE at[1] <= n
      <4>1. at[1] \in 1 .. n /\ \A x \in at[1] + 1 .. n + 1 : x \in k + 1 .. n + 1
        BY <1>1, <2>1, <2>4, <3>2
      <4>2. \A x \in (at[1] + 1 .. n + 1) \X Nat \X Nat : x \in Later
        BY <4>1
      <4>3. \A x \in (at[1] + 1 .. n + 1) \X Nat \X Nat : g[x] = f[x]
        BY <2>6, <4>2
      <4>4. at[2] \in Nat /\ at[3] \in Nat
        BY <2>4
      <4> QED BY <4>1, <4>3, <4>4, ScriptBodyReads
    <3> QED BY <1>1, <2>4, <3>1, <3>2
  <2>8. \A at \in All : g[at] = ScriptBody(s, g, at[1], at[2], at[3])
    BY <2>3, <2>4, <2>6, <2>7
  <2>9. From(g, k)
    <3> HIDE DEF All
    <3>1. g = [at \in All |-> ScriptBody(s, g, at[1], at[2], at[3])]
      BY <2>6, <2>8
    <3> QED BY <3>1 DEF All
  <2> HIDE DEF From
  <2> QED BY <1>1, <2>1, <2>9
<1>4. \A k \in 1 .. n + 1 : k \in S
  <2> HIDE DEF S, n
  <2>1. n + 1 \in Nat
    BY <1>1
  <2> QED BY <1>2, <1>3, <2>1, DownTheText
<1>5. 1 \in S
  <2> HIDE DEF S
  <2>1. 1 \in 1 .. n + 1
    BY <1>1
  <2> QED BY <1>4, <2>1
<1> QED BY <1>5

Spans == [from : Nat, to : Nat]
Scripts == [statements : SUBSET Spans, metas : SUBSET Spans, complete : BOOLEAN]

\* from is what parse_script makes of the text from each place on.
IsScriptTable(s, from) ==
    \A i \in 1 .. Len(s) + 1, start, depth \in Nat :
        /\ from[<<i, start, depth>>] = ScriptBody(s, from, i, start, depth)
        /\ from[<<i, start, depth>>] \in Scripts

LEMMA ScriptBodyIs ==
    ASSUME NEW s \in Texts, NEW i \in 1 .. Len(s) + 1, NEW start \in Nat, NEW depth \in Nat,
           NEW from, \A at \in (i + 1 .. Len(s) + 1) \X Nat \X Nat : from[at] \in Scripts
    PROVE  ScriptBody(s, from, i, start, depth) \in Scripts
<1>1. Len(s) \in Nat /\ i \in Nat
  BY DEF Texts
<1>2. Script(IF start = 0 THEN {} ELSE {Span(start, i)}, {}, TRUE) \in Scripts
  BY <1>1 DEF Script, Scripts, Span, Spans
<1>3. CASE i > Len(s)
  BY <1>2, <1>3 DEF ScriptBody
<1>4. CASE i <= Len(s)
  <2>1. i \in 1 .. Len(s) /\ ~(i > Len(s)) /\ Script({}, {}, FALSE) \in Scripts
    BY <1>1, <1>4 DEF Script, Scripts
  <2>2. PICK past, here, next : GoesOn(s, i, start, past, here, next)
    BY DEF GoesOn
  <2>3. /\ past \in i + 1 .. Len(s) + 1 /\ next \in i + 1 .. Len(s) + 1
        /\ here \in Nat /\ Less(depth) \in Nat /\ depth + 1 \in Nat
    BY <2>1, <2>2, GoesOnFurther
  <2>4. /\ from[<<past, start, depth>>] \in Scripts /\ from[<<past, here, depth>>] \in Scripts
        /\ from[<<past, here, depth + 1>>] \in Scripts /\ from[<<past, here, Less(depth)>>] \in Scripts
        /\ from[<<next, 0, 0>>] \in Scripts
    BY <2>3
  <2>5. Span(i, past) \in Spans /\ Span(here, past) \in Spans
    BY <1>1, <2>3 DEF Span, Spans
  <2>6. ASSUME NEW r \in Scripts, NEW span \in Spans
        PROVE  WithMeta(r, span) \in Scripts /\ WithStatement(r, span) \in Scripts
    BY DEF Scripts, WithMeta, WithStatement
  <2>7. /\ WithMeta(from[<<past, start, depth>>], Span(i, past)) \in Scripts
        /\ WithStatement(from[<<next, 0, 0>>], Span(here, past)) \in Scripts
    BY <2>4, <2>5, <2>6
  <2>8. ScriptBody(s, from, i, start, depth) = Onward(s, from, i, start, depth, past, here, next)
    BY <2>1, <2>2, ScriptBodyIsOnward
  <2>9. Onward(s, from, i, start, depth, past, here, next) \in Scripts
    <3> DEFINE body == Onward(s, from, i, start, depth, past, here, next)
    <3>1. \/ body = Script({}, {}, FALSE)
          \/ body = from[<<past, start, depth>>]
          \/ body = WithMeta(from[<<past, start, depth>>], Span(i, past))
          \/ body = from[<<past, here, depth + 1>>]
          \/ body = from[<<past, here, Less(depth)>>]
          \/ body = WithStatement(from[<<next, 0, 0>>], Span(here, past))
          \/ body = from[<<past, here, depth>>]
      BY ScriptCases, Zenon
    <3> HIDE DEF body
    <3>2. body \in Scripts
      BY <2>1, <2>4, <2>7, <3>1, Zenon
    <3> QED BY <3>2 DEF body
  <2> QED BY <2>8, <2>9
<1> QED BY <1>1, <1>3, <1>4

LEMMA ScriptTable ==
    ASSUME NEW s \in Texts
    PROVE  \E from : IsScriptTable(s, from) /\ parse_script(s) = from[<<1, 0, 0>>]
<1> DEFINE Places == (1 .. Len(s) + 1) \X Nat \X Nat
           Is(from) == from = [at \in Places |-> ScriptBody(s, from, at[1], at[2], at[3])]
           from == CHOOSE f : Is(f)
<1>1. Is(from)
  <2>1. \E f : Is(f)
    BY ScriptExists
  <2> QED BY <2>1
<1>2. parse_script(s) = from[<<1, 0, 0>>]
  BY Zenon DEF parse_script, ScriptBody
<1>3. \A at \in Places : from[at] = ScriptBody(s, from, at[1], at[2], at[3])
  <2> DEFINE body == [at \in Places |-> ScriptBody(s, from, at[1], at[2], at[3])]
  <2>1. \A at \in Places : body[at] = ScriptBody(s, from, at[1], at[2], at[3])
    OBVIOUS
  <2>2. from = body
    BY <1>1
  <2> HIDE DEF from, body
  <2> QED BY <2>1, <2>2
<1> HIDE DEF from
<1>4. \A i \in 1 .. Len(s) + 1, start, depth \in Nat :
        from[<<i, start, depth>>] = ScriptBody(s, from, i, start, depth)
  BY <1>3
<1> DEFINE n == Len(s)
           S == {i \in 1 .. n + 1 : \A start, depth \in Nat : from[<<i, start, depth>>] \in Scripts}
<1>5. n \in Nat /\ n + 1 \in Nat /\ n + 1 \in 1 .. n + 1
  BY DEF Texts
<1>6. ASSUME NEW k \in 1 .. n + 1, \A j \in k + 1 .. n + 1 : j \in S PROVE k \in S
  <2>1. \A at \in (k + 1 .. n + 1) \X Nat \X Nat : from[at] \in Scripts
    BY <1>6
  <2>2. ASSUME NEW start \in Nat, NEW depth \in Nat PROVE from[<<k, start, depth>>] \in Scripts
    <3>1. ScriptBody(s, from, k, start, depth) \in Scripts
      BY <2>1, ScriptBodyIs
    <3> QED BY <1>4, <3>1
  <2> QED BY <2>2
<1>7. n + 1 \in S
  <2>1. \A j \in (n + 1) + 1 .. n + 1 : j \in S
    BY <1>5
  <2> QED BY <1>5, <1>6, <2>1
<1>8. \A i \in 1 .. n + 1 : i \in S
  <2>1. \A k \in 1 .. (n + 1) - 1 : (\A j \in k + 1 .. n + 1 : j \in S) => k \in S
    BY <1>5, <1>6
  <2> HIDE DEF S, n
  <2> QED BY <1>5, <1>7, <2>1, DownTheText
<1>9. IsScriptTable(s, from)
  BY <1>4, <1>8 DEF IsScriptTable
<1> QED BY <1>2, <1>9

\* script says of a part of a text that it is complete, with these statements at most.
Leads(script, statements) ==
    script.complete /\ script.metas = {} /\ script.statements \subseteq statements

\* In a complete script without backslash commands and COPY, parse_script goes on behind
\* each piece.
LEMMA LeadsOn ==
    ASSUME NEW s \in Texts, NEW from, IsScriptTable(s, from), NEW statements,
           \A st \in statements : ~CopiesFromStdin(SpanText(s, st)),
           NEW i \in 1 .. Len(s), NEW start \in Nat, NEW depth \in Nat,
           Leads(from[<<i, start, depth>>], statements)
    PROVE  /\ ScriptPiece(s, i).closed /\ ScriptPiece(s, i).kind # "meta"
           /\ \E start2, depth2 \in Nat :
                Leads(from[<<i + ScriptPiece(s, i).take, start2, depth2>>], statements)
<1> DEFINE piece == ScriptPiece(s, i)
<1>1. Len(s) \in Nat /\ i \in 1 .. Len(s) + 1 /\ ~(i > Len(s))
  BY DEF Texts
<1>2. PICK past, here, next : GoesOn(s, i, start, past, here, next)
  BY DEF GoesOn
<1> DEFINE body == Onward(s, from, i, start, depth, past, here, next)
<1>3. /\ past \in i + 1 .. Len(s) + 1 /\ next \in i + 1 .. Len(s) + 1
      /\ here \in Nat /\ Less(depth) \in Nat
  BY <1>2, GoesOnFurther
<1>4. past = i + piece.take
  BY <1>2 DEF GoesOn
<1>5. from[<<i, start, depth>>] = body
  BY <1>1, <1>2, ScriptBodyIsOnward DEF IsScriptTable
<1>6. \/ ~piece.closed /\ body = Script({}, {}, FALSE)
      \/ /\ piece.closed /\ piece.kind = "meta"
         /\ body = WithMeta(from[<<past, start, depth>>], Span(i, past))
      \/ /\ piece.closed /\ (piece.kind # "meta" \/ s[i] \in Blanks)
         /\ \/ body = from[<<past, start, depth>>]
            \/ body = from[<<past, here, depth + 1>>]
            \/ body = from[<<past, here, Less(depth)>>]
            \/ body = WithStatement(from[<<next, 0, 0>>], Span(here, past))
            \/ body = from[<<past, here, depth>>]
  BY ScriptCases, Zenon
<1>7. past \in 1 .. Len(s) + 1 /\ next \in 1 .. Len(s) + 1 /\ depth + 1 \in Nat /\ 0 \in Nat
  BY <1>1, <1>3
<1>8. /\ from[<<past, start, depth>>] \in Scripts /\ from[<<next, 0, 0>>] \in Scripts
  BY <1>7 DEF IsScriptTable
<1>9. Leads(body, statements)
  BY <1>5
<1> HIDE DEF body
<1>10. CASE ~piece.closed /\ body = Script({}, {}, FALSE)
  BY <1>9, <1>10 DEF Leads, Script
<1>11. CASE body = WithMeta(from[<<past, start, depth>>], Span(i, past))
  <2>1. body.metas # {}
    BY <1>8, <1>11 DEF WithMeta, Scripts
  <2> QED BY <1>9, <2>1 DEF Leads
<1>12. CASE /\ piece.closed /\ (piece.kind # "meta" \/ s[i] \in Blanks)
            /\ \/ body = from[<<past, start, depth>>]
               \/ body = from[<<past, here, depth + 1>>]
               \/ body = from[<<past, here, Less(depth)>>]
               \/ body = WithStatement(from[<<next, 0, 0>>], Span(here, past))
               \/ body = from[<<past, here, depth>>]
  <2>1. s[i] \in Blanks => piece.kind = "code"
    <3>1. s[i] \in Blanks => piece = Whole("code", 1)
      BY ScriptPieceCases, Zenon
    <3> QED BY <3>1 DEF Whole
  <2>2. piece.kind # "meta"
    BY <1>12, <2>1
  <2>3. ASSUME body = WithStatement(from[<<next, 0, 0>>], Span(here, past))
        PROVE  Leads(from[<<past, 0, 0>>], statements)
    <3> DEFINE rest == from[<<next, 0, 0>>]
    <3> HIDE DEF rest
    <3>1. /\ body.complete = rest.complete /\ body.metas = rest.metas
          /\ body.statements = rest.statements \cup {Span(here, past)}
      BY <1>8, <2>3 DEF WithStatement, Scripts, rest
    <3>2. Span(here, past) \in statements /\ Leads(rest, statements)
      BY <1>9, <3>1 DEF Leads
    <3>3. next = past
      BY <1>2, <3>2 DEF GoesOn
    <3> QED BY <3>2, <3>3 DEF rest
  <2>4. \E start2, depth2 \in Nat : Leads(from[<<past, start2, depth2>>], statements)
    BY <1>3, <1>7, <1>9, <1>12, <2>3, Zenon
  <2> QED BY <1>4, <1>12, <2>2, <2>4
<1> QED BY <1>6, <1>10, <1>11, <1>12

-----------------------------------------------------------------------------
(* The text of a dollar quote, as a text of its own *)

\* t is the n symbols of s from b + 1 on, a dollar at either end, and one more.
IsInside(s, b, n, t) ==
    /\ t \in Texts /\ Len(t) = n + 1 /\ b + n <= Len(s)
    /\ \A k \in 1 .. n : t[k] = s[b + k]
    /\ t[1] = "$" /\ t[n] = "$" /\ t[n + 1] = "a"

LEMMA AtInside ==
    ASSUME NEW s \in Texts, NEW b \in Nat, NEW n \in Nat \ {0}, NEW t, IsInside(s, b, n, t),
           NEW k \in 1 .. n, NEW x, NEW y, x # "$"
    PROVE  At(t, k, <<x, y>>) <=> At(s, b + k, <<x, y>>)
<1>1. /\ t \in Texts /\ Len(t) = n + 1 /\ b + n <= Len(s) /\ Len(s) \in Nat
      /\ t[k] = s[b + k] /\ t[n] = "$"
  BY DEF IsInside, Texts
<1>2. /\ At(t, k, <<x, y>>) <=> k < Len(t) /\ t[k] = x /\ t[k + 1] = y
      /\ At(s, b + k, <<x, y>>) <=> b + k < Len(s) /\ s[b + k] = x /\ s[(b + k) + 1] = y
  <2>1. k \in Nat \ {0} /\ b + k \in Nat \ {0}
    OBVIOUS
  <2> QED BY <1>1, <2>1, AtTwo
<1>3. CASE k = n
  BY <1>1, <1>2, <1>3
<1>4. CASE k < n
  <2>1. k + 1 \in 1 .. n /\ b + (k + 1) = (b + k) + 1
    BY <1>4
  <2>2. t[k + 1] = s[(b + k) + 1]
    BY <2>1 DEF IsInside
  <2> QED BY <1>1, <1>2, <1>4, <2>2
<1> QED BY <1>3, <1>4

\* A line, a comment or a literal that ends inside ends there in the whole text too.
LEMMA FindInside ==
    ASSUME NEW s \in Texts, NEW b \in Nat, NEW n \in Nat \ {0}, NEW t, IsInside(s, b, n, t),
           NEW k \in 1 .. n, Find(t, k, <<"nl">>) <= n + 1
    PROVE  Find(s, b + k, <<"nl">>) = b + Find(t, k, <<"nl">>)
<1> DEFINE f == Find(t, k, <<"nl">>)
           g == Find(s, b + k, <<"nl">>)
<1>1. /\ t \in Texts /\ Len(t) = n + 1 /\ b + n <= Len(s) /\ Len(s) \in Nat /\ t[n + 1] = "a"
      /\ \A j \in 1 .. n : t[j] = s[b + j]
  BY DEF IsInside, Texts
<1>2. /\ f \in k .. n + 2 /\ (f <= n + 1 => At(t, f, <<"nl">>))
      /\ \A j \in k .. f - 1 : ~At(t, j, <<"nl">>)
  <2>1. k <= Len(t) + 1 /\ k \in Nat \ {0} /\ Len(t) + 1 = n + 2
    BY <1>1
  <2> QED BY <1>1, <2>1, FindIs
<1>3. /\ g \in b + k .. Len(s) + 1 /\ (g <= Len(s) => At(s, g, <<"nl">>))
      /\ \A j \in b + k .. g - 1 : ~At(s, j, <<"nl">>)
  <2>1. b + k <= Len(s) + 1 /\ b + k \in Nat \ {0}
    BY <1>1
  <2> QED BY <2>1, FindIs
<1>4. f <= n + 1
  OBVIOUS
<1> HIDE DEF f, g
<1>5. t[f] = "nl" /\ f \in k .. n
  <2>1. t[f] = "nl"
    BY <1>1, <1>2, <1>4, AtOne
  <2> QED BY <1>1, <1>2, <1>4, <2>1
<1>6. At(s, b + f, <<"nl">>)
  BY <1>1, <1>5, AtOne
<1>7. ~(b + f < g)
  BY <1>3, <1>5, <1>6
<1>8. ~(g < b + f)
  <2> SUFFICES ASSUME g < b + f PROVE FALSE
    OBVIOUS
  <2>1. g <= Len(s) /\ g - b \in k .. f - 1 /\ g - b \in 1 .. n /\ b + (g - b) = g
    BY <1>1, <1>3, <1>5
  <2>2. s[g] = "nl"
    BY <1>3, <2>1, AtOne
  <2>3. t[g - b] = "nl"
    BY <1>1, <2>1, <2>2
  <2>4. At(t, g - b, <<"nl">>)
    BY <1>1, <2>1, <2>3, AtOne
  <2> QED BY <1>2, <2>1, <2>4
<1>9. g = b + f
  BY <1>3, <1>5, <1>7, <1>8
<1> QED BY <1>9 DEF f, g

LEMMA NestedInside ==
    ASSUME NEW s \in Texts, NEW b \in Nat, NEW n \in Nat \ {0}, NEW t, IsInside(s, b, n, t),
           NEW k \in 1 .. n - 1, NestedEnd(t, k) <= n + 1
    PROVE  NestedEnd(s, b + k) = b + NestedEnd(t, k)
<1>1. /\ t \in Texts /\ Len(t) = n + 1 /\ b + n <= Len(s) /\ Len(s) \in Nat /\ t[n + 1] = "a"
      /\ \A j \in 1 .. n : t[j] = s[b + j]
  BY DEF IsInside, Texts
<1>2. PICK p : /\ \A j \in 1 .. Len(t) + 1 : p[j] = NestedBody(t, p, j)
               /\ \A j \in 1 .. Len(t) + 1 : p[j] \in j .. Len(t) + 1
               /\ \A i : NestedEnd(t, i) = p[i + 2]
  BY <1>1, NestedTable
<1>3. PICK q : /\ \A j \in 1 .. Len(s) + 1 : q[j] = NestedBody(s, q, j)
               /\ \A j \in 1 .. Len(s) + 1 : q[j] \in j .. Len(s) + 1
               /\ \A i : NestedEnd(s, i) = q[i + 2]
  BY NestedTable
<1>4. \A j \in 1 .. n + 2 : p[j] = NestedBody(t, p, j) /\ p[j] \in j .. n + 2
  BY <1>1, <1>2
<1> DEFINE S == {j \in 1 .. n + 2 : p[j] <= n + 1 => j <= n /\ q[b + j] = b + p[j]}
<1>5. n + 2 \in S
  BY <1>4
<1>6. n + 1 \in S
  <2>1. ~At(t, n + 1, <<"/", "*">>) /\ ~At(t, n + 1, <<"*", "/">>)
    BY <1>1, AtTwo
  <2>2. p[n + 1] = p[(n + 1) + 1]
    <3>1. n + 1 \in 1 .. n + 2 /\ ~(n + 1 > Len(t))
      BY <1>1
    <3> QED BY <1>4, <2>1, <3>1 DEF NestedBody
  <2>3. n + 2 \in 1 .. n + 2 /\ p[n + 2] \in n + 2 .. n + 2 /\ (n + 1) + 1 = n + 2
    BY <1>4
  <2> QED BY <2>2, <2>3
<1>7. \A j \in 1 .. (n + 2) - 1 : (\A m \in j + 1 .. n + 2 : m \in S) => j \in S
  <2> TAKE j \in 1 .. (n + 2) - 1
  <2> HAVE \A m \in j + 1 .. n + 2 : m \in S
  <2>1. CASE j = n + 1
    BY <1>6, <2>1
  <2>2. CASE j <= n
    <3> SUFFICES ASSUME p[j] <= n + 1 PROVE q[b + j] = b + p[j]
      BY <2>2
    <3>1. /\ j \in 1 .. n /\ b + j \in 1 .. Len(s) + 1 /\ ~(j > Len(t)) /\ ~(b + j > Len(s))
          /\ j \in 1 .. n + 2
      BY <1>1, <2>2
    <3>2. p[j] = NestedBody(t, p, j) /\ q[b + j] = NestedBody(s, q, b + j)
      BY <1>3, <1>4, <3>1
    <3>3. /\ At(t, j, <<"/", "*">>) <=> At(s, b + j, <<"/", "*">>)
          /\ At(t, j, <<"*", "/">>) <=> At(s, b + j, <<"*", "/">>)
      BY <3>1, AtInside
    <3>4. j + 1 \in S /\ j + 2 \in S
      BY <3>1
    <3>5. CASE At(t, j, <<"/", "*">>)
      <4>1. p[j] = p[p[j + 2]] /\ q[b + j] = q[q[(b + j) + 2]]
        BY <3>1, <3>2, <3>3, <3>5 DEF NestedBody
      <4>2. p[j + 2] \in j + 2 .. n + 2
        BY <1>4, <3>1
      <4>3. p[j + 2] \in 1 .. n + 2 /\ p[j + 2] \in j + 1 .. n + 2
        BY <3>1, <4>2
      <4>4. p[p[j + 2]] \in p[j + 2] .. n + 2
        BY <1>4, <4>3
      <4>5. p[j + 2] <= n + 1
        BY <4>1, <4>3, <4>4
      <4>6. q[b + (j + 2)] = b + p[j + 2]
        BY <3>4, <4>5
      <4>7. p[j + 2] \in S
        BY <4>3
      <4>8. q[b + p[j + 2]] = b + p[p[j + 2]]
        BY <4>1, <4>7
      <4>9. b + (j + 2) = (b + j) + 2
        OBVIOUS
      <4> QED BY <4>1, <4>6, <4>8, <4>9
    <3>6. CASE ~At(t, j, <<"/", "*">>) /\ At(t, j, <<"*", "/">>)
      <4>1. p[j] = j + 2 /\ q[b + j] = (b + j) + 2
        BY <3>1, <3>2, <3>3, <3>6 DEF NestedBody
      <4> QED BY <4>1
    <3>7. CASE ~At(t, j, <<"/", "*">>) /\ ~At(t, j, <<"*", "/">>)
      <4>1. p[j] = p[j + 1] /\ q[b + j] = q[(b + j) + 1]
        BY <3>1, <3>2, <3>3, <3>7 DEF NestedBody
      <4>2. b + (j + 1) = (b + j) + 1
        OBVIOUS
      <4> QED BY <3>4, <4>1, <4>2
    <3> QED BY <3>5, <3>6, <3>7
  <2> QED BY <2>1, <2>2
<1>8. \A j \in 1 .. n + 2 : j \in S
  <2> HIDE DEF S
  <2>1. n + 2 \in Nat
    OBVIOUS
  <2> QED BY <1>5, <1>7, <2>1, DownTheText
<1>9. k + 2 \in 1 .. n + 2 /\ b + (k + 2) = (b + k) + 2
  OBVIOUS
<1>10. p[k + 2] <= n + 1
  BY <1>2
<1>11. q[b + (k + 2)] = b + p[k + 2]
  BY <1>8, <1>9, <1>10
<1> QED BY <1>2, <1>3, <1>9, <1>11

LEMMA QuoteInside ==
    ASSUME NEW s \in Texts, NEW b \in Nat, NEW n \in Nat \ {0}, NEW t, IsInside(s, b, n, t),
           NEW k \in 1 .. n, t[k] \in {"'", "dq"}, NEW escapes, QuoteEnd(t, k, escapes) # 0
    PROVE  QuoteEnd(s, b + k, escapes) = b + QuoteEnd(t, k, escapes)
<1> DEFINE quote == t[k]
<1>1. /\ t \in Texts /\ Len(t) = n + 1 /\ b + n <= Len(s) /\ Len(s) \in Nat /\ t[n + 1] = "a"
      /\ \A j \in 1 .. n : t[j] = s[b + j]
  BY DEF IsInside, Texts
<1>2. s[b + k] = quote /\ quote # "$" /\ quote # "a"
  BY <1>1
<1>3. PICK p : IsQuoteTable(t, quote, escapes, p) /\ QuoteEnd(t, k, escapes) = p[k + 1]
  BY <1>1, QuoteTable
<1>4. PICK q : IsQuoteTable(s, quote, escapes, q) /\ QuoteEnd(s, b + k, escapes) = q[(b + k) + 1]
  BY <1>2, QuoteTable
<1> HIDE DEF quote
<1>5. \A j \in 1 .. n + 3 : p[j] = QuoteBody(t, quote, escapes, p, j)
  <2>1. Len(t) + 2 = n + 3
    BY <1>1
  <2> QED BY <1>3, <2>1 DEF IsQuoteTable
<1>6. p[n + 3] = 0 /\ p[n + 2] = 0
  <2>1. n + 3 \in 1 .. n + 3 /\ n + 2 \in 1 .. n + 3 /\ n + 3 > Len(t) /\ n + 2 > Len(t)
    BY <1>1
  <2> QED BY <1>5, <2>1 DEF QuoteBody
<1>7. p[n + 1] = 0
  <2>1. ~At(t, n + 1, <<quote, quote>>) /\ t[n + 1] # quote /\ t[n + 1] # "\\"
    BY <1>1, <1>2, AtTwo
  <2>2. n + 1 \in 1 .. n + 3 /\ ~(n + 1 > Len(t)) /\ (n + 1) + 1 = n + 2
    BY <1>1
  <2> QED BY <1>5, <1>6, <2>1, <2>2 DEF QuoteBody
<1> DEFINE S == {j \in 1 .. n + 3 : p[j] # 0 => j <= n /\ q[b + j] = b + p[j]}
<1>8. \A j \in 1 .. (n + 3) - 1 : (\A m \in j + 1 .. n + 3 : m \in S) => j \in S
  <2> TAKE j \in 1 .. (n + 3) - 1
  <2> HAVE \A m \in j + 1 .. n + 3 : m \in S
  <2>1. CASE j = n + 1 \/ j = n + 2
    BY <1>6, <1>7, <2>1
  <2>2. CASE j <= n
    <3> SUFFICES ASSUME p[j] # 0 PROVE q[b + j] = b + p[j]
      BY <2>2
    <3>1. /\ j \in 1 .. n /\ b + j \in 1 .. Len(s) + 2 /\ ~(j > Len(t)) /\ ~(b + j > Len(s))
          /\ j \in 1 .. n + 3 /\ t[j] = s[b + j]
      BY <1>1, <2>2
    <3>2. p[j] = QuoteBody(t, quote, escapes, p, j) /\ q[b + j] = QuoteBody(s, quote, escapes, q, b + j)
      BY <1>4, <1>5, <3>1 DEF IsQuoteTable
    <3>3. At(t, j, <<quote, quote>>) <=> At(s, b + j, <<quote, quote>>)
      BY <1>2, <3>1, AtInside
    <3>4. /\ j + 1 \in S /\ j + 2 \in S
          /\ b + (j + 1) = (b + j) + 1 /\ b + (j + 2) = (b + j) + 2
      BY <3>1
    <3>5. CASE escapes /\ t[j] = "\\"
      <4>1. p[j] = p[j + 2] /\ q[b + j] = q[(b + j) + 2]
        BY <3>1, <3>2, <3>5 DEF QuoteBody
      <4> QED BY <3>4, <4>1
    <3>6. CASE ~(escapes /\ t[j] = "\\") /\ At(t, j, <<quote, quote>>)
      <4>1. p[j] = p[j + 2] /\ q[b + j] = q[(b + j) + 2]
        BY <3>1, <3>2, <3>3, <3>6 DEF QuoteBody
      <4> QED BY <3>4, <4>1
    <3>7. CASE ~(escapes /\ t[j] = "\\") /\ ~At(t, j, <<quote, quote>>) /\ t[j] = quote
      <4>1. p[j] = j + 1 /\ q[b + j] = (b + j) + 1
        BY <3>1, <3>2, <3>3, <3>7 DEF QuoteBody
      <4> QED BY <4>1
    <3>8. CASE ~(escapes /\ t[j] = "\\") /\ ~At(t, j, <<quote, quote>>) /\ t[j] # quote
      <4>1. p[j] = p[j + 1] /\ q[b + j] = q[(b + j) + 1]
        BY <3>1, <3>2, <3>3, <3>8 DEF QuoteBody
      <4> QED BY <3>4, <4>1
    <3> QED BY <3>5, <3>6, <3>7, <3>8
  <2> QED BY <2>1, <2>2
<1>9. \A j \in 1 .. n + 3 : j \in S
  <2>1. n + 3 \in Nat /\ n + 3 \in S
    BY <1>6
  <2> HIDE DEF S
  <2> QED BY <1>8, <2>1, DownTheText
<1>10. k + 1 \in 1 .. n + 3 /\ b + (k + 1) = (b + k) + 1
  OBVIOUS
<1> QED BY <1>3, <1>4, <1>9, <1>10

LEMMA EscapesInside ==
    ASSUME NEW s \in Texts, NEW b \in Nat, NEW n \in Nat \ {0}, NEW t, IsInside(s, b, n, t),
           NEW k \in 2 .. n
    PROVE  IsEscapeString(t, k) <=> IsEscapeString(s, b + k)
<1>1. /\ \A j \in 1 .. n : t[j] = s[b + j]
      /\ t[1] = "$"
  BY DEF IsInside
<1>2. CASE k = 2
  <2>1. t[k - 1] = "$" /\ s[(b + k) - 1] = "$"
    <3>1. 1 \in 1 .. n /\ k - 1 = 1 /\ (b + k) - 1 = b + 1
      BY <1>2
    <3> QED BY <1>1, <3>1
  <2> QED BY <2>1 DEF IsEscapeString
<1>3. CASE k > 2
  <2>1. /\ k - 1 \in 1 .. n /\ k - 2 \in 1 .. n
        /\ b + (k - 1) = (b + k) - 1 /\ b + (k - 2) = (b + k) - 2
        /\ k # 2 /\ b + k # 2 /\ k > 1 /\ b + k > 1
    BY <1>3
  <2>2. t[k - 1] = s[(b + k) - 1] /\ t[k - 2] = s[(b + k) - 2]
    BY <1>1, <2>1
  <2> QED BY <2>1, <2>2 DEF IsEscapeString
<1> QED BY <1>2, <1>3

\* What the fixes take for one piece inside, they take for one in the whole text.
LEMMA MaskInside ==
    ASSUME NEW s \in Texts, NEW b \in Nat, NEW n \in Nat \ {0}, NEW t, IsInside(s, b, n, t),
           NEW k \in 1 .. n, k + LiteralMask(t, k, "code").take <= n + 1
    PROVE  LiteralMask(s, b + k, "code") = LiteralMask(t, k, "code")
<1> DEFINE p == LiteralMask(t, k, "code")
           q == LiteralMask(s, b + k, "code")
<1>1. /\ t \in Texts /\ Len(t) = n + 1 /\ b + n <= Len(s) /\ Len(s) \in Nat
      /\ t[k] = s[b + k] /\ t[1] = "$" /\ t[n] = "$"
  BY DEF IsInside, Texts
<1>2. /\ At(t, k, <<"-", "-">>) <=> At(s, b + k, <<"-", "-">>)
      /\ At(t, k, <<"/", "*">>) <=> At(s, b + k, <<"/", "*">>)
  BY AtInside
<1>3. /\ At(t, k, <<"-", "-">>) => t[k] = "-"
      /\ At(t, k, <<"/", "*">>) => t[k] = "/" /\ k \in 1 .. n - 1
  <2>1. k \in Nat \ {0}
    OBVIOUS
  <2>2. /\ At(t, k, <<"-", "-">>) => t[k] = "-"
        /\ At(t, k, <<"/", "*">>) => t[k] = "/"
    BY <1>1, <2>1, AtTwo
  <2>3. t[k] = "/" => k # n
    BY <1>1
  <2> QED BY <2>2, <2>3
<1>4. CASE At(t, k, <<"-", "-">>)
  <2>1. p = LineComment(t, k) /\ q = LineComment(s, b + k)
    BY <1>1, <1>2, <1>3, <1>4 DEF LiteralMask, LiteralPiece
  <2>2. p.take = Find(t, k, <<"nl">>) - k
    BY <2>1 DEF LineComment, Piece
  <2> DEFINE f == Find(t, k, <<"nl">>)
  <2>3. f \in Nat
    <3>1. k \in Nat \ {0} /\ k <= Len(t) + 1
      BY <1>1
    <3>2. f \in k .. Len(t) + 1
      BY <1>1, <3>1, FindIs
    <3> QED BY <3>1, <3>2, <1>1
  <2>4. f <= n + 1
    <3> HIDE DEF f
    <3>1. k + (f - k) <= n + 1
      BY <2>2 DEF f
    <3> QED BY <2>3, <3>1
  <2>5. Find(s, b + k, <<"nl">>) = b + f
    BY <2>4, FindInside
  <2> HIDE DEF f
  <2>6. (b + f) - (b + k) = f - k
    BY <2>3
  <2> QED BY <2>1, <2>5, <2>6 DEF LineComment, f
<1>5. CASE At(t, k, <<"/", "*">>)
  <2> DEFINE e == NestedEnd(t, k)
  <2>1. p = Piece(e - k, "comment", "code") /\ q = Piece(NestedEnd(s, b + k) - (b + k), "comment", "code")
    BY <1>1, <1>2, <1>3, <1>5 DEF LiteralMask, LiteralPiece
  <2>2. e \in Nat
    <3>1. k \in 1 .. Len(t) /\ k < Len(t)
      BY <1>1, <1>3, <1>5
    <3>2. e \in k + 2 .. Len(t) + 1
      BY <1>1, <3>1, NestedEndType
    <3> QED BY <3>1, <3>2, <1>1
  <2>3. e <= n + 1
    <3> HIDE DEF e
    <3>1. k + (e - k) <= n + 1
      BY <2>1 DEF Piece
    <3> QED BY <2>2, <3>1
  <2>4. NestedEnd(s, b + k) = b + e
    BY <1>3, <1>5, <2>3, NestedInside
  <2> HIDE DEF e
  <2>5. (b + e) - (b + k) = e - k
    BY <2>2
  <2> QED BY <2>1, <2>4, <2>5
<1>6. CASE t[k] \in {"'", "dq"}
  <2>1. k \in 2 .. n
    BY <1>1, <1>6
  <2>2. IsEscapeString(t, k) <=> IsEscapeString(s, b + k)
    BY <2>1, EscapesInside
  <2> DEFINE escapes == t[k] = "'" /\ IsEscapeString(t, k)
             e == QuoteEnd(t, k, escapes)
  <2>3. (s[b + k] = "'" /\ IsEscapeString(s, b + k)) = escapes
    BY <1>1, <2>2
  <2> HIDE DEF escapes
  <2>4. p = Piece((IF e = 0 THEN Len(t) + 1 ELSE e) - k, "string", "code")
    BY <1>1, <1>3, <1>6 DEF LiteralMask, LiteralPiece, escapes
  <2>5. q = Piece((IF QuoteEnd(s, b + k, escapes) = 0 THEN Len(s) + 1 ELSE QuoteEnd(s, b + k, escapes))
                    - (b + k), "string", "code")
    BY <1>1, <1>2, <1>3, <1>6, <2>3 DEF LiteralMask, LiteralPiece
  <2>6. e # 0
    <3> SUFFICES ASSUME e = 0 PROVE FALSE
      OBVIOUS
    <3>1. p.take = Len(t) + 1 - k
      BY <2>4 DEF Piece
    <3> QED BY <1>1, <3>1
  <2>7. QuoteEnd(s, b + k, escapes) = b + e
    BY <1>6, <2>6, QuoteInside
  <2>8. e \in k + 2 .. Len(t) + 1
    <3>1. k \in 1 .. Len(t)
      BY <1>1
    <3> QED BY <1>1, <2>6, <3>1, QuoteEndType
  <2> HIDE DEF e
  <2>9. b + e # 0 /\ (b + e) - (b + k) = e - k
    BY <1>1, <2>8
  <2> QED BY <2>4, <2>5, <2>6, <2>7, <2>9
<1>7. CASE ~At(t, k, <<"-", "-">>) /\ ~At(t, k, <<"/", "*">>) /\ t[k] \notin {"'", "dq"}
  BY <1>1, <1>2, <1>7 DEF LiteralMask, LiteralPiece
<1> QED BY <1>4, <1>5, <1>6, <1>7

-----------------------------------------------------------------------------
(* The two walks over a generated file *)

\* p is what the fixes read s as, q what parse_script does.
MaskRead(s, p) ==
    /\ p \in [1 .. Len(s) -> PieceType]
    /\ Len(s) > 0 => p[1] = LiteralMask(s, 1, "code")
    /\ \A i \in 1 .. Len(s) - 1 :
            p[i + 1] = IF p[i].take > 1 THEN Remainder(p[i]) ELSE LiteralMask(s, i + 1, "code")

Begins(s, q, i) == q[i].take = ScriptPiece(s, i).take /\ q[i].kind = ScriptPiece(s, i).kind

ScriptRead(s, q) ==
    /\ q \in [1 .. Len(s) -> PieceType]
    /\ Len(s) > 0 => Begins(s, q, 1)
    /\ \A i \in 1 .. Len(s) - 1 :
            IF q[i].take > 1 THEN q[i + 1] = Remainder(q[i]) ELSE Begins(s, q, i + 1)

LEMMA MaskReads ==
    ASSUME NEW s \in Texts
    PROVE  \E p : MaskRead(s, p) /\ KindsOf(s, LiteralMask) = [i \in 1 .. Len(s) |-> p[i].kind]
<1> DEFINE n == Len(s)
           takes == Scanner(s, LiteralMask)
           p == Pieces(n, takes)
<1>1. n \in Nat
  BY DEF Texts
<1>2. \A i \in 1 .. n, m \in Modes : takes[<<i, m>>] = LiteralMask(s, i, "code")
  <2>1. \A i, m : LiteralMask(s, i, m) = LiteralMask(s, i, "code")
    BY DEF LiteralMask
  <2> QED BY <2>1 DEF Scanner
<1>3. takes \in Takes(n)
  <2>1. takes = [at \in (1 .. n) \X Modes |-> LiteralMask(s, at[1], at[2])]
    BY DEF Scanner
  <2>2. \A at \in (1 .. n) \X Modes : LiteralMask(s, at[1], at[2]) \in PieceType
    BY LiteralMaskType
  <2> QED BY <2>1, <2>2 DEF Takes
<1>4. Follows(p, n, takes)
  <2> HIDE DEF takes
  <2> QED BY <1>1, <1>3, PiecesFollow
<1>5. KindsOf(s, LiteralMask) = [i \in 1 .. n |-> p[i].kind]
  BY DEF KindsOf
<1> HIDE DEF p, takes
<1>6. MaskRead(s, p)
  <2>1. n > 0 => p[1] = LiteralMask(s, 1, "code")
    <3>1. n > 0 => 1 \in 1 .. n /\ "code" \in Modes
      BY <1>1 DEF Modes
    <3> QED BY <1>2, <1>4, <3>1 DEF Follows
  <2>2. ASSUME NEW i \in 1 .. n - 1
        PROVE  p[i + 1] = IF p[i].take > 1 THEN Remainder(p[i]) ELSE LiteralMask(s, i + 1, "code")
    <3>1. i \in 1 .. n /\ i + 1 \in 1 .. n
      BY <1>1
    <3>2. p[i].mode \in Modes
      BY <1>4, <3>1 DEF Follows, PieceType
    <3> QED BY <1>2, <1>4, <3>1, <3>2 DEF Follows
  <2> QED BY <1>4, <2>1, <2>2 DEF Follows, MaskRead
<1> QED BY <1>5, <1>6

LEMMA ScriptReads ==
    ASSUME NEW s \in Texts
    PROVE  \E q : ScriptRead(s, q) /\ KindsOf(s, ScriptSegments) = [i \in 1 .. Len(s) |-> q[i].kind]
<1> DEFINE n == Len(s)
           takes == Scanner(s, ScriptSegments)
           q == Pieces(n, takes)
<1>1. n \in Nat
  BY DEF Texts
<1>2. \A i \in 1 .. n, m \in Modes :
        takes[<<i, m>>].take = ScriptPiece(s, i).take /\ takes[<<i, m>>].kind = ScriptPiece(s, i).kind
  <2>1. \A i \in 1 .. n, m \in Modes : takes[<<i, m>>] = ScriptSegments(s, i, m)
    BY DEF Scanner
  <2>2. \A i, m : /\ ScriptSegments(s, i, m).take = ScriptPiece(s, i).take
                  /\ ScriptSegments(s, i, m).kind = ScriptPiece(s, i).kind
    BY DEF ScriptSegments, Piece
  <2> HIDE DEF takes
  <2> QED BY <2>1, <2>2
<1>3. takes \in Takes(n)
  <2>1. takes = [at \in (1 .. n) \X Modes |-> ScriptSegments(s, at[1], at[2])]
    BY DEF Scanner
  <2>2. \A at \in (1 .. n) \X Modes : ScriptSegments(s, at[1], at[2]) \in PieceType
    BY ScriptSegmentsType
  <2> QED BY <2>1, <2>2 DEF Takes
<1>4. Follows(q, n, takes)
  <2> HIDE DEF takes
  <2> QED BY <1>1, <1>3, PiecesFollow
<1>5. KindsOf(s, ScriptSegments) = [i \in 1 .. n |-> q[i].kind]
  BY DEF KindsOf
<1> HIDE DEF q, takes
<1>6. ScriptRead(s, q)
  <2>1. n > 0 => Begins(s, q, 1)
    <3>1. n > 0 => 1 \in 1 .. n /\ "code" \in Modes
      BY <1>1 DEF Modes
    <3> QED BY <1>2, <1>4, <3>1 DEF Follows, Begins
  <2>2. ASSUME NEW i \in 1 .. n - 1
        PROVE  IF q[i].take > 1 THEN q[i + 1] = Remainder(q[i]) ELSE Begins(s, q, i + 1)
    <3>1. i \in 1 .. n /\ i + 1 \in 1 .. n
      BY <1>1
    <3>2. q[i].mode \in Modes
      BY <1>4, <3>1 DEF Follows, PieceType
    <3> QED BY <1>2, <1>4, <3>1, <3>2 DEF Follows, Begins
  <2> QED BY <1>4, <2>1, <2>2 DEF Follows, ScriptRead
<1> QED BY <1>5, <1>6

\* To the fixes every symbol of code is a piece of its own.
LEMMA CodeIsOne ==
    ASSUME NEW s \in Texts, NEW p, MaskRead(s, p)
    PROVE  \A i \in 1 .. Len(s) : p[i].kind = "code" => p[i].take = 1
<1> DEFINE n == Len(s)
           S == {i \in 1 .. n : p[i].kind = "code" => p[i].take = 1}
<1>1. n \in Nat
  BY DEF Texts
<1>2. \A i \in 1 .. n :
        LiteralMask(s, i, "code").kind = "code" => LiteralMask(s, i, "code").take = 1
  <2>1. "code" \in Modes
    BY DEF Modes
  <2> QED BY <2>1, LiteralMaskType
<1>3. n > 0 => 1 \in S
  BY <1>1, <1>2 DEF MaskRead
<1>4. \A i \in 1 .. n - 1 : i \in S => i + 1 \in S
  <2> TAKE i \in 1 .. n - 1
  <2> HAVE i \in S
  <2>1. i \in 1 .. n /\ i + 1 \in 1 .. n /\ p[i].take \in Nat
    BY <1>1 DEF MaskRead, PieceType
  <2>2. Remainder(p[i]).kind = p[i].kind
    BY DEF Remainder, Piece
  <2>3. p[i + 1] = IF p[i].take > 1 THEN Remainder(p[i]) ELSE LiteralMask(s, i + 1, "code")
    BY DEF MaskRead
  <2> QED BY <1>2, <2>1, <2>2, <2>3
<1> QED
  <2> HIDE DEF S
  <2>1. \A i \in 1 .. n : i \in S
    BY <1>1, <1>3, <1>4, UpTheText
  <2> QED BY <2>1 DEF S

\* The fixes are done with what is inside a dollar quote when it ends.
LEMMA InsideEnds ==
    ASSUME NEW s \in Texts, NEW b \in Nat, NEW n \in Nat \ {0}, NEW t, IsInside(s, b, n, t),
           NEW p, MaskRead(s, p), NEW r, MaskRead(t, r), r[n + 1].kind = "code",
           p[b + 1] = LiteralMask(s, b + 1, "code")
    PROVE  p[b + n].take = 1
<1>1. t \in Texts /\ Len(t) = n + 1 /\ b + n <= Len(s) /\ Len(s) \in Nat
  BY DEF IsInside, Texts
<1>2. /\ r \in [1 .. n + 1 -> PieceType]
      /\ r[1] = LiteralMask(t, 1, "code")
      /\ \A k \in 1 .. n :
            r[k + 1] = IF r[k].take > 1 THEN Remainder(r[k]) ELSE LiteralMask(t, k + 1, "code")
  <2>1. (n + 1) - 1 = n
    OBVIOUS
  <2> QED BY <1>1, <2>1 DEF MaskRead
<1>3. \A k \in 1 .. n + 1 : r[k].take \in Nat \ {0} /\ (r[k].kind = "code" => r[k].take = 1)
  BY <1>1, <1>2, CodeIsOne DEF PieceType
<1>4. ASSUME NEW k \in 1 .. n PROVE k + r[k].take <= n + 1
  <2> SUFFICES ASSUME ~(k + r[k].take <= n + 1) PROVE FALSE
    OBVIOUS
  <2>1. k \in 1 .. n + 1 /\ n + 1 \in k .. n + 1 /\ n + 1 < k + r[k].take
    BY <1>3
  <2>2. \A j \in 1 .. (n + 1) - 1 : r[j].take > 1 => r[j + 1] = Remainder(r[j])
    BY <1>2
  <2>3. n + 1 \in Nat
    OBVIOUS
  <2>4. r[n + 1].kind = r[k].kind
    BY <1>2, <2>1, <2>2, <2>3, PieceLasts
  <2>5. r[k].take = 1
    BY <1>3, <2>1, <2>4
  <2> QED BY <2>1, <2>5
<1> DEFINE S == {k \in 1 .. n : p[b + k] = r[k]}
<1>5. n > 0 => 1 \in S
  <2>1. 1 \in 1 .. n
    OBVIOUS
  <2>2. 1 + LiteralMask(t, 1, "code").take <= n + 1
    BY <1>2, <1>4, <2>1
  <2> QED BY <1>2, <2>1, <2>2, MaskInside
<1>6. \A k \in 1 .. n - 1 : k \in S => k + 1 \in S
  <2> TAKE k \in 1 .. n - 1
  <2> HAVE k \in S
  <2>1. /\ k \in 1 .. n /\ k + 1 \in 1 .. n /\ b + k \in 1 .. Len(s) - 1
        /\ (b + k) + 1 = b + (k + 1)
    BY <1>1
  <2>2. p[b + (k + 1)] = IF r[k].take > 1 THEN Remainder(r[k]) ELSE LiteralMask(s, b + (k + 1), "code")
    <3>1. p[(b + k) + 1] = IF p[b + k].take > 1 THEN Remainder(p[b + k])
                           ELSE LiteralMask(s, (b + k) + 1, "code")
      BY <2>1 DEF MaskRead
    <3> QED BY <2>1, <3>1
  <2>3. r[k + 1] = IF r[k].take > 1 THEN Remainder(r[k]) ELSE LiteralMask(t, k + 1, "code")
    BY <1>2, <2>1
  <2>4. (k + 1) + r[k + 1].take <= n + 1
    BY <1>4, <2>1
  <2>5. CASE r[k].take > 1
    BY <2>1, <2>2, <2>3, <2>5
  <2>6. CASE ~(r[k].take > 1)
    <3>1. r[k + 1] = LiteralMask(t, k + 1, "code")
      BY <2>3, <2>6
    <3>2. LiteralMask(s, b + (k + 1), "code") = LiteralMask(t, k + 1, "code")
      BY <2>1, <2>4, <3>1, MaskInside
    <3> QED BY <2>1, <2>2, <2>6, <3>1, <3>2
  <2> QED BY <2>5, <2>6
<1>7. p[b + n] = r[n]
  <2> HIDE DEF S
  <2>1. \A k \in 1 .. n : k \in S
    BY <1>5, <1>6, UpTheText
  <2>2. n \in 1 .. n
    OBVIOUS
  <2> QED BY <2>1, <2>2 DEF S
<1>8. n \in 1 .. n /\ n \in 1 .. n + 1
  OBVIOUS
<1>9. r[n].take \in Nat \ {0} /\ n + r[n].take <= n + 1
  BY <1>3, <1>4, <1>8
<1> QED BY <1>7, <1>9

\* parse_script gets to every piece of a complete script without backslash commands and COPY.
LEMMA ScriptReached ==
    ASSUME NEW s \in Texts, NEW q, ScriptRead(s, q),
           parse_script(s).complete, parse_script(s).metas = {},
           \A st \in parse_script(s).statements : ~CopiesFromStdin(SpanText(s, st))
    PROVE  \A i \in 1 .. Len(s) : Begins(s, q, i) /\ (i = 1 \/ q[i - 1].take = 1) =>
                ScriptPiece(s, i).closed /\ ScriptPiece(s, i).kind # "meta"
<1> DEFINE n == Len(s)
           statements == parse_script(s).statements
<1>1. n \in Nat
  BY DEF Texts
<1>2. PICK from : IsScriptTable(s, from) /\ parse_script(s) = from[<<1, 0, 0>>]
  BY ScriptTable
<1>3. /\ Leads(from[<<1, 0, 0>>], statements)
      /\ \A st \in statements : ~CopiesFromStdin(SpanText(s, st))
  BY <1>2 DEF Leads
<1> HIDE DEF statements
<1> DEFINE Reached(i) == \E start, depth \in Nat : Leads(from[<<i, start, depth>>], statements)
           Good(i) == ScriptPiece(s, i).closed /\ ScriptPiece(s, i).kind # "meta"
           S == {i \in 1 .. n : /\ Reached(i + q[i].take)
                                /\ Begins(s, q, i) /\ (i = 1 \/ q[i - 1].take = 1) => Good(i)}
<1>4. ASSUME NEW i \in 1 .. n, Reached(i)
      PROVE  Good(i) /\ Reached(i + ScriptPiece(s, i).take)
  <2>1. PICK start \in Nat, depth \in Nat : Leads(from[<<i, start, depth>>], statements)
    BY <1>4
  <2> QED BY <1>2, <1>3, <2>1, LeadsOn
<1>5. Reached(1)
  BY <1>3
<1> HIDE DEF Reached, Good
<1>6. n > 0 => 1 \in S
  <2> SUFFICES ASSUME n > 0 PROVE 1 \in S
    OBVIOUS
  <2>1. 1 \in 1 .. n
    BY <1>1
  <2>2. Begins(s, q, 1)
    BY <1>1 DEF ScriptRead
  <2>3. q[1].take = ScriptPiece(s, 1).take
    BY <2>2 DEF Begins
  <2> QED BY <1>4, <1>5, <2>1, <2>3
<1>7. \A i \in 1 .. n - 1 : i \in S => i + 1 \in S
  <2> TAKE i \in 1 .. n - 1
  <2> HAVE i \in S
  <2>1. /\ i \in 1 .. n /\ i + 1 \in 1 .. n /\ i + 1 # 1 /\ (i + 1) - 1 = i
        /\ q[i].take \in Nat \ {0}
    BY <1>1 DEF ScriptRead, PieceType
  <2>2. Reached(i + q[i].take)
    OBVIOUS
  <2>3. CASE q[i].take > 1
    <3>1. q[i + 1] = Remainder(q[i])
      BY <2>3 DEF ScriptRead
    <3>2. q[i + 1].take = q[i].take - 1
      BY <3>1 DEF Remainder, Piece
    <3>3. (i + 1) + q[i + 1].take = i + q[i].take
      BY <2>1, <3>2
    <3> QED BY <2>1, <2>2, <2>3, <3>3
  <2>4. CASE q[i].take = 1
    <3>1. Begins(s, q, i + 1)
      BY <2>1, <2>4 DEF ScriptRead
    <3>2. q[i + 1].take = ScriptPiece(s, i + 1).take
      BY <3>1 DEF Begins
    <3>3. Reached(i + 1)
      BY <2>2, <2>4
    <3> QED BY <1>4, <2>1, <3>2, <3>3
  <2> QED BY <2>1, <2>3, <2>4
<1>8. \A i \in 1 .. n : i \in S
  <2> HIDE DEF S
  <2> QED BY <1>1, <1>6, <1>7, UpTheText
<1> QED BY <1>8 DEF Good

LEMMA NoBody ==
    ASSUME NEW s \in Texts, NEW i \in 1 .. Len(s), DollarTag(s, i) = <<>>
    PROVE  ScriptPiece(s, i).kind # "body"
<1>1. CASE At(s, i, <<"-", "-">>)
  <2>1. ScriptPiece(s, i) = Whole("comment", Find(s, i, <<"nl">>) - i)
    BY <1>1, ScriptPieceCases, Zenon
  <2> QED BY <2>1 DEF Whole
<1>2. CASE At(s, i, <<"/", "*">>)
  <2>1. ScriptPiece(s, i) = [take |-> NestedEnd(s, i) - i, kind |-> "comment",
                             closed |-> NestedClosed(s, i)]
    BY <1>2, ScriptPieceCases, Zenon
  <2> QED BY <2>1
<1>3. CASE s[i] = "\\"
  <2>1. ScriptPiece(s, i) = Whole("meta", Find(s, i, <<"nl">>) - i)
    BY <1>3, ScriptPieceCases, Zenon
  <2> QED BY <2>1 DEF Whole
<1>4. CASE s[i] = "'"
  <2>1. ScriptPiece(s, i) = Quoted("string", i, QuoteEnd(s, i, IsEscapeString(s, i)), s)
    BY <1>4, ScriptPieceCases, Zenon
  <2> QED BY <2>1 DEF Quoted
<1>5. CASE s[i] = "dq"
  <2>1. ScriptPiece(s, i) = Quoted("name", i, QuoteEnd(s, i, FALSE), s)
    BY <1>5, ScriptPieceCases, Zenon
  <2> QED BY <2>1 DEF Quoted
<1>6. CASE /\ ~At(s, i, <<"-", "-">>) /\ ~At(s, i, <<"/", "*">>)
           /\ s[i] \notin {"\\", "'", "dq"}
  <2>1. ScriptPiece(s, i) = Whole("code", 1)
    BY <1>6, ScriptPieceCases, Zenon
  <2> QED BY <2>1 DEF Whole
<1> QED BY <1>1, <1>2, <1>3, <1>4, <1>5, <1>6

\* Outside dollar quotes and backslash commands both take the same piece at a place.
LEMMA FreshStep ==
    ASSUME NEW s \in Texts, NEW i \in 1 .. Len(s), DollarTag(s, i) = <<>>,
           ScriptPiece(s, i).closed, ScriptPiece(s, i).kind # "meta"
    PROVE  /\ ScriptPiece(s, i).kind # "body"
           /\ LiteralMask(s, i, "code").take = ScriptPiece(s, i).take
           /\ LiteralMask(s, i, "code").kind = "code" <=> ScriptPiece(s, i).kind = "code"
<1> DEFINE p == LiteralMask(s, i, "code")
           q == ScriptPiece(s, i)
           Alike == q.kind # "body" /\ p.take = q.take /\ (p.kind = "code" <=> q.kind = "code")
<1>1. /\ At(s, i, <<"-", "-">>) => s[i] = "-"
      /\ At(s, i, <<"/", "*">>) => s[i] = "/"
  BY AtTwo
<1>2. CASE At(s, i, <<"-", "-">>)
  <2>1. q = Whole("comment", Find(s, i, <<"nl">>) - i)
    BY <1>2, ScriptPieceCases, Zenon
  <2>2. p = LineComment(s, i)
    BY <1>1, <1>2 DEF LiteralMask, LiteralPiece
  <2>3. Alike
    BY <2>1, <2>2 DEF Whole, LineComment, Piece
  <2> QED BY <2>3
<1>3. CASE At(s, i, <<"/", "*">>)
  <2>1. q = [take |-> NestedEnd(s, i) - i, kind |-> "comment", closed |-> NestedClosed(s, i)]
    BY <1>3, ScriptPieceCases, Zenon
  <2>2. p = Piece(NestedEnd(s, i) - i, "comment", "code")
    BY <1>1, <1>3 DEF LiteralMask, LiteralPiece
  <2>3. Alike
    BY <2>1, <2>2 DEF Piece
  <2> QED BY <2>3
<1>4. CASE s[i] = "\\"
  <2>1. q = Whole("meta", Find(s, i, <<"nl">>) - i)
    BY <1>4, ScriptPieceCases, Zenon
  <2> QED BY <2>1 DEF Whole
<1>5. CASE s[i] \in {"'", "dq"}
  <2> DEFINE escapes == s[i] = "'" /\ IsEscapeString(s, i)
             end == QuoteEnd(s, i, escapes)
  <2>1. PICK kind \in {"string", "name"} : q = Quoted(kind, i, end, s)
    <3>1. CASE s[i] = "'"
      <4>1. escapes = IsEscapeString(s, i)
        BY <3>1 DEF IsEscapeString
      <4>2. q = Quoted("string", i, QuoteEnd(s, i, IsEscapeString(s, i)), s)
        BY <3>1, ScriptPieceCases, Zenon
      <4> QED BY <4>1, <4>2
    <3>2. CASE s[i] = "dq"
      <4>1. escapes = FALSE
        BY <3>2
      <4>2. q = Quoted("name", i, QuoteEnd(s, i, FALSE), s)
        BY <3>2, ScriptPieceCases, Zenon
      <4> QED BY <4>1, <4>2
    <3> QED BY <1>5, <3>1, <3>2
  <2>2. p = Piece((IF end = 0 THEN Len(s) + 1 ELSE end) - i, "string", "code")
    BY <1>1, <1>5 DEF LiteralMask, LiteralPiece
  <2> HIDE DEF end
  <2>3. Alike
    BY <2>1, <2>2 DEF Quoted, Piece
  <2> QED BY <2>3
<1>6. CASE /\ ~At(s, i, <<"-", "-">>) /\ ~At(s, i, <<"/", "*">>)
           /\ s[i] \notin {"\\", "'", "dq"}
  <2>1. q = Whole("code", 1)
    BY <1>6, ScriptPieceCases, Zenon
  <2>2. p = Piece(1, "code", "code")
    BY <1>6 DEF LiteralMask, LiteralPiece
  <2>3. Alike
    BY <2>1, <2>2 DEF Whole, Piece
  <2> QED BY <2>3
<1> QED BY <1>2, <1>3, <1>4, <1>5, <1>6

\* The symbols from i on and before past are the whole of a dollar quote.
IsBody(s, q, i, past) ==
    /\ i \in 1 .. Len(s) /\ past \in i + 1 .. Len(s) + 1
    /\ \A k \in i .. past - 1 : q[k].kind = "body"
    /\ i = 1 \/ q[i - 1].kind # "body"
    /\ past = Len(s) + 1 \/ q[past].kind # "body"

Inside(s, i, past) == Append(SubSeq(s, i, past - 1), "a")

\* What the fixes see ends inside every dollar quote.
BodiesClose(s, q) ==
    \A i, past \in Nat : IsBody(s, q, i, past) =>
        LET inside == Inside(s, i, past) IN KindsOf(inside, LiteralMask)[Len(inside)] = "code"

\* parse_script reads i in the dollar quote that begins at j; the fixes began a piece there.
InBody(s, p, q, i, j) ==
    /\ j \in 1 .. i /\ DollarTag(s, j) # <<>> /\ DollarEnd(s, j) # 0
    /\ p[j] = LiteralMask(s, j, "code")
    /\ q[j].kind = "body" /\ q[j].take = DollarEnd(s, j) - j /\ i < DollarEnd(s, j)
    /\ j = 1 \/ q[j - 1].kind # "body"

\* Both read i as the same.
Together(p, q, i) ==
    q[i].kind # "body" /\ p[i].take = q[i].take /\ (p[i].kind = "code" <=> q[i].kind = "code")

LEMMA BodyIsDone ==
    ASSUME NEW s \in Texts, NEW p, MaskRead(s, p), NEW q, ScriptRead(s, q), BodiesClose(s, q),
           NEW i \in 1 .. Len(s), NEW j, InBody(s, p, q, i, j)
    PROVE  /\ q[i].kind = "body" /\ q[i].take = DollarEnd(s, j) - i
           /\ q[i].take = 1 => p[i].take = 1 /\ s[i] = "$"
<1> DEFINE end == DollarEnd(s, j)
           n == end - j
<1>1. /\ Len(s) \in Nat /\ j \in 1 .. Len(s) /\ j \in 1 .. i
      /\ q \in [1 .. Len(s) -> PieceType]
  BY DEF InBody, Texts, ScriptRead
<1>2. /\ DollarTag(s, j) # <<>> /\ end # 0 /\ i < end /\ q[j].kind = "body" /\ q[j].take = end - j
      /\ p[j] = LiteralMask(s, j, "code") /\ (j = 1 \/ q[j - 1].kind # "body")
  BY DEF InBody
<1>3. end \in j + 4 .. Len(s) + 1 /\ s[end - 1] = "$" /\ s[j] = "$"
  BY <1>1, <1>2, DollarEndIs, DollarTagIs
<1> HIDE DEF end
<1>4. ASSUME NEW k \in j .. end - 1 PROVE q[k].kind = "body" /\ q[k].take = end - k
  <2>1. k \in j .. Len(s) /\ k < j + q[j].take /\ q[j].take - (k - j) = end - k
    BY <1>1, <1>2, <1>3
  <2>2. \A m \in 1 .. Len(s) - 1 : q[m].take > 1 => q[m + 1] = Remainder(q[m])
    BY DEF ScriptRead
  <2> QED BY <1>1, <1>2, <2>1, <2>2, PieceLasts
<1>5. i \in j .. end - 1
  BY <1>1, <1>2, <1>3
<1>6. q[i].kind = "body" /\ q[i].take = end - i
  BY <1>4, <1>5
<1>7. ASSUME end - i = 1 PROVE p[i].take = 1 /\ s[i] = "$"
  <2>1. i = end - 1
    BY <1>3, <1>5, <1>7
  <2>2. end = Len(s) + 1 \/ q[end].kind # "body"
    <3> SUFFICES ASSUME end <= Len(s) PROVE q[end].kind # "body"
      BY <1>1, <1>3
    <3>1. end - 1 \in 1 .. Len(s) - 1 /\ (end - 1) + 1 = end /\ end \in 2 .. Len(s) /\ end \in 1 .. Len(s)
      BY <1>1, <1>3
    <3>2. q[end - 1].take = 1
      BY <1>6, <1>7, <2>1
    <3>3. Begins(s, q, end)
      BY <3>1, <3>2 DEF ScriptRead
    <3>4. DollarTag(s, end) = <<>>
      BY <1>3, <3>1, NoTagBehind
    <3>5. ScriptPiece(s, end).kind # "body"
      BY <3>1, <3>4, NoBody
    <3> QED BY <3>3, <3>5 DEF Begins
  <2>3. IsBody(s, q, j, end)
    BY <1>1, <1>2, <1>3, <1>4, <2>2 DEF IsBody
  <2> DEFINE t == Inside(s, j, end)
  <2>4. KindsOf(t, LiteralMask)[Len(t)] = "code"
    <3>1. j \in Nat /\ end \in Nat
      BY <1>1, <1>3
    <3> QED BY <2>3, <3>1 DEF BodiesClose
  <2>5. /\ t \in Texts /\ Len(t) = n + 1 /\ t[n + 1] = "a"
        /\ \A k \in 1 .. n : t[k] = s[(j - 1) + k]
    <3> DEFINE u == SubSeq(s, j, end - 1)
    <3>1. u \in Seq(Symbols) /\ Len(u) = n /\ \A k \in 1 .. n : u[k] = s[(j - 1) + k]
      BY <1>1, <1>3 DEF Texts
    <3> HIDE DEF u
    <3>2. n \in Nat
      BY <1>1, <1>3
    <3> HIDE DEF n
    <3>3. Append(u, "a") \in Seq(Symbols) /\ Len(Append(u, "a")) = n + 1
      <4>1. "a" \in Symbols
        BY DEF Symbols
      <4> QED BY <3>1, <3>2, <4>1
    <3>4. Append(u, "a")[n + 1] = "a" /\ \A k \in 1 .. n : Append(u, "a")[k] = u[k]
      BY <3>1, <3>2
    <3> QED BY <3>1, <3>3, <3>4 DEF Inside, Texts, u
  <2> HIDE DEF t
  <2>6. /\ n \in Nat \ {0} /\ j - 1 \in Nat /\ (j - 1) + n = end - 1 /\ (j - 1) + 1 = j
        /\ 1 \in 1 .. n /\ n \in 1 .. n
    BY <1>1, <1>3
  <2>7. IsInside(s, j - 1, n, t)
    <3>1. t[1] = s[(j - 1) + 1] /\ t[n] = s[(j - 1) + n] /\ (j - 1) + n <= Len(s)
      BY <1>1, <1>3, <2>5, <2>6
    <3>2. t[1] = "$" /\ t[n] = "$"
      BY <1>3, <2>6, <3>1
    <3> QED BY <2>5, <3>1, <3>2 DEF IsInside
  <2>8. PICK r : MaskRead(t, r) /\ KindsOf(t, LiteralMask) = [k \in 1 .. Len(t) |-> r[k].kind]
    BY <2>5, MaskReads
  <2>9. r[n + 1].kind = "code"
    <3>1. n + 1 \in 1 .. Len(t)
      BY <2>5, <2>6
    <3> QED BY <2>4, <2>5, <2>8, <3>1
  <2>10. p[(j - 1) + 1] = LiteralMask(s, (j - 1) + 1, "code")
    BY <1>2, <2>6
  <2> HIDE DEF n
  <2>11. p[(j - 1) + n].take = 1
    BY <2>6, <2>7, <2>8, <2>9, <2>10, InsideEnds
  <2> QED BY <1>3, <2>1, <2>6, <2>11
<1> QED BY <1>6, <1>7 DEF end

\* Outside dollar quotes the fixes and parse_script agree on what is code, in a complete
\* script without backslash commands and COPY, whose dollar quotes hold nothing open.
LEMMA CodeAlike ==
    ASSUME NEW s \in Texts, NEW p, MaskRead(s, p), NEW q, ScriptRead(s, q), BodiesClose(s, q),
           parse_script(s).complete, parse_script(s).metas = {},
           \A st \in parse_script(s).statements : ~CopiesFromStdin(SpanText(s, st))
    PROVE  \A i \in 1 .. Len(s) :
                q[i].kind # "body" => (p[i].kind = "code" <=> q[i].kind = "code")
<1> DEFINE n == Len(s)
           Good(i) == Together(p, q, i) \/ \E j : InBody(s, p, q, i, j)
           S == {i \in 1 .. n : Good(i)}
<1>1. n \in Nat
  BY DEF Texts
<1>2. \A i \in 1 .. n : Begins(s, q, i) /\ (i = 1 \/ q[i - 1].take = 1) =>
            ScriptPiece(s, i).closed /\ ScriptPiece(s, i).kind # "meta"
  BY ScriptReached
<1>3. ASSUME NEW i \in 1 .. n, Begins(s, q, i), p[i] = LiteralMask(s, i, "code"),
             i = 1 \/ (q[i - 1].take = 1 /\ (q[i - 1].kind # "body" \/ DollarTag(s, i) = <<>>))
      PROVE  Good(i)
  <2>1. ScriptPiece(s, i).closed /\ ScriptPiece(s, i).kind # "meta"
    BY <1>2, <1>3
  <2>2. q[i].take = ScriptPiece(s, i).take /\ q[i].kind = ScriptPiece(s, i).kind
    BY <1>3 DEF Begins
  <2>3. CASE DollarTag(s, i) = <<>>
    <3>1. Together(p, q, i)
      BY <1>3, <2>1, <2>2, <2>3, FreshStep DEF Together
    <3> QED BY <3>1
  <2>4. CASE DollarTag(s, i) # <<>>
    <3>1. ScriptPiece(s, i) = Quoted("body", i, DollarEnd(s, i), s)
      BY <2>4, ScriptPieceCases, Zenon
    <3> DEFINE end == DollarEnd(s, i)
    <3>2. end \in {0} \cup (i + 4 .. n + 1)
      BY <2>4, DollarEndIs
    <3> HIDE DEF end
    <3>3. ScriptPiece(s, i) = Quoted("body", i, end, s)
      BY <3>1 DEF end
    <3>4. end # 0
      <4>1. Quoted("body", i, end, s).closed = (end # 0)
        BY DEF Quoted
      <4> QED BY <2>1, <3>3, <4>1
    <3>5. q[i].kind = "body" /\ q[i].take = end - i
      BY <2>2, <3>3, <3>4 DEF Quoted
    <3>6. i < end /\ i \in 1 .. i
      BY <1>1, <3>2, <3>4
    <3>7. InBody(s, p, q, i, i)
      BY <1>3, <2>4, <3>4, <3>5, <3>6 DEF InBody, end
    <3> QED BY <3>7
  <2> QED BY <2>3, <2>4
<1>4. n > 0 => 1 \in S
  <2> SUFFICES ASSUME n > 0 PROVE 1 \in S
    OBVIOUS
  <2>1. 1 \in 1 .. n /\ Begins(s, q, 1) /\ p[1] = LiteralMask(s, 1, "code")
    BY <1>1 DEF ScriptRead, MaskRead
  <2> HIDE DEF Good
  <2> QED BY <1>3, <2>1
<1>5. \A i \in 1 .. n - 1 : i \in S => i + 1 \in S
  <2> TAKE i \in 1 .. n - 1
  <2> HAVE i \in S
  <2>1. /\ i \in 1 .. n /\ i + 1 \in 1 .. n /\ i + 1 \in 2 .. n /\ (i + 1) - 1 = i
        /\ p[i].take \in Nat \ {0} /\ q[i].take \in Nat \ {0}
    BY <1>1 DEF ScriptRead, MaskRead, PieceType
  <2>2. /\ p[i + 1] = IF p[i].take > 1 THEN Remainder(p[i]) ELSE LiteralMask(s, i + 1, "code")
        /\ IF q[i].take > 1 THEN q[i + 1] = Remainder(q[i]) ELSE Begins(s, q, i + 1)
    BY DEF ScriptRead, MaskRead
  <2>3. Good(i)
    OBVIOUS
  <2>4. CASE Together(p, q, i)
    <3>1. q[i].kind # "body" /\ p[i].take = q[i].take /\ (p[i].kind = "code" <=> q[i].kind = "code")
      BY <2>4 DEF Together
    <3>2. CASE q[i].take > 1
      <4>1. p[i + 1] = Remainder(p[i]) /\ q[i + 1] = Remainder(q[i])
        BY <2>2, <3>1, <3>2
      <4>2. Together(p, q, i + 1)
        BY <3>1, <4>1 DEF Together, Remainder, Piece
      <4> QED BY <2>1, <4>2
    <3>3. CASE q[i].take = 1
      <4>1. p[i + 1] = LiteralMask(s, i + 1, "code") /\ Begins(s, q, i + 1)
        BY <2>2, <3>1, <3>3
      <4> HIDE DEF Good
      <4> QED BY <1>3, <2>1, <3>1, <3>3, <4>1
    <3> QED BY <2>1, <3>2, <3>3
  <2>5. ASSUME NEW j, InBody(s, p, q, i, j) PROVE Good(i + 1)
    <3>1. /\ q[i].kind = "body" /\ q[i].take = DollarEnd(s, j) - i
          /\ q[i].take = 1 => p[i].take = 1 /\ s[i] = "$"
      BY <2>1, <2>5, BodyIsDone
    <3>2. CASE q[i].take > 1
      <4>1. i + 1 < DollarEnd(s, j) /\ j \in 1 .. i + 1
        <5>1. j \in 1 .. i /\ DollarTag(s, j) # <<>> /\ DollarEnd(s, j) # 0
          BY <2>5 DEF InBody
        <5>2. DollarEnd(s, j) \in {0} \cup (j + 4 .. n + 1)
          BY <2>1, <5>1, DollarEndIs
        <5> QED BY <1>1, <2>1, <3>1, <3>2, <5>1, <5>2
      <4>2. InBody(s, p, q, i + 1, j)
        BY <2>5, <4>1 DEF InBody
      <4> QED BY <4>2
    <3>3. CASE q[i].take = 1
      <4>1. p[i + 1] = LiteralMask(s, i + 1, "code") /\ Begins(s, q, i + 1)
        BY <2>2, <3>1, <3>3
      <4>2. DollarTag(s, i + 1) = <<>>
        BY <2>1, <3>1, <3>3, NoTagBehind
      <4> HIDE DEF Good
      <4> QED BY <1>3, <2>1, <3>3, <4>1, <4>2
    <3> QED BY <2>1, <3>2, <3>3
  <2>6. Good(i + 1)
    BY <2>3, <2>4, <2>5
  <2> HIDE DEF Good
  <2> QED BY <2>1, <2>6
<1>6. \A i \in 1 .. n : i \in S
  <2> HIDE DEF S
  <2> QED BY <1>1, <1>4, <1>5, UpTheText
<1>7. ASSUME NEW i \in 1 .. n, q[i].kind # "body" PROVE p[i].kind = "code" <=> q[i].kind = "code"
  <2>1. Good(i)
    BY <1>6
  <2>2. ~\E j : InBody(s, p, q, i, j)
    BY <1>7, BodyIsDone
  <2> QED BY <2>1, <2>2 DEF Together
<1> QED BY <1>7

-----------------------------------------------------------------------------
(* A text with parts of it blanked *)

\* t is s with some symbols that are no line break made blanks.
Dimmed(s, t) ==
    /\ t \in Texts /\ Len(t) = Len(s)
    /\ \A j \in 1 .. Len(s) : (t[j] = s[j] \/ t[j] = "sp") /\ (s[j] = "nl" => t[j] = "nl")

\* They are the same from i to before j.
Same(s, t, i, j) == \A k \in i .. j - 1 : t[k] = s[k]

\* Lines end where they did.
LEMMA LinesKept ==
    ASSUME NEW s \in Texts, NEW t, Dimmed(s, t), NEW i \in Nat \ {0}
    PROVE  Find(t, i, <<"nl">>) = Find(s, i, <<"nl">>)
<1>1. \A j \in i .. Len(s) : At(t, j, <<"nl">>) <=> At(s, j, <<"nl">>)
  <2> TAKE j \in i .. Len(s)
  <2>1. j \in Nat \ {0} /\ j \in 1 .. Len(s)
    BY DEF Texts
  <2>2. At(t, j, <<"nl">>) <=> t[j] = "nl"
    BY <2>1, AtOne DEF Dimmed
  <2>3. At(s, j, <<"nl">>) <=> s[j] = "nl"
    BY <2>1, AtOne
  <2> QED BY <2>1, <2>2, <2>3 DEF Dimmed
<1> DEFINE S == {j \in i .. Len(s) : At(s, j, <<"nl">>)} \cup {Len(s) + 1}
           T == {j \in i .. Len(t) : At(t, j, <<"nl">>)} \cup {Len(t) + 1}
<1>2. S = T
  BY <1>1 DEF Dimmed
<1>3. Find(s, i, <<"nl">>) = Min(S) /\ Find(t, i, <<"nl">>) = Min(T)
  BY DEF Find
<1> QED BY <1>2, <1>3

\* A quote that ends before anything is blanked ends there still.
LEMMA QuoteKept ==
    ASSUME NEW s \in Texts, NEW t, Dimmed(s, t), NEW i \in 1 .. Len(s), s[i] # "sp",
           NEW escapes, QuoteEnd(s, i, escapes) # 0, Same(s, t, i, QuoteEnd(s, i, escapes))
    PROVE  QuoteEnd(t, i, escapes) = QuoteEnd(s, i, escapes)
<1> DEFINE end == QuoteEnd(s, i, escapes)
           n == Len(s)
<1>1. n \in Nat /\ t \in Texts /\ Len(t) = n
  BY DEF Dimmed, Texts
<1>2. end \in i + 2 .. n + 1
  BY QuoteEndType
<1>3. t[i] = s[i]
  BY <1>1, <1>2 DEF Same
<1>4. PICK f : IsQuoteTable(s, s[i], escapes, f) /\ QuoteEnd(s, i, escapes) = f[i + 1]
  BY QuoteTable
<1>5. PICK g : IsQuoteTable(t, s[i], escapes, g) /\ QuoteEnd(t, i, escapes) = g[i + 1]
  BY <1>1, <1>3, QuoteTable
<1>6. Same(s, t, i, end)
  OBVIOUS
<1> HIDE DEF end
<1> DEFINE S == {j \in 1 .. n + 2 : i < j /\ f[j] = end => g[j] = end}
<1>7. n + 2 \in S
  <2>1. f[n + 2] = 0
    BY <1>1, <1>4 DEF IsQuoteTable
  <2> QED BY <1>1, <1>2, <2>1
<1>8. \A j \in 1 .. (n + 2) - 1 : (\A m \in j + 1 .. n + 2 : m \in S) => j \in S
  <2> TAKE j \in 1 .. (n + 2) - 1
  <2> HAVE \A m \in j + 1 .. n + 2 : m \in S
  <2> SUFFICES ASSUME i < j, f[j] = end PROVE g[j] = end
    BY <1>1
  <2>1. /\ j \in 1 .. n + 2 /\ f[j] = QuoteBody(s, s[i], escapes, f, j)
        /\ f[j] \in {0} \cup (j + 1 .. n + 1)
        /\ g[j] = QuoteBody(t, s[i], escapes, g, j)
    BY <1>1, <1>4, <1>5 DEF IsQuoteTable
  <2>2. j <= n /\ j < end /\ j \in 1 .. n
    BY <1>1, <1>2, <2>1
  <2>3. t[j] = s[j] /\ (j + 1 < end => t[j + 1] = s[j + 1])
    BY <1>1, <1>2, <1>6, <2>2 DEF Same
  <2>4. /\ At(s, j, <<s[i], s[i]>>) <=> j < n /\ s[j] = s[i] /\ s[j + 1] = s[i]
        /\ At(t, j, <<s[i], s[i]>>) <=> j < n /\ t[j] = s[i] /\ t[j + 1] = s[i]
    BY <1>1, <2>2, AtTwo
  <2>5. /\ j + 1 \in S
        /\ j + 2 \in S
    BY <1>1, <2>2
  <2>6. f[j + 2] = end => j + 2 < end
    <3>1. j + 2 \in 1 .. n + 2
      BY <1>1, <2>2
    <3>2. f[j + 2] \in {0} \cup ((j + 2) + 1 .. n + 1)
      BY <1>4, <3>1 DEF IsQuoteTable
    <3> QED BY <1>1, <1>2, <2>2, <3>2
  <2>7. CASE escapes /\ s[j] = "\\"
    <3>1. f[j] = f[j + 2] /\ g[j] = g[j + 2]
      BY <1>1, <2>1, <2>2, <2>3, <2>7 DEF QuoteBody
    <3> QED BY <2>2, <2>5, <3>1
  <2>8. CASE ~(escapes /\ s[j] = "\\") /\ At(s, j, <<s[i], s[i]>>)
    <3>1. f[j] = f[j + 2]
      BY <1>1, <2>1, <2>2, <2>8 DEF QuoteBody
    <3>2. At(t, j, <<s[i], s[i]>>)
      <4>1. j < n /\ s[j] = s[i] /\ s[j + 1] = s[i]
        BY <2>4, <2>8
      <4>2. f[j + 2] = end
        BY <3>1
      <4>3. j + 1 < end
        BY <1>1, <1>2, <2>2, <2>6, <4>2
      <4>4. t[j] = s[i] /\ t[j + 1] = s[i]
        BY <2>3, <4>1, <4>3
      <4> QED BY <2>4, <4>1, <4>4
    <3>3. g[j] = g[j + 2]
      BY <1>1, <2>1, <2>2, <2>3, <2>8, <3>2 DEF QuoteBody
    <3> QED BY <2>2, <2>5, <3>1, <3>3
  <2>9. CASE ~(escapes /\ s[j] = "\\") /\ ~At(s, j, <<s[i], s[i]>>)
    <3>1. ~At(t, j, <<s[i], s[i]>>)
      <4>1. j < n => t[j + 1] = s[j + 1] \/ t[j + 1] = "sp"
        BY <1>1, <2>2 DEF Dimmed
      <4> QED BY <2>3, <2>4, <2>9, <4>1
    <3>2. CASE s[j] = s[i]
      BY <1>1, <2>1, <2>2, <2>3, <2>9, <3>1, <3>2 DEF QuoteBody
    <3>3. CASE s[j] # s[i]
      <4>1. f[j] = f[j + 1] /\ g[j] = g[j + 1]
        BY <1>1, <2>1, <2>2, <2>3, <2>9, <3>1, <3>3 DEF QuoteBody
      <4> QED BY <2>2, <2>5, <4>1
    <3> QED BY <3>2, <3>3
  <2> QED BY <2>7, <2>8, <2>9
<1>9. \A j \in 1 .. n + 2 : j \in S
  <2> HIDE DEF S, n
  <2>1. n + 2 \in Nat
    BY <1>1
  <2> QED BY <1>7, <1>8, <2>1, DownTheText
<1>10. g[i + 1] = end
  <2>1. i + 1 \in 1 .. n + 2 /\ i < i + 1
    BY <1>1
  <2>2. f[i + 1] = end
    BY <1>4 DEF end
  <2> QED BY <1>9, <2>1, <2>2
<1> QED BY <1>5, <1>10 DEF end

\* A comment that ends in u before they differ ends in v where it does in u.
LEMMA NestedSame ==
    ASSUME NEW u \in Texts, NEW v \in Texts, NEW i \in 1 .. Len(u), i < Len(u),
           NestedEnd(u, i) <= Len(u), NestedEnd(u, i) <= Len(v) + 1,
           \A k \in i .. NestedEnd(u, i) - 1 : v[k] = u[k]
    PROVE  NestedEnd(v, i) = NestedEnd(u, i)
<1> DEFINE end == NestedEnd(u, i)
           n == Len(u)
<1>1. n \in Nat /\ Len(v) \in Nat
  BY DEF Texts
<1>2. end \in i + 2 .. n /\ end <= Len(v) + 1
  BY <1>1, NestedEndType
<1>3. PICK p : /\ \A j \in 1 .. n + 1 : p[j] = NestedBody(u, p, j)
               /\ \A j \in 1 .. n + 1 : p[j] \in j .. n + 1
               /\ \A k : NestedEnd(u, k) = p[k + 2]
  BY NestedTable
<1>4. PICK q : /\ \A j \in 1 .. Len(v) + 1 : q[j] = NestedBody(v, q, j)
               /\ \A k : NestedEnd(v, k) = q[k + 2]
  BY NestedTable
<1>5. \A k \in i .. end - 1 : v[k] = u[k]
  OBVIOUS
<1>6. p[i + 2] = end
  BY <1>3
<1> HIDE DEF end
<1> DEFINE S == {j \in 1 .. n + 1 : i < j /\ p[j] <= end => j < p[j] /\ q[j] = p[j]}
<1>7. n + 1 \in S
  BY <1>1, <1>2, <1>3
<1>8. \A j \in 1 .. (n + 1) - 1 : (\A m \in j + 1 .. n + 1 : m \in S) => j \in S
  <2> TAKE j \in 1 .. (n + 1) - 1
  <2> HAVE \A m \in j + 1 .. n + 1 : m \in S
  <2> SUFFICES ASSUME i < j, p[j] <= end PROVE j < p[j] /\ q[j] = p[j]
    BY <1>1
  <2>1. j \in 1 .. n /\ j \in 1 .. n + 1 /\ p[j] = NestedBody(u, p, j) /\ p[j] \in j .. n + 1
    BY <1>1, <1>3
  <2>2. j + 1 \in S /\ (j < n => j + 2 \in S)
    BY <1>1, <2>1
  <2>3. /\ At(u, j, <<"/", "*">>) <=> j < n /\ u[j] = "/" /\ u[j + 1] = "*"
        /\ At(u, j, <<"*", "/">>) <=> j < n /\ u[j] = "*" /\ u[j + 1] = "/"
    BY <2>1, AtTwo
  <2>4. CASE At(u, j, <<"/", "*">>)
    <3>1. p[j] = p[p[j + 2]]
      BY <1>1, <2>1, <2>4 DEF NestedBody
    <3>2. j + 2 \in 1 .. n + 1 /\ p[j + 2] \in j + 2 .. n + 1
      BY <1>1, <1>3, <2>1, <2>3, <2>4
    <3>3. p[j + 2] \in 1 .. n + 1 /\ p[p[j + 2]] \in p[j + 2] .. n + 1 /\ p[j + 2] \in j + 1 .. n + 1
      BY <1>1, <1>3, <2>1, <3>2
    <3>4. p[j + 2] <= end
      BY <1>1, <1>2, <3>1, <3>2, <3>3
    <3>5. q[j + 2] = p[j + 2] /\ j + 2 < p[j + 2]
      BY <2>1, <2>2, <2>3, <2>4, <3>2, <3>4
    <3>6. p[j + 2] \in S
      BY <3>3
    <3>7. q[p[j + 2]] = p[j] /\ p[j + 2] < p[j]
      BY <2>1, <3>1, <3>3, <3>6
    <3>8. j + 1 < end /\ j <= Len(v) /\ j < Len(v) /\ j \in 1 .. Len(v) + 1
      BY <1>1, <1>2, <2>1, <3>2, <3>4, <3>5
    <3>9. v[j] = u[j] /\ v[j + 1] = u[j + 1]
      BY <1>2, <1>5, <2>1, <3>8
    <3>10. At(v, j, <<"/", "*">>)
      BY <2>1, <2>3, <2>4, <3>8, <3>9, AtTwo
    <3>11. q[j] = q[q[j + 2]]
      BY <1>1, <1>4, <2>1, <3>8, <3>10 DEF NestedBody
    <3> QED BY <2>1, <3>2, <3>5, <3>7, <3>11
  <2>5. CASE ~At(u, j, <<"/", "*">>) /\ At(u, j, <<"*", "/">>)
    <3>1. p[j] = j + 2
      BY <1>1, <2>1, <2>5 DEF NestedBody
    <3>2. j + 1 < end /\ j < Len(v) /\ j \in 1 .. Len(v) + 1 /\ j <= Len(v)
      BY <1>1, <1>2, <2>1, <3>1
    <3>3. v[j] = u[j] /\ v[j + 1] = u[j + 1]
      BY <1>2, <1>5, <2>1, <3>2
    <3>4. ~At(v, j, <<"/", "*">>) /\ At(v, j, <<"*", "/">>)
      BY <2>1, <2>3, <2>5, <3>2, <3>3, AtTwo
    <3>5. q[j] = j + 2
      BY <1>1, <1>4, <2>1, <3>2, <3>4 DEF NestedBody
    <3> QED BY <2>1, <3>1, <3>5
  <2>6. CASE ~At(u, j, <<"/", "*">>) /\ ~At(u, j, <<"*", "/">>)
    <3>1. p[j] = p[j + 1]
      BY <1>1, <2>1, <2>6 DEF NestedBody
    <3>2. q[j + 1] = p[j] /\ j + 1 < p[j]
      BY <2>1, <2>2, <3>1
    <3>3. j + 1 < end /\ j < Len(v) /\ j \in 1 .. Len(v) + 1 /\ j <= Len(v) /\ j < n
      BY <1>1, <1>2, <2>1, <3>2
    <3>4. v[j] = u[j] /\ v[j + 1] = u[j + 1]
      BY <1>2, <1>5, <2>1, <3>3
    <3>5. ~At(v, j, <<"/", "*">>) /\ ~At(v, j, <<"*", "/">>)
      BY <2>1, <2>3, <2>6, <3>3, <3>4, AtTwo
    <3>6. q[j] = q[j + 1]
      BY <1>1, <1>4, <2>1, <3>3, <3>5 DEF NestedBody
    <3> QED BY <2>1, <3>2, <3>6
  <2> QED BY <2>4, <2>5, <2>6
<1>9. \A j \in 1 .. n + 1 : j \in S
  <2> HIDE DEF S, n
  <2>1. n + 1 \in Nat
    BY <1>1
  <2> QED BY <1>7, <1>8, <2>1, DownTheText
<1>10. q[i + 2] = p[i + 2]
  <2>1. i + 2 \in 1 .. n + 1 /\ i < i + 2 /\ p[i + 2] <= end
    BY <1>1, <1>2, <1>6
  <2> QED BY <1>9, <2>1
<1> QED BY <1>3, <1>4, <1>10

\* What stands before a place matters to a dollar quote and to an E'...' only as far as
\* these say.
Behind(s, t, i) ==
    /\ i > 1 => (IdentChar(t[i - 1]) <=> IdentChar(s[i - 1]))
    /\ IsEscapeString(t, i) <=> IsEscapeString(s, i)

\* No dollar quote begins where none did.
LEMMA NoTagComes ==
    ASSUME NEW s \in Texts, NEW t, Dimmed(s, t), NEW i \in 1 .. Len(s), t[i] = s[i],
           Behind(s, t, i), DollarTag(s, i) = <<>>
    PROVE  DollarTag(t, i) = <<>>
<1>1. /\ Len(s) \in Nat /\ t \in Texts /\ Len(t) = Len(s) /\ i \in Nat \ {0}
      /\ \A j \in 1 .. Len(s) : t[j] = s[j] \/ t[j] = "sp"
  BY DEF Texts, Dimmed
<1>2. CASE s[i] # "$" \/ (i > 1 /\ IdentChar(s[i - 1]))
  BY <1>2 DEF DollarTag, Behind
<1>3. CASE ~(s[i] # "$" \/ (i > 1 /\ IdentChar(s[i - 1])))
  <2>1. ~At(s, i, <<"$", "$">>)
    <3>1. <<"$", "$">> # <<>>
      OBVIOUS
    <3> QED BY <1>3, <3>1 DEF DollarTag
  <2>2. ~At(t, i, <<"$", "$">>)
    <3> SUFFICES ASSUME At(t, i, <<"$", "$">>) PROVE FALSE
      OBVIOUS
    <3>1. i < Len(s) /\ t[i] = "$" /\ t[i + 1] = "$"
      BY <1>1, AtTwo
    <3>2. s[i + 1] = "$"
      BY <1>1, <3>1
    <3> QED BY <1>1, <2>1, <3>1, <3>2, AtTwo
  <2>3. ~(i + 2 <= Len(s) /\ Identifier(s[i + 1]) /\ s[i + 2] = "$")
    <3> SUFFICES ASSUME i + 2 <= Len(s), Identifier(s[i + 1]), s[i + 2] = "$" PROVE FALSE
      OBVIOUS
    <3>1. SubSeq(s, i, i + 2) # <<>>
      <4>1. Len(SubSeq(s, i, i + 2)) = 3
        BY <1>1 DEF Texts
      <4> QED BY <4>1
    <3> QED BY <1>3, <2>1, <3>1 DEF DollarTag
  <2>4. ~(i + 2 <= Len(t) /\ Identifier(t[i + 1]) /\ t[i + 2] = "$")
    <3> SUFFICES ASSUME i + 2 <= Len(t), Identifier(t[i + 1]), t[i + 2] = "$" PROVE FALSE
      OBVIOUS
    <3>1. t[i + 1] # "sp"
      BY DEF Identifier, Marks, Blanks
    <3>2. s[i + 1] = t[i + 1] /\ s[i + 2] = "$"
      BY <1>1, <3>1
    <3> QED BY <1>1, <2>3, <3>2
  <2> QED BY <1>3, <2>2, <2>4 DEF DollarTag
<1> QED BY <1>2, <1>3

\* A dollar quote that ends before anything is blanked stays as it is.
LEMMA DollarKept ==
    ASSUME NEW s \in Texts, NEW t, Dimmed(s, t), NEW i \in 1 .. Len(s), Behind(s, t, i),
           DollarTag(s, i) # <<>>, DollarEnd(s, i) # 0, Same(s, t, i, DollarEnd(s, i))
    PROVE  DollarTag(t, i) = DollarTag(s, i) /\ DollarEnd(t, i) = DollarEnd(s, i)
<1> DEFINE tag == DollarTag(s, i)
           end == DollarEnd(s, i)
           n == Len(s)
           close == Find(s, i + Len(tag), tag)
<1>1. /\ n \in Nat /\ t \in Texts /\ Len(t) = n /\ i \in Nat \ {0}
  BY DEF Texts, Dimmed
<1>2. end \in i + 4 .. n + 1
  BY DollarEndIs
<1>3. t[i] = s[i] /\ t[i + 1] = s[i + 1] /\ t[i + 2] = s[i + 2] /\ \A k \in i .. end - 1 : t[k] = s[k]
  BY <1>1, <1>2 DEF Same
<1>4. ~(s[i] # "$" \/ (i > 1 /\ IdentChar(s[i - 1]))) /\ ~(t[i] # "$" \/ (i > 1 /\ IdentChar(t[i - 1])))
  BY <1>3 DEF DollarTag, Behind
<1>5. At(s, i, <<"$", "$">>) <=> At(t, i, <<"$", "$">>)
  BY <1>1, <1>3, AtTwo
<1>6. i + 2 <= n /\ SubSeq(s, i, i + 2) = SubSeq(t, i, i + 2)
  <2>1. i + 2 <= n
    BY <1>1, <1>2
  <2>2. /\ SubSeq(s, i, i + 2) \in Seq(Symbols) /\ SubSeq(t, i, i + 2) \in Seq(Symbols)
        /\ Len(SubSeq(s, i, i + 2)) = 3 /\ Len(SubSeq(t, i, i + 2)) = 3
        /\ \A k \in 1 .. 3 : SubSeq(s, i, i + 2)[k] = s[i + k - 1] /\ SubSeq(t, i, i + 2)[k] = t[i + k - 1]
    BY <1>1, <2>1 DEF Texts
  <2>3. \A k \in 1 .. 3 : s[i + k - 1] = t[i + k - 1]
    <3> TAKE k \in 1 .. 3
    <3>1. i + k - 1 \in i .. end - 1
      BY <1>1, <1>2
    <3> QED BY <1>3, <3>1
  <2> DEFINE a == SubSeq(s, i, i + 2)
             b == SubSeq(t, i, i + 2)
  <2>4. /\ a \in Seq(Symbols) /\ b \in Seq(Symbols) /\ Len(a) = 3 /\ Len(b) = 3
        /\ \A k \in 1 .. 3 : a[k] = b[k]
    BY <2>2, <2>3
  <2> HIDE DEF a, b
  <2>5. a = b
    BY <2>4
  <2> QED BY <2>1, <2>5 DEF a, b
<1>7. DollarTag(t, i) = tag
  BY <1>1, <1>3, <1>4, <1>5, <1>6 DEF DollarTag
<1>8. tag = <<"$", "$">> \/ \E x \in Symbols : tag = <<"$", x, "$">>
  BY DollarTagIs
<1>9. Len(tag) \in {2, 3}
  <2>1. ASSUME NEW x, tag = <<"$", x, "$">> PROVE Len(tag) = 3
    BY <2>1
  <2>2. ASSUME tag = <<"$", "$">> PROVE Len(tag) = 2
    BY <2>2
  <2> HIDE DEF tag
  <2> QED BY <1>8, <2>1, <2>2
<1>10. end = IF close > n THEN 0 ELSE close + Len(tag)
  BY DEF DollarEnd
<1> DEFINE again == Find(t, i + Len(tag), tag)
<1>11. DollarEnd(t, i) = IF again > n THEN 0 ELSE again + Len(tag)
  BY <1>1, <1>7 DEF DollarEnd
<1> HIDE DEF tag, end
<1>12. i + Len(tag) \in Nat \ {0} /\ i + Len(tag) <= n + 1
  <2>1. CASE Len(tag) = 2
    BY <1>1, <1>2, <2>1
  <2>2. CASE Len(tag) = 3
    BY <1>1, <1>2, <2>2
  <2> QED BY <1>9, <2>1, <2>2
<1>13. /\ close \in i + Len(tag) .. n + 1
       /\ \A j \in i + Len(tag) .. close - 1 : ~At(s, j, tag)
       /\ close <= n => At(s, close, tag)
  BY <1>12, FindIs
<1>14. /\ again \in i + Len(tag) .. n + 1
       /\ \A j \in i + Len(tag) .. again - 1 : ~At(t, j, tag)
       /\ again <= n => At(t, again, tag)
  BY <1>1, <1>12, FindIs
<1> HIDE DEF close, again
<1>15. close <= n /\ end = close + Len(tag)
  BY <1>1, <1>2, <1>9, <1>10, <1>13
<1>16. \A j \in i .. close : At(t, j, tag) <=> At(s, j, tag)
  <2> TAKE j \in i .. close
  <2>1. \A k \in 1 .. Len(tag) : t[j + k - 1] = s[j + k - 1]
    <3> TAKE k \in 1 .. Len(tag)
    <3>1. j + k - 1 \in i .. end - 1
      BY <1>1, <1>9, <1>13, <1>15
    <3> QED BY <1>3, <3>1
  <2> QED BY <1>1, <2>1 DEF At
<1>17. close \in i .. close /\ At(t, close, tag)
  BY <1>1, <1>9, <1>13, <1>15, <1>16
<1>18. ~(close < again)
  BY <1>1, <1>9, <1>13, <1>14, <1>17
<1>19. ~(again < close)
  <2> SUFFICES ASSUME again < close PROVE FALSE
    OBVIOUS
  <2>1. again \in i .. close /\ again \in i + Len(tag) .. close - 1 /\ again <= n
    BY <1>1, <1>9, <1>13, <1>14, <1>15
  <2> QED BY <1>13, <1>14, <1>16, <2>1
<1>20. again = close
  BY <1>1, <1>9, <1>13, <1>14, <1>18, <1>19
<1>21. DollarEnd(t, i) = again + Len(tag)
  BY <1>1, <1>11, <1>13, <1>15, <1>20
<1> QED BY <1>7, <1>15, <1>20, <1>21 DEF tag, end

\* A piece of which nothing is blanked stays the same piece.
LEMMA PieceKept ==
    ASSUME NEW s \in Texts, NEW t, Dimmed(s, t), NEW i \in 1 .. Len(s), Behind(s, t, i),
           ScriptPiece(s, i).closed, Same(s, t, i, i + ScriptPiece(s, i).take)
    PROVE  ScriptPiece(t, i) = ScriptPiece(s, i)
<1> DEFINE n == Len(s)
           piece == ScriptPiece(s, i)
<1>1. /\ n \in Nat /\ t \in Texts /\ Len(t) = n /\ i \in 1 .. Len(t) /\ i \in Nat \ {0}
      /\ \A j \in 1 .. n : t[j] = s[j] \/ t[j] = "sp"
  BY DEF Texts, Dimmed
<1>2. piece.take \in Nat \ {0}
  BY ScriptPieceIs DEF ScriptPieceType
<1>3. t[i] = s[i]
  BY <1>1, <1>2 DEF Same
<1>4. Find(t, i, <<"nl">>) = Find(s, i, <<"nl">>)
  BY <1>1, LinesKept
<1>5. CASE s[i] \in Blanks
  <2>1. ScriptPiece(s, i) = Whole("code", 1) /\ ScriptPiece(t, i) = Whole("code", 1)
    BY <1>1, <1>3, <1>5, ScriptPieceCases, Zenon
  <2> QED BY <2>1
<1>6. CASE At(s, i, <<"-", "-">>)
  <2>1. piece = Whole("comment", Find(s, i, <<"nl">>) - i)
    BY <1>6, ScriptPieceCases, Zenon
  <2>2. s[i] = "-" /\ s[i + 1] = "-" /\ i < n
    BY <1>1, <1>6, AtTwo
  <2>3. Find(s, i, <<"nl">>) \in i .. n + 1 /\ (Find(s, i, <<"nl">>) <= n => At(s, Find(s, i, <<"nl">>), <<"nl">>))
    BY <1>1, FindIs
  <2>4. ~At(s, i, <<"nl">>) /\ ~At(s, i + 1, <<"nl">>)
    BY <1>1, <2>2, AtOne
  <2>5. i + 1 < Find(s, i, <<"nl">>)
    BY <1>1, <2>2, <2>3, <2>4
  <2>6. piece.take = Find(s, i, <<"nl">>) - i
    BY <2>1 DEF Whole
  <2>7. t[i + 1] = s[i + 1]
    BY <1>1, <2>3, <2>5, <2>6 DEF Same
  <2>8. At(t, i, <<"-", "-">>)
    BY <1>1, <1>3, <2>2, <2>7, AtTwo
  <2>9. ScriptPiece(t, i) = Whole("comment", Find(t, i, <<"nl">>) - i)
    BY <1>1, <2>8, ScriptPieceCases, Zenon
  <2> QED BY <1>4, <2>1, <2>9
<1>7. CASE At(s, i, <<"/", "*">>)
  <2> DEFINE u == Append(s, "nl")
             v == Append(t, "nl")
             end == NestedEnd(s, i)
  <2>1. piece = [take |-> end - i, kind |-> "comment", closed |-> NestedClosed(s, i)]
    BY <1>7, ScriptPieceCases, Zenon
  <2>2. NestedEnd(u, i) <= n + 1
    <3>1. NestedClosed(s, i)
      BY <2>1
    <3> QED BY <3>1 DEF NestedClosed
  <2>3. /\ u \in Texts /\ v \in Texts /\ Len(u) = n + 1 /\ Len(v) = n + 1
        /\ \A k \in 1 .. n : u[k] = s[k] /\ v[k] = t[k]
    <3>1. s \in Seq(Symbols) /\ t \in Seq(Symbols) /\ "nl" \in Symbols
      BY <1>1 DEF Texts, Symbols
    <3> QED BY <1>1, <3>1 DEF Texts
  <2> HIDE DEF u, v, end
  <2>4. i < n
    BY <1>1, <1>7, AtTwo
  <2>5. NestedEnd(u, i) \in i + 2 .. n + 1
    BY <1>1, <2>2, <2>3, <2>4, NestedEndType
  <2>6. end = NestedEnd(u, i)
    <3>1. \A k \in i .. NestedEnd(u, i) - 1 : s[k] = u[k]
      BY <1>1, <2>3, <2>5
    <3>2. i \in 1 .. Len(u) /\ i < Len(u) /\ NestedEnd(u, i) <= Len(u) /\ NestedEnd(u, i) <= Len(s) + 1
      BY <1>1, <2>3, <2>4, <2>5
    <3> QED BY <2>3, <3>1, <3>2, NestedSame DEF end
  <2>7. \A k \in i .. end - 1 : t[k] = s[k]
    <3>1. piece.take = end - i
      BY <2>1
    <3> QED BY <1>1, <2>5, <2>6, <3>1 DEF Same
  <2>8. NestedEnd(t, i) = end /\ NestedEnd(v, i) = end
    <3>1. /\ \A k \in i .. NestedEnd(u, i) - 1 : t[k] = u[k]
          /\ \A k \in i .. NestedEnd(u, i) - 1 : v[k] = u[k]
      BY <1>1, <2>3, <2>5, <2>6, <2>7
    <3>2. i \in 1 .. Len(u) /\ i < Len(u) /\ NestedEnd(u, i) <= Len(u) /\ NestedEnd(u, i) <= Len(t) + 1
          /\ NestedEnd(u, i) <= Len(v) + 1
      BY <1>1, <2>3, <2>4, <2>5
    <3>3. NestedEnd(t, i) = NestedEnd(u, i)
      BY <1>1, <2>3, <3>1, <3>2, NestedSame
    <3>4. NestedEnd(v, i) = NestedEnd(u, i)
      BY <2>3, <3>1, <3>2, NestedSame
    <3> QED BY <2>6, <3>3, <3>4
  <2>9. NestedClosed(t, i) = TRUE /\ NestedClosed(s, i) = TRUE
    BY <1>1, <2>2, <2>5, <2>6, <2>8 DEF NestedClosed, u, v
  <2>10. At(t, i, <<"/", "*">>)
    <3>1. s[i + 1] = "*" /\ s[i] = "/"
      BY <1>1, <1>7, AtTwo
    <3>2. t[i + 1] = s[i + 1]
      BY <1>1, <2>5, <2>6, <2>7
    <3> QED BY <1>1, <1>3, <2>4, <3>1, <3>2, AtTwo
  <2>11. ScriptPiece(t, i) = [take |-> NestedEnd(t, i) - i, kind |-> "comment", closed |-> NestedClosed(t, i)]
    BY <1>1, <2>10, ScriptPieceCases, Zenon
  <2> QED BY <2>1, <2>8, <2>9, <2>11
<1>8. CASE s[i] = "\\"
  <2>1. piece = Whole("meta", Find(s, i, <<"nl">>) - i)
    BY <1>8, ScriptPieceCases, Zenon
  <2>2. ScriptPiece(t, i) = Whole("meta", Find(t, i, <<"nl">>) - i)
    BY <1>1, <1>3, <1>8, ScriptPieceCases, Zenon
  <2> QED BY <1>4, <2>1, <2>2
<1>9. ASSUME NEW kind, NEW escapes, s[i] \in {"'", "dq"}, piece = Quoted(kind, i, QuoteEnd(s, i, escapes), s)
      PROVE  Quoted(kind, i, QuoteEnd(t, i, escapes), t) = piece
  <2> DEFINE end == QuoteEnd(s, i, escapes)
  <2>1. end # 0 /\ (end # 0 => piece.take = end - i)
    <3> HIDE DEF end
    <3>1. Quoted(kind, i, end, s).closed = (end # 0) /\ (end # 0 => Quoted(kind, i, end, s).take = end - i)
      BY DEF Quoted
    <3>2. piece = Quoted(kind, i, end, s)
      BY <1>9 DEF end
    <3> QED BY <3>1, <3>2
  <2>2. end \in i + 2 .. n + 1
    BY <2>1, QuoteEndType
  <2>3. Same(s, t, i, end)
    <3> DEFINE take == piece.take
    <3> HIDE DEF end, take, n
    <3>1. take = end - i
      BY <2>1 DEF take
    <3>2. i + take = end
      BY <1>1, <2>2, <3>1
    <3>3. Same(s, t, i, i + take)
      BY DEF take
    <3> QED BY <3>2, <3>3
  <2>4. QuoteEnd(t, i, escapes) = end
    BY <1>9, <2>1, <2>3, QuoteKept
  <2> QED BY <1>1, <1>9, <2>4 DEF Quoted
<1>10. CASE s[i] = "'"
  <2>1. piece = Quoted("string", i, QuoteEnd(s, i, IsEscapeString(s, i)), s)
    BY <1>10, ScriptPieceCases, Zenon
  <2>2. ScriptPiece(t, i) = Quoted("string", i, QuoteEnd(t, i, IsEscapeString(t, i)), t)
    BY <1>1, <1>3, <1>10, ScriptPieceCases, Zenon
  <2>3. IsEscapeString(t, i) = IsEscapeString(s, i)
    BY DEF Behind, IsEscapeString
  <2> HIDE DEF piece
  <2> QED BY <1>9, <1>10, <2>1, <2>2, <2>3 DEF piece
<1>11. CASE s[i] = "dq"
  <2>1. PICK escapes : escapes = FALSE
    OBVIOUS
  <2>2. piece = Quoted("name", i, QuoteEnd(s, i, escapes), s)
    <3>1. piece = Quoted("name", i, QuoteEnd(s, i, FALSE), s)
      BY <1>11, ScriptPieceCases, Zenon
    <3> QED BY <2>1, <3>1, Zenon
  <2>3. ScriptPiece(t, i) = Quoted("name", i, QuoteEnd(t, i, escapes), t)
    <3>1. ScriptPiece(t, i) = Quoted("name", i, QuoteEnd(t, i, FALSE), t)
      BY <1>1, <1>3, <1>11, ScriptPieceCases, Zenon
    <3> QED BY <2>1, <3>1, Zenon
  <2>4. s[i] \in {"'", "dq"}
    BY <1>11
  <2> HIDE DEF piece
  <2> QED BY <1>9, <2>2, <2>3, <2>4 DEF piece
<1>12. CASE DollarTag(s, i) # <<>>
  <2> DEFINE end == DollarEnd(s, i)
  <2>1. piece = Quoted("body", i, end, s)
    BY <1>12, ScriptPieceCases, Zenon
  <2>2. end \in {0} \cup (i + 4 .. n + 1)
    BY <1>12, DollarEndIs
  <2> HIDE DEF end
  <2>3. end # 0 /\ i + piece.take = end
    <3>1. Quoted("body", i, end, s).closed = (end # 0) /\ (end # 0 => Quoted("body", i, end, s).take = end - i)
      BY DEF Quoted
    <3> DEFINE take == piece.take
    <3>2. end # 0 /\ take = end - i
      BY <2>1, <3>1
    <3> HIDE DEF take, n
    <3>3. i + take = end
      BY <1>1, <2>2, <3>2
    <3> QED BY <3>2, <3>3 DEF take
  <2>4. DollarTag(t, i) = DollarTag(s, i) /\ DollarEnd(t, i) = end
    BY <1>12, <2>3, DollarKept DEF end
  <2>5. ScriptPiece(t, i) = Quoted("body", i, DollarEnd(t, i), t)
    BY <1>1, <1>12, <2>4, ScriptPieceCases, Zenon
  <2> QED BY <1>1, <2>1, <2>4, <2>5 DEF Quoted
<1>13. CASE /\ s[i] \notin Blanks /\ ~At(s, i, <<"-", "-">>) /\ ~At(s, i, <<"/", "*">>)
            /\ DollarTag(s, i) = <<>> /\ s[i] \notin {"\\", "'", "dq"}
  <2>1. ~At(t, i, <<"-", "-">>) /\ ~At(t, i, <<"/", "*">>)
    <3>1. ASSUME NEW a, NEW b, b # "sp", At(t, i, <<a, b>>) PROVE At(s, i, <<a, b>>)
      <4>1. i < n /\ t[i] = a /\ t[i + 1] = b
        BY <1>1, <3>1, AtTwo
      <4>2. s[i + 1] = b
        BY <1>1, <3>1, <4>1
      <4> QED BY <1>1, <1>3, <4>1, <4>2, AtTwo
    <3> QED BY <1>13, <3>1
  <2>2. DollarTag(t, i) = <<>>
    BY <1>3, <1>13, NoTagComes
  <2>3. piece = Whole("code", 1) /\ ScriptPiece(t, i) = Whole("code", 1)
    BY <1>1, <1>3, <1>13, <2>1, <2>2, ScriptPieceCases, Zenon
  <2> QED BY <2>3
<1> QED BY <1>5, <1>6, <1>7, <1>8, <1>10, <1>11, <1>12, <1>13

\* The data of a COPY end where they did.
LEMMA CopyDataKept ==
    ASSUME NEW s \in Texts, NEW t, Dimmed(s, t), NEW i \in 1 .. Len(s) + 1,
           Same(s, t, i, PastCopyData(s, i))
    PROVE  PastCopyData(t, i) = PastCopyData(s, i)
<1> DEFINE n == Len(s)
           lines == {j + 1 : j \in {k \in i .. n : s[k] = "nl"}}
           linesT == {j + 1 : j \in {k \in i .. n : t[k] = "nl"}}
           ends == {j \in lines : At(s, j, <<"\\", ".">>) /\ (j + 2 > n \/ s[j + 2] = "nl")}
           endsT == {j \in linesT : At(t, j, <<"\\", ".">>) /\ (j + 2 > n \/ t[j + 2] = "nl")}
<1>1. /\ n \in Nat /\ t \in Texts /\ Len(t) = n /\ i \in Nat \ {0}
      /\ \A j \in 1 .. n : (t[j] = s[j] \/ t[j] = "sp") /\ (t[j] = "nl" <=> s[j] = "nl")
  BY DEF Texts, Dimmed
<1>2. /\ PastCopyData(s, i) = IF ends = {} THEN n + 1 ELSE Min(ends) + 2
      /\ PastCopyData(t, i) = IF endsT = {} THEN n + 1 ELSE Min(endsT) + 2
  BY <1>1 DEF PastCopyData
<1>3. lines = linesT /\ lines \subseteq i + 1 .. n + 1
  <2>1. {k \in i .. n : s[k] = "nl"} = {k \in i .. n : t[k] = "nl"}
    BY <1>1
  <2> QED BY <1>1, <2>1
<1>4. ends \in SUBSET Nat /\ endsT \in SUBSET Nat
  BY <1>1, <1>3
<1>5. ASSUME NEW j \in endsT PROVE j \in ends
  <2>1. j \in lines /\ j \in Nat \ {0} /\ At(t, j, <<"\\", ".">>) /\ (j + 2 > n \/ t[j + 2] = "nl")
    BY <1>1, <1>3
  <2>2. j < n /\ t[j] = "\\" /\ t[j + 1] = "."
    BY <1>1, <2>1, AtTwo
  <2>3. s[j] = "\\" /\ s[j + 1] = "." /\ (j + 2 > n \/ s[j + 2] = "nl")
    <3> HIDE DEF lines, linesT, ends, endsT
    <3>1. j \in 1 .. n /\ j + 1 \in 1 .. n /\ (j + 2 > n \/ j + 2 \in 1 .. n)
      BY <1>1, <2>1, <2>2
    <3>2. s[j] = t[j] /\ s[j + 1] = t[j + 1]
      BY <1>1, <2>2, <3>1
    <3>3. j + 2 > n \/ s[j + 2] = "nl"
      BY <1>1, <2>1, <3>1
    <3> QED BY <2>2, <3>2, <3>3
  <2>4. At(s, j, <<"\\", ".">>)
    BY <2>1, <2>2, <2>3, AtTwo
  <2> QED BY <2>1, <2>3, <2>4
<1>6. ends # {} => Min(ends) \in endsT
  <2> SUFFICES ASSUME ends # {} PROVE Min(ends) \in endsT
    OBVIOUS
  <2> DEFINE j == Min(ends)
  <2>1. j \in ends
    BY <1>4, MinIs
  <2>2. PastCopyData(s, i) = j + 2
    BY <1>2
  <2> HIDE DEF j
  <2>3. j \in linesT /\ j \in i + 1 .. n + 1 /\ At(s, j, <<"\\", ".">>) /\ (j + 2 > n \/ s[j + 2] = "nl")
    BY <1>3, <2>1
  <2>4. j < n /\ s[j] = "\\" /\ s[j + 1] = "." /\ j \in Nat \ {0}
    BY <1>1, <2>3, AtTwo
  <2>5. t[j] = s[j] /\ t[j + 1] = s[j + 1]
    BY <1>1, <2>2, <2>3 DEF Same
  <2>6. At(t, j, <<"\\", ".">>)
    BY <1>1, <2>4, <2>5, AtTwo
  <2>7. j + 2 > n \/ t[j + 2] = "nl"
    BY <1>1, <2>3, <2>4
  <2> QED BY <2>3, <2>6, <2>7 DEF j
<1> HIDE DEF ends, endsT
<1>7. CASE ends = {}
  BY <1>2, <1>5, <1>7
<1>8. CASE ends # {}
  <2>1. /\ Min(ends) \in ends /\ \A x \in ends : Min(ends) <= x
        /\ Min(endsT) \in endsT /\ \A x \in endsT : Min(endsT) <= x
    BY <1>4, <1>6, <1>8, MinIs
  <2>2. Min(ends) <= Min(endsT) /\ Min(endsT) <= Min(ends) /\ Min(ends) \in Nat /\ Min(endsT) \in Nat
    BY <1>4, <1>5, <1>6, <1>8, <2>1
  <2> QED BY <1>2, <1>6, <1>8, <2>2
<1> QED BY <1>7, <1>8

-----------------------------------------------------------------------------
(* What is blanked *)

LEMMA NoBlanksBefore ==
    ASSUME NEW s \in Texts, NEW i \in Nat, ~(i <= Len(s) /\ s[i] \in Blanks)
    PROVE  AfterBlanks(s, i) = i
<1> DEFINE n == Len(s)
           Ends(j) == {k \in Nat : j <= k /\ ~(k <= n /\ s[k] \in Blanks)}
           Body(f, j) == IF j <= n /\ s[j] \in Blanks THEN f[j + 1] ELSE j
           Is(f) == f = [j \in Nat |-> Body(f, j)]
           g == [j \in Nat |-> Min(Ends(j))]
           from == CHOOSE f : Is(f)
<1>1. n \in Nat
  BY DEF Texts
<1>2. \A j \in Nat : g[j] = Body(g, j)
  <2> TAKE j \in Nat
  <2>1. \A k \in Nat : Ends(k) \in SUBSET Nat /\ Ends(k) # {}
    <3> TAKE k \in Nat
    <3>1. k + n + 1 \in Ends(k)
      BY <1>1
    <3> QED BY <3>1
  <2>2. CASE j <= n /\ s[j] \in Blanks
    <3>1. Ends(j) = Ends(j + 1)
      BY <1>1, <2>2
    <3> HIDE DEF Ends
    <3> QED BY <2>2, <3>1
  <2>3. CASE ~(j <= n /\ s[j] \in Blanks)
    <3>1. j \in Ends(j) /\ \A k \in Ends(j) : j <= k
      BY <2>3
    <3>2. Min(Ends(j)) \in Ends(j) /\ \A k \in Ends(j) : Min(Ends(j)) <= k
      BY <2>1, MinIs
    <3>3. Min(Ends(j)) \in Nat /\ j <= Min(Ends(j)) /\ Min(Ends(j)) <= j
      BY <2>1, <3>1, <3>2
    <3>4. Min(Ends(j)) = j
      BY <3>3
    <3> HIDE DEF Ends
    <3> QED BY <2>3, <3>4
  <2> QED BY <2>2, <2>3
<1>3. g = [j \in Nat |-> g[j]]
  OBVIOUS
<1> HIDE DEF g
<1>4. Is(g)
  BY <1>2, <1>3
<1>5. Is(from)
  BY <1>4
<1>6. AfterBlanks(s, i) = from[i]
  BY DEF AfterBlanks
<1>7. from[i] = Body(from, i)
  <2> DEFINE body == [j \in Nat |-> Body(from, j)]
  <2>1. body[i] = Body(from, i) /\ from = body
    BY <1>5
  <2> HIDE DEF from, body
  <2> QED BY <2>1
<1> QED BY <1>6, <1>7

\* No COPY is blanked: its data would be read as statements.
LEMMA CopyStays ==
    ASSUME NEW s \in Texts, CopiesFromStdin(s)
    PROVE  ~IsNeutralised(s)
<1>1. s[1] = "COPY" /\ 1 <= Len(s) /\ Len(s) \in Nat
  BY DEF CopiesFromStdin, Texts
<1>2. AfterBlanks(s, 1) = 1
  BY <1>1, NoBlanksBefore DEF Blanks
<1> DEFINE words == LeadingKeywords(s)
<1>3. Identifier("COPY")
  BY DEF Identifier, Marks, Numbers, Blanks, Quotes
<1>4. words[1] = "COPY" /\ 1 <= Len(words)
  BY <1>1, <1>2, <1>3 DEF LeadingKeywords
<1> HIDE DEF words
<1> QED BY <1>4 DEF IsNeutralised, TransactionControl, words

-----------------------------------------------------------------------------
(* The ways parse_script goes on, and where the spans it finds begin and end *)

\* In which way it goes on behind a piece that begins with symbol
Way(piece, symbol, depth) ==
    IF ~piece.closed THEN "unclosed"
    ELSE CASE piece.kind = "comment" \/ symbol \in Blanks -> "skip"
           [] piece.kind = "meta" -> "meta"
           [] piece.kind = "code" /\ symbol = "(" -> "open"
           [] piece.kind = "code" /\ symbol = ")" -> "close"
           [] piece.kind = "code" /\ symbol = ";" /\ depth = 0 -> "end"
           [] OTHER -> "on"

\* What it makes of the text from i on, going that way
Goes(way, script, from, i, start, depth, past, here, next) ==
    \/ way = "unclosed" /\ script = Script({}, {}, FALSE)
    \/ way = "skip" /\ script = from[<<past, start, depth>>]
    \/ way = "meta" /\ script = WithMeta(from[<<past, start, depth>>], Span(i, past))
    \/ way = "open" /\ script = from[<<past, here, depth + 1>>]
    \/ way = "close" /\ script = from[<<past, here, Less(depth)>>]
    \/ way = "end" /\ script = WithStatement(from[<<next, 0, 0>>], Span(here, past))
    \/ way = "on" /\ script = from[<<past, here, depth>>]

LEMMA ScriptWays ==
    ASSUME NEW s \in Texts, NEW i \in 1 .. Len(s), NEW start, NEW depth, NEW from,
           NEW past, NEW here, NEW next
    PROVE  Goes(Way(ScriptPiece(s, i), s[i], depth),
                Onward(s, from, i, start, depth, past, here, next),
                from, i, start, depth, past, here, next)
<1> DEFINE piece == ScriptPiece(s, i)
           body == Onward(s, from, i, start, depth, past, here, next)
           way == Way(piece, s[i], depth)
           a0 == ~piece.closed
           a1 == piece.kind = "comment" \/ s[i] \in Blanks
           a2 == piece.kind = "meta"
           a3 == piece.kind = "code" /\ s[i] = "("
           a4 == piece.kind = "code" /\ s[i] = ")"
           a5 == piece.kind = "code" /\ s[i] = ";" /\ depth = 0
           b1 == from[<<past, start, depth>>]
           b2 == WithMeta(from[<<past, start, depth>>], Span(i, past))
           b3 == from[<<past, here, depth + 1>>]
           b4 == from[<<past, here, Less(depth)>>]
           b5 == WithStatement(from[<<next, 0, 0>>], Span(here, past))
           b6 == from[<<past, here, depth>>]
<1>1. body = IF a0 THEN Script({}, {}, FALSE)
             ELSE CASE a1 -> b1 [] a2 -> b2 [] a3 -> b3 [] a4 -> b4 [] a5 -> b5 [] OTHER -> b6
  BY Zenon DEF Onward, WithMeta, WithStatement
<1>2. way = IF a0 THEN "unclosed"
            ELSE CASE a1 -> "skip" [] a2 -> "meta" [] a3 -> "open" [] a4 -> "close" [] a5 -> "end" [] OTHER -> "on"
  BY Zenon DEF Way
<1>3. s[i] \in Blanks => piece.kind = "code"
  <2>1. s[i] \in Blanks => piece = Whole("code", 1)
    BY ScriptPieceCases, Zenon
  <2> QED BY <2>1 DEF Whole
<1>4. /\ ~(a1 /\ a2) /\ ~(a1 /\ a3) /\ ~(a1 /\ a4) /\ ~(a1 /\ a5) /\ ~(a2 /\ a3)
      /\ ~(a2 /\ a4) /\ ~(a2 /\ a5) /\ ~(a3 /\ a4) /\ ~(a3 /\ a5) /\ ~(a4 /\ a5)
  BY <1>3 DEF Blanks
<1> HIDE DEF a0, a1, a2, a3, a4, a5, b1, b2, b3, b4, b5, b6, body, piece, way
<1>5. \/ way = "unclosed" /\ body = Script({}, {}, FALSE)
      \/ way = "skip" /\ body = b1
      \/ way = "meta" /\ body = b2
      \/ way = "open" /\ body = b3
      \/ way = "close" /\ body = b4
      \/ way = "end" /\ body = b5
      \/ way = "on" /\ body = b6
  <2>1. CASE a0
    BY <1>1, <1>2, <2>1
  <2>2. CASE ~a0 /\ a1
    BY <1>1, <1>2, <1>4, <2>2
  <2>3. CASE ~a0 /\ a2
    BY <1>1, <1>2, <1>4, <2>3
  <2>4. CASE ~a0 /\ a3
    BY <1>1, <1>2, <1>4, <2>4
  <2>5. CASE ~a0 /\ a4
    BY <1>1, <1>2, <1>4, <2>5
  <2>6. CASE ~a0 /\ a5
    BY <1>1, <1>2, <1>4, <2>6
  <2>7. CASE ~a0 /\ ~a1 /\ ~a2 /\ ~a3 /\ ~a4 /\ ~a5
    BY <1>1, <1>2, <2>7
  <2> QED BY <2>1, <2>2, <2>3, <2>4, <2>5, <2>6, <2>7
<1> QED BY <1>5, Zenon DEF Goes, b1, b2, b3, b4, b5, b6, body, piece, way

LEMMA TableGoes ==
    ASSUME NEW s \in Texts, NEW from, IsScriptTable(s, from), NEW i \in 1 .. Len(s),
           NEW start \in Nat, NEW depth \in Nat,
           NEW past, NEW here, NEW next, GoesOn(s, i, start, past, here, next)
    PROVE  Goes(Way(ScriptPiece(s, i), s[i], depth), from[<<i, start, depth>>],
                from, i, start, depth, past, here, next)
<1>1. i \in 1 .. Len(s) + 1 /\ ~(i > Len(s))
  BY DEF Texts
<1>2. from[<<i, start, depth>>] = Onward(s, from, i, start, depth, past, here, next)
  BY <1>1, ScriptBodyIsOnward DEF IsScriptTable
<1> QED BY <1>2, ScriptWays, Zenon

\* An operator of its own, as the SMT translation cannot spell a semicolon
EndsStatement(symbol) == symbol = ";"

\* What the ways say of the piece.
LEMMA WayIs ==
    ASSUME NEW s \in Texts, NEW i \in 1 .. Len(s), NEW depth \in Nat,
           NEW way, way = Way(ScriptPiece(s, i), s[i], depth)
    PROVE  /\ way # "unclosed" => ScriptPiece(s, i).closed
           /\ way \in {"meta", "open", "close", "end", "on"} => s[i] \notin Blanks
           /\ way = "meta" => ScriptPiece(s, i) = Whole("meta", Find(s, i, <<"nl">>) - i)
           /\ way = "end" => depth = 0 /\ EndsStatement(s[i]) /\ ScriptPiece(s, i).take = 1
<1>0. i \in Nat \ {0}
  BY DEF Texts
<1> DEFINE piece == ScriptPiece(s, i)
<1>1. way # "unclosed" => piece.closed
  BY DEF Way
<1>2. s[i] \in Blanks => piece.kind = "code" /\ s[i] \notin {"(", ")", ";"}
  <2>1. s[i] \in Blanks => piece = Whole("code", 1)
    BY ScriptPieceCases, Zenon
  <2>2. Whole("code", 1).kind = "code"
    BY DEF Whole
  <2>3. s[i] \in Blanks => piece.kind = "code"
    BY <2>1, <2>2, Zenon
  <2>4. s[i] \in Blanks => s[i] \notin {"(", ")", ";"}
    BY DEF Blanks
  <2> QED BY <2>3, <2>4
<1> DEFINE kind == piece.kind
           a0 == ~piece.closed
           a1 == kind = "comment" \/ s[i] \in Blanks
           a2 == kind = "meta"
           a3 == kind = "code" /\ s[i] = "("
           a4 == kind = "code" /\ s[i] = ")"
           a5 == kind = "code" /\ s[i] = ";" /\ depth = 0
<1>3. way = IF a0 THEN "unclosed"
            ELSE CASE a1 -> "skip" [] a2 -> "meta" [] a3 -> "open" [] a4 -> "close" [] a5 -> "end" [] OTHER -> "on"
  BY Zenon DEF Way
<1>4. /\ ~(a1 /\ a2) /\ ~(a1 /\ a3) /\ ~(a1 /\ a4) /\ ~(a1 /\ a5) /\ ~(a2 /\ a3)
      /\ ~(a2 /\ a4) /\ ~(a2 /\ a5) /\ ~(a3 /\ a4) /\ ~(a3 /\ a5) /\ ~(a4 /\ a5)
  <2> HIDE DEF piece
  <2> QED BY <1>2
<1>5. /\ way \in {"meta", "open", "close", "end", "on"} => ~a1
      /\ way = "meta" => a2
      /\ way = "end" => a5
  <2> HIDE DEF a0, a1, a2, a3, a4, a5
  <2>1. CASE a0
    BY <1>3, <2>1
  <2>2. CASE ~a0 /\ a1
    BY <1>3, <1>4, <2>2
  <2>3. CASE ~a0 /\ a2
    BY <1>3, <1>4, <2>3
  <2>4. CASE ~a0 /\ a3
    BY <1>3, <1>4, <2>4
  <2>5. CASE ~a0 /\ a4
    BY <1>3, <1>4, <2>5
  <2>6. CASE ~a0 /\ a5
    BY <1>3, <1>4, <2>6
  <2>7. CASE ~a0 /\ ~a1 /\ ~a2 /\ ~a3 /\ ~a4 /\ ~a5
    BY <1>3, <2>7
  <2> QED BY <2>1, <2>2, <2>3, <2>4, <2>5, <2>6, <2>7
<1>6. kind = "meta" => piece = Whole("meta", Find(s, i, <<"nl">>) - i)
  <2> SUFFICES ASSUME piece.kind = "meta" PROVE piece = Whole("meta", Find(s, i, <<"nl">>) - i)
    OBVIOUS
  <2>1. CASE s[i] = "\\"
    BY <2>1, ScriptPieceCases, Zenon
  <2>2. CASE At(s, i, <<"-", "-">>)
    <3>1. piece = Whole("comment", Find(s, i, <<"nl">>) - i)
      BY <2>2, ScriptPieceCases, Zenon
    <3> QED BY <3>1 DEF Whole
  <2>3. CASE At(s, i, <<"/", "*">>)
    <3>1. piece = [take |-> NestedEnd(s, i) - i, kind |-> "comment", closed |-> NestedClosed(s, i)]
      BY <2>3, ScriptPieceCases, Zenon
    <3> QED BY <3>1
  <2>4. CASE s[i] = "'"
    <3>1. piece = Quoted("string", i, QuoteEnd(s, i, IsEscapeString(s, i)), s)
      BY <2>4, ScriptPieceCases, Zenon
    <3> QED BY <3>1 DEF Quoted
  <2>5. CASE s[i] = "dq"
    <3>1. piece = Quoted("name", i, QuoteEnd(s, i, FALSE), s)
      BY <2>5, ScriptPieceCases, Zenon
    <3> QED BY <3>1 DEF Quoted
  <2>6. CASE DollarTag(s, i) # <<>>
    <3>1. piece = Quoted("body", i, DollarEnd(s, i), s)
      BY <2>6, ScriptPieceCases, Zenon
    <3> QED BY <3>1 DEF Quoted
  <2>7. CASE /\ ~At(s, i, <<"-", "-">>) /\ ~At(s, i, <<"/", "*">>) /\ DollarTag(s, i) = <<>>
             /\ s[i] \notin {"\\", "'", "dq"}
    <3>1. piece = Whole("code", 1)
      BY <2>7, ScriptPieceCases, Zenon
    <3> QED BY <3>1 DEF Whole
  <2> QED BY <2>1, <2>2, <2>3, <2>4, <2>5, <2>6, <2>7
<1>7. s[i] = ";" => piece.take = 1
  <2> SUFFICES ASSUME s[i] = ";" PROVE piece.take = 1
    OBVIOUS
  <2>1. ~At(s, i, <<"-", "-">>) /\ ~At(s, i, <<"/", "*">>)
    <3>2. At(s, i, <<"-", "-">>) => s[i] = "-"
      BY <1>0, AtTwo
    <3>3. At(s, i, <<"/", "*">>) => s[i] = "/"
      BY <1>0, AtTwo
    <3> QED BY <3>2, <3>3
  <2>2. DollarTag(s, i) = <<>>
    <3>1. DollarTag(s, i) # <<>> => s[i] = "$"
      BY DollarTagIs
    <3> QED BY <3>1
  <2>3. s[i] \notin {"\\", "'", "dq"}
    OBVIOUS
  <2>4. piece = Whole("code", 1)
    BY <2>1, <2>2, <2>3, ScriptPieceCases, Zenon
  <2>5. Whole("code", 1).take = 1
    BY DEF Whole
  <2> QED BY <2>4, <2>5, Zenon
<1>8. a5 => depth = 0 /\ EndsStatement(s[i])
  BY Zenon DEF EndsStatement
<1>9. EndsStatement(s[i]) => piece.take = 1
  BY <1>7, Zenon DEF EndsStatement
<1> HIDE DEF a0, a3, a4, a5
<1> QED BY <1>1, <1>5, <1>6, <1>8, <1>9

LEMMA EndIs ==
    ASSUME NEW s \in Texts, NEW i \in 1 .. Len(s), NEW depth \in Nat,
           Way(ScriptPiece(s, i), s[i], depth) = "end"
    PROVE  depth = 0 /\ EndsStatement(s[i]) /\ ScriptPiece(s, i).take = 1 /\ ScriptPiece(s, i).closed
<1>1. PICK way : way = Way(ScriptPiece(s, i), s[i], depth)
  OBVIOUS
<1>2. /\ way # "unclosed" => ScriptPiece(s, i).closed
      /\ way = "end" => depth = 0 /\ EndsStatement(s[i]) /\ ScriptPiece(s, i).take = 1
  BY <1>1, WayIs
<1> QED BY <1>1, <1>2

\* The spans of backslash commands in the text from i on, each ending with its line
MetasFrom(s, metas, i) ==
    \A x \in metas : /\ x.from \in i .. Len(s) /\ x.to \in x.from + 1 .. Len(s) + 1
                     /\ x.to <= Len(s) => s[x.to] = "nl"

\* Those of statements, one perhaps begun at start (0: none), each ending in a semicolon or
\* with the text
StatementsFrom(s, statements, i, start) ==
    \A x \in statements : /\ x.from \in i .. Len(s) \/ (start # 0 /\ x.from = start)
                          /\ x.to \in x.from + 1 .. Len(s) + 1 /\ i <= x.to
                          /\ x.to <= Len(s) => EndsStatement(s[x.to - 1])

\* A statement once begun is among them, unless the text breaks off.
BegunIsIn(script, start) ==
    script.complete /\ start # 0 => \E x \in script.statements : x.from = start

IsOrdered(s, script, i, start) ==
    /\ MetasFrom(s, script.metas, i)
    /\ StatementsFrom(s, script.statements, i, start)
    /\ BegunIsIn(script, start)

LEMMA OrderedEarlier ==
    ASSUME NEW s \in Texts, NEW script, NEW i \in 1 .. Len(s), NEW k \in i + 1 .. Len(s) + 1,
           NEW start \in Nat, NEW here \in Nat,
           here = start \/ (start = 0 /\ here \in {0, i}), IsOrdered(s, script, k, here)
    PROVE  IsOrdered(s, script, i, start)
<1>1. Len(s) \in Nat
  BY DEF Texts
<1>2. MetasFrom(s, script.metas, i)
  <2> SUFFICES ASSUME NEW x \in script.metas
               PROVE  /\ x.from \in i .. Len(s) /\ x.to \in x.from + 1 .. Len(s) + 1
                      /\ x.to <= Len(s) => s[x.to] = "nl"
    BY DEF MetasFrom
  <2>1. /\ x.from \in k .. Len(s) /\ x.to \in x.from + 1 .. Len(s) + 1
        /\ x.to <= Len(s) => s[x.to] = "nl"
    BY DEF IsOrdered, MetasFrom
  <2> QED BY <1>1, <2>1
<1>3. StatementsFrom(s, script.statements, i, start)
  <2> SUFFICES ASSUME NEW x \in script.statements
               PROVE  /\ x.from \in i .. Len(s) \/ (start # 0 /\ x.from = start)
                      /\ x.to \in x.from + 1 .. Len(s) + 1 /\ i <= x.to
                      /\ x.to <= Len(s) => EndsStatement(s[x.to - 1])
    BY DEF StatementsFrom
  <2>1. /\ x.from \in k .. Len(s) \/ (here # 0 /\ x.from = here)
        /\ x.to \in x.from + 1 .. Len(s) + 1 /\ k <= x.to
        /\ x.to <= Len(s) => EndsStatement(s[x.to - 1])
    BY DEF IsOrdered, StatementsFrom
  <2> DEFINE a == x.from
             b == x.to
             n == Len(s)
  <2>2. n \in Nat /\ i \in 1 .. n /\ k \in i + 1 .. n + 1
    BY <1>1
  <2> HIDE DEF a, b, n
  <2>3. a \in k .. n \/ (here # 0 /\ a = here)
    BY <2>1 DEF a, n
  <2>4. b \in a + 1 .. n + 1 /\ k <= b
    BY <2>1 DEF a, b, n
  <2>5. a \in i .. n \/ (start # 0 /\ a = start)
    <3>1. CASE a \in k .. n
      BY <2>2, <3>1
    <3>2. CASE here # 0 /\ a = here
      BY <2>2, <3>2
    <3> QED BY <2>3, <3>1, <3>2
  <2>6. i <= b
    <3>1. a \in Nat
      BY <2>2, <2>5
    <3> QED BY <2>2, <2>4, <3>1
  <2> QED BY <2>1, <2>5, <2>6 DEF a, b, n
<1>4. BegunIsIn(script, start)
  BY DEF IsOrdered, BegunIsIn
<1> QED BY <1>2, <1>3, <1>4 DEF IsOrdered

\* A backslash command ends with its line.
LEMMA MetaEnds ==
    ASSUME NEW s \in Texts, NEW i \in 1 .. Len(s), NEW past,
           past = i + ScriptPiece(s, i).take,
           ScriptPiece(s, i) = Whole("meta", Find(s, i, <<"nl">>) - i), past \in i + 1 .. Len(s) + 1
    PROVE  past <= Len(s) => s[past] = "nl"
<1> DEFINE f == Find(s, i, <<"nl">>)
<1>1. Len(s) \in Nat /\ i \in Nat \ {0}
  BY DEF Texts
<1>2. past = i + (f - i)
  <2>1. Whole("meta", f - i).take = f - i
    BY DEF Whole
  <2> HIDE DEF f
  <2> QED BY <2>1 DEF f
<1>3. f \in i .. Len(s) + 1 /\ (f <= Len(s) => At(s, f, <<"nl">>))
  BY <1>1, FindIs
<1> HIDE DEF f
<1>4. past = f
  BY <1>1, <1>2, <1>3
<1> QED BY <1>1, <1>3, <1>4, AtOne

LEMMA ScriptIsOrdered ==
    ASSUME NEW s \in Texts, NEW from, IsScriptTable(s, from)
    PROVE  \A i \in 1 .. Len(s) + 1 : \A depth \in Nat, start \in 0 .. i - 1 :
                IsOrdered(s, from[<<i, start, depth>>], i, start)
<1> DEFINE n == Len(s)
           S == {i \in 1 .. n + 1 : \A depth \in Nat, start \in 0 .. i - 1 :
                                        IsOrdered(s, from[<<i, start, depth>>], i, start)}
<1>1. n \in Nat
  BY DEF Texts
<1>2. n + 1 \in S
  <2> SUFFICES ASSUME NEW depth \in Nat, NEW start \in 0 .. n
               PROVE  IsOrdered(s, from[<<n + 1, start, depth>>], n + 1, start)
    BY <1>1
  <2> DEFINE script == from[<<n + 1, start, depth>>]
  <2>1. script = Script(IF start = 0 THEN {} ELSE {Span(start, n + 1)}, {}, TRUE)
    <3>1. n + 1 \in 1 .. n + 1 /\ n + 1 > Len(s) /\ start \in Nat
      BY <1>1
    <3>2. script = ScriptBody(s, from, n + 1, start, depth)
      BY <3>1 DEF IsScriptTable
    <3> QED BY <3>1, <3>2 DEF ScriptBody
  <2> SUFFICES IsOrdered(s, script, n + 1, start)
    OBVIOUS
  <2> HIDE DEF script
  <2>2. CASE start = 0
    BY <2>1, <2>2 DEF IsOrdered, MetasFrom, StatementsFrom, BegunIsIn, Script
  <2>3. CASE start # 0
    <3>1. script.metas = {} /\ script.statements = {Span(start, n + 1)}
      BY <2>1, <2>3 DEF Script
    <3>2. Span(start, n + 1).from = start /\ Span(start, n + 1).to = n + 1
      BY DEF Span
    <3>3. StatementsFrom(s, script.statements, n + 1, start)
      <4> DEFINE x == Span(start, n + 1)
      <4>1. n + 1 \in start + 1 .. Len(s) + 1 /\ ~(n + 1 <= Len(s))
        BY <1>1
      <4>2. x.from = start /\ x.to = n + 1 /\ script.statements = {x}
        BY <3>1, <3>2
      <4>3. StatementsFrom(s, {x}, n + 1, start)
        <5> SUFFICES /\ start # 0 /\ x.from = start
                     /\ x.to \in x.from + 1 .. Len(s) + 1 /\ n + 1 <= x.to
                     /\ ~(x.to <= Len(s))
          BY DEF StatementsFrom
        <5> HIDE DEF x
        <5> QED BY <1>1, <2>3, <4>1, <4>2
      <4> HIDE DEF x
      <4> QED BY <4>2, <4>3
    <3>4. MetasFrom(s, script.metas, n + 1)
      BY <3>1 DEF MetasFrom
    <3>5. BegunIsIn(script, start)
      BY <3>1, <3>2 DEF BegunIsIn
    <3> QED BY <3>3, <3>4, <3>5 DEF IsOrdered
  <2> QED BY <2>2, <2>3
<1>3. \A i \in 1 .. (n + 1) - 1 : (\A j \in i + 1 .. n + 1 : j \in S) => i \in S
  <2> TAKE i \in 1 .. (n + 1) - 1
  <2> HAVE \A j \in i + 1 .. n + 1 : j \in S
  <2> SUFFICES ASSUME NEW depth \in Nat, NEW start \in 0 .. i - 1
               PROVE  IsOrdered(s, from[<<i, start, depth>>], i, start)
    BY <1>1
  <2>1. i \in 1 .. Len(s) /\ ~(i > Len(s)) /\ i \in 1 .. n + 1 /\ start \in Nat
    BY <1>1
  <2>2. PICK past, here, next : GoesOn(s, i, start, past, here, next)
    BY DEF GoesOn
  <2>3. /\ past \in i + 1 .. n + 1 /\ next \in i + 1 .. n + 1
        /\ here \in Nat /\ Less(depth) \in Nat
    BY <2>1, <2>2, GoesOnFurther
  <2>4. here \in 1 .. i /\ here = IF start = 0 THEN i ELSE start
    BY <1>1, <2>2 DEF GoesOn
  <2>5. PICK way : way = Way(ScriptPiece(s, i), s[i], depth)
    OBVIOUS
  <2> DEFINE script == from[<<i, start, depth>>]
  <2>6. Goes(way, script, from, i, start, depth, past, here, next)
    BY <2>1, <2>2, <2>5, TableGoes, Zenon
  <2>7. ASSUME NEW k \in i + 1 .. n + 1, NEW s2 \in 0 .. k - 1, NEW d2 \in Nat
        PROVE  IsOrdered(s, from[<<k, s2, d2>>], k, s2) /\ from[<<k, s2, d2>>] \in Scripts
    <3>1. k \in S /\ k \in 1 .. n + 1 /\ s2 \in Nat
      BY <1>1
    <3> QED BY <3>1 DEF IsScriptTable
  <2> SUFFICES IsOrdered(s, script, i, start)
    OBVIOUS
  <2> HIDE DEF script, S
  <2>8. /\ start \in 0 .. past - 1 /\ here \in 0 .. past - 1 /\ 0 \in 0 .. next - 1
        /\ depth + 1 \in Nat /\ 0 \in Nat
    BY <1>1, <2>3, <2>4
  <2>9. ASSUME NEW d2 \in Nat, script = from[<<past, start, d2>>] PROVE IsOrdered(s, script, i, start)
    <3>1. IsOrdered(s, script, past, start)
      BY <2>3, <2>7, <2>8, <2>9
    <3> QED BY <2>1, <2>3, <3>1, OrderedEarlier
  <2>10. ASSUME NEW d2 \in Nat, script = from[<<past, here, d2>>] PROVE IsOrdered(s, script, i, start)
    <3>1. IsOrdered(s, script, past, here)
      BY <2>3, <2>7, <2>8, <2>10
    <3>2. here = start \/ (start = 0 /\ here \in {0, i})
      BY <2>4
    <3> QED BY <2>1, <2>3, <3>1, <3>2, OrderedEarlier
  <2>11. CASE way = "unclosed" /\ script = Script({}, {}, FALSE)
    <3>1. script.metas = {} /\ script.statements = {} /\ ~script.complete
      BY <2>11 DEF Script
    <3> QED BY <3>1 DEF IsOrdered, MetasFrom, StatementsFrom, BegunIsIn
  <2>12. CASE way = "meta" /\ script = WithMeta(from[<<past, start, depth>>], Span(i, past))
    <3> DEFINE rest == from[<<past, start, depth>>]
               m == Span(i, past)
    <3>1. IsOrdered(s, rest, past, start) /\ rest \in Scripts
      BY <2>3, <2>7, <2>8
    <3> HIDE DEF rest
    <3>2. /\ script.metas = rest.metas \cup {m} /\ script.statements = rest.statements
          /\ script.complete = rest.complete
      BY <2>12, <3>1 DEF WithMeta, Scripts, rest
    <3>3. m.from = i /\ m.to = past
      BY DEF Span
    <3> HIDE DEF m
    <3>4. past <= Len(s) => s[past] = "nl"
      <4>1. ScriptPiece(s, i) = Whole("meta", Find(s, i, <<"nl">>) - i)
        BY <2>1, <2>5, <2>12, WayIs, Zenon
      <4> QED BY <2>1, <2>2, <2>3, <4>1, MetaEnds DEF GoesOn
    <3>5. IsOrdered(s, rest, i, start)
      BY <2>1, <2>3, <3>1, OrderedEarlier
    <3>6. MetasFrom(s, {m}, i)
      BY <1>1, <2>1, <2>3, <3>3, <3>4 DEF MetasFrom
    <3>7. MetasFrom(s, script.metas, i)
      BY <3>2, <3>5, <3>6 DEF IsOrdered, MetasFrom
    <3> QED BY <3>2, <3>5, <3>7 DEF IsOrdered, BegunIsIn
  <2>13. CASE way = "end" /\ script = WithStatement(from[<<next, 0, 0>>], Span(here, past))
    <3> DEFINE rest == from[<<next, 0, 0>>]
               st == Span(here, past)
    <3>1. IsOrdered(s, rest, next, 0) /\ rest \in Scripts
      BY <2>3, <2>7, <2>8
    <3> HIDE DEF rest
    <3>2. /\ script.metas = rest.metas /\ script.statements = rest.statements \cup {st}
          /\ script.complete = rest.complete
      BY <2>13, <3>1 DEF WithStatement, Scripts, rest
    <3>3. st.from = here /\ st.to = past
      BY DEF Span
    <3> HIDE DEF st
    <3>4. past = i + 1 /\ EndsStatement(s[i])
      <4>1. EndsStatement(s[i]) /\ ScriptPiece(s, i).take = 1
        BY <2>1, <2>5, <2>13, EndIs
      <4> QED BY <2>2, <2>13, <4>1 DEF GoesOn
    <3>5. IsOrdered(s, rest, i, 0)
      BY <2>1, <2>3, <3>1, OrderedEarlier
    <3>6. StatementsFrom(s, {st}, i, start)
      <4>1. i <= past /\ past - 1 = i
        <5>1. i \in Nat
          OBVIOUS
        <5>2. past = i + 1
          BY <3>4
        <5> HIDE DEF n
        <5> QED BY <5>1, <5>2
      <4>2. here \in i .. Len(s) \/ (start # 0 /\ here = start)
        BY <2>1, <2>4
      <4>3. past \in here + 1 .. Len(s) + 1
        BY <1>1, <2>3, <2>4
      <4> QED BY <3>3, <3>4, <4>1, <4>2, <4>3 DEF StatementsFrom
    <3>7. StatementsFrom(s, script.statements, i, start)
      BY <3>2, <3>5, <3>6 DEF IsOrdered, StatementsFrom
    <3>8. BegunIsIn(script, start)
      BY <2>4, <3>2, <3>3 DEF BegunIsIn
    <3> QED BY <3>2, <3>5, <3>7, <3>8 DEF IsOrdered
  <2> QED BY <2>3, <2>6, <2>8, <2>9, <2>10, <2>11, <2>12, <2>13 DEF Goes
<1>4. \A i \in 1 .. n + 1 : i \in S
  <2> HIDE DEF S, n
  <2>1. n + 1 \in Nat
    BY <1>1
  <2> QED BY <1>2, <1>3, <2>1, DownTheText
<1> QED BY <1>4

-----------------------------------------------------------------------------
(* What is read of the text sent *)

Covered(spans, j) == \E x \in spans : x.from <= j /\ j < x.to

LEMMA BlankedIs ==
    ASSUME NEW s \in Texts, NEW spans, NEW t, t = Blanked(s, spans)
    PROVE  /\ Dimmed(s, t)
           /\ \A j \in 1 .. Len(s) : Covered(spans, j) => t[j] \in Blanks
           /\ \A j \in 1 .. Len(s) : ~Covered(spans, j) => t[j] = s[j]
<1> DEFINE n == Len(s)
<1>1. n \in Nat /\ s \in Seq(Symbols) /\ DOMAIN s = 1 .. n /\ \A j \in 1 .. n : s[j] \in Symbols
  BY DEF Texts
<1>2. t = [j \in 1 .. n |-> IF s[j] # "nl" /\ Covered(spans, j) THEN "sp" ELSE s[j]]
  BY <1>1 DEF Blanked, Covered
<1>3. "sp" \in Symbols
  BY DEF Symbols
<1>4. \A j \in 1 .. n : t[j] = IF s[j] # "nl" /\ Covered(spans, j) THEN "sp" ELSE s[j]
  BY <1>2
<1>5. t \in [1 .. n -> Symbols]
  BY <1>1, <1>2, <1>3, Zenon
<1>6. t \in Seq(Symbols) /\ Len(t) = n
  BY <1>1, <1>5
<1>7. Dimmed(s, t)
  BY <1>4, <1>6 DEF Dimmed, Texts
<1>8. \A j \in 1 .. n : Covered(spans, j) => t[j] \in Blanks
  BY <1>4 DEF Blanks
<1>9. \A j \in 1 .. n : ~Covered(spans, j) => t[j] = s[j]
  BY <1>4
<1> QED BY <1>7, <1>8, <1>9

\* No span ends inside a name: each stops past a semicolon, or before the end of its line.
SpansEnd(s, spans) ==
    \A x \in spans : /\ x.from \in Nat /\ x.to \in Nat
                     /\ x.to <= Len(s) => s[x.to] = "nl" \/ EndsStatement(s[x.to - 1])

LEMMA NotInName ==
    ASSUME NEW symbol, EndsStatement(symbol) \/ symbol = "sp"
    PROVE  ~IdentChar(symbol) /\ symbol \notin Letters \cup {"e", "$"} \cup Numbers /\ symbol # "e"
<1>1. ASSUME symbol = ";" PROVE ~IdentChar(symbol) /\ symbol \notin Letters \cup {"e", "$"} \cup Numbers
  BY <1>1, Zenon DEF IdentChar, Identifier, Marks, Letters, Numbers
<1>2. ASSUME symbol = "sp" PROVE ~IdentChar(symbol) /\ symbol \notin Letters \cup {"e", "$"} \cup Numbers
  BY <1>2, Zenon DEF IdentChar, Identifier, Blanks, Marks, Letters, Numbers
<1> QED BY <1>1, <1>2, Zenon DEF EndsStatement

\* Where a part left as it is begins, what stands before it makes no difference.
LEMMA BehindKept ==
    ASSUME NEW s \in Texts, NEW spans, SpansEnd(s, spans), NEW t, t = Blanked(s, spans),
           NEW i \in 1 .. Len(s), ~Covered(spans, i), s[i] # "nl"
    PROVE  Behind(s, t, i)
<1>1. /\ Len(s) \in Nat
      /\ \A j \in 1 .. Len(s) : (t[j] = s[j] \/ t[j] = "sp") /\ (~Covered(spans, j) => t[j] = s[j])
  BY BlankedIs DEF Dimmed, Texts
<1>2. ASSUME NEW j \in 1 .. Len(s) - 1, Covered(spans, j), ~Covered(spans, j + 1)
      PROVE  s[j + 1] = "nl" \/ EndsStatement(s[j])
  <2>1. PICK x \in spans : x.from <= j /\ j < x.to
    BY <1>2 DEF Covered
  <2>2. ~(x.from <= j + 1 /\ j + 1 < x.to)
    BY <1>2 DEF Covered
  <2>3. /\ x.from \in Nat /\ x.to \in Nat
        /\ x.to <= Len(s) => s[x.to] = "nl" \/ EndsStatement(s[x.to - 1])
    BY DEF SpansEnd
  <2> DEFINE b == x.to
  <2>4. b = j + 1
    <3> DEFINE a == x.from
    <3>1. a <= j /\ j < b /\ ~(a <= j + 1 /\ j + 1 < b) /\ a \in Nat /\ b \in Nat
      BY <2>1, <2>2, <2>3
    <3> HIDE DEF a, b
    <3> QED BY <1>1, <3>1
  <2>5. b <= Len(s) => s[b] = "nl" \/ EndsStatement(s[b - 1])
    BY <2>3
  <2> HIDE DEF b
  <2>6. b <= Len(s) /\ b - 1 = j
    BY <1>1, <2>4
  <2> QED BY <2>4, <2>5, <2>6
<1>3. CASE i = 1
  <2>1. ~(i > 1)
    BY <1>3
  <2> QED BY <2>1 DEF Behind, IsEscapeString
<1>4. CASE i > 1 /\ Covered(spans, i - 1)
  <2>1. i - 1 \in 1 .. Len(s) - 1 /\ (i - 1) + 1 = i /\ i - 1 \in 1 .. Len(s)
    BY <1>1, <1>4
  <2>2. EndsStatement(s[i - 1])
    BY <1>2, <1>4, <2>1
  <2>3. t[i - 1] = s[i - 1] \/ t[i - 1] = "sp"
    BY <1>1, <2>1
  <2>4. ~IdentChar(s[i - 1]) /\ s[i - 1] # "e"
    BY <2>2, NotInName, Zenon
  <2>5. ~IdentChar(t[i - 1]) /\ t[i - 1] # "e"
    BY <2>2, <2>3, NotInName, Zenon
  <2> QED BY <2>4, <2>5, Zenon DEF Behind, IsEscapeString
<1>5. CASE i > 1 /\ ~Covered(spans, i - 1)
  <2>1. t[i - 1] = s[i - 1]
    BY <1>1, <1>5
  <2>2. IsEscapeString(t, i) <=> IsEscapeString(s, i)
    <3>1. CASE i = 2 \/ s[i - 1] # "e"
      BY <2>1, <3>1, Zenon DEF IsEscapeString
    <3>2. CASE i # 2 /\ s[i - 1] = "e" /\ ~Covered(spans, i - 2)
      <4>1. t[i - 2] = s[i - 2]
        BY <1>1, <1>5, <3>2
      <4> QED BY <2>1, <4>1, Zenon DEF IsEscapeString
    <3>3. CASE i # 2 /\ s[i - 1] = "e" /\ Covered(spans, i - 2)
      <4>1. i - 2 \in 1 .. Len(s) - 1 /\ (i - 2) + 1 = i - 1 /\ i - 2 \in 1 .. Len(s)
        BY <1>1, <1>5, <3>3
      <4>2. EndsStatement(s[i - 2])
        BY <1>2, <1>5, <3>3, <4>1
      <4>3. t[i - 2] = s[i - 2] \/ t[i - 2] = "sp"
        BY <1>1, <4>1
      <4>4. s[i - 2] \notin Letters \cup {"e", "$"} \cup Numbers /\ t[i - 2] \notin Letters \cup {"e", "$"} \cup Numbers
        BY <4>2, <4>3, NotInName, Zenon
      <4> QED BY <2>1, <4>4, Zenon DEF IsEscapeString
    <3> QED BY <3>1, <3>2, <3>3
  <2> QED BY <2>1, <2>2, Zenon DEF Behind
<1> QED BY <1>3, <1>4, <1>5

\* A piece none of which is blanked is read as it was.
LEMMA PieceRead ==
    ASSUME NEW s \in Texts, NEW spans, SpansEnd(s, spans), NEW t, t = Blanked(s, spans),
           NEW i \in 1 .. Len(s), NEW past, past = i + ScriptPiece(s, i).take,
           ScriptPiece(s, i).closed, \A j \in i .. past - 1 : ~Covered(spans, j)
    PROVE  /\ ScriptPiece(t, i) = ScriptPiece(s, i) /\ t[i] = s[i]
           /\ Same(s, t, i, past)
<1>1. /\ Len(s) \in Nat /\ Dimmed(s, t) /\ t \in Texts /\ Len(t) = Len(s)
      /\ \A j \in 1 .. Len(s) : ~Covered(spans, j) => t[j] = s[j]
  BY BlankedIs DEF Dimmed, Texts
<1>2. ScriptPiece(s, i).take \in Nat \ {0} /\ i + ScriptPiece(s, i).take <= Len(s) + 1
  BY ScriptPieceIs DEF ScriptPieceType
<1>3. past \in i + 1 .. Len(s) + 1
  <2> DEFINE take == ScriptPiece(s, i).take
  <2>1. take \in Nat \ {0} /\ past = i + take /\ i + take <= Len(s) + 1
    BY <1>2
  <2> HIDE DEF take
  <2> QED BY <1>1, <2>1
<1>4. Same(s, t, i, past)
  <2> SUFFICES ASSUME NEW j \in i .. past - 1 PROVE t[j] = s[j]
    BY DEF Same
  <2>1. j \in 1 .. Len(s)
    BY <1>1, <1>3
  <2> QED BY <1>1, <2>1
<1>5. t[i] = s[i] /\ ~Covered(spans, i)
  <2>1. i \in i .. past - 1
    BY <1>1, <1>3
  <2> QED BY <1>4, <2>1 DEF Same
<1>6. CASE s[i] = "nl"
  <2>1. s[i] \in Blanks /\ t[i] \in Blanks /\ i \in 1 .. Len(t)
    BY <1>1, <1>5, <1>6 DEF Blanks
  <2>2. ScriptPiece(s, i) = Whole("code", 1) /\ ScriptPiece(t, i) = Whole("code", 1)
    BY <1>1, <2>1, ScriptPieceCases, Zenon
  <2> QED BY <1>4, <1>5, <2>2
<1>7. CASE s[i] # "nl"
  <2>1. Behind(s, t, i)
    BY <1>5, <1>7, BehindKept
  <2>2. Same(s, t, i, i + ScriptPiece(s, i).take)
    BY <1>4
  <2> QED BY <1>1, <1>4, <1>5, <2>1, <2>2, PieceKept
<1> QED BY <1>6, <1>7

\* Between statements, blanks are skipped.
LEMMA BlanksSkipped ==
    ASSUME NEW t \in Texts, NEW g, IsScriptTable(t, g), NEW b \in 1 .. Len(t) + 1,
           NEW a \in 1 .. b, \A j \in a .. b - 1 : t[j] \in Blanks
    PROVE  g[<<a, 0, 0>>] = g[<<b, 0, 0>>]
<1> DEFINE S == {k \in 1 .. b : k < a \/ g[<<k, 0, 0>>] = g[<<b, 0, 0>>]}
<1>1. Len(t) \in Nat /\ b \in Nat /\ b \in S
  BY DEF Texts
<1>2. \A k \in 1 .. b - 1 : (\A j \in k + 1 .. b : j \in S) => k \in S
  <2> TAKE k \in 1 .. b - 1
  <2> HAVE \A j \in k + 1 .. b : j \in S
  <2> SUFFICES ASSUME ~(k < a) PROVE g[<<k, 0, 0>>] = g[<<b, 0, 0>>]
    BY <1>1
  <2>1. k \in 1 .. Len(t) /\ t[k] \in Blanks /\ k + 1 \in S /\ ~(k + 1 < a)
    BY <1>1
  <2>2. ScriptPiece(t, k) = Whole("code", 1)
    BY <2>1, ScriptPieceCases, Zenon
  <2>3. Whole("code", 1).closed /\ Whole("code", 1).take = 1
    BY DEF Whole
  <2>4. Way(ScriptPiece(t, k), t[k], 0) = "skip"
    <3>1. ScriptPiece(t, k).closed
      BY <2>2, <2>3
    <3>2. ScriptPiece(t, k).kind = "code"
      BY <2>2 DEF Whole
    <3>3. t[k] \notin {"(", ")", ";"}
      BY <2>1, Zenon DEF Blanks
    <3>4. Way(ScriptPiece(t, k), t[k], 0) = "skip"
      <4> DEFINE piece == ScriptPiece(t, k)
                 a1 == piece.kind = "comment" \/ t[k] \in Blanks
                 a2 == piece.kind = "meta"
                 a3 == piece.kind = "code" /\ t[k] = "("
                 a4 == piece.kind = "code" /\ t[k] = ")"
                 a5 == piece.kind = "code" /\ t[k] = ";" /\ 0 = 0
      <4>1. a1 /\ ~a2 /\ ~a3 /\ ~a4 /\ ~a5
        BY <2>1, <3>2, <3>3, Zenon
      <4>2. Way(piece, t[k], 0) =
                IF ~piece.closed THEN "unclosed"
                ELSE CASE a1 -> "skip" [] a2 -> "meta" [] a3 -> "open" [] a4 -> "close" [] a5 -> "end" [] OTHER -> "on"
        BY Zenon DEF Way
      <4> HIDE DEF a1, a2, a3, a4, a5
      <4> QED BY <3>1, <4>1, <4>2
    <3> QED BY <3>4
  <2>5. k + 1 = k + ScriptPiece(t, k).take
    BY <2>2, <2>3
  <2>6. PICK here, next : GoesOn(t, k, 0, k + 1, here, next)
    BY <2>5 DEF GoesOn
  <2>7. Goes("skip", g[<<k, 0, 0>>], g, k, 0, 0, k + 1, here, next)
    BY <2>1, <2>4, <2>6, TableGoes
  <2>8. g[<<k, 0, 0>>] = g[<<k + 1, 0, 0>>]
    BY <2>7 DEF Goes
  <2> QED BY <2>1, <2>8
<1>3. \A k \in 1 .. b : k \in S
  <2> HIDE DEF S
  <2> QED BY <1>1, <1>2, DownTheText
<1> QED BY <1>3

LEMMA PartSame ==
    ASSUME NEW s \in Texts, NEW t \in Texts, NEW i \in Nat \ {0}, NEW j \in Nat,
           j <= Len(s), j <= Len(t), \A k \in i .. j : t[k] = s[k]
    PROVE  SubSeq(t, i, j) = SubSeq(s, i, j)
<1> DEFINE a == SubSeq(s, i, j)
           b == SubSeq(t, i, j)
<1>1. s \in Seq(Symbols) /\ t \in Seq(Symbols) /\ Len(s) \in Nat /\ Len(t) \in Nat
  BY DEF Texts
<1>2. CASE i > j
  BY <1>1, <1>2
<1>3. CASE i <= j
  <2>1. /\ a \in Seq(Symbols) /\ b \in Seq(Symbols) /\ Len(a) = j - i + 1 /\ Len(b) = j - i + 1
        /\ \A k \in 1 .. j - i + 1 : a[k] = s[i + k - 1] /\ b[k] = t[i + k - 1]
    BY <1>1, <1>3
  <2>2. \A k \in 1 .. j - i + 1 : t[i + k - 1] = s[i + k - 1]
    <3> TAKE k \in 1 .. j - i + 1
    <3>1. i + k - 1 \in i .. j
      BY <1>3
    <3> QED BY <3>1
  <2> HIDE DEF a, b
  <2>3. a = b
    BY <2>1, <2>2
  <2> QED BY <2>3 DEF a, b
<1> QED BY <1>2, <1>3

\* t is sent for s, of which parse_script makes whole; f and g are what it makes of both from
\* each place on.
Sends(s, t, f, g, whole, spans) ==
    /\ s \in Texts /\ IsScriptTable(s, f) /\ whole = f[<<1, 0, 0>>] /\ whole.complete
    /\ \A meta \in whole.metas, st \in whole.statements :
            ~(st.from < meta.from /\ meta.from < st.to)
    /\ spans = Neutralised(s, whole)
    /\ t = Blanked(s, spans) /\ t \in Texts /\ Len(t) = Len(s) /\ IsScriptTable(t, g)

\* script, made of the text from i on, is what whole has from there on.
ToCome(whole, script, i) ==
    /\ script.complete
    /\ script.statements \subseteq whole.statements /\ script.metas \subseteq whole.metas
    /\ \A x \in whole.statements : x.to <= i \/ x \in script.statements
    /\ \A x \in whole.metas : x.to <= i \/ x \in script.metas

\* The statement begun at start is one that is blanked.
Gone(script, start, spans) ==
    start # 0 /\ \E x \in script.statements : x.from = start /\ x \in spans

\* left has the statements of script that are not blanked, and their texts.
Leaves(s, t, script, left, spans) ==
    /\ left = Script(script.statements \ spans, {}, TRUE)
    /\ \A x \in script.statements \ spans : SpanText(t, x) = SpanText(s, x)

\* Read from i on, with a statement begun at start, the text sent has what is left of s.
ReadsOn(s, t, f, g, whole, spans, i, start, depth) ==
    LET script == f[<<i, start, depth>>]
    IN  /\ start = 0 => depth = 0
        /\ ToCome(whole, script, i)
        /\ start # 0 /\ ~Gone(script, start, spans) => Same(s, t, start, i)
        => /\ Gone(script, start, spans) => Leaves(s, t, script, g[<<i, 0, 0>>], spans)
           /\ ~Gone(script, start, spans) => Leaves(s, t, script, g[<<i, start, depth>>], spans)

LEMMA SpansAreOrdered ==
    ASSUME NEW s, NEW t, NEW f, NEW g, NEW whole, NEW spans, Sends(s, t, f, g, whole, spans)
    PROVE  SpansEnd(s, spans) /\ whole \in Scripts
<1>1. /\ s \in Texts /\ IsScriptTable(s, f) /\ Len(s) \in Nat /\ whole = f[<<1, 0, 0>>]
      /\ spans \subseteq whole.metas \cup whole.statements
  BY DEF Sends, Neutralised, Texts
<1>2. IsOrdered(s, whole, 1, 0)
  <2>1. 1 \in 1 .. Len(s) + 1 /\ 0 \in Nat /\ 0 \in 0 .. 1 - 1
    BY <1>1
  <2> QED BY <1>1, <2>1, ScriptIsOrdered
<1>3. whole \in Scripts
  <2>1. 1 \in 1 .. Len(s) + 1 /\ 0 \in Nat
    BY <1>1
  <2> QED BY <1>1, <2>1 DEF IsScriptTable
<1>4. SpansEnd(s, spans)
  <2> SUFFICES ASSUME NEW x \in spans
               PROVE  /\ x.from \in Nat /\ x.to \in Nat
                      /\ x.to <= Len(s) => s[x.to] = "nl" \/ EndsStatement(s[x.to - 1])
    BY DEF SpansEnd
  <2>1. x.from \in Nat /\ x.to \in Nat
    BY <1>1, <1>3 DEF Scripts, Spans
  <2>2. CASE x \in whole.metas
    BY <1>2, <2>1, <2>2 DEF IsOrdered, MetasFrom
  <2>3. CASE x \in whole.statements
    BY <1>2, <2>1, <2>3 DEF IsOrdered, StatementsFrom
  <2> QED BY <1>1, <2>2, <2>3
<1> QED BY <1>3, <1>4

\* At the end of the text
LEMMA ReadsAtEnd ==
    ASSUME NEW s, NEW t, NEW f, NEW g, NEW whole, NEW spans, Sends(s, t, f, g, whole, spans),
           NEW start \in 0 .. Len(s), NEW depth \in Nat
    PROVE  ReadsOn(s, t, f, g, whole, spans, Len(s) + 1, start, depth)
<1> DEFINE n == Len(s)
           script == f[<<n + 1, start, depth>>]
           x == Span(start, n + 1)
<1>1. /\ s \in Texts /\ IsScriptTable(s, f) /\ n \in Nat /\ t \in Texts /\ IsScriptTable(t, g) /\ Len(t) = n
      /\ start \in Nat
  BY DEF Sends, Texts
<1>2. ASSUME NEW k \in Nat, NEW d \in Nat
      PROVE  /\ f[<<n + 1, k, d>>] = Script(IF k = 0 THEN {} ELSE {Span(k, n + 1)}, {}, TRUE)
             /\ g[<<n + 1, k, d>>] = Script(IF k = 0 THEN {} ELSE {Span(k, n + 1)}, {}, TRUE)
  <2>1. n + 1 \in 1 .. n + 1 /\ n + 1 > n
    BY <1>1
  <2>2. f[<<n + 1, k, d>>] = ScriptBody(s, f, n + 1, k, d) /\ g[<<n + 1, k, d>>] = ScriptBody(t, g, n + 1, k, d)
    BY <1>1, <2>1 DEF IsScriptTable
  <2> QED BY <1>1, <2>1, <2>2 DEF ScriptBody
<1>3. script = Script(IF start = 0 THEN {} ELSE {x}, {}, TRUE)
  BY <1>1, <1>2
<1>4. x.from = start /\ SpanText(s, x) = SubSeq(s, start, (n + 1) - 1) /\ SpanText(t, x) = SubSeq(t, start, (n + 1) - 1)
  BY DEF Span, SpanText
<1>5. g[<<n + 1, 0, 0>>] = Script({}, {}, TRUE) /\ g[<<n + 1, start, depth>>] = Script(IF start = 0 THEN {} ELSE {x}, {}, TRUE)
  BY <1>1, <1>2
<1> SUFFICES ASSUME start # 0 /\ ~Gone(script, start, spans) => Same(s, t, start, n + 1)
             PROVE  /\ Gone(script, start, spans) => Leaves(s, t, script, g[<<n + 1, 0, 0>>], spans)
                    /\ ~Gone(script, start, spans) => Leaves(s, t, script, g[<<n + 1, start, depth>>], spans)
  BY DEF ReadsOn
<1> HIDE DEF x, script
<1>6. script.statements = IF start = 0 THEN {} ELSE {x}
  BY <1>3 DEF Script
<1>7. CASE start = 0
  <2>1. ~Gone(script, start, spans) /\ script.statements = {}
    BY <1>6, <1>7 DEF Gone
  <2>2. g[<<n + 1, start, depth>>] = Script({}, {}, TRUE)
    BY <1>5, <1>7
  <2> QED BY <2>1, <2>2 DEF Leaves
<1>8. CASE start # 0 /\ x \in spans
  <2>1. Gone(script, start, spans) /\ script.statements \ spans = {}
    BY <1>4, <1>6, <1>8 DEF Gone
  <2> QED BY <1>5, <2>1 DEF Leaves
<1>9. CASE start # 0 /\ x \notin spans
  <2>1. ~Gone(script, start, spans) /\ script.statements \ spans = {x} /\ g[<<n + 1, start, depth>>] = Script({x}, {}, TRUE)
    BY <1>5, <1>6, <1>9 DEF Gone
  <2>2. SpanText(t, x) = SpanText(s, x)
    <3>1. Same(s, t, start, n + 1)
      BY <1>9, <2>1
    <3>2. SubSeq(t, start, n) = SubSeq(s, start, n)
      <4>1. \A j \in start .. n : t[j] = s[j]
        <5>1. (n + 1) - 1 = n
          BY <1>1
        <5> QED BY <3>1, <5>1 DEF Same
      <4> QED BY <1>1, <1>9, <4>1, PartSame
    <3>3. (n + 1) - 1 = n
      BY <1>1
    <3> QED BY <1>4, <3>2, <3>3
  <2> QED BY <2>1, <2>2 DEF Leaves
<1> QED BY <1>7, <1>8, <1>9

\* What has its spans from k on, but for those not blanked, leaves the text from i to k as it is.
LEMMA Untouched ==
    ASSUME NEW s, NEW t, NEW f, NEW g, NEW whole, NEW spans, Sends(s, t, f, g, whole, spans),
           NEW i \in 1 .. Len(s), NEW k \in i .. Len(s) + 1, NEW script, ToCome(whole, script, i),
           \A x \in script.metas \cup script.statements : x \in spans => k <= x.from
    PROVE  \A j \in i .. k - 1 : ~Covered(spans, j)
<1>1. Len(s) \in Nat /\ spans \subseteq whole.metas \cup whole.statements /\ SpansEnd(s, spans)
  BY SpansAreOrdered DEF Sends, Neutralised, Texts
<1>2. SUFFICES ASSUME NEW j \in i .. k - 1, NEW x \in spans, x.from <= j, j < x.to PROVE FALSE
  BY DEF Covered
<1>3. x.from \in Nat /\ x.to \in Nat
  BY <1>1 DEF SpansEnd
<1>4. x.to <= i \/ x \in script.metas \cup script.statements
  BY <1>1 DEF ToCome
<1> DEFINE a == x.from
           b == x.to
<1>5. a \in Nat /\ b \in Nat /\ a <= j /\ j < b /\ (b <= i \/ k <= a) /\ j \in Nat /\ k \in Nat
  BY <1>1, <1>2, <1>3, <1>4
<1> HIDE DEF a, b
<1> QED BY <1>1, <1>2, <1>5

\* What is blanked is skipped between statements.
LEMMA Skipped ==
    ASSUME NEW s, NEW t, NEW f, NEW g, NEW whole, NEW spans, Sends(s, t, f, g, whole, spans),
           NEW i \in 1 .. Len(s), NEW k \in i .. Len(s) + 1, NEW x \in spans, x.from <= i, k <= x.to
    PROVE  g[<<i, 0, 0>>] = g[<<k, 0, 0>>]
<1>1. /\ s \in Texts /\ Len(s) \in Nat /\ t \in Texts /\ Len(t) = Len(s) /\ IsScriptTable(t, g)
      /\ SpansEnd(s, spans) /\ t = Blanked(s, spans)
  <2>1. SpansEnd(s, spans)
    BY SpansAreOrdered
  <2> QED BY <2>1 DEF Sends, Texts
<1>2. \A j \in i .. k - 1 : t[j] \in Blanks
  <2> TAKE j \in i .. k - 1
  <2>1. x.from \in Nat /\ x.to \in Nat
    BY <1>1 DEF SpansEnd
  <2>2. j \in 1 .. Len(s)
    BY <1>1
  <2>3. Covered(spans, j)
    <3> DEFINE a == x.from
               b == x.to
    <3>1. a \in Nat /\ b \in Nat /\ a <= i /\ k <= b /\ k \in Nat
      BY <1>1, <2>1
    <3>2. a <= j /\ j < b
      <4> HIDE DEF a, b
      <4> QED BY <3>1
    <3> QED BY <3>2 DEF Covered
  <2> QED BY <1>1, <2>2, <2>3, BlankedIs
<1>3. k \in 1 .. Len(t) + 1 /\ i \in 1 .. k
  BY <1>1
<1> QED BY <1>1, <1>2, <1>3, BlanksSkipped

\* A piece read, with the statement at hand begun at b from then on (0: none)
LEMMA ReadsPiece ==
    ASSUME NEW s, NEW t, NEW f, NEW g, NEW whole, NEW spans, Sends(s, t, f, g, whole, spans),
           NEW i \in 1 .. Len(s), NEW past \in i + 1 .. Len(s) + 1,
           NEW start \in 0 .. i - 1, NEW depth \in Nat, NEW b \in 0 .. i, NEW d \in Nat,
           b = start \/ (start = 0 /\ b = i), b = 0 => d = depth,
           f[<<i, start, depth>>] = f[<<past, b, d>>],
           (\A j \in i .. past - 1 : ~Covered(spans, j)) =>
                Same(s, t, i, past) /\ g[<<i, start, depth>>] = g[<<past, b, d>>],
           ReadsOn(s, t, f, g, whole, spans, past, b, d)
    PROVE  ReadsOn(s, t, f, g, whole, spans, i, start, depth)
<1> DEFINE script == f[<<i, start, depth>>]
<1>1. /\ s \in Texts /\ IsScriptTable(s, f) /\ Len(s) \in Nat /\ whole \in Scripts
      /\ spans \subseteq whole.metas \cup whole.statements
  BY SpansAreOrdered DEF Sends, Neutralised, Texts
<1>2. IsOrdered(s, script, past, b)
  <2>1. past \in 1 .. Len(s) + 1 /\ b \in 0 .. past - 1
    BY <1>1
  <2> QED BY <1>1, <2>1, ScriptIsOrdered
<1>3. /\ b = 0 => d = 0
      /\ ToCome(whole, script, past)
      /\ b # 0 /\ ~Gone(script, b, spans) => Same(s, t, b, past)
      => /\ Gone(script, b, spans) => Leaves(s, t, script, g[<<past, 0, 0>>], spans)
         /\ ~Gone(script, b, spans) => Leaves(s, t, script, g[<<past, b, d>>], spans)
  BY DEF ReadsOn
<1> SUFFICES ASSUME start = 0 => depth = 0, ToCome(whole, script, i),
                    start # 0 /\ ~Gone(script, start, spans) => Same(s, t, start, i)
             PROVE  /\ Gone(script, start, spans) => Leaves(s, t, script, g[<<i, 0, 0>>], spans)
                    /\ ~Gone(script, start, spans) => Leaves(s, t, script, g[<<i, start, depth>>], spans)
  BY DEF ReadsOn
<1> HIDE DEF script
<1>4. b = 0 => d = 0
  OBVIOUS
<1>5. ToCome(whole, script, past)
  <2>1. \A x \in whole.statements \cup whole.metas : x.to <= i => x.to <= past
    <3> TAKE x \in whole.statements \cup whole.metas
    <3> DEFINE c == x.to
    <3>1. c \in Nat
      BY <1>1 DEF Scripts, Spans
    <3> HIDE DEF c
    <3>2. c <= i => c <= past
      BY <1>1, <3>1
    <3> QED BY <3>2 DEF c
  <2> QED BY <2>1 DEF ToCome
<1>6. CASE Gone(script, b, spans)
  <2>1. PICK x \in script.statements : x.from = b /\ x \in spans
    BY <1>6 DEF Gone
  <2>2. x.from <= i /\ past <= x.to
    BY <1>2, <2>1 DEF IsOrdered, StatementsFrom
  <2>3. g[<<i, 0, 0>>] = g[<<past, 0, 0>>]
    <3>1. past \in i .. Len(s) + 1
      BY <1>1
    <3> QED BY <2>1, <2>2, <3>1, Skipped
  <2>4. Leaves(s, t, script, g[<<i, 0, 0>>], spans)
    BY <1>3, <1>4, <1>5, <1>6, <2>3
  <2>5. start = b \/ (start = 0 /\ depth = 0)
    OBVIOUS
  <2> QED BY <1>6, <2>4, <2>5
<1>7. CASE ~Gone(script, b, spans)
  <2>1. \A j \in i .. past - 1 : ~Covered(spans, j)
    <3>1. \A x \in script.metas \cup script.statements : x \in spans => past <= x.from
      <4> SUFFICES ASSUME NEW x \in script.metas \cup script.statements, x \in spans PROVE past <= x.from
        OBVIOUS
      <4> DEFINE a == x.from
      <4>1. a \in past .. Len(s) \/ (x \in script.statements /\ b # 0 /\ a = b)
        BY <1>2 DEF IsOrdered, MetasFrom, StatementsFrom
      <4>2. a \in past .. Len(s)
        BY <1>7, <4>1 DEF Gone
      <4> HIDE DEF a
      <4>3. past <= a
        BY <1>1, <4>2
      <4> QED BY <4>3 DEF a
    <3>2. past \in i .. Len(s) + 1
      BY <1>1
    <3> QED BY <3>1, <3>2, Untouched
  <2>2. Same(s, t, i, past) /\ g[<<i, start, depth>>] = g[<<past, b, d>>]
    BY <2>1
  <2>3. ~Gone(script, start, spans)
    BY <1>7 DEF Gone
  <2>4. b # 0 => Same(s, t, b, past)
    <3>1. CASE b = start
      <4> SUFFICES ASSUME b # 0, NEW j \in b .. past - 1 PROVE t[j] = s[j]
        BY DEF Same
      <4>1. j \in start .. i - 1 \/ j \in i .. past - 1
        BY <1>1, <3>1
      <4> QED BY <2>2, <2>3, <3>1, <4>1 DEF Same
    <3>2. CASE b = i
      BY <2>2, <3>2
    <3> QED BY <3>1, <3>2
  <2> QED BY <1>3, <1>4, <1>5, <1>7, <2>2, <2>3, <2>4
<1> QED BY <1>6, <1>7

\* A backslash command, which stands between statements
LEMMA ReadsMeta ==
    ASSUME NEW s, NEW t, NEW f, NEW g, NEW whole, NEW spans, Sends(s, t, f, g, whole, spans),
           NEW i \in 1 .. Len(s), NEW past \in i + 1 .. Len(s) + 1,
           NEW start \in 0 .. i - 1, NEW depth \in Nat,
           f[<<i, start, depth>>] = WithMeta(f[<<past, start, depth>>], Span(i, past)),
           ReadsOn(s, t, f, g, whole, spans, past, start, depth)
    PROVE  ReadsOn(s, t, f, g, whole, spans, i, start, depth)
<1> DEFINE script == f[<<i, start, depth>>]
           rest == f[<<past, start, depth>>]
           m == Span(i, past)
<1>1. /\ s \in Texts /\ IsScriptTable(s, f) /\ Len(s) \in Nat /\ whole \in Scripts
      /\ whole.metas \subseteq spans
      /\ \A meta \in whole.metas, st \in whole.statements : ~(st.from < meta.from /\ meta.from < st.to)
  BY SpansAreOrdered DEF Sends, Neutralised, Texts
<1>2. IsOrdered(s, rest, past, start) /\ rest \in Scripts
  <2>1. past \in 1 .. Len(s) + 1 /\ start \in 0 .. past - 1 /\ start \in Nat
    BY <1>1
  <2> QED BY <1>1, <2>1, ScriptIsOrdered DEF IsScriptTable
<1>3. /\ start = 0 => depth = 0
      /\ ToCome(whole, rest, past)
      /\ start # 0 /\ ~Gone(rest, start, spans) => Same(s, t, start, past)
      => /\ Gone(rest, start, spans) => Leaves(s, t, rest, g[<<past, 0, 0>>], spans)
         /\ ~Gone(rest, start, spans) => Leaves(s, t, rest, g[<<past, start, depth>>], spans)
  BY DEF ReadsOn
<1> SUFFICES ASSUME start = 0 => depth = 0, ToCome(whole, script, i),
                    start # 0 /\ ~Gone(script, start, spans) => Same(s, t, start, i)
             PROVE  /\ Gone(script, start, spans) => Leaves(s, t, script, g[<<i, 0, 0>>], spans)
                    /\ ~Gone(script, start, spans) => Leaves(s, t, script, g[<<i, start, depth>>], spans)
  BY DEF ReadsOn
<1>4. /\ script.metas = rest.metas \cup {m} /\ script.statements = rest.statements
      /\ script.complete = rest.complete
  <2>1. script = WithMeta(rest, m)
    OBVIOUS
  <2> HIDE DEF script, rest, m
  <2> QED BY <1>2, <2>1 DEF WithMeta, Scripts
<1>5. m.from = i /\ m.to = past
  BY DEF Span
<1> HIDE DEF script, rest, m
<1>6. m \in whole.metas /\ m \in spans
  BY <1>1, <1>4 DEF ToCome
<1>7. start = 0
  <2> SUFFICES ASSUME start # 0 PROVE FALSE
    OBVIOUS
  <2>1. PICK x \in rest.statements : x.from = start
    BY <1>2, <1>4 DEF ToCome, IsOrdered, BegunIsIn
  <2>2. past <= x.to /\ x \in whole.statements
    BY <1>2, <1>4, <2>1 DEF ToCome, IsOrdered, StatementsFrom
  <2>3. x.from < m.from
    BY <1>5, <2>1
  <2>4. m.from < x.to
    <3> DEFINE b == x.to
    <3>1. b \in Nat /\ past <= b
      BY <1>1, <2>2 DEF Scripts, Spans
    <3>2. i < b
      <4> HIDE DEF b
      <4> QED BY <1>1, <3>1
    <3> QED BY <1>5, <3>2
  <2> QED BY <1>1, <1>6, <2>2, <2>3, <2>4
<1>8. depth = 0 /\ ~Gone(script, start, spans) /\ ~Gone(rest, start, spans)
  BY <1>7 DEF Gone
<1>9. ToCome(whole, rest, past)
  <2>1. \A x \in whole.statements \cup whole.metas : x.to <= i => x.to <= past
    <3> TAKE x \in whole.statements \cup whole.metas
    <3> DEFINE c == x.to
    <3>1. c \in Nat
      BY <1>1 DEF Scripts, Spans
    <3> HIDE DEF c
    <3>2. c <= i => c <= past
      BY <1>1, <3>1
    <3> QED BY <3>2 DEF c
  <2>2. m.to <= past
    BY <1>1, <1>5
  <2> QED BY <1>4, <2>1, <2>2 DEF ToCome
<1>10. g[<<i, 0, 0>>] = g[<<past, 0, 0>>]
  <2>1. past \in i .. Len(s) + 1 /\ m.from <= i /\ past <= m.to
    BY <1>1, <1>5
  <2> QED BY <1>6, <2>1, Skipped
<1>11. Leaves(s, t, rest, g[<<i, 0, 0>>], spans)
  BY <1>3, <1>7, <1>8, <1>9, <1>10
<1>12. Leaves(s, t, script, g[<<i, 0, 0>>], spans)
  BY <1>4, <1>11 DEF Leaves
<1> QED BY <1>7, <1>8, <1>12

LEMMA OneMore ==
    ASSUME NEW kept \in SUBSET Spans, NEW st \in Spans
    PROVE  WithStatement(Script(kept, {}, TRUE), st) = Script(kept \cup {st}, {}, TRUE)
<1> DEFINE a == WithStatement(Script(kept, {}, TRUE), st)
           b == Script(kept \cup {st}, {}, TRUE)
<1>1. Script(kept, {}, TRUE) \in Scripts /\ b \in Scripts
  BY DEF Script, Scripts
<1>2. /\ a \in Scripts /\ a.metas = {} /\ a.complete = TRUE /\ a.statements = kept \cup {st}
  BY <1>1 DEF WithStatement, Scripts, Script
<1>3. b.metas = {} /\ b.complete = TRUE /\ b.statements = kept \cup {st}
  BY DEF Script
<1> HIDE DEF a, b
<1>4. a = b
  BY <1>1, <1>2, <1>3 DEF Scripts
<1> QED BY <1>4 DEF a, b

\* The semicolon that ends a statement
LEMMA ReadsEnd ==
    ASSUME NEW s, NEW t, NEW f, NEW g, NEW whole, NEW spans, Sends(s, t, f, g, whole, spans),
           NEW i \in 1 .. Len(s), NEW start \in 0 .. i - 1, NEW depth \in Nat,
           NEW past \in i + 1 .. Len(s) + 1, NEW here, NEW next \in past .. Len(s) + 1,
           GoesOn(s, i, start, past, here, next),
           Way(ScriptPiece(s, i), s[i], depth) = "end",
           f[<<i, start, depth>>] = WithStatement(f[<<next, 0, 0>>], Span(here, past)),
           ReadsOn(s, t, f, g, whole, spans, next, 0, 0)
    PROVE  ReadsOn(s, t, f, g, whole, spans, i, start, depth)
<1> DEFINE script == f[<<i, start, depth>>]
           rest == f[<<next, 0, 0>>]
           st == Span(here, past)
<1>1. /\ s \in Texts /\ IsScriptTable(s, f) /\ Len(s) \in Nat
      /\ t \in Texts /\ IsScriptTable(t, g) /\ Len(t) = Len(s) /\ t = Blanked(s, spans)
      /\ spans = Neutralised(s, whole)
  BY DEF Sends, Texts
<1>2. SpansEnd(s, spans) /\ whole \in Scripts
  BY SpansAreOrdered
<1>3. IsOrdered(s, rest, next, 0) /\ rest \in Scripts
  <2>1. next \in 1 .. Len(s) + 1 /\ 0 \in 0 .. next - 1 /\ 0 \in Nat
    BY <1>1
  <2> QED BY <1>1, <2>1, ScriptIsOrdered DEF IsScriptTable
<1>4. /\ ToCome(whole, rest, next)
      => /\ Gone(rest, 0, spans) => Leaves(s, t, rest, g[<<next, 0, 0>>], spans)
         /\ ~Gone(rest, 0, spans) => Leaves(s, t, rest, g[<<next, 0, 0>>], spans)
  BY DEF ReadsOn
<1> SUFFICES ASSUME start = 0 => depth = 0, ToCome(whole, script, i),
                    start # 0 /\ ~Gone(script, start, spans) => Same(s, t, start, i)
             PROVE  /\ Gone(script, start, spans) => Leaves(s, t, script, g[<<i, 0, 0>>], spans)
                    /\ ~Gone(script, start, spans) => Leaves(s, t, script, g[<<i, start, depth>>], spans)
  BY DEF ReadsOn
<1>5. /\ script.metas = rest.metas /\ script.statements = rest.statements \cup {st}
      /\ script.complete = rest.complete
  <2>1. script = WithStatement(rest, st)
    OBVIOUS
  <2> HIDE DEF script, rest, st
  <2> QED BY <1>3, <2>1 DEF WithStatement, Scripts
<1>6. st.from = here /\ st.to = past /\ SpanText(s, st) = SubSeq(s, here, past - 1)
      /\ SpanText(t, st) = SubSeq(t, here, past - 1)
  BY DEF Span, SpanText
<1>7. /\ past = i + ScriptPiece(s, i).take /\ here = IF start = 0 THEN i ELSE start
      /\ next = IF CopiesFromStdin(SpanText(s, st)) THEN PastCopyData(s, past) ELSE past
  BY DEF GoesOn
<1>8. depth = 0 /\ ScriptPiece(s, i).closed
  BY <1>1, EndIs
<1>9. here \in 1 .. i /\ past \in 1 .. Len(s) + 1
  BY <1>1, <1>7
<1> HIDE DEF script, rest, st
<1>10. ToCome(whole, rest, next)
  <2>1. \A x \in whole.statements \cup whole.metas : x.to <= i => x.to <= next
    <3> TAKE x \in whole.statements \cup whole.metas
    <3> DEFINE c == x.to
    <3>1. c \in Nat
      BY <1>2 DEF Scripts, Spans
    <3> HIDE DEF c
    <3>2. c <= i => c <= next
      BY <1>1, <3>1
    <3> QED BY <3>2 DEF c
  <2>2. st.to <= next
    BY <1>1, <1>6
  <2> QED BY <1>5, <2>1, <2>2 DEF ToCome
<1>11. Leaves(s, t, rest, g[<<next, 0, 0>>], spans)
  BY <1>4, <1>10
<1>12. \A x \in rest.metas \cup rest.statements : next <= x.from /\ x.from # here
  <2> TAKE x \in rest.metas \cup rest.statements
  <2> DEFINE a == x.from
  <2>1. a \in next .. Len(s)
    BY <1>3 DEF IsOrdered, MetasFrom, StatementsFrom
  <2>2. next <= a /\ a # here
    <3> HIDE DEF a
    <3> QED BY <1>1, <1>9, <2>1
  <2> QED BY <2>2
<1>13. CASE st \in spans
  <2>1. st \notin whole.metas
    <3> SUFFICES ASSUME st \in whole.metas PROVE FALSE
      OBVIOUS
    <3>1. st.to <= i \/ st \in rest.metas
      BY <1>5 DEF ToCome
    <3>2. ~(st.to <= i)
      BY <1>1, <1>6
    <3> QED BY <1>6, <1>12, <3>1, <3>2
  <2>2. IsNeutralised(SpanText(s, st))
    BY <1>1, <1>13, <2>1 DEF Neutralised
  <2>3. ~CopiesFromStdin(SpanText(s, st))
    <3>1. SpanText(s, st) \in Texts
      BY <1>1, <1>6, <1>9 DEF Texts
    <3> QED BY <2>2, <3>1, CopyStays
  <2>4. next = past
    BY <1>7, <2>3
  <2>5. g[<<i, 0, 0>>] = g[<<past, 0, 0>>]
    <3>1. past \in i .. Len(s) + 1 /\ st.from <= i /\ past <= st.to
      BY <1>1, <1>6, <1>9
    <3> QED BY <1>13, <3>1, Skipped
  <2>6. Leaves(s, t, rest, g[<<i, 0, 0>>], spans)
    BY <1>11, <2>4, <2>5
  <2>7. script.statements \ spans = rest.statements \ spans
    BY <1>5, <1>13
  <2>8. Leaves(s, t, script, g[<<i, 0, 0>>], spans)
    BY <2>6, <2>7 DEF Leaves
  <2>9. CASE start = 0
    BY <1>8, <2>8, <2>9
  <2>10. CASE start # 0
    <3>1. Gone(script, start, spans)
      BY <1>5, <1>6, <1>7, <1>13, <2>10 DEF Gone
    <3> QED BY <2>8, <3>1
  <2> QED BY <2>9, <2>10
<1>14. CASE st \notin spans
  <2>1. ~Gone(script, start, spans)
    <3> SUFFICES ASSUME start # 0, NEW x \in script.statements, x.from = start, x \in spans PROVE FALSE
      BY DEF Gone
    <3> QED BY <1>5, <1>7, <1>12, <1>14
  <2>2. \A j \in i .. next - 1 : ~Covered(spans, j)
    <3>1. \A x \in script.metas \cup script.statements : x \in spans => next <= x.from
      BY <1>5, <1>12, <1>14
    <3>2. next \in i .. Len(s) + 1
      BY <1>1
    <3> QED BY <3>1, <3>2, Untouched
  <2>3. /\ ScriptPiece(t, i) = ScriptPiece(s, i) /\ t[i] = s[i] /\ Same(s, t, i, past)
    <3>1. \A j \in i .. past - 1 : ~Covered(spans, j)
      BY <1>1, <2>2
    <3> QED BY <1>1, <1>2, <1>7, <1>8, <3>1, PieceRead
  <2>4. Same(s, t, past, next)
    <3> SUFFICES ASSUME NEW j \in past .. next - 1 PROVE t[j] = s[j]
      BY DEF Same
    <3>1. j \in i .. next - 1 /\ j \in 1 .. Len(s)
      BY <1>1
    <3> QED BY <1>1, <2>2, <3>1, BlankedIs
  <2>5. SpanText(t, st) = SpanText(s, st)
    <3>1. \A j \in here .. past - 1 : t[j] = s[j]
      <4> TAKE j \in here .. past - 1
      <4>1. CASE start = 0
        BY <1>7, <2>3, <4>1 DEF Same
      <4>2. CASE start # 0
        <5>1. Same(s, t, start, i) /\ here = start
          BY <1>7, <2>1, <4>2
        <5>2. j \in start .. i - 1 \/ j \in i .. past - 1
          BY <1>1, <5>1
        <5> QED BY <2>3, <5>1, <5>2 DEF Same
      <4> QED BY <4>1, <4>2
    <3>2. here \in Nat \ {0} /\ past - 1 \in Nat /\ past - 1 <= Len(s)
      BY <1>1, <1>9
    <3>3. SubSeq(t, here, past - 1) = SubSeq(s, here, past - 1)
      BY <1>1, <3>1, <3>2, PartSame
    <3> QED BY <1>6, <3>3
  <2>6. GoesOn(t, i, start, past, here, next)
    <3>1. CASE CopiesFromStdin(SpanText(s, st))
      <4>1. next = PastCopyData(s, past)
        BY <1>7, <3>1
      <4>2. PastCopyData(t, past) = next
        <5>1. Dimmed(s, t)
          BY <1>1, BlankedIs
        <5> QED BY <1>1, <1>9, <2>4, <4>1, <5>1, CopyDataKept
      <4> QED BY <1>7, <2>3, <2>5, <3>1, <4>2 DEF GoesOn, st
    <3>2. CASE ~CopiesFromStdin(SpanText(s, st))
      BY <1>7, <2>3, <2>5, <3>2 DEF GoesOn, st
    <3> QED BY <3>1, <3>2
  <2>7. g[<<i, start, depth>>] = WithStatement(g[<<next, 0, 0>>], st)
    <3>1. Way(ScriptPiece(t, i), t[i], depth) = "end"
      BY <2>3
    <3>2. i \in 1 .. Len(t) /\ start \in Nat
      BY <1>1
    <3>3. Goes("end", g[<<i, start, depth>>], g, i, start, depth, past, here, next)
      BY <1>1, <2>6, <3>1, <3>2, TableGoes
    <3> QED BY <3>3 DEF Goes, st
  <2>8. g[<<i, start, depth>>] = Script(script.statements \ spans, {}, TRUE)
    <3> DEFINE left == g[<<next, 0, 0>>]
    <3>1. left = Script(rest.statements \ spans, {}, TRUE)
      BY <1>11 DEF Leaves
    <3>2. (rest.statements \ spans) \cup {st} = script.statements \ spans
      BY <1>5, <1>14
    <3>3. WithStatement(left, st) = Script((rest.statements \ spans) \cup {st}, {}, TRUE)
      <4>1. st \in Spans
        BY <1>1, <1>9 DEF st, Span, Spans
      <4>2. rest.statements \ spans \in SUBSET Spans
        BY <1>3 DEF Scripts
      <4> HIDE DEF left
      <4> QED BY <3>1, <4>1, <4>2, OneMore
    <3> QED BY <2>7, <3>2, <3>3
  <2>9. \A x \in script.statements \ spans : SpanText(t, x) = SpanText(s, x)
    BY <1>5, <1>11, <2>5 DEF Leaves
  <2> QED BY <2>1, <2>8, <2>9 DEF Leaves
<1> QED BY <1>13, <1>14

\* From every place on
LEMMA ReadsOnEverywhere ==
    ASSUME NEW s, NEW t, NEW f, NEW g, NEW whole, NEW spans, Sends(s, t, f, g, whole, spans)
    PROVE  \A i \in 1 .. Len(s) + 1 : \A start \in 0 .. i - 1, depth \in Nat :
                ReadsOn(s, t, f, g, whole, spans, i, start, depth)
<1> DEFINE n == Len(s)
           S == {i \in 1 .. n + 1 : \A start \in 0 .. i - 1, depth \in Nat :
                                        ReadsOn(s, t, f, g, whole, spans, i, start, depth)}
<1>1. /\ s \in Texts /\ IsScriptTable(s, f) /\ n \in Nat
      /\ t \in Texts /\ IsScriptTable(t, g) /\ Len(t) = n /\ t = Blanked(s, spans)
  BY DEF Sends, Texts
<1>2. SpansEnd(s, spans)
  BY SpansAreOrdered
<1>3. n + 1 \in S
  <2>1. n + 1 \in 1 .. n + 1 /\ (n + 1) - 1 = n
    BY <1>1
  <2>2. \A start \in 0 .. n, depth \in Nat : ReadsOn(s, t, f, g, whole, spans, n + 1, start, depth)
    BY ReadsAtEnd
  <2> QED BY <2>1, <2>2
<1>4. \A i \in 1 .. (n + 1) - 1 : (\A j \in i + 1 .. n + 1 : j \in S) => i \in S
  <2> TAKE i \in 1 .. (n + 1) - 1
  <2> HAVE \A j \in i + 1 .. n + 1 : j \in S
  <2>1. i \in 1 .. Len(s) /\ i \in 1 .. n + 1
    BY <1>1
  <2> SUFFICES ASSUME NEW start \in 0 .. i - 1, NEW depth \in Nat
               PROVE  ReadsOn(s, t, f, g, whole, spans, i, start, depth)
    BY <2>1
  <2>2. ASSUME NEW k \in i + 1 .. n + 1, NEW b \in 0 .. k - 1, NEW d \in Nat
        PROVE  ReadsOn(s, t, f, g, whole, spans, k, b, d)
    <3>1. k \in S
      OBVIOUS
    <3> QED BY <3>1
  <2> HIDE DEF S
  <2>3. PICK past, here, next : GoesOn(s, i, start, past, here, next)
    BY DEF GoesOn
  <2>4. start \in Nat
    BY <1>1
  <2>5. past \in i + 1 .. n + 1 /\ next \in i + 1 .. n + 1 /\ Less(depth) \in Nat /\ depth + 1 \in Nat
    BY <1>1, <2>1, <2>3, <2>4, GoesOnFurther
  <2>6. here = (IF start = 0 THEN i ELSE start) /\ past = i + ScriptPiece(s, i).take
    BY <2>3 DEF GoesOn
  <2>7. here \in 1 .. i /\ here \in 0 .. past - 1 /\ start \in 0 .. past - 1 /\ start \in 0 .. i /\ here \in 0 .. i
    BY <1>1, <2>5, <2>6
  <2>8. PICK way : way = Way(ScriptPiece(s, i), s[i], depth)
    OBVIOUS
  <2>9. Goes(way, f[<<i, start, depth>>], f, i, start, depth, past, here, next)
    BY <1>1, <2>1, <2>3, <2>4, <2>8, TableGoes
  <2>10. ASSUME way # "unclosed", \A j \in i .. past - 1 : ~Covered(spans, j)
         PROVE  /\ Same(s, t, i, past)
                /\ \E new : Goes(way, g[<<i, start, depth>>], g, i, start, depth, past, here, new)
    <3>1. ScriptPiece(s, i).closed
      BY <1>1, <2>1, <2>8, <2>10, WayIs
    <3>2. ScriptPiece(t, i) = ScriptPiece(s, i) /\ t[i] = s[i] /\ Same(s, t, i, past)
      BY <1>1, <1>2, <2>1, <2>6, <2>10, <3>1, PieceRead
    <3>3. PICK new : GoesOn(t, i, start, past, here, new)
      BY <2>6, <3>2 DEF GoesOn
    <3>4. way = Way(ScriptPiece(t, i), t[i], depth) /\ i \in 1 .. Len(t)
      BY <1>1, <2>1, <2>8, <3>2
    <3>5. Goes(way, g[<<i, start, depth>>], g, i, start, depth, past, here, new)
      BY <1>1, <2>4, <3>3, <3>4, TableGoes
    <3> QED BY <3>2, <3>5
  <2>11. CASE way = "unclosed"
    <3>1. f[<<i, start, depth>>] = Script({}, {}, FALSE)
      BY <2>9, <2>11 DEF Goes
    <3>2. ~f[<<i, start, depth>>].complete
      BY <3>1 DEF Script
    <3> QED BY <3>2 DEF ReadsOn, ToCome
  <2>12. ASSUME NEW b \in {start, here}, NEW d \in Nat, b = 0 => d = depth, way # "unclosed",
                f[<<i, start, depth>>] = f[<<past, b, d>>],
                \A new : Goes(way, g[<<i, start, depth>>], g, i, start, depth, past, here, new)
                            => g[<<i, start, depth>>] = g[<<past, b, d>>]
         PROVE  ReadsOn(s, t, f, g, whole, spans, i, start, depth)
    <3>1. b \in 0 .. i /\ b \in 0 .. past - 1 /\ (b = start \/ (start = 0 /\ b = i))
      BY <2>6, <2>7
    <3>2. ReadsOn(s, t, f, g, whole, spans, past, b, d)
      BY <2>2, <2>5, <3>1
    <3>3. (\A j \in i .. past - 1 : ~Covered(spans, j)) =>
              Same(s, t, i, past) /\ g[<<i, start, depth>>] = g[<<past, b, d>>]
      BY <2>10, <2>12
    <3> QED BY <2>1, <2>5, <2>12, <3>1, <3>2, <3>3, ReadsPiece
  <2>13. CASE way = "skip"
    BY <2>9, <2>12, <2>13 DEF Goes
  <2>14. CASE way = "open"
    <3>1. here # 0
      BY <2>7
    <3> QED BY <2>5, <2>9, <2>12, <2>14, <3>1 DEF Goes
  <2>15. CASE way = "close"
    <3>1. here # 0
      BY <2>7
    <3> QED BY <2>5, <2>9, <2>12, <2>15, <3>1 DEF Goes
  <2>16. CASE way = "on"
    <3>1. here # 0
      BY <2>7
    <3> QED BY <2>9, <2>12, <2>16, <3>1 DEF Goes
  <2>17. CASE way = "meta"
    <3>1. f[<<i, start, depth>>] = WithMeta(f[<<past, start, depth>>], Span(i, past))
      BY <2>9, <2>17 DEF Goes
    <3>2. ReadsOn(s, t, f, g, whole, spans, past, start, depth)
      BY <2>2, <2>5, <2>7
    <3> QED BY <2>1, <2>5, <3>1, <3>2, ReadsMeta
  <2>18. CASE way = "end"
    <3>1. f[<<i, start, depth>>] = WithStatement(f[<<next, 0, 0>>], Span(here, past))
      BY <2>9, <2>18 DEF Goes
    <3>2. ScriptPiece(s, i).take = 1
      BY <1>1, <2>1, <2>8, <2>18, EndIs
    <3>3. next \in past .. Len(s) + 1
      BY <1>1, <2>5, <2>6, <3>2
    <3>4. ReadsOn(s, t, f, g, whole, spans, next, 0, 0)
      <4>1. 0 \in 0 .. next - 1 /\ 0 \in Nat
        BY <1>1, <2>5
      <4> QED BY <2>2, <2>5, <4>1
    <3>5. Way(ScriptPiece(s, i), s[i], depth) = "end"
      BY <2>8, <2>18
    <3> QED BY <2>1, <2>3, <2>5, <3>1, <3>3, <3>4, <3>5, ReadsEnd
  <2> QED BY <2>9, <2>11, <2>13, <2>14, <2>15, <2>16, <2>17, <2>18 DEF Goes
<1>5. \A i \in 1 .. n + 1 : i \in S
  <2> HIDE DEF S, n
  <2>1. n + 1 \in Nat
    BY <1>1
  <2> QED BY <1>3, <1>4, <2>1, DownTheText
<1> QED BY <1>5

-----------------------------------------------------------------------------
(* The texts of the specification *)

TypeOK ==
    /\ dialect \in DOMAIN Alphabets
    /\ alphabet \in Alphabets[dialect]
    /\ text \in Texts
    /\ typed \in 0 .. MaxLength[dialect]

\* A text is a sequence of symbols, in a dialect and one of its alphabets.
THEOREM TypeInvariant == Spec => []TypeOK
<1>1. Init => TypeOK
  BY LexingAssumption DEF Init, TypeOK, Texts
<1>2. TypeOK /\ [Next]_vars => TypeOK'
  <2> SUFFICES ASSUME TypeOK, [Next]_vars PROVE TypeOK'
    OBVIOUS
  <2>1. CASE Type
    <3>1. PICK phrase \in alphabet : text' = text \o phrase
      BY <2>1 DEF Type
    <3>2. phrase \in Texts
      BY <3>1, LexingAssumption, AreTexts DEF TypeOK
    <3>3. text' \in Texts
      BY <3>1, <3>2 DEF TypeOK, Texts
    <3>4. typed' \in 0 .. MaxLength[dialect] /\ dialect' = dialect /\ alphabet' = alphabet
      BY <2>1, LexingAssumption DEF TypeOK, Type
    <3> QED BY <3>3, <3>4 DEF TypeOK
  <2>2. CASE Rest
    BY <2>2 DEF TypeOK, Rest, vars
  <2>3. CASE UNCHANGED vars
    BY <2>3 DEF TypeOK, vars
  <2> QED BY <2>1, <2>2, <2>3 DEF Next
<1> QED BY <1>1, <1>2, PTL DEF Spec

\* What --prepare leaves alone in a MySQL dump is what the detectors do not look at:
\* mysql_lex._mask and prepare._mysql_segments hide the same symbols of every text
\* but one that ends in a bare --.
THEOREM MySqlScannersAgree == TypeOK => MySqlAgree
<1> SUFFICES ASSUME TypeOK, dialect = "mysql", ~EndsInDashes
             PROVE  Hidden(MaskKinds(text)) = Hidden(PrepareKinds(text))
  BY DEF MySqlAgree
<1>1. MaskKinds(text) = KindsOf(text, MySqlMask) /\ PrepareKinds(text) = KindsOf(text, MySqlSegments)
  BY DEF MaskKinds, PrepareKinds
<1>2. text \in Texts /\ ~(Len(text) > 1 /\ At(text, Len(text) - 1, <<"-", "-">>))
  BY DEF TypeOK, EndsInDashes
<1> QED BY <1>1, <1>2, MySqlHidden

\* plsql_lex._mask and prepare._oracle_segments hide the same symbols of every text
\* whose q-quotes close and that has no REM, no quoted name and no $.
THEOREM OracleScannersAgree == TypeOK => OracleAgree
<1> SUFFICES ASSUME TypeOK, dialect = "oracle",
                    ~Has(<<"rem">>), ~Has(<<"dq">>), ~Has(<<"$">>),
                    \A i \in DOMAIN text :
                        LET open == QOpen(text, i, Letters) IN open # 0 => QEnd(text, open) # 0
             PROVE  Hidden(MaskKinds(text)) = Hidden(PrepareKinds(text))
  BY DEF OracleAgree
<1>1. MaskKinds(text) = KindsOf(text, OracleMask) /\ PrepareKinds(text) = KindsOf(text, OracleSegments)
  BY DEF MaskKinds, PrepareKinds
<1>2. text \in Texts /\ DOMAIN text = 1 .. Len(text)
  BY DEF TypeOK, Texts
<1>3. \A j \in 1 .. Len(text) : text[j] \notin {"rem", "dq", "$"}
  <2>1. ASSUME NEW a, ~Has(<<a>>) PROVE \A j \in 1 .. Len(text) : text[j] # a
    BY <1>2, <2>1, AtOne DEF Has
  <2> QED BY <2>1
<1> QED BY <1>1, <1>2, <1>3, OracleHidden

\* mssql_lex._mask and the walk of prepare_mssql_brackets hide the same symbols of every
\* finished text without a comment in a comment or a name over two lines.
THEOREM BracketScannersAgree == TypeOK => BracketsAreNames
<1> SUFFICES ASSUME TypeOK, dialect = "mssql", Finished(text),
                    ~NestedComment(text), ~NameOverLines(text)
             PROVE  Hidden(MaskKinds(text)) = Hidden(PrepareKinds(text))
  BY DEF BracketsAreNames
<1>1. MaskKinds(text) = KindsOf(text, MsSqlMask) /\ PrepareKinds(text) = KindsOf(text, MsSqlBrackets)
  BY DEF MaskKinds, PrepareKinds
<1>2. text \in Texts /\ DOMAIN text = 1 .. Len(text)
  BY DEF TypeOK, Texts
<1>3. ModeAfter(text, MsSqlMask) = "code"
  BY DEF Finished
<1>4. ~\E k, j \in 1 .. Len(text) :
            /\ k + 1 < j /\ At(text, k, <<"/", "*">>) /\ At(text, j, <<"/", "*">>)
            /\ \A m \in k .. j : KindsOf(text, MsSqlMask)[m] = "comment"
  BY <1>1, <1>2 DEF NestedComment
<1>5. ~\E k \in 1 .. Len(text) : text[k] = "nl" /\ KindsOf(text, MsSqlMask)[k] = "name"
  BY <1>1, <1>2 DEF NameOverLines
<1> QED BY <1>1, <1>2, <1>3, <1>4, <1>5, MsSqlHidden

\* Nothing a preparer rewrites is in a literal or a comment by the detectors' rules, and
\* nothing it leaves alone is code to them, for texts of any length over any symbols.
THEOREM PreparersAgreeAlways == Spec => []PreparersAgree
<1>1. TypeOK => PreparersAgree
  BY MySqlScannersAgree, OracleScannersAgree, BracketScannersAgree DEF PreparersAgree
<1> QED BY <1>1, TypeInvariant, PTL

\* A fix searches what --load-check and psql take for code and the text of routine bodies,
\* nothing else: pg_script.mask_literals and pg_script.parse_script agree on what is code
\* outside dollar quotes, in every file that meets the conditions of FixesSeeCode.
THEOREM FixesSeeWhatIsSent == TypeOK => FixesSeeCode
<1> DEFINE n == Len(text)
           kinds == KindsOf(text, ScriptSegments)
<1> SUFFICES ASSUME TypeOK, dialect = "postgres",
                    parse_script(text).complete, parse_script(text).metas = {},
                    ~\E st \in parse_script(text).statements : CopiesFromStdin(SpanText(text, st)),
                    \A body \in Bodies : BodyCloses(body)
             PROVE  \A i \in DOMAIN text : PrepareKinds(text)[i] # "body" =>
                        (MaskKinds(text)[i] = "code" <=> PrepareKinds(text)[i] = "code")
  BY DEF FixesSeeCode
<1>1. text \in Texts /\ n \in Nat /\ DOMAIN text = 1 .. n
  BY DEF TypeOK, Texts
<1>2. MaskKinds(text) = KindsOf(text, LiteralMask) /\ PrepareKinds(text) = kinds
  BY DEF MaskKinds, PrepareKinds
<1>3. PICK p : MaskRead(text, p) /\ KindsOf(text, LiteralMask) = [i \in 1 .. n |-> p[i].kind]
  BY <1>1, MaskReads
<1>4. PICK q : ScriptRead(text, q) /\ kinds = [i \in 1 .. n |-> q[i].kind]
  BY <1>1, ScriptReads
<1> HIDE DEF kinds
<1>5. \A i \in 1 .. n : kinds[i] = q[i].kind
  BY <1>4
<1>6. ASSUME NEW i \in Nat, NEW past \in Nat, IsBody(text, q, i, past)
      PROVE  Span(i, past) \in Bodies
  <2> DEFINE starts == {k \in DOMAIN text : kinds[k] = "body" /\ (k = 1 \/ kinds[k - 1] # "body")}
             PastBody(k) == Min({j \in k .. Len(text) : kinds[j] # "body"} \cup {Len(text) + 1})
             ends == {j \in i .. Len(text) : kinds[j] # "body"} \cup {Len(text) + 1}
  <2>1. Bodies = {Span(k, PastBody(k)) : k \in starts}
    BY <1>2 DEF Bodies
  <2>2. /\ i \in 1 .. n /\ past \in i + 1 .. n + 1
        /\ \A k \in i .. past - 1 : q[k].kind = "body"
        /\ i = 1 \/ q[i - 1].kind # "body"
        /\ past = n + 1 \/ q[past].kind # "body"
    BY <1>6 DEF IsBody
  <2>3. i \in starts
    <3>1. i \in i .. past - 1
      BY <2>2
    <3>2. i # 1 => i - 1 \in 1 .. n
      BY <1>1, <2>2
    <3> QED BY <1>1, <1>5, <2>2, <3>1, <3>2
  <2>4. ends \in SUBSET Nat /\ ends # {}
    BY <1>1
  <2>5. Min(ends) \in ends /\ \A x \in ends : Min(ends) <= x
    BY <2>4, MinIs
  <2>6. past \in ends
    BY <1>1, <1>5, <2>2
  <2>7. \A x \in ends : past <= x
    <3> TAKE x \in ends
    <3>1. CASE x = n + 1
      BY <1>1, <2>2, <3>1
    <3>2. CASE x \in i .. n /\ kinds[x] # "body"
      <4>1. x \in 1 .. n /\ q[x].kind # "body"
        BY <1>5, <2>2, <3>2
      <4> QED BY <1>1, <2>2, <3>2, <4>1
    <3> QED BY <3>1, <3>2
  <2>8. Min(ends) = past
    <3>1. Min(ends) \in Nat /\ Min(ends) <= past /\ past <= Min(ends)
      BY <2>4, <2>5, <2>6, <2>7
    <3> QED BY <3>1
  <2>9. PastBody(i) = past
    BY <2>8
  <2> HIDE DEF starts, PastBody
  <2> QED BY <2>1, <2>3, <2>9
<1>7. BodiesClose(text, q)
  <2> SUFFICES ASSUME NEW i \in Nat, NEW past \in Nat, IsBody(text, q, i, past)
               PROVE  KindsOf(Inside(text, i, past), LiteralMask)[Len(Inside(text, i, past))] = "code"
    BY DEF BodiesClose
  <2>1. BodyCloses(Span(i, past))
    BY <1>6
  <2>2. SpanText(text, Span(i, past)) = SubSeq(text, i, past - 1)
    BY DEF SpanText, Span
  <2> QED BY <2>1, <2>2 DEF BodyCloses, Inside
<1>8. \A i \in 1 .. n : q[i].kind # "body" => (p[i].kind = "code" <=> q[i].kind = "code")
  BY <1>1, <1>3, <1>4, <1>7, CodeAlike
<1> QED BY <1>1, <1>2, <1>3, <1>5, <1>8

\* The same of every text that is written.
THEOREM FixesSeeCodeAlways == Spec => []FixesSeeCode
  BY FixesSeeWhatIsSent, TypeInvariant, PTL

\* By the splitter's own rules what --load-check sends is the statements it has not blanked,
\* at the same places and lines, with nothing left to blank (pg_script.py:19-22), for files
\* of any length in which no quote or comment is left open and no backslash command stands
\* inside a statement.  That psql, which has rules of its own, reads the same is checked
\* only (SentIsHarmless).
THEOREM SentAsKeptToType == TypeOK => SentAsKept
<1> SUFFICES ASSUME TypeOK, dialect = "postgres" PROVE SentAsKept
  BY DEF SentAsKept
<1> DEFINE script == parse_script(text)
           removed == Neutralised(text, script)
           sent == sanitize(text, script)
           left == parse_script(sent)
           between == \A meta \in script.metas, st \in script.statements :
                            ~(st.from < meta.from /\ meta.from < st.to)
<1> SUFFICES ASSUME script.complete, between
             PROVE  /\ left.complete /\ left.statements = script.statements \ removed
                    /\ Neutralised(sent, left) = {}
                    /\ \A i \in DOMAIN text : text[i] = "nl" <=> sent[i] = "nl"
  BY DEF SentAsKept, MetasStandApart
<1>1. text \in Texts /\ Len(text) \in Nat /\ DOMAIN text = 1 .. Len(text)
  BY AreTexts DEF TypeOK, Texts
<1>2. sent = Blanked(text, removed)
  BY DEF sanitize
<1>3. PICK f : IsScriptTable(text, f) /\ script = f[<<1, 0, 0>>]
  BY <1>1, ScriptTable
<1>4. Dimmed(text, sent)
  BY <1>1, <1>2, BlankedIs
<1>5. sent \in Texts /\ Len(sent) = Len(text)
  BY <1>4 DEF Dimmed
<1>6. PICK g : IsScriptTable(sent, g) /\ left = g[<<1, 0, 0>>]
  BY <1>5, ScriptTable
<1>7. Sends(text, sent, f, g, script, removed)
  <2> HIDE DEF script, sent, left
  <2> QED BY <1>1, <1>2, <1>3, <1>5, <1>6 DEF Sends
<1>8. 1 \in 1 .. Len(text) + 1 /\ 0 \in 0 .. 1 - 1 /\ 0 \in Nat
  BY <1>1
<1>9. ReadsOn(text, sent, f, g, script, removed, 1, 0, 0)
  <2> HIDE DEF script, removed, sent
  <2> QED BY <1>7, <1>8, ReadsOnEverywhere
<1> HIDE DEF script, removed, sent, left
<1>10. ToCome(script, script, 1) /\ ~Gone(script, 0, removed)
  BY DEF ToCome, Gone
<1>11. Leaves(text, sent, script, left, removed)
  BY <1>3, <1>6, <1>9, <1>10 DEF ReadsOn
<1>12. /\ left.complete /\ left.metas = {} /\ left.statements = script.statements \ removed
  BY <1>11 DEF Leaves, Script
<1>13. Neutralised(sent, left) = {}
  <2>1. \A st \in script.statements \ removed : ~IsNeutralised(SpanText(text, st))
    BY DEF removed, Neutralised
  <2>2. \A st \in left.statements : ~IsNeutralised(SpanText(sent, st))
    BY <1>11, <1>12, <2>1 DEF Leaves
  <2> QED BY <1>12, <2>2 DEF Neutralised
<1>14. \A i \in DOMAIN text : text[i] = "nl" <=> sent[i] = "nl"
  BY <1>1, <1>4 DEF Dimmed
<1> QED BY <1>12, <1>13, <1>14

\* The same of every text typed, so of every file.
THEOREM SentAsKeptAlways == Spec => []SentAsKept
  BY TypeInvariant, SentAsKeptToType, PTL

=============================================================================
