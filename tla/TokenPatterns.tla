--------------------------- MODULE TokenPatterns ---------------------------
(***************************************************************************)
(* The regular expressions the detectors, the lexers and the automatic     *)
(* fixes are written in, over sequences of symbols: a word, a number or a  *)
(* punctuation mark is one symbol (MaskedText), so that \b is between any  *)
(* two of them, and two words in a row have a blank between them.  A       *)
(* pattern is data; matching follows Python's re: alternatives in their    *)
(* order, greedy repeats, leftmost matches that do not overlap.            *)
(***************************************************************************)
EXTENDS MaskedText
LOCAL INSTANCE SequencesExt

-----------------------------------------------------------------------------
(* Patterns *)
OneOf(symbols) == [is |-> "one", of |-> symbols]
W(word) == OneOf({word})
Name == [is |-> "name"]              \* an identifier, captured
NumberLit == OneOf(Numbers)
Seq_(parts) == [is |-> "seq", of |-> parts, tight |-> FALSE]  \* \s* or \s+ between the parts
Tight(parts) == [is |-> "seq", of |-> parts, tight |-> TRUE]  \* nothing between them
Words(words) == Seq_([i \in DOMAIN words |-> W(words[i])])
Either(parts) == [is |-> "alt", of |-> parts]
Maybe(p) == [is |-> "maybe", of |-> p]
Many(p) == [is |-> "many", of |-> p, tight |-> FALSE]        \* (?:p\s*)*
ManyTight(p) == [is |-> "many", of |-> p, tight |-> TRUE]    \* (?:p)*
SkipBefore(stops, never) ==                    \* (?:(?!never)[^stops])*?
    [is |-> "skip", of |-> stops, never |-> never]
NotAhead(p) == [is |-> "not", of |-> p]
Ahead(p) == NotAhead(NotAhead(p))
NoWord == OneOf({})
Skip(stops) == SkipBefore(stops, NoWord)       \* [^stops]*?
Word == Either(<<Name, NumberLit>>)          \* \w+
NotAfter(symbols) == [is |-> "behind", of |-> symbols]
After(symbols) == NotAhead(NotAfter(symbols))
LineStart == [is |-> "line"]
Spaced == [is |-> "spaced"]                    \* a blank is next
TextEnd == [is |-> "end"]

(* (?:"?schema"?\.)?"?name"? with either kind of quote *)
QualifiedBy(quote) ==
    LET part == Tight(<<Maybe(W(quote)), Name, Maybe(W(quote))>>)
    IN  Tight(<<Maybe(Tight(<<part, W(".")>>)), part>>)

-----------------------------------------------------------------------------
(* Matching *)

(* only blanks between i and the start of its line *)
OpensLine(s, i) ==
    LET from[j \in Nat] == j = 0 \/ s[j] = "nl" \/ (s[j] = "sp" /\ from[j - 1])
    IN  from[i - 1]

(* a blank stands at i or right before it, or two words meet there *)
BlankAt(s, i) ==
    s[i] \in Blanks \/ (i > 1 /\ (s[i - 1] \in Blanks \/ {s[i - 1], s[i]} \cap Marks = {}))

(* a quote right behind a word: not the blank that a name in quotes would need *)
Joined(p, s, j) ==
    /\ j \in 2 .. Len(s) /\ s[j] \in Quotes /\ Identifier(s[j - 1])
    /\ ~(p.is = "seq" /\ p.of[1].is = "not")

(* The ends of the matches of p at i, the one re takes first, with the place of *)
(* the captured name (0: none)                                                  *)
RECURSIVE Matches(_, _, _)
Matches(p, s, i) ==
    LET here == <<[to |-> i, name |-> 0]>>
        read == i <= Len(s)
        FollowedBy(q, ms, gap) ==
            FlattenSeq([k \in DOMAIN ms |->
                LET blank == gap /\ ms[k].to > i
                    j == IF blank THEN AfterBlanks(s, ms[k].to) ELSE ms[k].to
                    rest == IF blank /\ Joined(q, s, j) THEN <<>> ELSE Matches(q, s, j)
                IN  [r \in DOMAIN rest |->
                        IF rest[r].name # 0 THEN rest[r]
                        ELSE [rest[r] EXCEPT !.name = ms[k].name]]])
    IN  CASE p.is = "one"    -> IF read /\ s[i] \in p.of
                                THEN <<[to |-> i + 1, name |-> 0]>> ELSE <<>>
          [] p.is = "name"   -> IF read /\ Identifier(s[i])
                                THEN <<[to |-> i + 1, name |-> i]>> ELSE <<>>
          [] p.is = "seq"    -> IF p.of = <<>> THEN here
                                ELSE IF Len(p.of) = 1 THEN Matches(p.of[1], s, i)
                                ELSE FollowedBy([p EXCEPT !.of = Tail(@)],
                                                Matches(p.of[1], s, i), ~p.tight)
          [] p.is = "alt"    -> FlattenSeq([k \in DOMAIN p.of |-> Matches(p.of[k], s, i)])
          [] p.is = "maybe"  -> Matches(p.of, s, i) \o here
          [] p.is = "many"   -> FollowedBy(p, SelectSeq(Matches(p.of, s, i), LAMBDA m : m.to > i),
                                           ~p.tight) \o here
          [] p.is = "skip"   -> here \o IF read /\ s[i] \notin p.of /\ Matches(p.never, s, i) = <<>>
                                        THEN Matches(p, s, i + 1) ELSE <<>>
          [] p.is = "not"    -> IF Matches(p.of, s, i) = <<>> THEN here ELSE <<>>
          [] p.is = "behind" -> IF i > 1 /\ i - 1 <= Len(s) /\ s[i - 1] \in p.of
                                THEN <<>> ELSE here
          [] p.is = "spaced" -> IF read /\ BlankAt(s, i) THEN here ELSE <<>>
          [] p.is = "end"    -> IF read THEN <<>> ELSE here
          [] p.is = "line"   -> IF OpensLine(s, i) THEN here ELSE <<>>

(* p.match(s, i): its first match there, as a sequence of at most one *)
MatchAt(p, s, i) ==
    LET ms == Matches(p, s, i)
    IN  IF ms = <<>> THEN <<>> ELSE <<[at |-> i, to |-> ms[1].to, name |-> ms[1].name]>>

(* p.finditer(s, start, end), end included *)
FindBetween(p, s, start, end) ==
    LET text == SubSeq(s, 1, end)
        from[i \in Nat] ==
            IF i > Len(text) THEN <<>>
            ELSE LET m == MatchAt(p, text, i)
                 IN  IF m = <<>> THEN from[i + 1]
                     ELSE m \o from[IF m[1].to > i THEN m[1].to ELSE i + 1]
    IN  from[start]

FindAll(p, s) == FindBetween(p, s, 1, Len(s))

(* where p.search(s, start, end) matches first: a sequence of at most one match *)
Search(p, s, start, end) ==
    LET text == SubSeq(s, 1, end)
        from[i \in Nat] ==
            IF i > Len(text) THEN <<>>
            ELSE LET m == MatchAt(p, text, i) IN IF m = <<>> THEN from[i + 1] ELSE m
    IN  from[start]

=============================================================================
