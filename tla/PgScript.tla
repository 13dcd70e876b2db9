------------------------------ MODULE PgScript ------------------------------
(***************************************************************************)
(* pg_script.py: the statements of a generated PostgreSQL file as psql     *)
(* would send them, the ones --load-check must not run as they are, and    *)
(* the masked view the automatic fixes search.  The tag of a dollar quote  *)
(* is one symbol.                                                          *)
(***************************************************************************)
EXTENDS MaskedText

Span(from, to) == [from |-> from, to |-> to]
SpanText(s, span) == SubSeq(s, span.from, span.to - 1)

-----------------------------------------------------------------------------
(* Quotes *)

(* [A-Za-z0-9_$] *)
IdentChar(symbol) == Identifier(symbol) \/ symbol \in Numbers \cup {"$"}

\* Mutant of IsEscapeString: an e that ends a name counts.
IsEscapeStringAnywhere(s, i) == i > 1 /\ s[i - 1] = "e"

(* the literal at i is an E'...' *)
IsEscapeString(s, i) ==
    i > 1 /\ s[i - 1] = "e" /\ (i = 2 \/ s[i - 2] \notin Letters \cup {"e", "$"} \cup Numbers)

(* just past the quote that ends what the one at i begins; 0: it never ends *)
QuoteEnd(s, i, escapes) ==
    LET from[j \in 1 .. Len(s) + 2] ==
            IF j > Len(s) THEN 0
            ELSE IF escapes /\ s[j] = "\\" THEN from[j + 2]
            ELSE IF At(s, j, <<s[i], s[i]>>) THEN from[j + 2]
            ELSE IF s[j] = s[i] THEN j + 1
            ELSE from[j + 1]
    IN  from[i + 1]

(* $$ or $tag$ at i, not behind a name; <<>>: neither *)
DollarTag(s, i) ==
    IF s[i] # "$" \/ (i > 1 /\ IdentChar(s[i - 1])) THEN <<>>
    ELSE IF At(s, i, <<"$", "$">>) THEN <<"$", "$">>
    ELSE IF i + 2 <= Len(s) /\ Identifier(s[i + 1]) /\ s[i + 2] = "$" THEN SubSeq(s, i, i + 2)
    ELSE <<>>

DollarEnd(s, i) ==
    LET tag == DollarTag(s, i)
        close == Find(s, i + Len(tag), tag)
    IN  IF close > Len(s) THEN 0 ELSE close + Len(tag)

NestedClosed(s, i) == NestedEnd(Append(s, "nl"), i) <= Len(s) + 1

-----------------------------------------------------------------------------
(* parse_script *)

Quoted(kind, i, end, s) ==
    [take |-> (IF end = 0 THEN Len(s) + 1 ELSE end) - i, kind |-> kind, closed |-> end # 0]
Whole(kind, take) == [take |-> take, kind |-> kind, closed |-> TRUE]

(* What parse_script takes at i in one step, and whether it found its end *)
ScriptPiece(s, i) ==
    CASE s[i] \in Blanks          -> Whole("code", 1)
      [] At(s, i, <<"-", "-">>)   -> Whole("comment", Find(s, i, <<"nl">>) - i)
      [] At(s, i, <<"/", "*">>)   -> [take |-> NestedEnd(s, i) - i, kind |-> "comment",
                                      closed |-> NestedClosed(s, i)]
      [] s[i] = "\\"              -> Whole("meta", Find(s, i, <<"nl">>) - i)
      [] s[i] = "'"               -> Quoted("string", i, QuoteEnd(s, i, IsEscapeString(s, i)), s)
      [] s[i] = "dq"              -> Quoted("name", i, QuoteEnd(s, i, FALSE), s)
      [] DollarTag(s, i) # <<>>   -> Quoted("body", i, DollarEnd(s, i), s)
      [] OTHER                    -> Whole("code", 1)

ScriptSegments(s, i, mode) == LET p == ScriptPiece(s, i) IN Piece(p.take, p.kind, mode)

(* _COPY_FROM_STDIN_RE *)
CopiesFromStdin(text) ==
    text[1] = "COPY" /\ \E i \in DOMAIN text :
        LET j == AfterBlanks(text, i + 1) IN text[i] = "FROM" /\ j <= Len(text) /\ text[j] = "STDIN"

(* _skip_copy_data: from the next line to the one that is \. *)
PastCopyData(s, i) ==
    LET lines == {j + 1 : j \in {k \in i .. Len(s) : s[k] = "nl"}}
        ends == {j \in lines : At(s, j, <<"\\", ".">>) /\ (j + 2 > Len(s) \/ s[j + 2] = "nl")}
    IN  IF ends = {} THEN Len(s) + 1 ELSE Min(ends) + 2

Script(statements, metas, complete) ==
    [statements |-> statements, metas |-> metas, complete |-> complete]

parse_script(s) ==
    LET from[at \in (1 .. Len(s) + 1) \X Nat \X Nat] ==
            LET i == at[1]
                start == at[2]     \* of the statement; 0: between statements
                depth == at[3]     \* of its parentheses
                piece == ScriptPiece(s, i)
                past == i + piece.take
                here == IF start = 0 THEN i ELSE start
                statement == Span(here, past)
                next == IF CopiesFromStdin(SpanText(s, statement)) THEN PastCopyData(s, past) ELSE past
                code == piece.kind = "code"
            IN  IF i > Len(s) THEN Script(IF start = 0 THEN {} ELSE {Span(start, i)}, {}, TRUE)
                ELSE IF ~piece.closed THEN Script({}, {}, FALSE)
                ELSE CASE piece.kind = "comment" \/ s[i] \in Blanks -> from[<<past, start, depth>>]
                       [] piece.kind = "meta" ->
                            [from[<<past, start, depth>>] EXCEPT !.metas = @ \cup {Span(i, past)}]
                       [] code /\ s[i] = "(" -> from[<<past, here, depth + 1>>]
                       [] code /\ s[i] = ")" -> from[<<past, here, IF depth = 0 THEN 0 ELSE depth - 1>>]
                       [] code /\ s[i] = ";" /\ depth = 0 ->
                            [from[<<next, 0, 0>>] EXCEPT !.statements = @ \cup {statement}]
                       [] OTHER -> from[<<past, here, depth>>]
    IN  from[<<1, 0, 0>>]

-----------------------------------------------------------------------------
(* sanitize *)

(* _leading_keywords: up to three words, with nothing but blanks between *)
LeadingKeywords(text) ==
    LET first == AfterBlanks(text, 1)
        second == AfterBlanks(text, first + 1)
        third == AfterBlanks(text, second + 1)
        IsWord(i) == i <= Len(text) /\ Identifier(text[i])
    IN  IF ~IsWord(first) THEN <<>>
        ELSE IF ~IsWord(second) THEN <<text[first]>>
        ELSE IF ~IsWord(third) THEN <<text[first], text[second]>>
        ELSE <<text[first], text[second], text[third]>>

TransactionControl == {"BEGIN", "START", "COMMIT", "END", "ROLLBACK", "ABORT", "SAVEPOINT", "RELEASE"}

(* _neutralisation: what a load check must not run as it is *)
IsNeutralised(text) ==
    LET words == LeadingKeywords(text)
        word(k) == IF k <= Len(words) THEN words[k] ELSE ""
        set(k) == word(k) = "CHECK_FUNCTION_BODIES"
    IN  \/ word(1) \in TransactionControl \ {"START"}
        \/ word(1) \in {"START", "PREPARE"} /\ word(2) = "TRANSACTION"
        \/ word(1) = "SET" /\ (set(2) \/ (word(2) \in {"SESSION", "LOCAL"} /\ set(3)))

Neutralised(s, script) ==
    script.metas \cup {st \in script.statements : IsNeutralised(SpanText(s, st))}

\* Mutant of Blanked: the line breaks go too.
BlankedThroughout(s, spans) ==
    [i \in DOMAIN s |-> IF \E x \in spans : x.from <= i /\ i < x.to THEN "sp" ELSE s[i]]

(* _blank: line breaks stay *)
Blanked(s, spans) ==
    [i \in DOMAIN s |-> IF s[i] # "nl" /\ \E x \in spans : x.from <= i /\ i < x.to THEN "sp" ELSE s[i]]

sanitize(s, script) == Blanked(s, Neutralised(s, script))

-----------------------------------------------------------------------------
(* mask_literals *)

(* The quotes stay; the text of a dollar quote is code *)
LiteralPiece(s, i, commentEnd) ==
    LET end == QuoteEnd(s, i, s[i] = "'" /\ IsEscapeString(s, i))
        last == IF end = 0 THEN Len(s) + 1 ELSE end
    IN  CASE At(s, i, <<"-", "-">>) -> LineComment(s, i)
          [] At(s, i, <<"/", "*">>) -> Piece(commentEnd - i, "comment", "code")
          [] s[i] \in {"'", "dq"}   -> Piece(last - i, "string", "code")
          [] OTHER                  -> Piece(1, "code", "code")

\* Mutant of LiteralMask: the first */ ends a comment.
LiteralMaskFlat(s, i, mode) == LiteralPiece(s, i, Past(s, i + 2, <<"*", "/">>))

LiteralMask(s, i, mode) == LiteralPiece(s, i, NestedEnd(s, i))

(* the quotes around what LiteralMask hides *)
QuoteMarks(s) ==
    LET from[i \in Nat] ==
            IF i > Len(s) THEN {}
            ELSE LET piece == LiteralMask(s, i, "code")
                     past == i + piece.take
                     ended == QuoteEnd(s, i, s[i] = "'" /\ IsEscapeString(s, i)) # 0
                 IN  (IF piece.kind # "string" THEN {} ELSE {i} \cup IF ended THEN {past - 1} ELSE {})
                     \cup from[past]
    IN  from[1]

\* Mutant of mask_literals: nothing is hidden.
Unmasked(s) == s

mask_literals(s) ==
    LET kinds == KindsOf(s, LiteralMask)
        marks == QuoteMarks(s)
    IN  [i \in DOMAIN s |-> IF kinds[i] = "code" \/ s[i] = "nl" \/ i \in marks THEN s[i] ELSE "sp"]

=============================================================================
