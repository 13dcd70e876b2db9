----------------------------- MODULE MaskedText -----------------------------
(***************************************************************************)
(* The scanners that tell code from literals, comments and quoted names:  *)
(* the lexers the detectors look through (mysql_lex, mssql_lex, plsql_lex: *)
(* one _mask each) and the walks the preparers of prepare.py make over the *)
(* same text, written a second time with rules of their own.               *)
(*                                                                         *)
(* A text is a sequence of symbols; a symbol is one character, but for     *)
(* "rem" (the word REM or REMARK); "nl", "sp", "dq" and "bt" are the line  *)
(* break, the blank, the double quote and the backtick.  A scanner is a    *)
(* table: in a mode ("code", or the delimiter that ends what it is in) and *)
(* at a position it takes some symbols, says what they are, and goes on.   *)
(***************************************************************************)
EXTENDS Integers, Sequences, FiniteSetsExt

Kinds == {"code", "name", "string", "escape", "comment", "bracket", "body", "meta"}
Modes == {"code", "'", "dq", "bt", "]"}

Piece(take, kind, mode) == [take |-> take, kind |-> kind, mode |-> mode]

Blanks == {"nl", "sp"}
Quotes == {"dq", "bt", "["}
Marks == Blanks \cup Quotes \cup
    {"]", "{", "}", "(", ")", ",", ";", ".", "/", "*", "-", "+", "=", "'", "\\", "#", "@", "$", "%",
     "|", ":", ":=", ";;", "<", ">", "!", "//"}
Numbers == {"0", "1", "7", "12", "30", "50003"}
Identifier(symbol) == symbol \notin Marks \cup Numbers

(* source.startswith(w, i) *)
At(s, i, w) == i + Len(w) - 1 <= Len(s) /\ \A k \in 1 .. Len(w) : s[i + k - 1] = w[k]

(* the first symbol from i on that is no blank *)
AfterBlanks(s, i) ==
    LET from[j \in Nat] == IF j <= Len(s) /\ s[j] \in Blanks THEN from[j + 1] ELSE j
    IN  from[i]

(* source.find(w, i), or the end of the text *)
Find(s, i, w) == Min({j \in i .. Len(s) : At(s, j, w)} \cup {Len(s) + 1})

(* just past the first w from i on, or the end of the text *)
Past(s, i, w) == Min({Find(s, i, w) + Len(w), Len(s) + 1})

(* What is left of a piece behind its first symbol *)
Remainder(piece) == Piece(piece.take - 1, piece.kind, piece.mode)

(* What a scanner takes of s at each place, in each mode *)
Scanner(s, Step(_, _, _)) == [at \in (1 .. Len(s)) \X Modes |-> Step(s, at[1], at[2])]

(* The piece each of n symbols is in, from that symbol on *)
Pieces(n, takes) ==
    LET upTo[i \in 0 .. n] ==
            IF i = 0 THEN <<>>
            ELSE LET before == upTo[i - 1]
                     last == before[i - 1]
                 IN  Append(before, IF i = 1 THEN takes[<<i, "code">>]
                                    ELSE IF last.take > 1 THEN Remainder(last)
                                    ELSE takes[<<i, last.mode>>])
    IN  upTo[n]

(* The kind of each symbol of s, as the scanner Step sees it *)
KindsOf(s, Step(_, _, _)) ==
    LET pieces == Pieces(Len(s), Scanner(s, Step)) IN [i \in 1 .. Len(s) |-> pieces[i].kind]

(* The mode Step is left in *)
ModeAfter(s, Step(_, _, _)) ==
    IF s = <<>> THEN "code" ELSE Pieces(Len(s), Scanner(s, Step))[Len(s)].mode

LineComment(s, i) == Piece(Find(s, i, <<"nl">>) - i, "comment", "code")
BlockComment(s, i) == Piece(Past(s, i + 2, <<"*", "/">>) - i, "comment", "code")

(* Inside a literal or a name that its closer, doubled, does not end *)
Delimited(s, i, closer, kind) ==
    IF At(s, i, <<closer, closer>>) THEN Piece(2, kind, closer)
    ELSE Piece(1, kind, IF s[i] = closer THEN "code" ELSE closer)

-----------------------------------------------------------------------------
(* MySQL *)

(* Escape that only knows \' and \" *)
EscapeOfQuotes(s, i) == s[i] = "\\" /\ i < Len(s) /\ s[i + 1] \in {"'", "dq"}

(* A backslash and the symbol it escapes, in a MySQL literal *)
Escape(s, i) == s[i] = "\\" /\ i < Len(s)

(* -- opens a comment in MySQL when a blank follows *)
Dashes(s, i) ==
    At(s, i, <<"-", "-">>) /\ i + 2 <= Len(s) /\ s[i + 2] \in {"sp", "nl"}

(* mysql_lex._mask *)
MySqlMask(s, i, mode) ==
    CASE mode = "code" /\ (Dashes(s, i) \/ s[i] = "#") -> LineComment(s, i)
      [] mode = "code" /\ At(s, i, <<"/", "*">>)       -> BlockComment(s, i)
      [] mode = "code" /\ s[i] = "bt"                   -> Piece(1, "name", "bt")
      [] mode = "code" /\ s[i] \in {"'", "dq"}         -> Piece(1, "string", s[i])
      [] mode = "bt"                                    -> Delimited(s, i, "bt", "name")
      [] mode \in {"'", "dq"} /\ Escape(s, i) -> Piece(2, "escape", mode)
      [] mode \in {"'", "dq"} /\ ~Escape(s, i)         -> Delimited(s, i, mode, "string")
      [] OTHER                                         -> Piece(1, "code", "code")

(* the same, at the end of the text too *)
DashesToTheEnd(s, i) == Dashes(s, i) \/ (i + 1 = Len(s) /\ At(s, i, <<"-", "-">>))

(* prepare._mysql_segments; a comment MySQL runs, /*! ... */, is a comment here *)
MySqlSegments(s, i, mode) ==
    CASE mode \in {"'", "dq"} /\ s[i] = "\\"  -> Piece(Min({2, Len(s) + 1 - i}), "string", mode)
      [] mode \in {"'", "dq"} /\ s[i] # "\\"  -> Delimited(s, i, mode, "string")
      [] mode = "code" /\ s[i] \in {"'", "dq"} -> Piece(1, "string", s[i])
      [] mode = "code" /\ s[i] = "bt"          -> Piece(Past(s, i + 1, <<"bt">>) - i, "name", "code")
      [] mode = "code" /\ (DashesToTheEnd(s, i) \/ s[i] = "#") -> LineComment(s, i)
      [] mode = "code" /\ At(s, i, <<"/", "*">>) -> BlockComment(s, i)
      [] OTHER                                -> Piece(1, "code", "code")

-----------------------------------------------------------------------------
(* T-SQL *)

(* Just past the block comment that opens at i: comments nest *)
NestedEnd(s, i) ==
    LET past[j \in 1 .. Len(s) + 1] ==     \* past the comment the symbol at j is in
            IF j > Len(s) THEN j
            ELSE IF At(s, j, <<"/", "*">>) THEN past[past[j + 2]]
            ELSE IF At(s, j, <<"*", "/">>) THEN j + 2
            ELSE past[j + 1]
    IN  past[i + 2]

(* mssql_lex._mask *)
MsSqlMask(s, i, mode) ==
    CASE mode = "code" /\ At(s, i, <<"-", "-">>) -> LineComment(s, i)
      [] mode = "code" /\ At(s, i, <<"/", "*">>) -> Piece(NestedEnd(s, i) - i, "comment", "code")
      [] mode = "code" /\ s[i] = "["             -> Piece(1, "name", "]")
      [] mode = "code" /\ s[i] = "dq"            -> Piece(1, "name", "dq")
      [] mode = "code" /\ s[i] = "'"             -> Piece(1, "string", "'")
      [] mode = "'"                              -> Delimited(s, i, "'", "string")
      [] mode \in {"]", "dq"}                    -> Delimited(s, i, mode, "name")
      [] OTHER                                   -> Piece(1, "code", "code")

(* BracketEnd that stops at the first ] *)
BracketEndFirst(s, i) ==
    LET close == Find(s, i + 1, <<"]">>)
    IN  IF close > Len(s) \/ \E j \in i .. close : s[j] = "nl" THEN 0 ELSE close + 1

(* The bracketed name at i as prepare_mssql_brackets reads it: to its closer, *)
(* on its own line                                                            *)
BracketEnd(s, i) ==
    LET from[j \in 1 .. Len(s) + 1] ==
            IF j > Len(s) \/ s[j] = "nl" THEN 0
            ELSE IF At(s, j, <<"]", "]">>) THEN from[j + 2]
            ELSE IF s[j] = "]" THEN j + 1
            ELSE from[j + 1]
    IN  from[i + 1]

(* A bracketed name with something in it *)
Bracketed(s, i) == s[i] = "[" /\ BracketEnd(s, i) > i + 2

(* prepare.prepare_mssql_brackets: "bracket" is what it rewrites *)
MsSqlBrackets(s, i, mode) ==
    CASE mode = "code" /\ s[i] = "'"             -> Piece(1, "string", "'")
      [] mode = "'"                              -> Delimited(s, i, "'", "string")
      [] mode = "code" /\ At(s, i, <<"-", "-">>) -> LineComment(s, i)
      [] mode = "code" /\ At(s, i, <<"/", "*">>) -> BlockComment(s, i)
      [] mode = "code" /\ s[i] = "dq"            -> Piece(Past(s, i + 1, <<"dq">>) - i, "name", "code")
      [] mode = "code" /\ Bracketed(s, i)        -> Piece(BracketEnd(s, i) - i, "bracket", "code")
      [] OTHER                                   -> Piece(1, "code", "code")

-----------------------------------------------------------------------------
(* Oracle *)

Letters == {"a", "n", "q", "rem"}

(* The closing delimiter of q'X...: its partner, or the same again *)
QCloser(open) ==
    CASE open = "[" -> "]" [] open = "{" -> "}" [] open = "(" -> ")" [] open = "<" -> ">" [] OTHER -> open

(* The delimiter of the q'...' or nq'...' literal that starts at i, its place, or 0 *)
QOpen(s, i, identifier) ==
    LET at == IF s[i] = "n" THEN i + 1 ELSE i
    IN  IF (i > 1 /\ s[i - 1] \in identifier) \/ ~At(s, at, <<"q", "'">>) \/ at + 2 > Len(s)
        THEN 0 ELSE at + 2

(* Just past the literal whose delimiter is at open, or 0 if it never closes *)
QEnd(s, open) ==
    LET closing == <<QCloser(s[open]), "'">>
        close == Find(s, open + 1, closing)
    IN  IF close > Len(s) THEN 0 ELSE close + 2

(* i opens its line *)
AtLineStart(s, i) ==
    \E j \in 0 .. i - 1 : /\ \A k \in j + 1 .. i - 1 : s[k] = "sp"
                          /\ j = 0 \/ s[j] = "nl"

Rem(s, i) ==
    s[i] = "rem" /\ AtLineStart(s, i) /\ (i = Len(s) \/ s[i + 1] \in {"sp", "nl"})

(* plsql_lex._mask, in the view that hides every literal *)
OracleMask(s, i, mode) ==
    LET open == QOpen(s, i, Letters)
        closed == open # 0 /\ QEnd(s, open) # 0
    IN  CASE mode = "code" /\ (At(s, i, <<"-", "-">>) \/ Rem(s, i)) -> LineComment(s, i)
          [] mode = "code" /\ At(s, i, <<"/", "*">>) -> BlockComment(s, i)
          [] mode = "code" /\ closed                 -> Piece(QEnd(s, open) - i, "string", "code")
          [] mode = "code" /\ s[i] = "'"             -> Piece(1, "string", "'")
          [] mode = "'"                              -> Delimited(s, i, "'", "string")
          [] OTHER                                   -> Piece(1, "code", "code")

(* QOfSegments that does not know the national form *)
QOfSegmentsPlain(s, i) == IF s[i] = "q" THEN QOpen(s, i, Letters \cup {"$"}) ELSE 0

(* The q-quote at i as _oracle_segments recognises it *)
QOfSegments(s, i) == QOpen(s, i, Letters \cup {"$"})

(* prepare._oracle_segments *)
OracleSegments(s, i, mode) ==
    LET open == QOfSegments(s, i)
        end == IF QEnd(s, open) = 0 THEN Len(s) + 1 ELSE QEnd(s, open)
    IN  CASE mode = "code" /\ open # 0               -> Piece(end - i, "string", "code")
          [] mode = "code" /\ s[i] = "'"             -> Piece(1, "string", "'")
          [] mode = "'"                              -> Delimited(s, i, "'", "string")
          [] mode = "code" /\ s[i] = "dq"            -> Piece(Past(s, i + 1, <<"dq">>) - i, "name", "code")
          [] mode = "code" /\ At(s, i, <<"-", "-">>) -> LineComment(s, i)
          [] mode = "code" /\ At(s, i, <<"/", "*">>) -> BlockComment(s, i)
          [] OTHER                                   -> Piece(1, "code", "code")

-----------------------------------------------------------------------------
(* What a detector sees: literals and comments blanked.  A line break stays, *)
(* but for one behind a backslash in a MySQL literal, which is blanked with it. *)
Masked(s, kinds) ==
    [i \in 1 .. Len(s) |->
        IF kinds[i] \in {"code", "name"} \/ (s[i] = "nl" /\ kinds[i] # "escape")
        THEN s[i] ELSE "sp"]

Hidden(kinds) == {i \in DOMAIN kinds : kinds[i] \in {"string", "escape", "comment"}}

=============================================================================
