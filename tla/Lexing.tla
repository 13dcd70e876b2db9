------------------------------- MODULE Lexing -------------------------------
(***************************************************************************)
(* Every text over small alphabets, typed one phrase at a time, and what    *)
(* the scanners make of it.  The detectors read a source through one        *)
(* scanner and --prepare rewrites it through another; --fix searches a      *)
(* generated file through one and --load-check splits it with another.  The *)
(* two of a dialect must mean the same text, and the splitter what psql does, *)
(* which is below from its own rules.                                       *)
(***************************************************************************)
EXTENDS PgScript

CONSTANTS
    Alphabets,     \* dialect -> sets of phrases (symbols in a row) a text is written in
    MaxLength      \* bound of the model: dialect -> the phrases of a text

ASSUME LexingAssumption ==
    /\ DOMAIN Alphabets = {"mysql", "mssql", "oracle", "postgres"}
    /\ \A d \in DOMAIN Alphabets : \A phrases \in Alphabets[d] : phrases \subseteq Seq(STRING)
    /\ MaxLength \in [DOMAIN Alphabets -> Nat]

VARIABLES dialect, alphabet, text,
          typed         \* the phrases text is made of

vars == <<dialect, alphabet, text, typed>>

Init ==
    /\ dialect \in DOMAIN Alphabets
    /\ alphabet \in Alphabets[dialect]
    /\ text = <<>> /\ typed = 0

Type ==
    /\ typed < MaxLength[dialect] /\ typed' = typed + 1
    /\ \E phrase \in alphabet : text' = text \o phrase
    /\ UNCHANGED <<dialect, alphabet>>

Rest == typed = MaxLength[dialect] /\ UNCHANGED vars

Next == Type \/ Rest

Spec == Init /\ [][Next]_vars

-----------------------------------------------------------------------------
(* What the detectors of the dialect see, or the fixes of a generated file *)
MaskKinds(s) ==
    CASE dialect = "mysql"  -> KindsOf(s, MySqlMask)
      [] dialect = "mssql"  -> KindsOf(s, MsSqlMask)
      [] dialect = "oracle" -> KindsOf(s, OracleMask)
      [] dialect = "postgres" -> KindsOf(s, LiteralMask)

(* What the preparers of the dialect see, or the load check of a generated file *)
PrepareKinds(s) ==
    CASE dialect = "mysql"  -> KindsOf(s, MySqlSegments)
      [] dialect = "mssql"  -> KindsOf(s, MsSqlBrackets)
      [] dialect = "oracle" -> KindsOf(s, OracleSegments)
      [] dialect = "postgres" -> KindsOf(s, ScriptSegments)

Has(word) == \E i \in DOMAIN text : At(text, i, word)

(* The text ends outside every literal, name and comment *)
Finished(s) == ModeAfter(s, MsSqlMask) = "code"

NestedComment(s) ==
    \E i, j \in DOMAIN s : /\ i + 1 < j /\ At(s, i, <<"/", "*">>) /\ At(s, j, <<"/", "*">>)
                          /\ \A k \in i .. j : MaskKinds(s)[k] = "comment"

NameOverLines(s) == \E i \in DOMAIN s : s[i] = "nl" /\ MaskKinds(s)[i] = "name"

EndsInDashes == Len(text) > 1 /\ At(text, Len(text) - 1, <<"-", "-">>)

(* What --prepare does not touch in a MySQL dump is what the detectors do not   *)
(* look at: the two scanners agree on every literal and comment, escapes and    *)
(* unfinished texts included (mysql_lex.py:66-152, prepare.py:35-83).  The one  *)
(* exception is a bare -- at the end of a file.                                 *)
MySqlAgree ==
    dialect = "mysql" /\ ~EndsInDashes =>
        Hidden(MaskKinds(text)) = Hidden(PrepareKinds(text))

(* The same for Oracle (plsql_lex.py:122-225, prepare.py:252-314), for texts    *)
(* whose q-quotes close, without REM lines, quoted names or a $ before a quote. *)
(* Each of the four is a difference (PreparersReadTheDialect below).            *)
OracleAgree ==
    /\ dialect = "oracle"
    /\ ~Has(<<"rem">>) /\ ~Has(<<"dq">>) /\ ~Has(<<"$">>)
    /\ \A i \in DOMAIN text :
            LET open == QOpen(text, i, Letters) IN open # 0 => QEnd(text, open) # 0
    => Hidden(MaskKinds(text)) = Hidden(PrepareKinds(text))

(* prepare_mssql_brackets rewrites names only: by the lexer's rules nothing it   *)
(* touches is in a literal or a comment, and nothing it takes for a literal or a  *)
(* comment is code (prepare.py:471-472 "Strings and comments are left alone"),    *)
(* in finished texts without a comment in a comment or a name over two lines.     *)
BracketsAreNames ==
    /\ dialect = "mssql" /\ Finished(text)
    /\ ~NestedComment(text) /\ ~NameOverLines(text)
    => Hidden(MaskKinds(text)) = Hidden(PrepareKinds(text))

(* What a preparer takes for a literal or a comment is what the detectors do, in *)
(* each dialect under its conditions.                                            *)
PreparersAgree == MySqlAgree /\ OracleAgree /\ BracketsAreNames

-----------------------------------------------------------------------------
(* Generated files *)

(* What a fix sees ends inside the dollar quote: no quote or comment in it is open *)
(* at its end, where the scanner of the fixes would read on                        *)
BodyCloses(body) ==
    LET inside == Append(SpanText(text, body), "a") IN KindsOf(inside, LiteralMask)[Len(inside)] = "code"

Bodies ==
    LET kinds == PrepareKinds(text)
        starts == {i \in DOMAIN text : kinds[i] = "body" /\ (i = 1 \/ kinds[i - 1] # "body")}
        past(i) == Min({j \in i .. Len(text) : kinds[j] # "body"} \cup {Len(text) + 1})
    IN  {Span(i, past(i)) : i \in starts}

(* A fix searches what --load-check and psql take for code and the text of routine  *)
(* bodies, nothing else (pg_script.py:290-390, "so a pattern search over generated   *)
(* PostgreSQL finds code only"), in files psql could read to their end, without      *)
(* backslash commands or the data of a COPY, whose bodies hold no open quote or       *)
(* comment.                                                                          *)
FixesSeeCode ==
    dialect = "postgres" =>
        LET script == parse_script(text)
            seen == MaskKinds(text)
            sent == PrepareKinds(text)
            copies == \E st \in script.statements : CopiesFromStdin(SpanText(text, st))
            bodiesClose == \A body \in Bodies : BodyCloses(body)
        IN  script.complete /\ script.metas = {} /\ ~copies /\ bodiesClose =>
                \A i \in DOMAIN text : sent[i] # "body" => (seen[i] = "code" <=> sent[i] = "code")

(* No backslash command stands inside a statement *)
MetasStandApart(script) ==
    \A meta \in script.metas, st \in script.statements : ~(st.from < meta.from /\ meta.from < st.to)

(* Blanking does not move the splitter: it reads what a load check sends as the      *)
(* statements it has not blanked, at the same places and lines, and finds nothing     *)
(* left to blank (pg_script.py:19-22), in files without a backslash command inside a  *)
(* statement.  Whether psql reads the same is SentIsHarmless.                         *)
SentAsKept ==
    dialect = "postgres" =>
        LET script == parse_script(text)
            removed == Neutralised(text, script)
            sent == sanitize(text, script)
            left == parse_script(sent)
        IN  script.complete /\ MetasStandApart(script) =>
                /\ left.complete /\ left.statements = script.statements \ removed
                /\ Neutralised(sent, left) = {}
                /\ \A i \in DOMAIN text : text[i] = "nl" <=> sent[i] = "nl"

-----------------------------------------------------------------------------
(* psql, from the rules of its own scanner (psqlscan.l): one symbol at a time, with *)
(* the state its start conditions, nesting and query buffer amount to.  Left out:    *)
(* the data of a COPY, variables (:name) and the BEGIN ATOMIC of a function.         *)

(* lead: the first words of the statement, "--" for a comment among them, "" for     *)
(* whatever ends them; apart: no E'...' has gone on after a line break, and no quote  *)
(* with a mark before it ($$, E') has begun right behind a $ or a number              *)
PsqlStart ==
    [mode |-> "code", skip |-> 0, level |-> 0, tag |-> <<>>, name |-> FALSE, depth |-> 0,
     start |-> 0, lead |-> <<>>, sent |-> {}, metas |-> 0, apart |-> TRUE]

Enters(q, mode, skip) == [q EXCEPT !.mode = mode, !.skip = skip, !.name = FALSE]

WithLead(q, item) ==
    IF q.lead # <<>> /\ q.lead[Len(q.lead)] = "" THEN q ELSE [q EXCEPT !.lead = Append(@, item)]

Comments(q) == IF q.start = 0 THEN q ELSE WithLead(q, "--")

(* <xqs>{quotecontinue}: past a literal's quote at i there is a line break and another *)
Continues(s, i) ==
    LET next == AfterBlanks(s, i + 1)
    IN  At(s, next, <<"'">>) /\ \E k \in i + 1 .. next - 1 : s[k] = "nl"

(* The symbol goes on with the name before it *)
SameName(q, s, i) ==
    q.name /\ \/ s[i] \in Numbers \cup {"$"}
              \/ {s[i - 1], s[i]} \subseteq Letters \cup {"e", "$"} \cup Numbers

(* Inside a literal (xq, xe), a quoted name (xd), a dollar quote (xdolq), a comment    *)
(* (xc) or the arguments of a backslash command                                       *)
PsqlInside(q, s, i) ==
    CASE q.mode \in {"line", "meta"} -> IF s[i] = "nl" THEN Enters(q, "code", 0) ELSE q
      [] q.mode = "comment" /\ At(s, i, <<"/", "*">>) -> [q EXCEPT !.level = @ + 1, !.skip = 1]
      [] q.mode = "comment" /\ At(s, i, <<"*", "/">>) ->
            [Enters(q, IF q.level = 1 THEN "code" ELSE "comment", 1) EXCEPT !.level = @ - 1]
      [] q.mode = "escape" /\ s[i] = "\\" -> [q EXCEPT !.skip = 1]
      [] q.mode \in {"quote", "escape"} /\ s[i] = "'" ->
            CASE At(s, i, <<"'", "'">>) -> [q EXCEPT !.skip = 1]
              [] Continues(s, i) -> [q EXCEPT !.skip = AfterBlanks(s, i + 1) - i,
                                              !.apart = @ /\ q.mode # "escape"]
              [] OTHER -> Enters(q, "code", 0)
      [] q.mode = "name" /\ s[i] = "dq" ->
            IF At(s, i, <<"dq", "dq">>) THEN [q EXCEPT !.skip = 1] ELSE Enters(q, "code", 0)
      [] q.mode = "body" /\ At(s, i, q.tag) -> Enters(q, "code", Len(q.tag) - 1)
      [] OTHER -> q

PsqlCode(q, s, i) ==
    LET begun == [q EXCEPT !.start = IF @ = 0 THEN i ELSE @]
        other == WithLead(begun, "")
        tag == IF At(s, i, <<"$", "$">>) THEN <<"$", "$">>
               ELSE IF i + 2 <= Len(s) /\ s[i] = "$" /\ Identifier(s[i + 1]) /\ s[i + 2] = "$"
               THEN SubSeq(s, i, i + 2) ELSE <<>>
        free == i = 1 \/ s[i - 1] \notin Numbers \cup {"$"}
        sent == [from |-> begun.start, to |-> i + 1, lead |-> q.lead]
    IN  CASE s[i] \in Blanks -> [q EXCEPT !.name = FALSE]
          [] At(s, i, <<"-", "-">>) -> Enters(Comments(q), "line", 0)
          [] At(s, i, <<"/", "*">>) -> [Enters(Comments(q), "comment", 1) EXCEPT !.level = 1]
          [] s[i] = "\\" -> [Enters(q, "meta", 0) EXCEPT !.metas = @ + 1]
          [] SameName(q, s, i) -> q
          [] At(s, i, <<"e", "'">>) -> [Enters(other, "escape", 1) EXCEPT !.apart = @ /\ free]
          [] s[i] = "'" -> Enters(other, "quote", 0)
          [] s[i] = "dq" -> Enters(other, "name", 0)
          [] tag # <<>> -> [Enters(other, "body", Len(tag) - 1) EXCEPT !.tag = tag, !.apart = @ /\ free]
          [] Identifier(s[i]) /\ ~At(s, i, <<"e", "'">>) -> [WithLead(begun, s[i]) EXCEPT !.name = TRUE]
          [] s[i] = ";" /\ q.depth = 0 ->
                [q EXCEPT !.name = FALSE, !.start = 0, !.lead = <<>>, !.sent = @ \cup {sent}]
          [] OTHER -> [other EXCEPT !.name = FALSE,
                                    !.depth = IF s[i] = "(" THEN @ + 1
                                              ELSE IF s[i] = ")" /\ @ > 0 THEN @ - 1 ELSE @]

PsqlStep(q, s, i) ==
    IF q.skip > 0 THEN [q EXCEPT !.skip = @ - 1]
    ELSE IF q.mode = "code" THEN PsqlCode(q, s, i) ELSE PsqlInside(q, s, i)

(* The end of a file ends its last statement *)
Psql(s) ==
    LET after[i \in 0 .. Len(s)] ==
            IF i = 0 THEN PsqlStart ELSE LET q == after[i - 1] IN PsqlStep(q, s, i)
        end == after[Len(s)]
    IN  IF end.start = 0 THEN end
        ELSE [end EXCEPT !.sent = @ \cup {[from |-> end.start, to |-> Len(s) + 1, lead |-> end.lead]}]

(* The server's TransactionStmt, and the setting that turns the check of bodies off *)
EndsTheCheck(words) ==
    LET word(k) == IF k <= Len(words) THEN words[k] ELSE ""
        set(k) == word(k) = "CHECK_FUNCTION_BODIES"
    IN  \/ word(1) \in {"BEGIN", "COMMIT", "END", "ROLLBACK", "ABORT", "SAVEPOINT", "RELEASE"}
        \/ word(1) \in {"START", "PREPARE"} /\ word(2) = "TRANSACTION"
        \/ word(1) = "SET" /\ (set(2) \/ (word(2) \in {"SESSION", "LOCAL"} /\ set(3)))

(* A statement's words: a comment is a blank to the server *)
WordsOf(st) == SelectSeq(st.lead, LAMBDA item : item # "--")

(* The words before its first comment *)
WordsAtOnce(st) == SubSeq(st.lead, 1, Min({k \in DOMAIN st.lead : st.lead[k] = "--"} \cup {Len(st.lead) + 1}) - 1)

Copies(script) == \E st \in script.statements : CopiesFromStdin(SpanText(text, st))

(* What a load check sends is to psql, by its own rules, the statements kept, whole   *)
(* and at the same places, no backslash command, and none the server takes for        *)
(* transaction control or SET check_function_bodies by the words before its first      *)
(* comment (pg_script.py:15-17, 24-27).  Of files the splitter reads to the end,        *)
(* without a backslash command inside a statement, the data of a COPY, an E'...' that   *)
(* goes on after a line break, or a $$ or E' right behind a $ or a number.  Of these     *)
(* the code is not right: SplitsAsPsql and NothingEndsTheCheck, below, do not hold.      *)
SentIsHarmless ==
    dialect = "postgres" =>
        LET script == parse_script(text)
            psql == Psql(sanitize(text, script))
        IN  script.complete /\ MetasStandApart(script) /\ ~Copies(script) /\ Psql(text).apart
            => /\ psql.mode \in {"code", "line"} /\ psql.metas = 0
               /\ {Span(st.from, st.to) : st \in psql.sent} = script.statements \ Neutralised(text, script)
               /\ \A st \in psql.sent : ~EndsTheCheck(WordsAtOnce(st))

-----------------------------------------------------------------------------
(* Statements of the sources that do not hold of the code.                    *)

(* mysql_lex.py:157-159, "preserving length and newlines, so absolute offsets  *)
(* and line numbers stay valid": the line breaks a detector counts lines by    *)
(* are those of the source.                                                    *)
KeepsLines ==
    LET seen == Masked(text, MaskKinds(text))
    IN  \A i \in DOMAIN text : seen[i] = "nl" <=> text[i] = "nl"

(* prepare.py:20-22, "Every preparer works on the source dialect's own lexical *)
(* rules (strings, comments, quoted names), so nothing inside a literal or a   *)
(* comment is touched".                                                        *)
PreparersReadTheDialect == Hidden(MaskKinds(text)) = Hidden(PrepareKinds(text))

(* pg_script.py:24-27, "The lexer mirrors psql's own rules for where a statement  *)
(* ends": of every file it reads to the end, but for the data of a COPY.           *)
SplitsAsPsql ==
    LET script == parse_script(text)
    IN  dialect = "postgres" /\ script.complete /\ ~Copies(script) =>
            {Span(st.from, st.to) : st \in Psql(text).sent} = script.statements

(* pg_script.py:15-17: a top-level COMMIT, END, BEGIN or ROLLBACK is blanked, so   *)
(* that nothing ends the check's own transaction.                                  *)
NothingEndsTheCheck ==
    LET script == parse_script(text)
    IN  dialect = "postgres" /\ script.complete /\ ~Copies(script) =>
            \A st \in Psql(sanitize(text, script)).sent : ~EndsTheCheck(WordsOf(st))
=============================================================================
