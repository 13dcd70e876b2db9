------------------------------ MODULE SqlText ------------------------------
(***************************************************************************)
(* What the detectors read a source through: the masked views of each      *)
(* dialect's lexer, the index of the objects a script creates, and the     *)
(* helpers on statements, parentheses and blocks (lex_common, plsql_lex,   *)
(* mysql_lex, mssql_lex).  Names are in one case here, as upper() leaves   *)
(* them, and a quoted name holds one symbol.                               *)
(***************************************************************************)
EXTENDS MaskedText, TokenPatterns
LOCAL INSTANCE SequencesExt

Ascending(S) == [k \in 1 .. Cardinality(S) |-> CHOOSE x \in S : Cardinality({y \in S : y <= x}) = k]
ToSet_(ms) == {ms[k] : k \in DOMAIN ms}

-----------------------------------------------------------------------------
(* Rewriting *)

(* s[from .. to - 1] replaced by new; from = to puts new in front of from *)
Edit(from, to, new) == [from |-> from, to |-> to, new |-> new]

(* the edits made, none over another *)
Edited(s, edits) ==
    LET kept(i) == i <= Len(s) /\ \A e \in edits : ~(e.from <= i /\ i < e.to)
        at(i) == {e \in edits : e.from = i}
        new(i) == IF at(i) = {} THEN <<>> ELSE (CHOOSE e \in at(i) : TRUE).new
    IN  FlattenSeq([i \in 1 .. Len(s) + 1 |-> new(i) \o IF kept(i) THEN <<s[i]>> ELSE <<>>])

SpanIn(s, from, to) == SubSeq(s, from, to - 1)

(* str.strip() *)
Stripped(s) ==
    LET said == {i \in DOMAIN s : s[i] \notin Blanks}
    IN  IF said = {} THEN <<>> ELSE SubSeq(s, Min(said), Max(said))

-----------------------------------------------------------------------------
(* Masked views: same length as the source, what is hidden in blanks *)

OracleKinds(s) == KindsOf(s, OracleMask)
MySqlKinds(s) == KindsOf(s, MySqlMask)
MsSqlKinds(s) == KindsOf(s, MsSqlMask)

KindsIn(dialect, s) ==
    CASE dialect = "oracle" -> OracleKinds(s)
      [] dialect = "mysql"  -> MySqlKinds(s)
      [] dialect = "mssql"  -> MsSqlKinds(s)

(* mask_strings_and_comments *)
Clean(dialect, s) == Masked(s, KindsIn(dialect, s))

(* mask_comments_only *)
CommentsBlanked(dialect, s) ==
    LET kinds == KindsIn(dialect, s)
    IN  [i \in 1 .. Len(s) |-> IF kinds[i] = "comment" /\ s[i] # "nl" THEN "sp" ELSE s[i]]

(* the literals of an EXECUTE IMMEDIATE: after it, before the next bare ; *)
InDynamicSql(s, kinds, i) ==
    \E m \in ToSet_(FindAll(Words(<<"EXECUTE", "IMMEDIATE">>), s)) :
        /\ kinds[m.at] = "code" /\ m.to <= i
        /\ \A j \in m.to .. i : ~(s[j] = ";" /\ kinds[j] = "code")

(* mask_dynamic_sql_visible *)
DynamicSqlVisible(s) ==
    LET kinds == OracleKinds(s)
        clean == Masked(s, kinds)
    IN  [i \in 1 .. Len(s) |->
            IF kinds[i] = "string" /\ InDynamicSql(s, kinds, i) THEN s[i] ELSE clean[i]]

View(dialect, view, s) ==
    CASE view = "strings_and_comments" -> Clean(dialect, s)
      [] view = "dynamic_sql_visible"  -> DynamicSqlVisible(s)
      [] view = "comments_only"        -> CommentsBlanked(dialect, s)

LineAt(s, i) == 1 + Cardinality({j \in 1 .. i - 1 : s[j] = "nl"})

-----------------------------------------------------------------------------
(* Parentheses and statements *)

(* just past the ) that closes the ( at i, or the end of the text *)
SkipBalancedParens(s, i) ==
    LET from[j \in Nat, depth \in Nat] ==
            IF j > Len(s) THEN j
            ELSE IF s[j] = "(" THEN from[j + 1, depth + 1]
            ELSE IF s[j] = ")" THEN IF depth = 1 THEN j + 1 ELSE from[j + 1, depth - 1]
            ELSE from[j + 1, depth]
    IN  from[i, 0]

(* The ( and the ) of the column list after a table's name, or none *)
TableColumnDefinitionList(s, nameEnd) ==
    LET open == AfterBlanks(s, nameEnd)
    IN  IF open > Len(s) \/ s[open] # "(" THEN <<>>
        ELSE <<open, SkipBalancedParens(s, open) - 1>>

(* Where the pieces of s[from .. to] between commas outside parentheses start *)
(* and end, and whether a piece is the last                                   *)
TopLevelItems(s, from, to) ==
    LET depth(i) == Cardinality({j \in from .. i : s[j] = "("})
                    - Cardinality({j \in from .. i : s[j] = ")"})
        commas == {i \in from .. to : s[i] = "," /\ depth(i) = 0}
        bounds == Ascending(commas \cup {from - 1, to + 1})
    IN  [k \in 1 .. Len(bounds) - 1 |-> <<bounds[k] + 1, bounds[k + 1] - 1>>]

(* call_arguments: none if the parenthesis is never closed *)
CallArguments(s, open) ==
    LET past == SkipBalancedParens(s, open)
        depth(i) == Cardinality({j \in open .. i : s[j] = "("})
                    - Cardinality({j \in open .. i : s[j] = ")"})
    IN  IF depth(past - 1) # 0 THEN <<>>
        ELSE LET spans == TopLevelItems(s, open + 1, past - 2)
             IN  [k \in DOMAIN spans |-> SubSeq(s, spans[k][1], spans[k][2])]


(* The end of the statement around i: its ;, or the next statement of the kind *)
(* (next = 0: there is none), or the end of the text                           *)
StatementEnd(s, i, next) ==
    Min({j \in i .. Len(s) : s[j] = ";"} \cup {Len(s) + 1} \cup ({next} \ {0}))

-----------------------------------------------------------------------------
(* The names of objects *)

OrReplace == Maybe(Words(<<"OR", "REPLACE">>))
IfNotExists == Words(<<"IF", "NOT", "EXISTS">>)

OracleTableHead == Seq_(<<W("CREATE"), Maybe(Words(<<"GLOBAL", "TEMPORARY">>)), W("TABLE"),
                          Maybe(IfNotExists)>>)
MySqlTableHead == Seq_(<<W("CREATE"), Maybe(W("TEMPORARY")), W("TABLE"), Maybe(IfNotExists)>>)
MsSqlTableHead == Words(<<"CREATE", "TABLE">>)

(* _NAME_PART: in brackets, in quotes or bare *)
MsSqlNamePart == Either(<<Tight(<<W("["), Name, W("]")>>), Tight(<<W("dq"), Name, W("dq")>>), Name>>)
MsSqlQualified == Seq_(<<Many(Seq_(<<MsSqlNamePart, W(".")>>)), MsSqlNamePart>>)

(* qualified_name_pattern *)
QualifiedName(dialect, keyword) ==
    Seq_(<<keyword, CASE dialect = "oracle" -> QualifiedBy("dq")
                      [] dialect = "mysql"  -> QualifiedBy("bt")
                      [] dialect = "mssql"  -> MsSqlQualified>>)

TableHead(dialect) ==
    CASE dialect = "oracle" -> OracleTableHead
      [] dialect = "mysql"  -> MySqlTableHead
      [] dialect = "mssql"  -> MsSqlTableHead

(* ;; and // are one symbol where they are a delimiter *)
HoldsSemicolon == {";", ";;"}

(* CREATE DEFINER=... and the rest mysqldump writes before the object *)
MySqlCreate ==
    Seq_(<<W("CREATE"), OrReplace,
           Maybe(Seq_(<<Words(<<"ALGORITHM", "=">>), Name>>)),
           Either(<<Seq_(<<>>), Seq_(<<Words(<<"DEFINER", "=">>), Skip(HoldsSemicolon)>>)>>),
           Maybe(Seq_(<<Words(<<"SQL", "SECURITY">>), Name>>))>>)
MySqlObject(what) == Seq_(<<MySqlCreate, what, Maybe(IfNotExists)>>)
MySqlFunction == Seq_(<<Maybe(W("AGGREGATE")), W("FUNCTION")>>)
MySqlRoutine == Seq_(<<Maybe(W("AGGREGATE")), OneOf({"PROCEDURE", "FUNCTION"})>>)

MsSqlObject(what) ==
    Seq_(<<Either(<<Seq_(<<W("CREATE"), Maybe(Words(<<"OR", "ALTER">>))>>), W("ALTER")>>), what>>)

Editionable == Maybe(OneOf({"EDITIONABLE", "NONEDITIONABLE"}))
OracleObject(what) == Seq_(<<W("CREATE"), OrReplace, Editionable, what>>)
PackageBodyName == QualifiedName("oracle", OracleObject(Words(<<"PACKAGE", "BODY">>)))
PackageSpecName ==
    QualifiedName("oracle", OracleObject(Seq_(<<W("PACKAGE"), NotAhead(W("BODY"))>>)))
StandaloneRoutine == QualifiedName("oracle", OracleObject(OneOf({"FUNCTION", "PROCEDURE"})))
RoutineStart == Seq_(<<LineStart, OneOf({"FUNCTION", "PROCEDURE"}), Name>>)
TriggerName == QualifiedName("oracle", OracleObject(W("TRIGGER")))
ViewName ==
    QualifiedName("oracle", Seq_(<<W("CREATE"), OrReplace, Maybe(OneOf({"FORCE", "NOFORCE"})),
                                   Editionable, Maybe(W("MATERIALIZED")), W("VIEW")>>))

(* The CREATE at i is a privilege of a GRANT or a REVOKE *)
IsInsideGrantOrRevokeStatement(s, i) ==
    LET start == Max({j \in 1 .. i - 1 : s[j] \in {";", "/"}} \cup {0}) + 1
        first == AfterBlanks(s, start)
    IN  first < i /\ s[first] \in {"GRANT", "REVOKE"}

-----------------------------------------------------------------------------
(* The object a place belongs to *)

Entries(s, kind, p) ==
    {[at |-> m.at, kind |-> kind, name |-> IF m.name = 0 THEN "" ELSE s[m.name]] :
        m \in ToSet_(FindAll(p, s))}

(* the first symbol from i on that is no blank of the line *)
AfterSpaces(s, i) ==
    LET from[j \in Nat] == IF j <= Len(s) /\ s[j] = "sp" THEN from[j + 1] ELSE j
    IN  from[i]

LineEnds(s, i) == LET j == AfterSpaces(s, i) IN j > Len(s) \/ s[j] = "nl"

(* A routine's match starts with the blank lines above it: ^\s* *)
RoutineStarts(s) ==
    LET lines(i) == {j \in 1 .. i : /\ j = 1 \/ s[j - 1] = "nl"
                                    /\ \A k \in j .. i - 1 : s[k] \in Blanks}
        ms == FindAll(RoutineStart, s)
    IN  [k \in DOMAIN ms |-> [ms[k] EXCEPT !.at = Min(lines(ms[k].at))]]

OracleIndex(s) ==
    LET created == Entries(s, "package", PackageBodyName) \cup Entries(s, "package", PackageSpecName)
                   \cup Entries(s, "standalone_routine", StandaloneRoutine)
                   \cup Entries(s, "trigger", TriggerName) \cup Entries(s, "view", ViewName)
    IN  {e \in created : ~IsInsideGrantOrRevokeStatement(s, e.at)}
        \cup {[at |-> m.at, kind |-> "nested_routine", name |-> s[m.name]] :
                m \in ToSet_(RoutineStarts(s))}
        \cup {[at |-> i, kind |-> "end", name |-> ""] :
                i \in {j \in DOMAIN s : s[j] = "/" /\ OpensLine(s, j) /\ LineEnds(s, j + 1)}}

DelimiterLine == Seq_(<<LineStart, W("DELIMITER")>>)

MySqlIndex(s) ==
    LET named(kind, what) == Entries(s, kind, QualifiedName("mysql", what))
    IN  named("table", MySqlTableHead)
        \cup named("procedure", MySqlObject(W("PROCEDURE")))
        \cup named("function", MySqlObject(MySqlFunction))
        \cup named("trigger", MySqlObject(W("TRIGGER"))) \cup named("view", MySqlObject(W("VIEW")))
        \cup Entries(s, "end", DelimiterLine)

(* just past GO and its count, if i is a line that holds nothing else before them *)
PastGo(s, i) ==
    LET count == AfterSpaces(s, i + 1)
    IN  IF s[i] # "GO" \/ ~OpensLine(s, i) THEN 0
        ELSE IF count <= Len(s) /\ s[count] \in Numbers THEN count + 1
        ELSE i + 1

GoLines(s) == {i \in DOMAIN s : PastGo(s, i) # 0 /\ LineEnds(s, PastGo(s, i))}

MsSqlIndex(s) ==
    LET named(kind, what) == Entries(s, kind, QualifiedName("mssql", what))
    IN  named("table", MsSqlTableHead)
        \cup named("procedure", MsSqlObject(OneOf({"PROC", "PROCEDURE"})))
        \cup named("function", MsSqlObject(W("FUNCTION")))
        \cup named("trigger", MsSqlObject(W("TRIGGER"))) \cup named("view", MsSqlObject(W("VIEW")))
        \cup {[at |-> i, kind |-> "end", name |-> ""] : i \in GoLines(s)}

IndexOf(dialect, s) ==
    CASE dialect = "oracle" -> OracleIndex(s)
      [] dialect = "mysql"  -> MySqlIndex(s)
      [] dialect = "mssql"  -> MsSqlIndex(s)

UNKNOWN == <<>>
NoEntry == [at |-> 0, kind |-> "end", name |-> ""]

(* the order of the kinds where two entries start at one place: sorted() keeps it *)
KindOrder == [table |-> 1, procedure |-> 2, function |-> 3, trigger |-> 4, view |-> 5,
              package |-> 1, nested_routine |-> 2, standalone_routine |-> 3, end |-> 6]

(* the entry in force at a place: the last one that starts at or before it *)
InForce(index, position) ==
    CHOOSE e \in index \cup {NoEntry} :
        /\ e.at <= position
        /\ \A f \in index : f.at <= position =>
                f.at < e.at \/ (f.at = e.at /\ KindOrder[f.kind] <= KindOrder[e.kind])

(* flat_enclosing_object_name *)
FlatEnclosingObjectName(index, position) ==
    LET e == InForce(index, position) IN IF e.kind = "end" THEN UNKNOWN ELSE <<e.name>>

(* plsql_lex.enclosing_object_name, with _resolved_names: a routine that opens a  *)
(* line belongs to the package in force, if a package is                          *)
OracleEnclosingObjectName(index, position) ==
    LET e == InForce(index, position)
        outer == InForce({f \in index : f.kind # "nested_routine"}, position)
    IN  CASE e.kind = "end" -> UNKNOWN
          [] e.kind = "nested_routine" /\ outer.kind = "package" -> <<outer.name, e.name>>
          [] OTHER -> <<e.name>>

EnclosingObjectName(dialect, index, position) ==
    IF dialect = "oracle" THEN OracleEnclosingObjectName(index, position)
    ELSE FlatEnclosingObjectName(index, position)

(* delimiter_at: the word after the last DELIMITER before i *)
DelimiterAt(s, i) ==
    LET given == {AfterSpaces(s, m.to) : m \in ToSet_(FindAll(DelimiterLine, s))}
        before == {j \in given : j < i /\ s[j] # "nl"}
    IN  IF before = {} THEN ";" ELSE s[Max(before)]

InsideRoutineBody(index, position) ==
    InForce({e \in index : e.kind # "table"}, position).kind \in {"procedure", "function", "trigger"}

=============================================================================
