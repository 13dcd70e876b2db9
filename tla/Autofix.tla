------------------------------ MODULE Autofix ------------------------------
(***************************************************************************)
(* autofix.py and rollup.py: the repairs of --fix, each from the text of a *)
(* generated PostgreSQL file to the text repaired and the number of        *)
(* repairs, and their order for each source dialect.                       *)
(***************************************************************************)
EXTENDS OracleClauses, PgScript
LOCAL INSTANCE SequencesExt

Repaired(text, count) == [text |-> text, count |-> count]
ByEdits(s, edits, count) == Repaired(Edited(s, edits), count)

(* where the quotes, brackets or words of a match are *)
FirstOf(symbol, s, m) == Min({i \in m.at .. m.to - 1 : s[i] = symbol})
LastOf(symbol, s, m) == Max({i \in m.at .. m.to - 1 : s[i] = symbol})
Drop(i) == Edit(i, i + 1, <<>>)

-----------------------------------------------------------------------------
(* Output of -t TABLE and -t PROCEDURE for Oracle *)

IdentityWithOptions ==
    Seq_(<<W("GENERATED"),
           Either(<<W("ALWAYS"), Seq_(<<Words(<<"BY", "DEFAULT">>), Maybe(Words(<<"ON", "NULL">>))>>)>>),
           Words(<<"AS", "IDENTITY", "(">>)>>)

(* IDENTITY ((...)) -> IDENTITY (...), where nothing else is in the outer pair; *)
(* searched in the text as it is, literals and comments included                *)
fix_identity_double_parens(s) ==
    LET outer(m) == m.to - 1
        close(m) == SkipBalancedParens(s, outer(m)) - 1
        wrapped(m) == At(s, outer(m), <<"(", "(">>)
                      /\ SkipBalancedParens(s, outer(m) + 1) = SkipBalancedParens(s, outer(m)) - 1
        found == {m \in ToSet_(FindAll(IdentityWithOptions, s)) : wrapped(m)}
        within(m) == \E n \in found : outer(n) < outer(m) /\ outer(m) <= close(n)
        repaired == {m \in found : ~within(m)}
    IN  ByEdits(s, {Drop(outer(m)) : m \in repaired} \cup {Drop(close(m)) : m \in repaired},
                Cardinality(repaired))

(* WITH of queries one of which names itself -> WITH RECURSIVE, unless SEARCH or *)
(* CYCLE follows; searched the way the detector of the Oracle source is          *)
fix_recursive_with_keyword(s) ==
    LET visible == DynamicSqlVisible(s)
        tables(h) == CommonTables(visible, h)
        past(h) == AfterBlanks(visible, SkipBalancedParens(visible, Last(tables(h)).to - 1))
        searched(h) == past(h) <= Len(s) /\ visible[past(h)] \in {"SEARCH", "CYCLE"}
        recursive(h) == \E t \in ToSet_(tables(h)) : RefersToItself(visible, t)
        repaired == {h \in ToSet_(FindAll(CommonTablesHead, visible)) : ~searched(h) /\ recursive(h)}
    IN  ByEdits(s, {Edit(h.at + 1, h.at + 1, <<"RECURSIVE">>) : h \in repaired}, Cardinality(repaired))

BarePgSleep ==
    Seq_(<<OneOf({";", "BEGIN", "THEN", "ELSE", "LOOP"}), Ahead(Words(<<"PG_SLEEP", "(">>))>>)

(* pg_sleep(1); as a statement -> PERFORM pg_sleep(1); *)
fix_bare_pg_sleep(s) ==
    LET found == ToSet_(FindAll(BarePgSleep, mask_literals(s)))
    IN  ByEdits(s, {Edit(m.to, m.to, <<"PERFORM">>) : m \in found}, Cardinality(found))

(* double precision(10) -> double precision *)
fix_double_precision_length(s) ==
    LET typed == Seq_(<<Words(<<"DOUBLE", "PRECISION", "(">>), NumberLit, W(")")>>)
        found == ToSet_(FindAll(typed, mask_literals(s)))
    IN  ByEdits(s, {Edit(m.at, m.to, <<"DOUBLE", "PRECISION">>) : m \in found}, Cardinality(found))

IntegerSubtypes ==
    {"SIMPLE_INTEGER", "NATURAL", "NATURALN", "POSITIVE", "POSITIVEN", "SIGNTYPE"}

(* a subtype where a declaration ends: a name and a blank before it, and := ; , ) *)
(* DEFAULT or NOT behind                                                          *)
IsDeclared(s, i) ==
    LET before == Max({j \in 1 .. i - 1 : s[j] \notin Blanks} \cup {0})
        behind == AfterBlanks(s, i + 1)
    IN  /\ before > 0 /\ (IdentChar(s[before]) \/ s[before] = "dq")
        /\ s[before] \in {"dq", "$"} => before < i - 1
        /\ behind <= Len(s) /\ s[behind] \in {":=", ";", ",", ")", "DEFAULT", "NOT"}

fix_plsql_integer_subtypes(s) ==
    LET masked == mask_literals(s)
        found == {i \in DOMAIN s : masked[i] \in IntegerSubtypes /\ IsDeclared(masked, i)}
        type(i) == IF s[i] = "SIGNTYPE" THEN "SMALLINT" ELSE "INTEGER"
    IN  ByEdits(s, {Edit(i, i + 1, <<type(i)>>) : i \in found}, Cardinality(found))

(* trim(both leading x from y) -> trim(leading x from y) *)
fix_trim_both_side(s) ==
    LET masked == mask_literals(s)
        trims == Seq_(<<Words(<<"TRIM", "(", "BOTH">>), OneOf({"LEADING", "TRAILING"})>>)
        found == ToSet_(FindAll(trims, masked))
    IN  ByEdits(s, {Edit(LastOf("BOTH", masked, m), m.to - 1, <<>>) : m \in found}, Cardinality(found))

-----------------------------------------------------------------------------
(* Output for MySQL and SQL Server *)

(* LIMIT 5, 10 -> LIMIT 10 OFFSET 5, unless an expression goes on behind *)
LimitComma ==
    Tight(<<Seq_(<<W("LIMIT"), Word, W(","), Word>>),
            NotAhead(Tight(<<ManyTight(OneOf(Blanks)),
                             OneOf({"-", "+", "*", "/", "//", "%", "(", ".", "["})>>))>>)

fix_mysql_limit_comma(s) ==
    LET masked == mask_literals(s)
        found == ToSet_(FindAll(LimitComma, masked))
        offset(m) == masked[AfterBlanks(masked, m.at + 1)]
    IN  ByEdits(s, {Edit(AfterBlanks(masked, m.at + 1), m.to, <<masked[m.to - 1], "OFFSET", offset(m)>>) :
                        m \in found}, Cardinality(found))

(* rewrite_with_rollup: GROUP BY a WITH ROLLUP -> GROUP BY ROLLUP (a), and CUBE *)
rewrite_with_rollup(s, masked) ==
    LET found == ToSet_(FindAll(WithRollup, masked))
        columns(m) == AfterBlanks(masked, FirstOf("BY", masked, m) + 1)
        listed(m) == Stripped(SpanIn(s, columns(m), LastOf("WITH", masked, m)))
    IN  ByEdits(s, {Edit(columns(m), m.to, <<masked[m.to - 1], "(">> \o listed(m) \o <<")">>) : m \in found},
                Cardinality(found))

fix_mysql_with_rollup(s) == rewrite_with_rollup(s, mask_literals(s))
fix_mssql_with_rollup(s) == rewrite_with_rollup(s, mask_literals(s))

(* position(''a'' in b) -> position('a' in b); searched in the text as it is *)
DoubledQuotePosition ==
    Seq_(<<Words(<<"POSITION", "(">>),
           Tight(<<W("'"), W("'"), NotAhead(W("'")), Skip({"'"}), W("'"), W("'"), Spaced>>),
           W("IN")>>)

fix_mssql_charindex_quotes(s) ==
    LET found == ToSet_(FindAll(DoubledQuotePosition, s))
    IN  ByEdits(s, {Drop(FirstOf("'", s, m)) : m \in found} \cup {Drop(LastOf("'", s, m)) : m \in found},
                Cardinality(found))

(* DECLARE, a lone ; and BEGIN, each on a line of its own; searched in the text *)
(* as it is                                                                     *)
EmptyDeclare ==
    LET spaces == ManyTight(W("sp"))
        lineEnd == Tight(<<spaces, W("nl")>>)
    IN  Tight(<<LineStart, spaces, W("DECLARE"), lineEnd, ManyTight(lineEnd),
                spaces, W(";"), lineEnd, ManyTight(lineEnd), Ahead(Tight(<<spaces, W("BEGIN")>>))>>)

fix_mssql_empty_declare(s) ==
    LET found == ToSet_(FindAll(EmptyDeclare, s))
    IN  ByEdits(s, {Edit(m.at, m.to, <<>>) : m \in found}, Cardinality(found))

(* CREATE SCHEMA for each schema a CREATE names and the file does not create,  *)
(* behind the header of the file.  The names are read off the masked text, in  *)
(* which what is between two quotes is blank.                                  *)
PgName == Either(<<Tight(<<W("dq"), NotAhead(W("dq")), Skip({"dq"}), W("dq")>>), Name>>)
PgCreateSchema == Seq_(<<Words(<<"CREATE", "SCHEMA">>), Maybe(IfNotExists), PgName>>)
PgCreateQualified ==
    Seq_(<<W("CREATE"), Maybe(Words(<<"OR", "REPLACE">>)), Maybe(W("UNLOGGED")),
           OneOf({"TABLE", "VIEW", "SEQUENCE", "PROCEDURE", "FUNCTION"}), Maybe(IfNotExists),
           PgName, W("."), PgName>>)
OnErrorStop ==
    Tight(<<LineStart, NotAfter({"sp"}), W("\\"), W("set"), ManyTight(OneOf(Blanks)), W("ON_ERROR_STOP"),
            Skip({"nl"}), W("nl")>>)

(* the name that ends at i, quotes and all *)
NameEndingAt(s, i) ==
    IF s[i] = "dq" THEN SubSeq(s, Max({j \in 1 .. i - 1 : s[j] = "dq"}), i) ELSE <<s[i]>>

SchemaNamed(s, m) ==
    NameEndingAt(s, Max({i \in m.at .. LastOf(".", s, m) - 1 : s[i] \notin Blanks}))

Bare(name) == IF name[1] = "dq" THEN SubSeq(name, 2, Len(name) - 1) ELSE name

\* Mutant of CreatedSchemas: what the file creates is not looked at.
NoCreatedSchemas(s) == {}

CreatedSchemas(s) ==
    {Bare(NameEndingAt(s, m.to - 1)) : m \in ToSet_(FindAll(PgCreateSchema, s))}

fix_mssql_missing_schema(s) ==
    LET masked == mask_literals(s)
        made == CreatedSchemas(masked) \cup {<<"PUBLIC">>, <<"PG_CATALOG">>}
        uses == FindAll(PgCreateQualified, masked)
        named == [k \in DOMAIN uses |-> SchemaNamed(masked, uses[k])]
        needed == {k \in DOMAIN uses : /\ Bare(named[k]) \notin made
                                       /\ \A j \in 1 .. k - 1 : Bare(named[j]) # Bare(named[k])}
        header == Search(OnErrorStop, masked, 1, Len(s))
        at == IF header = <<>> THEN 1 ELSE header[1].to
        gap(k) == IF named[k][1] = "dq" THEN <<"sp">> ELSE <<>>
        create(k) == <<"CREATE", "SCHEMA", "IF", "NOT", "EXISTS">> \o gap(k) \o named[k] \o <<";", "nl">>
        block == FlattenSeq([i \in 1 .. Cardinality(needed) |-> create(Ascending(needed)[i])])
    IN  ByEdits(s, IF needed = {} THEN {} ELSE {Edit(at, at, block)}, Cardinality(needed))

-----------------------------------------------------------------------------
(* FIXERS_BY_DIALECT, and the gaps they repair *)

\* Mutant of FIXERS_BY_DIALECT: the last fixer of a dialect was not entered.
FixersButTheLast ==
    [oracle |-> <<"fix_identity_double_parens", "fix_recursive_with_keyword", "fix_bare_pg_sleep",
                  "fix_double_precision_length", "fix_plsql_integer_subtypes", "fix_trim_both_side">>,
     mysql  |-> <<"fix_mysql_limit_comma">>,
     mssql  |-> <<"fix_mssql_charindex_quotes", "fix_mssql_empty_declare", "fix_mssql_missing_schema">>]

FIXERS_BY_DIALECT ==
    [oracle |-> <<"fix_identity_double_parens", "fix_recursive_with_keyword", "fix_bare_pg_sleep",
                  "fix_double_precision_length", "fix_plsql_integer_subtypes", "fix_trim_both_side">>,
     mysql  |-> <<"fix_mysql_limit_comma", "fix_mysql_with_rollup">>,
     mssql  |-> <<"fix_mssql_charindex_quotes", "fix_mssql_empty_declare", "fix_mssql_missing_schema",
                  "fix_mssql_with_rollup">>]

FIXER_DETECTOR ==
    [fix_identity_double_parens  |-> "identity_column",
     fix_recursive_with_keyword  |-> "recursive_with",
     fix_bare_pg_sleep           |-> "dbms_sleep",
     fix_double_precision_length |-> "float_precision",
     fix_plsql_integer_subtypes  |-> "plsql_integer_subtype",
     fix_trim_both_side          |-> "trim_leading_trailing",
     fix_mysql_limit_comma       |-> "mysql_limit_comma",
     fix_mssql_charindex_quotes  |-> "mssql_charindex",
     fix_mssql_empty_declare     |-> "mssql_parameterless_procedure",
     fix_mssql_missing_schema    |-> "mssql_schema_qualified_name",
     fix_mssql_with_rollup       |-> "mssql_with_rollup",
     fix_mysql_with_rollup       |-> "mysql_with_rollup"]

Fixed(fixer, s) ==
    CASE fixer = "fix_identity_double_parens"  -> fix_identity_double_parens(s)
      [] fixer = "fix_recursive_with_keyword"  -> fix_recursive_with_keyword(s)
      [] fixer = "fix_bare_pg_sleep"           -> fix_bare_pg_sleep(s)
      [] fixer = "fix_double_precision_length" -> fix_double_precision_length(s)
      [] fixer = "fix_plsql_integer_subtypes"  -> fix_plsql_integer_subtypes(s)
      [] fixer = "fix_trim_both_side"          -> fix_trim_both_side(s)
      [] fixer = "fix_mysql_limit_comma"       -> fix_mysql_limit_comma(s)
      [] fixer = "fix_mssql_charindex_quotes"  -> fix_mssql_charindex_quotes(s)
      [] fixer = "fix_mssql_empty_declare"     -> fix_mssql_empty_declare(s)
      [] fixer = "fix_mssql_missing_schema"    -> fix_mssql_missing_schema(s)
      [] fixer = "fix_mssql_with_rollup"       -> fix_mssql_with_rollup(s)
      [] fixer = "fix_mysql_with_rollup"       -> fix_mysql_with_rollup(s)

(* each fixer of the dialect on what the one before it leaves *)
Chain(dialect, s) ==
    LET after(done, fixer) ==
            LET next == Fixed(fixer, done.text) IN Repaired(next.text, done.count + next.count)
    IN  FoldLeft(after, Repaired(s, 0), FIXERS_BY_DIALECT[dialect])

=============================================================================
