------------------------------ MODULE MCFixing ------------------------------
(***************************************************************************)
(* Files as ora2pg writes them for each source, after the samples of the   *)
(* tests (tests/test_autofix*.py), the instance of Fixing TLC checks, and  *)
(* what is said of the texts themselves.                                   *)
(***************************************************************************)
EXTENDS Fixing, Autofix
Scan == INSTANCE Scanning

MCFiles == <<"a.sql", "b.sql">>
MCArguments == {<<"a.sql", "b.sql">>, <<"out">>, <<"a.sql", "out">>, <<"b.sql", "empty">>, <<"a.sql", "a.sql">>}

Header == <<"\\", "set", "sp", "ON_ERROR_STOP", "sp", "ON", "nl">>
Lit(text) == <<"'">> \o text \o <<"'">>
Function(code) ==
    <<"CREATE", "OR", "REPLACE", "FUNCTION", "F", "(", ")", "RETURNS", "VOID", "AS", "sp", "$", "$", "nl">> \o code
        \o <<"END", ";", "nl", "$", "$", "sp", "LANGUAGE", "PLPGSQL", ";", "nl">>

(* Oracle *)
Identity ==
    Header \o <<"CREATE", "TABLE", "T", "(", "A", "BIGINT", "GENERATED", "BY", "DEFAULT", "AS",
                "IDENTITY", "(", "(", "START", "1", ")", ")", ",", "B", "INT", ")", ";", "nl">>
(* a comment of the source, kept as it is, that quotes the clause *)
Commented ==
    Identity \o <<"COMMENT", "ON", "TABLE", "T", "IS", "sp">>
      \o Lit(<<"GENERATED", "BY", "DEFAULT", "AS", "IDENTITY", "(", "(", "START", "1", ")", ")">>) \o <<";", "nl">>
Sleeping ==
    Function(<<"DECLARE", "A", "SIMPLE_INTEGER", ":=", "1", ";", "B", "DOUBLE", "PRECISION", "(", "7", ")",
               ";", "C", "SIGNTYPE", ";", "nl", "BEGIN", "PG_SLEEP", "(", "1", ")", ";", "C", ":=", "sp">>
             \o Lit(<<";", "PG_SLEEP", "(", "1", ")">>) \o <<";", "nl">>)
Recursive(tail) ==
    <<"CREATE", "OR", "REPLACE", "VIEW", "V", "AS", "WITH", "C", "AS", "(", "SELECT", "A", "FROM", "T", ")", ",", "D", "AS", "(",
      "SELECT", "A", "FROM", "C", "UNION", "ALL", "SELECT", "A", "FROM", "D", ")">>
      \o tail \o <<"SELECT", "A", "FROM", "D", ";", "nl">>
Trimming ==
    <<"CREATE", "OR", "REPLACE", "VIEW", "W", "AS", "SELECT", "TRIM", "(", "BOTH", "LEADING", "sp">> \o Lit(<<"A">>)
      \o <<"FROM", "B", ")", ",", "sp">> \o Lit(<<"TRIM", "(", "BOTH", "LEADING", "B">>) \o <<"FROM", "T", ";", "nl">>

(* MySQL *)
Limited ==
    <<"CREATE", "OR", "REPLACE", "VIEW", "V", "AS", "SELECT", "A", ",", "sp">> \o Lit(<<"LIMIT", "1", ",", "7">>)
      \o <<"FROM", "T", "LIMIT", "1", ",", "7", ";", "nl">>
RolledUp ==
    <<"CREATE", "OR", "REPLACE", "VIEW", "V", "AS", "SELECT", "A", "FROM", "(", "SELECT", "B", "FROM", "T", "GROUP", "BY", "B",
      "WITH", "ROLLUP", ")", "U", "GROUP", "BY", "A", ",", "B", "WITH", "ROLLUP", ";", "nl">>
Plain == <<"CREATE", "TABLE", "T", "(", "A", "INT", ")", ";", "nl">>

(* SQL Server *)
InDbo ==
    Header \o <<"CREATE", "TABLE", "DBO", ".", "T", "(", "A", "INT", ")", ";", "nl",
                "CREATE", "OR", "REPLACE", "VIEW", "DBO", ".", "V", "AS", "SELECT", "A", "FROM", "DBO", ".", "T",
                "GROUP", "BY", "A", "WITH", "CUBE", ";", "nl">>
InMade ==
    Header \o <<"CREATE", "SCHEMA", "S", ";", "nl", "CREATE", "TABLE", "S", ".", "T", "(", "A", "INT", ")", ";", "nl",
                "CREATE", "TABLE", "DBO", ".", "U", "(", "A", "INT", ")", ";", "nl">>
EmptyDeclaring ==
    Header \o <<"CREATE", "OR", "REPLACE", "PROCEDURE", "P", "(", ")", "AS", "sp", "$", "$", "nl", "DECLARE", "nl", "nl", ";", "nl",
                "BEGIN", "A", ":=", "POSITION", "(", "'", "'", "X", "'", "'", "sp", "IN", "B", ")", ";", "nl",
                "END", ";", "nl", "$", "$", "sp", "LANGUAGE", "PLPGSQL", ";", "nl">>
Dynamic ==
    Function(<<"BEGIN", "EXECUTE", "sp">>
             \o Lit(<<"SELECT", "POSITION", "(", "'", "'", "X", "'", "'", "sp", "IN", "B", ")">>) \o <<";", "nl">>)

Both(a, b) == [f \in {"a.sql", "b.sql"} |-> IF f = "a.sql" THEN a ELSE b]

MCGenerated ==
    [oracle |-> {Both(Commented, Sleeping), Both(Recursive(<<>>), Trimming),
                 Both(Recursive(<<"SEARCH", "DEPTH", "FIRST", "BY", "A", "SET", "B">>), Missing)},
     mysql  |-> {Both(Limited, RolledUp), Both(Plain, Limited)},
     mssql  |-> {Both(InDbo, InMade), Both(EmptyDeclaring, InDbo)}]
MCBaselines ==
    [oracle |-> {{"identity_column", "recursive_with", "trim_leading_trailing", "dbms_sleep"}, {"authid_clause"}},
     mysql  |-> {{"mysql_with_rollup", "mysql_limit_comma"}, {}},
     mssql  |-> {{"mssql_with_rollup", "mssql_schema_qualified_name"}, {}}]

(* a file with text of dynamic SQL *)
MCDynamic == [mssql |-> {Both(Dynamic, Missing), Both(Dynamic, InDbo)}]

(* the detectors of what the fixers repair *)
Dialects == {"oracle", "mysql", "mssql"}
MCDetectors == [d \in Dialects |-> {n \in {FIXER_DETECTOR[x] : x \in DOMAIN FIXER_DETECTOR} : Scan!DialectOf(n) = d}]

(* the fixers and the detectors, as values TLC applies without unfolding them *)
MCChainOf ==
    LET chain == [d \in STRING, text \in Seq(STRING) |-> Chain(d, text)]
    IN  chain
MCFindingsOf ==
    LET findings == [name \in STRING, text \in Seq(STRING) |-> Scan!Findings(name, text)]
    IN  findings

-----------------------------------------------------------------------------
SeqToSet(text) == {text[i] : i \in DOMAIN text}
Complete(text) == parse_script(text).complete

(* the statements but for CREATE SCHEMA *)
OwnStatements(text) ==
    Cardinality({st \in parse_script(text).statements :
                    SubSeq(LeadingKeywords(SpanText(text, st)), 1, 2) # <<"CREATE", "SCHEMA">>})

(* the literals and quoted names with something in them *)
LiteralsOf(text) ==
    LET from[i \in Nat] ==
            IF i > Len(text) THEN {}
            ELSE LET piece == LiteralMask(text, i, "code")
                     past == i + piece.take
                 IN  (IF piece.kind = "string" /\ piece.take > 2 THEN {SubSeq(text, i, past - 1)} ELSE {})
                     \cup from[past]
    IN  from[1]

(* the clause fix_identity_double_parens looks for, which it finds in a literal too *)
HoldsIdentity(literal) == \E i \in DOMAIN literal : At(literal, i, <<"IDENTITY", "(", "(">>)

(* What a file's author wrote survives its repair (autofix.py:278, "a string or a *)
(* comment is left alone"): it still reads to the end, in as many statements but  *)
(* for the schemas that are created, and for Oracle and MySQL its literals are    *)
(* what they were -- but for one that quotes an identity clause in the broken     *)
(* shape, which is looked for in the text as it is (autofix.py:62).               *)
StatementsKept ==
    \A f \in Present :
        LET kept == {l \in LiteralsOf(generated[f]) : ~HoldsIdentity(l)}
        IN  /\ Complete(disk[f]) = Complete(generated[f])
            /\ Complete(disk[f]) => OwnStatements(disk[f]) = OwnStatements(generated[f])
            /\ dialect # "mssql" => kept \subseteq LiteralsOf(disk[f])

(* When --verify has read only files the fixers are through with, none of the     *)
(* gaps they repair is reported as still there or as new (autofix.py:1-6, the      *)
(* correction is mechanical) -- but for the two the detectors look for in both     *)
(* shapes, and a recursive query with a SEARCH or CYCLE, which is left.            *)
RepairedIsGone ==
    run.mode = "verify" /\ run.ended /\ (\A text \in run.read : Chained(text).count = 0) =>
        LET searched == \E text \in run.read : {"SEARCH", "CYCLE"} \cap SeqToSet(text) # {}
            repaired == (Detectors[dialect] \cap {FIXER_DETECTOR[x] : x \in DOMAIN FIXER_DETECTOR})
                        \ ({"identity_column", "trim_leading_trailing"}
                           \cup IF searched THEN {"recursive_with"} ELSE {})
        IN  \A d \in repaired : /\ d \in baseline => run.report[d] # "still_present"
                                /\ d \notin run.introduced

(* No fix touches a literal that holds something (autofix.py:82-85, :104: the      *)
(* doubled quotes it undoes "can only ever be the broken shape"), which two do.    *)
LiteralsKept == \A f \in Present : LiteralsOf(generated[f]) \subseteq LiteralsOf(disk[f])
=============================================================================
