---------------------------- MODULE MCDetecting ----------------------------
(***************************************************************************)
(* The statements the hand-written detectors report, after the samples of  *)
(* their tests (tests/test_<detector>.py), and the instance TLC checks.    *)
(***************************************************************************)
EXTENDS Detecting, TLC

Done == <<"END", ";", "nl", "/", "nl">>
Body(code) == <<"CREATE", "PROCEDURE", "P", "IS", "BEGIN">> \o code \o <<";">> \o Done
Declaring(code) == <<"CREATE", "PROCEDURE", "P">> \o code \o <<"BEGIN", "NULL", ";">> \o Done
Trigger(code) == <<"CREATE", "TRIGGER", "G">> \o code \o Done
Package(code) == <<"CREATE", "PACKAGE", "T", "AS", "nl">> \o code \o <<"nl">> \o Done
PackageBody(code) == <<"CREATE", "PACKAGE", "BODY", "T", "AS", "nl">> \o code \o <<"nl">> \o Done
Column(code) == <<"CREATE", "TABLE", "T", "(", "A", "INT", ",">> \o code \o <<")", ";", "nl">>

-----------------------------------------------------------------------------
(* Objects that ora2pg loses something of, and others that share their names   *)

RowTrigger ==
    <<"CREATE", "TRIGGER", "H", "BEFORE", "INSERT", "ON", "T", "FOR", "EACH", "ROW", "BEGIN", "NULL", ";">> \o Done
StatementTrigger == Trigger(<<"AFTER", "INSERT", "ON", "T", "BEGIN", "NULL", ";">>)
TextConstants ==
    PackageBody(<<"A", "CONSTANT", "VARCHAR2", ":=", "sp", "'", "C", "'", "'", "'", ";", "nl", "B", "CONSTANT",
                  "VARCHAR2", ":=", "A", "|", "|", "sp", "'", ";", "'", ";", "nl", "FUNCTION", "F", "(", "X",
                  "VARCHAR2", "DEFAULT", "A", ")", "RETURN", "VARCHAR2", "IS", "BEGIN", "RETURN", "B", ";", "END", ";">>)
NumberConstant ==
    PackageBody(<<"A", "CONSTANT", "NUMBER", ":=", "7", ";", "nl", "FUNCTION", "F", "(", "B", "NUMBER", ":=", "A",
                  ")", "RETURN", "NUMBER", "IS", "BEGIN", "RETURN", "A", ";", "END", ";">>)
(* a constant A of another package, a variable, and a constant A of a routine *)
OtherPackage ==
    <<"CREATE", "PACKAGE", "BODY", "U", "AS", "nl", "A", "CONSTANT", "VARCHAR2", "DEFAULT", "sp", "'", "E", "'", ";",
      "nl", "B", "VARCHAR2", ":=", "sp", "'", "C", "'", ";", "nl", "FUNCTION", "F", "(", "X", "VARCHAR2", "DEFAULT",
      "A", ")", "RETURN", "VARCHAR2", "IS", "nl", "D", "CONSTANT", "NUMBER", ":=", "1", ";", "BEGIN", "RETURN", "B",
      ";", "END", ";", "nl">> \o Done
LocalConstant ==
    <<"CREATE", "PROCEDURE", "P", "IS", "nl", "A", "CONSTANT", "NUMBER", ":=", "1", ";", "BEGIN", "NULL", ";">> \o Done
(* a row trigger whose name goes on where that of the statement trigger ends; a package of *)
(* another schema with the name of one here; a constant made of another package's          *)
LongerName ==
    <<"CREATE", "TRIGGER", "G$2", "AFTER", "INSERT", "ON", "T", "FOR", "EACH", "ROW", "BEGIN", "NULL", ";">> \o Done
OtherSchema ==
    <<"CREATE", "PACKAGE", "BODY", "S", ".", "T", "AS", "nl", "A", "CONSTANT", "VARCHAR2", ":=", "sp", "'", "Z", "'", ";", "nl",
      "FUNCTION", "F", "(", "X", "VARCHAR2", ")", "RETURN", "VARCHAR2", "IS", "BEGIN", "RETURN", "A", ";", "END", ";", "nl">> \o Done
OfAnother ==
    <<"CREATE", "PACKAGE", "BODY", "V", "AS", "nl", "A", "CONSTANT", "VARCHAR2", ":=", "sp", "'", "C", "'", ";", "nl", "B",
      "CONSTANT", "VARCHAR2", ":=", "U", ".", "A", "|", "|", "sp", "'", "D", "'", ";", "nl", "FUNCTION", "F", "(", "X",
      "VARCHAR2", ")", "RETURN", "VARCHAR2", "IS", "BEGIN", "RETURN", "B", ";", "END", ";", "nl">> \o Done
EnumTable == Column(<<"C", "ENUM", "(", "'", "D", "'", ",", "'", "E", "'", ")">>)
ClosingValue ==
    <<"CREATE", "TABLE", "W", "(", "A", "CHAR", "DEFAULT", "sp", "'", ")", "'", ",", "C", "ENUM", "(", "'", "D", "'", ")", ")", ";", "nl">>
TwoEnums ==
    <<"CREATE", "TABLE", "sp", "bt", "U", "bt", "sp", "(", "bt", "C", "bt", "sp", "ENUM", "(", "'", "D", "'", "'",
      "E", "'", ")", ",", "D", "ENUM", "(", "'", "F", "'", ",", "'", "\\", "'", "'", ")", ")", ";", "nl">>

(* Objects that say something of names the specimens of a detector use: one that a *)
(* detector takes for the whole file, and a routine whose A and B are of types of   *)
(* its own                                                                          *)
UsesCursor ==
    <<"CREATE", "PROCEDURE", "O", "IS", "R", "C", "%", "ROWTYPE", ";", "BEGIN", "NULL", ";">> \o Done
Keyed == <<"CREATE", "TABLE", "W", "(", "A", "INT", ",", "KEY", "K", "(", "A", ")", ")", ";", "nl">>
Indexed == <<"CREATE", "INDEX", "I", "ON", "W", "(", "A", ")", ";", "nl", "GO", "nl">>
Schema == <<"CREATE", "SCHEMA", "S", ";", "nl">>
DeclaresF == <<"CREATE", "PROCEDURE", "O", "IS", "nl", "F", "NUMBER", ";", "BEGIN", "NULL", ";">> \o Done
RunsAsDefiner ==
    <<"CREATE", "DEFINER", "=", "r", "@", "l", "PROCEDURE", "O", "(", ")", "BEGIN", "END", ";", "nl">>
OtherRoutine == <<"CREATE", "FUNCTION", "O", "(", ")", "BEGIN", "END", ";", "nl">>
OtherTrigger ==
    <<"CREATE", "TRIGGER", "O", "AFTER", "INSERT", "ON", "T", "BEGIN", "END", ";", "nl">>
ReadsA == <<"CREATE", "PROCEDURE", "O", "IS", "BEGIN", "C", ":=", "A", ";", "C", ":=", "T", ".", "A", ";">> \o Done
OtherTypes ==
    <<"CREATE", "PROCEDURE", "O", "(", "A", "VARCHAR2", ",", "B", "CLOB", ")", "IS", "BEGIN", "C", ":=", "A", "-", "B", ";",
      "C", ":=", "A", "/", "B", ";", "C", ":=", "TRUNC", "(", "A", "/", "7", ")", ";", "C", ":=", "ROUND", "(", "A", ")", ";",
      "C", ":=", "TO_CHAR", "(", "A", ")", ";", "IF", "B", "=", "sp", "'", "'", "THEN", "NULL", ";", "END", "IF", ";">> \o Done
Typing == {"date_arithmetic", "integer_division", "trunc_number", "round_date", "to_char_default_format", "empty_string_null"}

MCCompanions ==
    [statement_trigger |-> {RowTrigger, LongerName},
     package_constant_chain |-> {OtherPackage, LocalConstant, ReadsA, OtherSchema, OfAnother},
     package_constant_default |-> {OtherPackage, LocalConstant},
     mysql_enum_type |-> {TwoEnums, ClosingValue},
     cursor_rowtype |-> {UsesCursor},
     mysql_index_name_collision |-> {Keyed},
     mssql_index_name_collision |-> {Indexed},
     schema_qualified_name |-> {Schema},
     mssql_schema_qualified_name |-> {Schema},
     call_result_member |-> {DeclaresF},
     mysql_create_table_if_not_exists |-> {RunsAsDefiner},
     mysql_temporary_table |-> {RunsAsDefiner},
     mysql_delimiter_routine |-> {OtherRoutine},
     mysql_delimiter_trigger |-> {OtherTrigger}]
    @@ [name \in Typing |-> {OtherTypes}]

(* What ora2pg writes for them (tests/fixtures/source_fixes/*_output.sql, and the shapes of  *)
(* a chain in tests/test_source_fixes.py:60-90, :220-236)                                    *)
AsItIs(text) == {[written |-> text, meant |-> text]}
Quoted(body) == <<"AS", "sp", "$", "BODY", "$", "nl", "BEGIN">> \o body \o <<"END", ";", "nl", "$", "BODY", "$", ";", "nl">>
Function(package, params, value) ==
    <<"CREATE", "OR", "REPLACE", "FUNCTION", package, ".", "F", "(">> \o params \o <<")", "RETURNS", "VARCHAR">>
        \o Quoted(<<"RETURN">> \o value \o <<";">>)
TriggerOutput(name, row, returned) ==
    <<"CREATE", "OR", "REPLACE", "FUNCTION", "trigger_fct_" \o name, "(", ")", "RETURNS", "TRIGGER">>
        \o Quoted(<<"NULL", ";", "RETURN", returned, ";">>)
        \o <<"CREATE", "TRIGGER", name, "AFTER", "INSERT", "ON", "T", "FOR", "EACH", row, "EXECUTE", "PROCEDURE",
             "trigger_fct_" \o name, "(", ")", ";", "nl">>
Typed == <<":", ":", "VARCHAR", "(", "30", ")">>
Read(package, name) == <<"current_setting", "(", "'", package, ".", name, "'", ")">> \o Typed
Bars == <<"|", "|">>
TextA == <<"'", "C", "'", "'", "'">>
PlainRead == <<"current_setting", "(", "'", "T", ".", "A", "'", ")", ":", ":", "TEXT">>
TextB == <<"'", "C", "'", "'", ";", "'">>
ReadsOfB ==
    {<<Read("T", "B"), TextB \o Typed>>,
     <<Read("T", "B") \o <<"A">> \o Bars, TextB>>,
     <<Read("T", "B") \o Read("T", "A") \o Bars, TextB>>,
     <<Read("T", "B") \o <<"'", "D", "'">> \o Bars \o Read("T", "A") \o Bars, TextB>>,
     <<Read("T", "A") \o Bars \o <<"'", "D", "'">>, TextA \o Typed \o Bars \o <<"'", "D", "'">>>>,
     <<PlainRead, TextA \o <<":", ":", "TEXT">>>>,
     <<PlainRead \o Bars \o <<"X">>, TextA \o <<":", ":", "TEXT">> \o Bars \o <<"X">>>>}

MCConverted ==
    LET defaultOf(value) == <<"X", "TEXT", "DEFAULT">> \o value
        row == AsItIs(TriggerOutput("H", "ROW", "NEW"))
        statement == {[written |-> TriggerOutput("G", "ROW", "NEW"), meant |-> TriggerOutput("G", "STATEMENT", "NULL")]}
        kept(d, r) == [written |-> Function("T", defaultOf(d), r[1]), meant |-> Function("T", defaultOf(TextA), r[2])]
        texts == {kept(<<"A">>, r) : r \in ReadsOfB} \cup {kept(<<"T", ".", "A">>, r) : r \in {<<<<"X">>, <<"X">>>>}}
        number == {[written |-> Function("T", defaultOf(<<"A">>), Read("T", "A")),
                    meant |-> Function("T", defaultOf(<<"7">>), <<"7">> \o Typed)]}
        other == {[written |-> Function("U", defaultOf(<<"A">>), r), meant |-> Function("U", defaultOf(<<"'", "E", "'">>), r)] :
                    r \in {Read("U", "B"), Read("U", "D"), <<"A">>}}
                 \cup AsItIs(Function("U", defaultOf(<<"T", ".", "A">>), <<"A">>))
        (* the two parts of the name are two words to a pattern *)
        longer == AsItIs(<<"CREATE", "TRIGGER", "G", "$", "2", "AFTER", "INSERT", "ON", "T", "FOR", "EACH", "ROW", "EXECUTE",
                           "PROCEDURE", "trigger_fct_G$2", "(", ")", ";", "nl">>)
        plain(package, read, value) ==
            {[written |-> Function(package, <<"X", "TEXT">>, read), meant |-> Function(package, <<"X", "TEXT">>, value \o Typed)]}
        type(name, values) == <<"CREATE", "TYPE", name, "AS", "ENUM", "(">> \o values \o <<")", ";", "nl">>
        table(name, columns) == <<"CREATE", "TABLE", name, "(">> \o columns \o <<")", ";", "nl">>
        one == table("T", <<"A", "INT", ",", "C", "T_C_t">>)
        closing == table("W", <<"A", "CHAR", "DEFAULT", "sp", "'", ")", "'", ",", "C", "W_C_t">>)
        two == table("U", <<"C", "U_C_t", ",", "D", "U_D_t">>)
        types == type("U_C_t", <<"'", "D", "'", "'", "E", "'">>)
                 \o type("U_D_t", <<"'", "F", "'", ",", "'", "'", "'", "'">>)
        outputs == <<<<StatementTrigger, statement>>, <<RowTrigger, row>>, <<LongerName, longer>>,
                     <<OtherSchema, plain("T", Read("T", "A"), <<"'", "Z", "'">>)>>,
                     <<OfAnother, plain("V", Read("V", "B"), <<"'", "E", "D", "'">>)>>, <<TextConstants, texts>>,
                     <<NumberConstant, number>>, <<OtherPackage, other>>,
                     <<EnumTable, {[written |-> one, meant |-> type("T_C_t", <<"'", "D", "'", ",", "'", "E", "'">>) \o one]}>>,
                     <<ClosingValue, {[written |-> closing, meant |-> type("W_C_t", <<"'", "D", "'">>) \o closing]}>>,
                     <<TwoEnums, {[written |-> two, meant |-> types \o two]}>>>>
    IN  [text \in {outputs[k][1] : k \in DOMAIN outputs} |->
            outputs[CHOOSE k \in DOMAIN outputs : outputs[k][1] = text][2]]

-----------------------------------------------------------------------------
MCSpecimens ==
    [mysql_create_table_if_not_exists |-> {<<"CREATE", "TABLE", "IF", "NOT", "EXISTS", "T", "(", "A",
        "INT", ")", ";", "nl">>},
     mysql_temporary_table |-> {<<"CREATE", "TEMPORARY", "TABLE", "T", "(", "A", "INT", ")", ";",
        "nl">>},
     mysql_delimiter_routine |-> {<<"DELIMITER", "sp", ";;", "nl", "CREATE", "FUNCTION", "F", "(", ")",
        "BEGIN", "A", ":=", "sp", "'", ";;", "'", ";", "END", ";;", "nl", "DELIMITER", "sp", ";",
        "nl">>, <<"nl", "DELIMITER", "sp", "//", "nl", "CREATE", "DEFINER", "=", "r", "@", "l",
        "PROCEDURE", "P", "(", ")", "BEGIN", "END", "//", "nl">>},
     mysql_delimiter_trigger |-> {<<"DELIMITER", "sp", "//", "nl", "CREATE", "TRIGGER", "G", "AFTER",
        "INSERT", "ON", "T", "BEGIN", "END", "//", "nl">>, <<"DELIMITER", "sp", "//", "nl", "CREATE", "TRIGGER", "G", "AFTER",
        "INSERT", "ON", "T", "BEGIN", "END", "//", "nl", "DELIMITER", "sp", ";", "nl">>,
        <<"DELIMITER", "sp", ";;", "nl", "/", "*", "!", "50003", "sp", "CREATE", "*", "/", "sp",
        "/", "*", "!", "50003", "sp", "DEFINER", "=", "r", "@", "l", "*", "/", "sp", "/", "*",
        "!", "50003", "sp", "TRIGGER", "G", "BEFORE", "INSERT", "ON", "T", "BEGIN", "END", "*",
        "/", ";;", "nl", "DELIMITER", "sp", ";", "nl">>},
     mysql_enum_type |-> {EnumTable},
     mysql_with_rollup |-> {<<"CREATE", "VIEW", "V", "AS", "SELECT", "A", "GROUP", "BY", "A", "WITH",
        "ROLLUP", ";", "nl">>},
     mysql_key_index |-> {Column(<<"KEY", "K", "(", "A", ")">>), Column(<<"KEY", "sp", "(", "A",
        ")">>), Column(<<"KEY", "sp", "bt", "K", "bt", "(", "B", ",", "A", ")">>), Column(<<"A",
        "INT", "DEFAULT", "sp", "'", "KEY", "'", ",", "KEY", "J", "(", "A", ")", ",", "KEY", "K",
        "(", "A", ")">>)},
     mysql_zero_date |-> {Column(<<"B", "DATE", "DEFAULT", "sp", "'", "0000-00-00", "'">>)},
     mysql_index_prefix |-> {Column(<<"KEY", "K", "(", "A", "(", "7", ")", ")">>)},
     mysql_index_name_collision |-> {Column(<<"KEY", "K", "(", "A", ")", ")", ";", "nl", "CREATE",
        "TABLE", "U", "(", "A", "INT", ",", "KEY", "K", "(", "A", ")">>)},
     mysql_versioned_comment |-> {<<"/", "*", "!", "50003", "CREATE", "VIEW", "V", "AS", "A", "*", "/",
        ";", "nl">>, <<"/", "*", "!", "50003", "sp", "CREATE", "ALGORITHM", "=", "A", "*", "/",
        "sp", "/", "*", "!", "50003", "sp", "DEFINER", "=", "sp", "bt", "r", "bt", "@", "bt", "l",
        "bt", "SQL", "SECURITY", "A", "*", "/", "nl", "/", "*", "!", "50003", "sp", "VIEW", "V",
        "AS", "A", "*", "/", ";", "nl">>, <<"/", "*", "!", "50003", "sp", "CREATE", "*", "/",
        "sp", "/", "*", "!", "50003", "sp", "DEFINER", "=", "r", "@", "l", "*", "/", "sp", "/",
        "*", "!", "50003", "sp", "PROCEDURE", "P", "(", ")", "A", "*", "/", ";", "nl">>},
     mssql_go_separator |-> {<<"CREATE", "PROCEDURE", "P", "AS", "BEGIN", "END", "nl", "GO", "nl">>,
        <<"CREATE", "PROCEDURE", "P", "AS", "BEGIN", "A", "=", "sp", "'", "nl", "GO", "nl", "'",
        "END", "nl", "sp", "GO", "7", "nl">>},
     mssql_bracket_identifier |-> {<<"CREATE", "TABLE", "sp", "[", "S", "]", ".", "[", "T", "]", "(",
        "A", "sp", "[", "INT", "]", ")", ";", "nl">>, <<"CREATE", "VIEW", "sp", "[", "V", "]",
        "AS", "SELECT", "sp", "'", "[", "A", "]", "'", ",", "[", "A", "B", "]", ";", "nl", "GO",
        "nl">>},
     mysql_definer_procedure |-> {<<"CREATE", "DEFINER", "=", "'", "r", "'", "@", "'", "l", "'", "sp",
        "PROCEDURE", "P", "(", ")", "BEGIN", "END", ";", "nl">>, <<"CREATE", "DEFINER", "=", "r", "@", "l", "PROCEDURE", "P", "(",
        ")", "BEGIN", "END", ";", "nl">>, <<"CREATE", "DEFINER", "=", "sp", "bt", "r", "bt", "@",
        "bt", "l", "bt", "sp", "PROCEDURE", "P", "(", ")", "A", "=", "sp", "'", "DEFINER", "=",
        "r", "@", "l", "'", ";", "nl">>, <<"CREATE", "DEFINER", "=", "CURRENT_USER", "(", ")",
        "PROCEDURE", "P", "(", ")", "BEGIN", "END", ";", "nl">>},
     table_if_not_exists |-> {<<"CREATE", "TABLE", "IF", "NOT", "EXISTS", "T", "(", "A", "INT", ")",
        ";", "nl">>, <<"CREATE", "TABLE", "IF", "NOT", "EXISTS", "sp", "dq", "T", "dq", "(", "A",
        "INT", "DEFAULT", "sp", "'", "CREATE", "TABLE", "IF", "NOT", "EXISTS", "'", ")", ";",
        "nl">>},
     mssql_index_name_collision |-> {<<"CREATE", "INDEX", "I", "ON", "T", "(", "A", ")", ";", "nl",
        "CREATE", "INDEX", "I", "ON", "U", "(", "A", ")", ";", "nl">>, <<"CREATE", "INDEX", "sp",
        "[", "I", "]", "sp", "ON", "sp", "[", "T", "]", "(", "A", ")", "nl", "GO", "nl", "CREATE",
        "INDEX", "sp", "[", "I", "]", "sp", "ON", "S", ".", "U", "(", "A", ")", "nl", "GO",
        "nl">>},
     mssql_parameterless_procedure |-> {<<"CREATE", "PROCEDURE", "P", "AS", "BEGIN", "END", ";", "nl",
        "GO", "nl">>},
     mssql_schema_qualified_name |-> {<<"CREATE", "TABLE", "S", ".", "T", "(", "A", "INT", ")", ";",
        "nl">>},
     mssql_statement_terminator |-> {<<"CREATE", "VIEW", "V", "AS", "SELECT", "A", "nl", "GO", "nl">>,
        <<"CREATE", "TABLE", "T", "(", "A", "INT", ")", "nl", "CREATE", "TABLE", "U", "(", "A",
        "INT", ")", "nl", "GO", "nl">>},
     mssql_with_rollup |-> {<<"CREATE", "VIEW", "V", "AS", "SELECT", "A", "GROUP", "BY", "A", "WITH",
        "CUBE", ";", "nl", "GO", "nl">>},
     external_table |-> {<<"CREATE", "TABLE", "T", "(", "A", "INT", ")", "ORGANIZATION", "EXTERNAL",
        ";", "nl">>},
     global_temp_table |-> {<<"CREATE", "GLOBAL", "TEMPORARY", "TABLE", "T", "(", "A", "INT", ")", ";",
        "nl">>},
     identity_column |-> {Column(<<"B", "INT", "GENERATED", "ALWAYS", "AS", "IDENTITY", "(", "START",
        ")">>)},
     invisible_column |-> {Column(<<"B", "INT", "INVISIBLE">>)},
     table_partitioning |-> {<<"CREATE", "TABLE", "T", "(", "A", "INT", ")", "PARTITION", "BY", "HASH",
        "(", "A", ")", ";", "nl">>},
     object_table |-> {<<"CREATE", "TABLE", "T", "OF", "O", ";", "nl">>},
     object_type |-> {<<"CREATE", "TYPE", "T", "AS", "OBJECT", "(", "A", "INT", ")", ";", "nl", "/",
        "nl">>},
     public_synonym |-> {<<"CREATE", "PUBLIC", "SYNONYM", "Y", "FOR", "T", ";", "nl">>},
     sequence_without_start |-> {<<"CREATE", "SEQUENCE", "Q", ";", "nl">>, <<"CREATE", "SEQUENCE", "S",
        ".", "Q", "INCREMENT", "BY", "sp", "-", "1", "MAXVALUE", "30", ";", "nl">>, <<"CREATE",
        "SEQUENCE", "sp", "dq", "Q", "dq", "sp", "INCREMENT", "BY", "7", "MINVALUE", "12", "nl",
        "/", "nl">>},
     read_only_view |-> {<<"CREATE", "VIEW", "V", "AS", "A", "WITH", "READ", "ONLY", ";", "nl">>},
     schema_qualified_name |-> {<<"CREATE", "TABLE", "S", ".", "T", "(", "A", "INT", ")", ";", "nl">>},
     compound_triggers |-> {Trigger(<<"FOR", "INSERT", "ON", "T", "COMPOUND", "TRIGGER">>)},
     statement_trigger |-> {StatementTrigger},
     system_trigger |-> {Trigger(<<"AFTER", "LOGON", "ON", "SCHEMA", "BEGIN", "NULL", ";">>)},
     trigger_follows |-> {Trigger(<<"AFTER", "INSERT", "ON", "T", "FOLLOWS", "H", "BEGIN", "NULL",
        ";">>)},
     connect_by |-> {<<"WITH", "RECURSIVE", "C", "AS", "(", "SELECT", "LEVEL", ")", ";", "nl">>},
     connect_by_nocycle |-> {Body(<<"SELECT", "A", "CONNECT", "BY", "NOCYCLE", "PRIOR", "A">>)},
     cursor_rowtype |-> {Declaring(<<"IS", "CURSOR", "C", "IS", "SELECT", ";", "R", "C", "%",
        "ROWTYPE", ";">>)},
     database_link |-> {Body(<<"SELECT", "A", "FROM", "T", "@", "L">>)},
     insert_all |-> {Body(<<"INSERT", "ALL", "INTO", "T">>)},
     json_table |-> {Body(<<"JSON_TABLE", "(", "A", "COLUMNS", "(", "B", ")", ")">>)},
     merge_delete_clause |-> {Body(<<"MERGE", "INTO", "T", "USING", "U", "WHEN", "DELETE", "WHERE",
        "A">>)},
     model_clause |-> {Body(<<"SELECT", "A", "MODEL", "MEASURES", "(", "A", ")", "RULES", "(", ")">>)},
     multiset_operator |-> {Body(<<"A", "MULTISET", "UNION", "B">>)},
     oracle_text |-> {<<"CREATE", "INDEX", "I", "ON", "T", "(", "A", ")", "INDEXTYPE", "IS", "CTXSYS",
        ".", "CONTEXT", ";", "nl">>, Body(<<"CONTAINS", "(", "A", ",", "B", ")", ">", "0">>)},
     recursive_with |-> {Body(<<"WITH", "C", "(", "A", ")", "AS", "(", "SELECT", "UNION", "ALL",
        "SELECT", "FROM", "C", ")", "SELECT">>)},
     rownum_dml |-> {Body(<<"DELETE", "FROM", "T", "WHERE", "ROWNUM", "<", "7">>)},
     hash_identifier |-> {Body(<<"V", "#", ":=", "1">>)},
     instr_occurrence |-> {Body(<<"INSTR", "(", "A", ",", "B", ",", "1", ",", "7", ")">>)},
     substr_start |-> {Body(<<"SUBSTR", "(", "A", ",", "0", ",", "7", ")">>)},
     trim_leading_trailing |-> {Body(<<"TRIM", "(", "LEADING", "A", "FROM", "B", ")">>)},
     ref_cursor_type |-> {Package(<<"TYPE", "R", "IS", "REF", "CURSOR", ";">>)},
     bulk_collect |-> {Body(<<"SELECT", "A", "BULK", "COLLECT", "INTO", "B">>)},
     alt_quote_literal |-> {Body(<<"A", ":=", "q", "'", "[", "B", "]", "'">>), Body(<<"A", ":=", "q",
        "'", "!", "B", "'", "C", "!", "'", "|", "|", "sp", "n", "q", "'", "(", "q", "'", ")",
        "'">>)},
     autonomous_tx |-> {PackageBody(<<"PROCEDURE", "P", "IS", "PRAGMA", "AUTONOMOUS_TRANSACTION", ";",
        "BEGIN", "NULL", ";", "END", ";">>)},
     nested_subprogram |-> {Declaring(<<"IS", "nl", "PROCEDURE", "Q", "IS", "BEGIN", "NULL", ";",
        "END", ";">>)},
     package_constant_chain |-> {TextConstants, Package(<<"A", "CONSTANT", "NUMBER", ":=", "7", ";", "nl", "B",
        "CONSTANT", "NUMBER", ":=", "A", "+", "1", ";">>)},
     package_constant_default |-> {NumberConstant, Package(<<"A", "CONSTANT", "NUMBER", ":=", "7", ";", "nl",
        "PROCEDURE", "P", "(", "B", "NUMBER", ":=", "A", ")", ";">>)},
     package_state |-> {PackageBody(<<"A", "NUMBER", ";", "nl", "PROCEDURE", "P", "IS", "BEGIN",
        "NULL", ";", "END", ";">>)},
     package_type_anchor |-> {Package(<<"SUBTYPE", "R", "IS", "U", ".", "A", "%", "TYPE", ";">>)},
     package_type_reference |-> {Package(<<"TYPE", "R", "IS", "TABLE", "OF", "NUMBER", ";", "nl",
        "PROCEDURE", "P", "(", "V", "R", ")", ";">>)},
     param_default_spacing |-> {Declaring(<<"(", "A", "NUMBER", ":=", "7", ")", "IS">>), <<"CREATE",
        "FUNCTION", "F", "(", "A", "NUMBER", ":=", "F", "(", "7", ")", ",", "B", "VARCHAR2", ":=",
        "'", ":=", "'", ")", "IS", "BEGIN", "A", ":=", "1", ";", "END", ";", "nl", "/", "nl">>},
     param_after_default |-> {Declaring(<<"(", "A", "NUMBER", "DEFAULT", "7", ",", "B", "NUMBER", ")",
        "IS">>)},
     repeated_package_call |-> {PackageBody(<<"PROCEDURE", "Q", "IS", "BEGIN", "NULL", ";", "END", ";",
        "nl", "PROCEDURE", "P", "IS", "BEGIN", "T", ".", "Q", ";", "T", ".", "Q", ";", "END",
        ";">>)},
     supplied_package_call |-> {Body(<<"DBMS_JOB", ".", "RUN", "(", "A", ")">>)},
     dbms_sleep |-> {Body(<<"DBMS_LOCK", ".", "SLEEP", "(", "7", ")">>)},
     dbms_utl_calls |-> {Body(<<"C", ":=", "DBMS_SQL", ".", "OPEN", "(", "A", ")">>)},
     trigger_package_call |-> {Trigger(<<"BEFORE", "INSERT", "ON", "T", "FOR", "EACH", "ROW", "BEGIN",
        "U", ".", "Q", ";">>)},
     char_semantics |-> {<<"CREATE", "TABLE", "T", "(", "A", "CHAR", "(", "7", ")", ")", ";", "nl">>},
     number_as_float |-> {<<"CREATE", "TABLE", "T", "(", "A", "NUMBER", "(", "7", ",", "1", ")", ")",
        ";", "nl">>},
     number_without_precision |-> {<<"CREATE", "TABLE", "T", "(", "A", "NUMBER", ")", ";", "nl">>},
     float_precision |-> {Declaring(<<"IS", "A", "FLOAT", "(", "7", ")", ";">>)},
     plsql_integer_subtype |-> {Declaring(<<"IS", "A", "NATURAL", ";">>), Declaring(<<"IS", "A",
        "POSITIVEN", ":=", "1", ";">>)},
     integer_division |-> {<<"CREATE", "PROCEDURE", "P", "(", "A", "INTEGER", ",", "B", "INTEGER", ")",
        "IS", "BEGIN", "C", ":=", "A", "/", "B", ";", "END", ";", "nl", "/", "nl">>},
     date_arithmetic |-> {<<"CREATE", "PROCEDURE", "P", "(", "A", "DATE", ",", "B", "DATE", ")", "IS",
        "BEGIN", "C", ":=", "TRUNC", "(", "A", ")", "-", "B", ";", "END", ";", "nl", "/", "nl">>,
        <<"CREATE", "PROCEDURE", "P", "(", "A", "DATE", ")", "IS", "BEGIN", "C", ":=", "SYSDATE",
        "-", "A", ";", "END", ";", "nl", "/", "nl">>},
     trunc_number |-> {<<"CREATE", "PROCEDURE", "P", "(", "A", "NUMBER", ")", "IS", "BEGIN", "C", ":=",
        "TRUNC", "(", "A", "/", "7", ")", ";", "END", ";", "nl", "/", "nl">>},
     round_date |-> {<<"CREATE", "PROCEDURE", "P", "(", "A", "DATE", ")", "IS", "BEGIN", "C", ":=",
        "ROUND", "(", "A", ",", "sp", "'", "MM", "'", ")", ";", "END", ";", "nl", "/", "nl">>,
        Body(<<"C", ":=", "ROUND", "(", "SYSDATE", ")">>)},
     to_char_default_format |-> {<<"CREATE", "PROCEDURE", "P", "(", "A", "DATE", ")", "IS", "BEGIN",
        "C", ":=", "TO_CHAR", "(", "A", ")", ";", "END", ";", "nl", "/", "nl">>, Body(<<"C", ":=",
        "TO_CHAR", "(", "SYSDATE", ")">>)},
     to_char_operator |-> {Body(<<"C", ":=", "TO_CHAR", "(", "A", "+", "7", ")">>)},
     empty_string_null |-> {<<"CREATE", "PROCEDURE", "P", "(", "A", "VARCHAR2", ")", "IS", "BEGIN",
        "IF", "A", "=", "sp", "'", "'", "THEN", "NULL", ";", "END", "IF", ";", "END", ";", "nl",
        "/", "nl">>},
     call_result_member |-> {Body(<<"C", ":=", "F", "(", "A", ")", ".", "B">>)}]

MCNeighbours ==
    [oracle |-> {<<"CREATE", "VIEW", "W", "AS", "A", ";", "nl">>,
                 RowTrigger,
                 <<"CREATE", "TABLE", "N", "(", "A", "INT", ")", "nl">>},
     mysql |-> {<<"CREATE", "VIEW", "W", "AS", "A", ";", "nl">>},
     mssql |-> {<<"CREATE", "VIEW", "W", "AS", "A", ";", "nl", "GO", "nl">>}]

MCRestored == {"statement_trigger", "package_constant_chain", "package_constant_default", "mysql_enum_type"}
MCSubjects == Built \cup DOMAIN MCSpecimens

(* the programs under test, as values TLC applies without unfolding them *)
MCFindingsOf ==
    LET findings == [name \in STRING, source \in Seq(STRING) |-> Findings(name, source)]
    IN  findings
MCPreparedOf ==
    LET prepared == [dialect \in STRING, source \in Seq(STRING) |-> Prepare(dialect, source)]
    IN  prepared
MCPartsOf ==
    LET parts == [source \in Seq(STRING) |-> [packages |-> only_packages(source), rest |-> without_packages(source)]]
    IN  parts
MCLearnedOf ==
    LET learned == [dialect \in STRING, source \in Seq(STRING) |-> learn(source, dialect)]
    IN  learned
Knowledge ==
    [triggers : SUBSET STRING,
     constants : Seq([package : STRING, name : STRING, value : Seq(STRING), literal : Seq(STRING)]),
     types : Seq([name : STRING, create : Seq(STRING)])]
MCRestoredOf ==
    LET restored == [sql \in Seq(STRING), knowledge \in Knowledge |-> apply(sql, knowledge)]
    IN  restored
=============================================================================
