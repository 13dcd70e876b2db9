----------------------------- MODULE Detecting -----------------------------
(***************************************************************************)
(* A source as it is written, object after object, what a detector finds   *)
(* in it (core.py runs every detector of the dialect on the whole text),   *)
(* what --prepare makes of it, and what --migrate puts back into ora2pg's  *)
(* output with it.  An object may carry the construct of the detector, as  *)
(* code, in a comment, in a literal or in the text an EXECUTE IMMEDIATE    *)
(* runs.                                                                   *)
(***************************************************************************)
EXTENDS Preparers, Scanning, SourceFixes
LOCAL INSTANCE SequencesExt

CONSTANTS Subjects,     \* the detectors under test
          Specimens,    \* [detector -> whole statements it reports]
          Neighbours,   \* [dialect -> the objects that carry nothing]
          Companions,   \* [detector -> objects beside its specimens that share their names]
          Converted,    \* [object -> what ora2pg may write for it, and what that is to be]
          MaxObjects,
          FindingsOf,   \* [detector, source -> findings]: core.py's run of a detector
          PreparedOf,   \* [dialect, source -> source]: prepare_source
          PartsOf,      \* [source -> its packages, its rest]: only_packages, without_packages
          LearnedOf,    \* [dialect, source -> knowledge]: learn
          RestoredOf    \* [output, knowledge -> output]: apply

VARIABLES subject, payload, script
vars == <<subject, payload, script>>

-----------------------------------------------------------------------------
(* The texts a pattern is met in *)

(* a blank between a word and the quote or bracket of the next *)
Beside(a, b) ==
    IF a # <<>> /\ b # <<>> /\ Identifier(Last(a)) /\ b[1] \in Quotes THEN a \o <<"sp">> \o b ELSE a \o b

RECURSIVE Sentences(_)
Sentences(p) ==
    CASE p = NumberLit -> {<<"7">>}
      [] p.is = "one" -> {<<w>> : w \in p.of}
      [] p.is = "name" -> {<<"X">>}
      [] p.is = "seq" -> IF p.of = <<>> THEN {<<>>}
                         ELSE {Beside(a, b) : a \in Sentences(p.of[1]),
                                              b \in Sentences([p EXCEPT !.of = Tail(@)])}
      [] p.is = "alt" -> UNION {Sentences(p.of[k]) : k \in DOMAIN p.of}
      [] p.is \in {"maybe", "many"} -> {<<>>} \cup (Sentences(p.of) \ {<<q>> : q \in Quotes})
      [] p.is = "spaced" -> {<<"sp">>}
      [] OTHER -> {<<>>}

ShortestOf(texts) == CHOOSE t \in texts : \A u \in texts : Len(t) <= Len(u)

-----------------------------------------------------------------------------
(* The objects that may carry a construct: the text around it, and its name *)

Around(before, after, owner) == [before |-> before, after |-> after, owner |-> owner]

OracleBodies ==
    LET done == <<";", "END", ";", "nl", "/", "nl">>
    IN  {Around(<<"CREATE", "PROCEDURE", "P", "IS", "BEGIN">>, done, <<"P">>),
         Around(<<"CREATE", "PACKAGE", "BODY", "PK", "AS", "nl", "PROCEDURE", "F", "IS", "BEGIN">>,
                <<";", "END", ";">> \o done, <<"PK", "F">>)}
MySqlBodies ==
    {Around(<<"DELIMITER", "sp", ";;", "nl", "CREATE", "PROCEDURE", "P", "(", ")", "BEGIN">>,
            <<";", "END", ";;", "nl", "DELIMITER", "sp", ";", "nl">>, <<"P">>),
     Around(<<"CREATE", "VIEW", "V", "AS", "SELECT">>, <<";", "nl">>, <<"V">>)}
MsSqlBodies ==
    {Around(<<"CREATE", "PROCEDURE", "P", "AS", "BEGIN">>, <<";", "END", "nl", "GO", "nl">>, <<"P">>),
     Around(<<"CREATE", "VIEW", "V", "AS", "SELECT">>, <<";", "nl", "GO", "nl">>, <<"V">>)}

BodiesIn(dialect) ==
    CASE dialect = "oracle" -> OracleBodies
      [] dialect = "mysql"  -> MySqlBodies
      [] dialect = "mssql"  -> MsSqlBodies

ShellsOf(spec) ==
    CASE spec.strategy = "enclosing" -> BodiesIn(spec.dialect)
      [] spec.strategy = "table_columns" ->
            {Around(<<"CREATE", "TABLE", "T", "(", "A", "INT", ",">>, <<")", ";", "nl">>, <<"T">>)}
      [] spec.strategy \in {"table_statement", "statement_clause"} ->
            {Around(ShortestOf(Sentences(spec.head)), <<";", "nl">>, <<"X">>)}
      [] spec.strategy = "match_named" -> {Around(<<>>, <<";", "nl">>, <<"X">>)}
      [] spec.strategy = "match_qualified" ->
            {Around(<<>>, <<";", "nl">>, IF "." \in ToSet_(payload) THEN <<"X", "X">> ELSE <<"X">>)}

Object(text, owner, how) == [text |-> text, owner |-> owner, how |-> how]

(* The construct, and how it is written *)
Written(how) ==
    CASE how = "code" -> payload
      [] how = "comment" -> <<"/", "*">> \o payload \o <<"*", "/">>
      [] how = "literal" -> <<"sp", "'">> \o payload \o <<"'">>
      [] how = "dynamic" -> <<"EXECUTE", "IMMEDIATE", "sp", "'">> \o payload \o <<"'">>

(* a literal inside the literal would end it *)
WaysFor(spec) ==
    LET inLiterals == IF spec.dialect = "oracle" /\ spec.strategy = "enclosing"
                      THEN {"literal", "dynamic"} ELSE {"literal"}
    IN  {"code", "comment"} \cup IF "'" \in ToSet_(payload) THEN {} ELSE inLiterals

-----------------------------------------------------------------------------
SpecimensOf(name) == IF name \in DOMAIN Specimens THEN Specimens[name] ELSE {}

Init ==
    /\ subject \in Subjects
    /\ payload \in SpecimensOf(subject)
                   \cup IF subject \in Built THEN Sentences(Specs[subject].pattern) ELSE {}
    /\ script = <<>>

Dialect == DialectOf(subject)
IsSpecimen == payload \in SpecimensOf(subject)
More == Len(script) < MaxObjects
Put(object) == script' = Append(script, object) /\ UNCHANGED <<subject, payload>>

CompanionsOf(name) == IF IsSpecimen /\ name \in DOMAIN Companions THEN Companions[name] ELSE {}

(* An object with nothing for the detector *)
WriteNeighbour ==
    /\ More
    /\ \E text \in Neighbours[Dialect] \cup CompanionsOf(subject) : Put(Object(text, UNKNOWN, "neighbour"))

(* An object with the construct of a detector that is data *)
WriteCarrier ==
    /\ More /\ ~IsSpecimen
    /\ \E shell \in ShellsOf(Specs[subject]), how \in WaysFor(Specs[subject]) :
            Put(Object(shell.before \o Written(how) \o shell.after, shell.owner, how))

Count(symbol, text) == Cardinality({i \in DOMAIN text : text[i] = symbol})
Balanced(text) == Count("(", text) = Count(")", text)

(* The clause of a statement in an object that has no such statement; an open *)
(* parenthesis of it would hold the rest of the file                          *)
WriteStray ==
    /\ More /\ ~IsSpecimen /\ Specs[subject].head # NoPattern /\ Balanced(payload)
    /\ \E shell \in BodiesIn(Dialect) :
            /\ FindAll(Specs[subject].head, shell.before) = <<>>
            /\ Put(Object(shell.before \o payload \o shell.after, shell.owner, "stray"))

(* A whole statement the detector reports *)
WriteSpecimen ==
    /\ More /\ IsSpecimen
    /\ Put(Object(payload, UNKNOWN, "specimen"))

(* the file is written *)
Finished == ~More /\ UNCHANGED vars

Next == WriteNeighbour \/ WriteCarrier \/ WriteStray \/ WriteSpecimen \/ Finished
Spec == Init /\ [][Next]_vars

-----------------------------------------------------------------------------
Source == FlattenSeq([k \in DOMAIN script |-> script[k].text])
Start(k) == Len(FlattenSeq([j \in 1 .. k - 1 |-> script[j].text]))
Found == FindingsOf[subject, Source]
Visible == {"code"} \cup (IF Specs[subject].view = "dynamic_sql_visible" THEN {"dynamic"} ELSE {})

(* The detectors that take what follows a CREATE TABLE for clauses of it, up to the *)
(* end of the statement, and an object of another kind behind a table nothing ends  *)
UntilEnded == {"default_on_null", "index_organized_table", "read_only_table", "temporal_validity"}
ReadOnTo(k) ==
    /\ subject \in UntilEnded /\ script[k].how = "stray"
    /\ \E j \in 1 .. k - 1 : ";" \notin ToSet_(script[j].text)

(* A detector given as data reports its construct in every object that holds it in  *)
(* code, or in the text of an EXECUTE IMMEDIATE where it looks there, and in no     *)
(* other, and the object it blames is the one that holds it -- but for a clause     *)
(* read on to behind a table that nothing ends.                                     *)
BlamesItsObject ==
    ~IsSpecimen =>
        LET found == Found
        IN  \A k \in {i \in DOMAIN script : ~ReadOnTo(i)} :
            LET here == {f \in found : f.at > Start(k) /\ f.at <= Start(k) + Len(script[k].text)}
            IN  {f.object : f \in here} = IF script[k].how \in Visible THEN {script[k].owner} ELSE {}

(* The detectors that report the first of a file only: ora2pg has a setting for it *)
ReportsFirst ==
    {"mssql_schema_qualified_name", "mssql_statement_terminator", "schema_qualified_name",
     "package_type_reference", "char_semantics", "number_as_float", "number_without_precision"}

(* The detectors that take something for the whole file that one object says: its *)
(* cursors, index names and constants, a DELIMITER that is not set back           *)
AddsAcross ==
    {"cursor_rowtype", "mysql_index_name_collision", "mssql_index_name_collision", "package_constant_chain",
     "mysql_delimiter_routine", "mysql_delimiter_trigger"} \cup UntilEnded
(* or its schemas, the names it declares, its DEFINER                             *)
HidesAcross ==
    {"schema_qualified_name", "mssql_schema_qualified_name", "call_result_member",
     "mysql_create_table_if_not_exists", "mysql_temporary_table"}


-----------------------------------------------------------------------------
(* --prepare *)

Prepared == PreparedOf[Dialect, Source]
IsPrepared == subject \in PreparedDetectors[Dialect]

(* DEFINER='user'@'host': the clause is looked for where the literals are blank *)
InQuotes == \E i \in 1 .. Len(Source) - 2 : SubSeq(Source, i, i + 2) = <<"DEFINER", "=", "'">>


(* What the literals of a file say is the same after it is prepared *)
Literals(s) ==
    LET kinds == KindsIn(Dialect, s)
        said == SelectSeq([i \in DOMAIN s |-> <<s[i], kinds[i]>>], LAMBDA c : c[2] = "string")
    IN  [i \in DOMAIN said |-> said[i][1]]
PrepareKeepsLiterals ==
    IsPrepared /\ subject # "alt_quote_literal" => Literals(Prepared) = Literals(Source)

-----------------------------------------------------------------------------
(* --migrate *)

Said(text) == SelectSeq(text, LAMBDA c : c \notin Blanks)
IsPackage(text) == MatchAt(PackageLine, text, AfterBlanks(text, 1)) # <<>>
TextOf(ks) == FlattenSeq([k \in DOMAIN script |-> IF k \in ks THEN script[k].text ELSE <<>>])

(* ora2pg is given every object of an Oracle source once: the packages in one file *)
(* and the rest in the other (migrate.py:134-143, "once from -t PACKAGE, once       *)
(* unqualified -- and the copies fail to load against each other")                  *)
PackagesApart ==
    LET packages == {k \in DOMAIN script : IsPackage(script[k].text)}
        parts == PartsOf[Source]
    IN  /\ Said(parts.packages) = Said(TextOf(packages))
        /\ Said(parts.rest) = Said(TextOf(DOMAIN script \ packages))

(* Where a repair cannot tell two things by their names or quotes: a read before a  *)
(* || of the source, whose cast has no length; a trigger whose name goes on, after  *)
(* a $, where that of a statement trigger ends; a constant made of another          *)
(* package's; packages of one name in two schemas; a parenthesis in a value of a    *)
(* MySQL table                                                                      *)
SchemaOf(text, name) == IF text[name - 1] = "." THEN <<text[name - 2]>> ELSE <<>>
PackageNames ==
    LET named(text) == FindAll(PackageOpens, text)[1].name
    IN  {[schema |-> SchemaOf(o.text, named(o.text)), name |-> o.text[named(o.text)]] :
            o \in {p \in ToSet_(script) : IsPackage(p.text)}}
GoesOn(s) == FindAll(Tight(<<TypeOnly, Pipes>>), s) # <<>>
Ambiguous(written) ==
    \/ GoesOn(written)
    \/ \E name \in LearnedOf[Dialect, Source].triggers :
            FindAll(Seq_(<<W("TRIGGER"), Tight(<<W(name), W("$")>>)>>), written) # <<>>
    \/ FindAll(Seq_(<<W(":="), Tight(<<Name, W("."), Name, Pipes>>)>>), Source) # <<>>
    \/ \E a, b \in PackageNames : a.name = b.name /\ a.schema # b.schema
    \/ Dialect = "mysql" /\ \E i \in DOMAIN Source : Source[i] \in {"(", ")"} /\ KindsIn(Dialect, Source)[i] = "string"

(* What ora2pg writes for the objects of a file, one form for each, and what it is  *)
(* to be                                                                            *)
Known == {k \in DOMAIN script : script[k].text \in DOMAIN Converted}
Conversions ==
    LET forms(k) == Converted[script[k].text]
        file(c, field) == FlattenSeq([k \in DOMAIN script |-> IF k \in Known THEN c[k][field] ELSE <<>>])
    IN  {[written |-> file(c, "written"), meant |-> file(c, "meant")] :
            c \in {d \in [Known -> UNION {forms(k) : k \in Known}] : \A k \in Known : d[k] \in forms(k)}}
Restores(output) ==
    LET learned == LearnedOf[Dialect, Source]
    IN  /\ RestoredOf[output.written, learned] = output.meant
        /\ RestoredOf[output.meant, learned] = output.meant

(* --migrate's repairs make of the forms of ora2pg's output that are recorded for   *)
(* the objects of a file what the source says, for all of them at once and nothing  *)
(* else, and find nothing more to do -- unless a name is ambiguous, in one of the   *)
(* five ways above (source_fixes.py:9, "Each repair restores exactly what the       *)
(* source says"); and its packages and the rest reach ora2pg as they are, however   *)
(* they are laid out.                                                               *)
MigratedIsMeant ==
    /\ Dialect = "oracle" => PackagesApart
    /\ subject \in REPAIRED[Dialect] /\ (\A j, k \in Known : j # k => script[j].text # script[k].text) =>
        \A output \in Conversions : ~Ambiguous(output.written) => Restores(output)

-----------------------------------------------------------------------------
(* Three statements of the sources that do not hold of the code.  call_arguments is  *)
(* "meant for masked text, where a comma or parenthesis inside a literal is        *)
(* already blanked" (lex_common.py:92-94); two detectors read it off the text with *)
(* its literals, and raise IndexError on a parenthesis in one of them.             *)
DetectorsReturn == ~RoundDateFails(Source) /\ ~TruncNumberFails(Source)

(* DEFINER=user@host is among the shapes that "--prepare rewrites ... into an       *)
(* equivalent the converter does handle" (README.md:843-859), and every spelling of *)
(* it is a gap (tests/test_mysql_definer_procedure.py:14-17); one in quotes is left *)
(* where it is.                                                                     *)
DefinersAreRemoved ==
    subject = "mysql_definer_procedure" /\ IsSpecimen => FindingsOf[subject, Prepared] = {}

(* "Each repair restores exactly what the source says, nothing chosen"              *)
(* (source_fixes.py:9), ambiguous names included.                                   *)
EveryFormIsRestored ==
    subject \in REPAIRED[Dialect] /\ (\A j, k \in Known : j # k => script[j].text # script[k].text) =>
        \A output \in Conversions : Restores(output)

=============================================================================
