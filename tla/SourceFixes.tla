---------------------------- MODULE SourceFixes ----------------------------
(***************************************************************************)
(* source_fixes.py: the repairs --migrate makes in ora2pg's output with    *)
(* what it learns from the source -- statement triggers, the values of     *)
(* package constants, the types of MySQL ENUM columns -- and the two parts *)
(* migrate.py takes an Oracle source into, its packages and the rest.  The *)
(* number of repairs is left out.                                          *)
(***************************************************************************)
EXTENDS OracleRoutines
LOCAL INSTANCE SequencesExt

Double(text) == FlattenSeq([i \in DOMAIN text |-> IF text[i] = "'" THEN <<"'", "'">> ELSE <<text[i]>>])
Undouble(text) ==
    LET second(i) == text[i] = "'" /\ Cardinality({j \in 1 .. i : text[j] = "'"}) % 2 = 0
    IN  FlattenSeq([i \in DOMAIN text |-> IF second(i) THEN <<>> ELSE <<text[i]>>])
AsLiteral(text) == <<"'">> \o Double(text) \o <<"'">>

-----------------------------------------------------------------------------
(* Statement triggers *)

statement_trigger_names(source) == {f.object[1] : f \in statement_trigger(source)}

BodyQuote == Tight(<<W("$"), W("BODY"), W("$")>>)

(* FOR EACH ROW -> FOR EACH STATEMENT, and RETURN NEW -> RETURN NULL in the trigger's function *)
restore_statement_triggers(sql, names) ==
    LET created(name) == Seq_(<<Words(<<"CREATE", "TRIGGER", name>>), Skip({";"}), Words(<<"FOR", "EACH", "ROW">>)>>)
        triggers(name) == ToSet_(FindAll(created(name), sql))
        function(name) ==
            Seq_(<<Words(<<"CREATE", "OR", "REPLACE", "FUNCTION", "trigger_fct_" \o name, "(", ")">>),
                   Skip({}), BodyQuote, Skip({}), BodyQuote>>)
        quotes(m) == {i \in m.at .. m.to - 1 : At(sql, i, <<"$", "BODY", "$">>)}
        returns(m) == ToSet_(FindIn(Words(<<"RETURN", "NEW", ";">>), sql, Min(quotes(m)) + 3, Max(quotes(m)) - 1))
        restored(name) ==
            {Edit(m.to - 1, m.to, <<"STATEMENT">>) : m \in triggers(name)}
            \cup UNION {{Edit(r.at, r.to, <<"RETURN", "NULL", ";">>) : r \in returns(m)} :
                        m \in ToSet_(FindAll(function(name), sql))}
    IN  Edited(sql, UNION {restored(name) : name \in {n \in names : triggers(n) # {}}})

-----------------------------------------------------------------------------
(* Package constants *)

PackageOpens == QualifiedName("oracle", OracleObject(Seq_(<<W("PACKAGE"), Maybe(W("BODY"))>>)))
RoutineOpens == Seq_(<<LineStart, OneOf({"FUNCTION", "PROCEDURE", "CURSOR"})>>)
ConstantDeclared ==
    Seq_(<<LineStart, Name, W("CONSTANT"), Skip({";", ":", ":="}), OneOf({":=", "DEFAULT"}), Skip({";"}), W(";")>>)

QuotedText == Tight(<<W("'"), Skip({"'"}), ManyTight(Tight(<<W("'"), W("'"), Skip({"'"})>>)), W("'")>>)
Figure == Tight(<<Maybe(W("-")), NumberLit, Maybe(Tight(<<W("."), NumberLit>>))>>)
Term == Either(<<QuotedText, Figure, Tight(<<Name, Maybe(Tight(<<W("."), Name>>))>>)>>)
Pipes == Tight(<<W("|"), W("|")>>)

(* _evaluate: the text of a || chain of literals, numbers and known constants, as *)
(* a sequence of at most one                                                      *)
Evaluate(expr, known) ==
    LET text(m) ==
            IF expr[m.at] = "'" THEN <<Undouble(SpanIn(expr, m.at + 1, m.to - 1))>>
            ELSE IF m.name = 0 THEN <<SpanIn(expr, m.at, m.to)>>
            ELSE IF expr[m.name] \in DOMAIN known THEN <<known[expr[m.name]]>> ELSE <<>>
        from[i \in Nat] ==
            LET m == MatchAt(Term, expr, AfterBlanks(expr, i))
                next == AfterBlanks(expr, m[1].to)
                rest == from[next + 2]
            IN  IF m = <<>> \/ text(m[1]) = <<>> THEN <<>>
                ELSE IF next > Len(expr) THEN text(m[1])
                ELSE IF ~At(expr, next, <<"|", "|">>) \/ rest = <<>> THEN <<>>
                ELSE <<text(m[1])[1] \o rest[1]>>
    IN  from[1]

(* the constants whose value can be worked out, package by package, each from those before it *)
package_constants(source) ==
    LET s == OracleCleaned(source)
        packages == FindAll(PackageOpens, s)
        end(m) == Min({n.at : n \in {r \in ToSet_(packages) \cup ToSet_(FindAll(RoutineOpens, s)) : r.at >= m.to}}
                      \cup {Len(s) + 1})
        set(d) == Min({i \in d.name + 1 .. d.to : s[i] \in {":=", "DEFAULT"}})
        expr(d) == Stripped(SpanIn(source, set(d) + 1, d.to - 1))
        isNumber(e) == LET m == MatchAt(Figure, e, 1) IN m # <<>> /\ m[1].to = Len(e) + 1
        learned(m) ==
            LET ds == FindBetween(ConstantDeclared, s, m.to, end(m) - 1)
                upTo[k \in Nat] ==
                    LET before == upTo[k - 1]
                        known == [name \in {c.name : c \in ToSet_(before)} |->
                                    LET same == SelectSeq(before, LAMBDA c : c.name = name)
                                    IN  same[Len(same)].value]
                        value == Evaluate(expr(ds[k]), known)
                    IN  IF k = 0 THEN <<>> ELSE IF value = <<>> THEN before
                        ELSE Append(before, [package |-> s[m.name], name |-> s[ds[k].name], value |-> value[1],
                                             literal |-> IF isNumber(expr(ds[k])) THEN value[1] ELSE AsLiteral(value[1])])
            IN  upTo[Len(ds)]
    IN  FlattenSeq([k \in DOMAIN packages |-> learned(packages[k])])

(* the literals of a constant: one, unless it is declared again *)
LiteralsOfConstant(constants, package, name) ==
    LET same == SelectSeq(constants, LAMBDA c : c.package = package /\ c.name = name)
    IN  [k \in DOMAIN same |-> same[k].literal]

(* current_setting('package.name')::type(length) *)
ReadOf(key) == Tight(<<W("current_setting"), W("("), W("'"), key, W("'"), W(")")>>)
ReadOfAny(constants) ==
    ReadOf(Either([k \in DOMAIN constants |-> Tight(<<W(constants[k].package), W("."), W(constants[k].name)>>)]))
TypeOnly == Tight(<<W(":"), W(":"), Word>>)
Cast ==
    Either(<<Seq_(<<TypeOnly, W("("), NumberLit, Maybe(Seq_(<<W(","), NumberLit>>)), W(")")>>), TypeOnly>>)

(* What is glued to the cast: reads, names and literals, the last with || behind it.  *)
(* The \w+ of a cast without a length gives its end to the pattern as a name, so that *)
(* the || behind such a cast is a tail too.                                           *)
Glued ==
    LET unit == Tight(<<NotAhead(Spaced), Either(<<Tight(<<ReadOf(Skip({"'"})), Cast>>), Name, QuotedText>>),
                        ManyTight(Pipes)>>)
    IN  Tight(<<Either(<<Tight(<<Cast, unit>>), Tight(<<TypeOnly, Pipes, ManyTight(Pipes)>>)>>), ManyTight(unit),
                After({"|"})>>)

LiteralRead(sql, constants, m) == LiteralsOfConstant(constants, sql[m.at + 3], sql[m.at + 5])

(* the read ora2pg spliced with the pieces of its initializer: GAP-114 *)
RestoreSpliced(sql, constants) ==
    LET literals(m) == LiteralRead(sql, constants, m)
    IN  Edited(sql, {Edit(m.at, m.to, literals(m)[Len(literals(m))]) :
                        m \in ToSet_(FindAll(Tight(<<ReadOfAny(constants), Glued>>), sql))})

(* a plain read, which keeps its cast: GAP-036 *)
RestoreReads(sql, constants) ==
    Edited(sql, {Edit(m.at, m.to, LiteralRead(sql, constants, m)[1]) :
                    m \in ToSet_(FindAll(Tight(<<ReadOfAny(constants), Ahead(Cast)>>), sql))})

HeadOfRoutine ==
    Seq_(<<Words(<<"CREATE", "OR", "REPLACE">>), OneOf({"FUNCTION", "PROCEDURE"}), Tight(<<Name, W("."), Name>>),
           W("("), Skip({}), W(")"), OneOf({"RETURNS", "AS"})>>)
DefaultName ==
    Seq_(<<W("DEFAULT"), Tight(<<Maybe(Tight(<<Name, W(".")>>)), Name,
                                 NotAhead(Tight(<<ManyTight(OneOf(Blanks)), W("(")>>))>>)>>)

(* a constant of its own package as the default of a parameter: GAP-119 *)
RestoreDefaults(sql, constants) ==
    LET package(h) == sql[h.name - 2]
        given(h) == FindIn(DefaultName, sql, Find(sql, h.at, <<"(">>) + 1, h.to - 1)
        literals(h, d) == LiteralsOfConstant(constants, package(h), sql[d.name])
        own(h, d) == sql[d.name - 1] = "." => sql[d.name - 2] = package(h)
    IN  Edited(sql, UNION {{Edit(d.at, d.to, <<"DEFAULT">> \o literals(h, d)[Len(literals(h, d))]) :
                                d \in {e \in ToSet_(given(h)) : literals(h, e) # <<>> /\ own(h, e)}} :
                           h \in ToSet_(FindAll(HeadOfRoutine, sql))})

\* Mutant of restore_constants: the plain reads first, which hides the spliced ones.
RestoreReadsFirst(sql, constants) ==
    IF constants = <<>> THEN sql
    ELSE RestoreDefaults(RestoreSpliced(RestoreReads(sql, constants), constants), constants)

restore_constants(sql, constants) ==
    IF constants = <<>> THEN sql
    ELSE RestoreDefaults(RestoreReads(RestoreSpliced(sql, constants), constants), constants)

-----------------------------------------------------------------------------
(* MySQL ENUM types *)

EnumValue ==
    LET plain == Skip({"'", "\\"})
        escaped == Tight(<<W("\\"), Either(<<OneOf({"'", "\\"}), NotAhead(OneOf({"'", "\\"}))>>)>>)
    IN  Tight(<<W("'"), plain, ManyTight(Tight(<<Either(<<escaped, Tight(<<W("'"), W("'")>>)>>), plain>>)), W("'")>>)
EnumColumn ==
    LET value == Seq_(<<EnumValue, Maybe(W(","))>>)
    IN  Seq_(<<Tight(<<Maybe(W("bt")), Name, Maybe(W("bt"))>>), Words(<<"ENUM", "(">>), value, Many(value), W(")")>>)
TableOpens ==
    Seq_(<<Words(<<"CREATE", "TABLE">>), Maybe(IfNotExists), QualifiedBy("bt"), W("(")>>)

(* Its type of every ENUM column, read off the source as it is, literals and comments *)
(* included: a parenthesis in a value counts for the end of the table                 *)
mysql_enum_types(source) ==
    LET end(t) == SkipBalancedParens(source, t.to - 1)
        columns(t) == FindIn(EnumColumn, source, t.to, end(t) - 1)
        values(c) == FindIn(EnumValue, source, c.name + 1, c.to - 1)
        unescaped(v) == FlattenSeq([i \in DOMAIN v |-> IF At(v, i, <<"\\", "'">>) THEN <<"'">> ELSE <<v[i]>>])
        written(v) == AsLiteral(Undouble(unescaped(SpanIn(source, v.at + 1, v.to - 1))))
        listed(vs) == FlattenSeq([k \in DOMAIN vs |-> (IF k > 1 THEN <<",">> ELSE <<>>) \o written(vs[k])])
        name(t, c) == source[t.name] \o "_" \o source[c.name] \o "_t"
        type(t, c) == [name |-> name(t, c),
                       create |-> <<"CREATE", "TYPE", name(t, c), "AS", "ENUM", "(">> \o listed(values(c)) \o <<")", ";", "nl">>]
        tables == FindAll(TableOpens, source)
        all == FlattenSeq([k \in DOMAIN tables |->
                    LET cs == columns(tables[k]) IN [j \in DOMAIN cs |-> type(tables[k], cs[j])]])
        place(n) == Min({k \in DOMAIN all : all[k].name = n})
        last(n) == all[Max({k \in DOMAIN all : all[k].name = n})]
        places == Ascending({place(t.name) : t \in ToSet_(all)})
    IN  [k \in DOMAIN places |-> last(all[places[k]].name)]

(* a type that is used and not created is, before the table that uses it first *)
RestoreType(text, type) ==
    LET used == Search(W(type.name), text.masked, 1, Len(text.masked))
        made == FindAll(Words(<<"CREATE", "TYPE", type.name>>), text.masked) # <<>>
        at == Max({i \in 1 .. used[1].at - 2 : At(text.masked, i, <<"CREATE", "TABLE">>)} \cup {1})
        hidden == [i \in DOMAIN type.create |-> "sp"]
    IN  IF used = <<>> \/ made THEN text
        ELSE [sql |-> Edited(text.sql, {Edit(at, at, type.create)}), masked |-> Edited(text.masked, {Edit(at, at, hidden)})]

restore_enum_types(sql, types) == FoldLeft(RestoreType, [sql |-> sql, masked |-> OracleCleaned(sql)], types).sql

-----------------------------------------------------------------------------
(* The detectors whose gaps these repairs take care of *)
REPAIRED ==
    [oracle |-> {"statement_trigger", "package_constant_chain", "package_constant_default"},
     mysql |-> {"mysql_enum_type"}, mssql |-> {}]

learn(source, dialect) ==
    [triggers |-> IF dialect = "oracle" THEN statement_trigger_names(source) ELSE {},
     constants |-> IF dialect = "oracle" THEN package_constants(source) ELSE <<>>,
     types |-> IF dialect = "mysql" THEN mysql_enum_types(source) ELSE <<>>]

apply(sql, knowledge) ==
    restore_enum_types(restore_constants(restore_statement_triggers(sql, knowledge.triggers),
                                         knowledge.constants), knowledge.types)

-----------------------------------------------------------------------------
(* migrate.py: the packages for -t PACKAGE, the rest for the other types *)

PackageLine == Seq_(<<LineStart, OracleObject(W("PACKAGE"))>>)

(* a package ends past the / on a line of its own, at the next package, or with the text *)
PackageEnd(s, i) ==
    Min({j + 1 : j \in {k \in i .. Len(s) : s[k] = "/" /\ OpensLine(s, k) /\ LineEnds(s, k + 1)}}
        \cup {m.at : m \in {n \in ToSet_(FindAll(PackageLine, s)) : n.at >= i}} \cup {Len(s) + 1})

(* _package_spans: a package inside another is passed over *)
PackageSpans(source) ==
    LET s == OracleCleaned(source)
        ms == FindAll(PackageLine, s)
        from[k \in Nat, past \in Nat] ==
            IF k > Len(ms) THEN <<>>
            ELSE IF ms[k].at < past THEN from[k + 1, past]
            ELSE LET end == PackageEnd(s, ms[k].to)
                 IN  <<[from |-> ms[k].at, to |-> end]>> \o from[k + 1, end]
    IN  from[1, 1]

only_packages(source) ==
    LET spans == PackageSpans(source)
        written(p) == SpanIn(source, p.from, 1 + Max({i \in p.from .. p.to - 1 : source[i] # "nl"}))
    IN  FlattenSeq([k \in DOMAIN spans |-> Append(written(spans[k]), "nl")])

without_packages(source) ==
    Edited(source, {Edit(p.from, p.to, <<>>) : p \in ToSet_(PackageSpans(source))})

=============================================================================
