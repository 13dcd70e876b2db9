----------------------------- MODULE Preparers -----------------------------
(***************************************************************************)
(* The rewrites of --prepare (prepare.py): each takes a source and gives   *)
(* the source ora2pg converts, written as edits of the text.  The object   *)
(* and index names a rewrite makes up are the parts put together.          *)
(***************************************************************************)
EXTENDS MySqlDetectors, MsSqlDetectors, OracleRoutines
LOCAL INSTANCE SequencesExt

(* _masked: the walk of the dialect, what it takes for a literal or a comment blanked *)
MySqlMasked(s) == Masked(s, KindsOf(s, MySqlSegments))
OracleMasked(s) == Masked(s, KindsOf(s, OracleSegments))

(* CREATE TABLE IF NOT EXISTS t -> CREATE TABLE t; what is kept is the masked text *)
WithoutIfNotExists(s, masked) ==
    LET clause == Tight(<<Words(<<"CREATE", "TABLE", "IF", "NOT", "EXISTS">>), Spaced>>)
        cut(m) == Min({i \in m.at .. m.to : masked[i] = "IF"})
    IN  Edited(s, {Edit(m.at, AfterBlanks(masked, m.to), SpanIn(masked, m.at, cut(m))) :
                    m \in ToSet_(FindAll(clause, masked))})

-----------------------------------------------------------------------------
(* MySQL *)

(* a DELIMITER directive alone on its line: where it starts, ends, and what it says *)
Directives(s) ==
    LET kinds == KindsOf(s, MySqlSegments)
        given(i) == AfterSpaces(s, i + 1)
        directive(i) == /\ s[i] = "DELIMITER" /\ OpensLine(s, i)
                        /\ given(i) <= Len(s) /\ s[given(i)] # "nl" /\ LineEnds(s, given(i) + 1)
                        /\ kinds[given(i)] = "code"
        lineStart(i) == Max({j \in 1 .. i - 1 : s[j] = "nl"} \cup {0}) + 1
        nextLine(i) == Min({j \in i .. Len(s) : s[j] = "nl"} \cup {Len(s)}) + 1
    IN  SetToSortSeq({[from |-> lineStart(i), to |-> nextLine(i), says |-> s[given(i)]] :
                        i \in {j \in DOMAIN s : directive(j)}}, LAMBDA a, b : a.from < b.from)

\* Mutant of ReplaceDelimiter: literals are not spared.
ReplaceEverywhere(text, delimiter) ==
    [i \in DOMAIN text |-> IF text[i] = delimiter THEN ";" ELSE text[i]]

(* _replace_delimiter: in code only *)
ReplaceDelimiter(text, delimiter) ==
    LET kinds == KindsOf(text, MySqlSegments)
    IN  [i \in DOMAIN text |-> IF text[i] = delimiter /\ kinds[i] = "code" THEN ";" ELSE text[i]]

prepare_mysql_delimiter(s) ==
    LET ds == Directives(s)
        from(k) == IF k = 0 THEN 1 ELSE ds[k].to
        to(k) == IF k = Len(ds) THEN Len(s) + 1 ELSE ds[k + 1].from
        under(k) == IF k = 0 THEN ";" ELSE ds[k].says
    IN  FlattenSeq([k \in 1 .. Len(ds) + 1 |-> ReplaceDelimiter(SpanIn(s, from(k - 1), to(k - 1)), under(k - 1))])

(* A user or a host in quotes would be blanked with the literals, so that only *)
(* bare and backquoted ones are found                                          *)
Account ==
    LET more == Tight(<<OneOf({".", "%", "-"}), Maybe(Word)>>)
    IN  Either(<<Tight(<<W("bt"), Name, W("bt")>>), Tight(<<Either(<<Word, more>>), ManyTight(more)>>)>>)
Definer ==
    Seq_(<<Words(<<"DEFINER", "=">>),
           Either(<<Seq_(<<W("CURRENT_USER"), Maybe(Words(<<"(", ")">>))>>),
                    Seq_(<<Account, W("@"), Account>>)>>)>>)

prepare_mysql_definer(s) ==
    LET masked == MySqlMasked(s)
    IN  Edited(s, {Edit(m.at, AfterBlanks(masked, m.to), <<>>) : m \in ToSet_(FindAll(Definer, masked))})

(* The comments MySQL runs: "/*!" at the start of a comment *)
VersionedComments(s) ==
    LET from[i \in Nat, mode \in Modes] ==
            IF i > Len(s) THEN {}
            ELSE LET piece == MySqlSegments(s, i, mode)
                     found == piece.kind = "comment" /\ At(s, i, <<"/", "*", "!">>)
                 IN  (IF found THEN {[from |-> i, to |-> i + piece.take]} ELSE {})
                        \cup from[i + piece.take, piece.mode]
    IN  from[1, "code"]

(* what the comment wraps, after a version of five digits and without the blanks around it *)
WrappedIn(s, c) == Stripped(SpanIn(s, c.from + 4, c.to - 2))

Definition ==
    Either(<<OneOf({"CREATE", "TRIGGER", "VIEW", "PROCEDURE", "FUNCTION", "EVENT", "ALGORITHM", "DEFINER"}),
             Words(<<"SQL", "SECURITY">>)>>)

Unwrapped(s) ==
    {c \in VersionedComments(s) :
        /\ s[c.from + 3] = "50003" /\ c.to > c.from + 5 /\ At(s, c.to - 2, <<"*", "/">>)
        /\ MatchAt(Definition, WrappedIn(s, c), 1) # <<>>}

(* Two of them with nothing but blanks between are one statement, on one line *)
prepare_mysql_versioned_comments(s) ==
    LET wrapped == Unwrapped(s)
        joined == {<<c, d>> \in wrapped \X wrapped :
                    c.to < d.from /\ \A i \in c.to .. d.from - 1 : s[i] \in Blanks}
    IN  Edited(s, {Edit(c.from, c.to, WrappedIn(s, c)) : c \in wrapped}
                  \cup {Edit(p[1].to, p[2].from, <<"sp">>) : p \in joined})

prepare_mysql_table_if_not_exists(s) == WithoutIfNotExists(s, MySqlMasked(s))

(* KEY -> INDEX, a name for an index without one, another for one two tables use; *)
(* qualified indexes and those on a prefix are left alone                          *)
prepare_mysql_indexes(s) ==
    LET clauses == IndexClauses(s)
        clashes == CollidingNames(clauses)
        plain == {c \in ToSet_(clauses) : ~c.qualified /\ ~HasPrefix(c)}
        quoted(c) == s[c.nameAt] = "bt"
        clash(c) == c.name # "" /\ c.name \in clashes
        named(c, new) ==
            IF c.name = "" THEN Edit(c.nameAt, c.nameAt, <<"sp", "bt", new, "bt">>)
            ELSE Edit(c.nameAt, c.nameAt + IF quoted(c) THEN 3 ELSE 1, <<"bt", new, "bt">>)
        keywords == {Edit(c.keywordAt, c.keywordAt + 1, <<"INDEX">>) :
                        c \in {d \in plain : s[d.keywordAt] = "KEY"}}
    IN  Edited(s, keywords
                  \cup {named(c, c.table \o "_" \o c.columns[1].name \o "_idx") : c \in {d \in plain : d.name = ""}}
                  \cup {named(c, c.table \o "_" \o c.name) : c \in {d \in plain : clash(d)}})

-----------------------------------------------------------------------------
(* Oracle *)

(* q'[it's]' -> 'it''s', inside a named object *)
QuotedBy(s) ==
    LET from[i \in Nat, mode \in Modes] ==
            IF i > Len(s) THEN {}
            ELSE LET piece == OracleSegments(s, i, mode)
                     found == mode = "code" /\ QOfSegments(s, i) # 0 /\ s[i + piece.take - 1] = "'"
                 IN  (IF found THEN {[from |-> i, to |-> i + piece.take]} ELSE {})
                        \cup from[i + piece.take, piece.mode]
    IN  from[1, "code"]

prepare_oracle_alt_quote(s) ==
    LET index == OracleIndex(Clean("oracle", s))
        prefix(q) == IF s[q.from] = "n" THEN <<"n">> ELSE <<>>
        content(q) == SpanIn(s, QOfSegments(s, q.from) + 1, q.to - 2)
        doubled(text) == FlattenSeq([i \in DOMAIN text |-> IF text[i] = "'" THEN <<"'", "'">> ELSE <<text[i]>>])
        ordinary(q) == prefix(q) \o <<"'">> \o doubled(content(q)) \o <<"'">>
    IN  Edited(s, {Edit(q.from, q.to, ordinary(q)) :
                    q \in {l \in QuotedBy(s) : OracleEnclosingObjectName(index, l.from) # UNKNOWN}})

prepare_oracle_table_if_not_exists(s) == WithoutIfNotExists(s, OracleMasked(s))

SequenceName ==
    LET part == Either(<<Tight(<<W("dq"), Name, W("dq")>>), Name>>)
    IN  Seq_(<<Words(<<"CREATE", "SEQUENCE">>), Either(<<Seq_(<<part, W("."), part>>), part>>)>>)

(* The start Oracle implies: MINVALUE or 1 going up, MAXVALUE or -1 going down *)
StartOf(options) ==
    LET signed == Seq_(<<Maybe(W("-")), NumberLit>>)
        bound(word) == Search(Seq_(<<Tight(<<W(word), Spaced>>), signed>>), options, 1, Len(options))
        increment == Search(Seq_(<<Tight(<<Words(<<"INCREMENT", "BY">>), Spaced>>), signed>>),
                            options, 1, Len(options))
        down == increment # <<>> /\ "-" \in ToSet_(SpanIn(options, increment[1].at, increment[1].to))
        given == bound(IF down THEN "MAXVALUE" ELSE "MINVALUE")
        value == SelectSeq(SpanIn(options, given[1].at + 1, given[1].to), LAMBDA c : c \notin Blanks)
    IN  IF given # <<>> THEN value ELSE IF down THEN <<"-", "1">> ELSE <<"1">>

prepare_oracle_sequence_start(s) ==
    LET masked == OracleMasked(s)
        slash(i) == masked[i] = "/" /\ OpensLine(masked, i) /\ LineEnds(masked, i + 1)
        end(m) == Min({i \in m.to .. Len(s) : masked[i] = ";" \/ slash(i)} \cup {Len(s) + 1})
        options(m) == SpanIn(masked, m.to, end(m))
        without(m) == FindAll(Words(<<"START", "WITH">>), options(m)) = <<>>
    IN  Edited(s, {Edit(m.to, m.to, <<"sp", "START", "WITH">> \o StartOf(options(m))) :
                    m \in {q \in ToSet_(FindAll(SequenceName, masked)) : without(q)}})

(* a blank on both sides of the := of a parameter; names are hidden here too *)
prepare_oracle_param_default_spacing(s) ==
    LET kinds == KindsOf(s, OracleSegments)
        masked == [i \in DOMAIN s |-> IF kinds[i] = "code" \/ s[i] = "nl" THEN s[i] ELSE "sp"]
        defaults == UNION {{i \in p.start .. p.end : masked[i] = ":="} : p \in
                            {q \in ParameterLists(masked) : q.end <= Len(s)}}
        tight(i, j) == IF s[j] \in Blanks THEN <<>> ELSE <<"sp">>
    IN  Edited(s, {Edit(i, i + 1, tight(i, i - 1) \o <<":=">> \o tight(i, i + 1)) :
                    i \in {j \in defaults : s[j - 1] \notin Blanks \/ s[j + 1] \notin Blanks}})

-----------------------------------------------------------------------------
(* T-SQL *)

(* [name] -> name, or "name" where it needs quotes *)
BracketedNames(s) ==
    LET from[i \in Nat, mode \in Modes] ==
            IF i > Len(s) THEN {}
            ELSE LET piece == MsSqlBrackets(s, i, mode)
                 IN  (IF piece.kind = "bracket" THEN {[from |-> i, to |-> i + piece.take]} ELSE {})
                        \cup from[i + piece.take, piece.mode]
    IN  from[1, "code"]

prepare_mssql_brackets(s) ==
    LET name(b) == SpanIn(s, b.from + 1, b.to - 1)
        pairs(text) == {i \in DOMAIN text : text[i] = "]" /\ Cardinality({j \in 1 .. i : text[j] = "]"}) % 2 = 0}
        unescaped(text) == FlattenSeq([i \in DOMAIN text |->
                                IF i \in pairs(text) THEN <<>>
                                ELSE IF text[i] = "dq" THEN <<"dq", "dq">> ELSE <<text[i]>>])
        plain(text) == Len(text) = 1 /\ Identifier(text[1])
        written(text) == IF plain(text) THEN text ELSE <<"dq">> \o unescaped(text) \o <<"dq">>
    IN  Edited(s, {Edit(b.from, b.to, written(name(b))) : b \in BracketedNames(s)})

(* an index name a second table uses -> <table>_<name>; the first keeps it *)
prepare_mssql_index_names(s) ==
    LET masked == MsSqlCleaned(s)
        ms == FindAll(IndexStatement, masked)
        at(k) == IndexNameAt(masked, ms[k])
        name(k) == masked[at(k)]
        table(k) == masked[ms[k].name]
        owner(k) == table(Min({j \in DOMAIN ms : name(j) = name(k)}))
        new(k) == table(k) \o "_" \o name(k)
        renamed(k) ==
            CASE masked[at(k) - 1] = "["  -> Edit(at(k), at(k) + 1, <<new(k)>>)
              [] masked[at(k) - 1] = "dq" -> Edit(at(k) - 1, at(k) + 2, <<new(k)>>)
              [] OTHER                    -> Edit(at(k), at(k) + 1, <<new(k)>>)
    IN  Edited(s, {renamed(k) : k \in {j \in DOMAIN ms : owner(j) # table(j)}})

(* the place just past a GO's line *)
PastGoLine(s, i) == Min({j \in i .. Len(s) : s[j] = "nl"} \cup {Len(s)}) + 1

(* before a CREATE TABLE at the start of a line and in place of every GO line, a ; *)
(* ends the statement that has none; the last place first                          *)
prepare_mssql_go_separator(source) ==
    LET end(s, i) == LET code == {j \in 1 .. i - 1 : s[j] \notin Blanks}
                     IN  IF code = {} THEN 0 ELSE Max(code)
        open(s, i) == end(s, i) # 0 /\ s[end(s, i)] # ";"
        ended(s, i) == IF open(s, i) THEN {Edit(end(s, i) + 1, end(s, i) + 1, <<";">>)} ELSE {}
        onGo(s, i) == \E j \in BatchEnds(SubSeq(s, 1, end(s, i))) : PastGoLine(s, j) > end(s, i)
        masked == MsSqlCleaned(source)
        tables == {m.at : m \in {t \in ToSet_(FindAll(MsSqlTableHead, masked)) :
                                    t.at = 1 \/ masked[t.at - 1] = "nl"}}
        atTables == UNION {ended(masked, i) : i \in {t \in tables : ~onGo(masked, t)}}
        pairs(s, m) == [i \in DOMAIN s |-> <<s[i], m[i]>>]
        parts(t, k) == [i \in DOMAIN t |-> t[i][k]]
        lined == Edited(pairs(source, masked), {[e EXCEPT !.new = <<<<";", ";">>>>] : e \in atTables})
        ends == Ascending(BatchEnds(parts(lined, 2)))
        lineStart(i) == Max({j \in 1 .. i - 1 : lined[j][2] = "nl"} \cup {0}) + 1
        without[k \in Nat] ==     \* the text once the GO lines from the k-th on are gone
            IF k > Len(ends) THEN lined
            ELSE LET from == lineStart(ends[k])
                     past == PastGoLine(parts(lined, 2), ends[k])
                     cut == Edited(without[k + 1], {Edit(from, past, <<>>)})
                     new == {[e EXCEPT !.new = <<<<";", ";">>>>] : e \in ended(parts(cut, 2), from)}
                 IN  Edited(cut, new)
    IN  parts(without[1], 1)

-----------------------------------------------------------------------------
(* PREPARERS_BY_DIALECT: in this order, each on the text the one before made *)
PrepareOracle(s) ==
    prepare_oracle_param_default_spacing(prepare_oracle_sequence_start(
        prepare_oracle_table_if_not_exists(prepare_oracle_alt_quote(s))))
PrepareMySql(s) ==
    prepare_mysql_indexes(prepare_mysql_table_if_not_exists(prepare_mysql_definer(
        prepare_mysql_delimiter(prepare_mysql_versioned_comments(s)))))
PrepareMsSql(s) == prepare_mssql_go_separator(prepare_mssql_brackets(prepare_mssql_index_names(s)))

Prepare(dialect, s) ==
    CASE dialect = "oracle" -> PrepareOracle(s)
      [] dialect = "mysql"  -> PrepareMySql(s)
      [] dialect = "mssql"  -> PrepareMsSql(s)

(* PREPARED_DETECTORS: what a preparer is to leave nothing of *)
PreparedDetectors ==
    [oracle |-> {"alt_quote_literal", "table_if_not_exists", "sequence_without_start", "param_default_spacing"},
     mysql |-> {"mysql_versioned_comment", "mysql_delimiter_routine", "mysql_delimiter_trigger",
                "mysql_definer_procedure", "mysql_create_table_if_not_exists", "mysql_key_index",
                "mysql_index_name_collision"},
     mssql |-> {"mssql_bracket_identifier", "mssql_go_separator", "mssql_statement_terminator",
                "mssql_index_name_collision"}]

=============================================================================
