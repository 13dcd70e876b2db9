---------------------------- MODULE OracleClauses ----------------------------
(***************************************************************************)
(* The detectors of the Oracle dialect that look for a clause and then at  *)
(* what stands around it: the statement, the trigger's header, the call or *)
(* the keyword before it (detectors/*.py, one definition each under its    *)
(* name).  The limits on how far a window reaches (2000 characters) are    *)
(* left out.                                                               *)
(***************************************************************************)
EXTENDS DetectorSpec
LOCAL INSTANCE SequencesExt

OracleCleaned(source) == Clean("oracle", source)

(* what is found at these places of a masked text, each blamed on its object *)
Blamed(s, places, message) ==
    LET index == OracleIndex(s)
    IN  {Finding(i, OracleEnclosingObjectName(index, i), message) : i \in places}

Places(ms) == {m.at : m \in ToSet_(ms)}
Occurs(p, s, from, to) == FindIn(p, s, from, to) # <<>>

(* The statements that p opens, each ended by its ; or by the next of them *)
OracleStatements(s, p) == Statements([head |-> QualifiedName("oracle", p)], s)
NameOf(s, head) == <<s[head.name]>>

-----------------------------------------------------------------------------
(* Tables, sequences, synonyms, types and views *)

external_table(source) ==
    LET s == OracleCleaned(source)
    IN  {Finding(st.head.at, NameOf(s, st.head), "external_table") :
            st \in {t \in OracleStatements(s, OracleTableHead) :
                        Occurs(Words(<<"ORGANIZATION", "EXTERNAL">>), s, t.head.to, t.end - 1)}}

global_temp_table(source) ==
    LET s == OracleCleaned(source)
        preserved(st) == Occurs(Words(<<"ON", "COMMIT", "PRESERVE", "ROWS">>), s, st.head.to, st.end - 1)
    IN  {Finding(st.head.at, NameOf(s, st.head), "global_temp_table") :
            st \in {t \in OracleStatements(s, Words(<<"CREATE", "GLOBAL", "TEMPORARY", "TABLE">>)) :
                        ~preserved(t)}}

(* every match of p in the statements of the tables, blamed on the table *)
InTables(source, p, message) ==
    LET s == OracleCleaned(source)
    IN  UNION {{Finding(m.at, NameOf(s, st.head), message) :
                    m \in ToSet_(FindIn(p, s, st.head.to, st.end - 1))} :
               st \in OracleStatements(s, OracleTableHead)}

identity_column(source) ==
    InTables(source,
             Seq_(<<W("GENERATED"),
                    Either(<<W("ALWAYS"), Seq_(<<Words(<<"BY", "DEFAULT">>), Maybe(Words(<<"ON", "NULL">>))>>)>>),
                    Words(<<"AS", "IDENTITY", "(">>)>>),
             "identity_column")

(* what may follow INVISIBLE in a column's definition *)
AfterInvisible ==
    {",", ")", "NOT", "DEFAULT", "ENCRYPT", "UNIQUE", "PRIMARY", "CONSTRAINT", "REFERENCES", "CHECK"}
invisible_column(source) ==
    InTables(source, Seq_(<<W("INVISIBLE"), Ahead(OneOf(AfterInvisible))>>), "invisible_column")

table_partitioning(source) ==
    InTables(source,
             Seq_(<<Words(<<"PARTITION", "BY">>),
                    Either(<<Seq_(<<OneOf({"RANGE", "LIST", "HASH", "REFERENCE"}), W("(")>>),
                             Seq_(<<W("SYSTEM"), OneOf({"(", "PARTITIONS"})>>)>>)>>),
             "table_partitioning")

object_table(source) ==
    LET s == OracleCleaned(source)
        of(h) == MatchAt(Seq_(<<W("OF"), Name>>), s, AfterBlanks(s, h.to))
    IN  {Finding(AfterBlanks(s, h.to), NameOf(s, h), "object_table") :
            h \in {t \in ToSet_(FindAll(QualifiedName("oracle", OracleTableHead), s)) : of(t) # <<>>}}

object_type(source) ==
    LET s == OracleCleaned(source)
        declared == Seq_(<<OracleObject(W("TYPE")), Tight(<<QualifiedBy("dq"), Spaced>>),
                           OneOf({"IS", "AS"}), W("OBJECT")>>)
        body == QualifiedName("oracle", OracleObject(Words(<<"TYPE", "BODY">>)))
    IN  {Finding(m.at, NameOf(s, m), "object_type") :
            m \in ToSet_(FindAll(declared, s)) \cup ToSet_(FindAll(body, s))}

(* reported where its name ends *)
public_synonym(source) ==
    LET s == OracleCleaned(source)
        head == OracleObject(Seq_(<<Maybe(W("PUBLIC")), W("SYNONYM")>>))
        target == Seq_(<<W("FOR"), QualifiedBy("dq")>>)
    IN  {Finding(st.head.to, NameOf(s, st.head), "public_synonym") :
            st \in {t \in OracleStatements(s, head) : Occurs(target, s, t.head.to, t.end - 1)}}

(* a sequence's statement ends at its ; or at a / on a line of its own *)
sequence_without_start(source) ==
    LET s == OracleCleaned(source)
        slash(i) == s[i] = "/" /\ OpensLine(s, i) /\ LineEnds(s, i + 1)
        end(m) == Min({i \in m.to .. Len(s) : s[i] = ";" \/ slash(i)} \cup {Len(s) + 1})
        start == Seq_(<<Tight(<<W("START"), Spaced>>), Either(<<W("WITH"), Seq_(<<Maybe(W("-")), NumberLit>>)>>)>>)
    IN  {Finding(m.at, NameOf(s, m), "sequence_without_start") :
            m \in {q \in ToSet_(FindAll(QualifiedName("oracle", Words(<<"CREATE", "SEQUENCE">>)), s)) :
                        ~Occurs(start, s, q.to, end(q) - 1)}}

read_only_view(source) ==
    LET s == OracleCleaned(source)
        visible == DynamicSqlVisible(source)
        head == Seq_(<<W("CREATE"), OrReplace, Maybe(W("NO")), Maybe(W("FORCE")), Editionable, W("VIEW")>>)
        clause(st) == Search(Words(<<"WITH", "READ", "ONLY">>), visible, st.head.to, st.end - 1)
    IN  {Finding(clause(st)[1].at, NameOf(s, st.head), "read_only_view") :
            st \in {t \in OracleStatements(s, head) : clause(t) # <<>>}}

(* at the first use of each schema the source does not create *)
schema_qualified_name(source) ==
    LET s == OracleCleaned(source)
        part == Either(<<Tight(<<W("dq"), Name, W("dq")>>), Name>>)
        created == {s[m.name] : m \in ToSet_(FindAll(
                        Seq_(<<Words(<<"CREATE", "SCHEMA">>), Maybe(IfNotExists), part>>), s))}
        uses == ToSet_(FindAll(
                    Seq_(<<W("CREATE"), OrReplace, Maybe(Either(<<W("FORCE"), Words(<<"NO", "FORCE">>)>>)),
                           Editionable, Maybe(Words(<<"GLOBAL", "TEMPORARY">>)),
                           Maybe(OneOf({"UNIQUE", "BITMAP"})),
                           Either(<<OneOf({"TABLE", "VIEW", "SEQUENCE", "PROCEDURE", "FUNCTION",
                                           "TRIGGER", "TYPE", "INDEX"}),
                                    Words(<<"MATERIALIZED", "VIEW">>)>>),
                           part, W("."), part>>), s))
        schemaAt(m) == Max({i \in m.at .. m.name - 1 : Identifier(s[i])})
        startOf(i) == IF s[i - 1] = "dq" THEN i - 1 ELSE i
        schema(m) == s[schemaAt(m)]
        first(m) == \A n \in uses : schema(n) = schema(m) => m.at <= n.at
    IN  {Finding(startOf(schemaAt(m)), <<schema(m), s[m.name]>>, "schema_qualified_name") :
            m \in {u \in uses : schema(u) \notin created /\ first(u)}}

-----------------------------------------------------------------------------
(* Triggers: what stands in the header, before the body *)

TriggerHead == OracleObject(W("TRIGGER"))
Triggers(s) == FindAll(TriggerName, s)

(* at COMPOUND TRIGGER, anywhere before the next trigger *)
compound_triggers(source) ==
    LET s == OracleCleaned(source)
        ms == Triggers(s)
        boundary(k) == IF k < Len(ms) THEN ms[k + 1].at ELSE Len(s) + 1
        found(k) == FindIn(Words(<<"COMPOUND", "TRIGGER">>), s, ms[k].to, boundary(k) - 1)
    IN  {Finding(found(k)[1].at, NameOf(s, ms[k]), "compound_triggers") :
            k \in {j \in DOMAIN ms : found(j) # <<>>}}

(* the first of these words from i on, or past the end *)
HeaderEnd(s, i, words) == Min({j \in i .. Len(s) : s[j] \in words} \cup {Len(s) + 1})

statement_trigger(source) ==
    LET s == OracleCleaned(source)
        end(t) == HeaderEnd(s, t.to, {"DECLARE", "BEGIN", "CALL", "COMPOUND"})
        says(t, p) == Occurs(p, s, t.to, end(t) - 1)
        fires(t) ==
            /\ end(t) > Len(s) \/ s[end(t)] # "COMPOUND"
            /\ says(t, Seq_(<<OneOf({"BEFORE", "AFTER"}), OneOf({"INSERT", "UPDATE", "DELETE"})>>))
            /\ ~says(t, Words(<<"FOR", "EACH", "ROW">>))
            /\ ~says(t, Seq_(<<W("ON"), Maybe(Seq_(<<Word, W(".")>>)), OneOf({"SCHEMA", "DATABASE"})>>))
            /\ ~says(t, Seq_(<<W("EXECUTE"), OneOf({"PROCEDURE", "FUNCTION"})>>))
    IN  {Finding(t.at, NameOf(s, t), "statement_trigger") : t \in {u \in ToSet_(Triggers(s)) : fires(u)}}

(* p in the headers of the triggers, what EXECUTE IMMEDIATE says included *)
InTriggerHeaders(source, p) ==
    LET s == OracleCleaned(source)
        visible == DynamicSqlVisible(source)
        end(t) == HeaderEnd(visible, t.to, {"DECLARE", "BEGIN", "CALL"})
    IN  {<<t, FindBetween(p, visible, t.to, end(t) - 1)>> : t \in ToSet_(Triggers(s))}

system_trigger(source) ==
    {Finding(h[2][1].at, NameOf(OracleCleaned(source), h[1]), "system_trigger") :
        h \in {g \in InTriggerHeaders(source, Seq_(<<W("ON"), OneOf({"DATABASE", "SCHEMA"})>>)) : g[2] # <<>>}}

trigger_follows(source) ==
    UNION {{Finding(m.at, NameOf(OracleCleaned(source), h[1]), "trigger_follows") : m \in ToSet_(h[2])} :
            h \in InTriggerHeaders(source, Seq_(<<OneOf({"FOLLOWS", "PRECEDES"}), Name>>))}

-----------------------------------------------------------------------------
(* Queries *)

has_connect_by(source) == FindAll(Words(<<"CONNECT", "BY">>), OracleCleaned(source)) # <<>>

(* the kind of object ora2pg is asked to convert a file as: the first there is *)
ObjectTypePatterns ==
    <<<<Words(<<"PACKAGE", "BODY">>), "PACKAGE">>, <<TriggerHead, "TRIGGER">>,
      <<OracleObject(W("PROCEDURE")), "PROCEDURE">>, <<OracleObject(W("FUNCTION")), "FUNCTION">>,
      <<Seq_(<<W("CREATE"), OrReplace,
               Maybe(Either(<<OneOf({"FORCE", "NOFORCE"}), Words(<<"NO", "FORCE">>)>>)), Editionable,
               W("VIEW")>>), "VIEW">>>>
guess_object_type(source) ==
    LET s == OracleCleaned(source)
        said == {k \in DOMAIN ObjectTypePatterns : FindAll(ObjectTypePatterns[k][1], s) # <<>>}
    IN  IF said = {} THEN "PACKAGE" ELSE ObjectTypePatterns[Min(said)][2]

(* what ora2pg made of a CONNECT BY: a LEVEL left in a recursive query *)
connect_by(output) ==
    LET s == OracleCleaned(output)
        query == Seq_(<<Words(<<"WITH", "RECURSIVE">>), Name, Words(<<"AS", "(">>)>>)
        level(m) ==
            FindIn(Tight(<<NotAfter({"$", "#"}), Maybe(Tight(<<Word, W(".")>>)), W("LEVEL")>>),
                   s, m.to - 1, SkipBalancedParens(s, m.to - 1) - 1)
        routine == Seq_(<<W("CREATE"), OrReplace, OneOf({"FUNCTION", "PROCEDURE"}), Name>>)
        owner(m) == LET before == {r \in ToSet_(FindAll(routine, s)) : r.at <= m.at}
                    IN  IF before = {} THEN s[m.name]
                        ELSE s[(CHOOSE r \in before : \A q \in before : q.at <= r.at).name]
    IN  {Finding(level(m)[1].at, <<owner(m)>>, "connect_by") :
            m \in {q \in ToSet_(FindAll(query, s)) : level(q) # <<>>}}

connect_by_nocycle(source) ==
    Blamed(OracleCleaned(source),
           UNION {Places(FindAll(p, DynamicSqlVisible(source))) :
                    p \in {Words(<<"CONNECT", "BY", "NOCYCLE">>), Words(<<"ORDER", "SIBLINGS", "BY">>)}},
           "connect_by_nocycle")

cursor_rowtype(source) ==
    LET visible == DynamicSqlVisible(source)
        cursors == {visible[m.name] : m \in ToSet_(FindAll(Seq_(<<W("CURSOR"), Name>>), visible))}
        rows == FindAll(Tight(<<NotAfter({"."}), Seq_(<<Name, W("%"), W("ROWTYPE")>>)>>), visible)
    IN  Blamed(OracleCleaned(source), {m.at : m \in {r \in ToSet_(rows) : visible[r.name] \in cursors}},
               "cursor_rowtype")

(* names in quotes are blanked first: a mail address is no link *)
QuotedBlanked(s) ==
    LET quotes(from, to) == {j \in from .. to : s[j] = "dq"}
        odd(i) == Cardinality(quotes(1, i)) % 2 = 1
        inside(i) == IF odd(i) THEN quotes(i + 1, Len(s)) # {} ELSE s[i] = "dq"
    IN  [i \in 1 .. Len(s) |-> IF inside(i) /\ s[i] # "nl" THEN "sp" ELSE s[i]]
database_link(source) ==
    LET link == Tight(<<Name, W("@"), Name, ManyTight(Tight(<<W("."), Name>>))>>)
    IN  Blamed(OracleCleaned(source), Places(FindAll(link, QuotedBlanked(DynamicSqlVisible(source)))),
               "database_link")

insert_all(source) ==
    LET visible == DynamicSqlVisible(source)
        into(m) == \E i \in m.to .. Len(visible) : visible[i] = "INTO"
    IN  Blamed(OracleCleaned(source),
               {m.at : m \in {n \in ToSet_(FindAll(Seq_(<<W("INSERT"), OneOf({"ALL", "FIRST"})>>), visible)) :
                                into(n)}},
               "insert_all")

(* its index is of the visible view: an object EXECUTE IMMEDIATE makes owns it *)
json_table(source) ==
    LET s == DynamicSqlVisible(source)
        close(m) == SkipBalancedParens(s, m.to - 1)
        head(m) == HeaderEnd(SubSeq(s, 1, close(m) - 1), m.to, {"COLUMNS"})
        onError(m) == Occurs(Seq_(<<W("ON"), OneOf({"ERROR", "EMPTY"})>>), s, m.to, head(m) - 1)
        calls == ToSet_(FindAll(Call("JSON_TABLE"), s))
    IN  Blamed(s, {m.at : m \in {c \in calls : onError(c)}}, "json_table.on_error")
        \cup Blamed(s, {m.at : m \in {c \in calls : ~onError(c)}}, "json_table")

(* blamed on the MERGE's object, at the DELETE *)
merge_delete_clause(source) ==
    LET s == OracleCleaned(source)
        visible == DynamicSqlVisible(source)
        found(m) == FindIn(Words(<<"DELETE", "WHERE">>), visible, m.at, StatementEnd(visible, m.to, 0) - 1)
    IN  {Finding(found(m)[1].at, OracleEnclosingObjectName(OracleIndex(s), m.at), "merge_delete_clause") :
            m \in {n \in ToSet_(FindAll(Words(<<"MERGE", "INTO">>), visible)) : found(n) # <<>>}}

model_clause(source) ==
    LET visible == DynamicSqlVisible(source)
        follows(i, word) == \E j \in i + 1 .. Len(visible) : visible[j] = word
    IN  Blamed(OracleCleaned(source),
               {i \in DOMAIN visible : /\ visible[i] = "MODEL"
                                       /\ follows(i, "MEASURES") /\ follows(i, "RULES")},
               "model_clause")

multiset_operator(source) ==
    LET operator ==
            Either(<<Words(<<"CAST", "(", "MULTISET", "(">>),
                     Seq_(<<W("MULTISET"), OneOf({"UNION", "INTERSECT", "EXCEPT"})>>),
                     Words(<<"MEMBER", "OF">>), Words(<<"SUBMULTISET", "OF">>)>>)
    IN  Blamed(OracleCleaned(source), Places(FindAll(operator, DynamicSqlVisible(source))),
               "multiset_operator")

oracle_text(source) ==
    LET s == OracleCleaned(source)
        visible == DynamicSqlVisible(source)
        indextype == Seq_(<<Words(<<"INDEXTYPE", "IS">>),
                            Tight(<<W("CTXSYS"), W("."), OneOf({"CONTEXT", "CTXCAT", "CTXRULE"})>>)>>)
        type(st) == FindIn(indextype, s, st.head.to, st.end - 1)
        compared == Seq_(<<Either(<<Tight(<<OneOf({">", "<"}), W("=")>>), Tight(<<W("<"), W(">")>>),
                                    OneOf({">", "<", "="})>>),
                           Either(<<NumberLit, W(":")>>)>>)
        searches == Seq_(<<OneOf({"CONTAINS", "CATSEARCH", "MATCHES"}), W("(")>>)
        scored(m) == MatchAt(compared, visible, AfterBlanks(visible, SkipBalancedParens(visible, m.to - 1))) # <<>>
    IN  {Finding(type(st)[1].at, NameOf(s, st.head), "oracle_text") :
            st \in {t \in OracleStatements(s, Words(<<"CREATE", "INDEX">>)) : type(t) # <<>>}}
        \cup Blamed(s, {m.at : m \in {n \in ToSet_(FindAll(searches, visible)) : scored(n)}}, "oracle_text")

(* The queries a WITH names: the first is placed at the WITH, the rest at their names *)
CommonTable ==
    Seq_(<<Name, Maybe(Seq_(<<W("("), Skip({"(", ")"}), W(")")>>)), Words(<<"AS", "(">>)>>)
CommonTablesHead == Seq_(<<W("WITH"), NotAhead(W("RECURSIVE")), CommonTable>>)

\* Mutant of CommonTables: only the first.
FirstCommonTable(s, m) == <<m>>

RECURSIVE CommonTables(_, _)
CommonTables(s, m) ==
    LET next == MatchAt(Seq_(<<W(","), CommonTable>>), s, AfterBlanks(s, SkipBalancedParens(s, m.to - 1)))
    IN  <<m>> \o IF next = <<>> THEN <<>> ELSE CommonTables(s, [next[1] EXCEPT !.at = next[1].name])

(* the query of a common table names it after a UNION *)
RefersToItself(s, m) ==
    LET past == SkipBalancedParens(s, m.to - 1) - 1
        union == HeaderEnd(SubSeq(s, 1, past), m.to - 1, {"UNION"})
        itself == Seq_(<<OneOf({"FROM", "JOIN", ","}), W(s[m.name])>>)
    IN  Search(itself, s, union + 1, past) # <<>>

(* a query that names itself, under a WITH that does not say RECURSIVE *)
recursive_with(source) ==
    LET s == DynamicSqlVisible(source)
        tables == UNION {ToSet_(CommonTables(s, h)) : h \in ToSet_(FindAll(CommonTablesHead, s))}
    IN  Blamed(OracleCleaned(source), {m.at : m \in {t \in tables : RefersToItself(s, t)}}, "recursive_with")

rownum_dml(source) ==
    LET s == DynamicSqlVisible(source)
        keywords(i) == {j \in 1 .. i - 1 : s[j] \in {"SELECT", "INSERT", "UPDATE", "DELETE", "MERGE"}}
        broken(i) == keywords(i) # {} /\ s[Max(keywords(i))] \in {"UPDATE", "DELETE"}
    IN  Blamed(OracleCleaned(source), {i \in DOMAIN s : s[i] = "ROWNUM" /\ broken(i)}, "rownum_dml")

-----------------------------------------------------------------------------
(* Names, literals, calls, collections *)

(* words with a # in them; each is reported once per object *)
HashNames == {"A#", "#A"}
hash_identifier(source) ==
    LET s == OracleCleaned(source)
        owner(i) == OracleEnclosingObjectName(OracleIndex(s), i)
        seen(i) == \E j \in 1 .. i - 1 : s[j] = s[i] /\ owner(j) = owner(i)
    IN  Blamed(s, {i \in DOMAIN s : s[i] \in HashNames /\ ~seen(i)}, "hash_identifier")

(* INSTR with an occurrence: three or four arguments *)
BareCall(name) == Tight(<<NotAfter({"$", "#", "."}), Call(name)>>)
instr_occurrence(source) ==
    LET s == OracleCleaned(source)
    IN  Blamed(s, {m.at : m \in {c \in ToSet_(FindAll(BareCall("INSTR"), s)) :
                                    Len(CallArguments(s, c.to - 1)) \in {3, 4}}}, "instr_occurrence")

(* SUBSTR from the end, or from 0 with a length *)
substr_start(source) ==
    LET s == OracleCleaned(source)
        whole(p, arg) == \E k \in DOMAIN Matches(p, arg, 1) : Matches(p, arg, 1)[k].to = Len(arg) + 1
        starts(args) ==
            /\ Len(args) \in {2, 3}
            /\ \/ whole(Seq_(<<W("-"), NumberLit>>), Stripped(args[2]))
               \/ Stripped(args[2]) = <<"0">> /\ Len(args) = 3
    IN  Blamed(s, {m.at : m \in {c \in ToSet_(FindAll(BareCall("SUBSTR"), s)) :
                                    starts(CallArguments(s, c.to - 1))}}, "substr_start")

trim_leading_trailing(source) ==
    LET s == OracleCleaned(source)
        trim == Seq_(<<BareCall("TRIM"), Maybe(W("BOTH")), OneOf({"LEADING", "TRAILING"})>>)
    IN  Blamed(s, Places(FindAll(trim, s)), "trim_leading_trailing")

ref_cursor_type(source) ==
    LET s == OracleCleaned(source)
        type == Seq_(<<W("TYPE"), Name, Words(<<"IS", "REF", "CURSOR">>)>>)
        owner(i) == LET name == OracleEnclosingObjectName(OracleIndex(s), i)
                    IN  IF name = UNKNOWN THEN <<"UNKNOWN">> ELSE name
    IN  {Finding(m.at, Append(owner(m.at), s[m.name]), "ref_cursor_type") : m \in ToSet_(FindAll(type, s))}

(* a type of its own is collection_type's *)
bulk_collect(source) ==
    LET s == OracleCleaned(source)
        visible == DynamicSqlVisible(source)
        created == {m.to - 1 : m \in ToSet_(FindAll(OracleObject(W("TYPE")), visible))}
        types == FindAll(Seq_(<<W("TYPE"), Name, Words(<<"IS", "TABLE", "OF">>)>>), visible)
    IN  Blamed(s, Places(types) \ created, "bulk_collect.type_decl")
        \cup Blamed(s, Places(FindAll(Words(<<"BULK", "COLLECT", "INTO">>), visible)),
                    "bulk_collect.bulk_collect")
        \cup Blamed(s, Places(FindAll(W("FORALL"), visible)), "bulk_collect.forall")

(* q'...' is found by a walk of the detector's own over what the lexer leaves *)
AltQuoteStarts(s) ==
    LET opens(i) == /\ At(s, i, <<"q", "'">>) /\ i + 2 <= Len(s)
                    /\ i = 1 \/ s[i - 1] \notin {"$", "#"}
        closed(i) == Find(s, i + 3, <<QCloser(s[i + 2]), "'">>) + 2
        pastLiteral[i \in Nat] ==
            IF i > Len(s) THEN i
            ELSE IF At(s, i, <<"'", "'">>) THEN pastLiteral[i + 2]
            ELSE IF s[i] = "'" THEN i + 1 ELSE pastLiteral[i + 1]
        from[i \in Nat] ==
            IF i > Len(s) THEN {}
            ELSE IF opens(i) THEN {i} \cup from[closed(i)]
            ELSE IF s[i] = "'" THEN from[pastLiteral[i + 1]]
            ELSE from[i + 1]
    IN  from[1]
alt_quote_literal(source) ==
    Blamed(OracleCleaned(source), AltQuoteStarts(CommentsBlanked("oracle", source)), "alt_quote_literal")

-----------------------------------------------------------------------------
OracleClauseScans ==
    {"alt_quote_literal", "bulk_collect", "compound_triggers", "connect_by", "connect_by_nocycle",
     "cursor_rowtype", "database_link", "external_table", "global_temp_table", "hash_identifier",
     "identity_column", "insert_all", "instr_occurrence", "invisible_column", "json_table",
     "merge_delete_clause", "model_clause", "multiset_operator", "object_table", "object_type",
     "oracle_text", "public_synonym", "read_only_view", "recursive_with", "ref_cursor_type",
     "rownum_dml", "schema_qualified_name", "sequence_without_start", "statement_trigger",
     "substr_start", "system_trigger", "table_partitioning", "trigger_follows",
     "trim_leading_trailing"}

(* the detector of that name, run on a source *)
OracleClauseFindings(name, source) ==
    CASE name = "alt_quote_literal" -> alt_quote_literal(source)
      [] name = "bulk_collect" -> bulk_collect(source)
      [] name = "compound_triggers" -> compound_triggers(source)
      [] name = "connect_by" -> connect_by(source)
      [] name = "connect_by_nocycle" -> connect_by_nocycle(source)
      [] name = "cursor_rowtype" -> cursor_rowtype(source)
      [] name = "database_link" -> database_link(source)
      [] name = "external_table" -> external_table(source)
      [] name = "global_temp_table" -> global_temp_table(source)
      [] name = "hash_identifier" -> hash_identifier(source)
      [] name = "identity_column" -> identity_column(source)
      [] name = "insert_all" -> insert_all(source)
      [] name = "instr_occurrence" -> instr_occurrence(source)
      [] name = "invisible_column" -> invisible_column(source)
      [] name = "json_table" -> json_table(source)
      [] name = "merge_delete_clause" -> merge_delete_clause(source)
      [] name = "model_clause" -> model_clause(source)
      [] name = "multiset_operator" -> multiset_operator(source)
      [] name = "object_table" -> object_table(source)
      [] name = "object_type" -> object_type(source)
      [] name = "oracle_text" -> oracle_text(source)
      [] name = "public_synonym" -> public_synonym(source)
      [] name = "read_only_view" -> read_only_view(source)
      [] name = "recursive_with" -> recursive_with(source)
      [] name = "ref_cursor_type" -> ref_cursor_type(source)
      [] name = "rownum_dml" -> rownum_dml(source)
      [] name = "schema_qualified_name" -> schema_qualified_name(source)
      [] name = "sequence_without_start" -> sequence_without_start(source)
      [] name = "statement_trigger" -> statement_trigger(source)
      [] name = "substr_start" -> substr_start(source)
      [] name = "system_trigger" -> system_trigger(source)
      [] name = "table_partitioning" -> table_partitioning(source)
      [] name = "trigger_follows" -> trigger_follows(source)
      [] name = "trim_leading_trailing" -> trim_leading_trailing(source)

=============================================================================
