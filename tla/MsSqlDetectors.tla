--------------------------- MODULE MsSqlDetectors ---------------------------
(***************************************************************************)
(* The detectors of the SQL Server dialect, one definition each under its  *)
(* name (detectors/mssql_*.py).  A variable (@x, @@x) is one symbol.  The  *)
(* limits on how far a pattern looks (300, 120 characters) are left out.   *)
(***************************************************************************)
EXTENDS DetectorSpec
LOCAL INSTANCE SequencesExt

MsSql(pattern) == InRoutine("mssql", "strings_and_comments", pattern)
MsSqlColumn(pattern) == InColumns("mssql", pattern)
Variables == {"@A", "@@IDENTITY"}
Clustered == OneOf({"CLUSTERED", "NONCLUSTERED"})
InBrackets == Tight(<<W("["), Name, W("]")>>)

mssql_bracket_identifier ==
    MatchNamed("mssql",
        Seq_(<<W("CREATE"), Maybe(Words(<<"OR", "ALTER">>)), Many(Either(<<W("UNIQUE"), Clustered>>)),
               OneOf({"TABLE", "PROC", "PROCEDURE", "FUNCTION", "VIEW", "TRIGGER", "INDEX"}),
               Many(Seq_(<<InBrackets, W(".")>>)), InBrackets>>))
mssql_charindex == MsSql(Call("CHARINDEX"))
mssql_collation == MsSqlColumn(Seq_(<<W("COLLATE"), Word>>))
mssql_computed_column == MsSqlColumn(Call("AS"))
mssql_datediff == MsSql(Call("DATEDIFF"))
mssql_filtered_index ==
    MsSql(Seq_(<<W("CREATE"), Maybe(W("UNIQUE")), Maybe(Clustered), W("INDEX"), Skip({";"}), W("WHERE")>>))
mssql_foreign_key == MsSqlColumn(Words(<<"FOREIGN", "KEY">>))
(* \bIDENTITY\b is in @@IDENTITY too *)
mssql_identity_column == MsSqlColumn(OneOf({"IDENTITY", "@@IDENTITY"}))
mssql_if_statement ==
    MsSql(Seq_(<<Tight(<<W("IF"), Spaced>>), NotAhead(Seq_(<<Maybe(W("NOT")), W("EXISTS")>>))>>))
mssql_iif == MsSql(Call("IIF"))
mssql_newid_default ==
    MsSqlColumn(Seq_(<<OneOf({"NEWID", "NEWSEQUENTIALID"}), W("("), W(")")>>))
mssql_output_clause ==
    MsSql(Seq_(<<W("OUTPUT"), Tight(<<OneOf({"INSERTED", "DELETED"}), W(".")>>)>>))
mssql_raiserror == MsSql(OneOf({"RAISERROR", "THROW"}))
mssql_rowversion == MsSqlColumn(W("ROWVERSION"))
mssql_scope_identity == MsSql(OneOf({"SCOPE_IDENTITY", "IDENT_CURRENT", "@@IDENTITY"}))
mssql_top_clause ==
    MsSql(Seq_(<<W("TOP"), Maybe(W("(")), Either(<<NumberLit, OneOf(Variables)>>)>>))
mssql_try_catch == MsSql(Words(<<"BEGIN", "TRY">>))
mssql_update_set == MsSql(Seq_(<<Tight(<<W("UPDATE"), Spaced>>), Skip({";"}), W("SET")>>))

MsSqlSpecs ==
    [mssql_bracket_identifier |-> mssql_bracket_identifier, mssql_charindex |-> mssql_charindex,
     mssql_collation |-> mssql_collation, mssql_computed_column |-> mssql_computed_column,
     mssql_datediff |-> mssql_datediff, mssql_filtered_index |-> mssql_filtered_index,
     mssql_foreign_key |-> mssql_foreign_key, mssql_identity_column |-> mssql_identity_column,
     mssql_if_statement |-> mssql_if_statement, mssql_iif |-> mssql_iif,
     mssql_newid_default |-> mssql_newid_default, mssql_output_clause |-> mssql_output_clause,
     mssql_raiserror |-> mssql_raiserror, mssql_rowversion |-> mssql_rowversion,
     mssql_scope_identity |-> mssql_scope_identity, mssql_top_clause |-> mssql_top_clause,
     mssql_try_catch |-> mssql_try_catch, mssql_update_set |-> mssql_update_set]

-----------------------------------------------------------------------------
(* Batches: GO, alone on its line or before a ; *)

MsSqlCleaned(source) == Clean("mssql", source)

(* _GO_LINE_RE, which allows the ; that _GO_RE does not *)
BatchEnds(s) ==
    {i \in DOMAIN s :
        /\ PastGo(s, i) # 0
        /\ LET j == AfterSpaces(s, PastGo(s, i))
           IN  LineEnds(s, j) \/ (j <= Len(s) /\ s[j] = ";" /\ LineEnds(s, j + 1))}

RoutineHead ==
    Seq_(<<W("CREATE"), Maybe(Seq_(<<W("OR"), OneOf({"ALTER", "REPLACE"})>>)),
           OneOf({"PROCEDURE", "PROC", "FUNCTION", "TRIGGER"})>>)

(* The first GO between a routine's head and the next CREATE *)
mssql_go_separator(source) ==
    LET s == MsSqlCleaned(source)
        next(m) == Search(Tight(<<W("CREATE"), Spaced>>), s, m.to, Len(s))
        body(m) == IF next(m) = <<>> THEN s ELSE SubSeq(s, 1, next(m)[1].at - 1)
        ended(m) == {i \in BatchEnds(body(m)) : i >= m.to}
    IN  {Finding(Min(ended(m)), <<s[m.name]>>, "mssql_go_separator") :
            m \in {r \in ToSet_(FindAll(Seq_(<<RoutineHead, MsSqlQualified>>), s)) : ended(r) # {}}}

(* The batches, cut at GO and at a CREATE TABLE that opens a line; what follows *)
(* the last cut is none                                                         *)
Batches(s) ==
    LET cuts == {<<i, PastGo(s, i)>> : i \in BatchEnds(s)}
                \cup {<<m.at, m.at>> : m \in {t \in ToSet_(FindAll(MsSqlTableHead, s)) :
                                                t.at > 1 /\ s[t.at - 1] = "nl"}}
        ends == SetToSortSeq(cuts, LAMBDA a, b : a[1] < b[1])
    IN  [k \in DOMAIN ends |-> <<IF k = 1 THEN 1 ELSE ends[k - 1][2], ends[k][1] - 1>>]

(* The last statement of a batch that no ; ends, unless it makes a routine; a GO *)
(* that is ended by ; leaves the ; to the next batch's front                     *)
mssql_statement_terminator(source) ==
    LET s == MsSqlCleaned(source)
        code(b) == {i \in b[1] .. b[2] : s[i] \notin Blanks}
        after(b) == Max({i \in code(b) : s[i] = ";"} \cup {b[1] - 1})
        open(b) == /\ code(b) # {} /\ s[Max(code(b))] # ";"
                   /\ FindAll(RoutineHead, SubSeq(s, b[1], b[2])) = <<>>
        unterminated == {b \in ToSet_(Batches(s)) : open(b)}
        first == CHOOSE b \in unterminated : \A c \in unterminated : b[1] <= c[1]
    IN  IF unterminated = {} THEN {}
        ELSE {Finding(Min({i \in code(first) : i > after(first)}), UNKNOWN, "mssql_statement_terminator")}

-----------------------------------------------------------------------------
(* Names and routines *)

(* INDEX_RE: the table is the name it captures, the index's stands before ON *)
IndexStatement ==
    Seq_(<<W("CREATE"), Maybe(W("UNIQUE")), Maybe(Clustered), W("INDEX"),
           Tight(<<MsSqlNamePart, Spaced>>), W("ON"), MsSqlQualified>>)

IndexNameAt(s, m) ==
    LET keyword == Min({i \in m.at .. m.name : s[i] = "INDEX"})
    IN  Min({i \in keyword + 1 .. m.name : Identifier(s[i])})

mssql_index_name_collision(source) ==
    LET s == MsSqlCleaned(source)
        ms == FindAll(IndexStatement, s)
        name(k) == s[IndexNameAt(s, ms[k])]
        owner(k) == s[ms[Min({j \in DOMAIN ms : name(j) = name(k)})].name]
    IN  {Finding(ms[k].at, <<s[ms[k].name]>>, "mssql_index_name_collision") :
            k \in {j \in DOMAIN ms : owner(j) # s[ms[j].name]}}

mssql_parameterless_procedure(source) ==
    LET s == MsSqlCleaned(source)
        head == Seq_(<<W("CREATE"), Maybe(Words(<<"OR", "ALTER">>)), OneOf({"PROC", "PROCEDURE"})>>)
        bare(m) == LET body == Search(W("AS"), s, m.to, Len(s))
                   IN  body # <<>> /\ \A i \in m.to .. body[1].at : s[i] \notin Variables \cup {"@"}
    IN  {Finding(m.at, <<s[m.name]>>, "mssql_parameterless_procedure") :
            m \in {p \in ToSet_(FindAll(QualifiedName("mssql", head), s)) : bare(p)}}

(* The schemas in front of the names of what the source creates *)
CreatesQualified ==
    LET dotted == Seq_(<<MsSqlNamePart, W(".")>>)
    IN  Seq_(<<W("CREATE"), Maybe(Words(<<"OR", "ALTER">>)),
               OneOf({"TABLE", "VIEW", "PROCEDURE", "PROC", "FUNCTION"}),
               Maybe(dotted), dotted, MsSqlNamePart>>)
CreatesSchema == Seq_(<<Words(<<"CREATE", "SCHEMA">>), Maybe(IfNotExists), MsSqlNamePart>>)

SchemaAt(s, m) ==
    LET dot == Max({i \in m.at .. m.name : s[i] = "."})
    IN  Max({i \in m.at .. dot : Identifier(s[i])})

(* at the first use of each schema the source does not create *)
mssql_schema_qualified_name(source) ==
    LET s == MsSqlCleaned(source)
        created == {s[m.name] : m \in ToSet_(FindAll(CreatesSchema, s))}
        uses == ToSet_(FindAll(CreatesQualified, s))
        schema(m) == s[SchemaAt(s, m)]
        first(m) == \A n \in uses : schema(n) = schema(m) => m.at <= n.at
    IN  {Finding(SchemaAt(s, m), <<schema(m), s[m.name]>>, "mssql_schema_qualified_name") :
            m \in {u \in uses : schema(u) \notin created /\ first(u)}}

mssql_with_rollup(source) ==
    LET s == MsSqlCleaned(source)
    IN  {Finding(m.at, FlatEnclosingObjectName(MsSqlIndex(s), m.at), "mssql_with_rollup") :
            m \in ToSet_(FindAll(WithRollup, s))}

-----------------------------------------------------------------------------
MsSqlScans ==
    {"mssql_go_separator", "mssql_index_name_collision", "mssql_parameterless_procedure",
     "mssql_schema_qualified_name", "mssql_statement_terminator", "mssql_with_rollup"}

(* the detector of that name, run on a source *)
MsSqlFindings(name, source) ==
    CASE name \in DOMAIN MsSqlSpecs -> Build(MsSqlSpecs[name], name, source)
      [] name = "mssql_go_separator" -> mssql_go_separator(source)
      [] name = "mssql_index_name_collision" -> mssql_index_name_collision(source)
      [] name = "mssql_parameterless_procedure" -> mssql_parameterless_procedure(source)
      [] name = "mssql_schema_qualified_name" -> mssql_schema_qualified_name(source)
      [] name = "mssql_statement_terminator" -> mssql_statement_terminator(source)
      [] name = "mssql_with_rollup" -> mssql_with_rollup(source)

=============================================================================
