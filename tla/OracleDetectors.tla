--------------------------- MODULE OracleDetectors ---------------------------
(***************************************************************************)
(* The detectors of the Oracle dialect that detector_spec.py builds, one   *)
(* definition each under its name (detectors/*.py).                        *)
(***************************************************************************)
EXTENDS DetectorSpec
LOCAL INSTANCE SequencesExt

(* what EXECUTE IMMEDIATE runs is searched too, or it is not *)
Dynamic(pattern) == InRoutine("oracle", "dynamic_sql_visible", pattern)
Static(pattern) == InRoutine("oracle", "strings_and_comments", pattern)
OracleColumn(pattern) == InColumns("oracle", pattern)
TableClause(pattern) == OneInStatement("oracle", OracleTableHead, pattern)
Named(head) == MatchNamed("oracle", QualifiedName("oracle", head))

Unquoted(p) == Tight(<<NotAfter({"dq"}), p, NotAhead(W("dq"))>>)
Owned(owners, p) == Seq_(<<Maybe(Seq_(<<OneOf(owners), W(".")>>)), p>>)
Parenthesised(p) == Seq_(<<W("("), p, W(")")>>)
Signed == Tight(<<Maybe(W("-")), NumberLit>>)

accessible_by == Static(Tight(<<NotAfter({"dq"}), Words(<<"ACCESSIBLE", "BY", "(">>)>>))
anydata_type == OracleColumn(Owned({"SYS"}, OneOf({"ANYDATASET", "ANYDATA", "ANYTYPE"})))
authid_clause == Dynamic(Seq_(<<W("AUTHID"), OneOf({"CURRENT_USER", "DEFINER"})>>))
bitmap_index ==
    LET part == Tight(<<Maybe(W("dq")), Name, Maybe(W("dq"))>>)
    IN  SpecOf("oracle", "match_qualified", "strings_and_comments", NoPattern,
               Seq_(<<Words(<<"CREATE", "BITMAP">>), Maybe(W("JOIN")), W("INDEX"),
                      Maybe(Seq_(<<part, W(".")>>)), part>>))
collection_type ==
    MatchNamed("oracle",
        Seq_(<<OracleObject(W("TYPE")), Tight(<<QualifiedBy("dq"), Spaced>>), OneOf({"IS", "AS"}),
               Either(<<Words(<<"TABLE", "OF">>),
                        Seq_(<<Either(<<W("VARRAY"), Words(<<"VARYING", "ARRAY">>)>>),
                               Parenthesised(NumberLit), W("OF")>>)>>)>>))
conditional_compilation == Static(Tight(<<W("$"), OneOf({"IF", "ELSIF", "ELSE", "END"})>>))
connect_by_pseudocolumn ==
    Dynamic(OneOf({"CONNECT_BY_ROOT", "CONNECT_BY_ISLEAF", "CONNECT_BY_ISCYCLE"}))
context_object == Named(Seq_(<<W("CREATE"), OrReplace, W("CONTEXT")>>))
cross_apply == Dynamic(Seq_(<<OneOf({"CROSS", "OUTER"}), W("APPLY")>>))
cursor_expression == Dynamic(Seq_(<<Words(<<"CURSOR", "(">>), Many(W("(")), W("SELECT")>>))
default_on_null ==
    InTable("oracle", "table_statement",
            Seq_(<<Words(<<"DEFAULT", "ON", "NULL">>), NotAhead(Words(<<"AS", "IDENTITY">>))>>))
flashback_query == Dynamic(Seq_(<<Words(<<"AS", "OF">>), OneOf({"TIMESTAMP", "SCN"})>>))
for_update_wait ==
    Dynamic(Seq_(<<Words(<<"FOR", "UPDATE">>), Maybe(Seq_(<<W("OF"), Skip({";", "(", ")"})>>)),
                   W("WAIT"), NumberLit>>))
goto_statement == Dynamic(Seq_(<<W("GOTO"), Name>>))
identity_on_null ==
    OracleColumn(Words(<<"GENERATED", "BY", "DEFAULT", "ON", "NULL", "AS", "IDENTITY">>))
ignore_nulls == Dynamic(Seq_(<<OneOf({"IGNORE", "RESPECT"}), W("NULLS")>>))
index_organized_table == TableClause(Unquoted(Words(<<"ORGANIZATION", "INDEX">>)))
invisible_index ==
    OneInStatement("oracle",
        Seq_(<<W("CREATE"), Maybe(OneOf({"UNIQUE", "BITMAP"})), W("INDEX")>>),
        Seq_(<<Unquoted(W("INVISIBLE")), NotAhead(OneOf({",", ")"}))>>))
keep_dense_rank == Dynamic(Words(<<"KEEP", "(", "DENSE_RANK">>))
local_time_zone ==
    OracleColumn(Seq_(<<W("TIMESTAMP"), Tight(<<Maybe(Parenthesised(NumberLit)), Spaced>>),
                        Words(<<"WITH", "LOCAL", "TIME", "ZONE">>)>>))
long_raw_type == OracleColumn(Words(<<"LONG", "RAW">>))
match_recognize == Dynamic(Call("MATCH_RECOGNIZE"))
materialized_view_log == Named(Words(<<"CREATE", "MATERIALIZED", "VIEW", "LOG", "ON">>))
nlssort == Dynamic(Call("NLSSORT"))
pivot_clause ==
    Dynamic(Seq_(<<OneOf({"PIVOT", "UNPIVOT"}),
                   Maybe(Tight(<<Either(<<W("XML"), Seq_(<<OneOf({"INCLUDE", "EXCLUDE"}), W("NULLS")>>)>>),
                                 Spaced>>)),
                   W("(")>>))
pragma_exception_init ==
    Dynamic(Seq_(<<Words(<<"PRAGMA", "EXCEPTION_INIT", "(">>), Name, W(","),
                   Signed, W(")")>>))
read_only_table == TableClause(Unquoted(Words(<<"READ", "ONLY">>)))
rowid_type ==
    OracleColumn(Seq_(<<Tight(<<Maybe(W("dq")), Name, Maybe(W("dq")), Spaced>>),
                        OneOf({"ROWID", "UROWID"})>>))
sample_clause ==
    Dynamic(Seq_(<<W("SAMPLE"), Maybe(W("BLOCK")),
                   Parenthesised(Tight(<<NumberLit, Maybe(Tight(<<W("."), NumberLit>>))>>))>>))
sdo_geometry == OracleColumn(Owned({"MDSYS"}, W("SDO_GEOMETRY")))
sequence_cycle == OneInStatement("oracle", Words(<<"CREATE", "SEQUENCE">>), W("CYCLE"))
sql_macro == Dynamic(W("SQL_MACRO"))
subtype_range ==
    Dynamic(Seq_(<<W("SUBTYPE"), Name, Tight(<<W("IS"), Spaced>>), Skip({";"}),
                   Tight(<<W("RANGE"), Spaced>>), Signed, Tight(<<W("."), W(".")>>), Signed>>))
table_collection ==
    Dynamic(Seq_(<<Either(<<OneOf({"FROM", "JOIN"}), Seq_(<<OneOf({"CROSS", "OUTER"}), W("APPLY")>>)>>),
                   Maybe(W(",")), Maybe(W("THE")), Call("TABLE")>>))
table_if_not_exists == Named(Words(<<"CREATE", "TABLE", "IF", "NOT", "EXISTS">>))
temporal_validity == TableClause(Seq_(<<Words(<<"PERIOD", "FOR">>), Name>>))
to_date_rr ==
    InRoutine("oracle", "comments_only",
        Seq_(<<OneOf({"TO_DATE", "TO_TIMESTAMP", "TO_TIMESTAMP_TZ"}), W("("), Skip({";", "(", ")"}),
               W("'"), Skip({"'"}), OneOf({"RR", "RRRR"}), Skip({"'"}), W("'")>>))
virtual_column == OracleColumn(Call("AS"))
with_function == Dynamic(Seq_(<<W("WITH"), OneOf({"FUNCTION", "PROCEDURE"})>>))
wm_concat == Dynamic(Owned({"SYS", "WMSYS"}, Call("WM_CONCAT")))

OracleSpecs ==
    [accessible_by |-> accessible_by, anydata_type |-> anydata_type,
     authid_clause |-> authid_clause, bitmap_index |-> bitmap_index,
     collection_type |-> collection_type, conditional_compilation |-> conditional_compilation,
     connect_by_pseudocolumn |-> connect_by_pseudocolumn, context_object |-> context_object,
     cross_apply |-> cross_apply, cursor_expression |-> cursor_expression,
     default_on_null |-> default_on_null, flashback_query |-> flashback_query,
     for_update_wait |-> for_update_wait, goto_statement |-> goto_statement,
     identity_on_null |-> identity_on_null, ignore_nulls |-> ignore_nulls,
     index_organized_table |-> index_organized_table, invisible_index |-> invisible_index,
     keep_dense_rank |-> keep_dense_rank, local_time_zone |-> local_time_zone,
     long_raw_type |-> long_raw_type, match_recognize |-> match_recognize,
     materialized_view_log |-> materialized_view_log, nlssort |-> nlssort,
     pivot_clause |-> pivot_clause, pragma_exception_init |-> pragma_exception_init,
     read_only_table |-> read_only_table, rowid_type |-> rowid_type,
     sample_clause |-> sample_clause, sdo_geometry |-> sdo_geometry,
     sequence_cycle |-> sequence_cycle, sql_macro |-> sql_macro,
     subtype_range |-> subtype_range, table_collection |-> table_collection,
     table_if_not_exists |-> table_if_not_exists, temporal_validity |-> temporal_validity,
     to_date_rr |-> to_date_rr, virtual_column |-> virtual_column,
     with_function |-> with_function, wm_concat |-> wm_concat]

(* the detector of that name, run on a source *)
OracleBuilt(name, source) == Build(OracleSpecs[name], name, source)

=============================================================================
