--------------------------- MODULE MySqlDetectors ---------------------------
(***************************************************************************)
(* The detectors of the MySQL dialect, one definition each under its name  *)
(* (detectors/mysql_*.py), and the index clauses of mysql_indexes.py.      *)
(***************************************************************************)
EXTENDS DetectorSpec
LOCAL INSTANCE SequencesExt

MySql(pattern) == InRoutine("mysql", "strings_and_comments", pattern)
MySqlColumn(pattern) == InColumns("mysql", pattern)

mysql_auto_increment_start == MySql(Seq_(<<Words(<<"AUTO_INCREMENT", "=">>), NumberLit>>))
mysql_collate == MySqlColumn(Seq_(<<Either(<<W("COLLATE"), Words(<<"CHARACTER", "SET">>)>>), Word>>))
mysql_date_format == MySql(Call("DATE_FORMAT"))
mysql_declare_handler ==
    MySql(Seq_(<<W("DECLARE"), OneOf({"CONTINUE", "EXIT", "UNDO"}), W("HANDLER")>>))
mysql_definer_procedure ==
    MatchNamed("mysql", QualifiedName("mysql",
        Seq_(<<W("CREATE"), OrReplace, Maybe(Seq_(<<Words(<<"ALGORITHM", "=">>), Name>>)),
               Words(<<"DEFINER", "=">>), Skip(HoldsSemicolon),
               Maybe(Seq_(<<Words(<<"SQL", "SECURITY">>), Name>>)), W("PROCEDURE"),
               Maybe(IfNotExists)>>)))
mysql_enum_type == MySqlColumn(Call("ENUM"))
mysql_foreign_key == MySqlColumn(Words(<<"FOREIGN", "KEY">>))
mysql_fulltext_index == MySqlColumn(Seq_(<<W("FULLTEXT"), OneOf({"KEY", "INDEX"})>>))
mysql_insert_ignore == MySql(Words(<<"INSERT", "IGNORE">>))
mysql_last_insert_id == MySql(Call("LAST_INSERT_ID"))
mysql_limit_comma == MySql(Seq_(<<W("LIMIT"), Word, W(","), Word>>))
mysql_on_duplicate_key_update == MySql(Words(<<"ON", "DUPLICATE", "KEY", "UPDATE">>))
mysql_on_update_current_timestamp == MySqlColumn(Words(<<"ON", "UPDATE", "CURRENT_TIMESTAMP">>))
mysql_prepare_from == MySql(Seq_(<<W("PREPARE"), Word, W("FROM")>>))
mysql_replace_into == MySql(Words(<<"REPLACE", "INTO">>))
mysql_set_type == MySqlColumn(Call("SET"))
mysql_signal == MySql(OneOf({"SIGNAL", "RESIGNAL"}))
mysql_spatial_index == MySqlColumn(Seq_(<<W("SPATIAL"), OneOf({"KEY", "INDEX"})>>))

MySqlSpecs ==
    [mysql_auto_increment_start |-> mysql_auto_increment_start, mysql_collate |-> mysql_collate,
     mysql_date_format |-> mysql_date_format, mysql_declare_handler |-> mysql_declare_handler,
     mysql_definer_procedure |-> mysql_definer_procedure, mysql_enum_type |-> mysql_enum_type,
     mysql_foreign_key |-> mysql_foreign_key, mysql_fulltext_index |-> mysql_fulltext_index,
     mysql_insert_ignore |-> mysql_insert_ignore, mysql_last_insert_id |-> mysql_last_insert_id,
     mysql_limit_comma |-> mysql_limit_comma,
     mysql_on_duplicate_key_update |-> mysql_on_duplicate_key_update,
     mysql_on_update_current_timestamp |-> mysql_on_update_current_timestamp,
     mysql_prepare_from |-> mysql_prepare_from, mysql_replace_into |-> mysql_replace_into,
     mysql_set_type |-> mysql_set_type, mysql_signal |-> mysql_signal,
     mysql_spatial_index |-> mysql_spatial_index]

-----------------------------------------------------------------------------
(* Tables and routines created at the top level, or under a delimiter *)

MySqlCleaned(source) == Clean("mysql", source)

(* Created objects that match p, each with its name *)
Created(s, p, message) == {Finding(m.at, <<s[m.name]>>, message) : m \in ToSet_(FindAll(p, s))}

OutsideRoutines(s, found) == {f \in found : ~InsideRoutineBody(MySqlIndex(s), f.at)}

mysql_create_table_if_not_exists(source) ==
    LET s == MySqlCleaned(source)
        head == Seq_(<<W("CREATE"), Maybe(W("TEMPORARY")), W("TABLE"), IfNotExists>>)
    IN  OutsideRoutines(s, Created(s, QualifiedName("mysql", head), "mysql_create_table_if_not_exists"))

mysql_temporary_table(source) ==
    LET s == MySqlCleaned(source)
        head == Seq_(<<Words(<<"CREATE", "TEMPORARY", "TABLE">>), NotAhead(IfNotExists)>>)
    IN  OutsideRoutines(s, Created(s, QualifiedName("mysql", head), "mysql_temporary_table"))

mysql_delimiter_routine(source) ==
    LET s == MySqlCleaned(source)
        routines == Created(s, QualifiedName("mysql", MySqlObject(MySqlRoutine)), "mysql_delimiter_routine")
    IN  {f \in routines : DelimiterAt(s, f.at) # ";"}

mysql_delimiter_trigger(source) ==
    LET s == MySqlCleaned(source)
        triggers == Created(s, QualifiedName("mysql", MySqlObject(W("TRIGGER"))), "mysql_delimiter_trigger")
    IN  {f \in triggers : DelimiterAt(s, f.at) \notin HoldsSemicolon}

mysql_with_rollup(source) ==
    LET s == MySqlCleaned(source)
    IN  {Finding(m.at, FlatEnclosingObjectName(MySqlIndex(s), m.at), "mysql_with_rollup") :
            m \in ToSet_(FindAll(WithRollup, s))}

-----------------------------------------------------------------------------
(* Column lists: keys, prefixes and names of indexes, zero dates *)

(* The column lists of the tables of s: the table's name and the list's span *)
ColumnLists(s) ==
    {[table |-> s[m.name], from |-> TableColumnDefinitionList(s, m.to)[1] + 1,
      to |-> TableColumnDefinitionList(s, m.to)[2] - 1] :
        m \in {h \in ToSet_(FindAll(QualifiedName("mysql", MySqlTableHead), s)) :
                    TableColumnDefinitionList(s, h.to) # <<>>}}

KeyQualifiers == {"PRIMARY", "UNIQUE", "FOREIGN", "FULLTEXT", "SPATIAL"}

mysql_key_index(source) ==
    LET s == MySqlCleaned(source)
        key == Seq_(<<Maybe(OneOf(KeyQualifiers)), W("KEY")>>)
    IN  UNION {{Finding(m.at, <<list.table>>, "mysql_key_index") :
                    m \in {k \in ToSet_(FindIn(key, s, list.from, list.to)) : s[k.at] = "KEY"}} :
               list \in ColumnLists(s)}

(* a date of zeros, one symbol, with or without its time *)
ZeroDate == Tight(<<W("'"), Seq_(<<W("0000-00-00"), Maybe(W("00:00:00"))>>), W("'")>>)

mysql_zero_date(source) ==
    LET s == MySqlCleaned(source)
        visible == CommentsBlanked("mysql", source)
    IN  UNION {{Finding(m.at, <<list.table>>, "mysql_zero_date") :
                    m \in ToSet_(FindIn(ZeroDate, visible, list.from, list.to))} :
               list \in ColumnLists(s)}

(* mysql_indexes.py: what a piece of a column list says of an index *)
IndexQualifiers == {"UNIQUE", "FULLTEXT", "SPATIAL"}
IndexHead == Seq_(<<Maybe(OneOf(IndexQualifiers)), OneOf({"KEY", "INDEX"})>>)
IndexName == Either(<<Tight(<<W("bt"), Name, W("bt")>>), Name>>)
IndexColumn ==
    Seq_(<<IndexName, Maybe(Seq_(<<W("("), NumberLit, W(")")>>)), Maybe(OneOf({"ASC", "DESC"}))>>)

(* _COLUMN_RE on s[from .. to]: the name of the column and its prefix length, or none *)
ColumnOf(s, from, to) ==
    LET piece == SubSeq(s, from, to)
        first == AfterBlanks(piece, 1)
        whole == SelectSeq(Matches(IndexColumn, piece, first),
                           LAMBDA m : AfterBlanks(piece, m.to) > Len(piece))
    IN  IF whole = <<>> THEN <<>>
        ELSE <<[name |-> piece[whole[1].name],
                prefix |-> \E k \in first .. Len(piece) : piece[k] = "("]>>

(* The clause that the piece s[from .. to] of the table's list is, if it is one: a *)
(* bare KEY needs a blank before its (                                             *)
IndexClauseOf(s, table, from, to) ==
    LET piece == SubSeq(s, 1, to)
        start == AfterBlanks(piece, from)
        head == MatchAt(IndexHead, piece, start)
        next == AfterBlanks(piece, head[1].to)
        given == MatchAt(IndexName, piece, next)
        open == AfterBlanks(piece, given[1].to)
        parens(o) == o <= to /\ s[o] = "(" /\ \E c \in o + 1 .. to : s[c] = ")"
        columns(o) ==
            LET spans == TopLevelItems(s, o + 1, Max({c \in o .. to : s[c] = ")"}) - 1)
            IN  [k \in DOMAIN spans |-> ColumnOf(s, spans[k][1], spans[k][2])]
        clause(name, nameAt, o) ==
            IF \E k \in DOMAIN columns(o) : columns(o)[k] = <<>> THEN <<>>
            ELSE <<[table |-> table, start |-> start, keywordAt |-> head[1].to - 1,
                    qualified |-> s[start] \in IndexQualifiers, name |-> name, nameAt |-> nameAt,
                    columns |-> [k \in DOMAIN columns(o) |-> columns(o)[k][1]]]>>
    IN  IF head = <<>> THEN <<>>
        ELSE IF given # <<>> /\ parens(open) THEN clause(s[given[1].name], next, open)
        ELSE IF next > head[1].to /\ parens(next) THEN clause("", head[1].to, next)
        ELSE <<>>

HasPrefix(clause) == \E k \in DOMAIN clause.columns : clause.columns[k].prefix

(* index_clauses, in the order of the source *)
IndexClauses(source) ==
    LET s == MySqlCleaned(source)
        pieces == UNION {{<<list.table>> \o span :
                            span \in ToSet_(TopLevelItems(s, list.from, list.to))} : list \in ColumnLists(s)}
        found == UNION {ToSet_(IndexClauseOf(s, p[1], p[2], p[3])) : p \in pieces}
    IN  SetToSortSeq(found, LAMBDA a, b : a.start < b.start)

PlainNamed(clauses) == SelectSeq(clauses, LAMBDA c : ~c.qualified /\ c.name # "")

\* Mutant of CollidingNames: one table is enough to collide.
NamesGiven(clauses) ==
    {c.name : c \in ToSet_(PlainNamed(clauses))}

(* colliding_names: the names two tables give an index *)
CollidingNames(clauses) ==
    {c.name : c \in {a \in ToSet_(PlainNamed(clauses)) :
                \E b \in ToSet_(PlainNamed(clauses)) : b.name = a.name /\ b.table # a.table}}

mysql_index_prefix(source) ==
    {Finding(c.start, <<c.table>>, "mysql_index_prefix") :
        c \in {x \in ToSet_(IndexClauses(source)) : HasPrefix(x)}}

mysql_index_name_collision(source) ==
    LET named == PlainNamed(IndexClauses(source))
        firstTable(name) == named[Min({k \in DOMAIN named : named[k].name = name})].table
    IN  {Finding(c.start, <<c.table>>, "mysql_index_name_collision") :
            c \in {x \in ToSet_(named) : x.name \in CollidingNames(named) /\ x.table # firstTable(x.name)}}

-----------------------------------------------------------------------------
(* Definitions in executable comments *)

VersionedComment ==
    Tight(<<W("/"), W("*"), Maybe(W("M")), W("!"), Maybe(NumberLit),
            SkipBefore({}, Tight(<<W("*"), W("/")>>)), W("*"), W("/")>>)

VersionedObject ==
    Seq_(<<W("CREATE"), OrReplace, Maybe(Seq_(<<Words(<<"ALGORITHM", "=">>), Name>>)),
           Maybe(Seq_(<<Words(<<"DEFINER", "=">>), Skip(Blanks)>>)),
           Maybe(Seq_(<<Words(<<"SQL", "SECURITY">>), Name>>)),
           OneOf({"TRIGGER", "VIEW", "PROCEDURE", "FUNCTION"}), QualifiedBy("bt")>>)

(* what a versioned comment m of the source says *)
BodyOf(source, m) ==
    LET marks == IF source[m.at + 2] = "M" THEN m.at + 4 ELSE m.at + 3
    IN  SubSeq(source, IF source[marks] \in Numbers THEN marks + 1 ELSE marks, m.to - 3)

mysql_versioned_comment(source) ==
    LET s == CommentsBlanked("mysql", source)
        ms == SelectSeq(FindAll(VersionedComment, source), LAMBDA m : s[m.at] = "sp")
        joins(k) == k > 1 /\ \A i \in ms[k - 1].to .. ms[k].at - 1 : source[i] \in Blanks
        starts == {k \in DOMAIN ms : ~joins(k)}
        end(k) == Min({j \in starts : j > k} \cup {Len(ms) + 1}) - 1
        body(k) == FlattenSeq([j \in 1 .. end(k) + 1 - k |-> BodyOf(source, ms[k + j - 1]) \o <<"sp">>])
        created(k) == MatchAt(VersionedObject, body(k), AfterBlanks(body(k), 1))
    IN  {Finding(ms[k].at, <<body(k)[created(k)[1].name]>>, "mysql_versioned_comment") :
            k \in {j \in starts : created(j) # <<>>}}

-----------------------------------------------------------------------------
MySqlScans ==
    {"mysql_create_table_if_not_exists",
     "mysql_delimiter_routine",
     "mysql_delimiter_trigger",
     "mysql_index_name_collision",
     "mysql_index_prefix",
     "mysql_key_index",
     "mysql_temporary_table",
     "mysql_versioned_comment",
     "mysql_with_rollup",
     "mysql_zero_date"}

(* the detector of that name, run on a source *)
MySqlFindings(name, source) ==
    CASE name \in DOMAIN MySqlSpecs -> Build(MySqlSpecs[name], name, source)
      [] name = "mysql_create_table_if_not_exists" -> mysql_create_table_if_not_exists(source)
      [] name = "mysql_delimiter_routine" -> mysql_delimiter_routine(source)
      [] name = "mysql_delimiter_trigger" -> mysql_delimiter_trigger(source)
      [] name = "mysql_index_name_collision" -> mysql_index_name_collision(source)
      [] name = "mysql_index_prefix" -> mysql_index_prefix(source)
      [] name = "mysql_key_index" -> mysql_key_index(source)
      [] name = "mysql_temporary_table" -> mysql_temporary_table(source)
      [] name = "mysql_versioned_comment" -> mysql_versioned_comment(source)
      [] name = "mysql_with_rollup" -> mysql_with_rollup(source)
      [] name = "mysql_zero_date" -> mysql_zero_date(source)

=============================================================================
