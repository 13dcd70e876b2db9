---------------------------- MODULE DetectorSpec ----------------------------
(***************************************************************************)
(* detector_spec.py: a detector as data, and what build() makes of it.     *)
(* A finding is where it is, the object it is blamed on, and its message.  *)
(***************************************************************************)
EXTENDS SqlText
LOCAL INSTANCE SequencesExt

Strategies ==
    {"enclosing", "match_named", "match_qualified", "table_columns", "table_statement",
     "statement_clause"}
NoPattern == Seq_(<<>>)

(* One constructor per strategy, over the view the pattern is searched in *)
SpecOf(dialect, strategy, view, head, pattern) ==
    [dialect |-> dialect, strategy |-> strategy, view |-> view, head |-> head, pattern |-> pattern]
InRoutine(dialect, view, pattern) == SpecOf(dialect, "enclosing", view, NoPattern, pattern)
MatchNamed(dialect, pattern) ==
    SpecOf(dialect, "match_named", "strings_and_comments", NoPattern, pattern)
InTable(dialect, strategy, pattern) ==
    SpecOf(dialect, strategy, "strings_and_comments",
           QualifiedName(dialect, TableHead(dialect)), pattern)
InColumns(dialect, pattern) == InTable(dialect, "table_columns", pattern)
OneInStatement(dialect, head, pattern) ==
    SpecOf(dialect, "statement_clause", "strings_and_comments", QualifiedName(dialect, head), pattern)

Call(name) == Words(<<name, "(">>)

Finding(at, object, message) == [at |-> at, object |-> object, message |-> message]

(* The heads of the statements of a spec, each with where its text ends *)
Statements(spec, s) ==
    LET heads == FindAll(spec.head, s)
    IN  {[head |-> heads[k],
          end |-> StatementEnd(s, heads[k].to, IF k < Len(heads) THEN heads[k + 1].at ELSE 0)] :
            k \in DOMAIN heads}

(* matches of p in the piece s[from .. to], a text of its own *)
FindIn(p, s, from, to) ==
    LET ms == FindAll(p, SubSeq(s, from, to))
    IN  [k \in DOMAIN ms |-> [ms[k] EXCEPT !.at = @ + from - 1, !.to = @ + from - 1,
                                           !.name = IF @ = 0 THEN 0 ELSE @ + from - 1]]

(* the name of a match with the schema before its dot *)
FullName(s, m) ==
    LET before == Max({i \in m.at .. m.name - 1 : Identifier(s[i])})
    IN  IF \E i \in before .. m.name : s[i] = "." THEN <<s[before], s[m.name]>> ELSE <<s[m.name]>>

(* build(spec)(source), without the test for the required word *)
Unfiltered(spec, message, source) ==
    LET s == View(spec.dialect, spec.view, source)
        anchor == Clean(spec.dialect, source)
        index == IndexOf(spec.dialect, anchor)
        all == ToSet_(FindAll(spec.pattern, s))
        heads == FindAll(spec.head, s)
        inside(from, to) == ToSet_(FindIn(spec.pattern, s, from, to))
        named(m) == <<s[m.name]>>
    IN  CASE spec.strategy = "enclosing" ->
                {Finding(m.at, EnclosingObjectName(spec.dialect, index, m.at), message) : m \in all}
          [] spec.strategy = "match_named" -> {Finding(m.at, named(m), message) : m \in all}
          [] spec.strategy = "match_qualified" -> {Finding(m.at, FullName(s, m), message) : m \in all}
          [] spec.strategy = "table_columns" ->
                UNION {LET span == TableColumnDefinitionList(s, heads[k].to)
                       IN  IF span = <<>> THEN {}
                           ELSE {Finding(m.at, named(heads[k]), message) :
                                    m \in inside(span[1] + 1, span[2] - 1)} : k \in DOMAIN heads}
          [] spec.strategy = "table_statement" ->
                UNION {{Finding(m.at, named(st.head), message) : m \in inside(st.head.to, st.end - 1)} :
                        st \in Statements(spec, s)}
          [] spec.strategy = "statement_clause" ->
                UNION {LET found == FindIn(spec.pattern, s, st.head.to, st.end - 1)
                       IN  IF found = <<>> THEN {}
                           ELSE {Finding(found[1].at, named(st.head), message)} :
                        st \in Statements(spec, s)}

(* WITH_ROLLUP_RE of rollup.py: the innermost GROUP BY before the WITH *)
GroupBy == Words(<<"GROUP", "BY">>)
WithRollup ==
    Seq_(<<Tight(<<GroupBy, Spaced>>), Tight(<<SkipBefore({";"}, GroupBy), Spaced>>), W("WITH"),
           OneOf({"ROLLUP", "CUBE"})>>)

-----------------------------------------------------------------------------
(* The cheap test before the pattern: a word no match can be without *)

\* Mutant of RequiredWords: what may be missing is required.
RECURSIVE AnyWords(_)
AnyWords(p) ==
    CASE p.is = "one" -> IF Cardinality(p.of) = 1 THEN p.of ELSE {}
      [] p.is \in {"seq", "alt"} -> UNION {AnyWords(p.of[k]) : k \in DOMAIN p.of}
      [] p.is \in {"maybe", "many"} -> AnyWords(p.of)
      [] OTHER -> {}

(* the words at the top level of a pattern or in a plain group of it *)
RECURSIVE RequiredWords(_)
RequiredWords(p) ==
    CASE p.is = "one" -> IF Cardinality(p.of) = 1 THEN p.of ELSE {}
      [] p.is = "seq" -> UNION {RequiredWords(p.of[k]) : k \in DOMAIN p.of}
      [] OTHER -> {}

(* _required_word: the longest, of three characters or more; none is "" *)
RequiredWord(p) ==
    LET long == {w \in RequiredWords(p) : Identifier(w) /\ Len(w) >= 3}
    IN  IF long = {} THEN "" ELSE CHOOSE w \in long : \A v \in long : Len(v) <= Len(w)

(* build(spec)(source) *)
Build(spec, message, source) ==
    LET required == RequiredWord(spec.pattern)
        searched == View(spec.dialect, spec.view, source)
    IN  IF required # "" /\ \A i \in DOMAIN searched : searched[i] # required THEN {}
        ELSE Unfiltered(spec, message, source)

=============================================================================
