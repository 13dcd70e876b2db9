--------------------------- MODULE OracleRoutines ---------------------------
(***************************************************************************)
(* The detectors of the Oracle dialect that follow the structure of        *)
(* packages, routines and blocks, and the calls in them (detectors/*.py,   *)
(* one definition each under its name), with the block matching of         *)
(* plsql_lex.py.                                                           *)
(***************************************************************************)
EXTENDS OracleClauses
LOCAL INSTANCE SequencesExt

Named_(object) == IF object = UNKNOWN THEN <<"UNKNOWN">> ELSE object

(* what is found at these places, blamed on object.name *)
Member(s, place, name) ==
    Append(Named_(OracleEnclosingObjectName(OracleIndex(s), place)), name)

-----------------------------------------------------------------------------
(* Blocks *)

Openers == {"BEGIN", "CASE", "IF", "LOOP"}
Closers == {"LOOP", "IF", "CASE"}         \* END LOOP, END IF, END CASE

(* find_matching_end: just past the ; of the END that closes the open blocks of *)
(* the stack, from i on; 0 if none does                                         *)
RECURSIVE MatchingEnd(_, _, _)
MatchingEnd(s, i, stack) ==
    LET next == AfterBlanks(s, i + 1)
        qualified == next <= Len(s) /\ s[next] \in Closers
        top == stack[Len(stack)]
        rest == IF qualified /\ top # s[next] THEN stack ELSE Front(stack)
        after == IF qualified THEN next + 1 ELSE i + 1
    IN  IF i > Len(s) THEN 0
        ELSE IF s[i] \in Openers THEN MatchingEnd(s, i + 1, Append(stack, s[i]))
        ELSE IF s[i] # "END" THEN MatchingEnd(s, i + 1, stack)
        ELSE IF rest # <<>> THEN MatchingEnd(s, after, rest)
        ELSE IF Find(s, after, <<";">>) <= Len(s) THEN Find(s, after, <<";">>) + 1
        ELSE after

FindMatchingEnd(s, begin) == MatchingEnd(s, begin + 1, <<"BEGIN">>)

(* _own_is_as: the IS or AS before the ; of the signature; none is 0 *)
OwnIsAs(s, nameEnd) ==
    LET open == AfterBlanks(s, nameEnd)
        from == IF open <= Len(s) /\ s[open] = "(" THEN SkipBalancedParens(s, open) ELSE open
        isAs == {i \in from .. Find(s, from, <<";">>) - 1 : s[i] \in {"IS", "AS"}}
    IN  IF isAs = {} THEN 0 ELSE Min(isAs)

NoBegin == [begin |-> 0, nested |-> <<>>]

(* _find_own_begin: the BEGIN of the routine that is declared before i, past the *)
(* routines nested in it, which it lists; a declaration without a body is        *)
(* skipped to its ;                                                              *)
RECURSIVE OwnBegin(_, _, _)
OwnBegin(s, i, nested) ==
    LET begin == Find(s, i, <<"BEGIN">>)
        routine == Search(RoutineStart, s, i, Len(s))
        isAs == OwnIsAs(s, routine[1].to)
        semi == Find(s, routine[1].to, <<";">>)
        inner == OwnBegin(s, isAs + 1, nested)
        end == FindMatchingEnd(s, inner.begin)
    IN  IF begin > Len(s) THEN NoBegin
        ELSE IF routine = <<>> \/ begin < routine[1].at THEN [begin |-> begin, nested |-> nested]
        ELSE IF isAs = 0 THEN IF semi > Len(s) THEN NoBegin ELSE OwnBegin(s, semi + 1, nested)
        ELSE IF inner.begin = 0 \/ end = 0 THEN NoBegin
        ELSE OwnBegin(s, end, Append(inner.nested, <<routine[1].at, end>>))

(* declare_and_begin and find_matching_end: a routine with a body, or none *)
RoutineBody(s, m) ==
    LET isAs == OwnIsAs(s, m.to)
        own == OwnBegin(s, isAs + 1, <<>>)
        end == FindMatchingEnd(s, own.begin)
    IN  IF isAs = 0 \/ own.begin = 0 \/ end = 0 THEN <<>>
        ELSE <<[m |-> m, declare |-> isAs + 1, end |-> end, nested |-> own.nested]>>

(* The routines that start outside the one before, in their order *)
RECURSIVE OuterRoutines(_, _, _)
OuterRoutines(s, ms, cursor) ==
    IF ms = <<>> THEN <<>>
    ELSE LET body == IF Head(ms).at < cursor THEN <<>> ELSE RoutineBody(s, Head(ms))
         IN  body \o OuterRoutines(s, Tail(ms), IF body = <<>> THEN cursor ELSE body[1].end)

(* own_declare_text: what nested routines say is not the routine's own *)
OwnText(s, r) ==
    [i \in 1 .. r.end - r.declare |->
        LET at == r.declare + i - 1
        IN  IF s[at] # "nl" /\ \E k \in DOMAIN r.nested : r.nested[k][1] <= at /\ at < r.nested[k][2]
            THEN "sp" ELSE s[at]]

PackageAt(s, p, i) ==
    LET before == {m \in ToSet_(FindAll(p, s)) : m.at <= i}
    IN  IF before = {} THEN <<>> ELSE <<s[(CHOOSE m \in before : \A n \in before : n.at <= m.at).name]>>

autonomous_tx(source) ==
    LET s == OracleCleaned(source)
        package == QualifiedName("oracle", Words(<<"PACKAGE", "BODY">>))
        pragmas(r) == FindAll(Words(<<"PRAGMA", "AUTONOMOUS_TRANSACTION", ";">>),
                              OwnText(DynamicSqlVisible(source), r))
        name(r) == Append(Named_(PackageAt(s, package, r.m.at)), s[r.m.name])
    IN  UNION {{Finding(r.declare + p.at - 1, name(r), "autonomous_tx") : p \in ToSet_(pragmas(r))} :
               r \in ToSet_(OuterRoutines(s, RoutineStarts(s), 1))}

(* ora2pg takes a nested routine for the package's, and loses the routine behind it *)
nested_subprogram(source) ==
    LET s == OracleCleaned(source)
        created == SelectSeq(FindAll(StandaloneRoutine, s),
                             LAMBDA m : ~IsInsideGrantOrRevokeStatement(s, m.at))
        opened == RoutineStarts(s)
        all == SortSeq(opened \o created, LAMBDA a, b : a.at < b.at)
        ofPackage(r) == \E k \in DOMAIN opened : opened[k] = r.m
        package(r) == IF ofPackage(r) THEN PackageAt(s, PackageBodyName, r.m.at) ELSE <<>>
        packageEnd(r) == Min({m.at : m \in {p \in ToSet_(FindAll(PackageBodyName, s)) : p.at > r.m.at}}
                             \cup {Len(s) + 1}) - 1
        nested(r, k) == MatchAt(RoutineStart, s, r.nested[k][1])[1].name
        following(r) == IF ofPackage(r) THEN Search(RoutineStart, s, r.end, packageEnd(r)) ELSE <<>>
    IN  UNION {{Finding(nested(r, k), package(r) \o <<s[r.m.name], s[nested(r, k)]>>, "nested_subprogram") :
                    k \in DOMAIN r.nested}
               \cup {Finding(m.name, package(r) \o <<s[m.name]>>, "nested_subprogram.lost_sibling") :
                        m \in ToSet_(following(r))} :
               r \in {o \in ToSet_(OuterRoutines(s, all, 1)) : o.nested # <<>>}}

-----------------------------------------------------------------------------
(* Packages: what is declared before the routines *)

PackageStart == Either(<<PackageBodyName, PackageSpecName>>)
Packages(s) == FindAll(PackageStart, s)

(* where the next package starts, or past the end *)
NextPackage(s, m) == Min({p.at : p \in {q \in ToSet_(Packages(s)) : q.at >= m.to}} \cup {Len(s) + 1})

(* package_sections: a package ends at the next one or at a / on a line of its own *)
Sections(s) ==
    {[start |-> m.to, body |-> MatchAt(PackageBodyName, s, m.at) # <<>>, name |-> s[m.name],
      end |-> Min({NextPackage(s, m)}
                  \cup {i \in m.to .. Len(s) : s[i] = "/" /\ OpensLine(s, i) /\ LineEnds(s, i + 1)})] :
        m \in ToSet_(Packages(s))}

FirstLine(s, from, to, words) ==
    Min({i \in from .. to : s[i] \in words /\ OpensLine(s, i)} \cup {to + 1})
RoutineWords == {"FUNCTION", "PROCEDURE"}

(* package_level_end: a body's own declarations end at its first routine *)
PackageLevelEnd(s, section) ==
    IF section.body THEN FirstLine(s, section.start, section.end - 1, RoutineWords) ELSE section.end

(* NAME [CONSTANT] ... := or DEFAULT, on one line but for a break behind CONSTANT *)
Declaration ==
    Tight(<<LineStart, Name, NotAhead(W("nl")), Spaced,
            Maybe(Seq_(<<Tight(<<Maybe(OneOf({"sp"})), W("CONSTANT")>>), Seq_(<<>>)>>)),
            Skip({";", ":", ":=", "=", "nl"}), OneOf({":=", "DEFAULT"}), Skip({";"}), W(";")>>)

package_constant_chain(source) ==
    LET s == OracleCleaned(source)
        end(m) == Min({FirstLine(s, m.to, Len(s), RoutineWords \cup {"CURSOR"}), NextPackage(s, m)})
        declarations(m) ==
            SelectSeq(FindIn(Declaration, s, m.to, end(m) - 1),
                      LAMBDA d : s[d.name] \notin {"TYPE", "SUBTYPE", "PRAGMA"})
        sets(d) == Min({i \in d.name + 1 .. d.to - 1 : s[i] \in {":=", "DEFAULT"}})
        reads(d, word) ==
            \E i \in sets(d) + 1 .. d.to - 2 :
                /\ s[i] = word /\ s[i + 1] \notin {"$", "#"}
                /\ i = AfterBlanks(s, sets(d) + 1) \/ s[i - 1] \notin {"$", "#", "."}
    IN  UNION {{Finding(ds[k].name, Member(s, ds[k].name, s[ds[k].name]), "package_constant_chain") :
                    k \in {j \in DOMAIN ds : \E i \in 1 .. j - 1 : reads(ds[j], s[ds[i].name])}} :
               ds \in {declarations(m) : m \in ToSet_(Packages(s))}}

BuiltIn == {"NULL", "TRUE", "FALSE", "SYSDATE", "SYSTIMESTAMP", "USER", "UID", "CURRENT_DATE",
            "CURRENT_TIMESTAMP", "LOCALTIMESTAMP", "SESSIONTIMEZONE", "DBTIMEZONE"}

(* s[from .. to] without the blanks it ends in *)
LastOf(s, from, to) == Max({i \in from .. to : s[i] \notin Blanks} \cup {from - 1})

package_constant_default(source) ==
    LET s == OracleCleaned(source)
        heads(m) == FindBetween(Seq_(<<OneOf(RoutineWords), Name, W("(")>>), s, m.to, NextPackage(s, m) - 1)
        params(h) == TopLevelItems(s, h.to, SkipBalancedParens(s, h.to - 1) - 2)
        named == Seq_(<<OneOf({":=", "DEFAULT"}), Maybe(Seq_(<<Name, W(".")>>)), Name,
                        Either(<<Ahead(W(",")), TextEnd>>)>>)
        given(p) == FindIn(named, s, p[1], LastOf(s, p[1], p[2]))
        valueAt(d) == AfterBlanks(s, d.at + 1)
        constant(d) == valueAt(d) # d.name \/ s[d.name] \notin BuiltIn
        first(p) == IF given(p) = <<>> THEN {} ELSE {d \in {given(p)[1]} : constant(d)}
    IN  Blamed(s, {valueAt(d) : d \in UNION {first(p) : p \in UNION {ToSet_(params(h)) :
                        h \in UNION {ToSet_(heads(m)) : m \in ToSet_(Packages(s))}}}},
               "package_constant_default")

ScalarTypes == {"NUMBER", "VARCHAR2", "VARCHAR", "INTEGER", "PLS_INTEGER", "BINARY_INTEGER", "BOOLEAN",
                "DATE", "TIMESTAMP", "CHAR", "NCHAR", "CLOB", "RAW", "LONG"}
PackageVariable ==
    Seq_(<<Tight(<<LineStart, Name, Spaced>>), Maybe(W("CONSTANT")),
           Either(<<Seq_(<<OneOf(ScalarTypes), Maybe(Seq_(<<W("("), Skip({")"}), W(")")>>))>>),
                    Tight(<<Name, Maybe(Tight(<<W("."), Name>>)), W("%"), W("TYPE")>>)>>),
           Maybe(Words(<<"NOT", "NULL">>)), OneOf({":=", "DEFAULT", ";"})>>)

(* a body's variables are before its first routine, a specification's before its first *)
(* FUNCTION or PROCEDURE; the IS is looked for to the end of the text                   *)
package_state(source) ==
    LET s == OracleCleaned(source)
        all == ToSet_(FindAll(PackageBodyName, s)) \cup ToSet_(FindAll(PackageSpecName, s))
        body(m) == MatchAt(PackageBodyName, s, m.at) # <<>>
        boundary(m) == Min({n.at : n \in {o \in all : o.at > m.at}} \cup {Len(s) + 1})
        is(m) == HeaderEnd(s, m.to, {"IS", "AS"})
        end(m) == IF body(m)
                  THEN Min({r.at : r \in ToSet_(FindBetween(RoutineStart, s, is(m) + 1, boundary(m) - 1))}
                           \cup {boundary(m)})
                  ELSE Min({HeaderEnd(s, is(m) + 1, RoutineWords), boundary(m)})
    IN  UNION {{Finding(v.at, <<s[m.name], s[v.at]>>, "package_state") :
                    v \in ToSet_(FindIn(PackageVariable, s, is(m) + 1, end(m) - 1))} :
               m \in {n \in all : is(n) <= Len(s)}}

Anchor == Tight(<<W("%"), OneOf({"TYPE", "ROWTYPE"})>>)
package_type_anchor(source) ==
    LET s == OracleCleaned(source)
        subtypes(p) == FindBetween(Seq_(<<W("SUBTYPE"), Name, Tight(<<W("IS"), Skip({";"}), Anchor>>)>>),
                                   s, p.start, PackageLevelEnd(s, p) - 1)
        records(p) == FindBetween(Seq_(<<W("TYPE"), Name, Words(<<"IS", "RECORD", "(">>)>>),
                                  s, p.start, PackageLevelEnd(s, p) - 1)
        anchored(m) == AfterBlanks(s, Find(s, m.name + 1, <<"IS">>) + 1)
        anchors(r) == Search(Anchor, s, r.to, SkipBalancedParens(s, r.to - 1) - 1)
    IN  Blamed(s, UNION {{anchored(m) : m \in ToSet_(subtypes(p))}
                         \cup UNION {Places(anchors(r)) : r \in ToSet_(records(p))} : p \in Sections(s)},
               "package_type_anchor")

(* TYPE name IS, but not REF: one blank behind IS is all the look ahead sees past *)
TypeDeclaration ==
    Seq_(<<OneOf({"TYPE", "SUBTYPE"}), Name,
           Tight(<<W("IS"), Spaced,
                   NotAhead(Either(<<W("REF"), Tight(<<OneOf(Blanks), W("REF")>>)>>))>>)>>)

(* The name at i is a type's: behind a name, a mode or RETURN, from floor on, *)
(* and before nothing that would make it a call, a member or an anchor        *)
UsedAsType(s, i, floor) ==
    LET before == Max({j \in floor .. i - 1 : s[j] \notin Blanks} \cup {0})
        next == AfterBlanks(s, i + 1)
    IN  /\ (i > 1 /\ BlankAt(s, i - 1)) \/ BlankAt(s, i)
        /\ before >= floor /\ before > 0 /\ Identifier(s[before])
        /\ s[before] = "RETURN" \/ before = 1 \/ s[before - 1] \notin {".", "$", "#"}
        /\ next > Len(s) \/ s[next] \notin {".", "(", "%"}

(* the statement around i declares a type *)
DeclaresType(s, i) ==
    LET start == Max({j \in 1 .. i - 1 : s[j] = ";"} \cup {0})
    IN  s[AfterBlanks(s, start + 1)] \in {"TYPE", "SUBTYPE"}

(* _first_uses: the first use of the name in s[from .. to]; a use within a *)
(* declaration is passed over                                              *)
FirstUse(s, name, from, to) ==
    LET next[i \in Nat, floor \in Nat] ==
            IF i > to THEN {}
            ELSE IF s[i] # name \/ ~UsedAsType(SubSeq(s, 1, to), i, floor) THEN next[i + 1, floor]
            ELSE IF DeclaresType(s, i - 1) THEN next[i + 1, i + 1]
            ELSE {i}
    IN  next[from, from]

package_type_reference(source) ==
    LET s == OracleCleaned(source)
        declared(owner) ==
            UNION {{s[m.name] : m \in ToSet_(FindBetween(TypeDeclaration, s, p.start, PackageLevelEnd(s, p) - 1))} :
                   p \in {q \in Sections(s) : q.name = owner}}
        routine(p) == Search(RoutineStart, s, p.start, p.end - 1)
        uses(p) == IF routine(p) = <<>> THEN {}
                   ELSE UNION {FirstUse(s, n, routine(p)[1].at, p.end - 1) : n \in declared(p.name)}
        first(p, i) == \A q \in Sections(s) : q.name = p.name =>
                            \A j \in uses(q) : s[j] = s[i] => i <= j
    IN  Blamed(s, UNION {{i \in uses(p) : first(p, i)} : p \in Sections(s)}, "package_type_reference")

-----------------------------------------------------------------------------
(* Parameters *)

RoutineHeader ==
    Seq_(<<OneOf(RoutineWords), Maybe(Seq_(<<Name, W(".")>>)), Name, W("(")>>)

(* parameter_lists: what is between the parentheses of a header *)
ParameterLists(s) ==
    {[start |-> m.to, end |-> SkipBalancedParens(s, m.to - 1) - 1] : m \in ToSet_(FindAll(RoutineHeader, s))}

param_default_spacing(source) ==
    LET s == OracleCleaned(source)
        tight(p, i) == \/ i > p.start /\ s[i - 1] \notin Blanks
                       \/ i < p.end - 1 /\ s[i + 1] \notin Blanks
    IN  Blamed(s, UNION {{i \in p.start .. p.end - 1 : s[i] = ":=" /\ tight(p, i)} : p \in ParameterLists(s)},
               "param_default_spacing")

HasDefault(param) == \E i \in DOMAIN param : param[i] \in {":=", "DEFAULT"}
IsOut(param) ==
    LET ofName == AfterBlanks(param, 1)
        mode == AfterBlanks(param, ofName + 1)
    IN  mode <= Len(param) /\ Identifier(param[ofName]) /\ param[mode] = "OUT"

(* a function's OUT parameter is not passed, and may stand behind a default *)
param_after_default(source) ==
    LET s == OracleCleaned(source)
        behind(m) ==
            LET params == CallArguments(s, m.to - 1)
            IN  \E j \in DOMAIN params :
                    /\ \E i \in 1 .. j - 1 : HasDefault(params[i])
                    /\ ~HasDefault(params[j])
                    /\ IsOut(params[j]) => s[m.at] = "PROCEDURE"
    IN  Blamed(s, {m.at : m \in {h \in ToSet_(FindAll(RoutineHeader, s)) : behind(h)}}, "param_after_default")

-----------------------------------------------------------------------------
(* Calls *)

StatementStart == {";", "BEGIN", "THEN", "ELSE", "LOOP"}
CallFollows == Ahead(OneOf({"(", ";"}))

(* a call of the package's own procedure under the package's name, not its first *)
repeated_package_call(source) ==
    LET s == OracleCleaned(source)
        bodies == FindAll(PackageBodyName, s)
        end(k) == IF k = Len(bodies) THEN Len(s) ELSE bodies[k + 1].at - 1
        procedures(k) == {s[m.name] : m \in ToSet_(FindIn(Seq_(<<LineStart, W("PROCEDURE"), Name>>),
                                                          s, bodies[k].to, end(k)))}
        qualifier(m) == {s[i] : i \in {j \in m.at + 1 .. m.name - 1 : Identifier(s[j])}}
        calls(k) ==
            {m \in ToSet_(FindIn(Seq_(<<OneOf(StatementStart), Maybe(Seq_(<<Name, W(".")>>)), Name, CallFollows>>),
                                 s, bodies[k].to, end(k))) :
                s[m.name] \in procedures(k) /\ qualifier(m) \subseteq {s[bodies[k].name]}}
        routine(m) == OracleEnclosingObjectName(OracleIndex(s), m.name)
        again(m, k) == \E n \in calls(k) : n.at < m.at /\ s[n.name] = s[m.name] /\ routine(n) = routine(m)
    IN  Blamed(s, UNION {{m.name : m \in {c \in calls(k) :
                            qualifier(c) # {} /\ s[c.to] = ";" /\ again(c, k)}} : k \in DOMAIN bodies},
               "repeated_package_call")

(* the packages of Oracle that stand for all of DBMS_*, UTL_*, HTP, OWA, APEX_* and CTX_* *)
SystemPackages == {"DBMS_OUTPUT", "DBMS_LOCK", "DBMS_SESSION", "DBMS_LOB", "DBMS_SQL", "DBMS_JOB", "UTL_FILE"}
SuppliedPackages == SystemPackages \cup {"HTP", "OWA", "APEX_UTIL", "CTX_DDL"}

(* what follows the arguments of the call whose ( or ; is at i is a ; *)
EndsStatement(s, i) ==
    LET after == AfterBlanks(s, IF s[i] = "(" THEN SkipBalancedParens(s, i) ELSE i)
    IN  after <= Len(s) /\ s[after] = ";"

(* statement_calls: [SYS.]package.routine as a statement of its own *)
StatementCalls(s) ==
    LET calls == FindAll(Seq_(<<NotAfter({"$", "#", "."}), Maybe(Words(<<"SYS", ".">>)), OneOf(SuppliedPackages),
                                W("."), Name, CallFollows>>), s)
        starts(m) == \E i \in 1 .. m.at - 1 : s[i] \in StatementStart /\ AfterBlanks(s, i + 1) = m.at
        package(m) == CHOOSE i \in m.at .. m.name : s[i] \in SuppliedPackages
    IN  {[at |-> m.at, package |-> package(m), name |-> <<s[package(m)], s[m.name]>>] :
            m \in {c \in ToSet_(calls) : starts(c) /\ EndsStatement(s, c.to)}}

SleepCalls == {<<"DBMS_LOCK", "SLEEP">>, <<"DBMS_SESSION", "SLEEP">>}
PrintCalls == {<<"DBMS_OUTPUT", n>> : n \in {"PUT_LINE", "PUT", "NEW_LINE", "ENABLE"}}

supplied_package_call(source) ==
    {Finding(c.at, c.name, "supplied_package_call") :
        c \in {d \in StatementCalls(OracleCleaned(source)) :
                d.name \notin SleepCalls \cup PrintCalls /\ d.name[1] # "DBMS_SQL"}}

dbms_sleep(source) ==
    {Finding(c.at, c.name, "dbms_sleep") :
        c \in {d \in StatementCalls(OracleCleaned(source)) : d.name \in SleepCalls}}

(* what ora2pg does not convert, and supplied_package_call does not report *)
dbms_utl_calls(source) ==
    LET s == OracleCleaned(source)
        calls == FindAll(Tight(<<NotAfter({"$", "#"}), OneOf(SystemPackages), W("."), Name>>), s)
        converted == PrintCalls \cup {<<"DBMS_LOB", "GETLENGTH">>, <<"DBMS_LOB", "SUBSTR">>}
        named(m) == <<s[m.at], s[m.name]>>
    IN  {Finding(m.at, named(m), "dbms_utl_calls") :
            m \in {c \in ToSet_(calls) : /\ named(c) \notin converted
                                         /\ \A d \in StatementCalls(s) : d.package # c.at}}

(* a procedure of a package called in a trigger as a statement *)
trigger_package_call(source) ==
    LET s == OracleCleaned(source)
        body(m) == Search(OneOf({"DECLARE", "BEGIN"}), s, m.to, Len(s))
        ends(i) == \/ s[i] = "CREATE" /\ i < Len(s) /\ BlankAt(s, i + 1)
                   \/ s[i] = "/" /\ OpensLine(s, i) /\ LineEnds(s, i + 1)
        end(b) == Min({i \in b.to .. Len(s) : ends(i)} \cup {Len(s) + 1}) - 1
        package(c) == AfterBlanks(s, c.at + 1)
        calls(b) ==
            {c \in ToSet_(FindBetween(Seq_(<<OneOf(StatementStart), Name, W("."), Name, CallFollows>>), s, b.at, end(b))) :
                s[package(c)] \notin {"NEW", "OLD", "PARENT"} \cup SuppliedPackages /\ EndsStatement(s, c.to)}
    IN  UNION {{Finding(package(c), <<s[m.name]>>, "trigger_package_call") :
                    c \in UNION {calls(b) : b \in ToSet_(body(m))}} : m \in ToSet_(FindAll(TriggerName, s))}

-----------------------------------------------------------------------------
OracleRoutineScans ==
    {"autonomous_tx", "dbms_sleep", "dbms_utl_calls", "nested_subprogram", "package_constant_chain",
     "package_constant_default", "package_state", "package_type_anchor", "package_type_reference",
     "param_after_default", "param_default_spacing", "repeated_package_call", "supplied_package_call",
     "trigger_package_call"}

(* the detector of that name, run on a source *)
OracleRoutineFindings(name, source) ==
    CASE name = "autonomous_tx" -> autonomous_tx(source)
      [] name = "dbms_sleep" -> dbms_sleep(source)
      [] name = "dbms_utl_calls" -> dbms_utl_calls(source)
      [] name = "nested_subprogram" -> nested_subprogram(source)
      [] name = "package_constant_chain" -> package_constant_chain(source)
      [] name = "package_constant_default" -> package_constant_default(source)
      [] name = "package_state" -> package_state(source)
      [] name = "package_type_anchor" -> package_type_anchor(source)
      [] name = "package_type_reference" -> package_type_reference(source)
      [] name = "param_after_default" -> param_after_default(source)
      [] name = "param_default_spacing" -> param_default_spacing(source)
      [] name = "repeated_package_call" -> repeated_package_call(source)
      [] name = "supplied_package_call" -> supplied_package_call(source)
      [] name = "trigger_package_call" -> trigger_package_call(source)

=============================================================================
