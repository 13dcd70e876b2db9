---------------------------- MODULE OracleTypes ----------------------------
(***************************************************************************)
(* number_types.py: what a name is declared as, and the PostgreSQL type    *)
(* ora2pg makes of it; and the detectors of the Oracle dialect that ask it *)
(* what an expression's operands are (detectors/*.py, one definition each  *)
(* under its name).                                                        *)
(***************************************************************************)
EXTENDS OracleRoutines
LOCAL INSTANCE SequencesExt

ValueOf == [n \in Numbers |-> CASE n = "0" -> 0 [] n = "1" -> 1 [] n = "7" -> 7
                                [] n = "12" -> 12 [] n = "30" -> 30]

-----------------------------------------------------------------------------
(* Declarations *)

Parens(p) == Seq_(<<W("("), p, W(")")>>)
Gapped(p) == Either(<<p, Seq_(<<OneOf(Blanks), p>>)>>)           \* \s*p
MaybeParens(p) == Maybe(Gapped(Parens(p)))
Precision == Seq_(<<Either(<<NumberLit, W("*")>>),
                    Maybe(Seq_(<<W(","), Tight(<<Maybe(W("-")), NumberLit>>)>>))>>)
IntegerWords == {"INTEGER", "INT", "SMALLINT", "BIGINT", "PLS_INTEGER", "BINARY_INTEGER"}
CopiedSubtypes == {"SIMPLE_INTEGER", "NATURAL", "NATURALN", "POSITIVE", "POSITIVEN", "SIGNTYPE"}
Captured(words) == Tight(<<Ahead(OneOf(words)), Name>>)

(* (?![\w...]): behind a word the next one has a blank before it *)
EndOfName(marks) == NotAhead(Either(<<OneOf(marks), Tight(<<After({")"}), Word>>)>>))

(* _TYPE, its first word captured *)
TypePattern ==
    Tight(<<Either(<<Tight(<<Captured({"NUMBER"}), MaybeParens(Precision)>>),
                     Tight(<<Captured({"FLOAT"}), MaybeParens(NumberLit)>>),
                     Captured(IntegerWords \cup CopiedSubtypes \cup {"DATE"}),
                     Tight(<<Captured({"TIMESTAMP"}), MaybeParens(NumberLit),
                             Maybe(Tight(<<Spaced, Gapped(Seq_(<<W("WITH"), Maybe(W("LOCAL")),
                                                                  Words(<<"TIME", "ZONE">>)>>))>>))>>),
                     Tight(<<Captured({"CHAR", "NCHAR"}),
                             MaybeParens(Seq_(<<NumberLit, Maybe(OneOf({"BYTE", "CHAR"}))>>))>>)>>),
            EndOfName({"$", "#"})>>)

(* words that can stand before a type without naming what is declared *)
NotAName == {"AS", "IS", "OF", "RETURN", "SELECT", "THEN", "ELSE", "WHEN", "AND", "OR", "NOT", "IN", "OUT",
             "BY", "INTO", "FROM", "WHERE", "NOCOPY", "CONSTANT"}
NamedDeclaration ==
    Seq_(<<NotAfter({"$", "#", ".", "%"}), NotAhead(OneOf(NotAName)), Tight(<<Name, Spaced>>),
           Maybe(W("CONSTANT")), Maybe(Either(<<Words(<<"IN", "OUT">>), W("IN"), W("OUT")>>)),
           Maybe(W("NOCOPY")), TypePattern>>)
TypeOfTypes == Maybe(Either(<<Words(<<"TABLE", "OF">>),
                              Seq_(<<W("VARRAY"), Tight(<<Parens(NumberLit), Spaced>>), W("OF")>>)>>))
AnyDeclaration ==
    Either(<<NamedDeclaration, Seq_(<<W("RETURN"), TypePattern>>),
             Seq_(<<OneOf({"TYPE", "SUBTYPE"}), Name, W("IS"), TypeOfTypes, TypePattern>>)>>)

(* _pg_type, of the type s[from .. to]; the digits of NUMERIC(p) and DECIMAL(p,s) left out *)
PgType(s, from, to, inTable) ==
    LET digits == Ascending({i \in from .. to : s[i] \in Numbers \cup {"*"}})
        p == IF digits = <<>> THEN "" ELSE s[digits[1]]
        scaled == Len(digits) > 1 /\ s[digits[2]] # "0"
        scale == IF s[digits[2] - 1] = "-" THEN -ValueOf[s[digits[2]]] ELSE ValueOf[s[digits[2]]]
    IN  CASE s[from] \in {"CHAR", "NCHAR"} -> IF p \in {"", "1"} THEN "char(1)" ELSE "char(n)"
          [] s[from] = "DATE" -> "timestamp(0)"
          [] s[from] = "TIMESTAMP" -> "timestamp"
          [] s[from] \in CopiedSubtypes -> "subtype"
          [] s[from] = "FLOAT" -> "double precision"
          [] s[from] \in {"SMALLINT", "BIGINT"} -> s[from]
          [] s[from] \in IntegerWords -> "INTEGER"
          [] s[from] = "NUMBER" ->
                CASE p = "" -> "BIGINT"
                  [] p = "*" -> IF scaled THEN "decimal()" ELSE "numeric"
                  [] OTHER ->
                        LET v == ValueOf[p]
                        IN  CASE ~scaled -> IF v < 5 THEN "SMALLINT" ELSE IF v <= 9 THEN "INTEGER"
                                            ELSE IF v <= 19 THEN "BIGINT" ELSE "numeric()"
                              [] scaled /\ scale > v -> "numeric"
                              [] scaled /\ scale \in 1 .. v /\ v <= 6 ->
                                    IF inTable THEN "decimal()" ELSE "real"
                              [] scaled /\ scale \in 1 .. v /\ v \in 7 .. 15 -> "double precision"
                              [] OTHER -> "decimal()"

IntegerTypes == {"SMALLINT", "INTEGER", "BIGINT"}
Fractional == {"real", "double precision", "decimal()", "numeric()"}
Numeric == IntegerTypes \cup Fractional \cup {"numeric"}          \* is_numeric
DateTypes == {"timestamp", "timestamp(0)"}

(* declarations: where the type starts and ends, what is declared (none: ""), the *)
(* table or the object it is in, and its type in PostgreSQL                       *)
Declarations(s) ==
    LET lists == {[name |-> s[m.name], at |-> m.at, span |-> TableColumnDefinitionList(s, m.to)] :
                    m \in ToSet_(FindAll(QualifiedName("oracle", OracleTableHead), s))}
        around(i) == {t \in lists : t.span # <<>> /\ t.span[1] < i /\ i < t.span[2]}
        table(i) == (CHOOSE t \in around(i) : \A u \in around(i) : t.at <= u.at).name
        named(m) == MatchAt(NamedDeclaration, s, m.at) # <<>>
    IN  {[at |-> m.name, to |-> m.to, name |-> IF named(m) THEN s[m.at] ELSE "",
          inTable |-> around(m.name) # {},
          object |-> IF around(m.name) # {} THEN <<table(m.name)>>
                     ELSE OracleEnclosingObjectName(OracleIndex(s), m.name),
          type |-> PgType(s, m.name, m.to - 1, around(m.name) # {})] :
            m \in ToSet_(FindAll(AnyDeclaration, s))}

Plain(s, d, word) == s[d.at] = word /\ d.to = d.at + 1    \* the type is that one word
NamesTyped(s) == {d \in Declarations(s) : d.name # "" /\ ~d.inTable}         \* typed_names

(* object and what contains it: a package's routine is in the package *)
Containers(object) == {object} \cup (IF Len(object) = 2 THEN {<<object[1]>>} ELSE {})

(* type_of: of the declarations of that name before i the last, in the innermost object *)
TypeOf(s, object, name, i) ==
    LET before(o) == {d \in NamesTyped(s) : d.object = o /\ d.name = name /\ d.at < i}
        last(o) == (CHOOSE d \in before(o) : \A e \in before(o) : e.at <= d.at).type
        declaring == {o \in Containers(object) : before(o) # {}}
    IN  IF declaring = {} THEN "none"
        ELSE last(CHOOSE o \in declaring : \A p \in declaring : Len(p) <= Len(o))

Declared(ds, message) == {Finding(d.at, d.object, message) : d \in ds}
FirstOf(ds) == {d \in ds : \A e \in ds : d.at <= e.at}
InSpecification(s, d) == \E p \in Sections(s) : ~p.body /\ p.start <= d.at /\ d.at < p.end

char_semantics(source) ==
    LET s == OracleCleaned(source)
    IN  Declared(FirstOf({d \in Declarations(s) : d.type = "char(n)"}), "char_semantics")
number_as_float(source) ==
    LET s == OracleCleaned(source)
    IN  Declared(FirstOf({d \in Declarations(s) : d.type \in {"real", "double precision"}}), "number_as_float")
number_without_precision(source) ==
    LET s == OracleCleaned(source)
    IN  Declared(FirstOf({d \in Declarations(s) : Plain(s, d, "NUMBER")}), "number_without_precision")
float_precision(source) ==
    LET s == OracleCleaned(source)
    IN  Declared({d \in Declarations(s) : /\ s[d.at] = "FLOAT" /\ ~Plain(s, d, "FLOAT")
                                          /\ ~d.inTable /\ ~InSpecification(s, d)}, "float_precision")
plsql_integer_subtype(source) ==
    LET s == OracleCleaned(source)
    IN  Declared({d \in Declarations(s) : d.type = "subtype" /\ ~InSpecification(s, d)}, "plsql_integer_subtype")

-----------------------------------------------------------------------------
(* Operators *)

NotPartOfName == NotAfter({"$", "#", "."})
Division ==
    Seq_(<<Tight(<<NotPartOfName, Word, EndOfName({"$", "#", ".", "("})>>), W("/"),
           Tight(<<Word, EndOfName({"$", "#", ".", "(", "%"})>>)>>)

(* both sides integers in PostgreSQL, and the quotient not known to be one *)
integer_division(source) ==
    LET s == OracleCleaned(source)
        index == OracleIndex(s)
        integers == {d \in NamesTyped(s) : d.type \in IntegerTypes /\ ~Plain(s, d, "NUMBER")}
        integer(i, object) == \/ s[i] \in Numbers
                              \/ \E d \in integers : d.name = s[i] /\ d.object \in Containers(object)
        left(m) == m.at
        right(m) == m.to - 1
        exact(m) == /\ s[right(m)] \in Numbers
                    /\ \/ s[right(m)] = "0"
                       \/ s[left(m)] \in Numbers /\ ValueOf[s[left(m)]] % ValueOf[s[right(m)]] = 0
        truncated(m) == \E i \in 1 .. m.at - 1 :
                            LET open == AfterBlanks(s, i + 1)
                            IN  s[i] = "TRUNC" /\ s[open] = "(" /\ AfterBlanks(s, open + 1) = m.at
        found(m) == LET object == OracleEnclosingObjectName(index, m.at)
                    IN  /\ integer(left(m), object) /\ integer(right(m), object)
                        /\ ~exact(m) /\ ~truncated(m)
    IN  Blamed(s, {m.at : m \in {n \in ToSet_(FindAll(Division, s)) : found(n)}}, "integer_division")

DateOperand == Either(<<Seq_(<<Words(<<"TRUNC", "(">>), Name, W(")")>>), Name>>)
Decimal == Tight(<<NumberLit, Maybe(Tight(<<W("."), NumberLit>>))>>)
DateArithmetic ==
    Tight(<<NotPartOfName,
            Seq_(<<DateOperand, OneOf({"+", "-"}),
                   Either(<<DateOperand, Seq_(<<Decimal, Maybe(Seq_(<<W("/"), NumberLit>>))>>)>>)>>),
            EndOfName({"$", "#", ".", "("})>>)

(* a date and a number, or the difference of two dates; SYSDATE and a number is no gap *)
date_arithmetic(source) ==
    LET s == OracleCleaned(source)
        index == OracleIndex(s)
        operator(m) == Min({i \in m.at .. m.to - 1 : s[i] \in {"+", "-"}})
        right(m) == AfterBlanks(s, operator(m) + 1)
        truncated(i, end) == s[i] = "TRUNC" /\ \E j \in i .. end : s[j] = "("
        operand(i, end) == IF truncated(i, end) THEN Min({j \in i + 1 .. end : Identifier(s[j])}) ELSE i
        kind(i, end, at) ==
            LET name == s[operand(i, end)]
                type == TypeOf(s, OracleEnclosingObjectName(index, at), name, at)
            IN  CASE name = "SYSDATE" -> "sysdate"
                  [] name \in Numbers -> "number"
                  [] name \notin Numbers \cup {"SYSDATE"} /\ type \in DateTypes -> type
                  [] name \notin Numbers \cup {"SYSDATE"} /\ type \in Numeric /\ ~truncated(i, end) -> "number"
                  [] OTHER -> "none"
        found(m) ==
            LET l == kind(m.at, operator(m), m.at)
                r == kind(right(m), m.to - 1, m.at)
            IN  \/ /\ l \in DateTypes \cup {"sysdate"} /\ r = "number"
                   /\ ~(l = "sysdate" /\ s[m.at] # "TRUNC")
                \/ /\ s[operator(m)] = "-" /\ {l, r} \subseteq {"timestamp(0)", "sysdate"}
                   /\ "timestamp(0)" \in {l, r}
        dated == \E i \in DOMAIN s : s[i] \in {"DATE", "TIMESTAMP"}
    IN  Blamed(s, {m.at : m \in {n \in ToSet_(FindAll(DateArithmetic, s)) : dated /\ found(n)}},
               "date_arithmetic")

-----------------------------------------------------------------------------
(* Arguments *)

(* a.strip() *)
Trimmed(a) == LET last == LastOf(a, 1, Len(a)) IN SubSeq(a, AfterBlanks(a, 1), last)
StrippedArguments(s, open) ==
    LET args == CallArguments(s, open) IN [k \in DOMAIN args |-> Trimmed(args[k])]
Whole(p, text) == \E k \in DOMAIN Matches(p, text, 1) : Matches(p, text, 1)[k].to = Len(text) + 1
IsName(text) == Len(text) = 1 /\ Identifier(text[1])
Holds(text, symbols) == \E i \in DOMAIN text : text[i] \in symbols

(* collapse_calls: the innermost calls become F until there is none *)
InnermostCall == Seq_(<<Tight(<<Word, ManyTight(W("."))>>), W("("), Skip({"(", ")"}), W(")")>>)
RECURSIVE CollapseCalls(_)
CollapseCalls(text) ==
    LET calls == Search(InnermostCall, text, 1, Len(text))
    IN  IF calls = <<>> THEN text
        ELSE CollapseCalls(SubSeq(text, 1, calls[1].at - 1) \o <<"F">>
                           \o SubSeq(text, calls[1].to, Len(text)))

CallsOf(s, name) == ToSet_(FindAll(Seq_(<<Tight(<<NotPartOfName, W(name)>>), W("(")>>), s))
TypeAt(s, name, i) == TypeOf(s, OracleEnclosingObjectName(OracleIndex(s), i), name, i)

NumericFunctions == {"TO_NUMBER", "ABS", "MOD", "ROUND", "FLOOR", "CEIL", "LENGTH", "INSTR", "COUNT", "SUM", "AVG"}
NumericCall == Seq_(<<Either(<<OneOf(NumericFunctions), Words(<<"DBMS_RANDOM", ".", "VALUE">>)>>), W("(")>>)
SignedDecimal == Seq_(<<Maybe(W("-")), Decimal>>)

TruncatedNumbers(s) ==
    LET inside(m) == CollapseCalls(SubSeq(s, m.to, SkipBalancedParens(s, m.to - 1) - 2))
        numeric(args, i) ==
            \/ Len(args) = 2 /\ Whole(SignedDecimal, args[2])
            \/ Whole(SignedDecimal, args[1])
            \/ IsName(args[1]) /\ TypeAt(s, args[1][1], i) \in Numeric
            \/ MatchAt(NumericCall, args[1], 1) # <<>>
            \/ Holds(args[1], {"/", "*"})
        found(m) == LET args == StrippedArguments(s, m.to - 1)
                    IN  /\ Len(args) \in 1 .. 2 /\ args[1] # <<>>
                        /\ ~Holds(inside(m), {"(", ")"})
                        /\ numeric(args, m.at)
    IN  {m \in CallsOf(s, "TRUNC") : found(m)}

trunc_number(source) ==
    LET s == OracleCleaned(source) IN Blamed(s, {m.at : m \in TruncatedNumbers(s)}, "trunc_number")

(* The detector shows the first argument as the source without comments has it: there *)
(* a parenthesis of a literal counts, and there may be no argument                    *)
TruncNumberFails(source) ==
    \E m \in TruncatedNumbers(OracleCleaned(source)) :
        CallArguments(CommentsBlanked("oracle", source), m.to - 1) = <<>>

Literal ==
    Tight(<<W("'"), Skip({"'"}), ManyTight(Tight(<<W("'"), W("'"), Skip({"'"})>>)), W("'")>>)
RoundOf == {"SYSDATE", "SYSTIMESTAMP", "CURRENT_DATE"}
RoundCalls(s) ==
    {m \in CallsOf(s, "ROUND") : Len(CallArguments(s, m.to - 1)) \in 1 .. 2}
TwoArguments(s, m) == Len(CallArguments(s, m.to - 1)) = 2

round_date(source) ==
    LET s == OracleCleaned(source)
        shown(m) == StrippedArguments(CommentsBlanked("oracle", source), m.to - 1)
        found(m) == LET first == StrippedArguments(s, m.to - 1)[1]
                    IN  \/ TwoArguments(s, m) /\ Len(shown(m)) > 1 /\ Whole(Literal, shown(m)[2])
                        \/ IsName(first) /\ (first[1] \in RoundOf \/ TypeAt(s, first[1], m.at) \in DateTypes)
    IN  Blamed(s, {m.at : m \in {n \in RoundCalls(s) : found(n)}}, "round_date")

(* as TruncNumberFails, for the second argument *)
RoundDateFails(source) ==
    LET s == OracleCleaned(source)
    IN  \E m \in RoundCalls(s) :
            TwoArguments(s, m) /\ Len(CallArguments(CommentsBlanked("oracle", source), m.to - 1)) < 2

ShownWithFormat == RoundOf \cup {"CURRENT_TIMESTAMP", "LOCALTIMESTAMP"}
Fraction == Tight(<<Maybe(W("-")), Maybe(W("0")), W("."), NumberLit>>)

(* the one argument of each TO_CHAR that has one *)
CharCalls(s) == {m \in CallsOf(s, "TO_CHAR") : Len(CallArguments(s, m.to - 1)) = 1}
OnlyArgument(s, m) == StrippedArguments(s, m.to - 1)[1]

to_char_default_format(source) ==
    LET s == OracleCleaned(source)
        found(m) == LET arg == OnlyArgument(s, m)
                    IN  \/ Whole(Fraction, arg)
                        \/ IsName(arg) /\ \/ arg[1] \in ShownWithFormat
                                          \/ TypeAt(s, arg[1], m.at) \in DateTypes \cup Fractional
    IN  Blamed(s, {m.at : m \in {n \in CharCalls(s) : found(n)}}, "to_char_default_format")

(* an operator in an argument without a blank *)
to_char_operator(source) ==
    LET s == OracleCleaned(source)
        found(m) == LET seen == CollapseCalls(OnlyArgument(s, m))
                    IN  /\ Holds(seen, {"-", "+", "*", "/"})
                        /\ \A i \in DOMAIN seen : ~BlankAt(seen, i)
    IN  Blamed(s, {m.at : m \in {n \in CharCalls(s) : found(n)}}, "to_char_operator")

-----------------------------------------------------------------------------
(* Empty literals, and the result of a call *)

(* the blanks the literal would be in are part of the pattern: \s*\Z *)
Ends(p, s, i) == Search(Seq_(<<p, TextEnd>>), s, 1, i - 1)
NoParens == Skip({"(", ")"})
Comparison(s, i) ==
    LET last == LastOf(s, 1, i - 1)
        before == IF last > 1 THEN s[last - 1] ELSE ";"
    IN  last > 0 /\ \/ s[last] = "=" /\ before \notin {"<", ">"}
                    \/ s[last] = ">" /\ before = "<"

(* NVL or COALESCE up to the comma before i, calls in its arguments one level deep *)
Fallback(s, i) ==
    Ends(Seq_(<<OneOf({"NVL", "COALESCE"}), W("("), NoParens, Many(Seq_(<<W("("), NoParens, W(")"), NoParens>>)),
                W(",")>>), s, i) # <<>>

(* what the ''  is assigned to or is the default of, if a name *)
NotAVariable == {"BEGIN", "THEN", "ELSE", "LOOP", "END", "IS", "AS", "DECLARE", "EXCEPTION", "ELSIF", "WHEN"}
TypeName == Tight(<<Either(<<Word, OneOf({"$", "#", ".", "%"})>>),
                    ManyTight(Tight(<<OneOf({"$", "#", ".", "%"}), Maybe(Word)>>))>>)
Defaulted == Seq_(<<Tight(<<Name, Spaced>>), Maybe(Tight(<<W("IN"), Spaced>>)), TypeName,
                    Maybe(Parens(NoParens))>>)
AssignedTo(s, i) ==
    LET last == LastOf(s, 1, i - 1)
        declared == IF BlankAt(s, last) \/ (last > 1 /\ s[last - 1] \in Blanks)
                    THEN Ends(Defaulted, s, last) ELSE <<>>
        assigned == IF s[last] = ":=" THEN Ends(Seq_(<<Name, Maybe(Parens(NoParens))>>), s, last) ELSE <<>>
    IN  IF declared # <<>> /\ s[declared[1].at] \notin NotAVariable THEN {s[declared[1].at]}
        ELSE {s[m.at] : m \in ToSet_(assigned)}

NullTest(name) ==
    Either(<<Tight(<<NotPartOfName, Seq_(<<W(name), W("IS"), Maybe(W("NOT")), W("NULL")>>)>>),
             Seq_(<<OneOf({"NVL", "NVL2", "COALESCE", "DECODE", "LENGTH"}), W("("), W(name), OneOf({",", ")"})>>)>>)

(* where '' is not what Oracle takes it for, NULL: compared, or given to a name that is *)
(* tested for NULL in its object or in an object inside it                              *)
empty_string_null(source) ==
    LET s == OracleCleaned(source)
        index == OracleIndex(s)
        empty == {m.at : m \in {l \in ToSet_(FindAll(Literal, CommentsBlanked("oracle", source))) : l.to = l.at + 2}}
        last(i) == LastOf(s, 1, i - 1)
        given(i) == last(i) > 0 /\ (s[last(i)] = ":=" \/ (s[last(i)] = "DEFAULT" /\ last(i) < i - 1))
        compared(i) == \/ Comparison(s, i) \/ Fallback(s, i)
                       \/ LET next == AfterBlanks(s, i + 2)
                          IN  next <= Len(s) /\ (s[next] = "=" \/ At(s, next, <<"<", ">">>))
        inTable(i) == \E m \in ToSet_(FindAll(QualifiedName("oracle", OracleTableHead), s)) :
                        LET span == TableColumnDefinitionList(s, m.to)
                        IN  span # <<>> /\ span[1] < i /\ i < span[2]
        object(i) == OracleEnclosingObjectName(index, i)
        tested(name, i) == \E m \in ToSet_(FindAll(NullTest(name), s)) : object(i) \in Containers(object(m.at))
    IN  Blamed(s, {i \in empty : IF given(i) /\ ~inTable(i)
                                 THEN \E name \in AssignedTo(s, i) : tested(name, i)
                                 ELSE given(i) \/ compared(i)}, "empty_string_null")

CallMember ==
    Tight(<<Name, W("("), NotAhead(W(")")), NoParens, W(")"), W("."), Name>>)
DeclaredName ==
    Tight(<<NotPartOfName, Name, Spaced,
            Seq_(<<Seq_(<<>>), Tight(<<Name, ManyTight(Tight(<<OneOf({"$", "#", ".", "%"}), Maybe(Word)>>))>>),
                   OneOf({":=", ";", "DEFAULT"})>>)>>)

(* the names of parameters: behind a ( or a comma, and before a blank *)
ParameterNames(s) ==
    LET opens(i) == LET before == LastOf(s, 1, i - 1) IN before > 0 /\ s[before] \in {"(", ","}
        spaced(i, end) == /\ i + 1 < end /\ BlankAt(s, i + 1)
                          /\ ~(s[i + 1] \in Blanks /\ i + 2 < end /\ s[i + 2] = ",")
    IN  UNION {{s[i] : i \in {j \in p.start .. p.end - 1 : Identifier(s[j]) /\ opens(j) /\ spaced(j, p.end)}} :
               p \in ParameterLists(s)}

(* a member of what a call returns; a name declared as a variable is an array, no call *)
call_result_member(source) ==
    LET s == OracleCleaned(source)
        known == {d.name : d \in NamesTyped(s)} \cup {s[m.at] : m \in ToSet_(FindAll(DeclaredName, s))}
                 \cup ParameterNames(s) \cup {"TABLE", "CAST", "TREAT", "VALUE", "DEREF"}
    IN  Blamed(s, {m.at : m \in {c \in ToSet_(FindAll(CallMember, s)) : s[c.at] \notin known}},
               "call_result_member")

-----------------------------------------------------------------------------
OracleTypeScans ==
    {"call_result_member", "char_semantics", "date_arithmetic", "empty_string_null", "float_precision",
     "integer_division", "number_as_float", "number_without_precision", "plsql_integer_subtype",
     "round_date", "to_char_default_format", "to_char_operator", "trunc_number"}

(* the detector of that name, run on a source *)
OracleTypeFindings(name, source) ==
    CASE name = "call_result_member" -> call_result_member(source)
      [] name = "char_semantics" -> char_semantics(source)
      [] name = "date_arithmetic" -> date_arithmetic(source)
      [] name = "empty_string_null" -> empty_string_null(source)
      [] name = "float_precision" -> float_precision(source)
      [] name = "integer_division" -> integer_division(source)
      [] name = "number_as_float" -> number_as_float(source)
      [] name = "number_without_precision" -> number_without_precision(source)
      [] name = "plsql_integer_subtype" -> plsql_integer_subtype(source)
      [] name = "round_date" -> round_date(source)
      [] name = "to_char_default_format" -> to_char_default_format(source)
      [] name = "to_char_operator" -> to_char_operator(source)
      [] name = "trunc_number" -> trunc_number(source)

=============================================================================
