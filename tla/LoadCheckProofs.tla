--------------------------- MODULE LoadCheckProofs ---------------------------
(***************************************************************************)
(* The theorems about the two halves of --load-check: what is made of the  *)
(* output of psql (LoadCheck), then the container it may run in            *)
(* (DockerCheck).                                                          *)
(***************************************************************************)
EXTENDS LoadCheck, DockerCheck, TLAPS, FiniteSetTheorems

\* What a statement holds.
LEMMA StatementType ==
    ASSUME TypeOK, NEW j \in DOMAIN stmts
    PROVE  /\ j \in Nat /\ j \in 1..Len(stmts) /\ stmts[j] \in Statements
           /\ stmts[j].start \in Lines /\ stmts[j].end \in Lines
           /\ stmts[j].start \in Nat \ {0} /\ stmts[j].end \in Nat
           /\ stmts[j].makes \in SUBSET Refs /\ stmts[j].names \in SUBSET Refs
<1>1. stmts \in Seq(Statements)
  BY DEF TypeOK
<1>2. stmts[j] \in Statements /\ j \in Nat /\ j \in 1..Len(stmts)
  BY <1>1
<1> QED
  BY <1>2, LoadAssumption DEF Statements, Lines

\* Where the maker of a missing object was noted is a line, or nowhere.
LEMMA MakerType ==
    ASSUME TypeOK, NEW r \in Refs
    PROVE  /\ madeBy[Full[r]] \in 0..MaxLine /\ madeBy[Bare[r]] \in 0..MaxLine
           /\ Full[r] \in Names /\ Bare[r] \in Names
  BY DEF TypeOK, Names

LEMMA RootType ==
    ASSUME TypeOK, NEW maker \in 0..MaxLine
    PROVE  RootOf(maker) \in 0..MaxLine
<1>1. roots \in [Lines -> 0..MaxLine]
  BY DEF TypeOK
<1>2. ASSUME maker # 0 PROVE roots[maker] \in 0..MaxLine
  <2>1. maker \in Lines
    BY <1>2, LoadAssumption DEF Lines
  <2> QED BY <1>1, <2>1
<1> QED
  BY <1>2 DEF RootOf

LEMMA MakerOfType ==
    ASSUME TypeOK, NEW refs \in SUBSET Refs
    PROVE  MakerOf(refs) \in 0..MaxLine
<1>1. ASSUME refs # {} PROVE (CHOOSE r \in refs : TRUE) \in Refs
  BY <1>1
<1> QED
  BY <1>1, MakerType, LoadAssumption DEF MakerOf

\* A statement more keeps the types.
LEMMA SendType ==
    ASSUME TypeOK, NEW span \in Spans, NEW makes \in SUBSET Refs, NEW outcome \in Outcomes,
           NEW names \in SUBSET Refs, Send(span, makes, outcome, names)
    PROVE  stmts' \in Seq(Statements) /\ Len(stmts') <= size
<1> DEFINE stmt == [start |-> span[1], end |-> span[2], makes |-> makes,
                    outcome |-> outcome, names |-> names]
<1>1. stmt \in Statements
  BY DEF Spans, Statements
<1> QED
  BY <1>1 DEF TypeOK, Send

THEOREM TypeCorrect == Spec => []TypeOK
<1>1. Init => TypeOK
  <2> SUFFICES ASSUME Init PROVE TypeOK
    OBVIOUS
  <2>1. stmts \in Seq(Statements) /\ Len(stmts) = 0
    BY DEF Init
  <2>2. roots \in [Lines -> 0..MaxLine] /\ madeBy \in [Names -> 0..MaxLine]
    BY LoadAssumption DEF Init
  <2>3. link \in 1..(MaxStatements + 1) /\ Len(stmts) <= size
    BY <2>1, LoadAssumption DEF Init
  <2> QED
    BY <2>1, <2>2, <2>3 DEF Init, TypeOK, Objects
<1>2. TypeOK /\ [Next]_vars => TypeOK'
  <2> SUFFICES ASSUME TypeOK, [Next]_vars PROVE TypeOK'
    OBVIOUS
  <2> USE DEF server, psql, links
  <2>1. CASE Connect \/ CannotConnect \/ NothingPrepared \/ Drop \/ Rollback \/ PrintDone
    BY <2>1 DEF Connect, CannotConnect, NothingPrepared, Drop, Rollback, PrintDone, TypeOK
  <2>2. CASE ReadOutput \/ Incomplete \/ Die \/ Done \/ UNCHANGED vars
    BY <2>2 DEF ReadOutput, Incomplete, Die, Done, vars, TypeOK
  <2>3. CASE Report
    BY <2>3 DEF Report, TypeOK
  <2>4. CASE NoError
    BY <2>4, LoadAssumption DEF NoError, TypeOK
  <2>5. CASE LinkError
    <3>1. PICK mine \in Claims(link) :
            /\ taken' = taken \union {mine}
            /\ LinkAt(stmts[mine].start, RootOf(MakerOf(stmts[link].names)))
      BY <2>5 DEF LinkError
    <3>2. mine \in DOMAIN stmts /\ link \in DOMAIN stmts
      BY <2>5, <3>1 DEF Claims, Claimable, LinkError, Failed
    <3>3. /\ stmts[mine] \in Statements /\ stmts[link] \in Statements
          /\ mine \in 1..MaxStatements /\ link \in 1..MaxStatements
      <4>1. stmts \in Seq(Statements) /\ Len(stmts) <= size /\ size \in 0..MaxStatements
        BY DEF TypeOK
      <4> QED
        BY <3>2, <4>1, LoadAssumption
    <3>4. stmts[mine].start \in Lines /\ stmts[link].names \in SUBSET Refs
      BY <3>3 DEF Statements
    <3>5. RootOf(MakerOf(stmts[link].names)) \in 0..MaxLine
      BY <3>4, MakerOfType, RootType
    <3> HIDE DEF RootOf, MakerOf
    <3> DEFINE here == stmts[mine].start
               root == RootOf(MakerOf(stmts[link].names))
    <3>6. here \in Lines /\ root \in 0..MaxLine /\ LinkAt(here, root)
      BY <3>1, <3>4, <3>5
    <3> HIDE DEF here, root
    <3>7. /\ roots' \in [Lines -> 0..MaxLine]
          /\ madeBy' \in [Names -> 0..MaxLine]
          /\ errors' \subseteq Errors
      <4>1. /\ roots \in [Lines -> 0..MaxLine] /\ madeBy \in [Names -> 0..MaxLine]
            /\ errors \subseteq Errors
        BY DEF TypeOK
      <4>2. here \in 0..MaxLine
        BY <3>6, LoadAssumption DEF Lines
      <4>3. [of |-> link, at |-> here, cause |-> root] \in Errors
        BY <3>3, <3>6 DEF Errors
      <4> QED
        BY <3>6, <4>1, <4>2, <4>3 DEF LinkAt
    <3> QED
      BY <2>5, <3>1, <3>3, <3>7, LoadAssumption DEF LinkError, TypeOK
  <2>6. ASSUME NEW span \in Spans, Control(span) PROVE TypeOK'
    <3>1. "blanked" \in Outcomes /\ {} \in SUBSET Refs
      BY DEF Outcomes
    <3>2. stmts' \in Seq(Statements) /\ Len(stmts') <= size
      BY <2>6, <3>1, SendType DEF Control, Fails
    <3> QED
      BY <2>6, <3>2 DEF Control, Fails, TypeOK
  <2>7. ASSUME NEW span \in Spans, NEW makes \in Makes, Loads(span, makes) PROVE TypeOK'
    <3>1. makes \in SUBSET Refs /\ "ok" \in Outcomes /\ {} \in SUBSET Refs
      BY LoadAssumption DEF Outcomes
    <3>2. stmts' \in Seq(Statements) /\ Len(stmts') <= size
      BY <2>7, <3>1, SendType DEF Loads
    <3>3. {Object[r] : r \in makes} \subseteq Objects
      BY <3>1 DEF Objects
    <3> QED
      BY <2>7, <3>2, <3>3 DEF Loads, TypeOK
  <2>8. ASSUME NEW span \in Spans, NEW makes \in Makes, Breaks(span, makes) \/ Misses(span, makes)
        PROVE  TypeOK'
    <3>1. makes \in SUBSET Refs
      BY LoadAssumption
    <3>2. PICK outcome \in Outcomes, names \in SUBSET Refs : Fails(span, makes, outcome, names)
      BY <2>8 DEF Breaks, Misses, Outcomes
    <3>3. stmts' \in Seq(Statements) /\ Len(stmts') <= size
      BY <3>1, <3>2, SendType DEF Fails
    <3> QED
      BY <3>2, <3>3 DEF Fails, TypeOK
  <2>9. ASSUME NEW span \in Spans, Prepares(span) \/ Starts(span) PROVE TypeOK'
    <3>1. PICK outcome \in Outcomes : Send(span, {}, outcome, {})
      BY <2>9 DEF Prepares, Starts, Outcomes
    <3>2. stmts' \in Seq(Statements) /\ Len(stmts') <= size
      BY <3>1, SendType
    <3> QED
      BY <2>9, <3>2 DEF Prepares, Starts, TypeOK
  <2> QED
    BY <2>1, <2>2, <2>3, <2>4, <2>5, <2>6, <2>7, <2>8, <2>9 DEF Next, Run
<1> QED
  BY <1>1, <1>2, PTL DEF Spec

-----------------------------------------------------------------------------
\* A statement reaches the server inside the transaction, or behind a PREPARE
\* TRANSACTION that got through; outside it the session sees what all see.
InTransaction ==
    /\ phase = "loading" /\ ~open => GotThrough # {}
    /\ ~open => tx = committed
    /\ NothingCommitted

\* A statement more keeps what was said of those before.
LEMMA SendKeeps ==
    ASSUME TypeOK, NEW span \in Spans, NEW makes \in SUBSET Refs, NEW outcome \in Outcomes,
           NEW names \in SUBSET Refs, Send(span, makes, outcome, names)
    PROVE  /\ DOMAIN stmts' = DOMAIN stmts \union {Len(stmts) + 1}
           /\ \A k \in DOMAIN stmts : stmts'[k] = stmts[k] /\ k < Len(stmts) + 1
           /\ stmts'[Len(stmts) + 1].outcome = outcome
           /\ stmts'[Len(stmts) + 1].makes = makes
           /\ GotThrough \subseteq GotThrough'
<1> DEFINE stmt == [start |-> span[1], end |-> span[2], makes |-> makes,
                    outcome |-> outcome, names |-> names]
<1>1. stmts' = Append(stmts, stmt) /\ stmts \in Seq(Statements) /\ stmt \in Statements
  BY DEF TypeOK, Send, Spans, Statements
<1>2. stmt.outcome = outcome /\ stmt.makes = makes
  OBVIOUS
<1> HIDE DEF stmt
<1>3. /\ DOMAIN stmts' = DOMAIN stmts \union {Len(stmts) + 1}
      /\ \A k \in DOMAIN stmts : stmts'[k] = stmts[k] /\ k < Len(stmts) + 1
      /\ stmts'[Len(stmts) + 1] = stmt
  BY <1>1
<1> QED
  BY <1>2, <1>3 DEF GotThrough

LEMMA SentInTransaction ==
    ASSUME TypeOK, InTransaction, Run
    PROVE  InTransaction'
<1>1. PICK span \in Spans :
        \/ Control(span) \/ Prepares(span) \/ Starts(span)
        \/ \E makes \in Makes : Loads(span, makes) \/ Breaks(span, makes) \/ Misses(span, makes)
  BY DEF Run
<1>2. phase = "loading" /\ phase' = phase
  BY <1>1 DEF Control, Prepares, Starts, Loads, Breaks, Misses, Fails, Send
<1>3. ASSUME NEW makes \in SUBSET Refs, NEW outcome \in Outcomes, NEW names \in SUBSET Refs,
             Send(span, makes, outcome, names), committed' = committed
      PROVE  NothingCommitted'
  <2>1. /\ DOMAIN stmts \subseteq DOMAIN stmts' /\ GotThrough \subseteq GotThrough'
        /\ \A k \in DOMAIN stmts : stmts'[k] = stmts[k]
    BY <1>3, SendKeeps
  <2> QED BY <1>3, <2>1 DEF InTransaction, NothingCommitted
<1>4. CASE Control(span) \/ \E makes \in Makes : Breaks(span, makes) \/ Misses(span, makes)
  <2>1. PICK makes \in SUBSET Refs, outcome \in Outcomes, names \in SUBSET Refs :
          Fails(span, makes, outcome, names)
    BY <1>4, LoadAssumption DEF Control, Breaks, Misses, Outcomes
  <2>2. Send(span, makes, outcome, names) /\ UNCHANGED server
    BY <2>1 DEF Fails
  <2>3. NothingCommitted' /\ GotThrough \subseteq GotThrough'
    BY <1>3, <2>2, SendKeeps DEF server
  <2> QED BY <1>2, <2>2, <2>3 DEF InTransaction, server
<1>5. CASE Prepares(span)
  <2>1. PICK outcome \in {"prepared", "cancelled"} : Send(span, {}, outcome, {})
    BY <1>5 DEF Prepares
  <2>2. open' = FALSE /\ tx' = committed /\ committed' = committed
    BY <1>5 DEF Prepares
  <2>3. NothingCommitted'
    BY <1>3, <2>1, <2>2 DEF Outcomes
  <2>4. Len(stmts) + 1 \in GotThrough'
    <3>1. outcome \in Outcomes /\ {} \in SUBSET Refs
      BY <2>1 DEF Outcomes
    <3>2. Len(stmts) + 1 \in DOMAIN stmts' /\ stmts'[Len(stmts) + 1].outcome = outcome
      BY <2>1, <3>1, SendKeeps
    <3> QED BY <2>1, <3>2 DEF GotThrough
  <2> QED BY <2>2, <2>3, <2>4 DEF InTransaction
<1>6. CASE Starts(span)
  <2>1. Send(span, {}, "ok", {}) /\ open' = TRUE /\ committed' = committed
    BY <1>6 DEF Starts
  <2>2. NothingCommitted'
    BY <1>3, <2>1 DEF Outcomes
  <2> QED BY <2>1, <2>2 DEF InTransaction
<1>7. ASSUME NEW makes \in Makes, Loads(span, makes) PROVE InTransaction'
  <2> DEFINE new == {Object[r] : r \in makes}
             last == Len(stmts) + 1
  <2>1. makes \in SUBSET Refs
    BY LoadAssumption
  <2>2. /\ Send(span, makes, "ok", {}) /\ tx' = tx \union new /\ open' = open
        /\ committed' = IF open THEN committed ELSE tx'
    BY <1>7 DEF Loads
  <2>3. /\ last \in DOMAIN stmts' /\ stmts'[last].outcome = "ok" /\ stmts'[last].makes = makes
        /\ GotThrough \subseteq GotThrough' /\ \A k \in DOMAIN stmts : k < last
        /\ DOMAIN stmts \subseteq DOMAIN stmts' /\ \A k \in DOMAIN stmts : stmts'[k] = stmts[k]
    <3>1. "ok" \in Outcomes /\ {} \in SUBSET Refs
      BY DEF Outcomes
    <3> QED BY <2>1, <2>2, <3>1, SendKeeps
  <2>4. CASE open
    <3>1. NothingCommitted'
      BY <1>3, <2>1, <2>2, <2>4 DEF Outcomes
    <3> QED BY <2>2, <2>4, <3>1 DEF InTransaction
  <2>5. CASE ~open
    <3>1. committed' = committed \union new /\ tx' = committed'
      BY <2>2, <2>5 DEF InTransaction
    <3>2. PICK k \in GotThrough : TRUE
      BY <1>2, <2>5 DEF InTransaction
    <3>3. k \in GotThrough' /\ k < last
      BY <2>3, <3>2 DEF GotThrough
    <3>4. ASSUME NEW o \in committed' \ Existing
          PROVE  \E h \in GotThrough', m \in DOMAIN stmts' :
                    /\ h < m /\ stmts'[m].outcome = "ok"
                    /\ \E r \in stmts'[m].makes : o = Object[r]
      <4>1. CASE o \in committed
        <5>1. PICK h \in GotThrough, m \in DOMAIN stmts :
                 /\ h < m /\ stmts[m].outcome = "ok"
                 /\ \E r \in stmts[m].makes : o = Object[r]
          BY <3>4, <4>1 DEF InTransaction, NothingCommitted
        <5> QED BY <2>3, <5>1
      <4>2. CASE o \in new
        <5>1. PICK r \in makes : o = Object[r]
          BY <4>2
        <5> QED BY <2>3, <3>3, <5>1
      <4> QED BY <3>1, <3>4, <4>1, <4>2
    <3>5. NothingCommitted'
      BY <3>4 DEF NothingCommitted
    <3>6. GotThrough' # {}
      BY <3>3
    <3> QED BY <3>1, <3>5, <3>6 DEF InTransaction
  <2> QED BY <2>4, <2>5
<1> QED
  BY <1>1, <1>4, <1>5, <1>6, <1>7

\* Whatever fails, and whenever the connection or the tool goes, nothing of
\* the files is committed but behind a PREPARE TRANSACTION that a comment hid.
THEOREM NeverCommitted == Spec => []NothingCommitted
<1>1. Init => InTransaction
  BY DEF Init, InTransaction, NothingCommitted
<1>2. TypeOK /\ InTransaction /\ [Next]_vars => InTransaction'
  <2> SUFFICES ASSUME TypeOK, InTransaction, [Next]_vars PROVE InTransaction'
    OBVIOUS
  <2>1. CASE Run
    BY <2>1, SentInTransaction
  <2>2. ASSUME ~Run PROVE stmts' = stmts /\ committed' = committed
    BY <2>2 DEF Next, vars, server, psql, links, Connect, CannotConnect, NothingPrepared, Drop,
                Rollback, PrintDone, ReadOutput, Incomplete, NoError, LinkError, Report, Die, Done
  <2>3. ASSUME ~Run
        PROVE  /\ phase' = "loading" /\ ~open' => phase = "loading" /\ ~open
               /\ ~open' => tx' = committed \/ (tx' = tx /\ ~open)
    <3>1. CASE Connect \/ Drop \/ Rollback \/ Die
      BY <3>1 DEF Connect, Drop, Rollback, Die
    <3>2. CASE CannotConnect \/ NothingPrepared \/ PrintDone \/ ReadOutput \/ Incomplete
      <4>1. tx' = tx /\ committed' = committed /\ open' = open /\ phase' # "loading"
        BY <3>2 DEF server, CannotConnect, NothingPrepared, PrintDone, ReadOutput, Incomplete
      <4> QED BY <4>1
    <3>3. CASE NoError \/ LinkError \/ Report \/ Done \/ UNCHANGED vars
      BY <3>3 DEF server, vars, NoError, LinkError, Report, Done
    <3> QED BY <2>3, <3>1, <3>2, <3>3 DEF Next
  <2> QED
    BY <2>1, <2>2, <2>3 DEF InTransaction, NothingCommitted, GotThrough
<1>3. InTransaction => NothingCommitted
  BY DEF InTransaction
<1> QED
  BY <1>1, <1>2, <1>3, TypeCorrect, PTL DEF Spec

-----------------------------------------------------------------------------
\* Past the rollback all statements were sent; the done mark is printed there.
AllSent ==
    /\ marked => phase \notin {"prepared", "loading"}
    /\ marked \/ phase \in {"rolled back", "linking"} => Len(stmts) = size

\* The failed statements before the cursor have an error each, and only they.
ErrorsSoFar ==
    /\ phase \notin {"linking", "done"} => errors = {} /\ link = 1
    /\ \A e \in errors : e.of \in Failed /\ e.of < link
    /\ \A i \in Failed : i < link => \E e \in errors : e.of = i
    /\ \A d, e \in errors : d.of = e.of => d = e

ExitInv ==
    AllSent /\ ErrorsSoFar /\ (phase # "done" => exit = -1) /\ ExitCodeMeans

LEMMA AsManyErrors ==
    ASSUME TypeOK, {e.of : e \in errors} = Failed, \A d, e \in errors : d.of = e.of => d = e
    PROVE  Cardinality(errors) = Cardinality(Failed)
<1> DEFINE f == [e \in errors |-> e.of]
<1>1. IsFiniteSet(Failed)
  <2>1. \A i \in DOMAIN stmts : i \in 1..Len(stmts)
    BY StatementType
  <2>2. Failed \in SUBSET (1..Len(stmts))
    BY <2>1 DEF Failed
  <2>3. Len(stmts) \in Int
    <3>1. stmts \in Seq(Statements)
      BY DEF TypeOK
    <3> QED
      BY <3>1
  <2>4. IsFiniteSet(1..Len(stmts))
    BY <2>3, FS_Interval
  <2> QED
    BY <2>2, <2>4, FS_Subset
<1>2. f \in Injection(errors, Failed) /\ f \in Surjection(errors, Failed)
  <2>1. f \in [errors -> Failed]
    OBVIOUS
  <2>2. \A d, e \in errors : f[d] = f[e] => d = e
    OBVIOUS
  <2>3. \A i \in Failed : \E e \in errors : f[e] = i
    OBVIOUS
  <2> QED
    BY <2>1, <2>2, <2>3 DEF Injection, Surjection, IsInjective
<1>3. Cardinality(errors) = Cardinality(Failed) <=> f \in Surjection(errors, Failed)
  BY <1>1, <1>2, FS_Injection
<1> QED
  BY <1>2, <1>3

\* Where every failed statement has its error, the exit code is right.
LEMMA ReportStep ==
    ASSUME TypeOK, ExitInv, Report
    PROVE  ExitInv'
<1>1. /\ phase = "linking" /\ link = Len(stmts) + 1 /\ Len(stmts) = size /\ phase' = "done"
      /\ exit' = IF skipped THEN 2
                 ELSE IF \E i \in Failed : stmts[i].outcome # "refused" THEN 1 ELSE 0
      /\ UNCHANGED <<size, skipped, stmts, marked, link, errors>>
  BY DEF Report, psql, links, ExitInv, AllSent
<1>2. \A i \in Failed : i < link
  BY <1>1, StatementType DEF Failed, TypeOK
<1>3. {e.of : e \in errors} = Failed
  BY <1>2 DEF ExitInv, ErrorsSoFar
<1>4. Cardinality(errors) = Cardinality(Failed)
  BY <1>3, AsManyErrors DEF ExitInv, ErrorsSoFar
<1>5. AllSent' /\ ErrorsSoFar'
  BY <1>1 DEF ExitInv, AllSent, ErrorsSoFar, Failed
<1>6. ExitCodeMeans'
  <2>1. Failed' = Failed
    BY <1>1 DEF Failed
  <2> QED
    BY <1>1, <1>3, <1>4, <2>1 DEF ExitCodeMeans
<1> QED
  BY <1>1, <1>5, <1>6 DEF ExitInv

\* Exit codes 0 and 1 mean what the report says, wherever the statements
\* begin and whatever names they use.
THEOREM ExitCodesMean == Spec => []ExitCodeMeans
<1>1. Init => ExitInv
  BY DEF Init, ExitInv, AllSent, ErrorsSoFar, ExitCodeMeans, Failed
<1>2. TypeOK /\ ExitInv /\ [Next]_vars => ExitInv'
  <2> SUFFICES ASSUME TypeOK, ExitInv, [Next]_vars PROVE ExitInv'
    OBVIOUS
  <2>1. CASE Connect \/ Drop \/ PrintDone \/ ReadOutput
    <3>1. /\ phase # "done" /\ phase' # "done" /\ (phase' = "linking" <=> ReadOutput)
          /\ UNCHANGED <<size, stmts, link, errors, exit>>
      BY <2>1 DEF Connect, Drop, PrintDone, ReadOutput, psql, links
    <3>2. AllSent'
      <4>1. CASE Connect
        BY <3>1, <4>1 DEF Connect, psql, ExitInv, AllSent
      <4>3. CASE Drop
        BY <3>1, <4>3 DEF Drop, psql, ExitInv, AllSent
      <4>4. CASE ReadOutput
        BY <3>1, <4>4 DEF ReadOutput, psql, ExitInv, AllSent
      <4>2. CASE PrintDone
        BY <3>1, <4>2 DEF PrintDone, ExitInv, AllSent
      <4> QED BY <2>1, <4>1, <4>2, <4>3, <4>4
    <3>3. ErrorsSoFar'
      BY <2>1, <3>1 DEF Connect, Drop, PrintDone, ReadOutput, ExitInv, ErrorsSoFar, Failed
    <3> QED
      BY <3>1, <3>2, <3>3 DEF ExitInv, ExitCodeMeans
  <2>2. CASE Rollback
    BY <2>2 DEF Rollback, psql, links, ExitInv, AllSent, ErrorsSoFar, ExitCodeMeans, Failed
  <2>3. CASE CannotConnect \/ NothingPrepared \/ Incomplete \/ Die
    <3>1. /\ phase # "done" /\ phase' = "done" /\ exit' \in {-1, 2} /\ link' = link
          /\ UNCHANGED <<size, stmts, marked, errors>>
      BY <2>3 DEF CannotConnect, NothingPrepared, Incomplete, Die, psql, links, ExitInv
    <3>2. AllSent' /\ ErrorsSoFar'
      BY <3>1 DEF ExitInv, AllSent, ErrorsSoFar, Failed
    <3> QED
      BY <3>1, <3>2 DEF ExitInv, ExitCodeMeans
  <2>4. CASE Done \/ UNCHANGED vars
    <3>1. UNCHANGED <<phase, size, skipped, stmts, marked, link, errors, exit>>
      BY <2>4 DEF Done, vars
    <3>2. Failed' = Failed
      BY <3>1 DEF Failed
    <3>3. AllSent' /\ ErrorsSoFar'
      BY <3>1, <3>2 DEF ExitInv, AllSent, ErrorsSoFar
    <3>4. ExitCodeMeans'
      BY <3>1, <3>2 DEF ExitInv, ExitCodeMeans
    <3> QED
      BY <3>1, <3>3, <3>4 DEF ExitInv
  <2>5. CASE Run
    <3>1. /\ phase = "loading" /\ Len(stmts) < size /\ \E stmt : stmts' = Append(stmts, stmt)
          /\ UNCHANGED <<phase, size, marked, link, errors, exit>>
      BY <2>5 DEF Run, Control, Prepares, Starts, Loads, Breaks, Misses, Fails, Send, links
    <3>2. errors = {} /\ link = 1 /\ exit = -1 /\ ~marked
      BY <3>1 DEF ExitInv, AllSent, ErrorsSoFar
    <3>3. \A i \in Failed' : ~(i < 1)
      BY <3>1 DEF Failed, TypeOK
    <3> QED
      BY <3>1, <3>2, <3>3 DEF ExitInv, AllSent, ErrorsSoFar, ExitCodeMeans
  <2>6. CASE NoError
    <3>1. /\ phase = "linking" /\ link \notin Failed /\ link' = link + 1 /\ link \in Nat
          /\ UNCHANGED <<phase, size, stmts, marked, errors, exit>>
      BY <2>6, StatementType DEF NoError, psql
    <3>2. \A i \in Failed : i \in Nat
      BY StatementType DEF Failed
    <3>3. ErrorsSoFar'
      BY <3>1, <3>2 DEF ExitInv, ErrorsSoFar, Failed
    <3> QED
      BY <3>1, <3>3 DEF ExitInv, AllSent, ExitCodeMeans
  <2>7. CASE LinkError
    <3>1. PICK new : new.of = link /\ errors' = errors \union {new}
      BY <2>7 DEF LinkError, LinkAt
    <3>2. /\ phase = "linking" /\ link \in Failed /\ link \in Nat /\ link' = link + 1
          /\ UNCHANGED <<phase, size, stmts, marked, exit>>
      BY <2>7, StatementType DEF LinkError, psql, Failed
    <3>3. \A i \in Failed : i \in Nat
      BY StatementType DEF Failed
    <3>4. ErrorsSoFar'
      BY <3>1, <3>2, <3>3 DEF ExitInv, ErrorsSoFar, Failed
    <3> QED
      BY <3>1, <3>2, <3>4 DEF ExitInv, AllSent, ExitCodeMeans
  <2>8. CASE Report
    BY <2>8, ReportStep
  <2> QED
    BY <2>1, <2>2, <2>3, <2>4, <2>5, <2>6, <2>7, <2>8 DEF Next
<1>3. ExitInv => ExitCodeMeans
  BY DEF ExitInv
<1> QED
  BY <1>1, <1>2, <1>3, TypeCorrect, PTL DEF Spec

-----------------------------------------------------------------------------
\* The statements are in the order of their lines, and miss one object each.
InOrder ==
    /\ \A i \in DOMAIN stmts : stmts[i].start <= stmts[i].end
    /\ \A i, j \in DOMAIN stmts : i < j => stmts[i].end < stmts[j].start
    /\ \A i \in DOMAIN stmts : \A r, s \in stmts[i].names : r = s

\* Before the linking there is nothing linked, and after the loading no
\* statement is added.
NotYetLinked ==
    phase \notin {"linking", "done"} =>
        errors = {} /\ link = 1 /\ (\A n \in Names : madeBy[n] = 0) /\ \A l \in Lines : roots[l] = 0

\* The errors so far are those of the failed statements so far, one each.
OneErrorEach ==
    /\ \A e \in errors : e.of \in Failed /\ e.of < link /\ e.at = stmts[e.of].start
    /\ \A i \in Failed : i < link => \E e \in errors : e.of = i
    /\ \A d, e \in errors : d.of = e.of => d = e

\* What link_root_causes() has noted agrees with the errors so far.
NotesAgree ==
    /\ \A e \in errors : roots[e.at] = IF e.cause = 0 THEN e.at ELSE e.cause
    /\ \A n \in Names : madeBy[n] # 0 =>
          \E e \in errors : madeBy[n] = e.at /\ n \in NamesOf(stmts[e.of].makes)
    /\ \A e \in errors : \A n \in NamesOf(stmts[e.of].makes) : madeBy[n] # 0

\* A cause is the line of an earlier error that has none.
CausesAreRoots ==
    \A e \in errors : e.cause # 0 =>
        \E d \in errors : d.of < e.of /\ d.at = e.cause /\ d.cause = 0

LinkInv ==
    InOrder /\ NotYetLinked /\ OneErrorEach /\ NotesAgree /\ CausesAreRoots /\ RootCausesExact

\* With lines of its own, a statement is found by its lines.
LEMMA FoundByLine ==
    ASSUME TypeOK, InOrder, NEW i \in DOMAIN stmts
    PROVE  /\ Claims(i) \subseteq {i}
           /\ MakesAt(stmts[i].start) = stmts[i].makes
<1>1. \A j \in DOMAIN stmts : /\ stmts[j] \in Statements /\ j \in Nat
  <2>1. stmts \in Seq(Statements)
    BY DEF TypeOK
  <2> QED BY <2>1
<1>2. \A j \in DOMAIN stmts : /\ stmts[j].start \in Nat /\ stmts[j].end \in Nat
                              /\ stmts[j].makes \in SUBSET Refs
  BY <1>1, LoadAssumption DEF Statements, Lines
<1>3. \A j \in DOMAIN stmts : stmts[j].end = stmts[i].end => j = i
  BY <1>1, <1>2 DEF InOrder
<1>4. \A j \in DOMAIN stmts : stmts[j].start = stmts[i].start => j = i
  BY <1>1, <1>2 DEF InOrder
<1>5. Claims(i) \subseteq {i}
  BY <1>3 DEF Claims, Claimable
<1>6. MakesAt(stmts[i].start) = stmts[i].makes
  BY <1>1, <1>2, <1>4 DEF MakesAt
<1> QED
  BY <1>5, <1>6

\* The maker looked up is an earlier failed statement that was to make the
\* missing object, and there is none only if none was.
LEMMA MakerFound ==
    ASSUME TypeOK, InOrder, OneErrorEach, NotesAgree, OneNameEach,
           NEW i \in Failed, i = link
    PROVE  LET maker == MakerOf(stmts[i].names)
           IN  /\ maker # 0 => \E e \in errors : maker = e.at /\ e.of \in MakersFor(i)
               /\ maker = 0 => MakersFor(i) = {}
<1> DEFINE maker == MakerOf(stmts[i].names)
<1>1. /\ i \in DOMAIN stmts /\ i \in Nat
      /\ \A j \in DOMAIN stmts : stmts[j].names \in SUBSET Refs /\ stmts[j].makes \in SUBSET Refs
  <2>1. stmts \in Seq(Statements) /\ i \in DOMAIN stmts
    BY DEF TypeOK, Failed
  <2>2. i \in Nat /\ \A j \in DOMAIN stmts : stmts[j] \in Statements
    BY <2>1
  <2> QED BY <2>1, <2>2 DEF Statements
<1>2. ASSUME NEW r \in stmts[i].names, NEW n \in {Bare[r], Full[r]}, madeBy[n] # 0
      PROVE  \E e \in errors : madeBy[n] = e.at /\ e.of \in MakersFor(i)
  <2>1. r \in Refs /\ n \in Names
    BY <1>1, <1>2 DEF Names
  <2>2. PICK e \in errors : madeBy[n] = e.at /\ n \in NamesOf(stmts[e.of].makes)
    BY <1>2, <2>1 DEF NotesAgree
  <2>3. e.of \in Failed /\ e.of < i /\ e.of \in DOMAIN stmts
    BY <2>2 DEF OneErrorEach, Failed
  <2>4. PICK s \in stmts[e.of].makes : n \in {Bare[s], Full[s]}
    BY <2>2 DEF NamesOf
  <2>5. s \in Refs
    BY <1>1, <2>3, <2>4
  <2>6. Object[r] = Object[s]
    BY <1>2, <2>1, <2>4, <2>5 DEF OneNameEach
  <2> QED
    BY <1>2, <2>2, <2>3, <2>4, <2>6 DEF MakersFor
<1>3. maker # 0 => \E e \in errors : maker = e.at /\ e.of \in MakersFor(i)
  <2>1. \A r \in stmts[i].names : (CHOOSE q \in stmts[i].names : TRUE) = r
    BY <1>1 DEF InOrder
  <2>2. ASSUME maker # 0 PROVE \E r \in stmts[i].names : \E n \in {Bare[r], Full[r]} : maker = madeBy[n]
    BY <2>1, <2>2 DEF MakerOf
  <2> QED
    BY <1>2, <2>2
<1>4. ASSUME NEW m \in MakersFor(i) PROVE maker # 0
  <2>1. PICK r \in stmts[i].names, s \in stmts[m].makes : Object[r] = Object[s]
    BY DEF MakersFor
  <2>2. m \in Failed /\ m < i /\ m \in DOMAIN stmts
    BY DEF MakersFor, Failed
  <2>3. r \in Refs /\ s \in Refs
    BY <1>1, <2>1, <2>2
  <2>4. PICK n \in {Bare[r], Full[r]} : n \in {Bare[s], Full[s]}
    BY <2>1, <2>3 DEF OneNameEach
  <2>5. n \in NamesOf(stmts[m].makes)
    BY <2>1, <2>4 DEF NamesOf
  <2>6. PICK e \in errors : e.of = m
    BY <2>2 DEF OneErrorEach
  <2>7. madeBy[n] # 0
    BY <2>5, <2>6 DEF NotesAgree
  <2>8. (CHOOSE q \in stmts[i].names : TRUE) = r
    BY <1>1, <2>1 DEF InOrder
  <2>9. CASE madeBy[Full[r]] # 0
    BY <2>1, <2>8, <2>9 DEF MakerOf
  <2>10. CASE madeBy[Full[r]] = 0 /\ madeBy[Bare[r]] # 0
    <3>1. \A q \in stmts[i].names : q = r
      BY <1>1, <2>1 DEF InOrder
    <3> QED
      BY <2>1, <2>8, <2>10, <3>1 DEF MakerOf
  <2> QED
    BY <2>4, <2>7, <2>9, <2>10
<1> QED
  BY <1>3, <1>4

\* A statement more.
LEMMA SendStep ==
    ASSUME Apart = 1, TypeOK, LinkInv, phase' = phase, UNCHANGED links,
           NEW span \in Spans, NEW makes \in SUBSET Refs, NEW outcome \in Outcomes,
           NEW names \in SUBSET Refs, \A r, s \in names : r = s,
           Send(span, makes, outcome, names)
    PROVE  LinkInv'
<1> DEFINE stmt == [start |-> span[1], end |-> span[2], makes |-> makes,
                    outcome |-> outcome, names |-> names]
<1>1. /\ stmts \in Seq(Statements) /\ stmts' = Append(stmts, stmt) /\ phase = "loading"
      /\ phase' = "loading"
  BY DEF TypeOK, Send
<1>2. stmt \in Statements
  BY DEF Spans, Statements
<1>3. \A j \in DOMAIN stmts : stmts[j] \in Statements /\ stmts'[j] = stmts[j] /\ j \in Nat
  BY <1>1, <1>2
<1>4. DOMAIN stmts' = DOMAIN stmts \union {Len(stmts) + 1} /\ stmts'[Len(stmts) + 1] = stmt
      /\ DOMAIN stmts = 1..Len(stmts) /\ Len(stmts) \in Nat
  BY <1>1, <1>2
<1>5. \A j \in DOMAIN stmts : stmts[j].start \in Nat /\ stmts[j].end \in Nat
  BY <1>3, LoadAssumption DEF Statements, Lines
<1>6. /\ stmt.start = span[1] /\ stmt.end = span[2] /\ stmt.names = names
      /\ span[1] \in Nat /\ span[2] \in Nat /\ span[1] <= span[2] /\ LastLine < span[1]
  <2>1. LastLine \in Nat
    BY <1>1, <1>4, <1>5 DEF LastLine
  <2> QED
    BY <2>1, LoadAssumption DEF Spans, Lines
<1>7. \A j \in DOMAIN stmts : stmts[j].end <= LastLine
  <2> SUFFICES ASSUME NEW j \in DOMAIN stmts PROVE stmts[j].end <= LastLine
    OBVIOUS
  <2>1. stmts # <<>> /\ LastLine = stmts[Len(stmts)].end /\ Len(stmts) \in DOMAIN stmts
    BY <1>4 DEF LastLine
  <2>2. CASE j = Len(stmts)
    BY <1>5, <2>1, <2>2
  <2>3. CASE j # Len(stmts)
    <3>1. /\ stmts[j].end < stmts[Len(stmts)].start
          /\ stmts[Len(stmts)].start <= stmts[Len(stmts)].end
      BY <1>4, <2>1, <2>3 DEF LinkInv, InOrder
    <3> QED
      BY <1>5, <2>1, <3>1
  <2> QED BY <2>2, <2>3
<1> HIDE DEF stmt
<1>8. InOrder'
  <2>1. \A i \in DOMAIN stmts' : stmts'[i].start <= stmts'[i].end
    BY <1>3, <1>4, <1>6 DEF LinkInv, InOrder
  <2>2. ASSUME NEW i \in DOMAIN stmts', NEW j \in DOMAIN stmts', i < j
        PROVE  stmts'[i].end < stmts'[j].start
    <3>1. i \in DOMAIN stmts
      BY <1>4, <2>2
    <3>2. CASE j \in DOMAIN stmts
      BY <1>3, <2>2, <3>1, <3>2 DEF LinkInv, InOrder
    <3>3. CASE j = Len(stmts) + 1
      <4>1. stmts'[i].end <= LastLine /\ stmts'[j].start = span[1]
        BY <1>3, <1>4, <1>6, <1>7, <3>1, <3>3
      <4>2. LastLine \in Nat /\ stmts'[i].end \in Nat
        BY <1>1, <1>3, <1>4, <1>5, <3>1 DEF LastLine
      <4> QED BY <1>6, <4>1, <4>2
    <3> QED BY <1>4, <3>2, <3>3
  <2>3. \A i \in DOMAIN stmts' : \A r, s \in stmts'[i].names : r = s
    BY <1>3, <1>4, <1>6 DEF LinkInv, InOrder
  <2> QED BY <2>1, <2>2, <2>3 DEF InOrder
<1>9. /\ errors = {} /\ link = 1 /\ (\A n \in Names : madeBy[n] = 0) /\ (\A l \in Lines : roots[l] = 0)
      /\ errors' = errors /\ link' = link /\ madeBy' = madeBy /\ roots' = roots
  BY <1>1 DEF LinkInv, NotYetLinked, links
<1>10. \A i \in DOMAIN stmts' : ~(i < 1)
  BY <1>4
<1>11. OneErrorEach'
  BY <1>9, <1>10 DEF OneErrorEach, Failed
<1>12. NotYetLinked' /\ NotesAgree' /\ CausesAreRoots' /\ RootCausesExact'
  BY <1>1, <1>9 DEF NotYetLinked, NotesAgree, CausesAreRoots, RootCausesExact, CausesAreTrue,
                    EchoesAreTraced
<1> QED
  BY <1>8, <1>11, <1>12 DEF LinkInv

\* An error linked.
LEMMA LinkStep ==
    ASSUME OneNameEach, TypeOK, LinkInv, LinkError
    PROVE  LinkInv'
<1> DEFINE maker == MakerOf(stmts[link].names)
           root == RootOf(maker)
           here == stmts[link].start
           new == [of |-> link, at |-> here, cause |-> root]
<1>1. /\ link \in Failed /\ link \in DOMAIN stmts /\ link' = link + 1 /\ stmts' = stmts
      /\ phase = "linking" /\ phase' = phase
  BY DEF LinkError, Failed, psql
<1>2. LinkAt(here, root)
  BY <1>1, FoundByLine DEF LinkError, LinkInv
<1>3. MakesAt(here) = stmts[link].makes
  BY <1>1, FoundByLine DEF LinkInv
<1>4. /\ roots \in [Lines -> 0..MaxLine] /\ madeBy \in [Names -> 0..MaxLine]
      /\ errors \subseteq Errors /\ stmts \in Seq(Statements)
  BY DEF TypeOK
<1>5. stmts[link] \in Statements /\ here \in Lines /\ stmts[link].names \in SUBSET Refs
  BY <1>1, StatementType
<1>6. maker \in 0..MaxLine /\ root \in 0..MaxLine
  BY <1>5, MakerOfType, RootType
<1>7. /\ maker # 0 => \E e \in errors : maker = e.at /\ e.of \in MakersFor(link)
      /\ maker = 0 => MakersFor(link) = {}
  BY <1>1, MakerFound DEF LinkInv
<1>8. ASSUME maker # 0
      PROVE  \E e \in errors : /\ e.of \in MakersFor(link)
                               /\ root = IF e.cause = 0 THEN e.at ELSE e.cause
  <2>1. PICK e \in errors : maker = e.at /\ e.of \in MakersFor(link)
    BY <1>7, <1>8
  <2>2. roots[maker] = IF e.cause = 0 THEN e.at ELSE e.cause
    BY <2>1 DEF LinkInv, NotesAgree
  <2> QED
    BY <1>8, <2>1, <2>2 DEF RootOf
<1>9. maker = 0 => root = 0
  BY DEF RootOf
<1>10. maker # 0 => root # 0
  BY DEF RootOf
<1> HIDE DEF maker, root
<1>11. /\ errors' = errors \union {new}
       /\ roots' = [roots EXCEPT ![here] = IF root = 0 THEN here ELSE root]
       /\ madeBy' = [n \in Names |->
                       IF madeBy[n] = 0 /\ n \in NamesOf(stmts[link].makes) THEN here ELSE madeBy[n]]
  BY <1>2, <1>3 DEF LinkAt
<1>12. new.of = link /\ new.at = here /\ new.cause = root
  OBVIOUS
<1>13. \A e \in errors : /\ e.of \in Failed /\ e.of < link /\ e.at = stmts[e.of].start
                         /\ e.of \in DOMAIN stmts /\ e.at \in Lines
  BY <1>4 DEF LinkInv, OneErrorEach, Failed, Errors
<1>14. \A e \in errors : e.at # here
  <2>1. \A j \in DOMAIN stmts : j < link => stmts[j].start < stmts[link].start
    <3>1. \A j \in DOMAIN stmts : /\ stmts[j].start \in Nat /\ stmts[j].end \in Nat
                                  /\ stmts[j].start <= stmts[j].end
      BY StatementType DEF LinkInv, InOrder
    <3>2. \A j \in DOMAIN stmts : j \in Nat
      BY StatementType
    <3> QED
      BY <1>1, <3>1, <3>2 DEF LinkInv, InOrder
  <2>2. \A j \in DOMAIN stmts : stmts[j].start \in Nat
    BY StatementType
  <2> QED
    BY <1>13, <2>1, <2>2, <1>1
<1>15. link \in Nat /\ here # 0 /\ \A e \in errors : e.of \in Nat
  BY <1>1, <1>4, <1>5, LoadAssumption DEF Lines, Errors
<1> HIDE DEF new, here
<1>16. InOrder' /\ NotYetLinked'
  BY <1>1 DEF LinkInv, InOrder, NotYetLinked
<1>17. Failed' = Failed /\ \A i : MakersFor(i)' = MakersFor(i)
  BY <1>1 DEF Failed, MakersFor
<1>18. OneErrorEach'
  <2>1. \A e \in errors' : e.of \in Failed /\ e.of < link + 1 /\ e.at = stmts[e.of].start
    BY <1>1, <1>11, <1>12, <1>13, <1>15 DEF here
  <2>2. \A i \in Failed : i < link + 1 => \E e \in errors' : e.of = i
    <3>1. \A i \in Failed : i \in Nat
      BY StatementType DEF Failed
    <3> QED
      BY <1>11, <1>12, <1>15, <3>1 DEF LinkInv, OneErrorEach
  <2>3. \A d, e \in errors' : d.of = e.of => d = e
    BY <1>11, <1>12, <1>13, <1>15 DEF LinkInv, OneErrorEach
  <2> QED
    BY <1>1, <1>17, <2>1, <2>2, <2>3 DEF OneErrorEach
<1>19. NotesAgree'
  <2>1. \A e \in errors' : roots'[e.at] = IF e.cause = 0 THEN e.at ELSE e.cause
    BY <1>4, <1>5, <1>11, <1>12, <1>13, <1>14 DEF LinkInv, NotesAgree, here
  <2>2. ASSUME NEW n \in Names, madeBy'[n] # 0
        PROVE  \E e \in errors' : madeBy'[n] = e.at /\ n \in NamesOf(stmts[e.of].makes)
    <3>1. CASE madeBy[n] = 0 /\ n \in NamesOf(stmts[link].makes)
      BY <1>11, <1>12, <2>2, <3>1
    <3>2. CASE ~(madeBy[n] = 0 /\ n \in NamesOf(stmts[link].makes))
      BY <1>11, <2>2, <3>2 DEF LinkInv, NotesAgree
    <3> QED BY <3>1, <3>2
  <2>3. ASSUME NEW e \in errors', NEW n \in NamesOf(stmts[e.of].makes) PROVE madeBy'[n] # 0
    <3>1. n \in Names
      <4>1. e.of \in DOMAIN stmts
        BY <1>1, <1>11, <1>12, <1>13
      <4>2. stmts[e.of].makes \in SUBSET Refs
        BY <4>1, StatementType
      <4> QED BY <4>2 DEF NamesOf, Names
    <3>2. CASE e = new
      BY <1>11, <1>12, <1>15, <2>3, <3>1, <3>2
    <3>3. CASE e \in errors
      BY <1>11, <1>15, <2>3, <3>1, <3>3 DEF LinkInv, NotesAgree
    <3> QED BY <1>11, <3>2, <3>3
  <2> QED
    BY <1>1, <2>1, <2>2, <2>3 DEF NotesAgree
<1>20. CausesAreRoots'
  <2>1. ASSUME root # 0 PROVE \E d \in errors : d.of < link /\ d.at = root /\ d.cause = 0
    <3>1. PICK e \in errors : root = IF e.cause = 0 THEN e.at ELSE e.cause
      BY <1>8, <1>9, <2>1
    <3>2. CASE e.cause = 0
      BY <1>13, <3>1, <3>2
    <3>3. CASE e.cause # 0
      <4>1. PICK d \in errors : d.of < e.of /\ d.at = e.cause /\ d.cause = 0
        BY <3>3 DEF LinkInv, CausesAreRoots
      <4> QED
        BY <1>13, <3>1, <3>3, <4>1
    <3> QED BY <3>2, <3>3
  <2> QED
    BY <1>11, <1>12, <2>1 DEF LinkInv, CausesAreRoots
<1>21. RootCausesExact'
  <2>1. CausesAreTrue'
    BY <1>8, <1>9, <1>11, <1>12, <1>17 DEF LinkInv, RootCausesExact, CausesAreTrue
  <2>2. EchoesAreTraced'
    BY <1>7, <1>10, <1>11, <1>12, <1>17 DEF LinkInv, RootCausesExact, EchoesAreTraced
  <2>3. \A e \in errors' : e.at = stmts'[e.of].start
    BY <1>1, <1>18 DEF OneErrorEach
  <2> QED BY <2>1, <2>2, <2>3 DEF RootCausesExact
<1> QED
  BY <1>16, <1>18, <1>19, <1>20, <1>21 DEF LinkInv

\* The invariant of the linking.
LEMMA LinkInvariant ==
    ASSUME Apart = 1, OneNameEach
    PROVE  Spec => [](TypeOK /\ LinkInv)
<1>1. Init => LinkInv
  BY DEF Init, LinkInv, InOrder, NotYetLinked, OneErrorEach, NotesAgree, CausesAreRoots, Failed,
         RootCausesExact, CausesAreTrue, EchoesAreTraced
<1>2. TypeOK /\ LinkInv /\ [Next]_vars => LinkInv'
  <2> SUFFICES ASSUME TypeOK, LinkInv, [Next]_vars PROVE LinkInv'
    OBVIOUS
  <2>1. ASSUME UNCHANGED <<stmts, links>>, phase \in {"linking", "done"} => phase' \in {"linking", "done"}
        PROVE  LinkInv'
    BY <2>1 DEF links, LinkInv, InOrder, NotYetLinked, OneErrorEach, NotesAgree, CausesAreRoots,
                Failed, RootCausesExact, CausesAreTrue, EchoesAreTraced, MakersFor
  <2>2. CASE Connect \/ CannotConnect \/ NothingPrepared \/ Drop \/ Rollback \/ PrintDone
             \/ ReadOutput \/ Incomplete \/ Report \/ Die \/ Done \/ UNCHANGED vars
    BY <2>1, <2>2 DEF psql, links, vars, Connect, CannotConnect, NothingPrepared, Drop, Rollback,
                      PrintDone, ReadOutput, Incomplete, Report, Die, Done
  <2>3. CASE NoError
    <3>1. /\ link' = link + 1 /\ link \notin Failed /\ link \in Nat /\ phase = "linking"
          /\ UNCHANGED <<phase, stmts, errors, madeBy, roots>>
      BY <2>3, StatementType DEF NoError, psql
    <3>2. \A i \in Failed : i \in Nat
      BY StatementType DEF Failed
    <3>3. \A e \in errors : e.of \in Nat
      <4>1. errors \subseteq Errors
        BY DEF TypeOK
      <4> QED
        BY <4>1 DEF Errors
    <3>4. OneErrorEach'
      BY <3>1, <3>2, <3>3 DEF LinkInv, OneErrorEach, Failed
    <3> QED
      BY <3>1, <3>4 DEF LinkInv, InOrder, NotYetLinked, NotesAgree, CausesAreRoots,
                Failed, RootCausesExact, CausesAreTrue, EchoesAreTraced, MakersFor
  <2>4. CASE LinkError
    BY <2>4, LinkStep
  <2>5. CASE Run
    <3>1. PICK span \in Spans, makes \in SUBSET Refs, outcome \in Outcomes, names \in SUBSET Refs :
            Send(span, makes, outcome, names) /\ \A r, s \in names : r = s
      <4>1. Makes \subseteq SUBSET Refs
        BY LoadAssumption
      <4>2. ASSUME NEW span \in Spans, Control(span)
            PROVE  Send(span, {}, "blanked", {}) /\ "blanked" \in Outcomes
        BY <4>2 DEF Control, Fails, Outcomes
      <4>3. ASSUME NEW span \in Spans, NEW makes \in Makes, Loads(span, makes)
            PROVE  Send(span, makes, "ok", {}) /\ "ok" \in Outcomes
        BY <4>3 DEF Loads, Outcomes
      <4>4. ASSUME NEW span \in Spans, NEW makes \in Makes, Breaks(span, makes)
            PROVE  \E outcome \in Outcomes : Send(span, makes, outcome, {})
        BY <4>4 DEF Breaks, Fails, Outcomes
      <4>5. ASSUME NEW span \in Spans, NEW makes \in Makes, Misses(span, makes)
            PROVE  "missing" \in Outcomes /\ \E r \in Refs : Send(span, makes, "missing", {r})
        BY <4>5 DEF Misses, Fails, Outcomes
      <4>12. ASSUME NEW span \in Spans, Prepares(span) \/ Starts(span)
             PROVE  \E outcome \in Outcomes : Send(span, {}, outcome, {})
        BY <4>12 DEF Prepares, Starts, Outcomes
      <4>6. PICK span \in Spans :
              \/ Control(span) \/ Prepares(span) \/ Starts(span)
              \/ \E makes \in Makes : Loads(span, makes) \/ Breaks(span, makes) \/ Misses(span, makes)
        BY <2>5 DEF Run
      <4> HIDE DEF Send
      <4>7. CASE Control(span)
        BY <4>2, <4>7
      <4>13. CASE Prepares(span) \/ Starts(span)
        BY <4>12, <4>13
      <4>8. ASSUME NEW makes \in Makes, Loads(span, makes) \/ Breaks(span, makes)
            PROVE  \E outcome \in Outcomes : Send(span, makes, outcome, {})
        BY <4>3, <4>4, <4>8
      <4>9. ASSUME NEW makes \in Makes, Misses(span, makes)
            PROVE  \E r \in Refs : "missing" \in Outcomes /\ Send(span, makes, "missing", {r})
        BY <4>5, <4>9
      <4>10. CASE \E makes \in Makes : Loads(span, makes) \/ Breaks(span, makes)
        <5>1. PICK makes \in Makes, outcome \in Outcomes : Send(span, makes, outcome, {})
          BY <4>8, <4>10
        <5>2. makes \in SUBSET Refs /\ {} \in SUBSET Refs /\ \A r, s \in {} : r = s
          BY <4>1
        <5> QED BY <5>1, <5>2
      <4>11. CASE \E makes \in Makes : Misses(span, makes)
        <5>1. PICK makes \in Makes, r \in Refs :
                "missing" \in Outcomes /\ Send(span, makes, "missing", {r})
          BY <4>9, <4>11
        <5>2. makes \in SUBSET Refs /\ {r} \in SUBSET Refs /\ \A q, s \in {r} : q = s
          BY <4>1
        <5> QED BY <5>1, <5>2
      <4> QED
        BY <4>6, <4>7, <4>10, <4>11, <4>13
    <3>2. phase' = phase /\ UNCHANGED links
      BY <2>5 DEF Run, Control, Prepares, Starts, Loads, Breaks, Misses, Fails, links
    <3> QED
      BY <3>1, <3>2, SendStep
  <2> QED
    BY <2>2, <2>3, <2>4, <2>5 DEF Next
<1> QED
  BY <1>1, <1>2, TypeCorrect, PTL DEF Spec

\* Where the names tell the objects apart and every statement has lines of
\* its own, link_root_causes() traces every error exactly.
THEOREM ErrorsTracedExactly ==
    ASSUME Apart = 1, OneNameEach
    PROVE  Spec => []RootCausesExact
  BY LinkInvariant, PTL DEF LinkInv

\* There, every echo is counted under one error, an earlier one and a root.
THEOREM EchoesCountedOnce ==
    ASSUME Apart = 1, OneNameEach
    PROVE  Spec => []EchoesHaveOneRoot
<1>1. TypeOK /\ LinkInv => EchoesHaveOneRoot
  <2> SUFFICES ASSUME TypeOK, LinkInv, NEW e \in errors, e.cause # 0
               PROVE  /\ \E d \in errors : d.of < e.of /\ d.at = e.cause /\ d.cause = 0
                      /\ Cardinality({d \in errors : d.at = e.cause /\ d.cause = 0}) = 1
    BY DEF EchoesHaveOneRoot
  <2>1. PICK d \in errors : d.of < e.of /\ d.at = e.cause /\ d.cause = 0
    BY DEF LinkInv, CausesAreRoots
  <2>2. \A c \in errors : c.at = d.at => c = d
    <3>1. \A i, j \in DOMAIN stmts : stmts[i].start = stmts[j].start => i = j
      <4>1. \A i \in DOMAIN stmts : stmts[i].start \in Nat /\ stmts[i].end \in Nat /\ i \in Nat
        BY StatementType
      <4> QED
        BY <4>1 DEF LinkInv, InOrder
    <3> QED
      BY <3>1 DEF LinkInv, OneErrorEach, Failed
  <2>3. {c \in errors : c.at = e.cause /\ c.cause = 0} = {d}
    BY <2>1, <2>2
  <2> QED
    BY <2>1, <2>3, FS_Singleton
<1> QED
  BY <1>1, LinkInvariant, PTL
-----------------------------------------------------------------------------
(* The container: what holds of it whatever the daemon, the user and the   *)
(* clock do.  The invariant says what the tool knows of it at each step:   *)
(* it has been created once docker run has answered (Created), only the    *)
(* temporary server's successor is ever given the files (Real), and a      *)
(* check that ended by itself has asked for the removal of what it was     *)
(* told it had started (Ending).                                           *)

Created ==
    /\ pc = "run" => container # "created"
    /\ pc \in InTry \union {"remove"} => container \notin {"asked", "created"}

Real == pc \in {"copy", "psql"} => container # "temporary"

Ending ==
    /\ pc \notin {"end"} => answer = "none"
    /\ pc \in {"idle", "run"} => ~ours
    /\ answer \in {"result", "error", "timeout"} /\ ours => asked

Inv == DockerTypeOK /\ Created /\ Real /\ Ending

USE DEF Timed, Untimed, InTry, TryOutcomes, Exits, DockerTypeOK, Created, Real, Ending, Inv

LEMMA InitInv == DockerInit => Inv
  BY DEF DockerInit

LEMMA NextInv == Inv /\ [DockerNext]_dockerVars => Inv'
<1> SUFFICES ASSUME Inv, [DockerNext]_dockerVars
             PROVE  Inv'
  OBVIOUS
<1> USE DEF Goto, Leave, End
\* The daemon, the container and the clock.
<1>1. CASE Create
  BY <1>1 DEF Create
<1>2. CASE StartServer
  BY <1>2 DEF StartServer
<1>3. CASE Crash
  BY <1>3 DEF Crash
<1>4. CASE Deadline
  BY <1>4 DEF Deadline
\* Starting and waiting.
<1>5. CASE RunContainer
  BY <1>5 DEF RunContainer
<1>6. CASE RunFails
  BY <1>6 DEF RunFails
<1>7. CASE Started
  BY <1>7 DEF Started
<1>8. CASE Ready
  BY <1>8 DEF Ready
<1>9. CASE NotReady \/ PollAgain \/ TooLate
  BY <1>9 DEF NotReady, PollAgain, TooLate
\* Loading.
<1>10. CASE Fail \/ TimeOut \/ Interrupt
  BY <1>10 DEF Fail, TimeOut, Interrupt
<1>11. CASE Copied
  BY <1>11 DEF Copied
<1>12. CASE Serve
  BY <1>12 DEF Serve
<1>13. CASE PsqlEnds
  BY <1>13 DEF PsqlEnds
\* Ending.
<1>14. CASE Remove
  BY <1>14 DEF Remove, Verdict
<1>15. CASE RemoveTimesOut
  BY <1>15 DEF RemoveTimesOut
<1>16. CASE InterruptOutside
  BY <1>16 DEF InterruptOutside
<1>17. CASE Kill
  BY <1>17 DEF Kill
<1>18. CASE Ended \/ UNCHANGED dockerVars
  BY <1>18 DEF Ended, dockerVars
<1> QED
  BY <1>1, <1>2, <1>3, <1>4, <1>5, <1>6, <1>7, <1>8, <1>9, <1>10, <1>11, <1>12, <1>13, <1>14,
     <1>15, <1>16, <1>17, <1>18 DEF DockerNext

LEMMA Invariant == DockerSpec => []Inv
  BY InitInv, NextInv, PTL DEF DockerSpec

\* Every variable keeps its type.
THEOREM DockerTypeCorrect == DockerSpec => []DockerTypeOK
  BY Invariant, PTL DEF Inv

\* No file is copied and no script run while the temporary server is up
\* (_run_docker, the readiness poll over TCP).
THEOREM TemporaryNeverServes == DockerSpec => []NeverTemporary
<1>1. Inv => NeverTemporary
  BY DEF NeverTemporary
<1> QED
  BY <1>1, Invariant, PTL

\* A check that ends by itself has asked for the removal of the container that
\* docker run said it had started (_run_docker's finally).
THEOREM NoContainerForgotten == DockerSpec => []NoOrphan
<1>1. Inv => NoOrphan
  BY DEF NoOrphan
<1> QED
  BY <1>1, Invariant, PTL
=============================================================================
