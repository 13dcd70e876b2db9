------------------------------ MODULE LoadCheck ------------------------------
(***************************************************************************)
(* `--load-check`: the generated files are run, statement by statement, in *)
(* one transaction that is rolled back, and what failed is traced to the   *)
(* statements it comes from (run_load_check).                              *)
(*                                                                         *)
(* The parties are the tool, psql and the server.  The connection may drop *)
(* and the tool be killed at any statement.  The files are one list of     *)
(* statements with line numbers that run on from file to file, so a line   *)
(* stands for a (file, line) pair; 0 stands for none.                      *)
(***************************************************************************)
EXTENDS Integers, Sequences, FiniteSets

CONSTANTS
    Refs,      \* object references, as scripts and error messages spell them
    Object,    \* [Refs -> ...], the object the server takes a reference for
    Bare,      \* [Refs -> ...], the reference without its schema, lower case
    Full,      \* [Refs -> ...], the reference as a whole, lower case
    Makes,     \* the sets of objects a statement may make
    Existing,  \* the objects the database holds before the check
    Apart,     \* how far a statement begins from the end of the last one
    MaxStatements, MaxLine   \* bounds on the files

ASSUME LoadAssumption ==
    /\ DOMAIN Object = Refs
    /\ Makes \subseteq SUBSET Refs
    /\ Apart \in {0, 1}
    /\ MaxStatements \in Nat
    /\ MaxLine \in Nat

Objects == {Object[r] : r \in Refs} \union Existing
Lines == 1..MaxLine

\* How a statement ends.  "broken" is an error of its own; "refused" one that
\* says nothing about the migration (_ENVIRONMENT_STATES); "missing" one that
\* names an object that does not exist and that nothing else explains.
\* "prepared" and "cancelled" are a PREPARE TRANSACTION that was not blanked and
\* ran, or failed.
Outcomes == {"ok", "blanked", "broken", "refused", "missing", "prepared", "cancelled"}
Statements == [start : Lines, end : Lines, makes : SUBSET Refs, outcome : Outcomes,
               names : SUBSET Refs]

\* An error as run_load_check() returns it: the statement that failed, the
\* line it is put at, and caused_by.
Errors == [of : 1..MaxStatements, at : Lines, cause : 0..MaxLine]

VARIABLES
    phase,      \* where the check is
    size,       \* the statements of the files that could be prepared
    skipped,    \* some file was not: unreadable, or unterminated
    stmts,      \* the statements psql has sent
    open,       \* the transaction is open
    tx,         \* the objects the session sees
    committed,  \* the objects everybody else sees
    marked,     \* psql has printed the done mark
    link,       \* link_root_causes(): the statement whose error is next
    taken,      \* _statement_for(): statements claimed by an error
    madeBy,     \* link_root_causes(): name -> line of the failed statement to make it
    roots,      \* link_root_causes(): line of a failed statement -> its root's
    errors,     \* link_root_causes(): the errors, linked
    exit        \* the exit code, -1 before there is one

vars == <<phase, size, skipped, stmts, open, tx, committed, marked, link, taken, madeBy, roots,
          errors, exit>>
server == <<open, tx, committed>>
psql == <<size, skipped, stmts, marked>>
links == <<link, taken, madeBy, roots, errors>>

Names == {Bare[r] : r \in Refs} \union {Full[r] : r \in Refs}
NamesOf(refs) == {Bare[r] : r \in refs} \union {Full[r] : r \in refs}

TypeOK ==
    /\ phase \in {"prepared", "loading", "rolled back", "ended", "linking", "done"}
    /\ size \in 0..MaxStatements
    /\ skipped \in BOOLEAN
    /\ stmts \in Seq(Statements)
    /\ Len(stmts) <= size
    /\ open \in BOOLEAN
    /\ tx \subseteq Objects
    /\ committed \subseteq Objects
    /\ marked \in BOOLEAN
    /\ link \in 1..(MaxStatements + 1)
    /\ taken \subseteq 1..MaxStatements
    /\ madeBy \in [Names -> 0..MaxLine]
    /\ roots \in [Lines -> 0..MaxLine]
    /\ errors \subseteq Errors
    /\ exit \in {-1, 0, 1, 2}

Init ==
    /\ phase = "prepared"
    /\ size \in 0..MaxStatements
    /\ skipped \in BOOLEAN
    /\ stmts = <<>>
    /\ open = FALSE
    /\ tx = Existing
    /\ committed = Existing
    /\ marked = FALSE
    /\ link = 1
    /\ taken = {}
    /\ madeBy = [n \in Names |-> 0]
    /\ roots = [l \in Lines |-> 0]
    /\ errors = {}
    /\ exit = -1

-----------------------------------------------------------------------------
(* psql and the server. *)

Connect ==
    /\ phase = "prepared"
    /\ phase' = "loading"
    /\ open' = TRUE
    /\ UNCHANGED <<psql, tx, committed, links, exit>>

\* No psql, no connection: LoadCheckError.
CannotConnect ==
    /\ phase = "prepared"
    /\ phase' = "done"
    /\ exit' = 2
    /\ UNCHANGED <<psql, server, links>>

\* No file could be prepared: a result, without asking the server.
NothingPrepared ==
    /\ phase = "prepared"
    /\ skipped /\ size = 0
    /\ phase' = "done"
    /\ exit' = 2
    /\ UNCHANGED <<psql, server, links>>

LastLine == IF stmts = <<>> THEN 0 ELSE stmts[Len(stmts)].end

\* The lines of the next statement; one line may hold several.
Spans == {s \in Lines \X Lines : s[1] <= s[2] /\ s[1] >= LastLine + Apart}

\* Mutant of Send: what follows the last prepared file is sent as well.
SendMore(span, makes, outcome, names) ==
    /\ phase = "loading"
    /\ stmts' = Append(stmts, [start |-> span[1], end |-> span[2], makes |-> makes,
                               outcome |-> outcome, names |-> names])

Send(span, makes, outcome, names) ==
    /\ phase = "loading"
    /\ Len(stmts) < size
    /\ stmts' = Append(stmts, [start |-> span[1], end |-> span[2], makes |-> makes,
                               outcome |-> outcome, names |-> names])

\* ON_ERROR_ROLLBACK: a failed statement goes back to its savepoint, the
\* transaction goes on.
Fails(span, makes, outcome, names) ==
    /\ Send(span, makes, outcome, names)
    /\ UNCHANGED <<phase, size, skipped, marked, server, links, exit>>

Loads(span, makes) ==
    /\ Send(span, makes, "ok", {})
    /\ tx' = tx \union {Object[r] : r \in makes}
    /\ committed' = IF open THEN committed ELSE tx'
    /\ UNCHANGED <<phase, size, skipped, marked, open, links, exit>>

Breaks(span, makes) ==
    \E outcome \in {"broken", "refused"} : Fails(span, makes, outcome, {})

Misses(span, makes) ==
    \E r \in Refs : Object[r] \notin tx /\ Fails(span, makes, "missing", {r})

\* Mutant of Control: the file's COMMIT reaches the server.
ControlAsWritten(span) ==
    /\ Send(span, {}, "ok", {})
    /\ committed' = tx
    /\ open' = FALSE
    /\ UNCHANGED <<phase, size, skipped, marked, tx, links, exit>>

\* The file's own transaction control: sanitize() has left blanks of it.
Control(span) == Fails(span, {}, "blanked", {})

\* Control of two words with a comment between them, which _leading_keywords()
\* does not read over.  PREPARE TRANSACTION takes the transaction away from the
\* session, and abandons it when it fails; START TRANSACTION begins another.
Prepares(span) ==
    /\ \/ Send(span, {}, "prepared", {})
       \/ open /\ Send(span, {}, "cancelled", {})
    /\ open' = FALSE
    /\ tx' = committed
    /\ UNCHANGED <<phase, size, skipped, marked, committed, links, exit>>

Starts(span) ==
    /\ Send(span, {}, "ok", {})
    /\ open' = TRUE
    /\ UNCHANGED <<phase, size, skipped, marked, tx, committed, links, exit>>

\* The connection drops: the server rolls back, psql stops.
Drop ==
    /\ phase \in {"loading", "rolled back"}
    /\ phase' = "ended"
    /\ open' = FALSE
    /\ tx' = committed
    /\ UNCHANGED <<psql, committed, links, exit>>

Rollback ==
    /\ phase = "loading"
    /\ Len(stmts) = size
    /\ phase' = "rolled back"
    /\ open' = FALSE
    /\ tx' = committed
    /\ UNCHANGED <<psql, committed, links, exit>>

PrintDone ==
    /\ phase = "rolled back"
    /\ phase' = "ended"
    /\ marked' = TRUE
    /\ UNCHANGED <<size, skipped, stmts, server, links, exit>>

-----------------------------------------------------------------------------
(* The tool. *)

\* Mutant of ReadOutput: the done mark is not looked for.
ReadAnyOutput ==
    /\ phase = "ended"
    /\ phase' = "linking"
    /\ UNCHANGED <<psql, server, links, exit>>

ReadOutput ==
    /\ phase = "ended" /\ marked
    /\ phase' = "linking"
    /\ UNCHANGED <<psql, server, links, exit>>

\* load_check_incomplete: psql stopped partway.
Incomplete ==
    /\ phase = "ended" /\ ~marked
    /\ phase' = "done"
    /\ exit' = 2
    /\ UNCHANGED <<psql, server, links>>

Failed == {i \in DOMAIN stmts : stmts[i].outcome \in {"broken", "refused", "missing", "cancelled"}}

\* _statement_for(): the statement an error is put down to.  psql tells the
\* line the statement ends on, and several may end there; an error claims the
\* first that no error has claimed.
Claimable(i) == {k \in DOMAIN stmts : stmts[k].end = stmts[i].end} \ taken
Claims(i) == {k \in Claimable(i) : \A j \in Claimable(i) : k <= j}

\* `texts`: what the statement at a line makes; the last one that starts there.
MakesAt(line) ==
    {r \in Refs : \E k \in DOMAIN stmts :
        /\ stmts[k].start = line /\ r \in stmts[k].makes
        /\ \A j \in DOMAIN stmts : stmts[j].start = line => j <= k}

\* Mutant of MakerOf: the name is looked up as the message spells it only.
MakerOfFull(names) ==
    IF \E r \in names : madeBy[Full[r]] # 0 THEN madeBy[Full[CHOOSE r \in names : TRUE]] ELSE 0

\* The failed statement that was to make the missing object: looked up by its
\* whole name, then without the schema.
MakerOf(names) ==
    IF \E r \in names : madeBy[Full[r]] # 0 THEN madeBy[Full[CHOOSE r \in names : TRUE]]
    ELSE IF \E r \in names : madeBy[Bare[r]] # 0 THEN madeBy[Bare[CHOOSE r \in names : TRUE]]
    ELSE 0

\* Mutant of RootOf: an echo of an echo is traced to the echo.
RootOfMaker(maker) == maker

RootOf(maker) == IF maker # 0 /\ roots[maker] # 0 THEN roots[maker] ELSE maker

NoError ==
    /\ phase = "linking"
    /\ link \in DOMAIN stmts \ Failed
    /\ link' = link + 1
    /\ UNCHANGED <<phase, psql, server, taken, madeBy, roots, errors, exit>>

LinkAt(here, root) ==
    /\ roots' = [roots EXCEPT ![here] = IF root = 0 THEN here ELSE root]
    /\ madeBy' = [n \in Names |->
                     IF madeBy[n] = 0 /\ n \in NamesOf(MakesAt(here)) THEN here ELSE madeBy[n]]
    /\ errors' = errors \union {[of |-> link, at |-> here, cause |-> root]}

LinkError ==
    /\ phase = "linking"
    /\ link \in Failed
    /\ \E mine \in Claims(link) :
         /\ taken' = taken \union {mine}
         /\ LinkAt(stmts[mine].start, RootOf(MakerOf(stmts[link].names)))
    /\ link' = link + 1
    /\ UNCHANGED <<phase, psql, server, exit>>

\* A result, reported: skipped files come first, then the errors; those that
\* say nothing about the migration are not counted.
Report ==
    /\ phase = "linking"
    /\ link = Len(stmts) + 1
    /\ phase' = "done"
    /\ exit' = IF skipped THEN 2
               ELSE IF \E i \in Failed : stmts[i].outcome # "refused" THEN 1 ELSE 0
    /\ UNCHANGED <<psql, server, links>>

\* The tool is interrupted or killed, and psql with it.
Die ==
    /\ phase # "done"
    /\ phase' = "done"
    /\ open' = FALSE
    /\ tx' = committed
    /\ UNCHANGED <<psql, committed, links, exit>>

Done == phase = "done" /\ UNCHANGED vars

Run == \E span \in Spans :
    \/ Control(span) \/ Prepares(span) \/ Starts(span)
    \/ \E makes \in Makes : Loads(span, makes) \/ Breaks(span, makes) \/ Misses(span, makes)

Next ==
    \/ Connect \/ CannotConnect \/ NothingPrepared
    \/ Run \/ Drop \/ Rollback \/ PrintDone
    \/ ReadOutput \/ Incomplete \/ NoError \/ LinkError \/ Report
    \/ Die \/ Done

Spec == Init /\ [][Next]_vars

-----------------------------------------------------------------------------
(* Properties. *)

\* The control statements that ended the transaction, or would have.
GotThrough == {k \in DOMAIN stmts : stmts[k].outcome \in {"prepared", "cancelled"}}

\* "No COMMIT in a file can end the check's transaction early" (load_check.py
\* :17-20), whenever a statement fails and the connection or the tool goes:
\* nobody else ever sees an object of the files, but for those that a statement
\* made behind a PREPARE TRANSACTION hidden from sanitize() by a comment.
NothingCommitted ==
    \A o \in committed \ Existing : \E k \in GotThrough, m \in DOMAIN stmts :
        /\ k < m /\ stmts[m].outcome = "ok"
        /\ \E r \in stmts[m].makes : o = Object[r]

\* Exit code 0 means that every file was loaded to its last statement, with
\* nothing failing but what the check could not try; 1 that a statement
\* failed.  Either has an error for every failed statement, and one only.
ExitCodeMeans ==
    /\ exit \in {0, 1} =>
        /\ ~skipped /\ Len(stmts) = size
        /\ {e.of : e \in errors} = Failed /\ Cardinality(errors) = Cardinality(Failed)
    /\ exit = 0 => \A i \in Failed : stmts[i].outcome = "refused"
    /\ exit = 1 => \E i \in Failed : stmts[i].outcome # "refused"

\* The earlier failed statements that were to make what statement i misses.
MakersFor(i) == {m \in Failed : m < i /\
    \E r \in stmts[i].names, s \in stmts[m].makes : Object[r] = Object[s]}

\* A cause is true: an earlier failed statement was to make the very object
\* that is missing, and the cause is that statement, or that statement's own.
\* load_check.py:153-155, LoadError.caused_by.
CausesAreTrue ==
    \A e \in errors : e.cause # 0 =>
        \E d \in errors : d.of \in MakersFor(e.of) /\ e.cause = IF d.cause = 0 THEN d.at ELSE d.cause

\* load_check.py:838-839: "each missing-object error tied to the failed
\* statement that was to make its object".
EchoesAreTraced == \A e \in errors : MakersFor(e.of) # {} => e.cause # 0

\* The names tell the objects apart, with or without the schema.
OneNameEach ==
    \A r, s \in Refs :
        Object[r] = Object[s] <=> {Bare[r], Full[r]} \intersect {Bare[s], Full[s]} # {}

\* Where every object has one name and every statement lines of its own, an
\* error is put at its statement and traced exactly (link_root_causes).
RootCausesExact ==
    CausesAreTrue /\ EchoesAreTraced /\ \A e \in errors : e.at = stmts[e.of].start

\* What the report counts an echo under: one earlier error, and a root.
EchoesHaveOneRoot ==
    \A e \in errors : e.cause # 0 =>
        /\ \E d \in errors : d.of < e.of /\ d.at = e.cause /\ d.cause = 0
        /\ Cardinality({d \in errors : d.at = e.cause /\ d.cause = 0}) = 1

\* load_check.py:20, "Nothing is ever committed": not so behind a hidden PREPARE
\* TRANSACTION.
NothingIsEverCommitted == committed = Existing
=============================================================================
