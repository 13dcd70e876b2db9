----------------------------- MODULE OracleExport -----------------------------
(***************************************************************************)
(* ora2pg-gap-export: the DDL of a live Oracle schema, one file per object *)
(* (oracle_connector.export_schema), again and again into one directory.   *)
(*                                                                         *)
(* Names are listed type by type and the DDL is asked for name by name, so *)
(* the schema changes in between; two quoted names may become one file     *)
(* name; and the export may end between any two steps.                     *)
(***************************************************************************)
EXTENDS Integers, FiniteSets, Sequences

CONSTANTS
    Count,      \* objects 1 .. Count, in the order the listing returns them
    Types,      \* object types are 1 .. Types, in the order of the export
    TypeOf,     \* TypeOf[o]: the type of o
    UpperCase,  \* UpperCase[o]: the object of that type named o's name in capitals
    Parts,      \* what file names are made of, besides numbers
    FileStem,   \* FileStem[o]: the type's suffix, then _safe_stem of the name in parts
    MaxChanges, \* bound: changes of the schema
    MaxExports  \* bound: exports into the directory

Objects == 1 .. Count
Stems   == {FileStem[o] : o \in Objects}

\* The file name made of a stem at the n-th attempt: with "_n" after it, but for
\* the first.  A name can end so by itself: logger's second is LOGGER_2's first.
Numbered(stem, n) == IF n = 1 THEN stem ELSE Append(stem, n)

Paths   == {Numbered(stem, n) : stem \in Stems, n \in Objects}   \* no attempt needs more
DDLs    == [of : Objects, version : 0 .. MaxChanges + 1]
Exports == [of : Objects, path : Paths, ddl : DDLs]

ASSUME OracleExportAssumption ==
    /\ Count \in Nat /\ Types \in Nat
    /\ MaxChanges \in Nat /\ MaxExports \in Nat
    /\ TypeOf \in [Objects -> 1 .. Types]
    /\ UpperCase \in [Objects -> Objects]
    /\ FileStem \in [Objects -> Seq(Parts \union Nat)]

VARIABLES
    schema,   \* the version of each object's DDL, 0 when there is no such object
    changes,  \* how often the schema has changed
    files,    \* the directory: what was exported where, and whether as a whole
    pc,       \* "idle", or the step of the export
    type,     \* export_schema's object_type
    pending,  \* names listed and not yet asked for
    now,      \* the name, path and DDL between GET_DDL and the end of write_text
    taken,    \* export_schema's taken
    written,  \* what this export has written, as path and DDL
    errors,   \* export_schema's errors
    gone,     \* names with no DDL
    exports,  \* how many exports have begun
    ended,    \* how the last one ended
    listed,   \* observability: every name this export listed
    before    \* observability: what the last complete export wrote

vars == <<schema, changes, files, pc, type, pending, now, taken, written, errors, gone,
          exports, ended, listed, before>>
work == <<files, pc, type, pending, now, taken, written, errors, gone, exports, ended, listed, before>>

TypeOK ==
    /\ schema \in [Objects -> 0 .. MaxChanges + 1]
    /\ changes \in 0 .. MaxChanges
    /\ files \subseteq [path : Paths, what : Exports, whole : BOOLEAN]
    /\ pc \in {"idle", "list", "get", "open", "write"}
    /\ type \in 0 .. Types
    /\ pending \subseteq Objects
    /\ now \subseteq Exports
    /\ taken \subseteq Paths
    /\ written \subseteq Exports
    /\ errors \subseteq Objects
    /\ gone \subseteq Objects
    /\ exports \in 0 .. MaxExports
    /\ ended \in {"none", "done", "failed", "killed"}
    /\ listed \subseteq Objects
    /\ before \subseteq Exports

Init ==
    /\ schema \in [Objects -> {0, 1}]
    /\ changes = 0
    /\ files = {}
    /\ pc = "idle"
    /\ type = 0
    /\ pending = {}
    /\ now = {}
    /\ taken = {}
    /\ written = {}
    /\ errors = {}
    /\ gone = {}
    /\ exports = 0
    /\ ended = "none"
    /\ listed = {}
    /\ before = {}

-----------------------------------------------------------------------------
(* The schema, which belongs to others. *)

Change(o, version) ==
    /\ changes < MaxChanges
    /\ schema' = [schema EXCEPT ![o] = version]
    /\ changes' = changes + 1
    /\ UNCHANGED work

\* CREATE OR REPLACE, or ALTER.
CreateObject == \E o \in Objects : Change(o, changes + 2)

DropObject == \E o \in Objects : schema[o] # 0 /\ Change(o, 0)

-----------------------------------------------------------------------------
(* The export. *)

\* The output directory is made, or found with its files.
Begin ==
    /\ pc = "idle"
    /\ exports < MaxExports
    /\ exports' = exports + 1
    /\ pc' = "list"
    /\ type' = 0
    /\ taken' = {}
    /\ written' = {}
    /\ errors' = {}
    /\ gone' = {}
    /\ listed' = {}
    /\ ended' = "none"
    /\ UNCHANGED <<schema, changes, files, pending, now, before>>

\* The names of the next type, in one query.
ListNext(more) ==
    /\ pc = "list"
    /\ more
    /\ type' = type + 1
    /\ pending' = {o \in Objects : TypeOf[o] = type' /\ schema[o] # 0}
    /\ listed' = listed \union pending'
    /\ pc' = "get"
    /\ UNCHANGED <<schema, changes, files, now, taken, written, errors, gone, exports, ended, before>>

\* Mutant of List: one type too many.
ListPast == ListNext(type <= Types)

List == ListNext(type < Types)

\* The name export_schema comes to.
First(o) == o \in pending /\ \A p \in pending : o <= p

\* Mutant of Candidate: collisions looked for on the disk, as they once were
\* (the last attempt there is here is not refused).
CandidateOnDisk(stem, n) == n = Count \/ Numbered(stem, n) \notin {f.path : f \in files}

\* Mutant of Candidate: none looked for.
CandidateAny(stem, n) == TRUE

Candidate(stem, n) == Numbered(stem, n) \notin taken

UniqueOutputPath(stem) ==
    Numbered(stem, CHOOSE n \in Objects :
                        Candidate(stem, n) /\ \A m \in 1 .. n - 1 : ~ Candidate(stem, m))

\* GET_DDL is asked for the name in capitals, so it is that object's DDL.
GetDDL ==
    /\ pc = "get"
    /\ \E o \in Objects :
        LET of   == UpperCase[o]
            path == UniqueOutputPath(FileStem[o])
        IN  /\ First(o)
            /\ schema[of] # 0
            /\ pending' = pending \ {o}
            /\ now' = {[of |-> o, path |-> path, ddl |-> [of |-> of, version |-> schema[of]]]}
            /\ taken' = taken \union {path}
    /\ pc' = "open"
    /\ UNCHANGED <<schema, changes, files, type, written, errors, gone, exports, ended, listed, before>>

\* Mutant of GetFails: the other names of the type are given up with it.
GetFailsForAll ==
    /\ pc = "get"
    /\ \E o \in Objects :
        /\ First(o)
        /\ errors' = errors \union {o}
    /\ pending' = {}
    /\ UNCHANGED <<schema, changes, files, pc, type, now, taken, written, gone, exports, ended, listed, before>>

\* GET_DDL raises, for want of a privilege as a rule: the name is noted.
GetFails ==
    /\ pc = "get"
    /\ \E o \in Objects :
        /\ First(o)
        /\ pending' = pending \ {o}
        /\ errors' = errors \union {o}
    /\ UNCHANGED <<schema, changes, files, pc, type, now, taken, written, gone, exports, ended, listed, before>>

\* No row, or no DDL: the object is gone since the listing.
GetNothing ==
    /\ pc = "get"
    /\ \E o \in Objects :
        /\ First(o)
        /\ schema[UpperCase[o]] = 0
        /\ pending' = pending \ {o}
        /\ gone' = gone \union {o}
    /\ UNCHANGED <<schema, changes, files, pc, type, now, taken, written, errors, exports, ended, listed, before>>

\* The type's names are done.
NextType ==
    /\ pc = "get"
    /\ pending = {}
    /\ pc' = "list"
    /\ UNCHANGED <<schema, changes, files, type, pending, now, taken, written, errors, gone,
                   exports, ended, listed, before>>

\* The directory with e's file replaced.
Replaced(e, whole) ==
    {f \in files : f.path # e.path} \union {[path |-> e.path, what |-> e, whole |-> whole]}

\* write_text truncates what is there ...
Open ==
    /\ pc = "open"
    /\ \E e \in now : files' = Replaced(e, FALSE)
    /\ pc' = "write"
    /\ UNCHANGED <<schema, changes, type, pending, now, taken, written, errors, gone,
                   exports, ended, listed, before>>

\* ... and writes.
Write ==
    /\ pc = "write"
    /\ \E e \in now : files' = Replaced(e, TRUE)
    /\ written' = written \union now
    /\ now' = {}
    /\ pc' = "get"
    /\ UNCHANGED <<schema, changes, type, pending, taken, errors, gone, exports, ended, listed, before>>

\* The export ends, with what it was about left as it is.
Stop(how) ==
    /\ pc' = "idle"
    /\ ended' = how
    /\ pending' = {}
    /\ now' = {}

Finish ==
    /\ pc = "list"
    /\ type = Types
    /\ Stop("done")
    /\ before' = written
    /\ UNCHANGED <<schema, changes, files, type, taken, written, errors, gone, exports, listed>>

\* A listing or a write raises, and main returns 3; or the tool is killed.
Fail ==
    /\ pc \in {"list", "open", "write"}
    /\ Stop("failed")
    /\ UNCHANGED <<schema, changes, files, type, taken, written, errors, gone, exports, listed, before>>

Kill ==
    /\ pc # "idle"
    /\ Stop("killed")
    /\ UNCHANGED <<schema, changes, files, type, taken, written, errors, gone, exports, listed, before>>

\* The bound: no further export is considered.
Rest ==
    /\ pc = "idle"
    /\ exports = MaxExports
    /\ UNCHANGED vars

Next ==
    \/ CreateObject \/ DropObject \/ Rest
    \/ Begin \/ List \/ GetDDL \/ GetFails \/ GetNothing \/ NextType \/ Open \/ Write
    \/ Finish \/ Fail \/ Kill

Spec == Init /\ [][Next]_vars

-----------------------------------------------------------------------------
Complete == pc = "idle" /\ ended = "done"

ObjectsOf(es) == {e.of : e \in es}

\* No object's file is overwritten with another's, whatever the names become
\* on the disk: what an export wrote is there, as a whole, until the next one
\* (_unique_output_path).
OneFileEach == \A e \in written : [path |-> e.path, what |-> e, whole |-> TRUE] \in files

\* A complete export has, for every name it listed, a file, an error to report
\* or no DDL, and one of them only (export_schema).
AllAccounted ==
    Complete =>
        /\ listed = ObjectsOf(written) \union errors \union gone
        /\ ObjectsOf(written) \intersect errors = {}
        /\ (ObjectsOf(written) \union errors) \intersect gone = {}

\* Exporting the same objects again replaces their files: each has the name it
\* had (_unique_output_path; a directory scanned with both would count every
\* finding twice).
Names(es) == {<<e.of, e.path>> : e \in es}
NamesAreStable ==
    [][Finish /\ ObjectsOf(written) = ObjectsOf(before) => Names(written) = Names(before)]_vars

\* oracle_connector.py:257, 265: "one .sql file per object", an object's DDL in
\* its own.
OwnDDL == \A e \in written : e.ddl.of = e.of

\* README.md: "Exporting again into the same directory replaces the previous
\* export's files".
PreviousReplaced == Complete => \A f \in files : f.what \in written

\* oracle_connector.py:241-243: "a file left by an earlier export into the same
\* directory is the same object's previous DDL".
ReplacesItsOwn ==
    [][Open => \A e \in now, f \in files : f.path = e.path => f.what.of = e.of]_vars
=============================================================================
