------------------------------- MODULE ScanRun -------------------------------
(***************************************************************************)
(* Scans of a schema, run after run: `--save` keeps a run's findings,      *)
(* `--baseline` compares a run with the findings another one kept,         *)
(* `--fail-on` turns them into an exit code (_main, baseline.py).          *)
(*                                                                         *)
(* Developers edit and remove files at any time, a detector or a whole     *)
(* file's analysis may crash, ora2pg may be missing or fail, the snapshot  *)
(* may be unwritable or damaged, and the run may be killed.                *)
(*                                                                         *)
(* A kind is what group_key() hashes but for the file: detector, object    *)
(* and snippet.  A kind found n times in a file is n equal findings.       *)
(***************************************************************************)
EXTENDS Integers, FiniteSets

CONSTANTS
    Files,      \* the paths a run may name
    Kinds,      \* kinds of findings
    ConnectBy,  \* those of --check-connect-by, found in what ora2pg makes of a file
    Outdated,   \* those the PostgreSQL of --pg-version has no problem with
    Gating,     \* those of the severity of --fail-on, or above
    Contents,   \* what a file may hold: how often each kind
    Slots,      \* paths of snapshots
    Args,       \* the command lines
    MaxEdits, MaxRuns  \* bounds on the changes from outside and on the runs

NoSlot == "none"

CommandLines ==
    [paths : SUBSET Files,          \* what to scan
     save : Slots \union {NoSlot}, baseline : Slots \union {NoSlot},
     connect : BOOLEAN,             \* --check-connect-by
     newer : BOOLEAN,               \* --pg-version
     gate : BOOLEAN,                \* --fail-on
     human : BOOLEAN]               \* a report for a person: terminal, markdown or html

ASSUME ScanAssumption ==
    /\ ConnectBy \subseteq Kinds /\ Outdated \subseteq Kinds /\ Gating \subseteq Kinds
    /\ Contents \subseteq [Kinds -> Nat]
    /\ NoSlot \notin Slots
    /\ Args \subseteq CommandLines
    /\ MaxEdits \in Nat /\ MaxRuns \in Nat

Static == Kinds \ ConnectBy

\* Findings, counted by their group key.
Findings == [Files -> [Kinds -> Nat]]
NoFindings == [f \in Files |-> [k \in Kinds |-> 0]]

\* Observability: what a run was asked to look at, and which files it read and
\* every detector went through, with what they held.
Views == [asked : SUBSET Files, files : SUBSET Files, held : Findings, newer : BOOLEAN]
Unseen(asked, newer) ==
    [asked |-> asked, files |-> {}, held |-> NoFindings, newer |-> newer]

VARIABLES
    code,         \* what the files hold
    there,        \* the files that can be read
    edits, runs,  \* how many changes and runs there have been
    pc,           \* where the run is
    args,         \* its command line
    todo,         \* paths still to scan
    checking,     \* the file --check-connect-by is about to hand to ora2pg, or none
    found,        \* all_findings
    scanned,      \* files_scanned: the paths it went through
    hadError, hadInternalError,
    view,         \* observability: what this run looked at
    snaps,        \* the snapshots' findings
    readable,     \* the snapshots that can be loaded
    views,        \* observability: what the runs that saved them looked at
    compared,     \* the slot this run was compared with, once it was
    diff,         \* BaselineDiff, counted by group key
    exit          \* the exit code, -1 before there is one

vars == <<code, there, edits, runs, pc, args, todo, checking, found, scanned, hadError,
          hadInternalError, view, snaps, readable, views, compared, diff, exit>>
world == <<code, there, edits>>
store == <<snaps, readable, views>>
run == <<runs, args>>
scan == <<todo, checking, found, scanned, hadError, hadInternalError, view>>
result == <<compared, diff>>

TypeOK ==
    /\ code \in [Files -> Contents]
    /\ there \subseteq Files
    /\ edits \in 0..MaxEdits /\ runs \in 0..MaxRuns
    /\ pc \in {"idle", "scan", "save", "compare", "report"}
    /\ args \in CommandLines
    /\ todo \subseteq Files
    /\ checking \subseteq Files
    /\ found \in Findings
    /\ scanned \subseteq Files
    /\ hadError \in BOOLEAN /\ hadInternalError \in BOOLEAN
    /\ view \in Views
    /\ snaps \in [Slots -> Findings]
    /\ readable \subseteq Slots
    /\ views \in [Slots -> Views]
    /\ compared \in Slots \union {NoSlot}
    /\ diff \in [new : Findings, resolved : Findings, unchanged : Findings]
    /\ exit \in -1..3

NoDiff == [new |-> NoFindings, resolved |-> NoFindings, unchanged |-> NoFindings]
NoArgs == [paths |-> {}, save |-> NoSlot, baseline |-> NoSlot, connect |-> FALSE,
           newer |-> FALSE, gate |-> FALSE, human |-> FALSE]

Init ==
    /\ code \in [Files -> Contents]
    /\ there \in SUBSET Files
    /\ edits = 0 /\ runs = 0
    /\ pc = "idle"
    /\ args = NoArgs
    /\ todo = {} /\ checking = {}
    /\ found = NoFindings
    /\ scanned = {}
    /\ hadError = FALSE /\ hadInternalError = FALSE
    /\ view = Unseen({}, FALSE)
    /\ snaps = [s \in Slots |-> NoFindings]
    /\ readable = {}
    /\ views = [s \in Slots |-> Unseen({}, FALSE)]
    /\ compared = NoSlot
    /\ diff = NoDiff
    /\ exit = -1

-----------------------------------------------------------------------------
(* The world outside. *)

Changes ==
    /\ edits < MaxEdits
    /\ edits' = edits + 1
    /\ UNCHANGED <<run, pc, scan, result, exit>>

EditCode(f) ==
    /\ Changes
    /\ \E content \in Contents : code' = [code EXCEPT ![f] = content]
    /\ there' = there \union {f}
    /\ UNCHANGED store

RemoveCode(f) ==
    /\ Changes
    /\ there' = there \ {f}
    /\ UNCHANGED <<code, store>>

\* A snapshot is deleted, or is not what save_baseline() wrote any more.
DamageSnapshot(s) ==
    /\ Changes
    /\ readable' = readable \ {s}
    /\ UNCHANGED <<code, there, snaps, views>>

-----------------------------------------------------------------------------
(* The run. *)

Begin(a) ==
    /\ pc = "idle"
    /\ runs < MaxRuns
    /\ runs' = runs + 1
    /\ args' = a
    /\ found' = NoFindings
    /\ scanned' = {} /\ checking' = {}
    /\ hadError' = FALSE /\ hadInternalError' = FALSE
    /\ view' = Unseen(a.paths, a.newer)
    /\ compared' = NoSlot /\ diff' = NoDiff
    /\ UNCHANGED <<world, store>>

OneFile(a) == a.save # NoSlot /\ a.save = a.baseline

Start(a) ==
    /\ ~OneFile(a)
    /\ Begin(a)
    /\ todo' = a.paths
    /\ pc' = "scan"
    /\ exit' = -1

\* --save and --baseline name one file.
Refuse(a) ==
    /\ OneFile(a)
    /\ Begin(a)
    /\ todo' = {}
    /\ exit' = 2
    /\ UNCHANGED pc

Take(f) ==
    /\ pc = "scan" /\ checking = {}
    /\ f \in todo
    /\ todo' = todo \ {f}
    /\ UNCHANGED <<world, run, pc, store, result, exit>>

\* Not there, not readable, or a directory with nothing to scan.
SkipFile(f) ==
    /\ Take(f)
    /\ f \notin there
    /\ hadError' = TRUE
    /\ UNCHANGED <<checking, found, scanned, hadInternalError, view>>

\* Something outside any single detector fails.
CrashFile(f) ==
    /\ Take(f)
    /\ f \in there
    /\ hadInternalError' = TRUE
    /\ UNCHANGED <<checking, found, scanned, hadError, view>>

FindingsIn(f, crashed) ==
    [k \in Kinds |-> IF k \in Static \ crashed THEN code[f][k] ELSE 0]

\* --check-connect-by: the file has a CONNECT BY for ora2pg to convert.
HasConnectBy(f) == \E k \in ConnectBy : code[f][k] > 0

\* The detectors run one by one; the findings of those that crash are lost.
\* The search for unchecked statements may crash too, which loses none.
ScanFile(f, crashed) ==
    /\ Take(f)
    /\ f \in there
    /\ found' = [found EXCEPT ![f] = FindingsIn(f, crashed)]
    /\ scanned' = scanned \union {f}
    /\ hadInternalError' \in {hadInternalError \/ crashed # {}, TRUE}
    /\ checking' = IF args.connect /\ HasConnectBy(f) THEN {f} ELSE {}
    /\ view' = [view EXCEPT !.held[f] = code[f],
                            !.files = IF crashed = {} THEN @ \union {f} ELSE @]
    /\ UNCHANGED hadError

\* ora2pg reads the file again, for itself.
CheckConnectBy(f) ==
    /\ pc = "scan" /\ checking = {f}
    /\ f \in there
    /\ found' = [found EXCEPT ![f] = [k \in Kinds |-> IF k \in ConnectBy THEN code[f][k] ELSE @[k]]]
    /\ checking' = {}
    /\ UNCHANGED <<world, run, pc, todo, scanned, hadError, hadInternalError, view, store, result,
                   exit>>

\* No ora2pg, or ora2pg fails: a warning.
CheckFails(f) ==
    /\ pc = "scan" /\ checking = {f}
    /\ checking' = {}
    /\ UNCHANGED <<world, run, pc, todo, found, scanned, hadError, hadInternalError, view, store,
                   result, exit>>

ForVersion(bag, newer) ==
    [f \in Files |-> [k \in Kinds |-> IF newer /\ k \in Outdated THEN 0 ELSE bag[f][k]]]

ScanEnds ==
    /\ pc = "scan" /\ todo = {} /\ checking = {}
    /\ found' = ForVersion(found, args.newer)
    /\ pc' = "save"
    /\ UNCHANGED <<world, run, todo, checking, scanned, hadError, hadInternalError, view, store,
                   result, exit>>

Stop(code_) ==
    /\ pc' = "idle"
    /\ exit' = code_
    /\ UNCHANGED <<world, run, scan, store, result>>

Nothing == scanned = {} /\ (hadError \/ hadInternalError) /\ args.human

NothingScanned ==
    /\ pc = "save" /\ Nothing
    /\ Stop(IF hadInternalError /\ ~hadError THEN 3 ELSE 2)

\* Mutant of Partial: a crash does not make the scan a partial one.
PartialIfSkipped == hadError

\* Part of what was asked for is not in the findings.
Partial == hadError \/ hadInternalError

\* Nothing to save, or save_baseline_skipped_partial_scan.
SaveNothing ==
    /\ pc = "save" /\ ~Nothing
    /\ args.save = NoSlot \/ Partial
    /\ pc' = "compare"
    /\ UNCHANGED <<world, run, scan, store, result, exit>>

Save ==
    /\ pc = "save" /\ ~Nothing
    /\ args.save # NoSlot /\ ~Partial
    /\ snaps' = [snaps EXCEPT ![args.save] = found]
    /\ views' = [views EXCEPT ![args.save] = view]
    /\ readable' = readable \union {args.save}
    /\ pc' = "compare"
    /\ UNCHANGED <<world, run, scan, result, exit>>

SaveFails ==
    /\ pc = "save" /\ ~Nothing
    /\ args.save # NoSlot /\ ~Partial
    /\ Stop(2)

CompareNothing ==
    /\ pc = "compare"
    /\ args.baseline = NoSlot
    /\ pc' = "report"
    /\ UNCHANGED <<world, run, scan, store, result, exit>>

\* Mutants of Matched: a group that is there again is unchanged as a whole, or
\* is matched once.
MatchedAsWhole(then, now) == IF then > 0 /\ now > 0 THEN now ELSE 0
MatchedOnce(then, now) == IF then > 0 /\ now > 0 THEN 1 ELSE 0

\* diff_against_baseline(), for a group that was there `then` times and is
\* there `now` times.
Matched(then, now) == IF then < now THEN then ELSE now

DiffOf(then, now) ==
    LET unchanged == [f \in Files |-> [k \in Kinds |-> Matched(then[f][k], now[f][k])]] IN
    [new |-> [f \in Files |-> [k \in Kinds |-> now[f][k] - unchanged[f][k]]],
     resolved |-> [f \in Files |-> [k \in Kinds |-> then[f][k] - unchanged[f][k]]],
     unchanged |-> unchanged]

Compare ==
    /\ pc = "compare"
    /\ args.baseline \in readable
    /\ diff' = DiffOf(snaps[args.baseline], found)
    /\ compared' = args.baseline
    /\ pc' = "report"
    /\ UNCHANGED <<world, run, scan, store, exit>>

\* BaselineLoadError.
CompareFails ==
    /\ pc = "compare"
    /\ args.baseline # NoSlot /\ args.baseline \notin readable
    /\ Stop(2)

\* Mutant of ExitCode: the gate comes before what was skipped.
ExitCodeGateFirst ==
    IF hadInternalError THEN 3
    ELSE IF args.gate /\ \E f \in Files, k \in Gating : found[f][k] > 0 THEN 1
    ELSE IF hadError THEN 2 ELSE 0

ExitCode ==
    IF hadInternalError THEN 3
    ELSE IF hadError THEN 2
    ELSE IF args.gate /\ \E f \in Files, k \in Gating : found[f][k] > 0 THEN 1 ELSE 0

Report == pc = "report" /\ Stop(ExitCode)

\* The report cannot be written.
ReportFails == pc = "report" /\ Stop(2)

\* Ctrl-C, a closed pipe, a kill: no code of the scan's own.
Die ==
    /\ pc # "idle"
    /\ pc' = "idle"
    /\ UNCHANGED <<world, run, scan, store, result, exit>>

\* Nobody has anything left to do.
Rest == pc = "idle" /\ UNCHANGED vars

Next ==
    \/ \E f \in Files : EditCode(f) \/ RemoveCode(f)
    \/ \E s \in Slots : DamageSnapshot(s)
    \/ \E a \in Args : Start(a) \/ Refuse(a)
    \/ \E f \in Files : SkipFile(f) \/ CrashFile(f) \/ CheckConnectBy(f) \/ CheckFails(f)
    \/ \E f \in Files, crashed \in SUBSET Static : ScanFile(f, crashed)
    \/ ScanEnds \/ NothingScanned
    \/ SaveNothing \/ Save \/ SaveFails
    \/ CompareNothing \/ Compare \/ CompareFails
    \/ Report \/ ReportFails \/ Die \/ Rest

Spec == Init /\ [][Next]_vars

-----------------------------------------------------------------------------
(* Properties.  What a run that looked at v should have found of kind k in f. *)

Truth(v, f, k) ==
    IF f \in v.files /\ ~(v.newer /\ k \in Outdated) THEN v.held[f][k] ELSE 0

\* "Ground truth for the schema": a snapshot that can be loaded comes from a
\* run that went through every file it was asked to, and holds every finding
\* the detectors have in them and no other, whatever was skipped, crashed or
\* edited meanwhile and whichever runs came after (--save).
SnapshotIsTruth ==
    \A s \in readable :
        /\ views[s].files = views[s].asked
        /\ \A f \in Files, k \in Static : snaps[s][f][k] = Truth(views[s], f, k)

\* Exit codes 0 and 1 are results: every file asked for was read and gone
\* through by every detector; with --fail-on 1 means that one of them held a
\* finding at the threshold, and 0 that none did (--check-connect-by aside,
\* which may warn that it was not done).
GateIsHonest ==
    exit \in {0, 1} =>
        /\ view.files = args.paths
        /\ exit = 0 /\ args.gate => \A f \in args.paths, k \in Gating \ ConnectBy : Truth(view, f, k) = 0
        /\ exit = 1 => /\ args.gate
                       /\ \/ \E f \in args.paths, k \in Gating \ ConnectBy : Truth(view, f, k) > 0
                          \/ args.connect /\ Gating \intersect ConnectBy # {}

\* NEW, RESOLVED and UNCHANGED of a complete run, group by group, account for
\* what its files hold and what the files of the baseline's run held, and no
\* group has both new and resolved findings (diff_against_baseline).
DiffAddsUp ==
    compared # NoSlot /\ exit \in {0, 1} =>
        \A f \in Files, k \in Static :
            /\ diff.new[f][k] + diff.unchanged[f][k] = Truth(view, f, k)
            /\ diff.resolved[f][k] + diff.unchanged[f][k] = Truth(views[compared], f, k)
            /\ diff.new[f][k] = 0 \/ diff.resolved[f][k] = 0

\* cli.py:1457-1459: "A snapshot missing some of what was asked to be scanned
\* ... isn't "ground truth for the schema"": what --check-connect-by was asked
\* to find is in the snapshot too.
SnapshotHasConnectBy ==
    (\E s \in readable : s = args.save) /\ args.connect /\ exit \in {0, 1} /\ edits = 0 =>
        \A f \in args.paths, k \in ConnectBy : snaps[args.save][f][k] = Truth(view, f, k)

\* baseline.py:22-24, 170-171: of the findings of a group it is known "only how
\* many were" fixed, and the counts "are always correct": the same files, which
\* nobody has touched, have no resolved findings.
ResolvedWereFixed ==
    /\ compared # NoSlot /\ edits = 0
    /\ views[compared].asked = args.paths /\ views[compared].newer = args.newer
    => \A f \in Files, k \in Static : diff.resolved[f][k] = 0

\* cli.py:1566-1569, of exit code 3: it takes priority, and a crash must stay
\* distinguishable from "some input was skipped" (2).
CrashExitsThree == hadInternalError /\ exit # -1 => exit = 3
=============================================================================
