------------------------------ MODULE MigrateRun ------------------------------
(***************************************************************************)
(* `--migrate OUT_DIR`: scan, prepare, convert, fix and load into one      *)
(* directory, again and again, while people tick the checklist in it.      *)
(*                                                                         *)
(* The state is OUT_DIR, file by file, and the run in progress.  What a    *)
(* run generates carries the run's number, so that a file left over from   *)
(* an earlier run can be told from a new one.  A run may fail at any step  *)
(* that can raise and may be killed between (and inside) any two writes.   *)
(***************************************************************************)
EXTENDS ChecklistItems, Naturals

CONSTANTS
    BaseName,    \* [Files -> ...], path.name of each source file
    Positions,   \* positions in CONVERT_TYPES of the object types ora2pg runs for
    Contents,    \* what ora2pg's output for a type can be, but for its boilerplate
    MaxRuns,     \* bound on the runs
    MaxChanges   \* bound on the changes people make

ASSUME MigrateAssumption ==
    /\ DOMAIN BaseName = Files
    /\ Positions \subseteq Nat \ {0}
    /\ MaxRuns \in Nat
    /\ MaxChanges \in Nat

VARIABLES
    present,    \* the constructs the source really contains
    dir,        \* OUT_DIR: "missing", "there", or "alien", with someone's files in it
    marker,     \* .ora2pg-gap-report-migrate is there
    report,     \* report.html: the run it is of (0: none), whole or torn, with its load card
    disk,       \* MIGRATION.md: "none", "foreign", "torn" or "ours"
    list,       \* its boxes, NoItems unless "ours"
    subdirs,    \* which of prepared/ and converted/ exist
    prepared,   \* prepared/: the copies, by name, and the source file each is of
    converted,  \* converted/: ora2pg's outputs, by position
    json,       \* load-check.json: the run whose load it records, 0 if there is none
    txt,        \* load-check.txt, likewise
    run,        \* the run in progress
    runs,       \* runs so far, at most MaxRuns
    changes     \* changes so far, at most MaxChanges

vars == <<present, dir, marker, report, disk, list, subdirs, prepared, converted,
          json, txt, run, runs, changes>>
owner == <<dir, marker>>
lists == <<disk, list>>
trees == <<subdirs, prepared, converted>>
loads == <<json, txt>>
world == <<present, runs, changes>>
outDir == <<owner, report, lists, trees, loads>>

Idle == [pc |-> "idle", found |-> {}, prev |-> NoItems, start |-> {}, at |-> 0,
         seen |-> {}, todo |-> {}, ok |-> FALSE]

Copies == [name : {BaseName[f] : f \in Files}, of : Files]
Outputs == [at : Positions, content : Contents, run : 1..MaxRuns, fixed : BOOLEAN]

Loading == {"load", "card", "json", "txt"}
Steps == {"idle", "claim", "mark", "clear", "scan", "report", "writing", "remember", "list", "torn",
          "prepare", "copy", "mkdir", "convert", "fix", "converted"} \union Loading

TypeOK ==
    /\ present \subseteq ItemKey
    /\ dir \in {"missing", "there", "alien"}
    /\ marker \in BOOLEAN
    /\ report \in [run : 0..MaxRuns, whole : BOOLEAN, card : BOOLEAN]
    /\ disk \in {"none", "foreign", "torn", "ours"}
    /\ list \in Checklists
    /\ subdirs \subseteq {"prepared", "converted"}
    /\ prepared \subseteq Copies
    /\ converted \subseteq Outputs
    /\ json \in 0..MaxRuns
    /\ txt \in 0..MaxRuns
    /\ run \in [pc : Steps, found : SUBSET ItemKey, prev : Checklists, start : SUBSET ItemKey,
                at : Nat, seen : SUBSET Contents, todo : SUBSET Positions, ok : BOOLEAN]
    /\ runs \in 0..MaxRuns
    /\ changes \in 0..MaxChanges

Init ==
    /\ present \in SUBSET ItemKey
    /\ dir \in {"missing", "there", "alien"}
    /\ marker = FALSE
    /\ report = [run |-> 0, whole |-> TRUE, card |-> FALSE]
    /\ disk = "none"
    /\ list = NoItems
    /\ subdirs = {}
    /\ prepared = {}
    /\ converted = {}
    /\ json = 0
    /\ txt = 0
    /\ run = Idle
    /\ runs = 0
    /\ changes = 0

-----------------------------------------------------------------------------
(* People. *)

Change == changes < MaxChanges /\ changes' = changes + 1

EditCode ==
    /\ Change
    /\ present' \in (SUBSET ItemKey) \ {present}
    /\ UNCHANGED <<outDir, run, runs>>

TickBox(k) ==
    /\ Change
    /\ list[k] = "open"
    /\ list' = [list EXCEPT ![k] = "ticked"]
    /\ UNCHANGED <<present, owner, report, disk, trees, loads, run, runs>>

\* A box unticked during a run is no longer one the run has to keep.
UntickBox(k) ==
    /\ Change
    /\ list[k] = "ticked"
    /\ list' = [list EXCEPT ![k] = "open"]
    /\ run' = [run EXCEPT !.start = run.start \ {k}]
    /\ UNCHANGED <<present, owner, report, disk, trees, loads, runs>>

\* Somebody keeps notes of their own in MIGRATION.md.
ReplaceList ==
    /\ Change
    /\ marker
    /\ disk # "foreign"
    /\ disk' = "foreign"
    /\ list' = NoItems
    /\ run' = [run EXCEPT !.start = {}]
    /\ UNCHANGED <<present, owner, report, trees, loads, runs>>

-----------------------------------------------------------------------------
(* The run: steps 1 to 4. *)

Goto(from, to) == run.pc = from /\ run' = [run EXCEPT !.pc = to]

Start ==
    /\ run.pc = "idle"
    /\ runs < MaxRuns
    /\ runs' = runs + 1
    /\ run' = [Idle EXCEPT !.pc = "claim", !.start = Ticked(list)]
    /\ UNCHANGED <<present, outDir, changes>>

Empty == disk = "none" /\ report.run = 0 /\ subdirs = {}

\* Mutant of Refused: the marker is not looked at.
RefusedUnlessEmpty == dir # "missing" /\ (dir = "alien" \/ ~Empty)

\* A directory with something in it and no marker.
Refused == dir # "missing" /\ (dir = "alien" \/ ~Empty) /\ ~marker

Refuse ==
    /\ run.pc = "claim"
    /\ Refused
    /\ run' = Idle
    /\ UNCHANGED <<world, outDir>>

MakeOutDir ==
    /\ ~Refused
    /\ Goto("claim", "mark")
    /\ dir' = IF dir = "missing" THEN "there" ELSE dir
    /\ UNCHANGED <<world, marker, report, lists, trees, loads>>

Mark ==
    /\ Goto("mark", "clear")
    /\ marker' = TRUE
    /\ UNCHANGED <<world, dir, report, lists, trees, loads>>

\* rmtree(ignore_errors=True) may leave files behind.
Clear ==
    /\ Goto("clear", "scan")
    /\ subdirs' \in SUBSET subdirs
    /\ prepared' = IF "prepared" \in subdirs' THEN prepared ELSE {}
    /\ converted' = IF "converted" \in subdirs' THEN converted ELSE {}
    /\ UNCHANGED <<world, owner, report, lists, loads>>

Scan ==
    /\ run.pc = "scan"
    /\ run' = [run EXCEPT !.pc = "report", !.found = present]
    /\ UNCHANGED <<world, outDir>>

\* open(..., "w"): the file is truncated first.
OpenReport ==
    /\ Goto("report", "writing")
    /\ report' = [run |-> runs, whole |-> FALSE, card |-> FALSE]
    /\ UNCHANGED <<world, owner, lists, trees, loads>>

WriteReport ==
    /\ Goto("writing", "remember")
    /\ report' = [report EXCEPT !.whole = TRUE]
    /\ UNCHANGED <<world, owner, lists, trees, loads>>

\* Mutant of ReadPrevious: the previous checklist is not read.
ReadNothing ==
    /\ Goto("remember", "list")
    /\ UNCHANGED <<world, outDir>>

\* A file that is not a checklist counts as none.
ReadPrevious ==
    /\ run.pc = "remember"
    /\ run' = [run EXCEPT !.pc = "list", !.prev = list]
    /\ UNCHANGED <<world, outDir>>

\* write_text(): the file is truncated first.
OpenChecklist ==
    /\ Goto("list", "torn")
    /\ disk' = "torn"
    /\ list' = NoItems
    /\ UNCHANGED <<world, owner, report, trees, loads>>

WriteChecklist ==
    /\ Goto("torn", "prepare")
    /\ disk' = "ours"
    /\ list' = BuildItems(run.found, run.prev, Files)
    /\ UNCHANGED <<world, owner, report, trees, loads>>

\* mkdir() without exist_ok: FileExistsError where Clear left the directory.
MakePrepared ==
    /\ "prepared" \notin subdirs
    /\ Goto("prepare", "copy")
    /\ subdirs' = subdirs \union {"prepared"}
    /\ UNCHANGED <<world, owner, report, lists, prepared, converted, loads>>

\* The copies, under the files' own names, of which two may be the same.
Prepare ==
    /\ Goto("copy", "mkdir")
    /\ prepared' \in {p \in SUBSET Copies :
          /\ \A c \in p : BaseName[c.of] = c.name
          /\ \A f \in Files : \E c \in p : c.name = BaseName[f]
          /\ \A c, d \in p : c.name = d.name => c = d}
    /\ UNCHANGED <<world, owner, report, lists, subdirs, converted, loads>>

\* Mutant of MakeConverted: mkdir(exist_ok=True).
MakeConvertedAnyway ==
    /\ Goto("mkdir", "convert")
    /\ subdirs' = subdirs \union {"converted"}
    /\ UNCHANGED <<world, owner, report, lists, prepared, converted, loads>>

MakeConverted ==
    /\ "converted" \notin subdirs
    /\ Goto("mkdir", "convert")
    /\ subdirs' = subdirs \union {"converted"}
    /\ UNCHANGED <<world, owner, report, lists, prepared, converted, loads>>

\* The next type's output, dropped when it holds nothing or repeats an
\* earlier type's.
NextType == {p \in Positions : p > run.at /\ \A q \in Positions : q > run.at => p <= q}

ConvertNothing ==
    /\ run.pc = "convert"
    /\ \E p \in NextType : run' = [run EXCEPT !.at = p]
    /\ UNCHANGED <<world, outDir>>

Convert(content) ==
    /\ run.pc = "convert"
    /\ content \notin run.seen
    /\ \E p \in NextType :
         /\ run' = [run EXCEPT !.at = p, !.seen = run.seen \union {content},
                               !.todo = run.todo \union {p}]
         /\ converted' = {c \in converted : c.at # p} \union
               {[at |-> p, content |-> content, run |-> runs, fixed |-> FALSE]}
    /\ UNCHANGED <<world, owner, report, lists, subdirs, prepared, loads>>

AllConverted ==
    /\ NextType = {}
    /\ Goto("convert", "fix")
    /\ UNCHANGED <<world, outDir>>

\* --fix's repairs and the source repairs, file by file, in place.
Fix ==
    /\ run.pc = "fix"
    /\ \E p \in run.todo :
         /\ \A q \in run.todo : p <= q
         /\ run' = [run EXCEPT !.todo = run.todo \ {p}]
         /\ converted' = {[c EXCEPT !.fixed = c.fixed \/ c.at = p] : c \in converted}
    /\ UNCHANGED <<world, owner, report, lists, subdirs, prepared, loads>>

AllFixed ==
    /\ run.todo = {}
    /\ run.pc = "fix"
    /\ run' = [run EXCEPT !.pc = "converted", !.ok = TRUE]
    /\ UNCHANGED <<world, outDir>>

-----------------------------------------------------------------------------
(* Step 5, and the end. *)

\* No target, or nothing came out of ora2pg.
Finish ==
    /\ run.pc \in {"converted", "txt"}
    /\ run' = [Idle EXCEPT !.ok = TRUE]
    /\ UNCHANGED <<world, outDir>>

Load ==
    /\ converted # {}
    /\ Goto("converted", "load")
    /\ UNCHANGED <<world, outDir>>

RecordReport ==
    /\ Goto("load", "card")
    /\ report' = [run |-> runs, whole |-> TRUE, card |-> TRUE]
    /\ UNCHANGED <<world, owner, lists, trees, loads>>

\* Mutant of RecordJson: the files are written in the other order.
RecordTxtFirst ==
    /\ Goto("card", "json")
    /\ txt' = runs
    /\ UNCHANGED <<world, owner, report, lists, trees, json>>

RecordJson ==
    /\ Goto("card", "json")
    /\ json' = runs
    /\ UNCHANGED <<world, owner, report, lists, trees, txt>>

RecordTxt ==
    /\ Goto("json", "txt")
    /\ txt' = runs
    /\ UNCHANGED <<world, owner, report, lists, trees, json>>

\* ora2pg or a write fails, PostgreSQL cannot be reached, FileExistsError;
\* or the process is interrupted or killed.
RunFails ==
    /\ run.pc # "idle"
    /\ run' = Idle
    /\ UNCHANGED <<world, outDir>>

\* The bounds are reached and nobody runs the tool any more.
Rest ==
    /\ run.pc = "idle" /\ runs = MaxRuns /\ changes = MaxChanges
    /\ UNCHANGED vars

Next ==
    \/ Rest
    \/ EditCode \/ ReplaceList \/ \E k \in ItemKey : TickBox(k) \/ UntickBox(k)
    \/ Start \/ Refuse \/ MakeOutDir \/ Mark \/ Clear
    \/ Scan \/ OpenReport \/ WriteReport \/ ReadPrevious \/ OpenChecklist \/ WriteChecklist
    \/ MakePrepared \/ Prepare \/ MakeConverted
    \/ ConvertNothing \/ (\E content \in Contents : Convert(content)) \/ AllConverted
    \/ Fix \/ AllFixed
    \/ Finish \/ Load \/ RecordReport \/ RecordJson \/ RecordTxt
    \/ RunFails

Spec == Init /\ [][Next]_vars

-----------------------------------------------------------------------------
(* Properties. *)

\* OUT_DIR is the tool's or untouched: nothing is generated in a directory
\* with someone's files, and whatever a killed run leaves in a directory of
\* the tool's own, the next run is not refused (prepare_out_dir).
Ownership ==
    /\ dir = "alien" => ~marker /\ Empty
    /\ dir # "alien" => ~Refused

\* A run that got through steps 1 to 4 leaves in converted/ what it converted
\* itself: every output once, in a file of this run, with the repairs, and
\* nothing left over from an earlier run (run_migration).
ConvertedIsThisRun ==
    run.ok /\ run.pc # "idle" =>
        /\ \A c \in converted : c.run = runs /\ c.fixed
        /\ \A c, d \in converted : c.content = d.content \/ c.at = d.at => c = d
        /\ {c.content : c \in converted} = run.seen

\* "Keeps the checklist's ticks": a box that was ticked when the run started
\* and that nobody has unticked is ticked in the checklist the run writes,
\* or handed over to a ticked box of the same object or routine.
TicksKept ==
    [][WriteChecklist => \A k \in run.start :
          \/ k \in Ticked(list')
          \/ /\ k \notin Listed(list')
             /\ \E n \in Ticked(list') : SameItem(n, k)]_vars

\* Whoever finds load-check.txt of the last run finds its load-check.json and
\* its report with the load card: the txt is written last (load_and_record).
LoadFilesAgree ==
    txt = runs /\ runs > 0 => json = runs /\ report = [run |-> runs, whole |-> TRUE, card |-> TRUE]

\* test_atomic_write.py:1-3, every file the tool writes: "a reader sees the
\* old contents or the new ones, never a truncated file".
NeverTorn == disk # "torn" /\ report.whole

\* README.md: "An existing file that is not a checklist this tool wrote is
\* never overwritten".
ForeignListKept == [][disk = "foreign" => disk' = "foreign"]_vars

\* README.md: "running again into the same out/ replaces the generated files",
\* load-check.txt and load-check.json among them.
LoadFilesAreCurrent == run.pc = "idle" /\ run.ok => {json, txt} \subseteq {0, runs}

\* README.md: prepared/ is "a copy of the source after --prepare".
PreparedHasEverySource ==
    run.pc \in {"mkdir", "convert", "fix", "converted"} =>
        \A f \in Files : \E c \in prepared : c.of = f
=============================================================================
