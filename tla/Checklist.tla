------------------------------ MODULE Checklist ------------------------------
(***************************************************************************)
(* The migration checklist (`-f checklist -o MIGRATION.md`): a Markdown    *)
(* task list that is regenerated for weeks while people tick its boxes and *)
(* change the code it describes.                                           *)
(*                                                                         *)
(* Three parties act.  Developers change the source (`present`), people    *)
(* tick and untick boxes in the file (`list`), and the tool regenerates    *)
(* the file in the three steps of cli._main: scan the files, read the      *)
(* previous checklist, replace it.  Edits and ticks fall between the       *)
(* steps, and a run may fail or be killed between any two of them.         *)
(***************************************************************************)
EXTENDS ChecklistItems, Naturals

CONSTANTS
    Fragile,     \* detectors that may raise on a file (cli.py isolates them)
    Scans,       \* the sets of files a run may be given
    Views,       \* the sets of keys --severity and --object may leave in
    MaxChanges   \* bound on the changes made to the code and to the ticks

ASSUME RunAssumption ==
    /\ Fragile \subseteq Detectors
    /\ Scans \subseteq SUBSET Files
    /\ Views \subseteq SUBSET ItemKey
    /\ MaxChanges \in Nat

\* Finitely many names and files ever occur in the source.
ASSUME FiniteAssumption == IsFiniteSet(ItemKey)

VARIABLES
    present,   \* the constructs the source really contains
    disk,      \* what is at --output: "none", "foreign" or "ours"
    list,      \* the boxes of the checklist on disk, NoItems unless "ours"
    run,       \* the run in progress
    byPerson,  \* observability: the listed boxes whose tick a person made
    changes    \* changes so far, at most MaxChanges

vars == <<present, disk, list, run, byPerson, changes>>

Idle == [pc |-> "idle", found |-> {}, scanned |-> {}, truth |-> {}, prev |-> NoItems,
         by |-> {}]

TypeOK ==
    /\ present \subseteq ItemKey
    /\ disk \in {"none", "foreign", "ours"}
    /\ list \in Checklists
    /\ run \in [pc : {"idle", "scanned", "read"}, found : SUBSET ItemKey,
                scanned : SUBSET Files, truth : SUBSET ItemKey, prev : Checklists,
                by : SUBSET ItemKey]
    /\ byPerson \subseteq ItemKey
    /\ changes \in 0..MaxChanges

Init ==
    /\ present \in SUBSET ItemKey
    /\ disk \in {"none", "foreign"}
    /\ list = NoItems
    /\ run = Idle
    /\ byPerson = {}
    /\ changes = 0

-----------------------------------------------------------------------------
(* Developers and people. *)

Change == changes < MaxChanges /\ changes' = changes + 1

\* A construct is fixed, introduced, or (both) moved to another file or package.
EditCode ==
    /\ Change
    /\ \E k, n \in ItemKey :
         present' \in {present \ {k}, present \union {n}, (present \ {k}) \union {n}} \ {present}
    /\ UNCHANGED <<disk, list, run, byPerson>>

TickBox(k) ==
    /\ Change
    /\ list[k] = "open"
    /\ list' = [list EXCEPT ![k] = "ticked"]
    /\ byPerson' = byPerson \union {k}
    /\ UNCHANGED <<present, disk, run>>

UntickBox(k) ==
    /\ Change
    /\ list[k] = "ticked"
    /\ list' = [list EXCEPT ![k] = "open"]
    /\ byPerson' = byPerson \ {k}
    /\ UNCHANGED <<present, disk, run>>

-----------------------------------------------------------------------------
(* The run. *)

\* The scan loop: the findings of the files that could be read, without
\* those of a detector that raised and those the filters hide.  The file
\* of a detector that raised counts as scanned all the same.
ScanFiles(files) ==
    /\ run.pc = "idle"
    /\ \E crashed \in SUBSET Fragile, view \in Views, scanned \in SUBSET files :
         run' = [pc      |-> "scanned",
                 found   |-> {k \in present \intersect view :
                                 k.file \in scanned /\ k.detector \notin crashed},
                 scanned |-> scanned,
                 truth   |-> present,
                 prev    |-> NoItems,
                 by      |-> {}]
    /\ UNCHANGED <<present, disk, list, byPerson, changes>>

ReadPrevious ==
    /\ run.pc = "scanned"
    /\ disk # "foreign"
    /\ run' = [run EXCEPT !.pc = "read", !.prev = list, !.by = byPerson]
    /\ UNCHANGED <<present, disk, list, byPerson, changes>>

\* ChecklistError: the file is not ours, exit code 2.
RefuseForeign ==
    /\ run.pc = "scanned"
    /\ disk = "foreign"
    /\ run' = Idle
    /\ UNCHANGED <<present, disk, list, byPerson, changes>>

\* write_checklist() and the atomic replacement of the file.
WriteChecklist ==
    /\ run.pc = "read"
    /\ list' = BuildItems(run.found, run.prev, run.scanned)
    /\ disk' = "ours"
    /\ byPerson' = {k \in Ticked(list') :
          \/ k \in run.by
          \/ \E p \in Moves(run.found, run.prev) : p[1] = k /\ p[2] \in run.by}
    /\ run' = Idle
    /\ UNCHANGED <<present, changes>>

\* An OSError from the write, an interrupt, a kill: nothing was replaced.
RunFails ==
    /\ run.pc # "idle"
    /\ run' = Idle
    /\ UNCHANGED <<present, disk, list, byPerson, changes>>

Next ==
    \/ EditCode
    \/ \E k \in ItemKey : TickBox(k) \/ UntickBox(k)
    \/ \E files \in Scans : ScanFiles(files)
    \/ ReadPrevious
    \/ RefuseForeign
    \/ WriteChecklist
    \/ RunFails

Spec == Init /\ [][Next]_vars

-----------------------------------------------------------------------------
(* Properties.  Those about a write compare what the run read (run.prev)   *)
(* with what it leaves on disk (list').                                    *)

\* "A box someone ticked stays ticked": every tick that was read is
\* written back, on its own box or, when that box is handed over, on a new
\* box of the same object or routine (checklist.py, build_items).
TicksCarried ==
    \A k \in Ticked(run.prev) :
        \/ k \in Ticked(list')
        \/ /\ k \notin Listed(list')
           /\ \E n \in Ticked(list') \ Listed(run.prev) : SameItem(n, k)
NoTickLost == [][WriteChecklist => TicksCarried]_vars

\* Two items never become one and none is dropped: a regeneration has at
\* least as many boxes, and as many ticks, as it read, and a box for
\* everything it found (_moves pairs items one to one).
NoFewerBoxes ==
    /\ Cardinality(Listed(list')) >= Cardinality(Listed(run.prev))
    /\ Cardinality(Ticked(list')) >= Cardinality(Ticked(run.prev))
    /\ run.found \subseteq Listed(list')
BoxesNeverMerge == [][WriteChecklist => NoFewerBoxes]_vars

\* "Scanning a subset never marks the rest done" (checklist.py): an open box
\* of a file that was not scanned is still open afterwards, or was handed
\* over to a box that is open.
RestStaysOpen ==
    \A k \in Listed(run.prev) \ Ticked(run.prev) : k.file \notin run.scanned =>
        \/ k \in Listed(list') \ Ticked(list')
        \/ /\ k \notin Listed(list')
           /\ \E n \in Listed(list') \ Ticked(list') : n \in run.found /\ SameItem(n, k)
SubsetLeavesRestOpen == [][WriteChecklist => RestStaysOpen]_vars

\* A box the tool ticks by itself says the construct is gone, and it is:
\* when the run started, the source did not contain it (build_items, state
\* "gone").
AutoTicked == (Ticked(list') \intersect Listed(run.prev)) \ Ticked(run.prev)
GoneMeansGone == [][WriteChecklist => AutoTicked \intersect run.truth = {}]_vars

\* A run that saw the whole source leaves nothing open that is not in it
\* and nothing in it without a box (cli._main, fmt == "checklist").
SawEverything == run.scanned = Files /\ run.found = run.truth
ListMatchesSource ==
    /\ Listed(list') \ Ticked(list') \subseteq run.truth
    /\ run.truth \subseteq Listed(list')
FullScanExact == [][WriteChecklist /\ SawEverything => ListMatchesSource]_vars

\* Regenerating again with the same findings changes nothing (build_items
\* and _moves; a --migrate rerun on unchanged sources relies on it).
Idempotent ==
    run.pc = "read" =>
        LET once == BuildItems(run.found, run.prev, run.scanned)
        IN  BuildItems(run.found, once, run.scanned) = once

\* checklist.py:13-14, README.md: "an item whose file this run did not scan
\* keeps whatever state it had".
UnscannedKeepsState ==
    [][WriteChecklist =>
        \A k \in Listed(run.prev) : k.file \notin run.scanned => list'[k] = run.prev[k]]_vars

\* checklist.py:10-12: a box is ticked because someone ticked it or because
\* its construct is gone; so the tick of a construct that was just found is
\* a person's.
FoundTicksArePersonal ==
    [][WriteChecklist => Ticked(list') \intersect run.found \subseteq byPerson']_vars
=============================================================================
