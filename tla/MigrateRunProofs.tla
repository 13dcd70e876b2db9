--------------------------- MODULE MigrateRunProofs ---------------------------
(***************************************************************************)
(* Theorems about MigrateRun, for any source, any types and outputs of     *)
(* ora2pg and any number of runs and changes, killed or failing anywhere.  *)
(***************************************************************************)
EXTENDS MigrateRun, ChecklistItemsProofs

Run == [pc : Steps, found : SUBSET ItemKey, prev : Checklists, start : SUBSET ItemKey,
        at : Nat, seen : SUBSET Contents, todo : SUBSET Positions, ok : BOOLEAN]

LEMMA IdleIsRun == Idle \in Run
  BY DEF Idle, Run, Steps, Loading, NoItems, Checklists

\* Type correctness, the part about the run.
LEMMA RunType ==
    ASSUME TypeOK, [Next]_vars
    PROVE  run' \in Run
<1> USE DEF TypeOK, Run, Steps, Loading
<1>1. CASE EditCode \/ Rest \/ (\E k \in ItemKey : TickBox(k)) \/ UNCHANGED vars
  BY <1>1 DEF EditCode, Rest, TickBox, vars
<1>2. ASSUME NEW k \in ItemKey, UntickBox(k) PROVE run' \in Run
  BY <1>2 DEF UntickBox
<1>3. CASE ReplaceList
  BY <1>3 DEF ReplaceList
<1>4. CASE Start
  <2>1. Ticked(list) \subseteq ItemKey
    BY DEF Ticked
  <2> QED BY <1>4, <2>1, IdleIsRun DEF Start
<1>5. CASE Refuse \/ Finish \/ RunFails
  BY <1>5, IdleIsRun DEF Refuse, Finish, RunFails
<1>6. CASE MakeOutDir \/ Mark \/ Clear \/ OpenReport \/ WriteReport \/ OpenChecklist
  BY <1>6 DEF MakeOutDir, Mark, Clear, OpenReport, WriteReport, OpenChecklist, Goto
<1>7. CASE WriteChecklist \/ MakePrepared \/ Prepare \/ MakeConverted \/ AllConverted
  BY <1>7 DEF WriteChecklist, MakePrepared, Prepare, MakeConverted, AllConverted, Goto
<1>8. CASE Scan \/ ReadPrevious \/ AllFixed
  <2>1. CASE Scan
    BY <2>1 DEF Scan
  <2>2. CASE ReadPrevious
    BY <2>2 DEF ReadPrevious
  <2>3. CASE AllFixed
    BY <2>3 DEF AllFixed
  <2> QED BY <1>8, <2>1, <2>2, <2>3
<1>9. CASE ConvertNothing
  BY <1>9, MigrateAssumption DEF ConvertNothing, NextType
<1>10. ASSUME NEW content \in Contents, Convert(content) PROVE run' \in Run
  <2>1. PICK p \in NextType :
            run' = [run EXCEPT !.at = p, !.seen = run.seen \union {content},
                               !.todo = run.todo \union {p}]
    BY <1>10 DEF Convert
  <2>2. p \in Positions /\ p \in Nat
    BY MigrateAssumption DEF NextType
  <2>3. run.seen \union {content} \in SUBSET Contents /\ run.todo \union {p} \in SUBSET Positions
    BY <2>2
  <2> HIDE DEF Steps, Loading
  <2> QED BY <2>1, <2>2, <2>3
<1>11. CASE Fix
  BY <1>11 DEF Fix
<1>12. CASE Load \/ RecordReport \/ RecordJson \/ RecordTxt
  BY <1>12 DEF Load, RecordReport, RecordJson, RecordTxt, Goto
<1> QED
  BY <1>1, <1>2, <1>3, <1>4, <1>5, <1>6, <1>7, <1>8, <1>9, <1>10, <1>11, <1>12 DEF Next

\* The part about the checklist and the people.
LEMMA ListType ==
    ASSUME TypeOK, [Next]_vars
    PROVE  /\ disk' \in {"none", "foreign", "torn", "ours"}
           /\ list' \in Checklists
           /\ present' \subseteq ItemKey
           /\ changes' \in 0..MaxChanges
<1> USE DEF TypeOK
<1>1. NoItems \in Checklists
  BY DEF NoItems, Checklists
<1>2. Change => changes' \in 0..MaxChanges
  BY MigrateAssumption DEF Change
<1>3. CASE EditCode \/ ReplaceList
  BY <1>1, <1>2, <1>3 DEF EditCode, ReplaceList, outDir, lists
<1>4. ASSUME NEW k \in ItemKey, TickBox(k) \/ UntickBox(k) PROVE list' \in Checklists
  BY <1>4 DEF TickBox, UntickBox, Checklists
<1>5. ASSUME NEW k \in ItemKey, TickBox(k) \/ UntickBox(k)
      PROVE  disk' = disk /\ present' = present /\ changes' \in 0..MaxChanges
  BY <1>2, <1>5 DEF TickBox, UntickBox
<1>6. CASE OpenChecklist
  BY <1>1, <1>6 DEF OpenChecklist, world
<1>7. CASE WriteChecklist
  BY <1>7, BuildItemsType DEF WriteChecklist, world
<1>8. CASE \/ Rest \/ Start \/ Refuse \/ MakeOutDir \/ Mark \/ Clear \/ Scan \/ OpenReport
           \/ WriteReport \/ ReadPrevious \/ MakePrepared \/ Prepare \/ MakeConverted
           \/ UNCHANGED vars
  BY <1>8 DEF Rest, Start, Refuse, MakeOutDir, Mark, Clear, Scan, OpenReport, WriteReport,
              ReadPrevious, MakePrepared, Prepare, MakeConverted, vars, world, outDir, lists
<1>9. CASE \/ ConvertNothing \/ (\E content \in Contents : Convert(content)) \/ AllConverted
           \/ Fix \/ AllFixed \/ Finish \/ Load \/ RecordReport \/ RecordJson \/ RecordTxt
           \/ RunFails
  BY <1>9 DEF ConvertNothing, Convert, AllConverted, Fix, AllFixed, Finish, Load, RecordReport,
              RecordJson, RecordTxt, RunFails, world, outDir, lists
<1> QED
  BY <1>3, <1>4, <1>5, <1>6, <1>7, <1>8, <1>9 DEF Next

\* The part about the rest of OUT_DIR; a run in progress has a number.
Started == run.pc # "idle" => runs \in 1..MaxRuns
DirType ==
    /\ dir \in {"missing", "there", "alien"}
    /\ marker \in BOOLEAN
    /\ report \in [run : 0..MaxRuns, whole : BOOLEAN, card : BOOLEAN]
    /\ subdirs \subseteq {"prepared", "converted"}
    /\ prepared \subseteq Copies
    /\ converted \subseteq Outputs
    /\ json \in 0..MaxRuns
    /\ txt \in 0..MaxRuns
    /\ runs \in 0..MaxRuns

LEMMA DirTypeKept ==
    ASSUME TypeOK, Started, [Next]_vars
    PROVE  DirType' /\ Started'
<1> USE DEF TypeOK, DirType, Started
<1>0. MaxRuns \in Nat
  BY MigrateAssumption
<1>1. CASE EditCode \/ ReplaceList \/ Rest \/ Refuse \/ Scan \/ ReadPrevious \/ UNCHANGED vars
  BY <1>1 DEF EditCode, ReplaceList, Rest, Refuse, Scan, ReadPrevious, Idle,
              vars, world, outDir, owner, trees, loads
<1>2. ASSUME NEW k \in ItemKey, TickBox(k) \/ UntickBox(k) PROVE DirType' /\ Started'
  BY <1>2 DEF TickBox, UntickBox, owner, trees, loads
<1>3. CASE Start
  BY <1>0, <1>3 DEF Start, Idle, outDir, owner, trees, loads
<1>4. CASE MakeOutDir \/ Mark \/ OpenChecklist \/ WriteChecklist
  BY <1>4 DEF MakeOutDir, Mark, OpenChecklist, WriteChecklist, Goto, world, owner, trees, loads
<1>5. CASE Clear
  BY <1>5 DEF Clear, Goto, world, owner, loads
<1>6. CASE OpenReport \/ WriteReport \/ RecordReport
  <2>1. runs \in 1..MaxRuns /\ runs' = runs
    BY <1>6 DEF OpenReport, WriteReport, RecordReport, Goto, world
  <2>2. report' \in [run : 0..MaxRuns, whole : BOOLEAN, card : BOOLEAN]
    <3>1. CASE OpenReport
      BY <3>1 DEF OpenReport
    <3>2. CASE WriteReport
      BY <3>2 DEF WriteReport
    <3>3. CASE RecordReport
      BY <3>3 DEF RecordReport
    <3> QED BY <1>6, <3>1, <3>2, <3>3
  <2>3. UNCHANGED <<dir, marker, subdirs, prepared, converted, json, txt>>
    BY <1>6 DEF OpenReport, WriteReport, RecordReport, owner, trees, loads
  <2> QED BY <2>1, <2>2, <2>3
<1>7. CASE MakePrepared \/ MakeConverted \/ Prepare
  BY <1>7 DEF MakePrepared, MakeConverted, Prepare, Goto, world, owner, loads
<1>8. CASE ConvertNothing \/ AllConverted \/ AllFixed \/ Finish \/ Load \/ RunFails
  BY <1>8 DEF ConvertNothing, AllConverted, AllFixed, Finish, Load, RunFails, Goto, Idle,
              world, outDir, owner, trees, loads
<1>9. ASSUME NEW content \in Contents, Convert(content) PROVE DirType' /\ Started'
  <2>1. PICK p \in NextType :
            /\ run' = [run EXCEPT !.at = p, !.seen = run.seen \union {content},
                                  !.todo = run.todo \union {p}]
            /\ converted' = {c \in converted : c.at # p} \union
                   {[at |-> p, content |-> content, run |-> runs, fixed |-> FALSE]}
    BY <1>9 DEF Convert
  <2>2. [at |-> p, content |-> content, run |-> runs, fixed |-> FALSE] \in Outputs
    BY <1>9 DEF Convert, NextType, Outputs
  <2> QED BY <1>9, <2>1, <2>2 DEF Convert, world, owner, loads
<1>10. CASE Fix
  <2>1. PICK p \in run.todo :
            converted' = {[c EXCEPT !.fixed = c.fixed \/ c.at = p] : c \in converted}
    BY <1>10 DEF Fix
  <2>2. ASSUME NEW c \in converted PROVE [c EXCEPT !.fixed = c.fixed \/ c.at = p] \in Outputs
    BY DEF Outputs
  <2> QED BY <1>10, <2>1, <2>2 DEF Fix, world, owner, loads
<1>11. CASE RecordJson \/ RecordTxt
  BY <1>0, <1>11 DEF RecordJson, RecordTxt, Goto, world, owner, trees
<1> QED
  BY <1>1, <1>2, <1>3, <1>4, <1>5, <1>6, <1>7, <1>8, <1>9, <1>10, <1>11 DEF Next

THEOREM TypeCorrect == Spec => [](TypeOK /\ Started)
<1>1. Init => TypeOK /\ Started
  <2>1. 0 \in 0..MaxRuns /\ 0 \in 0..MaxChanges
    BY MigrateAssumption
  <2>2. NoItems \in Checklists
    BY DEF NoItems, Checklists
  <2>3. ASSUME Init PROVE run \in Run /\ run.pc = "idle"
    BY <2>3, IdleIsRun DEF Init, Idle
  <2>4. ASSUME Init PROVE report \in [run : 0..MaxRuns, whole : BOOLEAN, card : BOOLEAN]
    BY <2>1, <2>4 DEF Init
  <2> QED BY <2>1, <2>2, <2>3, <2>4 DEF Init, TypeOK, Started, Run
<1>2. TypeOK /\ Started /\ [Next]_vars => TypeOK' /\ Started'
  BY RunType, ListType, DirTypeKept DEF TypeOK, DirType, Run
<1> QED
  BY <1>1, <1>2, PTL DEF Spec

-----------------------------------------------------------------------------
\* Past the marker the directory is marked, and before it it may be claimed.
Claimed ==
    /\ run.pc = "mark" => dir = "there"
    /\ run.pc \notin {"idle", "claim", "mark"} => marker
    /\ marker => dir = "there"
    /\ ~marker => Empty

\* OUT_DIR is the tool's or untouched, whatever fails or is killed when.
THEOREM OwnershipKept == Spec => []Ownership
<1> DEFINE Inv == Ownership /\ Claimed
<1> USE DEF Ownership, Claimed, Refused, Empty
<1>1. Init => Inv
  BY DEF Init, Idle
<1>2. TypeOK /\ Started /\ Inv /\ [Next]_vars => Inv'
  <2> SUFFICES ASSUME TypeOK, Started, Inv, [Next]_vars PROVE Inv'
    OBVIOUS
  <2> USE DEF TypeOK
  <2>1. CASE EditCode \/ Rest \/ Start \/ Refuse \/ Scan \/ ReadPrevious \/ UNCHANGED vars
    <3>1. UNCHANGED <<dir, marker, report, disk, subdirs>>
      BY <2>1 DEF EditCode, Rest, Start, Refuse, Scan, ReadPrevious, vars, outDir, owner,
                  lists, trees
    <3>2. CASE EditCode \/ Rest \/ UNCHANGED vars
      BY <3>1, <3>2 DEF EditCode, Rest, vars
    <3>3. CASE Start \/ Refuse
      <4>1. run'.pc \in {"idle", "claim"}
        <5>1. CASE Start
          BY <5>1 DEF Start, Idle
        <5>2. CASE Refuse
          BY <5>2 DEF Refuse, Idle
        <5> QED BY <3>3, <5>1, <5>2
      <4> QED BY <3>1, <4>1
    <3>4. CASE Scan \/ ReadPrevious
      BY <3>1, <3>4 DEF Scan, ReadPrevious
    <3> QED BY <2>1, <3>2, <3>3, <3>4
  <2>2. ASSUME NEW k \in ItemKey, TickBox(k) \/ UntickBox(k) PROVE Inv'
    BY <2>2 DEF TickBox, UntickBox, owner, trees
  <2>3. CASE ReplaceList
    BY <2>3 DEF ReplaceList, owner, trees
  <2>4. CASE MakeOutDir
    BY <2>4 DEF MakeOutDir, Goto, lists, trees
  <2>9. CASE Mark
    BY <2>9 DEF Mark, Goto, lists, trees
  <2>5. CASE Clear \/ OpenReport \/ WriteReport \/ OpenChecklist \/ WriteChecklist
    BY <2>5 DEF Clear, OpenReport, WriteReport, OpenChecklist, WriteChecklist, Goto,
                owner, lists, trees
  <2>6. CASE MakePrepared \/ Prepare \/ MakeConverted \/ AllConverted \/ Load \/ RecordReport
             \/ RecordJson \/ RecordTxt
    BY <2>6 DEF MakePrepared, Prepare, MakeConverted, AllConverted, Load, RecordReport,
                RecordJson, RecordTxt, Goto, outDir, owner, lists, trees
  <2>7. CASE ConvertNothing \/ Fix \/ AllFixed \/ Finish \/ RunFails
    <3>1. UNCHANGED <<dir, marker, report, disk, subdirs>>
      BY <2>7 DEF ConvertNothing, Fix, AllFixed, Finish, RunFails, outDir, owner, lists, trees
    <3>2. CASE ConvertNothing \/ Fix \/ AllFixed
      BY <3>1, <3>2 DEF ConvertNothing, Fix, AllFixed
    <3>3. CASE Finish \/ RunFails
      BY <3>1, <3>3 DEF Finish, RunFails, Idle
    <3> QED BY <2>7, <3>2, <3>3
  <2>8. ASSUME NEW content \in Contents, Convert(content) PROVE Inv'
    BY <2>8 DEF Convert, owner, lists
  <2> QED
    BY <2>1, <2>2, <2>3, <2>4, <2>5, <2>6, <2>7, <2>8, <2>9 DEF Next
<1>3. Inv => Ownership
  OBVIOUS
<1> QED
  BY <1>1, <1>2, <1>3, TypeCorrect, PTL DEF Spec

-----------------------------------------------------------------------------
\* Until the checklist is truncated the ticks a run has to keep are in it;
\* from the time it was read they are in what was read.
TicksHeld ==
    /\ run.pc \in {"claim", "mark", "clear", "scan", "report", "writing", "remember"} =>
          run.start \subseteq Ticked(list)
    /\ run.pc \in {"list", "torn"} => run.start \subseteq Ticked(run.prev)

\* A run that gets to write the checklist keeps every tick there was when it
\* started and that nobody has taken away.
THEOREM TicksAreKept == Spec => TicksKept
<1>1. Init => TicksHeld
  BY DEF Init, Idle, TicksHeld
<1>2. TypeOK /\ TicksHeld /\ [Next]_vars => TicksHeld'
  <2> SUFFICES ASSUME TypeOK, TicksHeld, [Next]_vars PROVE TicksHeld'
    OBVIOUS
  <2> USE DEF TypeOK, TicksHeld
  <2>1. CASE EditCode \/ Rest \/ UNCHANGED vars
    BY <2>1 DEF EditCode, Rest, vars, outDir, lists
  <2>9. CASE Start
    BY <2>9 DEF Start, Idle, outDir, lists
  <2>2. ASSUME NEW k \in ItemKey, TickBox(k) PROVE TicksHeld'
    BY <2>2 DEF TickBox, Ticked, Checklists
  <2>3. ASSUME NEW k \in ItemKey, UntickBox(k) PROVE TicksHeld'
    BY <2>3 DEF UntickBox, Ticked, Checklists
  <2>4. CASE ReplaceList
    BY <2>4 DEF ReplaceList
  <2>5. CASE MakeOutDir \/ Mark \/ Clear \/ Scan \/ OpenReport \/ WriteReport \/ ReadPrevious
    BY <2>5 DEF MakeOutDir, Mark, Clear, Scan, OpenReport, WriteReport, ReadPrevious, Goto,
                outDir, lists
  <2>6. CASE OpenChecklist \/ WriteChecklist \/ MakePrepared \/ Prepare \/ MakeConverted
             \/ AllConverted \/ Load \/ RecordReport \/ RecordJson \/ RecordTxt
    BY <2>6 DEF OpenChecklist, WriteChecklist, MakePrepared, Prepare, MakeConverted,
                AllConverted, Load, RecordReport, RecordJson, RecordTxt, Goto
  <2>7. CASE ConvertNothing \/ Fix \/ AllFixed
    BY <2>7 DEF ConvertNothing, Fix, AllFixed
  <2>10. CASE Refuse \/ Finish \/ RunFails
    BY <2>10 DEF Refuse, Finish, RunFails, Idle
  <2>8. ASSUME NEW content \in Contents, Convert(content) PROVE TicksHeld'
    BY <2>8 DEF Convert
  <2> QED
    BY <2>1, <2>2, <2>3, <2>4, <2>5, <2>6, <2>7, <2>8, <2>9, <2>10 DEF Next
<1> DEFINE Kept(k) == \/ k \in Ticked(list')
                      \/ /\ k \notin Listed(list')
                         /\ \E n \in Ticked(list') : SameItem(n, k)
<1>3. TypeOK /\ TicksHeld => (WriteChecklist => \A k \in run.start : Kept(k))
  <2> SUFFICES ASSUME TypeOK, TicksHeld, WriteChecklist, NEW k \in run.start PROVE Kept(k)
    OBVIOUS
  <2>1. /\ run.found \in SUBSET ItemKey /\ run.prev \in Checklists
        /\ list' = BuildItems(run.found, run.prev, Files)
        /\ k \in ItemKey /\ k \in Ticked(run.prev)
    BY DEF TypeOK, WriteChecklist, Goto, TicksHeld
  <2>2. k \in Listed(run.prev)
    BY <2>1 DEF Ticked, Listed
  <2>3. CASE \E p \in Moves(run.found, run.prev) : p[2] = k
    BY <2>1, <2>3, MoveBoxes, MovePairs
  <2>4. CASE \A p \in Moves(run.found, run.prev) : p[2] # k
    BY <2>1, <2>2, <2>4, BoxAfter
  <2> QED BY <2>3, <2>4
<1> QED
  BY <1>1, <1>2, <1>3, TypeCorrect, PTL DEF Spec, TicksKept

-----------------------------------------------------------------------------
\* What the conversion has done so far: the files are this run's, one per
\* content in run.seen, at positions it has passed, and each is repaired or
\* still on the list to repair.
FilesSoFar ==
    /\ \A c \in converted : c.run = runs /\ c.at <= run.at /\ (c.at \in run.todo \/ c.fixed)
    /\ \A c, d \in converted : c.content = d.content \/ c.at = d.at => c = d
    /\ {c.content : c \in converted} = run.seen

Converted == {"converted"} \union Loading
ConvertedSoFar ==
    /\ "converted" \notin subdirs => converted = {}
    /\ run.pc \notin {"idle", "convert", "fix"} \union Converted => run.at = 0 /\ run.seen = {}
    /\ run.pc \in {"convert", "fix"} \union Converted => FilesSoFar /\ "converted" \in subdirs
    /\ run.pc \in Converted => run.todo = {}
    /\ run.ok => run.pc \in {"idle"} \union Converted

\* One output of ora2pg more.
LEMMA ConvertStep ==
    ASSUME TypeOK, ConvertedSoFar, NEW content \in Contents, Convert(content)
    PROVE  ConvertedSoFar'
<1> USE DEF TypeOK, ConvertedSoFar, Converted, Loading
<1>1. PICK p \in NextType :
          /\ run' = [run EXCEPT !.at = p, !.seen = run.seen \union {content},
                                !.todo = run.todo \union {p}]
          /\ converted' = {c \in converted : c.at # p} \union
                 {[at |-> p, content |-> content, run |-> runs, fixed |-> FALSE]}
  BY DEF Convert
<1> DEFINE new == [at |-> p, content |-> content, run |-> runs, fixed |-> FALSE]
<1>2. /\ run.pc = "convert" /\ content \notin run.seen /\ FilesSoFar
      /\ runs' = runs /\ subdirs' = subdirs /\ "converted" \in subdirs
  BY DEF Convert, world
<1>3. p \in Nat /\ p > run.at /\ run.at \in Nat
  BY MigrateAssumption DEF NextType
<1>4. /\ run'.pc = "convert" /\ run'.at = p /\ run'.seen = run.seen \union {content}
      /\ run'.todo = run.todo \union {p} /\ run'.ok = run.ok
  BY <1>1, <1>2
<1>5. \A c \in converted : c.at # p /\ c.at \in Nat /\ c.content # content
  BY <1>2, <1>3, MigrateAssumption DEF FilesSoFar, Outputs
<1>6. converted' = converted \union {new}
  BY <1>1, <1>5
<1>0. new.at = p /\ new.content = content /\ new.run = runs
  OBVIOUS
<1> HIDE DEF new
<1>7. \A c \in converted' : c.run = runs /\ c.at <= p /\ (c.at \in run'.todo \/ c.fixed)
  BY <1>0, <1>2, <1>3, <1>4, <1>5, <1>6 DEF FilesSoFar
<1>8. \A c, d \in converted' : c.content = d.content \/ c.at = d.at => c = d
  BY <1>0, <1>2, <1>5, <1>6 DEF FilesSoFar
<1>9. {c.content : c \in converted'} = run.seen \union {content}
  BY <1>0, <1>2, <1>6 DEF FilesSoFar
<1> QED
  BY <1>2, <1>4, <1>7, <1>8, <1>9 DEF FilesSoFar

\* One file repaired.
LEMMA FixStep ==
    ASSUME TypeOK, ConvertedSoFar, Fix
    PROVE  ConvertedSoFar'
<1> USE DEF TypeOK, ConvertedSoFar, Converted, Loading
<1>1. PICK p \in run.todo :
          /\ run' = [run EXCEPT !.todo = run.todo \ {p}]
          /\ converted' = {[c EXCEPT !.fixed = c.fixed \/ c.at = p] : c \in converted}
  BY DEF Fix
<1>2. /\ run.pc = "fix" /\ FilesSoFar /\ runs' = runs
      /\ subdirs' = subdirs /\ "converted" \in subdirs
  BY DEF Fix, world
<1>3. /\ run'.pc = "fix" /\ run'.at = run.at /\ run'.seen = run.seen
      /\ run'.todo = run.todo \ {p} /\ run'.ok = run.ok
  BY <1>1, <1>2
<1> DEFINE Fixed(c) == [c EXCEPT !.fixed = c.fixed \/ c.at = p]
<1>4. \A c \in converted : /\ Fixed(c).at = c.at /\ Fixed(c).run = c.run
                           /\ Fixed(c).content = c.content
                           /\ Fixed(c).fixed = (c.fixed \/ c.at = p)
  BY DEF Outputs
<1> HIDE DEF Fixed
<1>5. \A c \in converted' : \E b \in converted : c = Fixed(b)
  BY <1>1 DEF Fixed
<1>6. \A b \in converted : Fixed(b) \in converted'
  BY <1>1 DEF Fixed
<1>7. \A c \in converted' : c.run = runs /\ c.at <= run.at /\ (c.at \in run.todo \ {p} \/ c.fixed)
  <2> SUFFICES ASSUME NEW c \in converted'
               PROVE  c.run = runs /\ c.at <= run.at /\ (c.at \in run.todo \ {p} \/ c.fixed)
    OBVIOUS
  <2>1. PICK b \in converted : c = Fixed(b)
    BY <1>5
  <2>2. b.run = runs /\ b.at <= run.at /\ (b.at \in run.todo \/ b.fixed)
    BY <1>2 DEF FilesSoFar
  <2>3. c.run = runs /\ c.at <= run.at /\ c.at = b.at
    BY <1>4, <2>1, <2>2
  <2>4. CASE b.fixed \/ b.at = p
    BY <1>4, <2>1, <2>3, <2>4
  <2>5. CASE ~b.fixed /\ b.at # p
    BY <2>2, <2>3, <2>5
  <2> QED BY <2>3, <2>4, <2>5
<1>8. \A c, d \in converted' : c.content = d.content \/ c.at = d.at => c = d
  BY <1>2, <1>4, <1>5 DEF FilesSoFar
<1>9. {c.content : c \in converted'} = run.seen
  BY <1>2, <1>4, <1>5, <1>6 DEF FilesSoFar
<1> QED
  BY <1>2, <1>3, <1>7, <1>8, <1>9 DEF FilesSoFar

\* A run that got through the conversion leaves its own output, all of it,
\* repaired, and nothing of an earlier run.
THEOREM ConvertedIsTheRuns == Spec => []ConvertedIsThisRun
<1>1. Init => ConvertedSoFar
  BY DEF Init, Idle, ConvertedSoFar, Converted, Loading
<1>2. TypeOK /\ ConvertedSoFar /\ [Next]_vars => ConvertedSoFar'
  <2> SUFFICES ASSUME TypeOK, ConvertedSoFar, [Next]_vars PROVE ConvertedSoFar'
    OBVIOUS
  <2> USE DEF TypeOK, ConvertedSoFar, Converted, Loading
  <2>1. CASE EditCode \/ Rest \/ UNCHANGED vars
    BY <2>1 DEF EditCode, Rest, vars, outDir, trees, FilesSoFar
  <2>2. ASSUME NEW k \in ItemKey, TickBox(k) PROVE ConvertedSoFar'
    BY <2>2 DEF TickBox, trees, FilesSoFar
  <2>3. ASSUME NEW k \in ItemKey, UntickBox(k) PROVE ConvertedSoFar'
    BY <2>3 DEF UntickBox, trees, FilesSoFar
  <2>4. CASE ReplaceList
    BY <2>4 DEF ReplaceList, trees, FilesSoFar
  <2>5. CASE Start
    BY <2>5 DEF Start, Idle, outDir, trees
  <2>6. CASE Refuse
    BY <2>6 DEF Refuse, Idle, outDir, trees
  <2>7. CASE Finish \/ RunFails
    BY <2>7 DEF Finish, RunFails, Idle, outDir, trees
  <2>8. CASE MakeOutDir \/ Mark \/ OpenReport \/ WriteReport \/ OpenChecklist \/ WriteChecklist
    BY <2>8 DEF MakeOutDir, Mark, OpenReport, WriteReport, OpenChecklist, WriteChecklist,
                Goto, trees
  <2>9. CASE Clear
    BY <2>9 DEF Clear, Goto
  <2>10. CASE Scan \/ ReadPrevious
    BY <2>10 DEF Scan, ReadPrevious, outDir, trees
  <2>11. CASE MakePrepared \/ Prepare
    BY <2>11 DEF MakePrepared, Prepare, Goto
  <2>12. CASE MakeConverted
    BY <2>12 DEF MakeConverted, Goto, FilesSoFar
  <2>13. CASE ConvertNothing
    <3>1. PICK p \in NextType : run' = [run EXCEPT !.at = p]
      BY <2>13 DEF ConvertNothing
    <3>2. p \in Nat /\ p > run.at
      BY MigrateAssumption DEF NextType
    <3>3. \A c \in converted : c.at \in Nat
      BY MigrateAssumption DEF Outputs
    <3> QED
      BY <2>13, <3>1, <3>2, <3>3 DEF ConvertNothing, world, outDir, trees, FilesSoFar
  <2>14. ASSUME NEW content \in Contents, Convert(content) PROVE ConvertedSoFar'
    BY <2>14, ConvertStep
  <2>15. CASE AllConverted
    BY <2>15 DEF AllConverted, Goto, world, outDir, trees, FilesSoFar
  <2>16. CASE Fix
    BY <2>16, FixStep
  <2>17. CASE AllFixed
    BY <2>17 DEF AllFixed, world, outDir, trees, FilesSoFar
  <2>18. CASE Load
    BY <2>18 DEF Load, Goto, world, outDir, trees, FilesSoFar
  <2>19. CASE RecordReport \/ RecordJson \/ RecordTxt
    BY <2>19 DEF RecordReport, RecordJson, RecordTxt, Goto, world, trees, FilesSoFar
  <2> QED
    BY <2>1, <2>2, <2>3, <2>4, <2>5, <2>6, <2>7, <2>8, <2>9, <2>10, <2>11, <2>12, <2>13,
       <2>14, <2>15, <2>16, <2>17, <2>18, <2>19 DEF Next
<1>3. ConvertedSoFar => ConvertedIsThisRun
  BY DEF ConvertedSoFar, Converted, FilesSoFar, ConvertedIsThisRun
<1> QED
  BY <1>1, <1>2, <1>3, TypeCorrect, PTL DEF Spec

-----------------------------------------------------------------------------
\* The load files are of one run, the last that recorded its load: txt is
\* behind while a run is under way, and it is written when the others are.
Loaded ==
    /\ txt <= runs
    /\ run.pc \notin {"idle", "txt"} => txt # runs
    /\ run.pc \in {"card", "json"} => report = [run |-> runs, whole |-> TRUE, card |-> TRUE]
    /\ run.pc = "json" => json = runs

\* Whoever finds load-check.txt of the last run finds the rest of its load.
THEOREM LoadFilesBelong == Spec => []LoadFilesAgree
<1> DEFINE Inv == LoadFilesAgree /\ Loaded
<1> USE DEF LoadFilesAgree, Loaded
<1>1. Init => Inv
  BY DEF Init, Idle
<1>2. TypeOK /\ Inv /\ [Next]_vars => Inv'
  <2> SUFFICES ASSUME TypeOK, Inv, [Next]_vars PROVE Inv'
    OBVIOUS
  <2>0. runs \in Nat /\ txt \in Nat /\ json \in Nat
    BY MigrateAssumption DEF TypeOK
  <2>1. CASE EditCode \/ Rest \/ UNCHANGED vars
    BY <2>1 DEF EditCode, Rest, vars, outDir, loads
  <2>2. CASE Start
    BY <2>0, <2>2 DEF Start, Idle, outDir, loads
  <2>3. ASSUME NEW k \in ItemKey, TickBox(k) \/ UntickBox(k) PROVE Inv'
    BY <2>3 DEF TickBox, UntickBox, loads, TypeOK
  <2>4. CASE ReplaceList
    BY <2>4 DEF ReplaceList, loads, TypeOK
  <2>5. CASE Refuse \/ Finish \/ RunFails
    BY <2>5 DEF Refuse, Finish, RunFails, Idle, world, outDir, loads
  <2>6. CASE MakeOutDir \/ Mark \/ Clear \/ Scan \/ ReadPrevious \/ OpenChecklist \/ WriteChecklist
    BY <2>6 DEF MakeOutDir, Mark, Clear, Scan, ReadPrevious, OpenChecklist, WriteChecklist, Goto,
                world, outDir, loads, TypeOK
  <2>7. CASE OpenReport \/ WriteReport
    BY <2>7 DEF OpenReport, WriteReport, Goto, world, loads, TypeOK
  <2>8. CASE MakePrepared \/ Prepare \/ MakeConverted \/ ConvertNothing \/ AllConverted
             \/ Fix \/ AllFixed \/ Load
    BY <2>8 DEF MakePrepared, Prepare, MakeConverted, ConvertNothing, AllConverted, Fix, AllFixed,
                Load, Goto, world, outDir, loads, TypeOK
  <2>9. ASSUME NEW content \in Contents, Convert(content) PROVE Inv'
    BY <2>9 DEF Convert, world, loads, TypeOK
  <2>10. CASE RecordReport \/ RecordJson \/ RecordTxt
    BY <2>0, <2>10 DEF RecordReport, RecordJson, RecordTxt, Goto, world, loads, TypeOK
  <2> QED
    BY <2>1, <2>2, <2>3, <2>4, <2>5, <2>6, <2>7, <2>8, <2>9, <2>10 DEF Next
<1>3. Inv => LoadFilesAgree
  OBVIOUS
<1> QED
  BY <1>1, <1>2, <1>3, TypeCorrect, PTL DEF Spec
=============================================================================
