---------------------------- MODULE ScanRunProofs ----------------------------
(***************************************************************************)
(* Proofs about ScanRun: whatever the files, the command lines, the edits  *)
(* and the failures, a snapshot is the truth about the files of its run,   *)
(* exit codes 0 and 1 are results, and the counts of a comparison add up.  *)
(***************************************************************************)
EXTENDS ScanRun, TLAPS

USE DEF NoSlot

-----------------------------------------------------------------------------
(* Types. *)

\* The comparison of two multisets of findings is one of multisets.
LEMMA DiffType ==
    ASSUME NEW then \in Findings, NEW now \in Findings
    PROVE  DiffOf(then, now) \in [new : Findings, resolved : Findings, unchanged : Findings]
<1>1. \A f \in Files, k \in Kinds : then[f][k] \in Nat /\ now[f][k] \in Nat
  BY DEF Findings
<1>2. \A m, n \in Nat : Matched(m, n) \in Nat /\ m - Matched(m, n) \in Nat /\ n - Matched(m, n) \in Nat
  BY DEF Matched
<1>3. \A f \in Files, k \in Kinds :
        /\ Matched(then[f][k], now[f][k]) \in Nat
        /\ then[f][k] - Matched(then[f][k], now[f][k]) \in Nat
        /\ now[f][k] - Matched(then[f][k], now[f][k]) \in Nat
  BY <1>1, <1>2
<1> QED BY <1>3 DEF DiffOf, Findings

\* What the detectors find in a file is a multiset of kinds.
LEMMA FindingsType ==
    ASSUME ScanAssumption, TypeOK, NEW f \in Files
    PROVE  /\ code[f] \in [Kinds -> Nat]
           /\ \A crashed : FindingsIn(f, crashed) \in [Kinds -> Nat]
<1>1. code[f] \in [Kinds -> Nat]
  BY DEF TypeOK, ScanAssumption
<1> QED BY <1>1 DEF FindingsIn

LEMMA TypeInvariant == ScanAssumption /\ TypeOK /\ [Next]_vars => TypeOK'
<1> SUFFICES ASSUME ScanAssumption, TypeOK, [Next]_vars PROVE TypeOK'
  OBVIOUS
<1> USE DEF TypeOK, world, run, scan, store, result
<1>1. ASSUME NEW f \in Files, EditCode(f) \/ RemoveCode(f) PROVE TypeOK'
  BY <1>1 DEF EditCode, RemoveCode, Changes, ScanAssumption
<1>2. ASSUME NEW s \in Slots, DamageSnapshot(s) PROVE TypeOK'
  BY <1>2 DEF DamageSnapshot, Changes, ScanAssumption
<1>3. ASSUME NEW a \in Args, Start(a) \/ Refuse(a) PROVE TypeOK'
  <2>1. a \in CommandLines /\ a.paths \subseteq Files /\ a.newer \in BOOLEAN
    BY DEF ScanAssumption, CommandLines
  <2>2. NoFindings \in Findings
    BY DEF NoFindings, Findings
  <2>3. Unseen(a.paths, a.newer) \in Views
    BY <2>1, <2>2 DEF Unseen, Views
  <2>4. NoDiff \in [new : Findings, resolved : Findings, unchanged : Findings]
    BY <2>2 DEF NoDiff
  <2>5. Begin(a)
    BY <1>3 DEF Start, Refuse
  <2>6. found' \in Findings /\ view' \in Views /\ args' \in CommandLines
    BY <2>1, <2>2, <2>3, <2>5 DEF Begin
  <2>7. diff' \in [new : Findings, resolved : Findings, unchanged : Findings]
    BY <2>4, <2>5 DEF Begin
  <2>8. /\ code' \in [Files -> Contents] /\ there' \subseteq Files /\ edits' \in 0..MaxEdits
        /\ snaps' \in [Slots -> Findings] /\ readable' \subseteq Slots /\ views' \in [Slots -> Views]
    BY <2>5 DEF Begin
  <2>9. /\ runs' \in 0..MaxRuns /\ checking' \subseteq Files /\ scanned' \subseteq Files
        /\ hadError' \in BOOLEAN /\ hadInternalError' \in BOOLEAN
        /\ compared' \in Slots \union {NoSlot}
    <3>1. runs < MaxRuns /\ runs' = runs + 1 /\ runs \in 0..MaxRuns /\ MaxRuns \in Nat
      BY <2>5 DEF Begin, ScanAssumption
    <3>2. runs' \in 0..MaxRuns
      BY <3>1
    <3> QED BY <2>5, <3>2 DEF Begin
  <2>10. todo' \subseteq Files /\ exit' \in -1..3
         /\ pc' \in {"idle", "scan", "save", "compare", "report"}
    BY <1>3, <2>1 DEF Start, Refuse, Begin
  <2> QED BY <2>6, <2>7, <2>8, <2>9, <2>10
<1>4. ASSUME NEW f \in Files, SkipFile(f) \/ CrashFile(f) \/ CheckFails(f) PROVE TypeOK'
  BY <1>4 DEF SkipFile, CrashFile, CheckFails, Take
<1>5. ASSUME NEW f \in Files, CheckConnectBy(f) PROVE TypeOK'
  <2>1. found[f] \in [Kinds -> Nat] /\ code[f] \in [Kinds -> Nat]
    BY FindingsType DEF Findings
  <2>2. found' \in Findings
    BY <1>5, <2>1 DEF CheckConnectBy, Findings
  <2> QED BY <1>5, <2>2 DEF CheckConnectBy
<1>6. ASSUME NEW f \in Files, NEW crashed \in SUBSET Static, ScanFile(f, crashed) PROVE TypeOK'
  <2>1. found' \in Findings
    BY <1>6, FindingsType DEF ScanFile, Findings
  <2>2. view' \in Views
    BY <1>6, FindingsType DEF ScanFile, Views, Findings
  <2>3. todo' \subseteq Files /\ scanned' \subseteq Files /\ checking' \subseteq Files
    BY <1>6 DEF ScanFile, Take
  <2>4. hadInternalError' \in BOOLEAN /\ hadError' \in BOOLEAN
    BY <1>6 DEF ScanFile
  <2> QED BY <1>6, <2>1, <2>2, <2>3, <2>4 DEF ScanFile, Take
<1>7. CASE ScanEnds
  <2>1. found' \in Findings
    BY <1>7 DEF ScanEnds, ForVersion, Findings
  <2> QED BY <1>7, <2>1 DEF ScanEnds
<1>8. CASE NothingScanned \/ SaveFails \/ CompareFails \/ ReportFails \/ Report
  BY <1>8 DEF NothingScanned, SaveFails, CompareFails, ReportFails, Report, Stop, ExitCode
<1>9. CASE SaveNothing \/ CompareNothing \/ Die \/ Rest
  BY <1>9 DEF SaveNothing, CompareNothing, Die, Rest, vars
<1>10. CASE Save
  <2>1. args.save \in Slots
    BY <1>10 DEF Save, CommandLines
  <2> QED BY <1>10, <2>1 DEF Save
<1>11. CASE Compare
  <2>1. args.baseline \in Slots
    BY <1>11 DEF Compare
  <2>2. snaps[args.baseline] \in Findings
    BY <2>1
  <2>3. diff' \in [new : Findings, resolved : Findings, unchanged : Findings]
    BY <1>11, <2>2, DiffType DEF Compare
  <2> QED BY <1>11, <2>1, <2>3 DEF Compare
<1>12. CASE UNCHANGED vars
  BY <1>12 DEF vars
<1> QED BY <1>1, <1>2, <1>3, <1>4, <1>5, <1>6, <1>7, <1>8, <1>9, <1>10, <1>11, <1>12 DEF Next

LEMMA TypeInit == ScanAssumption /\ Init => TypeOK
<1>1. NoFindings \in Findings
  BY DEF NoFindings, Findings
<1>2. Unseen({}, FALSE) \in Views
  BY <1>1 DEF Unseen, Views
<1>3. NoArgs \in CommandLines
  BY DEF NoArgs, CommandLines
<1>4. NoDiff \in [new : Findings, resolved : Findings, unchanged : Findings]
  BY <1>1 DEF NoDiff
<1> SUFFICES ASSUME ScanAssumption, Init PROVE TypeOK
  OBVIOUS
<1>5. /\ snaps \in [Slots -> Findings] /\ views \in [Slots -> Views]
      /\ found \in Findings /\ view \in Views /\ args \in CommandLines
      /\ diff \in [new : Findings, resolved : Findings, unchanged : Findings]
  BY <1>1, <1>2, <1>3, <1>4 DEF Init
<1>6. /\ code \in [Files -> Contents] /\ there \subseteq Files
      /\ edits \in 0..MaxEdits /\ runs \in 0..MaxRuns
  BY DEF Init, ScanAssumption
<1>7. /\ pc \in {"idle", "scan", "save", "compare", "report"} /\ exit \in -1..3
      /\ compared \in Slots \union {NoSlot} /\ readable \subseteq Slots
  BY DEF Init
<1>8. /\ todo \subseteq Files /\ checking \subseteq Files /\ scanned \subseteq Files
      /\ hadError \in BOOLEAN /\ hadInternalError \in BOOLEAN
  BY DEF Init
<1> QED BY <1>5, <1>6, <1>7, <1>8 DEF TypeOK

\* Every variable keeps its type (ScanRun's state).
THEOREM TypeCorrect == Spec => []TypeOK
<1>1. Init => TypeOK
  BY ScanAssumption, TypeInit
<1>2. TypeOK /\ [Next]_vars => TypeOK'
  BY ScanAssumption, TypeInvariant
<1> QED BY <1>1, <1>2, PTL DEF Spec
-----------------------------------------------------------------------------
(* The inductive invariant. *)

\* What the detectors have found so far, before --pg-version is looked at.
SoFar(f, k) == IF f \in view.files THEN view.held[f][k] ELSE 0

\* What holds of a run between its steps: which files it has gone through, and
\* what it cannot have yet.
Progress ==
    /\ view.asked = args.paths /\ view.newer = args.newer
    /\ pc # "idle" => exit = -1
    /\ pc \in {"scan", "save", "compare"} => compared = NoSlot
    /\ pc \in {"save", "compare", "report"} => todo = {}
    /\ pc # "idle" /\ ~Partial => view.files \union todo = args.paths
    /\ checking # {} => args.connect

\* The findings of a run without a crash are those of the files it has gone
\* through, first as they are, then for the PostgreSQL version asked for.
FoundSoFar ==
    /\ pc = "scan" /\ ~hadInternalError =>
         \A f \in Files, k \in Static : found[f][k] = SoFar(f, k)
    /\ pc \in {"save", "compare", "report"} /\ ~hadInternalError =>
         \A f \in Files, k \in Static : found[f][k] = Truth(view, f, k)
    /\ \A f \in Files, k \in ConnectBy : found[f][k] > 0 => args.connect

\* DiffAddsUp, before the exit code is known.
AddsUp ==
    \A f \in Files, k \in Static :
        /\ diff.new[f][k] + diff.unchanged[f][k] = Truth(view, f, k)
        /\ diff.resolved[f][k] + diff.unchanged[f][k] = Truth(views[compared], f, k)
        /\ diff.new[f][k] = 0 \/ diff.resolved[f][k] = 0
DiffSoFar == pc = "report" /\ compared # NoSlot /\ ~Partial => AddsUp

IInv ==
    /\ TypeOK /\ Progress /\ FoundSoFar /\ DiffSoFar
    /\ SnapshotIsTruth /\ GateIsHonest /\ DiffAddsUp
Safety == Progress /\ FoundSoFar /\ DiffSoFar /\ SnapshotIsTruth /\ GateIsHonest /\ DiffAddsUp

\* A step that leaves the run, its findings and the snapshots alone.
LEMMA Untouched ==
    ASSUME Safety, UNCHANGED <<run, pc, scan, result, exit, snaps, views>>, readable' \subseteq readable
    PROVE  Safety'
<1> USE DEF Safety, run, scan, result
<1>1. Progress' /\ FoundSoFar'
  BY DEF Progress, FoundSoFar, Partial, SoFar, Truth
<1>2. DiffSoFar' /\ DiffAddsUp'
  BY DEF DiffSoFar, DiffAddsUp, AddsUp, Partial, Truth
<1>3. SnapshotIsTruth' /\ GateIsHonest'
  BY DEF SnapshotIsTruth, GateIsHonest, Truth
<1> QED BY <1>1, <1>2, <1>3

\* A step that does not end the run and leaves comparison and snapshots alone.
LEMMA Onwards ==
    ASSUME Safety, UNCHANGED <<store, result, exit>>, exit = -1
    PROVE  SnapshotIsTruth' /\ GateIsHonest' /\ DiffAddsUp'
BY DEF Safety, store, result, SnapshotIsTruth, GateIsHonest, DiffAddsUp, Truth

\* The run ends with a code that says it has no result, or nobody looks at it.
LEMMA NoResult ==
    ASSUME Safety, pc # "idle", pc' = "idle", UNCHANGED <<run, scan, store, result>>, exit' \notin {0, 1}
    PROVE  Safety'
<1> USE DEF Safety, run, scan, store, result
<1>1. Progress' /\ FoundSoFar' /\ DiffSoFar'
  BY DEF Progress, FoundSoFar, DiffSoFar, Partial
<1>2. SnapshotIsTruth' /\ GateIsHonest' /\ DiffAddsUp'
  BY DEF SnapshotIsTruth, GateIsHonest, DiffAddsUp, Truth
<1> QED BY <1>1, <1>2

LEMMA SafetyInvariant == ScanAssumption /\ TypeOK /\ Safety /\ [Next]_vars => Safety'
<1> SUFFICES ASSUME ScanAssumption, TypeOK, Safety, [Next]_vars PROVE Safety'
  OBVIOUS
<1>1. ASSUME NEW f \in Files, EditCode(f) \/ RemoveCode(f) PROVE Safety'
  BY <1>1, Untouched DEF EditCode, RemoveCode, Changes, store
<1>2. ASSUME NEW s \in Slots, DamageSnapshot(s) PROVE Safety'
  BY <1>2, Untouched DEF DamageSnapshot, Changes
<1>3. ASSUME NEW a \in Args, Start(a) \/ Refuse(a) PROVE Safety'
  <2>1. /\ Begin(a) /\ exit' \notin {0, 1} /\ pc' \in {"idle", "scan"}
        /\ pc' = "scan" => exit' = -1 /\ todo' = a.paths
    BY <1>3 DEF Start, Refuse, Begin
  <2>2. view' = Unseen(a.paths, a.newer) /\ args' = a /\ compared' = NoSlot /\ checking' = {}
    BY <2>1 DEF Begin
  <2>3. Progress'
    BY <2>1, <2>2 DEF Progress, Unseen
  <2>4. FoundSoFar' /\ DiffSoFar'
    BY <2>1, <2>2 DEF FoundSoFar, DiffSoFar, SoFar, Unseen, Begin, NoFindings, Static, ScanAssumption
  <2>5. SnapshotIsTruth' /\ GateIsHonest' /\ DiffAddsUp'
    BY <2>1, <2>2 DEF Safety, SnapshotIsTruth, GateIsHonest, DiffAddsUp, Begin, store, Truth
  <2> QED BY <2>3, <2>4, <2>5 DEF Safety
<1>4. ASSUME NEW f \in Files, SkipFile(f) \/ CrashFile(f) PROVE Safety'
  <2>1. Take(f) /\ Partial' /\ UNCHANGED <<found, view, checking>>
    BY <1>4 DEF SkipFile, CrashFile, Partial
  <2>2. exit = -1
    BY <2>1 DEF Take, Safety, Progress
  <2>3. Progress' /\ DiffSoFar'
    BY <2>1, <2>2 DEF Safety, Progress, DiffSoFar, Take, run, result
  <2>4. FoundSoFar'
    BY <1>4, <2>1 DEF Safety, FoundSoFar, Take, SkipFile, CrashFile, SoFar, run
  <2>5. SnapshotIsTruth' /\ GateIsHonest' /\ DiffAddsUp'
    BY <2>1, <2>2, Onwards DEF Take
  <2> QED BY <2>3, <2>4, <2>5 DEF Safety
<1>5. ASSUME NEW f \in Files, CheckFails(f) \/ CheckConnectBy(f) PROVE Safety'
  <2>1. /\ pc = "scan" /\ checking = {f} /\ checking' = {} /\ exit = -1 /\ args.connect
        /\ UNCHANGED <<run, pc, todo, scanned, hadError, hadInternalError, view, store, result, exit>>
    BY <1>5 DEF CheckFails, CheckConnectBy, Safety, Progress
  <2>2. \A g \in Files, k \in Static : found'[g][k] = found[g][k]
    <3>1. CASE CheckFails(f)
      BY <3>1 DEF CheckFails
    <3>2. CASE CheckConnectBy(f)
      BY <3>2 DEF CheckConnectBy, TypeOK, Findings, Static
    <3> QED BY <1>5, <3>1, <3>2
  <2>3. Progress' /\ DiffSoFar'
    BY <2>1 DEF Safety, Progress, DiffSoFar, Partial, run, store, result
  <2>4. FoundSoFar'
    BY <2>1, <2>2 DEF Safety, FoundSoFar, SoFar, run
  <2>5. SnapshotIsTruth' /\ GateIsHonest' /\ DiffAddsUp'
    BY <2>1, Onwards
  <2> QED BY <2>3, <2>4, <2>5 DEF Safety
<1>6. ASSUME NEW f \in Files, NEW crashed \in SUBSET Static, ScanFile(f, crashed) PROVE Safety'
  <2>1. /\ Take(f) /\ exit = -1 /\ pc = "scan" /\ compared = NoSlot
        /\ hadError' = hadError /\ (~hadInternalError' => ~hadInternalError /\ crashed = {})
    BY <1>6 DEF ScanFile, Take, Safety, Progress
  <2>2. /\ view'.asked = view.asked /\ view'.newer = view.newer
        /\ crashed = {} => view'.files = view.files \union {f}
        /\ view'.held[f] = code[f]
        /\ \A g \in Files : g # f => view'.held[g] = view.held[g]
    BY <1>6 DEF ScanFile, TypeOK, Views, Findings
  <2>3. /\ \A k \in Static : crashed = {} => found'[f][k] = code[f][k]
        /\ \A k \in ConnectBy : found'[f][k] = 0
        /\ \A g \in Files : g # f => found'[g] = found[g]
    BY <1>6 DEF ScanFile, TypeOK, Findings, FindingsIn, Static, ScanAssumption
  <2>4. Progress'
    BY <1>6, <2>1, <2>2 DEF Safety, Progress, Partial, ScanFile, Take, run, result
  <2>5. FoundSoFar'
    BY <2>1, <2>2, <2>3 DEF Safety, FoundSoFar, SoFar, Take, run
  <2>6. DiffSoFar'
    BY <2>1 DEF DiffSoFar, Take
  <2>7. SnapshotIsTruth' /\ GateIsHonest' /\ DiffAddsUp'
    BY <2>1, Onwards DEF Take
  <2> QED BY <2>4, <2>5, <2>6, <2>7 DEF Safety
<1>7. CASE ScanEnds
  <2>1. /\ pc = "scan" /\ pc' = "save" /\ exit = -1 /\ todo = {}
        /\ UNCHANGED <<run, todo, checking, scanned, hadError, hadInternalError, view, store, result,
                       exit>>
    BY <1>7 DEF ScanEnds, Safety, Progress
  <2>2. \A f \in Files, k \in Kinds :
          found'[f][k] = IF args.newer /\ k \in Outdated THEN 0 ELSE found[f][k]
    BY <1>7 DEF ScanEnds, ForVersion
  <2>3. ConnectBy \subseteq Kinds /\ Static \subseteq Kinds
    BY DEF ScanAssumption, Static
  <2>4. Progress' /\ DiffSoFar'
    BY <2>1 DEF Safety, Progress, DiffSoFar, Partial, run, result
  <2>5. FoundSoFar'
    <3>1. \A f \in Files, k \in ConnectBy : found'[f][k] > 0 => args'.connect
      BY <2>1, <2>2, <2>3 DEF Safety, FoundSoFar, run
    <3>2. ~hadInternalError' => \A f \in Files, k \in Static : found'[f][k] = Truth(view', f, k)
      BY <2>1, <2>2, <2>3 DEF Safety, FoundSoFar, Progress, SoFar, Truth
    <3> QED BY <2>1, <3>1, <3>2 DEF FoundSoFar
  <2>6. SnapshotIsTruth' /\ GateIsHonest' /\ DiffAddsUp'
    BY <2>1, Onwards
  <2> QED BY <2>4, <2>5, <2>6 DEF Safety
<1>8. CASE NothingScanned \/ SaveFails \/ CompareFails \/ ReportFails
  BY <1>8, NoResult DEF NothingScanned, SaveFails, CompareFails, ReportFails, Stop
<1>9. CASE Die
  BY <1>9, NoResult DEF Die, Safety, Progress
<1>10. CASE SaveNothing \/ CompareNothing
  <2>1. /\ \/ pc = "save" /\ pc' = "compare"
           \/ pc = "compare" /\ pc' = "report"
        /\ compared = NoSlot /\ exit = -1
        /\ UNCHANGED <<run, scan, store, result, exit>>
    BY <1>10 DEF SaveNothing, CompareNothing, Safety, Progress
  <2>2. Progress' /\ FoundSoFar' /\ DiffSoFar'
    BY <2>1 DEF Safety, Progress, FoundSoFar, DiffSoFar, Partial, Truth, run, scan, result
  <2>3. SnapshotIsTruth' /\ GateIsHonest' /\ DiffAddsUp'
    BY <2>1, Onwards
  <2> QED BY <2>2, <2>3 DEF Safety
<1>11. CASE Save
  <2>1. /\ pc = "save" /\ pc' = "compare" /\ compared = NoSlot /\ exit = -1 /\ todo = {}
        /\ ~Partial /\ args.save \in Slots
        /\ UNCHANGED <<run, scan, result, exit>>
    BY <1>11 DEF Save, Safety, Progress, TypeOK, CommandLines
  <2>2. Progress' /\ FoundSoFar' /\ DiffSoFar' /\ GateIsHonest' /\ DiffAddsUp'
    BY <2>1 DEF Safety, Progress, FoundSoFar, DiffSoFar, GateIsHonest, DiffAddsUp, Partial, Truth, run,
                scan, result
  <2>3. SnapshotIsTruth'
    <3>1. /\ snaps'[args.save] = found /\ views'[args.save] = view
          /\ \A s \in Slots : s # args.save => snaps'[s] = snaps[s] /\ views'[s] = views[s]
          /\ readable' = readable \union {args.save} /\ readable \subseteq Slots
      BY <1>11, <2>1 DEF Save, TypeOK
    <3>2. view.files = view.asked
      BY <2>1 DEF Safety, Progress
    <3>3. \A f \in Files, k \in Static : found[f][k] = Truth(view, f, k)
      BY <2>1 DEF Safety, FoundSoFar, Partial
    <3>4. ASSUME NEW s \in readable', NEW f \in Files, NEW k \in Static
          PROVE  views'[s].files = views'[s].asked /\ snaps'[s][f][k] = Truth(views'[s], f, k)
      <4>1. CASE s = args.save
        BY <3>1, <3>2, <3>3, <4>1
      <4>2. CASE s # args.save
        BY <3>1, <4>2 DEF Safety, SnapshotIsTruth
      <4> QED BY <4>1, <4>2
    <3>5. \A s \in readable' : views'[s].files = views'[s].asked
      BY <3>1, <3>2 DEF Safety, SnapshotIsTruth
    <3> QED BY <3>4, <3>5 DEF SnapshotIsTruth, Truth
  <2> QED BY <2>2, <2>3 DEF Safety
<1>12. CASE Compare
  <2>1. /\ pc = "compare" /\ pc' = "report" /\ exit = -1 /\ todo = {}
        /\ args.baseline \in readable /\ args.baseline \in Slots
        /\ compared' = args.baseline
        /\ UNCHANGED <<run, scan, store, exit>>
    BY <1>12 DEF Compare, Safety, Progress, TypeOK
  <2>2. Progress' /\ FoundSoFar' /\ SnapshotIsTruth' /\ GateIsHonest' /\ DiffAddsUp'
    BY <2>1 DEF Safety, Progress, FoundSoFar, SnapshotIsTruth, GateIsHonest, DiffAddsUp, Partial, Truth,
                run, scan, store
  <2>3. DiffSoFar'
    <3> SUFFICES ASSUME ~Partial PROVE AddsUp'
      BY <2>1 DEF DiffSoFar, Partial, scan
    <3>1. \A f \in Files, k \in Static :
            /\ found[f][k] = Truth(view, f, k)
            /\ snaps[args.baseline][f][k] = Truth(views[args.baseline], f, k)
      BY <2>1 DEF Safety, FoundSoFar, SnapshotIsTruth, Partial
    <3>2. \A f \in Files, k \in Static : found[f][k] \in Nat /\ snaps[args.baseline][f][k] \in Nat
      BY <2>1 DEF TypeOK, Findings, Static
    <3>3. ASSUME NEW f \in Files, NEW k \in Static
          PROVE  /\ diff'.unchanged[f][k] = Matched(snaps[args.baseline][f][k], found[f][k])
                 /\ diff'.new[f][k] = found[f][k] - diff'.unchanged[f][k]
                 /\ diff'.resolved[f][k] = snaps[args.baseline][f][k] - diff'.unchanged[f][k]
      BY <1>12 DEF Compare, DiffOf, Static
    <3>4. ASSUME NEW f \in Files, NEW k \in Static
          PROVE  /\ diff'.new[f][k] + diff'.unchanged[f][k] = found[f][k]
                 /\ diff'.resolved[f][k] + diff'.unchanged[f][k] = snaps[args.baseline][f][k]
                 /\ diff'.new[f][k] = 0 \/ diff'.resolved[f][k] = 0
      BY <3>2, <3>3 DEF Matched
    <3> QED BY <2>1, <3>1, <3>4 DEF AddsUp, Truth, scan, store
  <2> QED BY <2>2, <2>3 DEF Safety
<1>13. CASE Report
  <2>1. /\ pc = "report" /\ pc' = "idle" /\ exit' = ExitCode /\ todo = {}
        /\ UNCHANGED <<run, scan, store, result>>
    BY <1>13 DEF Report, Stop, Safety, Progress
  <2>2. Progress' /\ FoundSoFar' /\ DiffSoFar' /\ SnapshotIsTruth'
    BY <2>1 DEF Safety, Progress, FoundSoFar, DiffSoFar, SnapshotIsTruth, Partial, Truth, run, scan,
                store, result
  <2>3. exit' \in {0, 1} => ~Partial
    BY <2>1 DEF ExitCode, Partial
  <2>4. ~Partial => view.files = args.paths
    BY <2>1 DEF Safety, Progress
  <2>5. GateIsHonest'
    <3> SUFFICES ASSUME exit' \in {0, 1} PROVE GateIsHonest'
      BY DEF GateIsHonest
    <3>1. \A f \in Files, k \in Static : found[f][k] = Truth(view, f, k) /\ found[f][k] \in Nat
      BY <2>1, <2>3 DEF Safety, FoundSoFar, Partial, TypeOK, Findings, Static
    <3>2. /\ exit' = 0 /\ args.gate => \A f \in Files, k \in Gating : ~(found[f][k] > 0)
          /\ exit' = 1 => args.gate /\ \E f \in Files, k \in Gating : found[f][k] > 0
      BY <2>1 DEF ExitCode
    <3>3. Gating \ ConnectBy \subseteq Static /\ args.paths \subseteq Files
      BY DEF ScanAssumption, Static, TypeOK, CommandLines
    <3>4. exit' = 0 /\ args.gate =>
            \A f \in args.paths, k \in Gating \ ConnectBy : Truth(view, f, k) = 0
      BY <3>1, <3>2, <3>3
    <3>5. ASSUME NEW f \in Files, NEW k \in Gating, found[f][k] > 0
          PROVE  \/ f \in args.paths /\ k \in Gating \ ConnectBy /\ Truth(view, f, k) > 0
                 \/ args.connect /\ k \in Gating \intersect ConnectBy
      <4>1. CASE k \in ConnectBy
        BY <3>5, <4>1 DEF Safety, FoundSoFar
      <4>2. CASE k \notin ConnectBy
        BY <2>3, <2>4, <3>1, <3>3, <3>5, <4>2 DEF Truth
      <4> QED BY <4>1, <4>2
    <3> QED BY <2>1, <2>3, <2>4, <3>2, <3>4, <3>5 DEF GateIsHonest, Truth, run, scan
  <2>6. DiffAddsUp'
    BY <2>1, <2>3 DEF Safety, DiffSoFar, DiffAddsUp, AddsUp, Truth, scan, store, result
  <2> QED BY <2>2, <2>5, <2>6 DEF Safety
<1>14. CASE Rest \/ UNCHANGED vars
  BY <1>14, Untouched DEF Rest, vars, run, scan, result
<1> QED BY <1>1, <1>2, <1>3, <1>4, <1>5, <1>6, <1>7, <1>8, <1>9, <1>10, <1>11, <1>12, <1>13, <1>14
        DEF Next

LEMMA SafetyInit == ScanAssumption /\ Init => Safety
BY DEF Init, Safety, Progress, FoundSoFar, DiffSoFar, SnapshotIsTruth, GateIsHonest, DiffAddsUp, Unseen,
       NoArgs, NoFindings, ScanAssumption

LEMMA AlwaysSafe == Spec => [](TypeOK /\ Safety)
<1>1. Init => TypeOK /\ Safety
  BY ScanAssumption, TypeInit, SafetyInit
<1>2. TypeOK /\ Safety /\ [Next]_vars => (TypeOK /\ Safety)'
  BY ScanAssumption, TypeInvariant, SafetyInvariant
<1> QED BY <1>1, <1>2, PTL DEF Spec

\* A snapshot holds what the detectors have in every file its run was asked to
\* scan, for every history of runs, failures and edits (--save, _main).
THEOREM SnapshotsAreTruth == Spec => []SnapshotIsTruth
<1>1. TypeOK /\ Safety => SnapshotIsTruth
  BY DEF Safety
<1> QED BY <1>1, AlwaysSafe, PTL

\* Exit codes 0 and 1 come from complete scans, and tell them apart by the
\* gate (--fail-on, _main).
THEOREM GateTellsTheTruth == Spec => []GateIsHonest
<1>1. TypeOK /\ Safety => GateIsHonest
  BY DEF Safety
<1> QED BY <1>1, AlwaysSafe, PTL

\* The counts of a comparison account for both runs (diff_against_baseline).
THEOREM ComparisonsAddUp == Spec => []DiffAddsUp
<1>1. TypeOK /\ Safety => DiffAddsUp
  BY DEF Safety
<1> QED BY <1>1, AlwaysSafe, PTL
=============================================================================
