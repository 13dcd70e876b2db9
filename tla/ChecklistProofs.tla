--------------------------- MODULE ChecklistProofs ---------------------------
(***************************************************************************)
(* Theorems about the checklist and the way its file is written.           *)
(*                                                                         *)
(* Checklist, for any names, files and scans: the type invariant, and the  *)
(* action properties of a regeneration, which follow from the types and    *)
(* from the lemmas of ChecklistItemsProofs.                                *)
(*                                                                         *)
(* AtomicWrite, for any number of writers, and with every error,           *)
(* interrupt, kill and power loss: readers and power losses find whole     *)
(* texts, and the path implements AtomicRegister.  The invariant says how  *)
(* far a call has come (Progress), that what landed is whole on disk too   *)
(* (LandedWhole), that the path only ever names such a file (PathLanded),  *)
(* and who can have landed (LandedAfter).                                  *)
(***************************************************************************)
EXTENDS Checklist, AtomicWrite, ChecklistItemsProofs

\* The invariant of the run: the types.
THEOREM TypeCorrect == Spec => []TypeOK
<1>1. Init => TypeOK
  BY RunAssumption DEF Init, TypeOK, Idle, NoItems, Checklists
<1>2. TypeOK /\ [Next]_vars => TypeOK'
  <2> SUFFICES ASSUME TypeOK, [Next]_vars PROVE TypeOK'
    OBVIOUS
  <2> USE DEF TypeOK
  <2>1. Idle \in [pc : {"idle", "scanned", "read"}, found : SUBSET ItemKey,
                  scanned : SUBSET Files, truth : SUBSET ItemKey, prev : Checklists,
                  by : SUBSET ItemKey]
    BY DEF Idle, NoItems, Checklists
  <2>2. Change => changes' \in 0..MaxChanges
    BY RunAssumption DEF Change
  <2>3. CASE EditCode
    BY <2>2, <2>3 DEF EditCode
  <2>4. ASSUME NEW k \in ItemKey, TickBox(k) \/ UntickBox(k) PROVE TypeOK'
    BY <2>2, <2>4 DEF TickBox, UntickBox, Checklists
  <2>5. ASSUME NEW files \in Scans, ScanFiles(files) PROVE TypeOK'
    <3>1. NoItems \in Checklists
      BY DEF NoItems, Checklists
    <3>2. files \subseteq Files
      BY RunAssumption
    <3> QED BY <2>5, <3>1, <3>2 DEF ScanFiles
  <2>6. CASE ReadPrevious
    BY <2>6 DEF ReadPrevious
  <2>7. CASE RefuseForeign
    BY <2>7, <2>1 DEF RefuseForeign
  <2>8. CASE WriteChecklist
    <3>1. list' \in Checklists
      BY <2>8, BuildItemsType DEF WriteChecklist
    <3>2. Ticked(list') \subseteq ItemKey
      BY DEF Ticked
    <3> QED BY <2>8, <2>1, <3>1, <3>2 DEF WriteChecklist
  <2>9. CASE RunFails
    BY <2>9, <2>1 DEF RunFails
  <2>10. CASE UNCHANGED vars
    BY <2>10 DEF vars
  <2> QED
    BY <2>3, <2>4, <2>5, <2>6, <2>7, <2>8, <2>9, <2>10 DEF Next
<1> QED
  BY <1>1, <1>2, PTL DEF Spec

-----------------------------------------------------------------------------
\* No regeneration loses a tick it read: it is written back on its own box,
\* or on the new box its item moved to.
THEOREM TicksSurvive == Spec => NoTickLost
<1>1. TypeOK => (WriteChecklist => TicksCarried)
  <2> SUFFICES ASSUME TypeOK, WriteChecklist, NEW k \in Ticked(run.prev), k \notin Ticked(list')
               PROVE  /\ k \notin Listed(list')
                      /\ \E n \in Ticked(list') \ Listed(run.prev) : SameItem(n, k)
    BY DEF TicksCarried
  <2>1. /\ run.found \in SUBSET ItemKey /\ run.prev \in Checklists
        /\ list' = BuildItems(run.found, run.prev, run.scanned)
        /\ k \in ItemKey /\ k \in Listed(run.prev)
    BY DEF TypeOK, WriteChecklist, Ticked, Listed
  <2>2. k \notin Listed(list')
    BY <2>1, BoxAfter
  <2>3. PICK p \in Moves(run.found, run.prev) : p[2] = k
    BY <2>1, <2>2, BoxAfter
  <2>4. p[1] \in Ticked(list') /\ p[1] \notin Listed(run.prev) /\ SameItem(p[1], k)
    BY <2>1, <2>3, MoveBoxes, MovePairs
  <2> QED
    BY <2>2, <2>4
<1> QED
  BY <1>1, TypeCorrect, PTL DEF NoTickLost

\* A regeneration never merges or drops an item: it leaves as many boxes
\* and as many ticks as it read, and a box for all it found.
THEOREM NothingMerges == Spec => BoxesNeverMerge
<1>1. TypeOK => (WriteChecklist => NoFewerBoxes)
  <2> SUFFICES ASSUME TypeOK, WriteChecklist PROVE NoFewerBoxes
    OBVIOUS
  <2>1. /\ run.found \in SUBSET ItemKey /\ run.prev \in Checklists
        /\ list' = BuildItems(run.found, run.prev, run.scanned)
    BY DEF TypeOK, WriteChecklist
  <2>2. /\ Cardinality(Listed(list')) >= Cardinality(Listed(run.prev))
        /\ Cardinality(Ticked(list')) >= Cardinality(Ticked(run.prev))
    BY <2>1, BoxesAreKept, FiniteAssumption
  <2>3. ASSUME NEW k \in run.found PROVE k \in Listed(list')
    <3>1. k \in ItemKey /\ \A p \in Moves(run.found, run.prev) : p[2] # k
      BY <2>1, MovePairs
    <3> QED BY <2>1, <3>1, BoxAfter
  <2> QED
    BY <2>2, <2>3 DEF NoFewerBoxes
<1> QED
  BY <1>1, TypeCorrect, PTL DEF BoxesNeverMerge

\* Scanning a subset never marks the rest done, whatever was scanned,
\* filtered or missed.
THEOREM RestIsLeftOpen == Spec => SubsetLeavesRestOpen
<1>1. TypeOK => (WriteChecklist => RestStaysOpen)
  <2> SUFFICES ASSUME TypeOK, WriteChecklist,
                      NEW k \in Listed(run.prev) \ Ticked(run.prev), k.file \notin run.scanned
               PROVE  \/ k \in Listed(list') \ Ticked(list')
                      \/ /\ k \notin Listed(list')
                         /\ \E n \in Listed(list') \ Ticked(list') : n \in run.found /\ SameItem(n, k)
    BY DEF RestStaysOpen
  <2>1. /\ run.found \in SUBSET ItemKey /\ run.prev \in Checklists
        /\ list' = BuildItems(run.found, run.prev, run.scanned)
        /\ k \in ItemKey
    BY DEF TypeOK, WriteChecklist, Listed
  <2>2. CASE \E p \in Moves(run.found, run.prev) : p[2] = k
    <3>1. PICK p \in Moves(run.found, run.prev) : p[2] = k
      BY <2>2
    <3>2. /\ p[1] \in Listed(list') \ Ticked(list') /\ p[1] \in run.found
          /\ SameItem(p[1], k) /\ k \notin Listed(list')
      BY <2>1, <3>1, MoveBoxes, MovePairs
    <3> QED BY <3>2
  <2>3. CASE \A p \in Moves(run.found, run.prev) : p[2] # k
    <3>1. k \notin Carried(Moves(run.found, run.prev), run.prev)
      BY <2>1, MovePairs DEF Carried
    <3>2. k \notin Gone(run.found, run.prev, run.scanned)
      BY DEF Gone
    <3> QED BY <2>1, <2>3, <3>1, <3>2, BoxAfter
  <2> QED
    BY <2>2, <2>3
<1> QED
  BY <1>1, TypeCorrect, PTL DEF SubsetLeavesRestOpen

\* A run that saw the whole source leaves open only what is in it and has a
\* box for all of it.
THEOREM FullScanIsExact == Spec => FullScanExact
<1>1. TypeOK => (WriteChecklist /\ SawEverything => ListMatchesSource)
  <2> SUFFICES ASSUME TypeOK, WriteChecklist, SawEverything PROVE ListMatchesSource
    OBVIOUS
  <2>1. /\ run.found \in SUBSET ItemKey /\ run.prev \in Checklists
        /\ list' = BuildItems(run.found, run.prev, run.scanned)
    BY DEF TypeOK, WriteChecklist
  <2>2. ASSUME NEW k \in Listed(list') \ Ticked(list') PROVE k \in run.found
    <3>1. k \in ItemKey /\ k.file \in run.scanned
      BY DEF Listed, SawEverything, ItemKey
    <3> QED BY <2>1, <3>1, BoxAfter DEF Gone
  <2>3. ASSUME NEW k \in run.found PROVE k \in Listed(list')
    <3>1. k \in ItemKey
      BY <2>1
    <3>2. \A p \in Moves(run.found, run.prev) : p[2] # k
      BY <2>1, MovePairs
    <3> QED BY <2>1, <3>1, <3>2, BoxAfter
  <2> QED
    BY <2>2, <2>3 DEF ListMatchesSource, SawEverything
<1> QED
  BY <1>1, TypeCorrect, PTL DEF FullScanExact

-----------------------------------------------------------------------------
\* Every regeneration a run can make is idempotent.
THEOREM RegenerationIdempotent == Spec => []Idempotent
<1>1. TypeOK => Idempotent
  BY BuildItemsIdempotent DEF TypeOK, Idempotent
<1> QED
  BY <1>1, TypeCorrect, PTL

-----------------------------------------------------------------------------
(* The file *)

Whole(i) == file[i].data = "whole" /\ file[i].disk = "whole"

Progress ==
    \A w \in Writers :
        /\ pc[w] = "flushed" => file[w].data = "whole"
        /\ pc[w] \in {"synced", "chmodded"} => Whole(w)

LandedWhole == Whole(Original) /\ \A w \in landed : Whole(w)

PathLanded ==
    /\ dest \in landed \union {Original, None}
    /\ diskDest \in landed \union {Original, None}

LandedAfter ==
    \A w \in Writers :
        /\ pc[w] \in {"start", "named", "created"} \union InBlock => w \notin landed
        /\ pc[w] \in {"replaced", "returned"} => w \in landed

\* Only a call that created its temporary file has one to clean up, which is
\* gone with the rename and when the call has ended, if it was to be removed.
ErrorCleans ==
    \A w \in Writers :
        /\ pc[w] \in {"start", "named", "replaced", "returned"} => w \notin temps
        /\ pc[w] = "raised" /\ w \in temps => w \in stray
        /\ w \in errored => pc[w] \in {"cleanup", "raised", "dead"} /\ w \notin landed

Inv == WriteTypeOK /\ Progress /\ LandedWhole /\ PathLanded /\ LandedAfter /\ ErrorCleans

USE DEF InBlock, Ended

LEMMA WriteInitInv == WriteInit => Inv
  BY InodeAssumption
     DEF WriteInit, Inv, WriteTypeOK, Inodes, Extent, Modes, Steps, Progress, LandedWhole, Whole,
         PathLanded, LandedAfter, ErrorCleans

\* The steps of the call.
LEMMA StepInv ==
    ASSUME Inv, NEW w \in Writers, Step(w)
    PROVE  Inv'
<1> USE DEF Inv, WriteTypeOK, Inodes, Progress, LandedWhole, Whole, PathLanded, LandedAfter, ErrorCleans,
           Goto
<1>1. CASE ModeFor(w)
  BY <1>1, InodeAssumption DEF ModeFor, Steps, Modes
<1>2. CASE CreateTemp(w)
  BY <1>2 DEF CreateTemp, Steps
<1>3. CASE EnterBlock(w)
  BY <1>3 DEF EnterBlock, Steps
<1>4. CASE WriteSome(w)
  BY <1>4, InodeAssumption DEF WriteSome, Extent
<1>5. CASE Flush(w)
  BY <1>5, InodeAssumption DEF Flush, Extent, Steps
<1>6. CASE Fsync(w)
  BY <1>6, InodeAssumption DEF Fsync, Extent, Steps
<1>7. CASE Chmod(w)
  BY <1>7, InodeAssumption DEF Chmod, Modes, Steps
<1>8. CASE Replace(w)
  BY <1>8, InodeAssumption DEF Replace, Steps
<1>9. CASE Return(w)
  BY <1>9 DEF Return, Steps
<1>10. CASE Cleanup(w)
  BY <1>10 DEF Cleanup, Steps
<1> QED
  BY <1>1, <1>2, <1>3, <1>4, <1>5, <1>6, <1>7, <1>8, <1>9, <1>10 DEF Step

\* What goes wrong, and what happens around the calls.
LEMMA OtherInv ==
    ASSUME Inv,
           \/ \E w \in Writers : Error(w) \/ Interrupt(w) \/ CleanupFails(w) \/ Kill(w) \/ WriteBack(w)
           \/ SyncDirectory \/ PowerLoss \/ UserChmods \/ UserRemoves
    PROVE  Inv'
<1> USE DEF Inv, WriteTypeOK, Inodes, Progress, LandedWhole, Whole, PathLanded, LandedAfter, ErrorCleans,
           Goto
<1>1. ASSUME NEW w \in Writers, Error(w) PROVE Inv'
  BY <1>1 DEF Error, Steps
<1>2. ASSUME NEW w \in Writers, Interrupt(w) PROVE Inv'
  BY <1>2 DEF Interrupt, Steps
<1>3. ASSUME NEW w \in Writers, Kill(w) PROVE Inv'
  BY <1>3 DEF Kill, Steps
<1>4. ASSUME NEW w \in Writers, WriteBack(w) PROVE Inv'
  BY <1>4, InodeAssumption DEF WriteBack, Extent
<1>9. ASSUME NEW w \in Writers, CleanupFails(w) PROVE Inv'
  BY <1>9 DEF CleanupFails, Steps
<1>5. CASE SyncDirectory
  BY <1>5 DEF SyncDirectory
<1>6. CASE PowerLoss
  BY <1>6 DEF PowerLoss, Extent, Steps
<1>7. CASE UserChmods
  BY <1>7 DEF UserChmods, Modes
<1>8. CASE UserRemoves
  BY <1>8 DEF UserRemoves
<1> QED
  BY <1>1, <1>2, <1>3, <1>4, <1>5, <1>6, <1>7, <1>8, <1>9

\* The inductive invariant holds.
THEOREM WriteInvariant == WriteSpec => []Inv
<1>1. Inv /\ UNCHANGED writeVars => Inv'
  BY DEF Inv, WriteTypeOK, Progress, LandedWhole, Whole, PathLanded, LandedAfter, ErrorCleans, writeVars
<1>2. Inv /\ [WriteNext]_writeVars => Inv'
  BY <1>1, StepInv, OtherInv DEF WriteNext
<1> QED
  BY WriteInitInv, <1>2, PTL DEF WriteSpec

\* Type correctness.
THEOREM WriteTypeCorrect == WriteSpec => []WriteTypeOK
<1>1. Inv => WriteTypeOK
  BY DEF Inv
<1> QED
  BY <1>1, WriteInvariant, PTL

\* A reader never finds a partial text, for any number of writers.
THEOREM ReadersSeeWhole == WriteSpec => []DestWhole
<1>1. Inv => DestWhole
  BY DEF Inv, LandedWhole, Whole, PathLanded, DestWhole
<1> QED
  BY <1>1, WriteInvariant, PTL

\* Nor does whoever reads the path after a power loss.
THEOREM PowerLossLeavesWhole == WriteSpec => []PowerLossSafe
<1>1. Inv => PowerLossSafe
  BY DEF Inv, LandedWhole, Whole, PathLanded, PowerLossSafe
<1> QED
  BY <1>1, WriteInvariant, PTL

\* A call that fails leaves the path alone, and no temporary file but one that
\* it could not remove.
THEOREM ErrorsLeaveNothing == WriteSpec => []ErrorLeavesNothing
<1>1. Inv => ErrorLeavesNothing
  BY DEF Inv, WriteTypeOK, ErrorCleans, ErrorLeavesNothing
<1> QED
  BY <1>1, WriteInvariant, PTL

-----------------------------------------------------------------------------
(* Permissions. *)

\* What a call is to give its file was never a temporary file's mode, since it
\* was read off a file the path named; so what landed has it no more.
ModeInv ==
    /\ file[Original].mode # "private"
    /\ \A w \in Writers : mode[w] # "private"
    /\ \A w \in Writers : pc[w] = "chmodded" \/ w \in landed => file[w].mode # "private"

LEMMA StepModes ==
    ASSUME Inv, ModeInv, NEW w \in Writers, Step(w)
    PROVE  ModeInv'
<1> USE DEF ModeInv, Inv, WriteTypeOK, Inodes, PathLanded, LandedAfter, Goto
<1>1. CASE ModeFor(w)
  BY <1>1 DEF ModeFor
<1>2. CASE Chmod(w)
  BY <1>2, InodeAssumption DEF Chmod
<1>3. CASE Replace(w)
  BY <1>3 DEF Replace
<1>4. CASE WriteSome(w) \/ Flush(w) \/ Fsync(w)
  BY <1>4, InodeAssumption DEF WriteSome, Flush, Fsync
<1>5. CASE CreateTemp(w) \/ EnterBlock(w) \/ Return(w) \/ Cleanup(w)
  BY <1>5 DEF CreateTemp, EnterBlock, Return, Cleanup
<1> QED
  BY <1>1, <1>2, <1>3, <1>4, <1>5 DEF Step

LEMMA OtherModes ==
    ASSUME Inv, ModeInv,
           \/ \E w \in Writers : Error(w) \/ Interrupt(w) \/ CleanupFails(w) \/ Kill(w) \/ WriteBack(w)
           \/ SyncDirectory \/ PowerLoss \/ UserChmods \/ UserRemoves
    PROVE  ModeInv'
<1> USE DEF ModeInv, Inv, WriteTypeOK, Inodes, Goto
<1>1. ASSUME NEW w \in Writers, Error(w) \/ Interrupt(w) \/ CleanupFails(w) \/ Kill(w)
      PROVE  ModeInv'
  BY <1>1 DEF Error, Interrupt, CleanupFails, Kill
<1>2. ASSUME NEW w \in Writers, WriteBack(w) PROVE ModeInv'
  BY <1>2, InodeAssumption DEF WriteBack
<1>3. CASE SyncDirectory \/ UserRemoves
  BY <1>3 DEF SyncDirectory, UserRemoves
<1>4. CASE PowerLoss
  BY <1>4 DEF PowerLoss
<1>5. CASE UserChmods
  BY <1>5 DEF UserChmods
<1> QED
  BY <1>1, <1>2, <1>3, <1>4, <1>5

\* The path is never left with a temporary file's permissions, however many
\* calls take theirs from one another's results.
THEOREM PermissionsKept == WriteSpec => []ModeKept
<1>1. WriteInit => ModeInv
  BY InodeAssumption DEF WriteInit, ModeInv, Inodes
<1>2. Inv /\ ModeInv /\ UNCHANGED writeVars => ModeInv'
  BY DEF ModeInv, writeVars
<1>3. Inv /\ ModeInv /\ [WriteNext]_writeVars => ModeInv'
  BY <1>2, StepModes, OtherModes DEF WriteNext
<1>4. Inv /\ ModeInv => ModeKept
  BY DEF Inv, PathLanded, ModeInv, ModeKept, WriteTypeOK
<1> QED
  BY <1>1, <1>3, <1>4, WriteInvariant, PTL DEF WriteSpec

-----------------------------------------------------------------------------
(* Refinement. *)

Status == [w \in Writers |-> StatusOf(w)]

\* What the register shows, under the refinement mapping, is what the path
\* names: the invariant makes Shown the identity.
LEMMA PathShows ==
    Inv => /\ Shown(dest, [i \in Inodes |-> file[i].data]) = dest
           /\ Shown(diskDest, [i \in Inodes |-> file[i].disk]) = diskDest
  BY DEF Inv, LandedWhole, Whole, PathLanded, Shown, WriteTypeOK, Inodes

\* So a step of the register is a step on dest, diskDest and Status.
LEMMA RegisterStep ==
    ASSUME Inv, Inv',
           \/ \E w \in Writers : /\ StatusOf(w) = "pending"
                                 /\ Status' = [Status EXCEPT ![w] = "landed"]
                                 /\ dest' = w /\ diskDest' = diskDest
           \/ \E w \in Writers : /\ StatusOf(w) = "pending"
                                 /\ Status' = [Status EXCEPT ![w] = "given up"]
                                 /\ dest' = dest /\ diskDest' = diskDest
           \/ dest' = None /\ diskDest' = diskDest /\ Status' = Status
           \/ dest' = dest /\ diskDest' = dest /\ Status' = Status
           \/ /\ dest' = diskDest /\ diskDest' = diskDest
              /\ \A w \in Writers : Status[w]' # Status[w] =>
                    Status[w] = "pending" /\ Status[w]' = "given up"
           \/ dest' = dest /\ diskDest' = diskDest /\ Status' = Status
    PROVE  [Register!Next]_(Register!vars)
<1> DEFINE value   == Shown(dest, [i \in Inodes |-> file[i].data])
           durable == Shown(diskDest, [i \in Inodes |-> file[i].disk])
<1>1. value = dest /\ durable = diskDest
  BY PathShows
<1>2. value' = dest' /\ durable' = diskDest'
  BY DEF Inv, LandedWhole, Whole, PathLanded, Shown, WriteTypeOK, Inodes
<1>3. Status \in [Writers -> Register!Statuses] /\ Status' \in [Writers -> Register!Statuses]
  BY DEF Status, StatusOf, Register!Statuses
<1>4. \A w \in Writers : Status[w] = StatusOf(w)
  BY DEF Status
<1> HIDE DEF value, durable
<1>5. \/ \E w \in Writers : /\ Status[w] = "pending"
                            /\ Status' = [Status EXCEPT ![w] = "landed"]
                            /\ value' = w /\ durable' = durable
      \/ \E w \in Writers : /\ Status[w] = "pending"
                            /\ Status' = [Status EXCEPT ![w] = "given up"]
                            /\ value' = value /\ durable' = durable
      \/ value' = None /\ durable' = durable /\ Status' = Status
      \/ value' = value /\ durable' = value /\ Status' = Status
      \/ /\ value' = durable /\ durable' = durable
         /\ Status' \in [Writers -> Register!Statuses]
         /\ \A w \in Writers : Status'[w] # Status[w] =>
               Status[w] = "pending" /\ Status'[w] = "given up"
      \/ value' = value /\ durable' = durable /\ Status' = Status
  BY <1>1, <1>2, <1>3, <1>4
<1> QED
  BY <1>5 DEF value, durable, Status, Register!Next, Register!vars, Register!Land,
              Register!GiveUp, Register!Remove, Register!Persist, Register!PowerLoss

\* Every behaviour of AtomicWrite is a behaviour of AtomicRegister: the
\* rename lands the text, the first step that cannot lead to it any more
\* gives it up, and the rest of the call is a stutter.
THEOREM WriteImplementsRegister == WriteSpec => ImplementsRegister
<1>1. WriteInit => Register!Init
  <2> SUFFICES ASSUME WriteInit PROVE Register!Init
    OBVIOUS
  <2>1. Shown(dest, [i \in Inodes |-> file[i].data]) = dest
    BY DEF WriteInit, Shown, Inodes
  <2>2. Shown(diskDest, [i \in Inodes |-> file[i].disk]) = diskDest
    BY DEF WriteInit, Shown, Inodes
  <2>3. [w \in Writers |-> StatusOf(w)] = [w \in Writers |-> "pending"]
    BY DEF WriteInit, StatusOf
  <2> QED
    BY <2>1, <2>2, <2>3 DEF WriteInit, Register!Init
<1>2. Inv /\ Inv' /\ [WriteNext]_writeVars => [Register!Next]_(Register!vars)
  <2> SUFFICES ASSUME Inv, Inv', [WriteNext]_writeVars PROVE [Register!Next]_(Register!vars)
    OBVIOUS
  <2> USE DEF Inv, WriteTypeOK, LandedAfter, Goto
  <2>1. ASSUME NEW w \in Writers, Step(w), ~Replace(w)
        PROVE  dest' = dest /\ diskDest' = diskDest /\ Status' = Status
    BY <2>1 DEF Step, ModeFor, CreateTemp, EnterBlock, WriteSome, Flush, Fsync, Chmod, Return,
                Cleanup, Status, StatusOf
  <2>2. ASSUME NEW w \in Writers, Replace(w)
        PROVE  /\ StatusOf(w) = "pending"
               /\ Status' = [Status EXCEPT ![w] = "landed"]
               /\ dest' = w /\ diskDest' = diskDest
    BY <2>2 DEF Replace, Status, StatusOf
  <2>3. ASSUME NEW w \in Writers, Error(w) \/ Interrupt(w) \/ CleanupFails(w) \/ Kill(w)
        PROVE  /\ dest' = dest /\ diskDest' = diskDest
               /\ \/ Status' = Status
                  \/ /\ StatusOf(w) = "pending"
                     /\ Status' = [Status EXCEPT ![w] = "given up"]
    <3>1. /\ dest' = dest /\ diskDest' = diskDest /\ landed' = landed
          /\ pc[w] \notin Ended /\ pc'[w] \in {"cleanup"} \union Ended
          /\ pc' = [pc EXCEPT ![w] = pc'[w]]
      BY <2>3 DEF Error, Interrupt, CleanupFails, Kill
    <3>2. \A v \in Writers \ {w} : StatusOf(v)' = StatusOf(v)
      BY <3>1 DEF StatusOf
    <3>3. CASE w \in landed \/ pc[w] = "cleanup"
      <4>1. StatusOf(w)' = StatusOf(w)
        BY <3>1, <3>3 DEF StatusOf
      <4> QED BY <3>1, <3>2, <4>1 DEF Status
    <3>4. CASE w \notin landed /\ pc[w] # "cleanup"
      <4>1. StatusOf(w) = "pending" /\ StatusOf(w)' = "given up"
        BY <3>1, <3>4 DEF StatusOf
      <4> QED BY <3>1, <3>2, <4>1 DEF Status
    <3> QED BY <3>3, <3>4
  <2>4. ASSUME NEW w \in Writers, WriteBack(w)
        PROVE  dest' = dest /\ diskDest' = diskDest /\ Status' = Status
    BY <2>4 DEF WriteBack, Status, StatusOf
  <2>5. CASE SyncDirectory
    BY <2>5, RegisterStep DEF SyncDirectory, Status, StatusOf
  <2>6. CASE PowerLoss
    <3>1. dest' = diskDest /\ diskDest' = diskDest
      BY <2>6 DEF PowerLoss
    <3>2. \A w \in Writers : Status[w]' # Status[w] =>
              Status[w] = "pending" /\ Status[w]' = "given up"
      BY <2>6 DEF PowerLoss, Status, StatusOf
    <3> QED BY <3>1, <3>2, RegisterStep
  <2>7. CASE UserChmods
    BY <2>7, RegisterStep DEF UserChmods, Status, StatusOf
  <2>8. CASE UserRemoves
    BY <2>8, RegisterStep DEF UserRemoves, Status, StatusOf
  <2>9. CASE UNCHANGED writeVars
    BY <2>9, RegisterStep DEF writeVars, Status, StatusOf
  <2> QED
    BY <2>1, <2>2, <2>3, <2>4, <2>5, <2>6, <2>7, <2>8, <2>9, RegisterStep DEF WriteNext
<1> QED
  BY <1>1, <1>2, WriteInvariant, PTL DEF WriteSpec, ImplementsRegister, Register!Spec

=============================================================================
