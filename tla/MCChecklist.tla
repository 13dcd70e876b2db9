----------------------------- MODULE MCChecklist -----------------------------
(* Small instances of Checklist: two routines of the same name in two      *)
(* packages and two files, so an item can be found under the other file,   *)
(* under the other package, or under an ambiguous pair of both.            *)
EXTENDS Checklist, TLC

MCUpperName == [o \in Objects |-> o]
MCRoutineOf == [o \in Objects |-> "INIT"]
MCSymmetry  == Permutations(Files)
MCScans     == (SUBSET Files) \ {{}}
MCFilters   == {ItemKey} \union {[detector : Detectors, object : {o}, file : Files] : o \in Objects}
=============================================================================
