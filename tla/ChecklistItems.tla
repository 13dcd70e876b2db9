--------------------------- MODULE ChecklistItems ---------------------------
(***************************************************************************)
(* What regenerating a checklist does to its boxes: the pure part of       *)
(* checklist.py, used by Checklist (`-f checklist`) and by MigrateRun      *)
(* (`--migrate`), and the lemmas' subject in ChecklistItemsProofs.         *)
(*                                                                         *)
(* An item key is (detector, object, file).  Object names are opaque: what *)
(* _moves() compares of them, the name in upper case and the routine       *)
(* without its package, is given by the constants UpperName and RoutineOf. *)
(* A checklist maps every key to "none" (no box), "open" or "ticked".      *)
(***************************************************************************)
EXTENDS FiniteSets

CONSTANTS
    Detectors,   \* detector names, the pseudo detector "unchecked" among them
    Objects,     \* object names as the findings spell them
    Qualified,   \* the objects with a dot in their name
    UpperName,   \* [Objects -> ...], object_name.upper()
    RoutineOf,   \* [Objects -> ...], its part after the last dot
    Files        \* normalized source files

ItemKey == [detector : Detectors, object : Objects, file : Files]

ASSUME NamesAssumption ==
    /\ Qualified \subseteq Objects
    /\ DOMAIN UpperName = Objects
    /\ DOMAIN RoutineOf = Objects

Checklists == [ItemKey -> {"none", "open", "ticked"}]
NoItems == [k \in ItemKey |-> "none"]

Listed(l) == {k \in ItemKey : l[k] # "none"}
Ticked(l) == {k \in ItemKey : l[k] = "ticked"}

\* The two signatures _moves() compares keys by.
SameObject  == [k \in ItemKey |-> <<k.detector, UpperName[k.object]>>]
SameRoutine == [k \in ItemKey |-> <<k.detector, RoutineOf[k.object]>>]

\* A tick may follow its item from key k to key n.
SameItem(n, k) == SameObject[n] = SameObject[k] \/ SameRoutine[n] = SameRoutine[k]

\* Mutant of Match: a new item takes the place of every old candidate.
MatchLoose(sig, new, old) ==
    {p \in new \X old : sig[p[1]] = sig[p[2]] /\ \A n \in new : sig[n] = sig[p[1]] => n = p[1]}

\* match(): the pairs <<new, old>> that are each other's only candidate.
Match(sig, new, old) ==
    {p \in new \X old :
        /\ sig[p[1]] = sig[p[2]]
        /\ \A n \in new : sig[n] = sig[p[1]] => n = p[1]
        /\ \A o \in old : sig[o] = sig[p[2]] => o = p[2]}

\* Mutant of Moves: an item already in the checklist can be moved onto.
MovesOntoListed(now, prev) ==
    LET old     == Listed(prev) \ now
        found   == Match(SameObject, now, old)
        restNew == {n \in now : n.object \in Qualified /\ \A p \in found : p[1] # n}
        restOld == {o \in old : o.object \in Qualified /\ \A p \in found : p[2] # o}
    IN  found \union Match(SameRoutine, restNew, restOld)

\* _moves(): first the same object in another file, then, among the
\* qualified names left over, the same routine in another package.
Moves(now, prev) ==
    LET new     == now \ Listed(prev)
        old     == Listed(prev) \ now
        found   == Match(SameObject, new, old)
        restNew == {n \in new : n.object \in Qualified /\ \A p \in found : p[1] # n}
        restOld == {o \in old : o.object \in Qualified /\ \A p \in found : p[2] # o}
    IN  found \union Match(SameRoutine, restNew, restOld)

\* Mutant of Carried: a moved item starts again, open.
CarriedNothing(moves, prev) == {}

\* Items found now under another key than before, with a ticked old key.
Carried(moves, prev) == {k \in ItemKey : \E p \in moves : p[1] = k /\ p[2] \in Ticked(prev)}

\* Mutants of Gone: the scanned files are ignored; no path ever matches them.
GoneAnywhere(now, prev, scanned) == Listed(prev) \ now
GoneNever(now, prev, scanned) == {}

\* Items of a scanned file that are no longer found.
Gone(now, prev, scanned) == {k \in Listed(prev) \ now : k.file \in scanned}

\* Mutant of BuildItems: the item's state is written where its mark belongs.
BuildItemsStates(now, prev, scanned) ==
    [k \in ItemKey |-> IF k \in Gone(now, prev, scanned) THEN "gone"
                       ELSE IF k \in now THEN "open" ELSE prev[k]]

\* build_items(): the boxes after a run that found `now` in `scanned`.
BuildItems(now, prev, scanned) ==
    LET moves  == Moves(now, prev)
        listed == {k \in now \union Listed(prev) : \A p \in moves : p[2] # k}
        done   == Ticked(prev) \union Carried(moves, prev) \union Gone(now, prev, scanned)
    IN  [k \in ItemKey |-> IF k \notin listed THEN "none"
                           ELSE IF k \in done THEN "ticked" ELSE "open"]
=============================================================================
