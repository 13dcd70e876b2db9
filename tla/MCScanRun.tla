----------------------------- MODULE MCScanRun -----------------------------
(* Two files, a kind the detectors find and one --check-connect-by finds,   *)
(* and the command lines of a project that saves, compares and gates.       *)
EXTENDS ScanRun

CONSTANTS f, g, s, t, static, loop

Held(n, m) == [k \in {static, loop} |-> IF k = static THEN n ELSE m]
MCContents == {Held(0, 0), Held(2, 0), Held(1, 1)}

Line(paths, save, baseline) ==
    [paths |-> paths, save |-> save, baseline |-> baseline, connect |-> FALSE, newer |-> FALSE,
     gate |-> TRUE, human |-> TRUE]

MCArgs ==
    {Line({f, g}, s, NoSlot), [Line({f, g}, t, s) EXCEPT !.gate = FALSE], Line({f}, NoSlot, s),
     Line({f}, s, s), [Line({f}, s, NoSlot) EXCEPT !.connect = TRUE],
     [Line({f}, NoSlot, s) EXCEPT !.newer = TRUE, !.human = FALSE]}
=============================================================================
