---------------------------- MODULE MCAtomicWrite ----------------------------
(* Two or three calls on one path: what one publishes, the next replaces.   *)
EXTENDS AtomicWrite, TLC

MCSymmetry == Permutations(Writers)
=============================================================================
