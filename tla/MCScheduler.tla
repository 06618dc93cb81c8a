---------------------------- MODULE MCScheduler ----------------------------
(* Small instances of Scheduler for TLC.                                    *)
EXTENDS Scheduler, TLC

CONSTANTS k1, k2, l1, l2

MCKeys == {k1, k2}
MCLanes == {l1, l2}
MCSymmetry == Permutations(MCKeys) \cup Permutations(MCLanes)
=============================================================================
