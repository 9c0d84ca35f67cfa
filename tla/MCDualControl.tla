---------------------------- MODULE MCDualControl ----------------------------
(* A small instance of DualControl: an intent only level 1 may approve, as the *)
(* change of a level, and one that levels 1 and 2 may, as a suspension.        *)
EXTENDS DualControl, TLC

CONSTANTS promote, suspend

MCApproverTiers ==
    [x \in {promote, suspend} |-> IF x = promote THEN {1} ELSE {1, 2}]

\* Nothing tells two administrators, or two requests being handled, apart.
Symmetry == Permutations(Admins) \cup Permutations(Procs)
===============================================================================
