---------------------------- MODULE MCAuditTrail ----------------------------
(* A small instance of AuditTrail: exports of the first instant, and retention *)
(* that is lengthened before a restamp.                                        *)
EXTENDS AuditTrail, TLC

MCRanges == {[from |-> 0, to |-> 1]}

\* Nothing tells two exports, or two processes, apart.
Symmetry == Permutations(Exports) \cup Permutations(Procs)
=============================================================================
