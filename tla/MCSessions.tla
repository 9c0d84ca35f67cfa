----------------------------- MODULE MCSessions -----------------------------
(* A small instance of Sessions. *)
EXTENDS Sessions, TLC

\* Nothing tells two sessions, two requests or two tokens apart.
Symmetry == Permutations(Sids) \cup Permutations(Procs) \cup Permutations(Tokens)
=============================================================================
