---------------------------- MODULE MCAdministrators ----------------------------
(* Two Developers and a third account, whose beginning each configuration chooses. *)
EXTENDS Administrators, TLC

CONSTANTS d1, d2, s

MCTier   == [a \in {d1, d2, s} |-> IF a = s THEN 2 ELSE 1]
MCActive == [a \in {d1, d2, s} |-> "active"]
MCAbsent == [a \in {d1, d2, s} |-> IF a = s THEN "absent" ELSE "active"]
MCPending == [a \in {d1, d2, s} |-> IF a = s THEN "pending" ELSE "active"]
MCDevelopers == [a \in {d1, d2, s} |-> Developer]

\* Of the deadline passing, a request that dies or fails and a second queued action, only
\* one at a time: a second row is there only while nothing has disturbed any.
OneDisturbed ==
    \/ rows[2].status = "none"
    \/ now = 0 /\ (\A i \in 1..MaxRequests : ~rows[i].failed /\ fate[i] \in {"open", "done", "moot"})

\* The Developers begin alike, and nothing tells two requests being handled apart.
Symmetry    == Permutations({d1, d2}) \cup Permutations(Procs)
SymmetryAll == Permutations({d1, d2, s})
===============================================================================
