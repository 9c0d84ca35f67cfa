------------------------------ MODULE MCProjector ------------------------------
(* Two rows and two instances.  Exploring everything at once is out of reach, so each    *)
(* behaviour has one of three scenes: one instance and all that becomes of notifications; *)
(* two instances that overlap; two instances and all of it for one row, which is edited.  *)
EXTENDS Projector

CONSTANTS i1, i2

VARIABLE scene

MCInit == Init /\ scene \in {"alone", "together", "one_row"}

MayWrite(r)   == IF scene = "one_row" THEN r = 1 ELSE at[r] = 0
MayRun(i)     == scene = "alone" => i = i1
MayTidy       == scene # "together"

Runs(i)       == MayRun(i) /\ Sweep(i) /\ UNCHANGED scene

MCNext ==
    \/ /\ \E r \in Rows : (MayWrite(r) /\ BeginWrite(r)) \/ CommitWrite(r) \/ Settle(r)
       /\ UNCHANGED scene
    \/ \E i \in Instances : Runs(i)
    \/ \E i \in Instances : MayRun(i) /\ Fail(i) /\ UNCHANGED scene
    \/ MayTidy /\ (\E b \in Boxes : Archive(b) \/ Unarchive(b) \/ Purge(b)) /\ UNCHANGED scene
    \/ MayTidy /\ AutoArchive /\ UNCHANGED scene
    \/ Tick /\ UNCHANGED scene

MCSpec == /\ MCInit /\ [][MCNext]_<<vars, scene>>
          /\ \A i \in Instances : WF_<<vars, scene>>(Runs(i))
================================================================================
