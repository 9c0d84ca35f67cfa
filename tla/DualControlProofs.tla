--------------------------- MODULE DualControlProofs ---------------------------
(***************************************************************************)
(* The safety properties of DualControl, proved for every set of           *)
(* administrators, intents, processes and levels and for every bound.      *)
(***************************************************************************)
EXTENDS DualControl, TLAPS

\* p holds an approved request and has not answered yet.
Holding(p) == job[p].stage \in {"perform", "after", "failed"}

\* A row that exists was asked for by an administrator, for something.
RowsComplete ==
    \A i \in Ids : rows[i].status # "none" => rows[i].by \in Admins /\ rows[i].intent \in Intents

\* What a job remembers from before its last await is still true of the rows.
JobsComplete ==
    \A p \in Procs :
        /\ job[p].stage = "create" => job[p].who \in Admins /\ job[p].intent \in Intents
        /\ job[p].stage = "claim" =>
             /\ job[p].id \in Ids /\ job[p].verdict \in Verdicts /\ job[p].who \in Admins
             /\ rows[job[p].id].status # "none"
             /\ job[p].verdict = "approved" => job[p].who # rows[job[p].id].by
             /\ job[p].verdict = "withdrawn" => job[p].who = rows[job[p].id].by
        /\ Holding(p) => job[p].id \in Ids /\ rows[job[p].id].status = "approved"
        /\ job[p].stage = "perform" => performed[job[p].id] = 0

\* An approved request is held by one process at most: the one whose claim won.
OneHolder ==
    \A p, q \in Procs : Holding(p) /\ Holding(q) /\ job[p].id = job[q].id => p = q

\* The inductive invariant.
IInv == /\ TypeOK /\ RowsComplete /\ JobsComplete /\ OneHolder
        /\ OnePendingPerIntent /\ AtMostOnce /\ TwoPeople /\ TrailAgrees

-------------------------------------------------------------------------------
(* The invariant holds at the start and every step keeps it. *)

\* No request has been asked for when the service starts on an empty collection.
LEMMA InitInv == Init => IInv
<1>. SUFFICES ASSUME Init PROVE IInv
  OBVIOUS
<1>1. TypeOK
  BY ConstantsAssumption DEF Init, TypeOK, Rows, Jobs, NoRow, Idle, Statuses, Verdicts, Fates, Ids
<1>2. RowsComplete /\ JobsComplete /\ OneHolder
  BY DEF Init, RowsComplete, JobsComplete, OneHolder, Holding, NoRow, Idle
<1>3. OnePendingPerIntent /\ AtMostOnce /\ TwoPeople /\ TrailAgrees
  BY DEF Init, OnePendingPerIntent, AtMostOnce, TwoPeople, TrailAgrees, Pending, NoRow
<1>. QED
  BY <1>1, <1>2, <1>3 DEF IInv

\* The steps before the claim write no row: what they remember was just read.
LEMMA AskLookupInv ==
    ASSUME IInv, NEW p \in Procs, NEW a \in Admins, NEW x \in Intents, AskLookup(p, a, x)
    PROVE  IInv'
<1>. USE DEF IInv, AskLookup, Idle
<1>1. TypeOK'
  <2>1. now + TTL \in Nat
    BY ConstantsAssumption DEF TypeOK
  <2>. QED
    BY <2>1 DEF TypeOK, Rows, Jobs
<1>2. JobsComplete' /\ OneHolder'
  BY DEF TypeOK, JobsComplete, OneHolder, Holding
<1>3. (RowsComplete /\ OnePendingPerIntent /\ AtMostOnce /\ TwoPeople /\ TrailAgrees)'
  BY DEF RowsComplete, OnePendingPerIntent, AtMostOnce, TwoPeople, TrailAgrees, Pending
<1>. QED
  BY <1>1, <1>2, <1>3

LEMMA BeginInv ==
    ASSUME IInv, NEW p \in Procs, NEW a \in Admins, NEW t \in Levels, NEW i \in Ids,
           NEW v \in Verdicts, Begin(p, a, t, i, v)
    PROVE  IInv'
<1>. USE DEF IInv, Begin, Idle
<1>1. TypeOK'
  BY DEF TypeOK, Rows, Jobs, Ids
<1>2. JobsComplete'
  <2>1. rows[i].status # "none"
    BY DEF Decidable, Pending
  <2>2. /\ v = "approved" => a # rows[i].by
        /\ v = "withdrawn" => a = rows[i].by
    BY DEF MayDecide
  <2>. QED
    BY <2>1, <2>2 DEF TypeOK, JobsComplete, Holding
<1>3. OneHolder'
  BY DEF TypeOK, OneHolder, Holding
<1>4. (RowsComplete /\ OnePendingPerIntent /\ AtMostOnce /\ TwoPeople /\ TrailAgrees)'
  BY DEF RowsComplete, OnePendingPerIntent, AtMostOnce, TwoPeople, TrailAgrees, Pending
<1>. QED
  BY <1>1, <1>2, <1>3, <1>4

\* Updating the fields of a row or a job leaves a row or a job.
LEMMA RowUpdates ==
    ASSUME NEW r \in Rows
    PROVE  /\ [r EXCEPT !.failed = TRUE] \in Rows
           /\ \A v \in Statuses : [r EXCEPT !.status = v] \in Rows
           /\ \A v \in Statuses, a \in Admins : [r EXCEPT !.status = v, !.approver = a] \in Rows
BY DEF Rows

LEMMA JobUpdates ==
    ASSUME NEW k \in Jobs, NEW s \in {"perform", "after", "failed"}
    PROVE  [k EXCEPT !.stage = s] \in Jobs /\ Idle \in Jobs
BY DEF Jobs, Idle

\* A process that lets go of its request, for whatever reason, disturbs nothing.
LEMMA LetGo ==
    ASSUME IInv, NEW p \in Procs, job' = [job EXCEPT ![p] = Idle],
           UNCHANGED <<rows, now, decided, performed>>, fate' \in [Ids -> Fates]
    PROVE  IInv'
<1>. USE DEF IInv, Idle
<1>1. TypeOK'
  BY DEF TypeOK, Rows, Jobs
<1>2. JobsComplete' /\ OneHolder'
  BY DEF TypeOK, JobsComplete, OneHolder, Holding
<1>3. (RowsComplete /\ OnePendingPerIntent /\ AtMostOnce /\ TwoPeople /\ TrailAgrees)'
  BY DEF RowsComplete, OnePendingPerIntent, AtMostOnce, TwoPeople, TrailAgrees, Pending
<1>. QED
  BY <1>1, <1>2, <1>3

\* The partial unique index is what keeps two pending rows apart.
LEMMA CreateInv ==
    ASSUME IInv, NEW p \in Procs, Create(p)
    PROVE  IInv'
<1>. USE DEF IInv
<1>1. PICK i \in Ids :
         /\ rows[i].status = "none"
         /\ rows' = [rows EXCEPT ![i] =
                       [NoRow EXCEPT !.intent = job[p].intent, !.by = job[p].who,
                                     !.status = "pending", !.expires = job[p].expires]]
  BY DEF Create
<1>2. /\ job' = [job EXCEPT ![p] = Idle]
      /\ UNCHANGED <<now, decided, performed, fate>>
      /\ job[p].who \in Admins /\ job[p].intent \in Intents
      /\ NoneOpen(job[p].intent)
  BY DEF Create, JobsComplete, IndexAdmits
<1>3. TypeOK'
  BY <1>1, <1>2 DEF TypeOK, Rows, Jobs, NoRow, Idle, Statuses
<1>4. RowsComplete'
  BY <1>1, <1>2 DEF RowsComplete, TypeOK, NoRow
<1>5. JobsComplete'
  BY <1>1, <1>2 DEF JobsComplete, Holding, TypeOK, NoRow, Idle
<1>6. OneHolder'
  BY <1>2 DEF OneHolder, Holding, TypeOK, Idle
<1>7. OnePendingPerIntent'
  BY <1>1, <1>2 DEF OnePendingPerIntent, Pending, NoneOpen, TypeOK, NoRow
<1>8. AtMostOnce' /\ TwoPeople' /\ TrailAgrees'
  BY <1>1, <1>2 DEF AtMostOnce, TwoPeople, TrailAgrees, TypeOK, NoRow
<1>. QED
  BY <1>3, <1>4, <1>5, <1>6, <1>7, <1>8

\* The conditional update lets one decision through: no other process holds the row.
LEMMA ClaimInv ==
    ASSUME IInv, NEW p \in Procs, Claim(p)
    PROVE  IInv'
<1>. DEFINE i == job[p].id  v == job[p].verdict
<1>. USE DEF IInv
<1>1. /\ i \in Ids /\ v \in Verdicts /\ job[p].who \in Admins
      /\ rows[i].status = "pending"
      /\ v = "approved" => job[p].who # rows[i].by
      /\ v = "withdrawn" => job[p].who = rows[i].by
  BY DEF Claim, ClaimWins, Pending, JobsComplete
<1>2. /\ rows' = [rows EXCEPT ![i] = [@ EXCEPT !.status = v, !.approver = job[p].who]]
      /\ decided' = [decided EXCEPT ![i] = @ + 1]
      /\ UNCHANGED <<now, performed, fate>>
  BY <1>1 DEF Claim, TypeOK
<1>3. job' = [job EXCEPT ![p] = IF v = "approved" THEN [job[p] EXCEPT !.stage = "perform"]
                                                  ELSE Idle]
  BY DEF Claim
<1>4. performed[i] = 0 /\ decided[i] = 0
  BY <1>1 DEF AtMostOnce, TrailAgrees, TypeOK
<1>5. \A q \in Procs : Holding(q) => job[q].id # i
  BY <1>1 DEF JobsComplete
<1>6. TypeOK'
  <2>1. [rows[i] EXCEPT !.status = v, !.approver = job[p].who] \in Rows
    BY <1>1, RowUpdates DEF TypeOK, Statuses
  <2>2. Idle \in Jobs /\ [job[p] EXCEPT !.stage = "perform"] \in Jobs
    BY JobUpdates DEF TypeOK
  <2>. QED
    BY <1>1, <1>2, <1>3, <2>1, <2>2 DEF TypeOK
<1>7. RowsComplete'
  BY <1>1, <1>2 DEF RowsComplete, TypeOK
<1>8. JobsComplete'
  BY <1>1, <1>2, <1>3, <1>4, <1>5 DEF JobsComplete, Holding, TypeOK, Idle, Verdicts
<1>9. OneHolder'
  BY <1>3, <1>5 DEF OneHolder, Holding, TypeOK, Idle
<1>10. OnePendingPerIntent'
  BY <1>1, <1>2 DEF OnePendingPerIntent, Pending, TypeOK, Verdicts
<1>11. AtMostOnce' /\ TwoPeople' /\ TrailAgrees'
  BY <1>1, <1>2, <1>4 DEF AtMostOnce, TwoPeople, TrailAgrees, TypeOK, Verdicts
<1>. QED
  BY <1>6, <1>7, <1>8, <1>9, <1>10, <1>11

\* A job that read the row as pending still sees a row that exists.
LEMMA ExpireInv ==
    ASSUME IInv, NEW i \in Ids, Expire(i)
    PROVE  IInv'
<1>. USE DEF IInv, Expire, Pending
<1>1. TypeOK'
  <2>1. [rows[i] EXCEPT !.status = "expired"] \in Rows
    BY RowUpdates DEF TypeOK, Statuses
  <2>. QED
    BY <2>1 DEF TypeOK
<1>2. RowsComplete' /\ JobsComplete' /\ OneHolder'
  BY DEF RowsComplete, JobsComplete, OneHolder, Holding, TypeOK
<1>3. OnePendingPerIntent' /\ AtMostOnce' /\ TwoPeople' /\ TrailAgrees'
  BY DEF OnePendingPerIntent, AtMostOnce, TwoPeople, TrailAgrees, TypeOK
<1>. QED
  BY <1>1, <1>2, <1>3

LEMMA HandlerCommitsInv ==
    ASSUME IInv, NEW p \in Procs, HandlerCommits(p)
    PROVE  IInv'
<1>. DEFINE i == job[p].id
<1>. USE DEF IInv
<1>1. /\ i \in Ids /\ rows[i].status = "approved" /\ performed[i] = 0
      /\ \A q \in Procs : Holding(q) /\ job[q].id = i => q = p
  BY DEF HandlerCommits, JobsComplete, OneHolder, Holding
<1>2. /\ performed' = [performed EXCEPT ![i] = 1]
      /\ job' = [job EXCEPT ![p].stage = "after"]
      /\ job[p].stage = "perform"
      /\ UNCHANGED <<rows, now, decided, fate>>
  BY <1>1 DEF HandlerCommits, TypeOK
<1>3. TypeOK'
  <2>1. [job[p] EXCEPT !.stage = "after"] \in Jobs
    BY JobUpdates DEF TypeOK
  <2>. QED
    BY <1>1, <1>2, <2>1 DEF TypeOK
<1>4. JobsComplete' /\ OneHolder'
  BY <1>1, <1>2 DEF JobsComplete, OneHolder, Holding, TypeOK
<1>5. (RowsComplete /\ OnePendingPerIntent /\ AtMostOnce /\ TwoPeople /\ TrailAgrees)'
  BY <1>1, <1>2
  DEF RowsComplete, OnePendingPerIntent, AtMostOnce, TwoPeople, TrailAgrees, Pending, TypeOK
<1>. QED
  BY <1>3, <1>4, <1>5

LEMMA HandlerThrowsInv ==
    ASSUME IInv, NEW p \in Procs, HandlerThrows(p) \/ HandlerThrowsLate(p)
    PROVE  IInv'
<1>. USE DEF IInv, HandlerThrows, HandlerThrowsLate
<1>1. TypeOK'
  <2>1. [job[p] EXCEPT !.stage = "failed"] \in Jobs
    BY JobUpdates DEF TypeOK
  <2>. QED
    BY <2>1 DEF TypeOK
<1>2. JobsComplete' /\ OneHolder'
  <2>1. job[p].stage \in {"perform", "after"} /\ job' = [job EXCEPT ![p].stage = "failed"]
    OBVIOUS
  <2>2. \A q \in Procs : Holding(q)' => Holding(q) /\ job'[q].id = job[q].id
    BY <2>1 DEF Holding, TypeOK
  <2>3. \A q \in Procs : job'[q].stage # "failed" => job'[q] = job[q]
    BY <2>1 DEF TypeOK
  <2>. QED
    BY <2>2, <2>3 DEF JobsComplete, OneHolder, Holding
<1>3. (RowsComplete /\ OnePendingPerIntent /\ AtMostOnce /\ TwoPeople /\ TrailAgrees)'
  BY DEF RowsComplete, OnePendingPerIntent, AtMostOnce, TwoPeople, TrailAgrees, Pending
<1>. QED
  BY <1>1, <1>2, <1>3

LEMMA RecordFailureInv ==
    ASSUME IInv, NEW p \in Procs, RecordFailure(p)
    PROVE  IInv'
<1>. USE DEF IInv, RecordFailure
<1>1. job[p].id \in Ids
  BY DEF JobsComplete, Holding
<1>2. TypeOK'
  <2>1. [rows[job[p].id] EXCEPT !.failed = TRUE] \in Rows
    BY <1>1, RowUpdates DEF TypeOK
  <2>2. Idle \in Jobs
    BY JobUpdates DEF TypeOK
  <2>. QED
    BY <1>1, <2>1, <2>2 DEF TypeOK, Fates
<1>3. RowsComplete' /\ JobsComplete' /\ OneHolder'
  BY <1>1 DEF RowsComplete, JobsComplete, OneHolder, Holding, TypeOK, Idle
<1>4. OnePendingPerIntent' /\ AtMostOnce' /\ TwoPeople' /\ TrailAgrees'
  BY <1>1 DEF OnePendingPerIntent, AtMostOnce, TwoPeople, TrailAgrees, Pending, TypeOK
<1>. QED
  BY <1>2, <1>3, <1>4

-------------------------------------------------------------------------------
(* Safety. *)

LEMMA StepInv == IInv /\ [Next]_vars => IInv'
<1>. SUFFICES ASSUME IInv, [Next]_vars PROVE IInv'
  OBVIOUS
<1>1. ASSUME NEW p \in Procs, Performing(p) PROVE IInv'
  <2>1. CASE HandlerCommits(p)
    BY <2>1, HandlerCommitsInv
  <2>2. CASE HandlerMoot(p) \/ HandlerReturns(p)
    <3>1. fate' \in [Ids -> Fates]
      BY <2>2 DEF HandlerMoot, HandlerReturns, IInv, TypeOK, Fates
    <3>. QED
      BY <2>2, <3>1, LetGo DEF HandlerMoot, HandlerReturns
  <2>3. CASE HandlerThrows(p) \/ HandlerThrowsLate(p)
    BY <2>3, HandlerThrowsInv
  <2>4. CASE RecordFailure(p)
    BY <2>4, RecordFailureInv
  <2>. QED
    BY <1>1, <2>1, <2>2, <2>3, <2>4 DEF Performing
<1>2. ASSUME NEW p \in Procs, Asking(p) \/ Deciding(p) PROVE IInv'
  <2>1. CASE CreateRefused(p) \/ ClaimLost(p)
    BY <2>1, LetGo DEF CreateRefused, ClaimLost, IInv, TypeOK
  <2>. QED
    BY <1>2, <2>1, CreateInv, ClaimInv DEF Asking, Deciding
<1>3. ASSUME NEW p \in Procs, Crash(p) PROVE IInv'
  <2>1. fate' \in [Ids -> Fates]
    BY <1>3 DEF Crash, IInv, TypeOK, Fates
  <2>. QED
    BY <1>3, <2>1, LetGo DEF Crash
<1>4. ASSUME Tick \/ UNCHANGED vars PROVE IInv'
  <2>1. now' \in Nat /\ UNCHANGED <<rows, job, decided, performed, fate>>
    BY <1>4 DEF Tick, vars, IInv, TypeOK
  <2>. QED
    BY <2>1 DEF IInv, TypeOK, RowsComplete, JobsComplete, OneHolder, Holding,
                OnePendingPerIntent, AtMostOnce, TwoPeople, TrailAgrees, Pending
<1>. QED
  BY <1>1, <1>2, <1>3, <1>4, AskLookupInv, BeginInv, ExpireInv DEF Next

THEOREM Invariance == Spec => []IInv
BY InitInv, StepInv, PTL DEF Spec

\* Rows, jobs and counts keep their types in every behaviour of the queue.
THEOREM TypeCorrect == Spec => []TypeOK
BY Invariance, PTL DEF IInv

\* No two identical requests are ever pending, however many are made at once.
THEOREM NoDuplicateRequests == Spec => []OnePendingPerIntent
BY Invariance, PTL DEF IInv

\* An approved request is performed at most once and a request that was not approved is
\* never performed, whatever races with the approval.
THEOREM PerformedAtMostOnce == Spec => []AtMostOnce
BY Invariance, PTL DEF IInv

\* Whoever approved a request did not make it; whoever withdrew it did.
THEOREM FourEyesHold == Spec => []TwoPeople
BY Invariance, PTL DEF IInv

\* The audit trail holds one decision for each request that was decided or expired.
THEOREM TrailIsExact == Spec => []TrailAgrees
BY Invariance, PTL DEF IInv

-------------------------------------------------------------------------------
(* Action properties and refinement. *)

\* No step changes the verdict of a decided request, or who gave it.
THEOREM DecisionsStand == Spec => DecisionIsFinal
<1>. DEFINE Stands == \A i \in Ids :
                        rows[i].status \notin {"none", "pending"} =>
                          /\ rows'[i].status = rows[i].status
                          /\ rows'[i].approver = rows[i].approver
<1>1. IInv /\ [Next]_vars => Stands
  <2>. SUFFICES ASSUME IInv, [Next]_vars, NEW i \in Ids,
                       rows[i].status \notin {"none", "pending"}
                PROVE  /\ rows'[i].status = rows[i].status
                       /\ rows'[i].approver = rows[i].approver
    OBVIOUS
  <2>. USE DEF IInv, TypeOK
  <2>1. ASSUME NEW p \in Procs, Create(p) \/ Claim(p) PROVE rows'[i] = rows[i]
    BY <2>1 DEF Create, Claim, ClaimWins, Pending
  <2>2. ASSUME NEW p \in Procs, RecordFailure(p)
        PROVE  rows'[i].status = rows[i].status /\ rows'[i].approver = rows[i].approver
    BY <2>2 DEF RecordFailure, Rows
  <2>3. ASSUME NEW j \in Ids, Expire(j) PROVE rows'[i] = rows[i]
    BY <2>3 DEF Expire, Pending
  <2>4. CASE UNCHANGED rows
    BY <2>4
  <2>. QED
    BY <2>1, <2>2, <2>3, <2>4
    DEF Next, Asking, Deciding, Performing, AskLookup, CreateRefused, Begin, ClaimLost,
        HandlerCommits, HandlerMoot, HandlerThrows, HandlerReturns, HandlerThrowsLate,
        Crash, Tick, vars
<1>. QED
  BY <1>1, Invariance, PTL DEF Spec, DecisionIsFinal

\* A step that keeps the rows and the counts of performed writes stutters in FourEyes.
LEMMA Stutter == UNCHANGED <<rows, performed>> => UNCHANGED FE!vars
BY DEF FE!vars, Phase

LEMMA InitRefines == Init => FE!Init
BY DEF Init, FE!Init, Phase, NoRow

LEMMA CreateRefines ==
    ASSUME IInv, NEW p \in Procs, Create(p)
    PROVE  FE!Next
<1>. USE DEF IInv, TypeOK
<1>1. PICK i \in Ids :
         /\ rows[i].status = "none"
         /\ rows' = [rows EXCEPT ![i] =
                       [NoRow EXCEPT !.intent = job[p].intent, !.by = job[p].who,
                                     !.status = "pending", !.expires = job[p].expires]]
  BY DEF Create
<1>2. /\ job[p].who \in Admins /\ job[p].intent \in Intents
      /\ NoneOpen(job[p].intent) /\ UNCHANGED performed
  BY DEF Create, JobsComplete, IndexAdmits
<1>3. Phase(i) = "none" /\ Phase(i)' = "open"
  BY <1>1 DEF Phase, NoRow
<1>4. \A j \in Ids : j # i => Phase(j)' = Phase(j) /\ rows'[j] = rows[j]
  BY <1>1, <1>2 DEF Phase
<1>5. \A j \in Ids : ~(Phase(j) = "open" /\ rows[j].intent = job[p].intent)
  BY <1>2 DEF NoneOpen, Pending, Phase
<1>6. rows'[i].intent = job[p].intent /\ rows'[i].by = job[p].who /\ rows'[i].status = "pending"
  BY <1>1 DEF NoRow
<1>7. PICK a \in Admins, x \in Intents : a = job[p].who /\ x = job[p].intent
  BY <1>2
<1>8. FE!Ask(i, a, x)
  BY <1>1, <1>3, <1>4, <1>5, <1>6, <1>7 DEF FE!Ask
<1>. QED
  BY <1>8 DEF FE!Next

LEMMA ClaimRefines ==
    ASSUME IInv, NEW p \in Procs, Claim(p)
    PROVE  FE!Next
<1>. USE DEF IInv, TypeOK
<1>. PICK i \in Ids, v \in Verdicts : i = job[p].id /\ v = job[p].verdict
  BY DEF Claim, JobsComplete
<1>1. /\ i = job[p].id /\ v = job[p].verdict /\ job[p].who \in Admins
      /\ rows[i].status = "pending" /\ performed[i] = 0 /\ UNCHANGED performed
      /\ v = "approved" => job[p].who # rows[i].by
  BY DEF Claim, ClaimWins, Pending, JobsComplete, AtMostOnce
<1>2. rows' = [rows EXCEPT ![i] = [@ EXCEPT !.status = v, !.approver = job[p].who]]
  BY <1>1 DEF Claim
<1>3. /\ rows'[i].status = v /\ rows'[i].approver = job[p].who
      /\ rows'[i].intent = rows[i].intent /\ rows'[i].by = rows[i].by
  BY <1>1, <1>2 DEF Rows
<1>4. \A j \in Ids : j # i => Phase(j)' = Phase(j) /\ rows'[j] = rows[j]
  BY <1>1, <1>2 DEF Phase
<1>5. Phase(i) = "open" /\ Phase(i)' = IF v = "approved" THEN "granted" ELSE "closed"
  BY <1>1, <1>3 DEF Phase, Verdicts
<1>6. CASE v = "approved"
  <2>1. PICK a \in Admins : a = job[p].who
    BY <1>1
  <2>2. FE!Grant(i, a)
    BY <1>1, <1>3, <1>4, <1>5, <1>6, <2>1 DEF FE!Grant
  <2>. QED
    BY <2>2 DEF FE!Next
<1>7. CASE v # "approved"
  <2>1. FE!Close(i)
    BY <1>1, <1>3, <1>4, <1>5, <1>7 DEF FE!Close
  <2>. QED
    BY <1>1, <2>1 DEF FE!Next
<1>. QED
  BY <1>6, <1>7

LEMMA ExpireRefines ==
    ASSUME IInv, NEW i \in Ids, Expire(i)
    PROVE  FE!Next
<1>. USE DEF IInv, TypeOK
<1>1. /\ rows[i].status = "pending" /\ rows'[i].status = "expired" /\ UNCHANGED performed
      /\ rows'[i].intent = rows[i].intent /\ rows'[i].by = rows[i].by
  BY DEF Expire, Pending, Rows
<1>2. \A j \in Ids : j # i => Phase(j)' = Phase(j) /\ rows'[j] = rows[j]
  BY <1>1 DEF Expire, Phase
<1>3. Phase(i) = "open" /\ Phase(i)' = "closed"
  BY <1>1 DEF Phase
<1>4. FE!Close(i)
  BY <1>1, <1>2, <1>3 DEF FE!Close
<1>. QED
  BY <1>4 DEF FE!Next

LEMMA HandlerCommitsRefines ==
    ASSUME IInv, NEW p \in Procs, HandlerCommits(p)
    PROVE  FE!Next
<1>. USE DEF IInv, TypeOK
<1>. PICK i \in Ids : i = job[p].id
  BY DEF HandlerCommits, JobsComplete, Holding
<1>1. i = job[p].id /\ rows[i].status = "approved" /\ performed[i] = 0 /\ UNCHANGED rows
  BY DEF HandlerCommits, JobsComplete, Holding
<1>2. performed' = [performed EXCEPT ![i] = 1]
  BY <1>1 DEF HandlerCommits
<1>3. Phase(i) = "granted" /\ Phase(i)' = "done"
  BY <1>1, <1>2 DEF Phase
<1>4. \A j \in Ids : j # i => Phase(j)' = Phase(j)
  BY <1>1, <1>2 DEF Phase
<1>5. FE!CarryOut(i)
  BY <1>1, <1>3, <1>4 DEF FE!CarryOut
<1>. QED
  BY <1>1, <1>5 DEF FE!Next

\* A failure is written on a row that FourEyes already sees as granted or done.
LEMMA RecordFailureRefines ==
    ASSUME IInv, NEW p \in Procs, RecordFailure(p)
    PROVE  UNCHANGED FE!vars
<1>. USE DEF IInv, TypeOK
<1>1. /\ UNCHANGED performed
      /\ \A j \in Ids : /\ rows'[j].status = rows[j].status
                        /\ rows'[j].intent = rows[j].intent
                        /\ rows'[j].by = rows[j].by
                        /\ rows'[j].approver = rows[j].approver
  BY DEF RecordFailure, Rows
<1>. QED
  BY <1>1 DEF FE!vars, Phase

\* The queue implements the four-eyes promise: every one of its behaviours, seen through
\* the phases of its requests, is a behaviour of FourEyes.
THEOREM Refinement == Spec => ImplementsFourEyes
<1>1. IInv /\ [Next]_vars => [FE!Next]_(FE!vars)
  <2>. SUFFICES ASSUME IInv, [Next]_vars PROVE FE!Next \/ UNCHANGED FE!vars
    OBVIOUS
  <2>1. CASE UNCHANGED <<rows, performed>>
    BY <2>1, Stutter
  <2>2. ASSUME NEW p \in Procs, Asking(p) \/ Deciding(p) \/ Performing(p)
        PROVE  FE!Next \/ UNCHANGED FE!vars
    BY <2>1, <2>2, CreateRefines, ClaimRefines, HandlerCommitsRefines, RecordFailureRefines
    DEF Asking, Deciding, Performing, CreateRefused, ClaimLost, HandlerMoot, HandlerThrows,
        HandlerReturns, HandlerThrowsLate
  <2>. QED
    BY <2>1, <2>2, ExpireRefines DEF Next, AskLookup, Begin, Crash, Tick, vars
<1>. QED
  BY <1>1, InitRefines, Invariance, PTL DEF Spec, ImplementsFourEyes, FE!Spec

-------------------------------------------------------------------------------
(* What becomes of an approved request. *)

\* An approved request that no process is handling was carried out, or was found done, or
\* says why it was not; or the instance that handled it was lost.
ApprovedIsExplained ==
    \A i \in Ids :
        rows[i].status = "approved" /\ (\A p \in Procs : job[p].id # i) =>
            \/ performed[i] = 1
            \/ fate[i] \in {"moot", "lost"}
            \/ fate[i] = "failed" /\ rows[i].failed

\* An approval is in somebody's hands until its fate is known, and the fate is what the
\* row and the handler say.
FatesAgree ==
    /\ \A i \in Ids :
         /\ rows[i].status = "approved" /\ fate[i] = "open" =>
              \E p \in Procs : Holding(p) /\ job[p].id = i
         /\ fate[i] # "open" => rows[i].status = "approved"
         /\ fate[i] = "done" => performed[i] = 1
         /\ fate[i] = "failed" => rows[i].failed
    /\ \A p \in Procs : job[p].stage = "after" => performed[job[p].id] = 1

\* A process outside the handler changes no fate.
LEMMA FatesOutside ==
    ASSUME IInv, FatesAgree, NEW p \in Procs, ~Holding(p), NEW k,
           k.stage \notin {"perform", "after", "failed"}, job' = [job EXCEPT ![p] = k],
           UNCHANGED <<rows, performed, fate>>
    PROVE  FatesAgree'
<1>. USE DEF IInv, TypeOK, Holding
<1>1. \A q \in Procs : q # p => job'[q] = job[q]
  OBVIOUS
<1>2. job'[p] = k
  OBVIOUS
<1>. QED
  BY <1>1, <1>2 DEF FatesAgree

\* A row that is not approved gets another status without being approved.
LEMMA FatesElsewhere ==
    ASSUME IInv, FatesAgree, NEW i \in Ids, rows[i].status # "approved",
           NEW r, r.status # "approved", rows' = [rows EXCEPT ![i] = r],
           UNCHANGED <<performed, fate>>,
           \A q \in Procs : Holding(q) \/ Holding(q)' => job'[q] = job[q]
    PROVE  FatesAgree'
<1>. USE DEF IInv, TypeOK
<1>1. \A j \in Ids : j # i => rows'[j] = rows[j]
  OBVIOUS
<1>2. rows'[i] = r
  OBVIOUS
<1>3. \A q \in Procs : job'[q].stage = "after" => job'[q] = job[q]
  BY DEF Holding
<1>4. \A q \in Procs : Holding(q) => Holding(q)' /\ job'[q].id = job[q].id
  BY DEF Holding
<1>. QED
  BY <1>1, <1>2, <1>3, <1>4 DEF FatesAgree

\* The process whose claim wins holds the request from then on.
LEMMA FatesClaim ==
    ASSUME IInv, FatesAgree, NEW p \in Procs, Claim(p)
    PROVE  FatesAgree'
<1>. USE DEF IInv, TypeOK
<1>. DEFINE i == job[p].id
<1>1. i \in Ids /\ rows[i].status = "pending" /\ job[p].verdict \in Verdicts /\ ~Holding(p)
  BY DEF Claim, ClaimWins, Pending, JobsComplete, Holding
<1>2. \A q \in Procs : q # p => job'[q] = job[q]
  BY DEF Claim
<1>3. CASE job[p].verdict = "approved"
  <2>1. job'[p].stage = "perform" /\ job'[p].id = i
    BY <1>3 DEF Claim, Jobs
  <2>2. \A j \in Ids : j # i => rows'[j] = rows[j]
    BY DEF Claim
  <2>3. rows'[i].status = "approved" /\ fate[i] = "open"
    BY <1>1, <1>3 DEF Claim, Rows, FatesAgree
  <2>4. UNCHANGED <<performed, fate>>
    BY DEF Claim
  <2>5. \A q \in Procs : Holding(q) => Holding(q)' /\ job'[q].id = job[q].id
    BY <1>1, <1>2 DEF Holding
  <2>. QED
    BY <1>1, <1>2, <2>1, <2>2, <2>3, <2>4, <2>5 DEF FatesAgree, Holding
<1>4. CASE job[p].verdict # "approved"
  <2>1. job'[p].stage = "idle"
    BY <1>4 DEF Claim, Idle
  <2>2. \E r : r.status # "approved" /\ rows' = [rows EXCEPT ![i] = r]
    <3>. DEFINE r == [rows[i] EXCEPT !.status = job[p].verdict, !.approver = job[p].who]
    <3>1. r.status # "approved"
      BY <1>1, <1>4 DEF Rows
    <3>2. rows' = [rows EXCEPT ![i] = r]
      BY <1>1 DEF Claim
    <3>. QED
      BY <3>1, <3>2
  <2>3. UNCHANGED <<performed, fate>>
    BY DEF Claim
  <2>4. \A q \in Procs : Holding(q) \/ Holding(q)' => job'[q] = job[q]
    BY <1>1, <1>2, <2>1 DEF Holding
  <2>. QED
    BY <1>1, <2>2, <2>3, <2>4, FatesElsewhere
<1>. QED
  BY <1>3, <1>4

\* The steps of a handler.
LEMMA FatesPerforming ==
    ASSUME IInv, FatesAgree, NEW p \in Procs, Performing(p) \/ (Crash(p) /\ Holding(p))
    PROVE  FatesAgree'
<1>. USE DEF IInv, TypeOK
<1>. DEFINE i == job[p].id
<1>1. /\ Holding(p) /\ i \in Ids /\ rows[i].status = "approved"
      /\ \A q \in Procs : Holding(q) /\ job[q].id = i => q = p
  <2>1. Holding(p)
    BY DEF Performing, HandlerCommits, HandlerMoot, HandlerThrows, HandlerReturns,
           HandlerThrowsLate, RecordFailure, Holding
  <2>. QED
    BY <2>1 DEF JobsComplete, OneHolder
<1>2. CASE HandlerCommits(p) \/ HandlerThrows(p) \/ HandlerThrowsLate(p)
  <2>1. /\ \A q \in Procs : q # p => job'[q] = job[q]
        /\ job'[p].stage \in {"after", "failed"} /\ job'[p].id = i
        /\ UNCHANGED <<rows, fate>>
    BY <1>2 DEF HandlerCommits, HandlerThrows, HandlerThrowsLate, Jobs
  <2>2. \A q \in Procs : Holding(q) => Holding(q)' /\ job'[q].id = job[q].id
    BY <2>1 DEF Holding
  <2>3. CASE HandlerCommits(p)
    <3>1. performed[i] = 0 /\ performed' = [performed EXCEPT ![i] = @ + 1]
      BY <2>3 DEF HandlerCommits, JobsComplete
    <3>2. performed'[i] = 1 /\ \A j \in Ids : j # i => performed'[j] = performed[j]
      BY <1>1, <3>1
    <3>3. \A q \in Procs : q # p /\ job[q].stage = "after" => performed'[job[q].id] = 1
      BY <1>1, <3>2 DEF FatesAgree, Holding, JobsComplete
    <3>. QED
      BY <2>1, <2>2, <3>2, <3>3 DEF FatesAgree
  <2>4. CASE HandlerThrows(p) \/ HandlerThrowsLate(p)
    <3>1. job'[p].stage = "failed" /\ UNCHANGED performed
      BY <2>4 DEF HandlerThrows, HandlerThrowsLate, Jobs
    <3>. QED
      BY <2>1, <2>2, <3>1 DEF FatesAgree
  <2>. QED
    BY <1>2, <2>3, <2>4
<1>3. CASE HandlerMoot(p) \/ HandlerReturns(p) \/ RecordFailure(p) \/ (Crash(p) /\ Holding(p))
  <2>1. /\ \A q \in Procs : q # p => job'[q] = job[q]
        /\ job'[p].stage = "idle" /\ UNCHANGED performed
        /\ \A j \in Ids : j # i => rows'[j] = rows[j] /\ fate'[j] = fate[j]
    BY <1>3 DEF HandlerMoot, HandlerReturns, RecordFailure, Crash, Holding, Idle
  <2>2. rows'[i].status = "approved" /\ fate'[i] # "open"
    BY <1>1, <1>3 DEF HandlerMoot, HandlerReturns, RecordFailure, Crash, Holding, Rows
  <2>3. fate'[i] = "done" => performed[i] = 1
    BY <1>1, <1>3
    DEF HandlerMoot, HandlerReturns, RecordFailure, Crash, Holding, FatesAgree
  <2>4. fate'[i] = "failed" => rows'[i].failed
    BY <1>1, <1>3 DEF HandlerMoot, HandlerReturns, RecordFailure, Crash, Holding, Rows
  <2>5. \A q \in Procs : q # p /\ Holding(q) => Holding(q)' /\ job'[q].id = job[q].id
    BY <2>1 DEF Holding
  <2>. QED
    BY <1>1, <2>1, <2>2, <2>3, <2>4, <2>5 DEF FatesAgree
<1>. QED
  BY <1>2, <1>3 DEF Performing

LEMMA FatesStep == IInv /\ FatesAgree /\ [Next]_vars => FatesAgree'
<1>. SUFFICES ASSUME IInv, FatesAgree, [Next]_vars PROVE FatesAgree'
  OBVIOUS
<1>. USE DEF IInv, TypeOK
<1>1. ASSUME NEW p \in Procs,
             \/ \E a \in Admins, x \in Intents : AskLookup(p, a, x)
             \/ \E a \in Admins, t \in Levels, i \in Ids, v \in Verdicts : Begin(p, a, t, i, v)
             \/ CreateRefused(p) \/ ClaimLost(p)
             \/ Crash(p) /\ ~Holding(p)
      PROVE  FatesAgree'
  <2>1. ~Holding(p) /\ UNCHANGED <<rows, performed, fate>>
    BY <1>1 DEF AskLookup, Begin, CreateRefused, ClaimLost, Crash, Holding
  <2>2. \E k : k.stage \notin {"perform", "after", "failed"} /\ job' = [job EXCEPT ![p] = k]
    BY <1>1 DEF AskLookup, Begin, CreateRefused, ClaimLost, Crash, Idle
  <2>. QED
    BY <2>1, <2>2, FatesOutside
<1>2. ASSUME NEW p \in Procs, Create(p) PROVE FatesAgree'
  <2>1. PICK i \in Ids : /\ rows[i].status = "none"
                         /\ rows' = [rows EXCEPT ![i] =
                              [NoRow EXCEPT !.intent = job[p].intent, !.by = job[p].who,
                                 !.status = "pending", !.expires = job[p].expires]]
    BY <1>2 DEF Create
  <2>2. [NoRow EXCEPT !.intent = job[p].intent, !.by = job[p].who,
                      !.status = "pending", !.expires = job[p].expires].status = "pending"
    BY DEF NoRow
  <2>3. /\ UNCHANGED <<performed, fate>>
        /\ \A q \in Procs : Holding(q) \/ Holding(q)' => job'[q] = job[q]
    BY <1>2 DEF Create, Holding, Idle
  <2>. QED
    BY <2>1, <2>2, <2>3, FatesElsewhere
<1>3. ASSUME NEW i \in Ids, Expire(i) PROVE FatesAgree'
  <2>1. rows[i].status = "pending" /\ UNCHANGED <<performed, fate, job>>
    BY <1>3 DEF Expire, Pending
  <2>2. rows' = [rows EXCEPT ![i] = [rows[i] EXCEPT !.status = "expired"]]
    BY <1>3 DEF Expire
  <2>3. [rows[i] EXCEPT !.status = "expired"].status = "expired"
    BY DEF Rows
  <2>. QED
    BY <2>1, <2>2, <2>3, FatesElsewhere
<1>4. CASE Tick \/ UNCHANGED vars
  BY <1>4 DEF Tick, vars, FatesAgree, Holding
<1>5. ASSUME NEW p \in Procs, Claim(p) PROVE FatesAgree'
  BY <1>5, FatesClaim
<1>6. ASSUME NEW p \in Procs, Performing(p) \/ Crash(p) PROVE FatesAgree'
  BY <1>1, <1>6, FatesPerforming
<1>. QED
  <2>. HIDE DEF IInv, TypeOK
  <2>. QED
    BY <1>1, <1>2, <1>3, <1>4, <1>5, <1>6 DEF Next, Asking, Deciding

\* Whatever races, fails or dies, an approval that nobody is working on was carried out,
\* found moot, or carries the reason why not, unless its instance was lost.
THEOREM ApprovalsAreExplained == Spec => []ApprovedIsExplained
<1>1. Init => FatesAgree
  BY DEF Init, NoRow, Idle, FatesAgree
<1>2. IInv /\ FatesAgree => ApprovedIsExplained
  BY DEF IInv, TypeOK, Fates, FatesAgree, ApprovedIsExplained
<1>. QED
  BY <1>1, <1>2, FatesStep, Invariance, PTL DEF Spec
===============================================================================
