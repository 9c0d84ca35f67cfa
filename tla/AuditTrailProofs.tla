-------------------------- MODULE AuditTrailProofs --------------------------
(***************************************************************************)
(* Proofs about AuditTrail, for any number of rows, exports, processes,    *)
(* instants and faults: the state is well typed; a row that an export      *)
(* claims, or that is gone, is in that export's durable file unless it     *)
(* became visible behind the export's cursor; no row is deleted young; a   *)
(* completed file holds its range, and a finished stamp covers its file up *)
(* to the watermark, which is all of it where ids follow the stream.       *)
(***************************************************************************)
EXTENDS AuditTrail, TLAPS

(***************************************************************************)
(* The strengthening.  What the stamp may reach is behind the cursor, and  *)
(* a row behind the cursor is filed or late; what a job works on is        *)
(* durable whenever its stage says the file was renamed.                   *)
(***************************************************************************)

BehindIsFiled ==
  \A i \in Rows, e \in Exports :
    rows[i].state = "here" /\ Behind(i, rows[i].at, e) => i \in files[e] \/ i \in late[e]

ManifestsAgree ==
  \A e \in Exports : /\ exports[e].status = "complete" => e \in durable
                     /\ e \in durable => exports[e].status # "none"

Works == {"stream", "save", "stamp", "purge", "delete"}

JobAgrees(j) ==
  /\ j.stage \in Works => j.export \in Exports /\ exports[j.export].status # "none"
  /\ j.stage \in Works \ {"stream"} => j.export \in durable
  /\ j.own => j.stage \in Works
  /\ j.pending \subseteq durable
  /\ \A i \in j.batch : rows[i].state \in {"here", "gone"} /\ rows[i].export # NoExport

JobsAgree == \A p \in Procs : JobAgrees(jobs[p])

\* An exporter is alone with its export until it leaves it, and streams only
\* while the file is a `.part`.
OwnersAgree ==
  /\ \A p \in Procs :
       /\ jobs[p].stage \in {"stream", "save"} => jobs[p].own /\ jobs[p].pos = 0
       /\ jobs[p].stage = "stream" => jobs[p].export \notin durable
  /\ \A p, q \in Procs :
       jobs[p].own /\ jobs[q].own /\ jobs[p].export = jobs[q].export => p = q

IInv == /\ TypeOK /\ OwnersAgree /\ BehindIsFiled /\ ManifestsAgree /\ JobsAgree
        /\ ClaimedRowIsFiled

-----------------------------------------------------------------------------

\* The deadline of a row is an instant.
LEMMA DeadlineType ==
  ASSUME TypeOK, NEW i \in Rows, NEW floor \in Floors \cup {0}
  PROVE  purgeAfterFor(i, floor) \in Nat
BY FloorsAssumption, SMT DEF TypeOK, purgeAfterFor, RowRecord, Floors

\* Writing a row keeps the type of the collection.
LEMMA WriteType ==
  ASSUME TypeOK, NEW i \in Rows, NEW state \in RowStates, Write(i, state)
  PROVE  rows' \in [Rows -> RowRecord]
<1>1. rows[i] \in RowRecord /\ clock \in Nat
  BY DEF TypeOK
<1>2. PICK r \in RowRecord : r = [rows[i] EXCEPT !.state = state, !.at = clock]
  BY <1>1 DEF RowRecord
<1>3. rows' = [rows EXCEPT ![i] = r]
  BY <1>2 DEF Write
<1> QED BY <1>3 DEF TypeOK

\* Recording a row outside a transaction keeps the types.
LEMMA RecordType ==
  ASSUME TypeOK, NEW i \in Rows, Record(i)
  PROVE  rows' \in [Rows -> RowRecord] /\ late' \in [Exports -> SUBSET Rows]
<1>1. rows' \in [Rows -> RowRecord]
  BY WriteType DEF Record, RowStates
<1>2. late' \in [Exports -> SUBSET Rows]
  BY DEF TypeOK, Record, NoteArrival
<1> QED BY <1>1, <1>2

LEMMA OwnIntentType ==
  ASSUME TypeOK, OwnIntent
  PROVE  rows' \in [Rows -> RowRecord] /\ late' \in [Exports -> SUBSET Rows]
<1>1. CASE \E i \in Rows : Record(i)
  BY <1>1, RecordType
<1>2. CASE UNCHANGED <<rows, late>>
  BY <1>2 DEF TypeOK
<1> QED BY <1>1, <1>2 DEF OwnIntent

LEMMA IdleJobType == IdleJob \in JobRecord
BY DEF IdleJob, JobRecord, Stages

\* The initial state is well typed.
LEMMA TypeInit == Init => TypeOK
<1> SUFFICES ASSUME Init PROVE TypeOK
  OBVIOUS
<1>1. rows \in [Rows -> RowRecord]
  BY DEF Init, Ranks, FreeRow, RowRecord, RowStates
<1>2. exports \in [Exports -> ExportRecord]
  BY DEF Init, ExportRecord, Statuses, NoRange
<1>3. jobs \in [Procs -> JobRecord]
  BY IdleJobType DEF Init
<1> QED BY <1>1, <1>2, <1>3 DEF Init, TypeOK

\* Each group of actions keeps the types.
LEMMA TypeWriters ==
  ASSUME TypeOK, NEW i \in Rows,
         Allocate(i) \/ Commit(i) \/ Abort(i) \/ Insert(i) \/ TtlDelete(i)
  PROVE  TypeOK'
<1>1. CASE Allocate(i)
  BY <1>1, WriteType DEF TypeOK, Allocate, RowStates
<1>2. CASE Commit(i)
  <2>1. rows' \in [Rows -> RowRecord]
    BY <1>2 DEF TypeOK, Commit, RowRecord, RowStates
  <2>2. late' \in [Exports -> SUBSET Rows]
    BY <1>2 DEF TypeOK, Commit, NoteArrival
  <2> QED BY <1>2, <2>1, <2>2 DEF TypeOK, Commit
<1>3. CASE Abort(i)
  BY <1>3 DEF TypeOK, Abort, FreeRow, RowRecord, RowStates
<1>4. CASE Insert(i)
  BY <1>4, RecordType DEF TypeOK, Insert
<1>5. CASE TtlDelete(i)
  BY <1>5 DEF TypeOK, TtlDelete, RowRecord, RowStates
<1> QED BY <1>1, <1>2, <1>3, <1>4, <1>5

\* What a job may become: the idle job with some fields filled in.
LEMMA JobType ==
  ASSUME TypeOK, NEW p \in Procs, NEW j \in JobRecord, SetJob(p, j)
  PROVE  jobs' \in [Procs -> JobRecord]
BY DEF TypeOK, SetJob

LEMMA JobChangeType ==
  ASSUME TypeOK, NEW p \in Procs, NEW stage \in Stages, NEW pos \in Rows \cup {0},
         NEW batch \in SUBSET Rows
  PROVE  /\ [jobs[p] EXCEPT !.stage = stage] \in JobRecord
         /\ [jobs[p] EXCEPT !.pos = pos] \in JobRecord
         /\ [jobs[p] EXCEPT !.stage = stage, !.batch = batch] \in JobRecord
<1>1. jobs[p] \in JobRecord
  BY DEF TypeOK
<1> QED BY <1>1 DEF JobRecord

LEMMA TypeStream ==
  ASSUME TypeOK, JobsAgree, NEW p \in Procs,
         \/ \E e \in Exports, range \in Ranges, floor \in ExportFloors, source \in {"api", "cli"},
              purge \in BOOLEAN : RunExport(p, e, range, floor, source, purge)
         \/ \E i \in Rows : StreamNext(p, i)
         \/ StreamEnd(p) \/ SaveManifest(p) \/ Fail(p)
  PROVE  TypeOK'
<1>1. ASSUME NEW e \in Exports, NEW range \in Ranges, NEW floor \in ExportFloors,
             NEW source, NEW purge \in BOOLEAN, RunExport(p, e, range, floor, source, purge)
      PROVE  TypeOK'
  <2>1. rows' \in [Rows -> RowRecord] /\ late' \in [Exports -> SUBSET Rows]
    BY <1>1, OwnIntentType DEF RunExport
  <2>2. jobs' \in [Procs -> JobRecord]
    BY <1>1, IdleJobType DEF TypeOK, RunExport, SetJob, IdleJob, JobRecord, Stages
  <2>3. exports' \in [Exports -> ExportRecord]
    BY <1>1 DEF TypeOK, RunExport, ExportRecord, Statuses, Floors
  <2>4. atStart' \in [Exports -> SUBSET Rows]
    BY <1>1 DEF TypeOK, RunExport
  <2> QED BY <1>1, <2>1, <2>2, <2>3, <2>4 DEF TypeOK, RunExport
<1>2. ASSUME NEW i \in Rows, StreamNext(p, i)
      PROVE  TypeOK'
  <2>1. jobs[p].export \in Exports
    BY <1>2 DEF JobsAgree, JobAgrees, StreamNext, Works
  <2>2. files' \in [Exports -> SUBSET Rows]
    BY <1>2, <2>1 DEF TypeOK, StreamNext
  <2>3. exports' \in [Exports -> ExportRecord]
    BY <1>2, <2>1 DEF TypeOK, StreamNext, ExportRecord
  <2> QED BY <1>2, <2>2, <2>3 DEF TypeOK, StreamNext
<1>3. CASE StreamEnd(p)
  <2>1. jobs[p].export \in Exports
    BY <1>3 DEF JobsAgree, JobAgrees, StreamEnd, Works
  <2>2. jobs' \in [Procs -> JobRecord]
    BY <1>3, JobChangeType, JobType DEF StreamEnd, Stages
  <2> QED BY <1>3, <2>1, <2>2 DEF TypeOK, StreamEnd
<1>4. CASE SaveManifest(p)
  <2>1. jobs' \in [Procs -> JobRecord]
    BY <1>4, JobChangeType, JobType DEF SaveManifest, Stages
  <2>2. exports' \in [Exports -> ExportRecord]
    BY <1>4 DEF TypeOK, SaveManifest, ExportRecord, Statuses
  <2> QED BY <1>4, <2>1, <2>2 DEF TypeOK, SaveManifest
<1>5. CASE Fail(p)
  <2>1. jobs' \in [Procs -> JobRecord]
    BY <1>5, IdleJobType DEF TypeOK, Fail, Finish, SetJob
  <2>2. jobs[p].export \in Exports
    BY <1>5 DEF JobsAgree, JobAgrees, Fail, Works
  <2>3. exports' \in [Exports -> ExportRecord]
    <3>1. PICK status \in {"failed", exports[jobs[p].export].status} :
            exports' = [exports EXCEPT ![jobs[p].export] =
              [exports[jobs[p].export] EXCEPT !.status = status,
                 !.max = IF jobs[p].export \in durable THEN exports[jobs[p].export].max ELSE 0]]
      BY <1>5 DEF Fail
    <3>2. exports[jobs[p].export] \in ExportRecord
      BY <2>2 DEF TypeOK
    <3> DEFINE x == [exports[jobs[p].export] EXCEPT !.status = status,
                 !.max = IF jobs[p].export \in durable THEN exports[jobs[p].export].max ELSE 0]
    <3>3. x \in ExportRecord
      BY <3>2 DEF ExportRecord, Statuses
    <3>4. exports' = [exports EXCEPT ![jobs[p].export] = x]
      BY <3>1
    <3> HIDE DEF x
    <3> QED BY <2>2, <3>3, <3>4 DEF TypeOK
  <2>4. files' \in [Exports -> SUBSET Rows]
    BY <1>5, <2>2 DEF TypeOK, Fail
  <2>5. faults' \in Nat
    BY <1>5 DEF TypeOK, Fail, Fault
  <2> QED BY <1>5, <2>1, <2>3, <2>4, <2>5 DEF TypeOK, Fail
<1> QED BY <1>1, <1>2, <1>3, <1>4, <1>5

LEMMA TypeStamp ==
  ASSUME TypeOK, JobsAgree, NEW p \in Procs,
         \/ \E i \in Rows : StampNext(p, i)
         \/ StampEnd(p) \/ PurgeDelete(p) \/ PurgeEnd(p)
         \/ \E batch \in SUBSET Rows : PurgeFind(p, batch)
  PROVE  TypeOK'
<1>1. ASSUME NEW i \in Rows, StampNext(p, i)
      PROVE  TypeOK'
  <2>1. jobs[p].export \in Exports
    BY <1>1 DEF JobsAgree, JobAgrees, StampNext, Works
  <2>2. exports[jobs[p].export].floor \in Floors \cup {0}
    BY <2>1 DEF TypeOK, ExportRecord
  <2>3. purgeAfterFor(i, exports[jobs[p].export].floor) \in Nat
    BY <2>2, DeadlineType
  <2>4. rows' \in [Rows -> RowRecord]
    <3>1. rows[i] \in RowRecord
      BY DEF TypeOK
    <3>2. PICK r \in RowRecord :
            r = [rows[i] EXCEPT !.export = jobs[p].export,
                   !.purge = purgeAfterFor(i, exports[jobs[p].export].floor)]
      BY <2>1, <2>3, <3>1 DEF RowRecord
    <3>3. rows' = [rows EXCEPT ![i] = r]
      BY <1>1, <3>2 DEF StampNext
    <3> QED BY <3>3 DEF TypeOK
  <2>5. jobs' \in [Procs -> JobRecord]
    BY <1>1, JobChangeType, JobType DEF StampNext, Stages
  <2> QED BY <1>1, <2>4, <2>5 DEF TypeOK, StampNext
<1>2. CASE StampEnd(p)
  <2>1. jobs[p].export \in Exports
    BY <1>2 DEF JobsAgree, JobAgrees, StampEnd, Works
  <2>2. exports' \in [Exports -> ExportRecord]
    BY <1>2 DEF TypeOK, StampEnd, ExportRecord
  <2>3. rows' \in [Rows -> RowRecord] /\ late' \in [Exports -> SUBSET Rows]
    BY <1>2, OwnIntentType DEF TypeOK, StampEnd
  <2>4. jobs[p] \in JobRecord /\ clock \in Nat
    BY DEF TypeOK
  <2>5. \E j \in JobRecord : SetJob(p, j)
    <3>1. CASE Finish(p)
      BY <3>1, IdleJobType DEF Finish
    <3>2. [IdleJob EXCEPT !.stage = "purge", !.export = jobs[p].export, !.own = TRUE,
                          !.cutoff = clock] \in JobRecord
      BY <2>1, <2>4 DEF IdleJob, JobRecord, Stages
    <3>3. [IdleJob EXCEPT !.stage = "resume", !.pending = jobs[p].pending] \in JobRecord
      BY <2>4 DEF IdleJob, JobRecord, Stages
    <3> QED BY <1>2, <3>1, <3>2, <3>3 DEF StampEnd
  <2>6. jobs' \in [Procs -> JobRecord]
    BY <2>5, JobType
  <2> QED BY <1>2, <2>2, <2>3, <2>6 DEF TypeOK, StampEnd
<1>3. CASE PurgeDelete(p)
  <2>1. rows' \in [Rows -> RowRecord]
    BY <1>3 DEF TypeOK, PurgeDelete, RowRecord, RowStates
  <2>2. jobs' \in [Procs -> JobRecord]
    BY <1>3, IdleJobType, JobChangeType, JobType DEF PurgeDelete, Finish, Stages
  <2> QED BY <1>3, <2>1, <2>2 DEF TypeOK, PurgeDelete
<1>4. CASE PurgeEnd(p)
  BY <1>4, IdleJobType DEF TypeOK, PurgeEnd, Finish, SetJob
<1>5. ASSUME NEW batch \in SUBSET Rows, PurgeFind(p, batch)
      PROVE  TypeOK'
  <2>1. jobs' \in [Procs -> JobRecord]
    BY <1>5, JobChangeType, JobType DEF PurgeFind, Stages
  <2> QED BY <1>5, <2>1 DEF TypeOK, PurgeFind
<1> QED BY <1>1, <1>2, <1>3, <1>4, <1>5

LEMMA TypeOthers ==
  ASSUME TypeOK, JobsAgree, NEW p \in Procs,
         \/ ResumeUnstamped(p) \/ ResumeEnd(p) \/ ResumeFail(p) \/ RestampEnd(p) \/ Crash(p)
         \/ \E e \in Exports : ResumeNext(p, e)
         \/ \E floor \in RestampFloors : RestampStart(p, floor)
         \/ \E i \in Rows : RestampNext(p, i)
  PROVE  TypeOK'
<1>1. CASE ResumeUnstamped(p)
  <2>1. jobs' \in [Procs -> JobRecord]
    BY <1>1, IdleJobType DEF TypeOK, ResumeUnstamped, SetJob, IdleJob, JobRecord, Stages
  <2> QED BY <1>1, <2>1 DEF TypeOK, ResumeUnstamped
<1>2. CASE ResumeEnd(p)
  BY <1>2, IdleJobType DEF TypeOK, ResumeEnd, Finish, SetJob
<1>3. CASE ResumeFail(p)
  <2>1. jobs' \in [Procs -> JobRecord]
    BY <1>3, IdleJobType DEF TypeOK, ResumeFail, SetJob, IdleJob, JobRecord, Stages
  <2> QED BY <1>3, <2>1 DEF TypeOK, ResumeFail, Fault
<1>4. CASE RestampEnd(p)
  BY <1>4, IdleJobType DEF TypeOK, RestampEnd, Finish, SetJob
<1>5. CASE Crash(p)
  BY <1>5, IdleJobType DEF TypeOK, Crash, Finish, SetJob, Fault
<1>6. ASSUME NEW e \in Exports, ResumeNext(p, e)
      PROVE  TypeOK'
  <2>1. jobs' \in [Procs -> JobRecord]
    BY <1>6, IdleJobType DEF TypeOK, ResumeNext, SetJob, IdleJob, JobRecord, Stages
  <2> QED BY <1>6, <2>1, OwnIntentType DEF TypeOK, ResumeNext
<1>7. ASSUME NEW floor \in RestampFloors, RestampStart(p, floor)
      PROVE  TypeOK'
  <2>1. jobs' \in [Procs -> JobRecord]
    BY <1>7, IdleJobType DEF TypeOK, RestampStart, SetJob, IdleJob, JobRecord, Stages, Floors
  <2> QED BY <1>7, <2>1, OwnIntentType DEF TypeOK, RestampStart
<1>8. ASSUME NEW i \in Rows, RestampNext(p, i)
      PROVE  TypeOK'
  <2>1. purgeAfterFor(i, jobs[p].floor) \in Nat
    BY DeadlineType DEF TypeOK, JobRecord
  <2>2. rows' \in [Rows -> RowRecord]
    BY <1>8, <2>1 DEF TypeOK, RestampNext, RowRecord
  <2>3. jobs' \in [Procs -> JobRecord]
    BY <1>8, JobChangeType, JobType DEF RestampNext, Stages
  <2> QED BY <1>8, <2>2, <2>3 DEF TypeOK, RestampNext
<1> QED BY <1>1, <1>2, <1>3, <1>4, <1>5, <1>6, <1>7, <1>8

LEMMA TypeStep ==
  ASSUME TypeOK, JobsAgree, [Next]_vars
  PROVE  TypeOK'
<1>1. CASE UNCHANGED vars
  BY <1>1 DEF TypeOK, vars
<1>2. CASE Tick
  BY <1>2 DEF TypeOK, Tick
<1>3. CASE Next /\ ~Tick
  BY <1>3, TypeWriters, TypeStream, TypeStamp, TypeOthers DEF Next
<1> QED BY <1>1, <1>2, <1>3

-----------------------------------------------------------------------------
(* What most steps do to the rows and to the claims. *)

\* Rows arrive, and each that arrives behind a cursor is noted as late;
\* nothing that could be read before changes.
Arrivals ==
  /\ \A i \in Rows :
       /\ rows'[i].export = rows[i].export /\ rows'[i].id = rows[i].id
       /\ rows[i].state \in {"here", "gone"} => rows'[i] = rows[i]
       /\ rows'[i].state = "gone" => rows[i].state = "gone"
       /\ rows'[i].state = "here" /\ rows[i].state # "here" =>
            \A e \in Exports : Behind(i, rows'[i].at, e) => i \in late'[e]
  /\ \A e \in Exports : late[e] \subseteq late'[e]

\* The cursors and the files stay where they are, except for an export that
\* has no cursor yet.
CursorsStay ==
  /\ files' = files /\ durable' = durable
  /\ \A e \in Exports :
       \/ /\ exports'[e].range = exports[e].range /\ exports'[e].max = exports[e].max
          /\ exports[e].status = "none" <=> exports'[e].status = "none"
       \/ e \notin durable /\ exports'[e].max = 0

\* A job's grounds do not disappear.
Persist ==
  /\ durable \subseteq durable'
  /\ \A e \in Exports : exports[e].status # "none" => exports'[e].status # "none"
  /\ \A i \in Rows : rows[i].state \in {"here", "gone"} /\ rows[i].export # NoExport =>
                     rows'[i].state \in {"here", "gone"} /\ rows'[i].export # NoExport

LEMMA NothingArrives ==
  ASSUME TypeOK, UNCHANGED <<rows, late>>
  PROVE  Arrivals
BY DEF Arrivals

LEMMA RecordArrives ==
  ASSUME TypeOK, NEW i \in Rows, Record(i)
  PROVE  Arrivals
<1>1. rows[i].state = "free"
  BY DEF Record, Fresh, TypeOK, Rows
<1> QED BY <1>1 DEF TypeOK, Arrivals, Record, Write, NoteArrival, RowRecord

LEMMA OwnIntentArrives ==
  ASSUME TypeOK, OwnIntent
  PROVE  Arrivals
BY RecordArrives, NothingArrives DEF OwnIntent

\* The ids and the watermark stand, so what is above it does.
LEMMA WatermarkStays ==
  ASSUME TypeOK, \A k \in Rows : rows'[k].id = rows[k].id,
         NEW e \in Exports, exports'[e].max = exports[e].max, NEW i \in Rows
  PROVE  AboveWatermark(i, e)' = AboveWatermark(i, e)
BY DEF TypeOK, ExportRecord, AboveWatermark

LEMMA ArrivalsKeepFiling ==
  ASSUME TypeOK, TypeOK', BehindIsFiled, ClaimedRowIsFiled, Arrivals, CursorsStay
  PROVE  BehindIsFiled' /\ ClaimedRowIsFiled'
<1>1. ASSUME NEW i \in Rows, NEW e \in Exports,
             rows'[i].state = "here", Behind(i, rows[i].at, e)'
      PROVE  i \in files'[e] \/ i \in late'[e]
  <2>1. Behind(i, rows'[i].at, e)
    <3>1. CASE exports'[e].range = exports[e].range /\ exports'[e].max = exports[e].max
               /\ (exports[e].status = "none" <=> exports'[e].status = "none")
      <4>1. AboveWatermark(i, e)' = AboveWatermark(i, e)
        BY <3>1, WatermarkStays DEF Arrivals
      <4> QED BY <1>1, <3>1, <4>1 DEF Behind, CursorsStay
    <3>2. CASE e \notin durable /\ exports'[e].max = 0
      <4>1. i <= 0
        BY <1>1, <3>2 DEF Behind, CursorsStay
      <4> QED BY <4>1 DEF Rows
    <3> QED BY <3>1, <3>2 DEF CursorsStay
  <2>2. CASE rows[i].state = "here"
    BY <1>1, <2>1, <2>2 DEF BehindIsFiled, Arrivals, CursorsStay
  <2>3. CASE rows[i].state # "here"
    BY <1>1, <2>1, <2>3 DEF Arrivals
  <2> QED BY <2>2, <2>3
<1>2. ClaimedRowIsFiled'
  BY NoExportAssumption DEF ClaimedRowIsFiled, Arrivals, CursorsStay, TypeOK, RowRecord
<1> QED BY <1>1, <1>2 DEF BehindIsFiled

LEMMA ArrivalsPersist ==
  ASSUME Arrivals, CursorsStay, ManifestsAgree,
         \A e \in Exports : exports[e].status # "none" => exports'[e].status # "none"
  PROVE  Persist
BY DEF Arrivals, CursorsStay, Persist

LEMMA JobsKept ==
  ASSUME TypeOK, JobsAgree, Persist, NEW p \in Procs, NEW j \in JobRecord, SetJob(p, j),
         JobAgrees(j)
  PROVE  JobsAgree'
<1> SUFFICES ASSUME NEW q \in Procs PROVE JobAgrees(jobs[q])'
  BY DEF JobsAgree
<1>1. jobs'[q] \in JobRecord
  BY DEF TypeOK, SetJob
<1>2. JobAgrees(jobs'[q])
  BY DEF SetJob, JobsAgree, TypeOK
<1> QED BY <1>1, <1>2 DEF JobAgrees, Persist, JobRecord

LEMMA JobsUntouched ==
  ASSUME TypeOK, JobsAgree, Persist, jobs' = jobs
  PROVE  JobsAgree'
<1> SUFFICES ASSUME NEW q \in Procs PROVE JobAgrees(jobs[q])'
  BY DEF JobsAgree
<1>1. jobs[q] \in JobRecord /\ JobAgrees(jobs[q])
  BY DEF TypeOK, JobsAgree
<1> QED BY <1>1 DEF JobAgrees, Persist, JobRecord

LEMMA IdleAgrees == JobAgrees(IdleJob)
BY DEF JobAgrees, IdleJob, Works

\* A job that starts or moves on, judged by the state it moves to.
LEMMA JobsChanged ==
  ASSUME TypeOK, JobsAgree, Persist, NEW p \in Procs, NEW j \in JobRecord, SetJob(p, j),
         JobAgrees(jobs[p])'
  PROVE  JobsAgree'
<1> SUFFICES ASSUME NEW q \in Procs, q # p PROVE JobAgrees(jobs[q])'
  BY DEF JobsAgree
<1>1. jobs'[q] = jobs[q] /\ jobs[q] \in JobRecord
  BY DEF TypeOK, SetJob
<1>2. JobAgrees(jobs[q])
  BY DEF JobsAgree
<1> QED BY <1>1, <1>2 DEF JobAgrees, Persist, JobRecord

\* Rows that are deleted, rolled back or given another deadline.
Departures ==
  /\ UNCHANGED <<exports, files, durable, late>>
  /\ \A i \in Rows :
       /\ rows'[i].state = "here" => rows[i].state = "here" /\ rows'[i].at = rows[i].at
       /\ rows'[i].id = rows[i].id
       /\ rows'[i].export \in {rows[i].export, NoExport}
       /\ rows'[i].state = "gone" => rows[i].export # NoExport /\ rows'[i].export = rows[i].export

LEMMA DeparturesKeepFiling ==
  ASSUME TypeOK, TypeOK', BehindIsFiled, ClaimedRowIsFiled, Departures
  PROVE  BehindIsFiled' /\ ClaimedRowIsFiled'
<1>1. BehindIsFiled'
  <2> SUFFICES ASSUME NEW i \in Rows, NEW e \in Exports,
                      rows'[i].state = "here", Behind(i, rows[i].at, e)'
               PROVE  i \in files[e] \/ i \in late[e]
    BY DEF BehindIsFiled, Departures
  <2>1. AboveWatermark(i, e)' = AboveWatermark(i, e)
    BY WatermarkStays DEF Departures
  <2> QED BY <2>1 DEF BehindIsFiled, Behind, Departures
<1>2. ClaimedRowIsFiled'
  BY NoExportAssumption DEF ClaimedRowIsFiled, Departures, TypeOK, RowRecord
<1> QED BY <1>1, <1>2

-----------------------------------------------------------------------------
(* One lemma for each group of actions: IInv is kept. *)

LEMMA SafeWriters ==
  ASSUME IInv, TypeOK', OwnersAgree', NEW i \in Rows, Allocate(i) \/ Commit(i) \/ Insert(i)
  PROVE  IInv'
<1>1. Arrivals
  <2>1. CASE Allocate(i)
    <3>1. rows[i].state = "free"
      BY <2>1 DEF Allocate, Fresh, IInv, TypeOK, Rows
    <3> QED BY <2>1, <3>1 DEF IInv, TypeOK, Allocate, Write, Arrivals, RowRecord
  <2>2. CASE Commit(i)
    BY <2>2 DEF IInv, TypeOK, Commit, NoteArrival, Arrivals, RowRecord
  <2>3. CASE Insert(i)
    BY <2>3, RecordArrives DEF IInv, Insert
  <2> QED BY <2>1, <2>2, <2>3
<1>2. UNCHANGED <<exports, files, durable, jobs>>
  BY DEF Allocate, Commit, Insert
<1>3. CursorsStay
  BY <1>2 DEF CursorsStay
<1>4. Persist
  BY <1>1, <1>2, <1>3, ArrivalsPersist DEF IInv
<1>5. JobsAgree'
  BY <1>2, <1>4, JobsUntouched DEF IInv
<1> QED BY <1>1, <1>2, <1>3, <1>5, ArrivalsKeepFiling DEF IInv, ManifestsAgree

LEMMA SafeLeavers ==
  ASSUME IInv, TypeOK', OwnersAgree', NEW i \in Rows, Abort(i) \/ TtlDelete(i)
  PROVE  IInv'
<1>1. Departures /\ Persist
  <2>1. CASE Abort(i)
    <3>1. rows' = [rows EXCEPT ![i] = FreeRow(rows[i].id)] /\ rows[i].state = "flying"
      BY <2>1 DEF Abort
    <3>2. rows'[i] = FreeRow(rows[i].id) /\ \A k \in Rows : k # i => rows'[k] = rows[k]
      BY <3>1 DEF IInv, TypeOK
    <3>3. Departures
      BY <2>1, <3>2, NoExportAssumption
         DEF Abort, FreeRow, Departures, IInv, ClaimedRowIsFiled, TypeOK
    <3>4. Persist
      BY <2>1, <3>1, <3>2 DEF Abort, Persist
    <3> QED BY <3>3, <3>4
  <2>2. CASE TtlDelete(i)
    <3>1. rows[i].state = "here" /\ rows[i].export # NoExport
      BY <2>2 DEF TtlDelete, Stamped
    <3>2. /\ rows'[i].state = "gone" /\ rows'[i].export = rows[i].export
          /\ \A k \in Rows : k # i => rows'[k] = rows[k]
      BY <2>2 DEF TtlDelete, IInv, TypeOK, RowRecord
    <3>3. Departures
      BY <2>2, <3>1, <3>2, NoExportAssumption
         DEF TtlDelete, Departures, IInv, ClaimedRowIsFiled, TypeOK
    <3>4. Persist
      BY <2>2, <3>1, <3>2 DEF TtlDelete, Persist
    <3> QED BY <3>3, <3>4
  <2> QED BY <2>1, <2>2
<1>2. UNCHANGED <<exports, durable, jobs>>
  BY DEF Abort, TtlDelete
<1>3. JobsAgree'
  BY <1>1, <1>2, JobsUntouched DEF IInv
<1> QED BY <1>1, <1>2, <1>3, DeparturesKeepFiling DEF IInv, ManifestsAgree

LEMMA SafeRunExport ==
  ASSUME IInv, TypeOK', OwnersAgree',
         NEW p \in Procs, NEW e \in Exports, NEW range, NEW floor, NEW source,
         NEW purge \in BOOLEAN, RunExport(p, e, range, floor, source, purge)
  PROVE  IInv'
<1>1. Arrivals
  BY OwnIntentArrives DEF IInv, RunExport
<1>2. e \notin durable
  BY DEF IInv, ManifestsAgree, RunExport
<1>3. CursorsStay
  BY <1>2 DEF CursorsStay, RunExport, IInv, TypeOK, ExportRecord
<1>4. Persist
  BY <1>1, <1>3, ArrivalsPersist DEF IInv, RunExport, TypeOK
<1>5. ManifestsAgree'
  BY <1>2 DEF IInv, ManifestsAgree, RunExport, TypeOK
<1>6. JobsAgree'
  <2> DEFINE j == [IdleJob EXCEPT !.stage = "stream", !.export = e, !.own = TRUE,
                                  !.purge = purge]
  <2>1. j \in JobRecord
    BY IdleJobType DEF JobRecord, Stages
  <2>2. SetJob(p, j)
    BY DEF RunExport
  <2>3. jobs'[p] = j
    BY <2>2 DEF SetJob, IInv, TypeOK
  <2>4. exports'[e].status = "running"
    BY DEF RunExport, IInv, TypeOK
  <2>5. JobAgrees(jobs[p])'
    BY <2>3, <2>4 DEF JobAgrees, IdleJob, Works
  <2> HIDE DEF j
  <2> QED BY <1>4, <2>1, <2>2, <2>5, JobsChanged DEF IInv
<1> QED BY <1>1, <1>3, <1>5, <1>6, ArrivalsKeepFiling DEF IInv

LEMMA SafeStream ==
  ASSUME IInv, TypeOK', OwnersAgree', NEW p \in Procs, NEW i \in Rows, StreamNext(p, i)
  PROVE  IInv'
<1> DEFINE e == jobs[p].export
<1>1. e \in Exports /\ exports[e].status # "none" /\ e \notin durable
  BY DEF IInv, JobsAgree, JobAgrees, OwnersAgree, StreamNext, Works
<1>2. /\ files' = [files EXCEPT ![e] = files[e] \cup {i}]
      /\ exports' = [exports EXCEPT ![e].max = i]
      /\ UNCHANGED <<rows, durable, jobs, late>>
  BY DEF StreamNext
<1>3. NextAfter(i, exports[e].max, {j \in Rows : InRange(j, e)})
  BY DEF StreamNext
<1>4. BehindIsFiled'
  <2> SUFFICES ASSUME NEW k \in Rows, NEW f \in Exports,
                      rows[k].state = "here", Behind(k, rows[k].at, f)'
               PROVE  k \in files'[f] \/ k \in late[f]
    BY <1>2 DEF BehindIsFiled
  <2>1. CASE f # e
    BY <1>1, <1>2, <2>1 DEF IInv, TypeOK, BehindIsFiled, Behind, AboveWatermark
  <2>2. CASE f = e /\ k = i
    BY <1>1, <1>2, <2>2 DEF IInv, TypeOK
  <2>3. CASE f = e /\ k # i
    <3>1. exports'[e].max = i /\ exports'[e].range = exports[e].range
      BY <1>1, <1>2 DEF IInv, TypeOK, ExportRecord
    <3>2. InRange(k, e) /\ k <= i
      BY <1>1, <1>2, <2>3, <3>1 DEF Behind, InRange
    <3>3. k <= exports[e].max
      <4>1. exports[e].max \in Int /\ k \in Int /\ i \in Int
        BY <1>1 DEF Rows, IInv, TypeOK, ExportRecord
      <4>2. exports[e].max < k => i <= k
        BY <1>3, <3>2 DEF NextAfter
      <4>3. k <= i /\ k # i
        BY <2>3, <3>2
      <4> HIDE DEF e
      <4> QED BY <4>1, <4>2, <4>3
    <3>4. Behind(k, rows[k].at, e)
      BY <1>1, <3>2, <3>3 DEF Behind, InRange
    <3>5. k \in files[e] \/ k \in late[e]
      BY <1>1, <3>4 DEF IInv, BehindIsFiled
    <3> QED BY <1>1, <1>2, <2>3, <3>5 DEF IInv, TypeOK
  <2> QED BY <2>1, <2>2, <2>3
<1>5. ClaimedRowIsFiled'
  BY <1>1, <1>2 DEF IInv, TypeOK, ClaimedRowIsFiled
<1>6. ManifestsAgree'
  BY <1>1, <1>2 DEF IInv, TypeOK, ManifestsAgree, ExportRecord
<1>7. Persist
  BY <1>1, <1>2 DEF IInv, TypeOK, Persist, ExportRecord
<1>8. JobsAgree'
  BY <1>2, <1>7, JobsUntouched DEF IInv
<1> QED BY <1>4, <1>5, <1>6, <1>8 DEF IInv

LEMMA SafeStreamEnd ==
  ASSUME IInv, TypeOK', OwnersAgree', NEW p \in Procs, StreamEnd(p)
  PROVE  IInv'
<1> DEFINE e == jobs[p].export
<1>1. e \in Exports /\ exports[e].status # "none" /\ e \notin durable
  BY DEF IInv, JobsAgree, JobAgrees, OwnersAgree, StreamEnd, Works
<1>2. /\ \A k \in Rows : InRange(k, e) => ~(exports[e].max < k)
      /\ durable' = durable \cup {e}
      /\ UNCHANGED <<rows, exports, files, late>>
  BY DEF StreamEnd
<1>3. BehindIsFiled'
  <2> SUFFICES ASSUME NEW k \in Rows, NEW f \in Exports,
                      rows[k].state = "here", Behind(k, rows[k].at, f)'
               PROVE  Behind(k, rows[k].at, f)
    BY <1>2 DEF IInv, BehindIsFiled
  <2>1. CASE f # e
    BY <1>2, <2>1 DEF Behind, AboveWatermark
  <2>2. CASE f = e
    <3>1. InRange(k, e)
      BY <1>2, <2>2 DEF Behind, InRange
    <3>2. k <= exports[e].max
      <4>1. exports[e].max \in Int /\ k \in Int
        BY <1>1 DEF Rows, IInv, TypeOK, ExportRecord
      <4>2. ~(exports[e].max < k)
        BY <1>2, <3>1
      <4> HIDE DEF e
      <4> QED BY <4>1, <4>2
    <3> QED BY <1>1, <2>2, <3>1, <3>2 DEF Behind, InRange
  <2> QED BY <2>1, <2>2
<1>4. ClaimedRowIsFiled'
  BY <1>2 DEF IInv, ClaimedRowIsFiled
<1>5. ManifestsAgree'
  BY <1>1, <1>2 DEF IInv, ManifestsAgree
<1>6. Persist
  BY <1>2 DEF Persist
<1>7. JobsAgree'
  <2> DEFINE j == [jobs[p] EXCEPT !.stage = "save"]
  <2>1. j \in JobRecord
    BY JobChangeType DEF IInv, Stages
  <2>2. SetJob(p, j)
    BY DEF StreamEnd
  <2>3. jobs'[p] = j
    BY <2>2 DEF SetJob, IInv, TypeOK
  <2>4. /\ j.export = e /\ j.own = jobs[p].own /\ j.stage = "save"
        /\ j.pending = jobs[p].pending /\ j.batch = jobs[p].batch
    BY DEF IInv, TypeOK, JobRecord
  <2> HIDE DEF j
  <2>5. JobAgrees(jobs[p])
    BY DEF IInv, JobsAgree
  <2>6. JobAgrees(jobs[p])'
    BY <1>1, <1>2, <2>3, <2>4, <2>5 DEF JobAgrees, Works
  <2> QED BY <1>6, <2>1, <2>2, <2>6, JobsChanged DEF IInv
<1> QED BY <1>3, <1>4, <1>5, <1>7 DEF IInv

LEMMA SafeSaveManifest ==
  ASSUME IInv, TypeOK', OwnersAgree', NEW p \in Procs, SaveManifest(p)
  PROVE  IInv'
<1> DEFINE e == jobs[p].export
<1>1. e \in durable /\ e \in Exports /\ exports[e].status # "none"
  BY DEF IInv, JobsAgree, JobAgrees, SaveManifest, Works
<1>2. /\ exports' = [exports EXCEPT ![e].status = "complete"]
      /\ UNCHANGED <<rows, files, durable, late>>
      /\ SetJob(p, [jobs[p] EXCEPT !.stage = "stamp"])
  BY DEF SaveManifest
<1>3. Arrivals
  BY <1>2, NothingArrives DEF IInv
<1>4. CursorsStay
  BY <1>1, <1>2 DEF IInv, TypeOK, ExportRecord, CursorsStay
<1>5. Persist
  BY <1>1, <1>2 DEF IInv, TypeOK, ExportRecord, Persist
<1>6. ManifestsAgree'
  BY <1>1, <1>2 DEF IInv, TypeOK, ExportRecord, ManifestsAgree
<1>7. JobsAgree'
  <2> DEFINE j == [jobs[p] EXCEPT !.stage = "stamp"]
  <2>1. j \in JobRecord
    BY JobChangeType DEF IInv, Stages
  <2>2. /\ j.export = e /\ j.own = jobs[p].own /\ j.stage = "stamp"
        /\ j.pending = jobs[p].pending /\ j.batch = jobs[p].batch
    BY DEF IInv, TypeOK, JobRecord
  <2>3. JobAgrees(jobs[p])
    BY DEF IInv, JobsAgree
  <2> HIDE DEF j
  <2>4. JobAgrees(j)
    BY <1>1, <2>2, <2>3 DEF JobAgrees, Works
  <2> QED BY <1>2, <1>5, <2>1, <2>4, JobsKept DEF IInv, j
<1> QED BY <1>3, <1>4, <1>6, <1>7, ArrivalsKeepFiling DEF IInv

LEMMA SafeStampNext ==
  ASSUME IInv, TypeOK', OwnersAgree', NEW p \in Procs, NEW i \in Rows, StampNext(p, i)
  PROVE  IInv'
<1> DEFINE e == jobs[p].export
<1>1. e \in durable /\ e \in Exports /\ exports[e].status # "none"
  BY DEF IInv, JobsAgree, JobAgrees, StampNext, Works
<1>2. /\ \A k \in Rows : /\ rows'[k].state = rows[k].state /\ rows'[k].at = rows[k].at
                         /\ rows'[k].id = rows[k].id
      /\ rows'[i].export = e
      /\ \A k \in Rows : k # i => rows'[k] = rows[k]
      /\ UNCHANGED <<exports, files, durable, late>>
  BY DEF StampNext, IInv, TypeOK, RowRecord
<1>3. rows[i].state = "here" /\ StampFilter(i, e)
  BY DEF StampNext, NextAfter, StampFilter, InRange
<1>4. i \in files[e] \/ i \in late[e]
  <2>1. Behind(i, rows[i].at, e)
    BY <1>1, <1>3 DEF StampFilter, InRange, Behind
  <2> QED BY <1>1, <1>3, <2>1 DEF IInv, BehindIsFiled
<1>5. BehindIsFiled'
  <2> SUFFICES ASSUME NEW k \in Rows, NEW f \in Exports,
                      rows[k].state = "here", Behind(k, rows[k].at, f)'
               PROVE  k \in files[f] \/ k \in late[f]
    BY <1>2 DEF BehindIsFiled
  <2>1. AboveWatermark(k, f)' = AboveWatermark(k, f)
    BY <1>2, WatermarkStays DEF IInv
  <2> QED BY <1>2, <2>1 DEF IInv, BehindIsFiled, Behind
<1>6. ClaimedRowIsFiled'
  BY <1>1, <1>2, <1>4 DEF IInv, ClaimedRowIsFiled
<1>7. ManifestsAgree'
  BY <1>2 DEF IInv, ManifestsAgree
<1>8. Persist
  BY <1>1, <1>2, NoExportAssumption DEF Persist
<1>9. JobsAgree'
  <2> DEFINE j == [jobs[p] EXCEPT !.pos = i]
  <2>1. j \in JobRecord
    BY JobChangeType DEF IInv, Stages
  <2>2. /\ j.export = e /\ j.own = jobs[p].own /\ j.stage = jobs[p].stage
        /\ j.pending = jobs[p].pending /\ j.batch = jobs[p].batch
    BY DEF IInv, TypeOK, JobRecord
  <2>3. JobAgrees(jobs[p]) /\ SetJob(p, j)
    BY DEF IInv, JobsAgree, StampNext
  <2> HIDE DEF j
  <2>4. JobAgrees(j)
    BY <2>2, <2>3 DEF JobAgrees
  <2> QED BY <1>8, <2>1, <2>3, <2>4, JobsKept DEF IInv
<1> QED BY <1>5, <1>6, <1>7, <1>9 DEF IInv

LEMMA SafeStampEnd ==
  ASSUME IInv, TypeOK', OwnersAgree', NEW p \in Procs, StampEnd(p)
  PROVE  IInv'
<1> DEFINE e == jobs[p].export
<1>1. e \in durable /\ e \in Exports /\ exports[e].status # "none"
  BY DEF IInv, JobsAgree, JobAgrees, StampEnd, Works
<1>2. Arrivals
  BY NothingArrives, OwnIntentArrives DEF IInv, StampEnd
<1>3. exports' = [exports EXCEPT ![e].stamped = TRUE] /\ UNCHANGED <<files, durable>>
  BY DEF StampEnd
<1>4. CursorsStay
  BY <1>1, <1>3 DEF IInv, TypeOK, ExportRecord, CursorsStay
<1>5. Persist
  <2>1. \A f \in Exports : exports[f].status # "none" => exports'[f].status # "none"
    BY <1>1, <1>3 DEF IInv, TypeOK, ExportRecord
  <2> QED BY <1>2, <1>4, <2>1, ArrivalsPersist DEF IInv
<1>6. ManifestsAgree'
  BY <1>1, <1>3 DEF IInv, TypeOK, ExportRecord, ManifestsAgree
<1>7. \E j \in JobRecord : SetJob(p, j) /\ JobAgrees(j)
  <2>1. JobAgrees(jobs[p]) /\ jobs[p] \in JobRecord /\ clock \in Nat
    BY DEF IInv, JobsAgree, TypeOK
  <2>2. CASE Finish(p)
    BY <2>2, IdleJobType, IdleAgrees DEF Finish
  <2>3. CASE SetJob(p, [IdleJob EXCEPT !.stage = "purge", !.export = e, !.own = TRUE,
                                       !.cutoff = clock])
    <3> DEFINE j == [IdleJob EXCEPT !.stage = "purge", !.export = e, !.own = TRUE,
                                    !.cutoff = clock]
    <3>1. j \in JobRecord
      BY <1>1, <2>1 DEF IdleJob, JobRecord, Stages
    <3>2. JobAgrees(j)
      BY <1>1 DEF IdleJob, JobAgrees, Works
    <3> QED BY <2>3, <3>1, <3>2
  <2>4. CASE SetJob(p, [IdleJob EXCEPT !.stage = "resume", !.pending = jobs[p].pending])
    <3> DEFINE j == [IdleJob EXCEPT !.stage = "resume", !.pending = jobs[p].pending]
    <3>1. j \in JobRecord
      BY <2>1 DEF IdleJob, JobRecord, Stages
    <3>2. JobAgrees(j)
      BY <2>1 DEF IdleJob, JobAgrees, Works
    <3> QED BY <2>4, <3>1, <3>2
  <2> QED BY <2>2, <2>3, <2>4 DEF StampEnd
<1>8. JobsAgree'
  BY <1>5, <1>7, JobsKept DEF IInv
<1> QED BY <1>2, <1>4, <1>6, <1>8, ArrivalsKeepFiling DEF IInv

LEMMA SafePurge ==
  ASSUME IInv, TypeOK', OwnersAgree', NEW p \in Procs,
         PurgeDelete(p) \/ PurgeEnd(p) \/ \E batch \in SUBSET Rows : PurgeFind(p, batch)
  PROVE  IInv'
<1>1. UNCHANGED <<exports, durable>>
  BY DEF PurgeDelete, PurgeEnd, PurgeFind
<1>2. JobAgrees(jobs[p]) /\ jobs[p] \in JobRecord
  BY DEF IInv, JobsAgree, TypeOK
<1>3. Departures /\ Persist
  <2>1. CASE PurgeDelete(p)
    <3>1. \A i \in jobs[p].batch : rows[i].state \in {"here", "gone"} /\ rows[i].export # NoExport
      BY <1>2 DEF JobAgrees
    <3>2. \A i \in Rows : /\ rows'[i].export = rows[i].export /\ rows'[i].at = rows[i].at
                          /\ rows'[i].id = rows[i].id
                          /\ rows'[i].state = IF i \in jobs[p].batch THEN "gone" ELSE rows[i].state
      BY <2>1 DEF PurgeDelete, IInv, TypeOK, RowRecord
    <3>3. \A i \in Rows : rows[i].state = "gone" => rows[i].export # NoExport
      BY NoExportAssumption DEF IInv, ClaimedRowIsFiled, TypeOK
    <3> QED BY <2>1, <3>1, <3>2, <3>3 DEF PurgeDelete, Departures, Persist
  <2>2. CASE PurgeEnd(p) \/ \E batch \in SUBSET Rows : PurgeFind(p, batch)
    BY <2>2, NoExportAssumption
       DEF PurgeEnd, PurgeFind, Departures, Persist, IInv, ClaimedRowIsFiled, TypeOK
  <2> QED BY <2>1, <2>2
<1>4. \E j \in JobRecord : SetJob(p, j) /\ JobAgrees(j)
  <2>1. CASE Finish(p)
    BY <2>1, IdleJobType, IdleAgrees DEF Finish
  <2>2. ASSUME NEW batch \in SUBSET Rows, PurgeFind(p, batch)
        PROVE  \E j \in JobRecord : SetJob(p, j) /\ JobAgrees(j)
    <3> DEFINE j == [jobs[p] EXCEPT !.stage = "delete", !.batch = batch]
    <3>1. j \in JobRecord /\ SetJob(p, j)
      BY <2>2, JobChangeType DEF IInv, Stages, PurgeFind
    <3>2. /\ j.export = jobs[p].export /\ j.own = jobs[p].own /\ j.stage = "delete"
          /\ j.pending = jobs[p].pending /\ j.batch = batch
      BY <1>2 DEF JobRecord
    <3>3. jobs[p].stage = "purge" /\ jobs[p].export \in Exports
      BY <1>2, <2>2 DEF PurgeFind, JobAgrees, Works
    <3>4. \A i \in batch : rows[i].state = "here" /\ rows[i].export # NoExport
      BY <2>2, <3>3, NoExportAssumption DEF PurgeFind, Expired
    <3> HIDE DEF j
    <3>5. JobAgrees(j)
      BY <1>2, <3>2, <3>3, <3>4 DEF JobAgrees, Works
    <3> QED BY <3>1, <3>5
  <2>3. CASE PurgeDelete(p) /\ ~Finish(p)
    <3> DEFINE j == [jobs[p] EXCEPT !.stage = "purge", !.batch = {}]
    <3>1. j \in JobRecord /\ SetJob(p, j)
      BY <2>3, JobChangeType DEF IInv, Stages, PurgeDelete
    <3>2. /\ j.export = jobs[p].export /\ j.own = jobs[p].own /\ j.stage = "purge"
          /\ j.pending = jobs[p].pending /\ j.batch = {}
      BY <1>2 DEF JobRecord
    <3>3. jobs[p].stage = "delete"
      BY <2>3 DEF PurgeDelete
    <3> HIDE DEF j
    <3>4. JobAgrees(j)
      BY <1>2, <3>2, <3>3 DEF JobAgrees, Works
    <3> QED BY <3>1, <3>4
  <2> QED BY <2>1, <2>2, <2>3 DEF PurgeEnd
<1>5. JobsAgree'
  BY <1>3, <1>4, JobsKept DEF IInv
<1> QED BY <1>1, <1>3, <1>5, DeparturesKeepFiling DEF IInv, ManifestsAgree

LEMMA SafeFail ==
  ASSUME IInv, TypeOK', OwnersAgree', NEW p \in Procs, Fail(p)
  PROVE  IInv'
<1> DEFINE e == jobs[p].export
<1>1. e \in Exports /\ exports[e].status # "none"
  BY DEF IInv, JobsAgree, JobAgrees, Fail
<1>2. PICK status \in {"failed", exports[e].status} :
        exports' = [exports EXCEPT ![e] =
          [exports[e] EXCEPT !.status = status,
                             !.max = IF e \in durable THEN exports[e].max ELSE 0]]
  BY DEF Fail
<1>3. /\ exports'[e].status = status /\ exports'[e].range = exports[e].range
      /\ e \in durable => exports'[e].max = exports[e].max
      /\ e \notin durable => exports'[e].max = 0
      /\ \A f \in Exports : f # e => exports'[f] = exports[f]
  BY <1>1, <1>2 DEF IInv, TypeOK, ExportRecord
<1>4. /\ e \in durable => files' = files
      /\ \A f \in Exports : f # e => files'[f] = files[f]
      /\ UNCHANGED <<rows, durable, late>>
  BY <1>1 DEF Fail, IInv, TypeOK
<1>5. status # "none" /\ (status = "complete" => exports[e].status = "complete")
  BY <1>1
<1>6. BehindIsFiled'
  <2> SUFFICES ASSUME NEW k \in Rows, NEW f \in Exports,
                      rows[k].state = "here", Behind(k, rows[k].at, f)'
               PROVE  k \in files'[f] \/ k \in late[f]
    BY <1>4 DEF BehindIsFiled
  <2>1. CASE f # e
    BY <1>3, <1>4, <2>1 DEF IInv, BehindIsFiled, Behind, AboveWatermark
  <2>2. CASE f = e /\ e \in durable
    BY <1>1, <1>3, <1>4, <2>2 DEF IInv, BehindIsFiled, Behind, AboveWatermark
  <2>3. CASE f = e /\ e \notin durable
    <3>1. k \in Int /\ k >= 1
      BY DEF Rows
    <3>2. k <= 0
      BY <1>3, <1>4, <2>3 DEF Behind
    <3> QED BY <3>1, <3>2
  <2> QED BY <2>1, <2>2, <2>3
<1>7. ClaimedRowIsFiled'
  <2> SUFFICES ASSUME NEW i \in Rows, rows[i].export # NoExport \/ rows[i].state = "gone"
               PROVE  /\ rows[i].export \in durable
                      /\ i \in files'[rows[i].export] \/ i \in late[rows[i].export]
    BY <1>4 DEF ClaimedRowIsFiled
  <2>1. /\ rows[i].export \in durable
        /\ i \in files[rows[i].export] \/ i \in late[rows[i].export]
    BY DEF IInv, ClaimedRowIsFiled
  <2>2. rows[i].export \in Exports
    BY <2>1 DEF IInv, TypeOK
  <2>3. files'[rows[i].export] = files[rows[i].export]
    BY <1>4, <2>1, <2>2
  <2> QED BY <2>1, <2>3
<1>8. ManifestsAgree'
  BY <1>1, <1>3, <1>4, <1>5 DEF IInv, ManifestsAgree
<1>9. Persist
  BY <1>1, <1>3, <1>4, <1>5 DEF Persist
<1>10. JobsAgree'
  BY <1>9, IdleJobType, IdleAgrees, JobsKept DEF IInv, Fail, Finish
<1> QED BY <1>6, <1>7, <1>8, <1>10 DEF IInv

LEMMA SafeResume ==
  ASSUME IInv, TypeOK', OwnersAgree', NEW p \in Procs,
         \/ ResumeUnstamped(p) \/ ResumeEnd(p) \/ ResumeFail(p) \/ RestampEnd(p) \/ Crash(p)
         \/ \E e \in Exports : ResumeNext(p, e)
         \/ \E floor \in RestampFloors : RestampStart(p, floor)
  PROVE  IInv'
<1>1. Arrivals
  BY NothingArrives, OwnIntentArrives
     DEF IInv, ResumeUnstamped, ResumeEnd, ResumeFail, RestampEnd, Crash, ResumeNext, RestampStart
<1>2. UNCHANGED <<exports, files, durable>>
  BY DEF ResumeUnstamped, ResumeEnd, ResumeFail, RestampEnd, Crash, ResumeNext, RestampStart
<1>3. CursorsStay
  BY <1>2 DEF CursorsStay
<1>4. Persist
  BY <1>1, <1>2, <1>3, ArrivalsPersist DEF IInv
<1>5. JobAgrees(jobs[p]) /\ jobs[p] \in JobRecord
  BY DEF IInv, JobsAgree, TypeOK
<1>6. \E j \in JobRecord : SetJob(p, j) /\ JobAgrees(j)
  <2>1. CASE ResumeEnd(p) \/ RestampEnd(p) \/ Crash(p)
    BY <2>1, IdleJobType, IdleAgrees DEF Finish, ResumeEnd, RestampEnd, Crash
  <2>2. CASE ResumeUnstamped(p)
    <3> DEFINE pending == {e \in Exports : exports[e].status = "complete" /\ ~exports[e].stamped}
               j == [IdleJob EXCEPT !.stage = "resume", !.pending = pending]
    <3>1. pending \subseteq Exports /\ pending \subseteq durable
      BY DEF IInv, ManifestsAgree
    <3> HIDE DEF pending
    <3>2. j \in JobRecord
      BY <3>1 DEF IdleJob, JobRecord, Stages
    <3>3. JobAgrees(j)
      BY <3>1 DEF IdleJob, JobAgrees, Works
    <3>4. SetJob(p, j)
      BY <2>2 DEF ResumeUnstamped, pending
    <3> QED BY <3>2, <3>3, <3>4
  <2>3. CASE ResumeFail(p)
    <3> DEFINE j == [IdleJob EXCEPT !.stage = "resume", !.pending = jobs[p].pending]
    <3>1. j \in JobRecord
      BY <1>5 DEF IdleJob, JobRecord, Stages
    <3>2. JobAgrees(j)
      BY <1>5 DEF IdleJob, JobAgrees, Works
    <3> QED BY <2>3, <3>1, <3>2 DEF ResumeFail
  <2>4. ASSUME NEW e \in Exports, ResumeNext(p, e)
        PROVE  \E j \in JobRecord : SetJob(p, j) /\ JobAgrees(j)
    <3> DEFINE j == [IdleJob EXCEPT !.stage = "stamp", !.export = e,
                                    !.pending = jobs[p].pending \ {e}]
    <3>1. e \in durable /\ exports[e].status # "none"
      BY <1>5, <2>4 DEF ResumeNext, JobAgrees, IInv, ManifestsAgree
    <3>2. j \in JobRecord
      BY <1>5 DEF IdleJob, JobRecord, Stages
    <3>3. JobAgrees(j)
      BY <1>5, <3>1 DEF IdleJob, JobAgrees, Works
    <3> QED BY <2>4, <3>2, <3>3 DEF ResumeNext
  <2>5. ASSUME NEW floor \in RestampFloors, RestampStart(p, floor)
        PROVE  \E j \in JobRecord : SetJob(p, j) /\ JobAgrees(j)
    <3> DEFINE j == [IdleJob EXCEPT !.stage = "restamp", !.floor = floor]
    <3>1. j \in JobRecord
      BY DEF IdleJob, JobRecord, Stages, Floors
    <3>2. JobAgrees(j)
      BY DEF IdleJob, JobAgrees, Works
    <3> QED BY <2>5, <3>1, <3>2 DEF RestampStart
  <2> QED BY <2>1, <2>2, <2>3, <2>4, <2>5
<1>7. JobsAgree'
  BY <1>4, <1>6, JobsKept DEF IInv
<1> QED BY <1>1, <1>2, <1>3, <1>7, ArrivalsKeepFiling DEF IInv, ManifestsAgree

LEMMA SafeRestampNext ==
  ASSUME IInv, TypeOK', OwnersAgree', NEW p \in Procs, NEW i \in Rows, RestampNext(p, i)
  PROVE  IInv'
<1>1. /\ \A k \in Rows : /\ rows'[k].state = rows[k].state /\ rows'[k].at = rows[k].at
                         /\ rows'[k].id = rows[k].id /\ rows'[k].export = rows[k].export
      /\ UNCHANGED <<exports, files, durable, late>>
  BY DEF RestampNext, IInv, TypeOK, RowRecord
<1>2. Departures /\ Persist
  <2>1. \A k \in Rows : rows[k].state = "gone" => rows[k].export # NoExport
    BY NoExportAssumption DEF IInv, ClaimedRowIsFiled, TypeOK
  <2> QED BY <1>1, <2>1 DEF Departures, Persist
<1>3. JobsAgree'
  <2> DEFINE j == [jobs[p] EXCEPT !.pos = i]
  <2>1. JobAgrees(jobs[p]) /\ jobs[p] \in JobRecord
    BY DEF IInv, JobsAgree, TypeOK
  <2>2. j \in JobRecord /\ SetJob(p, j)
    BY JobChangeType DEF IInv, Stages, RestampNext
  <2>3. /\ j.export = jobs[p].export /\ j.own = jobs[p].own /\ j.stage = jobs[p].stage
        /\ j.pending = jobs[p].pending /\ j.batch = jobs[p].batch
    BY <2>1 DEF JobRecord
  <2> HIDE DEF j
  <2>4. JobAgrees(j)
    BY <2>1, <2>3 DEF JobAgrees
  <2> QED BY <1>2, <2>2, <2>4, JobsKept DEF IInv
<1> QED BY <1>1, <1>2, <1>3, DeparturesKeepFiling DEF IInv, ManifestsAgree

-----------------------------------------------------------------------------

\* A process takes an export that nobody has, and leaves it for good.
LEMMA StepOwners ==
  ASSUME IInv, [Next]_vars
  PROVE  OwnersAgree'
<1> USE DEF IInv
<1>1. CASE UNCHANGED <<jobs, durable>>
  BY <1>1 DEF OwnersAgree
<1>2. ASSUME NEW p \in Procs, NEW j, SetJob(p, j), j.stage \notin {"stream", "save"},
             j.own => jobs[p].own /\ j.export = jobs[p].export, UNCHANGED durable
      PROVE  OwnersAgree'
  <2>1. jobs'[p] = j /\ \A q \in Procs : q # p => jobs'[q] = jobs[q]
    BY <1>2 DEF SetJob, TypeOK
  <2> QED BY <1>2, <2>1 DEF OwnersAgree
<1>3. \A p \in Procs : jobs[p] \in JobRecord /\ JobAgrees(jobs[p])
  BY DEF TypeOK, JobsAgree
<1>4. ASSUME NEW p \in Procs, Finish(p), UNCHANGED durable
      PROVE  OwnersAgree'
  BY <1>2, <1>4 DEF Finish, IdleJob
<1>5. ASSUME NEW p \in Procs, NEW e \in Exports, NEW range \in Ranges, NEW floor \in ExportFloors,
             NEW source \in {"api", "cli"}, NEW purge \in BOOLEAN,
             RunExport(p, e, range, floor, source, purge)
      PROVE  OwnersAgree'
  <2>1. /\ jobs'[p].stage = "stream" /\ jobs'[p].export = e /\ jobs'[p].own /\ jobs'[p].pos = 0
        /\ \A q \in Procs : q # p => jobs'[q] = jobs[q]
    BY <1>5 DEF RunExport, SetJob, IdleJob, TypeOK
  <2>2. e \notin durable /\ UNCHANGED durable
    BY <1>5 DEF RunExport, ManifestsAgree
  <2>3. \A q \in Procs : jobs[q].own => jobs[q].export # e
    BY <1>3, <1>5 DEF RunExport, JobAgrees
  <2> QED BY <2>1, <2>2, <2>3 DEF OwnersAgree
<1>6. ASSUME NEW p \in Procs, StreamEnd(p)
      PROVE  OwnersAgree'
  <2>1. jobs[p].stage = "stream" /\ jobs[p].own /\ jobs[p].pos = 0
    BY <1>6 DEF StreamEnd, OwnersAgree
  <2>2. /\ durable' = durable \cup {jobs[p].export}
        /\ jobs'[p].stage = "save" /\ jobs'[p].export = jobs[p].export
        /\ jobs'[p].own /\ jobs'[p].pos = 0
        /\ \A q \in Procs : q # p => jobs'[q] = jobs[q]
    BY <1>3, <1>6, <2>1 DEF StreamEnd, SetJob, TypeOK, JobRecord
  <2> QED BY <2>1, <2>2 DEF OwnersAgree
<1>7. ASSUME NEW p \in Procs,
             SaveManifest(p) \/ \E i \in Rows : StampNext(p, i) \/ RestampNext(p, i)
      PROVE  OwnersAgree'
  <2>1. UNCHANGED durable
    BY <1>7 DEF SaveManifest, StampNext, RestampNext
  <2>2. CASE SaveManifest(p)
    <3>1. PICK j : j = [jobs[p] EXCEPT !.stage = "stamp"]
      OBVIOUS
    <3>2. j.stage = "stamp" /\ j.own = jobs[p].own /\ j.export = jobs[p].export
      BY <1>3, <3>1 DEF JobRecord
    <3>3. SetJob(p, j)
      BY <2>2, <3>1 DEF SaveManifest
    <3> QED BY <1>2, <2>1, <3>2, <3>3
  <2>3. ASSUME NEW i \in Rows, StampNext(p, i) \/ RestampNext(p, i)
        PROVE  OwnersAgree'
    <3>1. PICK j : j = [jobs[p] EXCEPT !.pos = i]
      OBVIOUS
    <3>2. j.stage = jobs[p].stage /\ j.own = jobs[p].own /\ j.export = jobs[p].export
      BY <1>3, <3>1 DEF JobRecord
    <3>3. SetJob(p, j) /\ jobs[p].stage \in {"stamp", "restamp"}
      BY <2>3, <3>1 DEF StampNext, RestampNext
    <3> QED BY <1>2, <2>1, <3>2, <3>3
  <2> QED BY <1>7, <2>2, <2>3
<1>8. ASSUME NEW p \in Procs, StampEnd(p)
      PROVE  OwnersAgree'
  <2>1. UNCHANGED durable
    BY <1>8 DEF StampEnd
  <2>2. CASE Finish(p)
    BY <1>4, <2>1, <2>2
  <2>3. CASE jobs[p].own /\ SetJob(p, [IdleJob EXCEPT !.stage = "purge",
                               !.export = jobs[p].export, !.own = TRUE, !.cutoff = clock])
    BY <1>2, <2>1, <2>3 DEF IdleJob
  <2>4. CASE SetJob(p, [IdleJob EXCEPT !.stage = "resume", !.pending = jobs[p].pending])
    BY <1>2, <2>1, <2>4 DEF IdleJob
  <2> QED BY <1>8, <2>2, <2>3, <2>4 DEF StampEnd
<1>9. ASSUME NEW p \in Procs,
             PurgeDelete(p) \/ PurgeEnd(p) \/ \E batch \in SUBSET Rows : PurgeFind(p, batch)
      PROVE  OwnersAgree'
  <2>1. UNCHANGED durable
    BY <1>9 DEF PurgeDelete, PurgeEnd, PurgeFind
  <2>2. ASSUME NEW stage \in {"purge", "delete"}, NEW batch,
               SetJob(p, [jobs[p] EXCEPT !.stage = stage, !.batch = batch])
        PROVE  OwnersAgree'
    <3>1. PICK j : j = [jobs[p] EXCEPT !.stage = stage, !.batch = batch]
      OBVIOUS
    <3>2. j.stage = stage /\ j.own = jobs[p].own /\ j.export = jobs[p].export
      BY <1>3, <3>1 DEF JobRecord
    <3> QED BY <1>2, <2>1, <2>2, <3>1, <3>2
  <2> QED BY <1>4, <1>9, <2>1, <2>2 DEF PurgeDelete, PurgeEnd, PurgeFind
<1>10. ASSUME NEW p \in Procs,
              \/ ResumeUnstamped(p) \/ ResumeEnd(p) \/ ResumeFail(p) \/ RestampEnd(p)
              \/ Crash(p) \/ Fail(p)
              \/ \E e \in Exports : ResumeNext(p, e)
              \/ \E floor \in RestampFloors : RestampStart(p, floor)
       PROVE  OwnersAgree'
  <2>1. UNCHANGED durable
    BY <1>10 DEF ResumeUnstamped, ResumeEnd, ResumeFail, RestampEnd, Crash, Fail, ResumeNext,
                 RestampStart
  <2>2. CASE ResumeEnd(p) \/ RestampEnd(p) \/ Crash(p) \/ Fail(p)
    BY <1>4, <2>1, <2>2 DEF ResumeEnd, RestampEnd, Crash, Fail
  <2>3. CASE ResumeUnstamped(p) \/ ResumeFail(p)
    <3>1. PICK pending :
            SetJob(p, [IdleJob EXCEPT !.stage = "resume", !.pending = pending])
      BY <2>3 DEF ResumeUnstamped, ResumeFail
    <3>2. PICK j : j = [IdleJob EXCEPT !.stage = "resume", !.pending = pending]
      OBVIOUS
    <3>3. j.stage = "resume" /\ j.own = FALSE
      BY <3>2 DEF IdleJob
    <3> QED BY <1>2, <2>1, <3>1, <3>2, <3>3
  <2>4. ASSUME NEW e \in Exports, ResumeNext(p, e)
        PROVE  OwnersAgree'
    <3>1. PICK j : j = [IdleJob EXCEPT !.stage = "stamp", !.export = e,
                                      !.pending = jobs[p].pending \ {e}]
      OBVIOUS
    <3>2. j.stage = "stamp" /\ j.own = FALSE
      BY <3>1 DEF IdleJob
    <3>3. SetJob(p, j)
      BY <2>4, <3>1 DEF ResumeNext
    <3> QED BY <1>2, <2>1, <3>2, <3>3
  <2>5. ASSUME NEW floor \in RestampFloors, RestampStart(p, floor)
        PROVE  OwnersAgree'
    <3>1. PICK j : j = [IdleJob EXCEPT !.stage = "restamp", !.floor = floor]
      OBVIOUS
    <3>2. j.stage = "restamp" /\ j.own = FALSE
      BY <3>1 DEF IdleJob
    <3>3. SetJob(p, j)
      BY <2>5, <3>1 DEF RestampStart
    <3> QED BY <1>2, <2>1, <3>2, <3>3
  <2> QED BY <1>10, <2>2, <2>3, <2>4, <2>5
<1>11. CASE Next
  BY <1>1, <1>5, <1>6, <1>7, <1>8, <1>9, <1>10, <1>11
     DEF Next, Allocate, Commit, Abort, Insert, TtlDelete, StreamNext, Tick
<1> QED BY <1>1, <1>11 DEF vars

LEMMA InitInv == Init => IInv
<1> SUFFICES ASSUME Init PROVE IInv
  OBVIOUS
<1>1. BehindIsFiled /\ ClaimedRowIsFiled
  BY DEF Init, FreeRow, BehindIsFiled, ClaimedRowIsFiled
<1>2. ManifestsAgree
  BY DEF Init, ManifestsAgree
<1>3. JobsAgree /\ OwnersAgree
  BY IdleAgrees DEF Init, IdleJob, JobsAgree, OwnersAgree
<1> QED BY <1>1, <1>2, <1>3, TypeInit DEF IInv

LEMMA StepInv == IInv /\ [Next]_vars => IInv'
<1> SUFFICES ASSUME IInv, [Next]_vars PROVE IInv'
  OBVIOUS
<1>1. TypeOK' /\ OwnersAgree'
  BY TypeStep, StepOwners DEF IInv
<1>2. ASSUME NEW i \in Rows, Allocate(i) \/ Commit(i) \/ Abort(i) \/ Insert(i) \/ TtlDelete(i)
      PROVE  IInv'
  BY <1>1, <1>2, SafeWriters, SafeLeavers
<1>3. ASSUME NEW p \in Procs, NEW e \in Exports, NEW range \in Ranges, NEW floor \in ExportFloors,
             NEW source \in {"api", "cli"}, NEW purge \in BOOLEAN,
             RunExport(p, e, range, floor, source, purge)
      PROVE  IInv'
  BY <1>1, <1>3, SafeRunExport
<1>4. ASSUME NEW p \in Procs, NEW i \in Rows,
             StreamNext(p, i) \/ StampNext(p, i) \/ RestampNext(p, i)
      PROVE  IInv'
  BY <1>1, <1>4, SafeStream, SafeStampNext, SafeRestampNext
<1>5. ASSUME NEW p \in Procs, StreamEnd(p) \/ SaveManifest(p) \/ StampEnd(p) \/ Fail(p)
      PROVE  IInv'
  BY <1>1, <1>5, SafeStreamEnd, SafeSaveManifest, SafeStampEnd, SafeFail
<1>6. ASSUME NEW p \in Procs,
             PurgeDelete(p) \/ PurgeEnd(p) \/ \E batch \in SUBSET Rows : PurgeFind(p, batch)
      PROVE  IInv'
  BY <1>1, <1>6, SafePurge
<1>7. ASSUME NEW p \in Procs,
             \/ ResumeUnstamped(p) \/ ResumeEnd(p) \/ ResumeFail(p) \/ RestampEnd(p) \/ Crash(p)
             \/ \E e \in Exports : ResumeNext(p, e)
             \/ \E floor \in RestampFloors : RestampStart(p, floor)
      PROVE  IInv'
  BY <1>1, <1>7, SafeResume
<1>8. CASE Tick \/ UNCHANGED vars
  <2>1. UNCHANGED <<rows, exports, files, durable, jobs, late>>
    BY <1>8 DEF Tick, vars
  <2> QED BY <1>1, <2>1 DEF IInv, BehindIsFiled, Behind, AboveWatermark, ManifestsAgree,
                            JobsAgree, JobAgrees, ClaimedRowIsFiled
<1> QED BY <1>2, <1>3, <1>4, <1>5, <1>6, <1>7, <1>8 DEF Next

LEMMA Inductive == Spec => []IInv
BY InitInv, StepInv, PTL DEF Spec

\* Every reachable state is well typed (the state of audit-export.service.ts
\* and of the two collections it works on).
THEOREM TypeCorrect == Spec => []TypeOK
<1>1. IInv => TypeOK
  BY DEF IInv
<1> QED BY <1>1, Inductive, PTL

\* However many rows, exports, processes and crashes there are: a row that an
\* export claims, and every deleted row, is in that export's durable file,
\* unless it became visible behind the export's cursor (stampExported,
\* purgeExpired and the TTL index).
THEOREM ClaimedIsFiled == Spec => []ClaimedRowIsFiled
<1>1. IInv => ClaimedRowIsFiled
  BY DEF IInv
<1> QED BY <1>1, Inductive, PTL

\* The only gap: while no row has become visible behind a cursor, every
\* deleted row is in some durable file, as audit-log.model.ts says.
THEOREM LossNeedsLateness == Spec => []((\A e \in Exports : late[e] = {}) => DeletedWasExported)
<1>1. ClaimedRowIsFiled => ((\A e \in Exports : late[e] = {}) => DeletedWasExported) \/ ~TypeOK
  BY DEF ClaimedRowIsFiled, DeletedWasExported, TypeOK
<1> QED BY <1>1, ClaimedIsFiled, TypeCorrect, PTL

-----------------------------------------------------------------------------
(* What no step undoes. *)

\* A row keeps its id; one that can be read keeps its date and its claim until
\* it is gone, and a gone one stays gone.
RowsStand ==
  \A i \in Rows :
    /\ rows'[i].id = rows[i].id
    /\ rows[i].state = "gone" => rows'[i].state = "gone"
    /\ rows[i].state \in {"here", "gone"} =>
         rows'[i].state \in {"here", "gone"} /\ rows'[i].at = rows[i].at
    /\ rows[i].state \in {"here", "gone"} /\ rows[i].export # NoExport =>
         rows'[i].export # NoExport

LEMMA RecordStands ==
  ASSUME TypeOK, OwnIntent \/ (\E i \in Rows : Record(i) \/ Allocate(i))
  PROVE  RowsStand
<1>1. ASSUME NEW i \in Rows, NEW state, Fresh(i), Write(i, state)
      PROVE  RowsStand
  <2>1. rows[i].state = "free"
    BY <1>1 DEF Fresh, TypeOK, Rows
  <2>2. \A k \in Rows : k # i => rows'[k] = rows[k]
    BY <1>1 DEF Write, TypeOK
  <2>3. rows'[i].id = rows[i].id /\ rows'[i].export = rows[i].export
    BY <1>1 DEF Write, TypeOK, RowRecord
  <2> QED BY <2>1, <2>2, <2>3 DEF RowsStand
<1>2. CASE UNCHANGED <<rows, late>>
  BY <1>2 DEF RowsStand
<1> QED BY <1>1, <1>2 DEF OwnIntent, Record, Allocate

LEMMA StepStands ==
  ASSUME IInv, [Next]_vars
  PROVE  RowsStand
<1> USE DEF IInv
<1>1. CASE UNCHANGED rows
  BY <1>1 DEF RowsStand
<1>2. ASSUME NEW i \in Rows, Commit(i) \/ Abort(i) \/ TtlDelete(i)
      PROVE  RowsStand
  <2>1. CASE Abort(i)
    BY <2>1 DEF Abort, FreeRow, TypeOK, RowRecord, RowsStand
  <2>2. CASE Commit(i) \/ TtlDelete(i)
    <3>1. PICK state \in {"here", "gone"} : rows' = [rows EXCEPT ![i].state = state]
      BY <2>2 DEF Commit, TtlDelete
    <3>2. rows[i].state = "flying" \/ rows[i].state = "here"
      BY <2>2 DEF Commit, TtlDelete, Stamped
    <3>3. \A k \in Rows : /\ rows'[k].at = rows[k].at /\ rows'[k].id = rows[k].id
                          /\ rows'[k].export = rows[k].export
                          /\ rows'[k].state = IF k = i THEN state ELSE rows[k].state
      BY <3>1 DEF TypeOK, RowRecord
    <3> QED BY <3>2, <3>3 DEF RowsStand
  <2> QED BY <1>2, <2>1, <2>2
<1>3. ASSUME NEW p \in Procs, NEW i \in Rows, StampNext(p, i)
      PROVE  RowsStand
  <2>1. jobs[p].export # NoExport
    BY <1>3, NoExportAssumption DEF JobsAgree, JobAgrees, StampNext, Works
  <2>2. \A k \in Rows : /\ rows'[k].state = rows[k].state /\ rows'[k].at = rows[k].at
                        /\ rows'[k].id = rows[k].id
                        /\ rows'[k].export \in {rows[k].export, jobs[p].export}
    BY <1>3 DEF StampNext, TypeOK, RowRecord
  <2> QED BY <2>1, <2>2 DEF RowsStand
<1>4. ASSUME NEW p \in Procs, NEW i \in Rows, RestampNext(p, i)
      PROVE  RowsStand
  <2>1. \A k \in Rows : /\ rows'[k].state = rows[k].state /\ rows'[k].at = rows[k].at
                        /\ rows'[k].id = rows[k].id
                        /\ rows'[k].export = rows[k].export
    BY <1>4 DEF RestampNext, TypeOK, RowRecord
  <2> QED BY <2>1 DEF RowsStand
<1>5. ASSUME NEW p \in Procs, PurgeDelete(p)
      PROVE  RowsStand
  <2>1. \A k \in Rows : /\ rows'[k].export = rows[k].export /\ rows'[k].at = rows[k].at
                        /\ rows'[k].id = rows[k].id
                        /\ rows'[k].state = IF k \in jobs[p].batch THEN "gone" ELSE rows[k].state
    BY <1>5 DEF PurgeDelete, TypeOK, RowRecord
  <2> QED BY <2>1 DEF RowsStand
<1>6. CASE OwnIntent \/ \E i \in Rows : Insert(i) \/ Allocate(i)
  BY <1>6, RecordStands DEF Insert
<1>7. CASE Next
  <2>1. ASSUME NEW i \in Rows, Allocate(i) \/ Commit(i) \/ Abort(i) \/ Insert(i) \/ TtlDelete(i)
        PROVE  RowsStand
    BY <2>1, <1>2, <1>6
  <2>2. ASSUME NEW p \in Procs, NEW e \in Exports, NEW range \in Ranges, NEW floor \in ExportFloors,
               NEW source \in {"api", "cli"}, NEW purge \in BOOLEAN,
               RunExport(p, e, range, floor, source, purge)
        PROVE  RowsStand
    BY <2>2, <1>6 DEF RunExport
  <2>3. ASSUME NEW p \in Procs, NEW i \in Rows,
               StreamNext(p, i) \/ StampNext(p, i) \/ RestampNext(p, i)
        PROVE  RowsStand
    BY <2>3, <1>1, <1>3, <1>4 DEF StreamNext
  <2>4. ASSUME NEW p \in Procs, StreamEnd(p) \/ SaveManifest(p) \/ StampEnd(p) \/ Fail(p)
        PROVE  RowsStand
    BY <2>4, <1>1, <1>6 DEF StreamEnd, SaveManifest, StampEnd, Fail
  <2>5. ASSUME NEW p \in Procs,
               PurgeDelete(p) \/ PurgeEnd(p) \/ \E batch \in SUBSET Rows : PurgeFind(p, batch)
        PROVE  RowsStand
    BY <2>5, <1>1, <1>5 DEF PurgeEnd, PurgeFind
  <2>6. ASSUME NEW p \in Procs,
               \/ ResumeUnstamped(p) \/ ResumeEnd(p) \/ ResumeFail(p) \/ RestampEnd(p) \/ Crash(p)
               \/ \E e \in Exports : ResumeNext(p, e)
               \/ \E floor \in RestampFloors : RestampStart(p, floor)
        PROVE  RowsStand
    BY <2>6, <1>1, <1>6
       DEF ResumeUnstamped, ResumeEnd, ResumeFail, RestampEnd, Crash, ResumeNext, RestampStart
  <2>7. CASE Tick
    BY <2>7, <1>1 DEF Tick
  <2> QED BY <1>7, <2>1, <2>2, <2>3, <2>4, <2>5, <2>6, <2>7 DEF Next
<1> QED BY <1>1, <1>7 DEF vars

-----------------------------------------------------------------------------
(* No row dies young.  A claimed row's deadline leaves it at least one of    *)
(* the retention periods, and a row that was found expired stays old enough  *)
(* even if a restamp moves its deadline before the delete.                   *)

Old(i) == \E floor \in Floors : rows[i].at + floor <= clock

DeadlinesHold ==
  \A i \in Rows :
    /\ rows[i].state = "free" => rows[i].export = NoExport
    /\ rows[i].export # NoExport => \E floor \in Floors : rows[i].at + floor <= rows[i].purge

FloorsAgree == \A e \in Exports : exports[e].status # "none" => exports[e].floor \in Floors

JobIsPatient(j) ==
  /\ j.stage = "restamp" => j.floor \in Floors
  /\ j.stage \in {"purge", "delete"} => j.cutoff <= clock
  /\ \A i \in j.batch : Old(i)

AgeInv ==
  /\ DeadlinesHold
  /\ FloorsAgree
  /\ \A p \in Procs : JobIsPatient(jobs[p])
  /\ NothingDiesYoung

LEMMA IdleIsPatient == JobIsPatient(IdleJob)
BY DEF IdleJob, JobIsPatient

\* Deadlines are only set to a row's date plus a retention period.
LEMMA StepDeadlines ==
  ASSUME IInv, AgeInv, [Next]_vars
  PROVE  DeadlinesHold'
<1> USE DEF IInv
<1>1. CASE UNCHANGED rows
  BY <1>1 DEF AgeInv, DeadlinesHold
<1>2. ASSUME NEW i \in Rows, NEW state \in {"flying", "here"}, Fresh(i), Write(i, state)
      PROVE  DeadlinesHold'
  <2>1. rows[i].state = "free"
    BY <1>2 DEF Fresh, TypeOK, Rows
  <2>2. rows'[i].state # "free" /\ rows'[i].export = NoExport
    BY <1>2, <2>1 DEF Write, TypeOK, RowRecord, AgeInv, DeadlinesHold
  <2>3. \A k \in Rows : k # i => rows'[k] = rows[k]
    BY <1>2 DEF Write, TypeOK
  <2> QED BY <2>2, <2>3 DEF AgeInv, DeadlinesHold
<1>3. ASSUME NEW i \in Rows, Commit(i) \/ Abort(i) \/ TtlDelete(i)
      PROVE  DeadlinesHold'
  <2>1. CASE Abort(i)
    BY <2>1 DEF Abort, FreeRow, TypeOK, AgeInv, DeadlinesHold
  <2>2. CASE Commit(i) \/ TtlDelete(i)
    <3>1. \A k \in Rows : /\ rows'[k].at = rows[k].at /\ rows'[k].export = rows[k].export
                          /\ rows'[k].purge = rows[k].purge
                          /\ rows'[k].state = "free" => rows[k].state = "free"
      BY <2>2 DEF Commit, TtlDelete, TypeOK, RowRecord
    <3> QED BY <3>1 DEF AgeInv, DeadlinesHold
  <2> QED BY <1>3, <2>1, <2>2
<1>4. ASSUME NEW p \in Procs, NEW i \in Rows, StampNext(p, i) \/ RestampNext(p, i)
      PROVE  DeadlinesHold'
  <2>1. PICK floor \in Floors : rows'[i].purge = rows[i].at + floor
    <3>1. CASE StampNext(p, i)
      <4>1. exports[jobs[p].export].floor \in Floors
        BY <3>1 DEF StampNext, JobsAgree, JobAgrees, Works, AgeInv, FloorsAgree
      <4>2. rows'[i].purge = purgeAfterFor(i, exports[jobs[p].export].floor)
        BY <3>1 DEF StampNext, TypeOK, RowRecord
      <4> QED BY <4>1, <4>2 DEF purgeAfterFor
    <3>2. CASE RestampNext(p, i)
      <4>1. jobs[p].floor \in Floors
        BY <3>2 DEF RestampNext, AgeInv, JobIsPatient
      <4>2. rows'[i].purge = purgeAfterFor(i, jobs[p].floor)
        BY <3>2 DEF RestampNext, TypeOK, RowRecord
      <4> QED BY <4>1, <4>2 DEF purgeAfterFor
    <3> QED BY <1>4, <3>1, <3>2
  <2>2. rows[i].state = "here"
    BY <1>4 DEF StampNext, RestampNext, NextAfter, StampFilter, InRange, Stamped
  <2>3. rows'[i].at = rows[i].at /\ rows'[i].state = "here"
    <3>1. CASE StampNext(p, i)
      BY <2>2, <3>1 DEF StampNext, TypeOK, RowRecord
    <3>2. CASE RestampNext(p, i)
      BY <2>2, <3>2 DEF RestampNext, TypeOK, RowRecord
    <3> QED BY <1>4, <3>1, <3>2
  <2>4. \A k \in Rows : k # i => rows'[k] = rows[k]
    BY <1>4 DEF StampNext, RestampNext, TypeOK
  <2>5. rows'[i].at + floor <= rows'[i].purge
    <3>1. rows[i].at + floor \in Nat
      BY FloorsAssumption DEF TypeOK, RowRecord, Floors
    <3> QED BY <2>1, <2>3, <3>1
  <2> QED BY <2>3, <2>4, <2>5 DEF AgeInv, DeadlinesHold
<1>5. ASSUME NEW p \in Procs, PurgeDelete(p)
      PROVE  DeadlinesHold'
  <2>1. \A k \in Rows : /\ rows'[k].export = rows[k].export /\ rows'[k].at = rows[k].at
                        /\ rows'[k].id = rows[k].id
                        /\ rows'[k].purge = rows[k].purge
                        /\ rows'[k].state = "free" => rows[k].state = "free"
    BY <1>5 DEF PurgeDelete, TypeOK, RowRecord
  <2> QED BY <2>1 DEF AgeInv, DeadlinesHold
<1>6. CASE OwnIntent \/ \E i \in Rows : Insert(i) \/ Allocate(i)
  BY <1>1, <1>2, <1>6 DEF Insert, Record, Allocate, OwnIntent
<1>7. CASE Next
  <2>1. ASSUME NEW i \in Rows, Allocate(i) \/ Commit(i) \/ Abort(i) \/ Insert(i) \/ TtlDelete(i)
        PROVE  DeadlinesHold'
    BY <2>1, <1>3, <1>6
  <2>2. ASSUME NEW p \in Procs, NEW e \in Exports, NEW range \in Ranges, NEW floor \in ExportFloors,
               NEW source \in {"api", "cli"}, NEW purge \in BOOLEAN,
               RunExport(p, e, range, floor, source, purge)
        PROVE  DeadlinesHold'
    BY <2>2, <1>6 DEF RunExport
  <2>3. ASSUME NEW p \in Procs, NEW i \in Rows,
               StreamNext(p, i) \/ StampNext(p, i) \/ RestampNext(p, i)
        PROVE  DeadlinesHold'
    BY <2>3, <1>1, <1>4 DEF StreamNext
  <2>4. ASSUME NEW p \in Procs, StreamEnd(p) \/ SaveManifest(p) \/ StampEnd(p) \/ Fail(p)
        PROVE  DeadlinesHold'
    BY <2>4, <1>1, <1>6 DEF StreamEnd, SaveManifest, StampEnd, Fail
  <2>5. ASSUME NEW p \in Procs,
               PurgeDelete(p) \/ PurgeEnd(p) \/ \E batch \in SUBSET Rows : PurgeFind(p, batch)
        PROVE  DeadlinesHold'
    BY <2>5, <1>1, <1>5 DEF PurgeEnd, PurgeFind
  <2>6. ASSUME NEW p \in Procs,
               \/ ResumeUnstamped(p) \/ ResumeEnd(p) \/ ResumeFail(p) \/ RestampEnd(p) \/ Crash(p)
               \/ \E e \in Exports : ResumeNext(p, e)
               \/ \E floor \in RestampFloors : RestampStart(p, floor)
        PROVE  DeadlinesHold'
    BY <2>6, <1>1, <1>6
       DEF ResumeUnstamped, ResumeEnd, ResumeFail, RestampEnd, Crash, ResumeNext, RestampStart
  <2>7. CASE Tick
    BY <2>7, <1>1 DEF Tick
  <2> QED BY <1>7, <2>1, <2>2, <2>3, <2>4, <2>5, <2>6, <2>7 DEF Next
<1> QED BY <1>1, <1>7 DEF vars

\* A manifest is created with a retention period in force and keeps it.
LEMMA StepFloors ==
  ASSUME IInv, AgeInv, [Next]_vars
  PROVE  FloorsAgree'
<1> USE DEF IInv, AgeInv
<1>1. CASE UNCHANGED exports
  BY <1>1 DEF FloorsAgree
<1>2. ASSUME NEW p \in Procs, NEW e \in Exports, NEW range \in Ranges, NEW floor \in ExportFloors,
             NEW source, NEW purge \in BOOLEAN, RunExport(p, e, range, floor, source, purge)
      PROVE  FloorsAgree'
  <2>1. exports'[e].floor = floor /\ \A f \in Exports : f # e => exports'[f] = exports[f]
    BY <1>2 DEF RunExport, TypeOK
  <2> QED BY <2>1 DEF FloorsAgree, Floors
<1>3. ASSUME NEW p \in Procs,
             (\E i \in Rows : StreamNext(p, i)) \/ SaveManifest(p) \/ StampEnd(p) \/ Fail(p)
      PROVE  FloorsAgree'
  <2>1. jobs[p].export \in Exports /\ exports[jobs[p].export].status # "none"
    BY <1>3 DEF JobsAgree, JobAgrees, StreamNext, SaveManifest, StampEnd, Fail, Works
  <2>2. exports'[jobs[p].export].floor = exports[jobs[p].export].floor
    <3>1. exports[jobs[p].export] \in ExportRecord
      BY <2>1 DEF TypeOK
    <3>2. \E x : x.floor = exports[jobs[p].export].floor
                 /\ exports' = [exports EXCEPT ![jobs[p].export] = x]
      <4>1. CASE Fail(p)
        <5>1. PICK status : exports' = [exports EXCEPT ![jobs[p].export] =
                [exports[jobs[p].export] EXCEPT !.status = status,
                   !.max = IF jobs[p].export \in durable THEN exports[jobs[p].export].max ELSE 0]]
          BY <4>1 DEF Fail
        <5> DEFINE x == [exports[jobs[p].export] EXCEPT !.status = status,
                   !.max = IF jobs[p].export \in durable THEN exports[jobs[p].export].max ELSE 0]
        <5>2. x.floor = exports[jobs[p].export].floor
          BY <3>1 DEF ExportRecord
        <5>3. exports' = [exports EXCEPT ![jobs[p].export] = x]
          BY <5>1
        <5> HIDE DEF x
        <5> QED BY <5>2, <5>3
      <4>2. CASE \E i \in Rows : StreamNext(p, i)
        BY <3>1, <4>2 DEF StreamNext, ExportRecord
      <4>3. CASE SaveManifest(p)
        BY <3>1, <4>3 DEF SaveManifest, ExportRecord
      <4>4. CASE StampEnd(p)
        BY <3>1, <4>4 DEF StampEnd, ExportRecord
      <4> QED BY <1>3, <4>1, <4>2, <4>3, <4>4
    <3> QED BY <2>1, <3>2 DEF TypeOK
  <2>3. \A f \in Exports : f # jobs[p].export => exports'[f] = exports[f]
    BY <1>3 DEF StreamNext, SaveManifest, StampEnd, Fail, TypeOK
  <2> QED BY <2>1, <2>2, <2>3 DEF FloorsAgree
<1>4. CASE Next
  BY <1>1, <1>2, <1>3, <1>4
     DEF Next, Allocate, Commit, Abort, Insert, TtlDelete, StampNext, RestampNext, StreamEnd,
         PurgeFind, PurgeDelete, PurgeEnd, Crash, ResumeUnstamped, ResumeEnd, ResumeFail,
         RestampEnd, ResumeNext, RestampStart, Tick
<1> QED BY <1>1, <1>4 DEF vars

\* Time only ages a row, so what made a job patient lasts.
LEMMA PatienceLasts ==
  ASSUME IInv, IInv', RowsStand, clock' \in {clock, clock + 1}
  PROVE  /\ \A i \in Rows : rows[i].state \in {"here", "gone"} /\ Old(i) => Old(i)'
         /\ \A p \in Procs : JobIsPatient(jobs[p]) => JobIsPatient(jobs[p])'
              \/ jobs'[p] # jobs[p]
<1>1. clock \in Nat /\ \A i \in Rows : rows[i].at \in Nat
  BY DEF IInv, TypeOK, RowRecord
<1>2. Floors \subseteq Nat
  BY FloorsAssumption DEF Floors
<1>3. \A i \in Rows : rows[i].state \in {"here", "gone"} /\ Old(i) => Old(i)'
  BY <1>1, <1>2 DEF RowsStand, Old
<1>4. ASSUME NEW p \in Procs, JobIsPatient(jobs[p]), jobs'[p] = jobs[p]
      PROVE  JobIsPatient(jobs[p])'
  <2>1. jobs[p].cutoff \in Nat /\ jobs[p].batch \subseteq Rows
    BY DEF IInv, TypeOK, JobRecord
  <2>2. \A i \in jobs[p].batch : Old(i)'
    BY <1>3, <1>4, <2>1 DEF JobIsPatient, IInv, JobsAgree, JobAgrees
  <2> QED BY <1>1, <1>4, <2>1, <2>2 DEF JobIsPatient
<1> QED BY <1>3, <1>4

LEMMA StepPatience ==
  ASSUME IInv, IInv', AgeInv, RowsStand, [Next]_vars
  PROVE  \A p \in Procs : JobIsPatient(jobs[p])'
<1> USE DEF IInv
<1>1. clock' \in {clock, clock + 1}
  BY DEF Next, Allocate, Commit, Abort, Insert, TtlDelete, RunExport, StreamNext, StampNext,
         RestampNext, StreamEnd, SaveManifest, StampEnd, Fail, PurgeFind, PurgeDelete, PurgeEnd,
         Crash, ResumeUnstamped, ResumeEnd, ResumeFail, RestampEnd, ResumeNext, RestampStart,
         Tick, vars
<1>2. \A p \in Procs : jobs'[p] = jobs[p] => JobIsPatient(jobs[p])'
  BY <1>1, PatienceLasts DEF AgeInv
<1>3. ASSUME NEW p \in Procs, NEW j, SetJob(p, j), JobIsPatient(j)'
      PROVE  \A q \in Procs : JobIsPatient(jobs[q])'
  BY <1>2, <1>3 DEF SetJob, TypeOK
<1>4. CASE UNCHANGED jobs
  BY <1>2, <1>4
<1>5. \A p \in Procs : jobs[p] \in JobRecord /\ JobIsPatient(jobs[p])
  BY DEF AgeInv, TypeOK
<1>6. ASSUME NEW p \in Procs, NEW j, j.stage \notin {"restamp", "purge", "delete"}, j.batch = {},
             SetJob(p, j)
      PROVE  \A q \in Procs : JobIsPatient(jobs[q])'
  BY <1>3, <1>6 DEF JobIsPatient
<1>7. ASSUME NEW p \in Procs, Finish(p)
      PROVE  \A q \in Procs : JobIsPatient(jobs[q])'
  BY <1>6, <1>7 DEF Finish, IdleJob
<1>8. ASSUME NEW p \in Procs, NEW i \in Rows, StampNext(p, i) \/ RestampNext(p, i)
      PROVE  \A q \in Procs : JobIsPatient(jobs[q])'
  <2>0. PICK j : j = [jobs[p] EXCEPT !.pos = i]
    OBVIOUS
  <2>1. SetJob(p, j) /\ j.stage = jobs[p].stage /\ j.floor = jobs[p].floor
        /\ j.batch = jobs[p].batch /\ jobs[p].stage \notin {"purge", "delete"}
    BY <1>5, <1>8, <2>0 DEF StampNext, RestampNext, JobRecord
  <2>2. \A k \in jobs[p].batch : Old(k)'
    BY <1>1, <1>5, PatienceLasts DEF JobIsPatient, JobsAgree, JobAgrees, JobRecord
  <2>3. JobIsPatient(j)'
    BY <1>5, <2>1, <2>2 DEF JobIsPatient
  <2> QED BY <1>3, <2>1, <2>3
<1>9. ASSUME NEW p \in Procs, StreamEnd(p) \/ SaveManifest(p)
      PROVE  \A q \in Procs : JobIsPatient(jobs[q])'
  <2>1. PICK stage \in {"save", "stamp"} : SetJob(p, [jobs[p] EXCEPT !.stage = stage])
    BY <1>9 DEF StreamEnd, SaveManifest
  <2>2. PICK j : j = [jobs[p] EXCEPT !.stage = stage]
    OBVIOUS
  <2>3. SetJob(p, j) /\ j.stage \notin {"restamp", "purge", "delete"} /\ j.batch = jobs[p].batch
    BY <1>5, <2>1, <2>2 DEF JobRecord
  <2>4. \A k \in jobs[p].batch : Old(k)'
    BY <1>1, <1>5, PatienceLasts DEF JobIsPatient, JobsAgree, JobAgrees, JobRecord
  <2> QED BY <1>3, <2>3, <2>4 DEF JobIsPatient
<1>10. ASSUME NEW p \in Procs, StampEnd(p)
       PROVE  \A q \in Procs : JobIsPatient(jobs[q])'
  <2>1. CASE Finish(p)
    BY <2>1, <1>7
  <2>2. CASE SetJob(p, [IdleJob EXCEPT !.stage = "resume", !.pending = jobs[p].pending])
    BY <2>2, <1>6 DEF IdleJob
  <2>3. CASE SetJob(p, [IdleJob EXCEPT !.stage = "purge", !.export = jobs[p].export, !.own = TRUE,
                                       !.cutoff = clock])
    <3>0. PICK j : j = [IdleJob EXCEPT !.stage = "purge", !.export = jobs[p].export, !.own = TRUE,
                                    !.cutoff = clock]
      OBVIOUS
    <3>1. j.stage = "purge" /\ j.batch = {} /\ j.cutoff = clock
      BY <3>0 DEF IdleJob
    <3>2. clock' = clock /\ clock \in Nat
      BY <1>10 DEF StampEnd, TypeOK
    <3>3. JobIsPatient(j)'
      BY <3>1, <3>2 DEF JobIsPatient
    <3> QED BY <1>3, <2>3, <3>0, <3>3
  <2> QED BY <1>10, <2>1, <2>2, <2>3 DEF StampEnd
<1>11. ASSUME NEW p \in Procs, NEW batch \in SUBSET Rows, PurgeFind(p, batch)
       PROVE  \A q \in Procs : JobIsPatient(jobs[q])'
  <2>0. PICK j : j = [jobs[p] EXCEPT !.stage = "delete", !.batch = batch]
    OBVIOUS
  <2>1. SetJob(p, j) /\ j.stage = "delete" /\ j.batch = batch /\ j.cutoff = jobs[p].cutoff
    BY <1>5, <1>11, <2>0 DEF PurgeFind, JobRecord
  <2>2. jobs[p].stage = "purge" /\ jobs[p].cutoff <= clock /\ jobs[p].export \in Exports
    BY <1>5, <1>11 DEF PurgeFind, JobIsPatient, JobsAgree, JobAgrees, Works
  <2>3. ASSUME NEW k \in batch
        PROVE  Old(k)'
    <3>1. rows[k].state = "here" /\ rows[k].purge <= jobs[p].cutoff
          /\ rows[k].export = jobs[p].export
      BY <1>11 DEF PurgeFind, Expired
    <3>2. PICK floor \in Floors : rows[k].at + floor <= rows[k].purge
      BY <2>2, <3>1, NoExportAssumption DEF AgeInv, DeadlinesHold
    <3>3. /\ rows[k].at \in Nat /\ rows[k].purge \in Nat /\ floor \in Nat
          /\ jobs[p].cutoff \in Nat /\ clock \in Nat
      BY <1>5, FloorsAssumption DEF TypeOK, RowRecord, JobRecord, Floors
    <3>4. rows[k].at + floor <= clock
      BY <2>2, <3>1, <3>2, <3>3
    <3> QED BY <1>11, <3>4 DEF PurgeFind, Old
  <2>4. JobIsPatient(j)'
    BY <1>11, <2>1, <2>2, <2>3 DEF JobIsPatient, PurgeFind
  <2> QED BY <1>3, <2>1, <2>4
<1>12. ASSUME NEW p \in Procs, PurgeDelete(p)
       PROVE  \A q \in Procs : JobIsPatient(jobs[q])'
  <2>1. CASE Finish(p)
    BY <2>1, <1>7
  <2>2. CASE SetJob(p, [jobs[p] EXCEPT !.stage = "purge", !.batch = {}])
    \* A new batch is looked for with the old cutoff.
    <3>0. PICK j : j = [jobs[p] EXCEPT !.stage = "purge", !.batch = {}]
      OBVIOUS
    <3>1. j.stage = "purge" /\ j.batch = {} /\ j.cutoff = jobs[p].cutoff
      BY <1>5, <3>0 DEF JobRecord
    <3>2. clock' = clock
      BY <1>12 DEF PurgeDelete
    <3>3. jobs[p].cutoff <= clock
      BY <1>5, <1>12 DEF PurgeDelete, JobIsPatient
    <3>4. JobIsPatient(j)'
      BY <3>1, <3>2, <3>3 DEF JobIsPatient
    <3> QED BY <1>3, <2>2, <3>0, <3>4
  <2> QED BY <1>12, <2>1, <2>2 DEF PurgeDelete
<1>13. ASSUME NEW p \in Procs, NEW floor \in RestampFloors, RestampStart(p, floor)
       PROVE  \A q \in Procs : JobIsPatient(jobs[q])'
  <2>0. PICK j : j = [IdleJob EXCEPT !.stage = "restamp", !.floor = floor]
    OBVIOUS
  <2>1. SetJob(p, j) /\ j.stage = "restamp" /\ j.batch = {} /\ j.floor = floor
    BY <1>13, <2>0 DEF RestampStart, IdleJob
  <2>2. JobIsPatient(j)'
    BY <2>1 DEF JobIsPatient, Floors
  <2> QED BY <1>3, <2>1, <2>2
<1>14. ASSUME NEW p \in Procs,
              \/ ResumeUnstamped(p) \/ ResumeFail(p)
              \/ \E e \in Exports : ResumeNext(p, e)
              \/ \E e \in Exports, range \in Ranges, floor \in ExportFloors,
                    source \in {"api", "cli"}, purge \in BOOLEAN :
                      RunExport(p, e, range, floor, source, purge)
       PROVE  \A q \in Procs : JobIsPatient(jobs[q])'
  <2>1. CASE ResumeUnstamped(p) \/ ResumeFail(p)
    BY <2>1, <1>6 DEF ResumeUnstamped, ResumeFail, IdleJob
  <2>2. CASE \E e \in Exports : ResumeNext(p, e)
    BY <2>2, <1>6 DEF ResumeNext, IdleJob
  <2>3. ASSUME NEW e \in Exports, NEW purge,
               SetJob(p, [IdleJob EXCEPT !.stage = "stream", !.export = e, !.own = TRUE,
                                         !.purge = purge])
        PROVE  \A q \in Procs : JobIsPatient(jobs[q])'
    BY <2>3, <1>6 DEF IdleJob
  <2>4. CASE \E e \in Exports, range \in Ranges, floor \in ExportFloors,
                source \in {"api", "cli"}, purge \in BOOLEAN :
                  RunExport(p, e, range, floor, source, purge)
    BY <2>3, <2>4 DEF RunExport
  <2> QED BY <1>14, <2>1, <2>2, <2>4
<1>15. CASE Next
  <2>1. CASE \E i \in Rows : Allocate(i) \/ Commit(i) \/ Abort(i) \/ Insert(i) \/ TtlDelete(i)
    BY <2>1, <1>4 DEF Allocate, Commit, Abort, Insert, TtlDelete
  <2>2. CASE \E p \in Procs, i \in Rows : StreamNext(p, i) \/ StampNext(p, i) \/ RestampNext(p, i)
    BY <2>2, <1>4, <1>8 DEF StreamNext
  <2>3. CASE \E p \in Procs : StreamEnd(p) \/ SaveManifest(p) \/ StampEnd(p) \/ Fail(p)
    BY <2>3, <1>7, <1>9, <1>10 DEF Fail
  <2>4. CASE \E p \in Procs, batch \in SUBSET Rows : PurgeFind(p, batch)
    BY <2>4, <1>11
  <2>5. CASE \E p \in Procs : PurgeDelete(p) \/ PurgeEnd(p) \/ Crash(p) \/ ResumeEnd(p)
                              \/ RestampEnd(p)
    BY <2>5, <1>7, <1>12 DEF PurgeEnd, Crash, ResumeEnd, RestampEnd
  <2>6. CASE Tick
    BY <2>6, <1>4 DEF Tick
  <2> QED BY <1>15, <2>1, <2>2, <2>3, <2>4, <2>5, <2>6, <1>13, <1>14 DEF Next
<1> QED BY <1>4, <1>15 DEF vars

LEMMA StepAge ==
  ASSUME IInv, IInv', AgeInv, [Next]_vars
  PROVE  AgeInv'
<1> USE DEF IInv
<1>1. RowsStand
  BY StepStands
<1>2. DeadlinesHold' /\ FloorsAgree' /\ \A p \in Procs : JobIsPatient(jobs[p])'
  BY <1>1, StepDeadlines, StepFloors, StepPatience
<1>3. NothingDiesYoung'
  <2> SUFFICES ASSUME NEW i \in Rows, rows'[i].state = "gone"
               PROVE  Old(i)'
    BY DEF NothingDiesYoung, Old
  <2>1. clock' \in {clock, clock + 1}
    BY DEF Next, Allocate, Commit, Abort, Insert, TtlDelete, RunExport, StreamNext, StampNext,
           RestampNext, StreamEnd, SaveManifest, StampEnd, Fail, PurgeFind, PurgeDelete, PurgeEnd,
           Crash, ResumeUnstamped, ResumeEnd, ResumeFail, RestampEnd, ResumeNext, RestampStart,
           Tick, vars
  <2>2. rows[i].state = "gone" \/ (rows[i].state = "here" /\ Old(i))
           \/ \E p \in Procs : i \in jobs[p].batch
    <3>1. CASE TtlDelete(i)
      <4>1. rows[i].state = "here" /\ rows[i].purge <= clock /\ rows[i].export # NoExport
        BY <3>1 DEF TtlDelete, Stamped
      <4>2. PICK floor \in Floors : rows[i].at + floor <= rows[i].purge
        BY <4>1 DEF AgeInv, DeadlinesHold
      <4>3. rows[i].at \in Nat /\ rows[i].purge \in Nat /\ floor \in Nat /\ clock \in Nat
        BY FloorsAssumption DEF TypeOK, RowRecord, Floors
      <4> QED BY <4>1, <4>2, <4>3 DEF Old
    <3>2. ASSUME NEW p \in Procs, PurgeDelete(p)
          PROVE  rows[i].state = "gone" \/ i \in jobs[p].batch
      BY <3>2 DEF PurgeDelete, TypeOK
    <3>3. ASSUME Arrivals
          PROVE  rows[i].state = "gone"
      BY <3>3 DEF Arrivals
    <3>4. ASSUME NEW k \in Rows, Allocate(k) \/ Commit(k) \/ Abort(k) \/ Insert(k)
                                 \/ (TtlDelete(k) /\ k # i)
          PROVE  rows[i].state = "gone"
      <4>1. CASE Insert(k)
        BY <4>1, <3>3, RecordArrives DEF Insert
      <4>2. CASE Allocate(k)
        BY <4>2 DEF Allocate, Write, TypeOK, RowRecord
      <4>3. CASE Commit(k)
        BY <4>3 DEF Commit, TypeOK, RowRecord
      <4>4. CASE Abort(k)
        BY <4>4 DEF Abort, FreeRow, TypeOK
      <4>5. CASE TtlDelete(k) /\ k # i
        BY <4>5 DEF TtlDelete, TypeOK
      <4> QED BY <3>4, <4>1, <4>2, <4>3, <4>4, <4>5
    <3>5. ASSUME NEW p \in Procs, NEW k \in Rows, StampNext(p, k) \/ RestampNext(p, k)
          PROVE  rows[i].state = "gone"
      <4>1. rows'[i].state = rows[i].state
        <5>1. CASE StampNext(p, k)
          BY <5>1 DEF StampNext, TypeOK, RowRecord
        <5>2. CASE RestampNext(p, k)
          BY <5>2 DEF RestampNext, TypeOK, RowRecord
        <5> QED BY <3>5, <5>1, <5>2
      <4> QED BY <4>1
    <3>6. CASE UNCHANGED rows
      BY <3>6
    <3>7. CASE Next
      <4>1. ASSUME NEW p \in Procs, NEW e \in Exports, NEW range \in Ranges,
                   NEW floor \in ExportFloors, NEW source \in {"api", "cli"},
                   NEW purge \in BOOLEAN, RunExport(p, e, range, floor, source, purge)
            PROVE  rows[i].state = "gone"
        BY <4>1, <3>3, OwnIntentArrives DEF RunExport
      <4>2. ASSUME NEW p \in Procs, StreamEnd(p) \/ SaveManifest(p) \/ StampEnd(p) \/ Fail(p)
                                    \/ \E k \in Rows : StreamNext(p, k)
            PROVE  rows[i].state = "gone"
        BY <4>2, <3>3, <3>6, OwnIntentArrives
           DEF StreamEnd, SaveManifest, StampEnd, Fail, StreamNext
      <4>3. ASSUME NEW p \in Procs,
                   \/ ResumeUnstamped(p) \/ ResumeEnd(p) \/ ResumeFail(p) \/ RestampEnd(p)
                   \/ Crash(p) \/ PurgeEnd(p) \/ \E batch \in SUBSET Rows : PurgeFind(p, batch)
                   \/ \E e \in Exports : ResumeNext(p, e)
                   \/ \E floor \in RestampFloors : RestampStart(p, floor)
            PROVE  rows[i].state = "gone"
        BY <4>3, <3>3, <3>6, OwnIntentArrives
           DEF ResumeUnstamped, ResumeEnd, ResumeFail, RestampEnd, Crash, PurgeEnd, PurgeFind,
               ResumeNext, RestampStart
      <4>4. CASE Tick
        BY <4>4, <3>6 DEF Tick
      <4> QED BY <3>7, <3>1, <3>2, <3>4, <3>5, <4>1, <4>2, <4>3, <4>4 DEF Next
    <3> QED BY <3>6, <3>7 DEF vars
  <2>3. (rows[i].state \in {"here", "gone"}) /\ Old(i)
    BY <2>2 DEF AgeInv, NothingDiesYoung, Old, JobIsPatient, JobsAgree, JobAgrees
  <2> QED BY <1>1, <2>1, <2>3, PatienceLasts
<1> QED BY <1>2, <1>3 DEF AgeInv

LEMMA InitAge == Init => AgeInv
BY IdleIsPatient DEF Init, FreeRow, AgeInv, DeadlinesHold, FloorsAgree, NothingDiesYoung

\* However exports overlap, whoever restamps while a purge works from what it
\* read before, and whenever a process dies: no row is deleted before it has
\* reached one of the retention periods (purgeExpired, the TTL index).
THEOREM NobodyDiesYoung == Spec => []NothingDiesYoung
<1>1. Spec => []AgeInv
  <2>1. AgeInv /\ IInv /\ IInv' /\ [Next]_vars => AgeInv'
    BY StepAge
  <2> QED BY <2>1, InitAge, Inductive, PTL DEF Spec
<1>2. AgeInv => NothingDiesYoung
  BY DEF AgeInv
<1> QED BY <1>1, <1>2, PTL

-----------------------------------------------------------------------------
(* What a file holds.  An exporter is alone with its file until the file is  *)
(* durable, and from then on nothing changes it; so what the cursor and the  *)
(* stamp have passed can be told from where they are.                        *)

\* What a file holds can be read, or was deleted, and lies in the window of
\* its export, no later in the stream than the row of the watermark.
Filed(i, e) ==
  /\ rows[i].state \in {"here", "gone"}
  /\ exports[e].range.from <= rows[i].at /\ rows[i].at < exports[e].range.to
  /\ i <= exports[e].max

FilesAgree ==
  \A e \in Exports :
    /\ exports[e].status = "none" => files[e] = {}
    /\ exports[e].stamped => e \in durable
    /\ \A i \in files[e] : Filed(i, e)

Held(e) == \A i \in atStart[e] : i \in files[e] \/ rows[i].state = "gone"

StillToCome(e) ==
  \A i \in atStart[e] :
    i \in files[e] \/ rows[i].state = "gone" \/ (InRange(i, e) /\ exports[e].max < i)

\* The stamp of e has marked the row, or will not.
Settled(i, e) == rows[i].export # NoExport \/ AboveWatermark(i, e)

MarkedTo(pos, e) == \A i \in files[e] : i <= pos => Settled(i, e)

ProgressAgrees ==
  \A p \in Procs :
    /\ jobs[p].stage = "stream" => StillToCome(jobs[p].export)
    /\ jobs[p].stage = "save" => Held(jobs[p].export)
    /\ jobs[p].stage = "stamp" => MarkedTo(jobs[p].pos, jobs[p].export)

FileInv ==
  /\ FilesAgree
  /\ ProgressAgrees
  /\ CompleteFileHoldsRange
  /\ StampedFileIsClaimed

\* A manifest moves on only with what its new status promises.
ManifestStays(e) ==
  /\ exports'[e].range = exports[e].range /\ exports'[e].max = exports[e].max
  /\ exports'[e].status = "none" <=> exports[e].status = "none"
  /\ exports'[e].status = "complete" => exports[e].status = "complete" \/ Held(e)
  /\ exports'[e].stamped =>
       exports[e].stamped \/ (e \in durable /\ \A i \in files[e] : Settled(i, e)')

\* A process keeps at what it does, leaves the file, or stamps from a place
\* up to which the file's rows are marked.
JobStays(p) ==
  \/ jobs'[p] = jobs[p]
  \/ /\ jobs'[p].stage \notin {"stream", "save"}
     /\ jobs'[p].stage = "stamp" =>
          \A i \in files[jobs'[p].export] : i <= jobs'[p].pos => Settled(i, jobs[p].export)'

LEMMA FilesStay ==
  ASSUME IInv, IInv', FileInv, RowsStand, UNCHANGED <<files, durable, atStart>>,
         \A e \in Exports : ManifestStays(e), \A p \in Procs : JobStays(p)
  PROVE  FileInv'
<1> USE DEF IInv, FileInv
<1>1. \A e \in Exports : files[e] \subseteq Rows /\ atStart[e] \subseteq Rows
  BY DEF TypeOK
<1>2. \A e \in Exports : \A i \in files[e] :
        Filed(i, e)' /\ (Settled(i, e) => Settled(i, e)')
  BY <1>1, WatermarkStays DEF FilesAgree, Filed, Settled, RowsStand, ManifestStays
<1>3. FilesAgree'
  BY <1>2 DEF FilesAgree, ManifestStays
<1>5. \A e \in Exports : Held(e) => Held(e)'
  BY <1>1 DEF Held, RowsStand
<1>6. \A e \in Exports : StillToCome(e) => StillToCome(e)'
  BY <1>1 DEF StillToCome, InRange, RowsStand, ManifestStays
<1>7. ProgressAgrees'
  <2> SUFFICES ASSUME NEW p \in Procs
               PROVE  /\ jobs'[p].stage = "stream" => StillToCome(jobs[p].export)'
                      /\ jobs'[p].stage = "save" => Held(jobs[p].export)'
                      /\ jobs'[p].stage = "stamp" => MarkedTo(jobs[p].pos, jobs[p].export)'
    BY DEF ProgressAgrees
  <2>1. CASE jobs'[p] = jobs[p]
    <3>1. jobs[p].stage \in Works => jobs[p].export \in Exports
      BY DEF JobsAgree, JobAgrees
    <3>2. jobs[p].stage = "stream" => StillToCome(jobs[p].export)'
      BY <2>1, <3>1, <1>6 DEF ProgressAgrees, StillToCome, InRange, Works
    <3>3. jobs[p].stage = "save" => Held(jobs[p].export)'
      BY <2>1, <3>1, <1>5 DEF ProgressAgrees, Held, Works
    <3>4. jobs[p].stage = "stamp" => MarkedTo(jobs[p].pos, jobs[p].export)'
      BY <2>1, <3>1, <1>2 DEF ProgressAgrees, MarkedTo, Works
    <3> QED BY <2>1, <3>2, <3>3, <3>4
  <2>2. CASE jobs'[p] # jobs[p]
    BY <2>2 DEF JobStays, MarkedTo
  <2> QED BY <2>1, <2>2
<1>8. CompleteFileHoldsRange'
  BY <1>5 DEF CompleteFileHoldsRange, Held, ManifestStays
<1>9. StampedFileIsClaimed'
  BY <1>2 DEF StampedFileIsClaimed, Settled, ManifestStays
<1> QED BY <1>3, <1>7, <1>8, <1>9

LEMMA FileInit == Init => FileInv
<1> SUFFICES ASSUME Init PROVE FileInv
  OBVIOUS
<1>1. ProgressAgrees
  BY DEF Init, IdleJob, ProgressAgrees
<1>2. FilesAgree /\ CompleteFileHoldsRange /\ StampedFileIsClaimed
  BY DEF Init, FilesAgree, CompleteFileHoldsRange, StampedFileIsClaimed
<1> QED BY <1>1, <1>2 DEF FileInv

\* A new manifest's file is empty, and all its caller can see is to come.
LEMMA FileRunExport ==
  ASSUME IInv, IInv', FileInv, RowsStand, NEW p \in Procs, NEW e \in Exports, NEW range, NEW floor,
         NEW source, NEW purge \in BOOLEAN, RunExport(p, e, range, floor, source, purge)
  PROVE  FileInv'
<1> USE DEF IInv, FileInv
<1>1. /\ exports[e].status = "none" /\ e \notin durable /\ files[e] = {}
      /\ UNCHANGED <<files, durable>>
  BY DEF RunExport, ManifestsAgree, FilesAgree
<1>2. /\ exports'[e].status = "running" /\ ~exports'[e].stamped /\ exports'[e].max = 0
      /\ exports'[e].range = range
      /\ \A f \in Exports : f # e => exports'[f] = exports[f] /\ atStart'[f] = atStart[f]
  BY DEF RunExport, TypeOK
<1>3. /\ jobs'[p].stage = "stream" /\ jobs'[p].export = e /\ jobs'[p].own /\ jobs'[p].pos = 0
      /\ \A q \in Procs : q # p => jobs'[q] = jobs[q]
  BY DEF RunExport, SetJob, IdleJob, TypeOK
<1>4. \A q \in Procs : jobs[q].stage \in Works => jobs[q].export \in Exports \ {e}
  BY <1>1 DEF JobsAgree, JobAgrees
<1>6. \A f \in Exports : files[f] \subseteq Rows /\ atStart[f] \subseteq Rows
  BY DEF TypeOK
<1>7. FilesAgree'
  BY <1>1, <1>2, <1>6 DEF FilesAgree, Filed, RowsStand
<1>9. StillToCome(e)'
  <2>1. \A i \in atStart'[e] : InRange(i, e)'
    BY <1>2 DEF RunExport, InRange, TypeOK
  <2>2. \A i \in atStart'[e] : 0 < i
    BY DEF Rows, RunExport, TypeOK
  <2> QED BY <1>2, <2>1, <2>2 DEF StillToCome
<1>10. \A f \in Exports \ {e} : Held(f) => Held(f)'
  BY <1>1, <1>2, <1>6 DEF Held, RowsStand
<1>11. \A f \in Exports \ {e} : StillToCome(f) => StillToCome(f)'
  BY <1>1, <1>2, <1>6 DEF StillToCome, InRange, RowsStand
<1>12. \A f \in Exports : \A i \in files[f] : Settled(i, f) => Settled(i, f)'
  BY <1>1, <1>2, <1>6, WatermarkStays DEF FilesAgree, Filed, Settled, RowsStand
<1>13. ProgressAgrees'
  <2> SUFFICES ASSUME NEW q \in Procs
               PROVE  /\ jobs'[q].stage = "stream" => StillToCome(jobs[q].export)'
                      /\ jobs'[q].stage = "save" => Held(jobs[q].export)'
                      /\ jobs'[q].stage = "stamp" => MarkedTo(jobs[q].pos, jobs[q].export)'
    BY DEF ProgressAgrees
  <2>1. CASE q = p
    BY <1>3, <1>9, <2>1 DEF StillToCome, InRange
  <2>2. CASE q # p
    <3>1. jobs[q].stage = "stream" => StillToCome(jobs[q].export)'
      BY <1>3, <1>4, <1>11, <2>2 DEF ProgressAgrees, StillToCome, InRange, Works
    <3>2. jobs[q].stage = "save" => Held(jobs[q].export)'
      BY <1>3, <1>4, <1>10, <2>2 DEF ProgressAgrees, Held, Works
    <3>3. jobs[q].stage = "stamp" => MarkedTo(jobs[q].pos, jobs[q].export)'
      BY <1>1, <1>3, <1>4, <1>12, <2>2 DEF ProgressAgrees, MarkedTo, Works
    <3> QED BY <1>3, <2>2, <3>1, <3>2, <3>3
  <2> QED BY <2>1, <2>2
<1>14. CompleteFileHoldsRange'
  <2> SUFFICES ASSUME NEW f \in Exports, exports'[f].status = "complete"
               PROVE  Held(f)'
    BY DEF CompleteFileHoldsRange, Held
  <2>1. f # e /\ exports[f].status = "complete"
    BY <1>2
  <2> QED BY <1>10, <2>1 DEF CompleteFileHoldsRange, Held
<1>15. StampedFileIsClaimed'
  BY <1>1, <1>2, <1>12 DEF StampedFileIsClaimed, Settled
<1> QED BY <1>7, <1>13, <1>14, <1>15

\* The cursor takes the first row that is still to come.
LEMMA FileStreamNext ==
  ASSUME IInv, IInv', FileInv, NEW p \in Procs, NEW i \in Rows, StreamNext(p, i)
  PROVE  FileInv'
<1> USE DEF IInv, FileInv
<1>1. PICK e : e = jobs[p].export
  OBVIOUS
<1>2. e \in Exports /\ exports[e].status # "none" /\ e \notin durable /\ jobs[p].stage = "stream"
  BY <1>1 DEF JobsAgree, JobAgrees, OwnersAgree, StreamNext, Works
<1>3. /\ files'[e] = files[e] \cup {i} /\ exports'[e].max = i
      /\ exports'[e].range = exports[e].range /\ exports'[e].status = exports[e].status
      /\ exports'[e].stamped = exports[e].stamped
      /\ \A f \in Exports : f # e => exports'[f] = exports[f] /\ files'[f] = files[f]
      /\ UNCHANGED <<rows, durable, jobs, atStart>>
  BY <1>1, <1>2 DEF StreamNext, TypeOK, ExportRecord
<1>4. /\ InRange(i, e) /\ exports[e].max < i
      /\ \A k \in Rows : InRange(k, e) /\ exports[e].max < k => i <= k
  BY <1>1 DEF StreamNext, NextAfter
<1>5. \A f \in Exports : /\ files[f] \subseteq Rows /\ atStart[f] \subseteq Rows
                         /\ exports[f].max \in Nat
  BY DEF TypeOK, ExportRecord, Rows
<1>6. FilesAgree'
  <2> SUFFICES ASSUME NEW f \in Exports
               PROVE  /\ exports'[f].status = "none" => files'[f] = {}
                      /\ exports'[f].stamped => f \in durable'
                      /\ \A k \in files'[f] : Filed(k, f)'
    BY DEF FilesAgree
  <2>1. CASE f # e
    BY <1>3, <2>1 DEF FilesAgree, Filed
  <2>2. CASE f = e
    <3>1. Filed(i, e)'
      BY <1>3, <1>4 DEF Filed, InRange, Rows
    <3>2. ASSUME NEW k \in files[e]
          PROVE  Filed(k, e)'
      <4>1. k \in Nat /\ i \in Nat /\ k <= exports[e].max /\ Filed(k, e)
        BY <1>2, <1>5 DEF FilesAgree, Filed, Rows
      <4>2. k <= i
        BY <1>2, <1>4, <1>5, <4>1
      <4> QED BY <1>3, <4>1, <4>2 DEF Filed
    <3> QED BY <1>2, <1>3, <2>2, <3>1, <3>2 DEF FilesAgree
  <2> QED BY <2>1, <2>2
<1>8. \A f \in Exports : Held(f) => Held(f)'
  BY <1>3 DEF Held
<1>9. StillToCome(e)'
  <2>1. StillToCome(e)
    BY <1>1, <1>2 DEF ProgressAgrees
  <2> SUFFICES ASSUME NEW k \in atStart[e], k \notin files[e], k # i, rows[k].state # "gone"
               PROVE  InRange(k, e) /\ i < k
    BY <1>3 DEF StillToCome, InRange
  <2>2. InRange(k, e) /\ exports[e].max < k /\ k \in Rows
    BY <1>2, <1>5, <2>1 DEF StillToCome
  <2>3. i <= k
    BY <1>4, <2>2
  <2> QED BY <2>2, <2>3 DEF Rows
<1>10. ASSUME NEW q \in Procs
       PROVE  /\ jobs'[q].stage = "stream" => StillToCome(jobs[q].export)'
              /\ jobs'[q].stage = "save" => Held(jobs[q].export)'
              /\ jobs'[q].stage = "stamp" => MarkedTo(jobs[q].pos, jobs[q].export)'
  <2>1. jobs[q].stage \in Works => jobs[q].export \in Exports
    BY DEF JobsAgree, JobAgrees
  <2>2. CASE q = p
    BY <1>1, <1>2, <1>3, <1>9, <2>2 DEF StillToCome, InRange
  <2>3. CASE q # p
    <3>1. jobs[q].stage \in {"stream", "save"} => jobs[q].export # e
      BY <1>1, <1>2, <2>3 DEF OwnersAgree
    <3>2. jobs[q].stage = "stamp" => jobs[q].export # e
      BY <1>2 DEF JobsAgree, JobAgrees, Works
    <3>3. jobs[q].stage = "stream" => StillToCome(jobs[q].export)'
      BY <1>3, <2>1, <3>1 DEF ProgressAgrees, StillToCome, InRange, Works
    <3>4. jobs[q].stage = "save" => Held(jobs[q].export)'
      BY <1>3, <2>1, <3>1 DEF ProgressAgrees, Held, Works
    <3>5. jobs[q].stage = "stamp" => MarkedTo(jobs[q].pos, jobs[q].export)'
      BY <1>3, <2>1, <3>2 DEF ProgressAgrees, MarkedTo, Settled, AboveWatermark, Works
    <3> QED BY <1>3, <3>3, <3>4, <3>5
  <2> QED BY <2>2, <2>3
<1>11. ProgressAgrees'
  BY <1>10 DEF ProgressAgrees
<1>12. CompleteFileHoldsRange'
  <2> SUFFICES ASSUME NEW f \in Exports, exports'[f].status = "complete"
               PROVE  Held(f)'
    BY DEF CompleteFileHoldsRange, Held
  <2>1. exports[f].status = "complete"
    BY <1>3
  <2> QED BY <1>8, <2>1 DEF CompleteFileHoldsRange, Held
<1>13. StampedFileIsClaimed'
  <2>1. ~exports[e].stamped
    BY <1>2 DEF FilesAgree
  <2> QED BY <1>3, <2>1 DEF StampedFileIsClaimed, AboveWatermark
<1> QED BY <1>6, <1>11, <1>12, <1>13

\* An exhausted cursor has left nothing to come.
LEMMA FileStreamEnd ==
  ASSUME IInv, IInv', FileInv, NEW p \in Procs, StreamEnd(p)
  PROVE  FileInv'
<1> USE DEF IInv, FileInv
<1>1. PICK e : e = jobs[p].export
  OBVIOUS
<1>2. e \in Exports /\ jobs[p].stage = "stream" /\ jobs[p].own /\ jobs[p].pos = 0
  BY <1>1 DEF JobsAgree, JobAgrees, OwnersAgree, StreamEnd, Works
<1>3. /\ durable' = durable \cup {e} /\ UNCHANGED <<rows, exports, files, atStart>>
      /\ jobs'[p].stage = "save" /\ jobs'[p].export = e /\ jobs'[p].own /\ jobs'[p].pos = 0
      /\ \A q \in Procs : q # p => jobs'[q] = jobs[q]
  BY <1>1, <1>2 DEF StreamEnd, SetJob, TypeOK, JobRecord
<1>4. FilesAgree'
  BY <1>3 DEF FilesAgree, Filed
<1>7. Held(e)
  <2>1. StillToCome(e) /\ ~\E i \in Rows : InRange(i, e) /\ exports[e].max < i
    BY <1>1, <1>2 DEF ProgressAgrees, StreamEnd
  <2>2. atStart[e] \subseteq Rows
    BY <1>2 DEF TypeOK
  <2> QED BY <2>1, <2>2 DEF StillToCome, Held
<1>8. ProgressAgrees'
  BY <1>3, <1>7 DEF ProgressAgrees, StillToCome, InRange, Held, MarkedTo, Settled, AboveWatermark
<1>9. CompleteFileHoldsRange' /\ StampedFileIsClaimed'
  BY <1>3 DEF CompleteFileHoldsRange, StampedFileIsClaimed, AboveWatermark
<1> QED BY <1>4, <1>8, <1>9

\* A failed exporter empties a `.part` nobody else works on.
LEMMA FileFail ==
  ASSUME IInv, IInv', FileInv, RowsStand, NEW p \in Procs, Fail(p)
  PROVE  FileInv'
<1> USE DEF IInv, FileInv
<1>1. PICK e : e = jobs[p].export
  OBVIOUS
<1>2. e \in Exports /\ exports[e].status # "none" /\ jobs[p].own
  BY <1>1 DEF JobsAgree, JobAgrees, Fail
<1>3. PICK status \in {"failed", exports[e].status} :
        exports' = [exports EXCEPT ![e] =
          [exports[e] EXCEPT !.status = status,
                             !.max = IF e \in durable THEN exports[e].max ELSE 0]]
  BY <1>1 DEF Fail
<1>4. /\ exports'[e].status = status /\ exports'[e].range = exports[e].range
      /\ exports'[e].stamped = exports[e].stamped
      /\ e \in durable => exports'[e].max = exports[e].max
      /\ \A f \in Exports : f # e => exports'[f] = exports[f]
  <2> DEFINE x == [exports[e] EXCEPT !.status = status,
                             !.max = IF e \in durable THEN exports[e].max ELSE 0]
  <2>1. exports[e] \in ExportRecord
    BY <1>2 DEF TypeOK
  <2>2. /\ x.status = status /\ x.range = exports[e].range /\ x.stamped = exports[e].stamped
        /\ e \in durable => x.max = exports[e].max
    BY <2>1 DEF ExportRecord
  <2>3. exports' = [exports EXCEPT ![e] = x]
    BY <1>3
  <2> HIDE DEF x
  <2> QED BY <1>2, <2>2, <2>3 DEF TypeOK
<1>5. /\ files'[e] = IF e \in durable THEN files[e] ELSE {}
      /\ \A f \in Exports : f # e => files'[f] = files[f]
      /\ UNCHANGED <<rows, durable, atStart>>
      /\ jobs'[p] = IdleJob /\ \A q \in Procs : q # p => jobs'[q] = jobs[q]
  BY <1>1, <1>2 DEF Fail, Finish, SetJob, TypeOK
<1>6. status # "none" /\ (status = "complete" => exports[e].status = "complete")
  BY <1>2
<1>7. CASE e \in durable
  <2>1. files' = files
    <3>1. files \in [Exports -> SUBSET Rows] /\ files' \in [Exports -> SUBSET Rows]
      BY DEF TypeOK
    <3>2. \A f \in Exports : files'[f] = files[f]
      BY <1>5, <1>7
    <3> QED BY <3>1, <3>2
  <2>2. \A f \in Exports : ManifestStays(f)
    BY <1>2, <1>4, <1>6, <1>7 DEF ManifestStays
  <2>3. \A q \in Procs : JobStays(q)
    BY <1>5 DEF JobStays, IdleJob
  <2> QED BY <1>5, <2>1, <2>2, <2>3, FilesStay
<1>8. CASE e \notin durable
  <2>1. exports[e].status # "complete" /\ ~exports[e].stamped
    BY <1>2, <1>8 DEF ManifestsAgree, FilesAgree
  <2>2. FilesAgree'
    BY <1>4, <1>5, <1>8, <2>1 DEF FilesAgree, Filed
  <2>4. ASSUME NEW q \in Procs
        PROVE  /\ jobs'[q].stage = "stream" => StillToCome(jobs[q].export)'
               /\ jobs'[q].stage = "save" => Held(jobs[q].export)'
               /\ jobs'[q].stage = "stamp" => MarkedTo(jobs[q].pos, jobs[q].export)'
    <3>1. CASE q = p
      BY <1>5, <3>1 DEF IdleJob
    <3>2. CASE q # p
      <4>1. jobs[q].stage \in {"stream", "save", "stamp"} => jobs[q].export \in Exports \ {e}
        BY <1>1, <1>2, <1>8, <3>2 DEF JobsAgree, JobAgrees, OwnersAgree, Works
      <4>2. jobs[q].stage = "stream" => StillToCome(jobs[q].export)'
        BY <1>4, <1>5, <3>2, <4>1 DEF ProgressAgrees, StillToCome, InRange
      <4>3. jobs[q].stage = "save" => Held(jobs[q].export)'
        BY <1>4, <1>5, <3>2, <4>1 DEF ProgressAgrees, Held
      <4>4. jobs[q].stage = "stamp" => MarkedTo(jobs[q].pos, jobs[q].export)'
        BY <1>4, <1>5, <3>2, <4>1 DEF ProgressAgrees, MarkedTo, Settled, AboveWatermark
      <4> QED BY <1>5, <3>2, <4>2, <4>3, <4>4
    <3> QED BY <3>1, <3>2
  <2>5. ProgressAgrees'
    BY <2>4 DEF ProgressAgrees
  <2>6. CompleteFileHoldsRange'
    BY <1>4, <1>5, <1>6, <2>1 DEF CompleteFileHoldsRange
  <2>7. StampedFileIsClaimed'
    BY <1>4, <1>5, <2>1 DEF StampedFileIsClaimed, AboveWatermark
  <2> QED BY <2>2, <2>5, <2>6, <2>7
<1> QED BY <1>7, <1>8

\* A stamp marks the first row of the file it has not passed.
LEMMA FileStamp ==
  ASSUME IInv, IInv', FileInv, RowsStand, NEW p \in Procs,
         (\E i \in Rows : StampNext(p, i)) \/ SaveManifest(p) \/ StampEnd(p)
  PROVE  FileInv'
<1> USE DEF IInv, FileInv
<1>1. PICK e : e = jobs[p].export
  OBVIOUS
<1>2. e \in Exports /\ e \in durable
  BY <1>1 DEF JobsAgree, JobAgrees, StampNext, SaveManifest, StampEnd, Works
<1>3. jobs[p] \in JobRecord /\ exports[e] \in ExportRecord /\ files[e] \subseteq Rows
  BY <1>2 DEF TypeOK
<1>4. UNCHANGED <<files, durable, atStart>>
  BY DEF StampNext, SaveManifest, StampEnd
<1>0. exports'[e].max = exports[e].max
  <2>1. CASE SaveManifest(p)
    BY <1>1, <1>3, <2>1 DEF SaveManifest, TypeOK, ExportRecord
  <2>2. CASE StampEnd(p)
    BY <1>1, <1>3, <2>2 DEF StampEnd, TypeOK, ExportRecord
  <2>3. CASE \E i \in Rows : StampNext(p, i)
    BY <2>3 DEF StampNext
  <2> QED BY <2>1, <2>2, <2>3
<1>5. \A i \in files[e] : Filed(i, e) /\ (Settled(i, e) => Settled(i, e)')
  BY <1>0, <1>2, <1>3, WatermarkStays DEF FilesAgree, Filed, Settled, RowsStand
\* What is in the file and not settled, the stamp's filter selects.
<1>6. \A i \in files[e] : Settled(i, e) \/ StampFilter(i, e)
  <2>1. \A i \in Rows : rows[i].state = "gone" => rows[i].export # NoExport
    BY NoExportAssumption DEF ClaimedRowIsFiled, TypeOK
  <2> QED BY <1>3, <1>5, <2>1 DEF Filed, Settled, StampFilter, InRange
<1>7. CASE SaveManifest(p)
  <2>1. jobs[p].stage = "save" /\ jobs[p].pos = 0 /\ Held(e)
    BY <1>1, <1>7 DEF SaveManifest, OwnersAgree, ProgressAgrees
  <2>2. \A f \in Exports : ManifestStays(f)
    BY <1>1, <1>2, <1>3, <1>7, <2>1
       DEF SaveManifest, TypeOK, ExportRecord, ManifestStays, ManifestsAgree
  <2>3. /\ jobs'[p].stage = "stamp" /\ jobs'[p].pos = 0
        /\ jobs'[p].own = jobs[p].own /\ jobs'[p].export = e
        /\ \A q \in Procs : q # p => jobs'[q] = jobs[q]
    BY <1>1, <1>3, <1>7, <2>1 DEF SaveManifest, SetJob, TypeOK, JobRecord
  <2>4. \A i \in files[e] : ~(i <= 0)
    BY <1>3 DEF Rows
  <2>5. \A q \in Procs : JobStays(q)
    BY <1>1, <2>3, <2>4 DEF JobStays
  <2> QED BY <1>4, <2>2, <2>5, FilesStay
<1>8. ASSUME NEW i \in Rows, StampNext(p, i)
      PROVE  FileInv'
  <2>1. /\ jobs[p].stage = "stamp" /\ StampFilter(i, e) /\ jobs[p].pos < i
        /\ \A k \in Rows : StampFilter(k, e) /\ jobs[p].pos < k => i <= k
    BY <1>1, <1>8 DEF StampNext, NextAfter
  <2>2. MarkedTo(jobs[p].pos, e)
    BY <1>1, <2>1 DEF ProgressAgrees
  <2>3. rows'[i].export = e /\ exports' = exports
    <3>1. rows[i] \in RowRecord
      BY DEF TypeOK
    <3>2. PICK r : r = [rows[i] EXCEPT !.export = e,
                          !.purge = purgeAfterFor(i, exports[e].floor)]
      OBVIOUS
    <3>3. r.export = e
      BY <3>1, <3>2 DEF RowRecord
    <3>4. rows' = [rows EXCEPT ![i] = r] /\ exports' = exports
      BY <1>1, <1>8, <3>2 DEF StampNext
    <3> QED BY <3>3, <3>4 DEF TypeOK
  <2>4. /\ jobs'[p].stage = "stamp" /\ jobs'[p].pos = i
        /\ jobs'[p].own = jobs[p].own /\ jobs'[p].export = e
        /\ \A q \in Procs : q # p => jobs'[q] = jobs[q]
    BY <1>1, <1>3, <1>8, <2>1 DEF StampNext, SetJob, TypeOK, JobRecord
  <2>5. ASSUME NEW k \in files[e], k <= i
        PROVE  Settled(k, e)'
    <3>1. CASE k = i
      BY <1>2, <2>3, <3>1, NoExportAssumption DEF Settled
    <3>2. CASE Settled(k, e)
      BY <1>5, <3>2
    <3>3. CASE ~Settled(k, e) /\ k # i
      <4>1. k \in Rows /\ StampFilter(k, e) /\ ~(k <= jobs[p].pos)
        BY <1>3, <1>6, <2>2, <3>3 DEF MarkedTo
      <4>2. jobs[p].pos \in Int /\ k \in Int /\ i \in Int
        BY <1>3 DEF JobRecord, Rows
      <4>3. i <= k
        BY <2>1, <4>1, <4>2
      <4> QED BY <2>5, <3>3, <4>2, <4>3
    <3> QED BY <3>1, <3>2, <3>3
  <2>6. \A q \in Procs : JobStays(q)
    BY <1>1, <2>4, <2>5 DEF JobStays
  <2>7. \A f \in Exports : ManifestStays(f)
    BY <2>3 DEF ManifestStays
  <2> QED BY <1>4, <2>6, <2>7, FilesStay
<1>9. CASE StampEnd(p)
  <2>1. jobs[p].stage = "stamp" /\ ~\E i \in Rows : StampFilter(i, e) /\ jobs[p].pos < i
    BY <1>1, <1>9 DEF StampEnd
  <2>2. MarkedTo(jobs[p].pos, e)
    BY <1>1, <2>1 DEF ProgressAgrees
  <2>3. \A i \in files[e] : Settled(i, e)
    <3>1. ASSUME NEW i \in files[e], StampFilter(i, e)
          PROVE  i <= jobs[p].pos
      BY <1>3, <2>1, <3>1 DEF JobRecord, Rows
    <3> QED BY <1>6, <2>2, <3>1 DEF MarkedTo
  <2>4. \A i \in files[e] : Settled(i, e)'
    BY <1>5, <2>3
  <2>5. \A f \in Exports : ManifestStays(f)
    BY <1>1, <1>2, <1>3, <1>9, <2>4 DEF StampEnd, TypeOK, ExportRecord, ManifestStays
  <2>6. /\ jobs'[p].stage \in {"idle", "purge", "resume"}
        /\ \A q \in Procs : q # p => jobs'[q] = jobs[q]
    <3>1. ASSUME NEW j, SetJob(p, j), j.stage \in {"idle", "purge", "resume"}
          PROVE  /\ jobs'[p].stage \in {"idle", "purge", "resume"}
                 /\ \A q \in Procs : q # p => jobs'[q] = jobs[q]
      BY <3>1 DEF SetJob, TypeOK
    <3>2. CASE Finish(p)
      BY <3>1, <3>2 DEF Finish, IdleJob
    <3>3. CASE jobs[p].own /\ SetJob(p, [IdleJob EXCEPT !.stage = "purge", !.export = e,
                                                        !.own = TRUE, !.cutoff = clock])
      BY <3>1, <3>3 DEF IdleJob
    <3>4. CASE SetJob(p, [IdleJob EXCEPT !.stage = "resume", !.pending = jobs[p].pending])
      BY <3>1, <3>4 DEF IdleJob
    <3> QED BY <1>1, <1>9, <3>2, <3>3, <3>4 DEF StampEnd
  <2>7. \A q \in Procs : JobStays(q)
    BY <1>1, <2>6 DEF JobStays
  <2> QED BY <1>4, <2>5, <2>7, FilesStay
<1> QED BY <1>7, <1>8, <1>9

\* The other steps touch no manifest and no file.
LEMMA FileOthers ==
  ASSUME IInv, IInv', FileInv, RowsStand, UNCHANGED <<exports, files, durable, atStart>>,
         \/ UNCHANGED jobs
         \/ \E p \in Procs :
              \/ Finish(p)
              \/ \E i \in Rows : RestampNext(p, i)
              \/ PurgeDelete(p) \/ \E batch \in SUBSET Rows : PurgeFind(p, batch)
              \/ ResumeUnstamped(p) \/ ResumeFail(p) \/ \E e \in Exports : ResumeNext(p, e)
              \/ \E floor \in RestampFloors : RestampStart(p, floor)
  PROVE  FileInv'
<1> USE DEF IInv
<1>1. \A f \in Exports : ManifestStays(f)
  BY DEF ManifestStays
<1>2. CASE UNCHANGED jobs
  BY <1>1, <1>2, FilesStay DEF JobStays
<1>3. ASSUME NEW p \in Procs, NEW j, SetJob(p, j), j.stage \notin {"stream", "save", "stamp"}
      PROVE  FileInv'
  <2>1. jobs'[p] = j /\ \A q \in Procs : q # p => jobs'[q] = jobs[q]
    BY <1>3 DEF SetJob, TypeOK
  <2>2. \A q \in Procs : JobStays(q)
    BY <1>3, <2>1 DEF JobStays
  <2> QED BY <1>1, <2>2, FilesStay
<1>4. ASSUME NEW p \in Procs, Finish(p)
      PROVE  FileInv'
  BY <1>3, <1>4 DEF Finish, IdleJob
<1>5. \A p \in Procs : jobs[p] \in JobRecord
  BY DEF TypeOK
<1>6. ASSUME NEW p \in Procs, NEW i \in Rows, RestampNext(p, i)
      PROVE  FileInv'
  BY <1>3, <1>5, <1>6 DEF RestampNext, JobRecord
<1>7. ASSUME NEW p \in Procs, PurgeDelete(p) \/ \E batch \in SUBSET Rows : PurgeFind(p, batch)
      PROVE  FileInv'
  BY <1>3, <1>4, <1>5, <1>7 DEF PurgeDelete, PurgeFind, JobRecord
<1>8. ASSUME NEW p \in Procs,
             \/ ResumeUnstamped(p) \/ ResumeFail(p)
             \/ \E floor \in RestampFloors : RestampStart(p, floor)
      PROVE  FileInv'
  BY <1>3, <1>8 DEF ResumeUnstamped, ResumeFail, RestampStart, IdleJob
<1>9. ASSUME NEW p \in Procs, NEW e \in Exports, ResumeNext(p, e)
      PROVE  FileInv'
  <2>1. /\ jobs'[p].stage = "stamp" /\ jobs'[p].pos = 0 /\ ~jobs'[p].own /\ jobs'[p].export = e
        /\ \A q \in Procs : q # p => jobs'[q] = jobs[q]
    BY <1>9 DEF ResumeNext, SetJob, TypeOK, IdleJob
  <2>2. \A i \in files[e] : ~(i <= 0)
    BY DEF TypeOK, Rows
  <2>3. \A q \in Procs : JobStays(q)
    BY <2>1, <2>2 DEF JobStays
  <2> QED BY <1>1, <2>3, FilesStay
<1> QED BY <1>2, <1>4, <1>6, <1>7, <1>8, <1>9

LEMMA StepFiles ==
  ASSUME IInv, IInv', FileInv, [Next]_vars
  PROVE  FileInv'
<1>1. RowsStand
  BY StepStands
<1>2. CASE \/ \E i \in Rows : Allocate(i) \/ Commit(i) \/ Abort(i) \/ Insert(i) \/ TtlDelete(i)
           \/ Tick \/ UNCHANGED vars
  <2>1. UNCHANGED <<exports, files, durable, jobs, atStart>>
    BY <1>2 DEF Allocate, Commit, Abort, Insert, TtlDelete, Tick, vars
  <2> QED BY <1>1, <2>1, FileOthers
<1>3. ASSUME NEW p \in Procs, NEW e \in Exports, NEW range \in Ranges, NEW floor \in ExportFloors,
             NEW source \in {"api", "cli"}, NEW purge \in BOOLEAN,
             RunExport(p, e, range, floor, source, purge)
      PROVE  FileInv'
  BY <1>1, <1>3, FileRunExport
<1>4. ASSUME NEW p \in Procs, NEW i \in Rows,
             StreamNext(p, i) \/ StampNext(p, i) \/ RestampNext(p, i)
      PROVE  FileInv'
  <2>1. CASE RestampNext(p, i)
    <3>1. UNCHANGED <<exports, files, durable, atStart>>
      BY <2>1 DEF RestampNext
    <3> QED BY <1>1, <2>1, <3>1, FileOthers
  <2> QED BY <1>1, <1>4, <2>1, FileStreamNext, FileStamp
<1>5. ASSUME NEW p \in Procs, StreamEnd(p) \/ SaveManifest(p) \/ StampEnd(p) \/ Fail(p)
      PROVE  FileInv'
  BY <1>1, <1>5, FileStreamEnd, FileStamp, FileFail
<1>6. ASSUME NEW p \in Procs,
             PurgeDelete(p) \/ PurgeEnd(p) \/ \E batch \in SUBSET Rows : PurgeFind(p, batch)
      PROVE  FileInv'
  <2>1. UNCHANGED <<exports, files, durable, atStart>>
    BY <1>6 DEF PurgeDelete, PurgeEnd, PurgeFind
  <2> QED BY <1>1, <1>6, <2>1, FileOthers DEF PurgeEnd
<1>7. ASSUME NEW p \in Procs,
             \/ ResumeUnstamped(p) \/ ResumeEnd(p) \/ ResumeFail(p) \/ RestampEnd(p) \/ Crash(p)
             \/ \E e \in Exports : ResumeNext(p, e)
             \/ \E floor \in RestampFloors : RestampStart(p, floor)
      PROVE  FileInv'
  <2>1. UNCHANGED <<exports, files, durable, atStart>>
    BY <1>7 DEF ResumeUnstamped, ResumeEnd, ResumeFail, RestampEnd, Crash, ResumeNext, RestampStart
  <2> QED BY <1>1, <1>7, <2>1, FileOthers DEF ResumeEnd, RestampEnd, Crash
<1> QED BY <1>2, <1>3, <1>4, <1>5, <1>6, <1>7 DEF Next

LEMMA FilesInductive == Spec => []FileInv
<1>1. FileInv /\ IInv /\ IInv' /\ [Next]_vars => FileInv'
  BY StepFiles
<1> QED BY <1>1, FileInit, Inductive, PTL DEF Spec

\* Whatever is written, deleted or restamped while an export streams, and
\* whoever resumes it: a completed export's file holds every row its caller
\* could see when it began and nobody deleted (performExport).
THEOREM CompleteHoldsItsRange == Spec => []CompleteFileHoldsRange
<1>1. FileInv => CompleteFileHoldsRange
  BY DEF FileInv
<1> QED BY <1>1, FilesInductive, PTL

\* A finished stamp has marked every row of the file up to the watermark,
\* however often it was interrupted and by how many instances it was resumed
\* (stampExported, resumeUnstampedExports).
THEOREM StampIsComplete == Spec => []StampedFileIsClaimed
<1>1. FileInv => StampedFileIsClaimed
  BY DEF FileInv
<1> QED BY <1>1, FilesInductive, PTL

IdsFollowStream == \A i, j \in Rows : i <= j => rows[i].id <= rows[j].id

\* The only gap of the stamp: where the ids agree with the order in which the
\* export streams, a manifest with stamped_at set has marked every row of its
\* file, as stampExported's comment says ("every row the file holds").
THEOREM GapNeedsDisorder ==
  Spec => [](IdsFollowStream =>
               \A e \in Exports : exports[e].stamped =>
                 \A i \in files[e] : rows[i].export # NoExport)
<1> SUFFICES IInv /\ FileInv =>
               (IdsFollowStream =>
                  \A e \in Exports : exports[e].stamped =>
                    \A i \in files[e] : rows[i].export # NoExport)
  BY FilesInductive, Inductive, PTL
<1>1. SUFFICES ASSUME IInv, FileInv, IdsFollowStream, NEW e \in Exports, exports[e].stamped,
                      NEW i \in files[e]
               PROVE  rows[i].export # NoExport
  OBVIOUS
<1>2. i \in Rows /\ exports[e].max \in Rows \cup {0}
  BY <1>1 DEF IInv, TypeOK, ExportRecord
<1>3. exports[e].max # 0 => rows[i].id <= rows[exports[e].max].id
  BY <1>1, <1>2 DEF FileInv, FilesAgree, Filed, IdsFollowStream
<1>4. ~AboveWatermark(i, e)
  <2>1. \A k \in Rows : rows[k].id \in Rows
    BY <1>1 DEF IInv, TypeOK, RowRecord
  <2> QED BY <1>2, <1>3, <2>1 DEF AboveWatermark, Rows
<1> QED BY <1>1, <1>4 DEF FileInv, StampedFileIsClaimed

=============================================================================
