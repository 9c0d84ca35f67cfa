----------------------------- MODULE AuditTrail -----------------------------
(***************************************************************************)
(* The audit trail's retention: rows are written, exported to a durable    *)
(* file, stamped with the export that holds them, and only then deleted,   *)
(* by an explicit purge or by the TTL index on `purge_after`.              *)
(*                                                                         *)
(*   audit/domain/audit-export.service.ts   export, stamp, purge, restamp, *)
(*                                          and the start-up resume        *)
(*   audit/domain/audit.writer.ts           how a row becomes visible      *)
(*   audit/models/*.ts, audit-retention.ts  TTL index, deadlines           *)
(*   scripts/audit-export.ts, controllers/audit.controller.ts  the callers *)
(*                                                                         *)
(* Several processes (API instances, the CLI) share one database.  Every   *)
(* await of the exporter ends an atomic step, so that other writers,       *)
(* exporters, deleters and crashes fall between any two of them.           *)
(*                                                                         *)
(* A row's number is its place in the order the export streams, by         *)
(* `occurred_at` and then `_id`; `id` is the rank of its ObjectId, which   *)
(* the stamp compares.  Both come from the clock of the process that       *)
(* creates the row, `id` to the second, so that the two orders agree from  *)
(* one instant (a second, or longer) to the next and not within one, where *)
(* several processes create rows.  A row created in a transaction has both *)
(* long before anybody can read it, and one that a slower clock puts       *)
(* before others of its instant looks the same.  A row past the MaxRows    *)
(* the model follows is not followed.                                      *)
(***************************************************************************)
EXTENDS Integers, FiniteSets

CONSTANTS
  MaxRows,    \* bound: rows the model follows
  MaxClock,   \* bound: the last instant
  MaxFaults,  \* bound: crashes and exceptions
  Exports,    \* manifests that can be created (bound)
  Procs,      \* API instances and CLI runs
  Ranges,     \* half-open windows [from, to) that callers ask for
  ExportFloors,  \* ADMIN_AUDIT_RETENTION_DAYS when rows are exported ...
  RestampFloors, \* ... and when somebody runs --restamp
  BatchSize,  \* PURGE_BATCH_SIZE
  NoExport    \* an absent export_id

ASSUME BoundsAssumption == MaxRows \in Nat /\ MaxClock \in Nat /\ MaxFaults \in Nat /\ BatchSize \in Nat \ {0}
ASSUME RangesAssumption == Ranges \subseteq [from : Nat, to : Nat]
ASSUME FloorsAssumption == ExportFloors \cup RestampFloors \subseteq Nat \ {0}
ASSUME NoExportAssumption == NoExport \notin Exports

VARIABLES
  rows,     \* admin_audit_log
  clock,    \* the database's and the processes' time
  exports,  \* admin_audit_exports
  files,    \* what each export's file holds (a `.part` until durable)
  durable,  \* exports whose file was synced and renamed
  jobs,     \* what each process is doing
  late,     \* history: rows that became visible behind an export's cursor
  atStart,  \* history: rows an export's caller could see when it began
  faults    \* how many of MaxFaults were used

vars == <<rows, clock, exports, files, durable, jobs, late, atStart, faults>>

Rows == 1 .. MaxRows
Floors == ExportFloors \cup RestampFloors

RowStates == {"free", "flying", "here", "gone"}
Statuses == {"none", "running", "complete", "failed"}
Stages == {"idle", "stream", "save", "stamp", "purge", "delete", "restamp", "resume"}

\* A deleted row keeps, as history, the claim it carried.
RowRecord == [state : RowStates, id : Rows, at : Nat, export : Exports \cup {NoExport}, purge : Nat]

NoRange == [from |-> 0, to |-> 0]

\* `max` is the row of maxRowId, the last one streamed; it is in the exporter's
\* memory until the manifest is saved, and 0 is null.  `floor` is retention_days.
ExportRecord ==
  [status : Statuses, range : Ranges \cup {NoRange}, max : Rows \cup {0},
   floor : Floors \cup {0}, stamped : BOOLEAN]

\* `own`: the job runs the export; otherwise it resumes one.  `purge`: --purge.
JobRecord ==
  [stage : Stages, export : Exports \cup {NoExport}, own : BOOLEAN, purge : BOOLEAN,
   pos : Rows \cup {0}, batch : SUBSET Rows, cutoff : Nat, floor : Floors \cup {0},
   pending : SUBSET Exports]

TypeOK ==
  /\ rows \in [Rows -> RowRecord]
  /\ clock \in Nat
  /\ exports \in [Exports -> ExportRecord]
  /\ files \in [Exports -> SUBSET Rows]
  /\ durable \in SUBSET Exports
  /\ jobs \in [Procs -> JobRecord]
  /\ late \in [Exports -> SUBSET Rows]
  /\ atStart \in [Exports -> SUBSET Rows]
  /\ faults \in Nat

FreeRow(id) == [state |-> "free", id |-> id, at |-> 0, export |-> NoExport, purge |-> 0]

\* The ranks the ids of the rows will have, in any order.
Ranks == {ids \in [Rows -> Rows] : \A i, j \in Rows : ids[i] = ids[j] => i = j}

IdleJob ==
  [stage |-> "idle", export |-> NoExport, own |-> FALSE, purge |-> FALSE, pos |-> 0,
   batch |-> {}, cutoff |-> 0, floor |-> 0, pending |-> {}]

Init ==
  /\ \E ids \in Ranks : rows = [i \in Rows |-> FreeRow(ids[i])]
  /\ clock = 0
  /\ exports = [e \in Exports |-> [status |-> "none", range |-> NoRange, max |-> 0,
                                   floor |-> 0, stamped |-> FALSE]]
  /\ files = [e \in Exports |-> {}]
  /\ durable = {}
  /\ jobs = [p \in Procs |-> IdleJob]
  /\ late = [e \in Exports |-> {}]
  /\ atStart = [e \in Exports |-> {}]
  /\ faults = 0

-----------------------------------------------------------------------------
(* What the queries select. *)

\* mutant: the lower bound of the window is exclusive
InRangeExclusive(i, e) ==
  /\ rows[i].state = "here"
  /\ exports[e].range.from < rows[i].at
  /\ rows[i].at < exports[e].range.to

\* rangeFilter, on a row that can be read
InRange(i, e) ==
  /\ rows[i].state = "here"
  /\ exports[e].range.from <= rows[i].at
  /\ rows[i].at < exports[e].range.to

\* mutant: the stamp goes by the range alone
StampFilterNoWatermark(i, e) == InRange(i, e)

\* mutant: $lt for $lte
StampFilterStrict(i, e) ==
  InRange(i, e) /\ (exports[e].max = 0 \/ rows[i].id < rows[exports[e].max].id)

\* There is a watermark, the id of the last row streamed, and i is above it.
AboveWatermark(i, e) == exports[e].max # 0 /\ rows[exports[e].max].id < rows[i].id

\* the filter of stampExported: the range, and the watermark when there is one
StampFilter(i, e) == InRange(i, e) /\ ~AboveWatermark(i, e)

\* mutant: the deadline is forgotten, the claim alone decides
ExpiredAnyAge(e, cutoff) == {i \in Rows : rows[i].state = "here" /\ rows[i].export = e}

\* the filter of deleteExpiredInBatches
Expired(e, cutoff) ==
  {i \in Rows : rows[i].state = "here" /\ rows[i].export = e /\ rows[i].purge <= cutoff}

\* mutant: the floor is subtracted
purgeBeforeFor(i, floor) == rows[i].at - floor

purgeAfterFor(i, floor) == rows[i].at + floor

\* i is the first of the rows S after pos
NextAfter(i, pos, S) == i \in S /\ pos < i /\ \A j \in S : pos < j => i <= j

\* An export's cursor has already passed the place of a row dated `at`, or
\* has closed and its stamp will reach that row.
Behind(i, at, e) ==
  /\ exports[e].status # "none"
  /\ exports[e].range.from <= at
  /\ at < exports[e].range.to
  /\ IF e \in durable THEN ~AboveWatermark(i, e) ELSE i <= exports[e].max

NoteArrival(i, at) ==
  late' = [e \in Exports |-> IF Behind(i, at, e) THEN late[e] \cup {i} ELSE late[e]]

-----------------------------------------------------------------------------
(* Writers. *)

\* The next place; the id is above those of earlier instants.
Fresh(i) ==
  /\ \A j \in i .. MaxRows : rows[j].state = "free"
  /\ i > 1 => rows[i - 1].state # "free"
  /\ \A j \in 1 .. (i - 1) :
       rows[j].state # "free" /\ rows[j].at < clock => rows[j].id < rows[i].id

Write(i, state) == rows' = [rows EXCEPT ![i] = [@ EXCEPT !.state = state, !.at = clock]]

\* auditedTransaction: the row exists in the transaction only ...
Allocate(i) ==
  /\ Fresh(i)
  /\ Write(i, "flying")
  /\ UNCHANGED <<clock, exports, files, durable, jobs, late, atStart, faults>>

\* ... and becomes visible when the transaction commits, whenever that is.
Commit(i) ==
  /\ rows[i].state = "flying"
  /\ rows' = [rows EXCEPT ![i].state = "here"]
  /\ NoteArrival(i, rows[i].at)
  /\ UNCHANGED <<clock, exports, files, durable, jobs, atStart, faults>>

\* Nothing of it remains; a retry of the callback creates another row.
Abort(i) ==
  /\ rows[i].state = "flying"
  /\ rows' = [rows EXCEPT ![i] = FreeRow(rows[i].id)]
  /\ UNCHANGED <<clock, exports, files, durable, jobs, late, atStart, faults>>

\* A row written outside a transaction: the intent of an auditedAttempt, the
\* `failed` row of a rolled-back transaction.
Record(i) == Fresh(i) /\ Write(i, "here") /\ NoteArrival(i, clock)

Insert(i) == Record(i) /\ UNCHANGED <<clock, exports, files, durable, jobs, atStart, faults>>

\* The auditedAttempt around an exporter's own work commits its intent first.
OwnIntent ==
  IF \E i \in Rows : Fresh(i) THEN \E i \in Rows : Record(i) ELSE UNCHANGED <<rows, late>>

-----------------------------------------------------------------------------
(* One export. *)

SetJob(p, changes) == jobs' = [jobs EXCEPT ![p] = changes]

Idle(p) == jobs[p].stage = "idle"

Finish(p) == SetJob(p, IdleJob)

Fault == faults < MaxFaults /\ faults' = faults + 1

\* runExport down to the cursor.  The API never purges; the CLI refuses a
\* range without a row.
RunExport(p, e, range, floor, source, purge) ==
  /\ Idle(p)
  /\ exports[e].status = "none"
  /\ purge => source = "cli"
  /\ source = "cli" =>
       \E i \in Rows : /\ rows[i].state = "here"
                       /\ range.from <= rows[i].at /\ rows[i].at < range.to
  /\ OwnIntent
  /\ exports' = [exports EXCEPT ![e] = [status |-> "running", range |-> range, max |-> 0,
                                        floor |-> floor, stamped |-> FALSE]]
  /\ atStart' = [atStart EXCEPT ![e] =
                   {i \in Rows : /\ rows'[i].state = "here"
                                 /\ range.from <= rows'[i].at /\ rows'[i].at < range.to}]
  /\ SetJob(p, [IdleJob EXCEPT !.stage = "stream", !.export = e, !.own = TRUE, !.purge = purge])
  /\ UNCHANGED <<clock, files, durable, faults>>

\* The cursor yields the next row it can see and the exporter writes its line.
StreamNext(p, i) ==
  LET e == jobs[p].export IN
  /\ jobs[p].stage = "stream"
  /\ NextAfter(i, exports[e].max, {j \in Rows : InRange(j, e)})
  /\ files' = [files EXCEPT ![e] = @ \cup {i}]
  /\ exports' = [exports EXCEPT ![e].max = i]
  /\ UNCHANGED <<rows, clock, durable, jobs, late, atStart, faults>>

\* The cursor is exhausted: the file is synced, then renamed.
StreamEnd(p) ==
  LET e == jobs[p].export IN
  /\ jobs[p].stage = "stream"
  /\ ~\E i \in Rows : InRange(i, e) /\ exports[e].max < i
  /\ durable' = durable \cup {e}
  /\ SetJob(p, [jobs[p] EXCEPT !.stage = "save"])
  /\ UNCHANGED <<rows, clock, exports, files, late, atStart, faults>>

SaveManifest(p) ==
  LET e == jobs[p].export IN
  /\ jobs[p].stage = "save"
  /\ exports' = [exports EXCEPT ![e].status = "complete"]
  /\ SetJob(p, [jobs[p] EXCEPT !.stage = "stamp"])
  /\ UNCHANGED <<rows, clock, files, durable, late, atStart, faults>>

\* One turn of stampExported's loop (whose cursor is not sorted: the rows it
\* has to mark were there when it was opened, so that any order will do).
StampNext(p, i) ==
  LET e == jobs[p].export IN
  /\ jobs[p].stage = "stamp"
  /\ NextAfter(i, jobs[p].pos, {j \in Rows : StampFilter(j, e)})
  /\ rows' = [rows EXCEPT ![i] = [@ EXCEPT !.export = e,
                                         !.purge = purgeAfterFor(i, exports[e].floor)]]
  /\ SetJob(p, [jobs[p] EXCEPT !.pos = i])
  /\ UNCHANGED <<clock, exports, files, durable, late, atStart, faults>>

\* The end of stampExported.  An export goes on to its purge or returns; a
\* resume goes on to the next manifest it found.
StampEnd(p) ==
  LET e == jobs[p].export IN
  /\ jobs[p].stage = "stamp"
  /\ ~\E i \in Rows : StampFilter(i, e) /\ jobs[p].pos < i
  /\ exports' = [exports EXCEPT ![e].stamped = TRUE]
  /\ \/ jobs[p].own /\ ~jobs[p].purge /\ Finish(p) /\ UNCHANGED <<rows, late>>
     \/ /\ jobs[p].own /\ jobs[p].purge
        /\ OwnIntent
        /\ SetJob(p, [IdleJob EXCEPT !.stage = "purge", !.export = e, !.own = TRUE,
                                     !.cutoff = clock])
     \/ /\ ~jobs[p].own
        /\ SetJob(p, [IdleJob EXCEPT !.stage = "resume", !.pending = jobs[p].pending])
        /\ UNCHANGED <<rows, late>>
  /\ UNCHANGED <<clock, files, durable, atStart, faults>>

\* One batch of the purge is found ...
PurgeFind(p, batch) ==
  LET e == jobs[p].export IN
  /\ jobs[p].stage = "purge"
  /\ batch # {} /\ batch \subseteq Expired(e, jobs[p].cutoff)
  /\ Cardinality(batch) = BatchSize \/ batch = Expired(e, jobs[p].cutoff)
  /\ Cardinality(batch) <= BatchSize
  /\ SetJob(p, [jobs[p] EXCEPT !.stage = "delete", !.batch = batch])
  /\ UNCHANGED <<rows, clock, exports, files, durable, late, atStart, faults>>

\* ... and deleted by id, with no second look at the claim or the deadline.
PurgeDelete(p) ==
  /\ jobs[p].stage = "delete"
  /\ rows' = [i \in Rows |-> IF i \in jobs[p].batch
                             THEN [rows[i] EXCEPT !.state = "gone"] ELSE rows[i]]
  /\ IF Cardinality(jobs[p].batch) < BatchSize
     THEN Finish(p)
     ELSE SetJob(p, [jobs[p] EXCEPT !.stage = "purge", !.batch = {}])
  /\ UNCHANGED <<clock, exports, files, durable, late, atStart, faults>>

PurgeEnd(p) ==
  /\ jobs[p].stage = "purge"
  /\ Expired(jobs[p].export, jobs[p].cutoff) = {}
  /\ Finish(p)
  /\ UNCHANGED <<rows, clock, exports, files, durable, late, atStart, faults>>

\* A step of the export throws.  The catch marks the manifest failed, if it
\* can, whatever the manifest was, and removes the `.part` if there is one.
Fail(p) ==
  LET e == jobs[p].export IN
  /\ Fault
  /\ jobs[p].own
  /\ \E status \in {"failed", exports[e].status} :
       exports' = [exports EXCEPT ![e] =
                    [exports[e] EXCEPT !.status = status,
                                       !.max = IF e \in durable THEN exports[e].max ELSE 0]]
  /\ files' = [files EXCEPT ![e] = IF e \in durable THEN @ ELSE {}]
  /\ Finish(p)
  /\ UNCHANGED <<rows, clock, durable, late, atStart>>

-----------------------------------------------------------------------------
(* Start-up, the CLI's --restamp, the TTL monitor, and the machines. *)

\* mutant: the resume asks for stamped_at alone
ResumeUnfinished(p) ==
  LET pending == {e \in Exports : exports[e].status # "none" /\ ~exports[e].stamped} IN
  /\ Idle(p)
  /\ pending # {}
  /\ SetJob(p, [IdleJob EXCEPT !.stage = "resume", !.pending = pending])
  /\ UNCHANGED <<rows, clock, exports, files, durable, late, atStart, faults>>

\* resumeUnstampedExports reads the manifests once ...
ResumeUnstamped(p) ==
  LET pending == {e \in Exports : exports[e].status = "complete" /\ ~exports[e].stamped} IN
  /\ Idle(p)
  /\ pending # {}
  /\ SetJob(p, [IdleJob EXCEPT !.stage = "resume", !.pending = pending])
  /\ UNCHANGED <<rows, clock, exports, files, durable, late, atStart, faults>>

\* ... and stamps them one after another, each from the copy it read.
ResumeNext(p, e) ==
  /\ jobs[p].stage = "resume"
  /\ e \in jobs[p].pending
  /\ OwnIntent
  /\ SetJob(p, [IdleJob EXCEPT !.stage = "stamp", !.export = e,
                               !.pending = jobs[p].pending \ {e}])
  /\ UNCHANGED <<clock, exports, files, durable, atStart, faults>>

ResumeEnd(p) ==
  /\ jobs[p].stage = "resume"
  /\ jobs[p].pending = {}
  /\ Finish(p)
  /\ UNCHANGED <<rows, clock, exports, files, durable, late, atStart, faults>>

\* One manifest cannot be stamped: it is logged, and the next one is tried.
ResumeFail(p) ==
  /\ Fault
  /\ jobs[p].stage = "stamp" /\ ~jobs[p].own
  /\ SetJob(p, [IdleJob EXCEPT !.stage = "resume", !.pending = jobs[p].pending])
  /\ UNCHANGED <<rows, clock, exports, files, durable, late, atStart>>

RestampStart(p, floor) ==
  /\ Idle(p)
  /\ OwnIntent
  /\ SetJob(p, [IdleJob EXCEPT !.stage = "restamp", !.floor = floor])
  /\ UNCHANGED <<clock, exports, files, durable, atStart, faults>>

Stamped(i) == rows[i].state = "here" /\ rows[i].export # NoExport

RestampNext(p, i) ==
  /\ jobs[p].stage = "restamp"
  /\ NextAfter(i, jobs[p].pos, {j \in Rows : Stamped(j)})
  /\ rows' = [rows EXCEPT ![i].purge = purgeAfterFor(i, jobs[p].floor)]
  /\ SetJob(p, [jobs[p] EXCEPT !.pos = i])
  /\ UNCHANGED <<clock, exports, files, durable, late, atStart, faults>>

RestampEnd(p) ==
  /\ jobs[p].stage = "restamp"
  /\ ~\E i \in Rows : Stamped(i) /\ jobs[p].pos < i
  /\ Finish(p)
  /\ UNCHANGED <<rows, clock, exports, files, durable, late, atStart, faults>>

\* The TTL index: exported, and past its deadline.
TtlDelete(i) ==
  /\ Stamped(i)
  /\ rows[i].purge <= clock
  /\ rows' = [rows EXCEPT ![i].state = "gone"]
  /\ UNCHANGED <<clock, exports, files, durable, jobs, late, atStart, faults>>

Crash(p) ==
  /\ Fault
  /\ ~Idle(p)
  /\ Finish(p)
  /\ UNCHANGED <<rows, clock, exports, files, durable, late, atStart>>

Tick ==
  /\ clock < MaxClock
  /\ clock' = clock + 1
  /\ UNCHANGED <<rows, exports, files, durable, jobs, late, atStart, faults>>

Next ==
  \/ \E i \in Rows : Allocate(i) \/ Commit(i) \/ Abort(i) \/ Insert(i) \/ TtlDelete(i)
  \/ \E p \in Procs, e \in Exports, range \in Ranges, floor \in ExportFloors,
        source \in {"api", "cli"}, purge \in BOOLEAN :
          RunExport(p, e, range, floor, source, purge)
  \/ \E p \in Procs, i \in Rows : StreamNext(p, i) \/ StampNext(p, i) \/ RestampNext(p, i)
  \/ \E p \in Procs : StreamEnd(p) \/ SaveManifest(p) \/ StampEnd(p) \/ Fail(p)
  \/ \E p \in Procs, batch \in SUBSET Rows : PurgeFind(p, batch)
  \/ \E p \in Procs : PurgeDelete(p) \/ PurgeEnd(p) \/ Crash(p)
  \/ \E p \in Procs : ResumeUnstamped(p) \/ ResumeEnd(p) \/ ResumeFail(p) \/ RestampEnd(p)
  \/ \E p \in Procs, e \in Exports : ResumeNext(p, e)
  \/ \E p \in Procs, floor \in RestampFloors : RestampStart(p, floor)
  \/ Tick

Spec == Init /\ [][Next]_vars

-----------------------------------------------------------------------------
(* Properties. *)

\* A row claimed by an export, and every deleted row, is in the durable file
\* of the export that claims it, unless it became visible only after that
\* export's cursor had passed its place (stampExported: rows written while the
\* export streamed "must not be marked as exported when they are not in the
\* file").  Crashes, failures, a resume on another instance, an overlapping
\* export and a purge working from a batch it read earlier make no exception.
ClaimedRowIsFiled ==
  \A i \in Rows : rows[i].export # NoExport \/ rows[i].state = "gone" =>
    /\ rows[i].export \in durable
    /\ i \in files[rows[i].export] \/ i \in late[rows[i].export]

\* A deleted row was at least as old as the shortest retention ever in force,
\* whatever restamps and overlapping exports did to its deadline in between
\* (audit-retention.ts: "exporting a row EARLY does not shorten its life").
NothingDiesYoung ==
  \A i \in Rows : rows[i].state = "gone" =>
    \E floor \in Floors : rows[i].at + floor <= clock

\* A completed export holds every row its caller could see when it began and
\* that no concurrent purge deleted, also when writers and deleters ran while
\* it streamed.
CompleteFileHoldsRange ==
  \A e \in Exports : exports[e].status = "complete" =>
    \A i \in atStart[e] : i \in files[e] \/ rows[i].state = "gone"

\* A manifest with stamped_at set has marked every row of its file whose id is
\* not above the watermark: a crash, a failure or a second instance resuming
\* the same manifest leaves no such row unmarked behind a finished stamp
\* (resumeUnstampedExports: it would be "never eligible for deletion").  A
\* filed row above the watermark, created in the second of the last one
\* streamed by another process, is left unmarked by the code as it stands.
StampedFileIsClaimed ==
  \A e \in Exports : exports[e].stamped =>
    \A i \in files[e] : rows[i].export # NoExport \/ AboveWatermark(i, e)

\* What the code's comments promise: a deleted row is in some durable file.
DeletedWasExported ==
  \A i \in Rows : rows[i].state = "gone" => \E e \in durable : i \in files[e]
=============================================================================
