------------------------------- MODULE Projector -------------------------------
(***************************************************************************)
(* The notification projector of modules/notifications, for one source of  *)
(* its registry: the sources share nothing but the timer.                  *)
(*                                                                         *)
(* A source is a collection, a filter that means "actionable" and a        *)
(* watermark field.  A tick of an instance reads the source's cursor,      *)
(* fetches the rows after it, fans each one out to the administrators of   *)
(* its audience and stores the place of the last row as the new cursor.    *)
(* A row is written by somebody else, in a transaction: it takes the value *)
(* of its watermark field first and becomes readable later.                *)
(*                                                                         *)
(* Whether a notification was read, and what it says, are left out.        *)
(***************************************************************************)
EXTENDS Naturals, FiniteSets

CONSTANTS
    Rows,           \* rows of the source, numbered in the order of their _id
    StartId,        \* the id '' a source starts at: no row of that instant is after it
    Edited,         \* rows that are written again: where the field is updated_at or decided_at
    Admins,         \* administrators
    Instances,      \* running copies of the service
    BatchSize,      \* ADMIN_NOTIFICATIONS_BATCH
    Cap,            \* ADMIN_NOTIFICATIONS_MAX_PER_TICK
    ArchiveAfter,   \* ADMIN_NOTIFICATIONS_AUTO_ARCHIVE_DAYS, in ticks of the clock
    Retention,      \* ADMIN_NOTIFICATIONS_RETENTION_DAYS, in ticks of the clock
    MaxFaults,      \* bound on ticks that fail
    LastTime        \* bound on the clock

ASSUME ProjectorAssumption ==
    /\ Rows \subseteq Nat /\ StartId \in Nat /\ \A r \in Rows : r < StartId
    /\ Edited \subseteq Rows
    /\ BatchSize \in Nat \ {0} /\ Cap \in Nat \ {0}
    /\ ArchiveAfter \in Nat /\ Retention \in Nat
    /\ MaxFaults \in Nat /\ LastTime \in Nat

VARIABLES
    time,       \* the wall clock
    open,       \* rows the source's filter matches
    at,         \* at[r]: r's watermark field; 0 before r exists
    writing,    \* writing[r]: the value an uncommitted write gives at[r]; 0 for none
    cursor,     \* the watermark document
    sweep,      \* sweep[i]: the tick of instance i
    inbox,      \* inbox[<<r, a>>]: a's notification of r
    due,        \* due[<<r, a>>]: its purge_after; 0 while it is not archived
    faults      \* ticks that failed so far

VARIABLES   \* history
    reach,      \* the furthest place a fetch has returned or a source has started at
    handled,    \* rows a tick has declined or fanned out to everybody they were for
    dropped,    \* rows a tick skipped because of the cap
    late,       \* rows readable too late: behind reach, or before the source began
    rewritten,  \* rows written more than once
    overlapped, \* TRUE once two ticks ran at the same time
    echoes      \* notifications created again after they were deleted

source  == <<open, at, writing, rewritten, late>>
inboxes == <<inbox, due, echoes>>
history == <<reach, handled, dropped, overlapped>>
vars    == <<time, source, cursor, sweep, inboxes, faults, history>>

Times   == 0..LastTime
Places  == [at : Times, id : Rows \cup {StartId}]
NoPlace == [at |-> 0, id |-> 0]     \* no watermark document; the clock begins at 1
Boxes   == Rows \X Admins

Resting == [stage |-> "rest", from |-> NoPlace, seen |-> [r \in {} |-> 0],
            todo |-> {}, delivered |-> 0]

-------------------------------------------------------------------------------
(* Places in the order of the sweep. *)

Place(r) == [at |-> at[r], id |-> r]

Precedes(x, y) == x.at < y.at \/ (x.at = y.at /\ x.id < y.id)

Further(x, y) == IF Precedes(x, y) THEN y ELSE x

\* withCursor.
After(x, c) == Precedes(c, x)

\* The place of a row as the tick of instance i fetched it.
Fetched(i, r) == [at |-> sweep[i].seen[r], id |-> r]

\* c is the place of the last row of its batch.
IsLast(i, c) == \E r \in DOMAIN sweep[i].seen :
                   /\ c = Fetched(i, r)
                   /\ \A x \in DOMAIN sweep[i].seen : ~Precedes(c, Fetched(i, x))

Init ==
    /\ time = 1
    /\ open = {}
    /\ at = [r \in Rows |-> 0]
    /\ writing = [r \in Rows |-> 0]
    /\ cursor \in {NoPlace, [at |-> 0, id |-> StartId]}   \* a new source, or one that ran before
    /\ sweep = [i \in Instances |-> Resting]
    /\ inbox = [b \in Boxes |-> "none"]
    /\ due = [b \in Boxes |-> 0]
    /\ faults = 0
    /\ reach = cursor
    /\ handled = {} /\ dropped = {} /\ late = {} /\ rewritten = {}
    /\ overlapped = FALSE
    /\ echoes = {}

-------------------------------------------------------------------------------
(* The source's rows, written by the platform or by this service. *)

\* Bound: a row is written at most twice, and twice only if it is in Edited.
BeginWrite(r) ==
    /\ writing[r] = 0 /\ (at[r] = 0 \/ r \in Edited \ rewritten)
    /\ writing' = [writing EXCEPT ![r] = time]
    /\ UNCHANGED <<time, open, at, rewritten, late, cursor, sweep, inboxes,
                   faults, history>>

\* The write commits: the row is actionable, at the place its transaction gave it.
CommitWrite(r) ==
    /\ writing[r] # 0
    /\ open' = open \cup {r}
    /\ at' = [at EXCEPT ![r] = writing[r]]
    /\ writing' = [writing EXCEPT ![r] = 0]
    /\ rewritten' = IF at[r] # 0 THEN rewritten \cup {r} ELSE rewritten
    /\ late' = IF After([at |-> writing[r], id |-> r], reach)
                 THEN late \ {r} ELSE late \cup {r}
    /\ UNCHANGED <<time, cursor, sweep, inboxes, faults, history>>

\* The situation is dealt with: the filter no longer matches the row.
Settle(r) ==
    /\ r \in open
    /\ open' = open \ {r}
    /\ UNCHANGED <<time, at, writing, rewritten, late, cursor, sweep, inboxes,
                   faults, history>>

-------------------------------------------------------------------------------
(* One tick: tickOnce, runOnce, runSource. *)

\* resumeCursor reads the document.  The flag "running" keeps an instance from starting
\* a tick in the middle of another; it says nothing of other instances.
ReadCursor(i) ==
    /\ sweep[i].stage = "rest"
    /\ sweep' = [sweep EXCEPT ![i] =
                   IF cursor = NoPlace THEN [Resting EXCEPT !.stage = "seed"]
                   ELSE [Resting EXCEPT !.stage = "fetch", !.from = cursor]]
    /\ overlapped' = (overlapped \/ \E j \in Instances \ {i} : sweep[j].stage # "rest")
    /\ UNCHANGED <<time, source, cursor, inboxes, faults, reach, handled, dropped>>

\* A new source starts at the present.  $setOnInsert leaves a document that another
\* instance has just inserted, and this tick goes on from its own present.
Seed(i) ==
    LET here == [at |-> time, id |-> StartId] IN
    /\ sweep[i].stage = "seed"
    /\ cursor' = IF cursor = NoPlace THEN here ELSE cursor
    /\ sweep' = [sweep EXCEPT ![i].stage = "fetch", ![i].from = here]
    /\ reach' = Further(reach, here)
    /\ late' = late \cup {r \in open : ~After(Place(r), here)}
    /\ UNCHANGED <<time, open, at, writing, rewritten, inboxes, faults, handled, dropped,
                   overlapped>>

\* The first rows of what was found, in ascending order.
OldestOf(found, batch) ==
    \A x \in batch, y \in found \ batch : Precedes(Place(x), Place(y))

\* source.fetch: at most BatchSize rows after the cursor.
Fetch(i) ==
    /\ sweep[i].stage = "fetch"
    /\ LET found == {r \in open : After(Place(r), sweep[i].from)} IN
       \E batch \in SUBSET found :
         /\ OldestOf(found, batch)
         /\ \/ batch = found /\ Cardinality(found) <= BatchSize
            \/ Cardinality(batch) = BatchSize
         /\ sweep' = [sweep EXCEPT ![i] =
                        IF batch = {} THEN Resting
                        ELSE [@ EXCEPT !.stage = "row", !.todo = batch,
                                       !.seen = [r \in batch |-> at[r]]]]
         /\ \E furthest \in {reach} \cup {Place(r) : r \in batch} :
              /\ \A p \in {reach} \cup {Place(r) : r \in batch} : ~Precedes(furthest, p)
              /\ reach' = furthest
    /\ UNCHANGED <<time, source, cursor, inboxes, faults, handled, dropped, overlapped>>

\* The rows of a batch are taken in the order they were fetched.
FirstLeft(i, r) ==
    /\ r \in sweep[i].todo
    /\ \A x \in sweep[i].todo \ {r} : Precedes(Fetched(i, r), Fetched(i, x))

AtRow(i, r) == sweep[i].stage = "row" /\ FirstLeft(i, r)

\* Bug: the cap is counted per row, not per tick.
NeverFull(i) == FALSE

Full(i) == sweep[i].delivered >= Cap

\* Past the cap every remaining row is skipped.
SkipRow(i, r) ==
    /\ AtRow(i, r) /\ Full(i)
    /\ sweep' = [sweep EXCEPT ![i].todo = @ \ {r}]
    /\ dropped' = dropped \cup {r}
    /\ UNCHANGED <<time, source, cursor, inboxes, faults, reach, handled, overlapped>>

\* toDraft returns null: what the row says decides, and it is left out.
DeclineRow(i, r) ==
    /\ AtRow(i, r) /\ ~Full(i)
    /\ sweep' = [sweep EXCEPT ![i].todo = @ \ {r}]
    /\ handled' = handled \cup {r}
    /\ UNCHANGED <<time, source, cursor, inboxes, faults, reach, dropped, overlapped>>

\* The boxes an upsert inserts into: $setOnInsert and the unique index leave the others.
EmptyBoxes(r, targets) ==
    {b \in {r} \X targets : inbox[b] \in {"none", "deleted"}}

Insert(boxes) ==
    /\ inbox' = [b \in Boxes |-> IF b \in boxes THEN "kept" ELSE inbox[b]]
    /\ due' = [b \in Boxes |-> IF b \in boxes THEN 0 ELSE due[b]]
    /\ echoes' = echoes \cup {b \in boxes : inbox[b] # "none"}

\* fanOut: an unordered bulk write to whoever is active, entitled and not muted just then.
WriteRow(i, r) ==
    /\ AtRow(i, r) /\ ~Full(i)
    /\ \E targets \in SUBSET Admins :
         LET boxes == EmptyBoxes(r, targets) IN
         /\ Insert(boxes)
         /\ sweep' = [sweep EXCEPT ![i].todo = @ \ {r},
                                   ![i].delivered = @ + Cardinality(boxes)]
    /\ handled' = handled \cup {r}
    /\ UNCHANGED <<time, source, cursor, faults, reach, dropped, overlapped>>

\* Bug: the cursor follows what was delivered, so a batch of declined rows is read for ever.
StampDelivered(i, c) ==
    IF sweep[i].delivered = 0 THEN c = cursor
    ELSE IsLast(i, c)

\* Bug: a dotted watermark field is read off the row as undefined, and no cursor is stored.
StampNothing(i, c) == c = cursor

\* The place of the last row of the batch, whatever became of it.
StampLast(i, c) == IsLast(i, c)

\* stampRun: a plain $set, also by a tick that another instance has overtaken.
Stamp(i) ==
    /\ sweep[i].stage = "row" /\ sweep[i].todo = {}
    /\ \E c \in Places : StampLast(i, c) /\ cursor' = c
    /\ sweep' = [sweep EXCEPT ![i] = Resting]
    /\ UNCHANGED <<time, source, inboxes, faults, history>>

\* Bug: the cursor of a failed tick is stored as well.
StampFailed(i, c) == IF sweep[i].stage = "row" THEN IsLast(i, c) ELSE c = cursor

\* The catch stores no cursor.
CursorAfterFailure(i, c) == c = cursor

\* A query, a draft or a bulk write throws, or the process dies and is started again: a
\* bulk write may have reached some of its boxes.
Fail(i) ==
    /\ sweep[i].stage # "rest" /\ faults < MaxFaults
    /\ faults' = faults + 1
    /\ \/ UNCHANGED inboxes
       \/ \E r \in Rows : AtRow(i, r) /\ ~Full(i) /\
            \E boxes \in SUBSET EmptyBoxes(r, Admins) : Insert(boxes)
    /\ \E c \in Places \cup {NoPlace} : CursorAfterFailure(i, c) /\ cursor' = c
    /\ sweep' = [sweep EXCEPT ![i] = Resting]
    /\ UNCHANGED <<time, source, history>>

-------------------------------------------------------------------------------
(* What becomes of a notification. *)

\* setArchived, both ways; archiving again starts the retention again.
Archive(b) ==
    /\ inbox[b] = "kept"
    /\ due' = [due EXCEPT ![b] = time + Retention]
    /\ UNCHANGED <<time, source, cursor, sweep, inbox, echoes, faults, history>>

Unarchive(b) ==
    /\ inbox[b] = "kept" /\ due[b] # 0
    /\ due' = [due EXCEPT ![b] = 0]
    /\ UNCHANGED <<time, source, cursor, sweep, inbox, echoes, faults, history>>

\* autoArchive at the end of a tick, by the date the draft took from the row.
AutoArchive ==
    LET aged == {b \in Boxes : /\ inbox[b] = "kept" /\ due[b] = 0
                               /\ at[b[1]] + ArchiveAfter < time} IN
    /\ aged # {}
    /\ due' = [b \in Boxes |-> IF b \in aged THEN time + Retention ELSE due[b]]
    /\ UNCHANGED <<time, source, cursor, sweep, inbox, echoes, faults, history>>

\* The TTL index.
Purge(b) ==
    /\ inbox[b] = "kept" /\ due[b] # 0 /\ due[b] <= time
    /\ inbox' = [inbox EXCEPT ![b] = "deleted"]
    /\ due' = [due EXCEPT ![b] = 0]
    /\ UNCHANGED <<time, source, cursor, sweep, echoes, faults, history>>

Tick ==
    /\ time < LastTime
    /\ time' = time + 1
    /\ UNCHANGED <<source, cursor, sweep, inboxes, faults, history>>

-------------------------------------------------------------------------------
Sweep(i) ==
    \/ ReadCursor(i) \/ Seed(i) \/ Fetch(i) \/ Stamp(i)
    \/ \E r \in Rows : SkipRow(i, r) \/ DeclineRow(i, r) \/ WriteRow(i, r)

Next ==
    \/ \E r \in Rows : BeginWrite(r) \/ CommitWrite(r) \/ Settle(r)
    \/ \E i \in Instances : Sweep(i) \/ Fail(i)
    \/ \E b \in Boxes : Archive(b) \/ Unarchive(b) \/ Purge(b)
    \/ AutoArchive \/ Tick

Spec == Init /\ [][Next]_vars

\* The timer of a live instance fires again and again, and its queries return or throw.
FairSpec == Spec /\ \A i \in Instances : WF_vars(Sweep(i))

-------------------------------------------------------------------------------
(* Properties. *)

TypeOK ==
    /\ time \in Nat /\ faults \in Nat
    /\ open \subseteq Rows /\ handled \subseteq Rows /\ dropped \subseteq Rows
    /\ late \subseteq Rows /\ rewritten \subseteq Rows
    /\ at \in [Rows -> Nat] /\ writing \in [Rows -> Nat]
    /\ cursor \in [at : Nat, id : Rows \cup {0, StartId}]
    /\ reach \in [at : Nat, id : Rows \cup {0, StartId}]
    /\ \A i \in Instances :
         /\ sweep[i].stage \in {"rest", "seed", "fetch", "row"}
         /\ sweep[i].todo \subseteq DOMAIN sweep[i].seen
         /\ sweep[i].delivered < Cap + Cardinality(Admins)   \* only the row that crosses it
    /\ inbox \in [Boxes -> {"none", "kept", "deleted"}]
    /\ due \in [Boxes -> Nat]
    /\ overlapped \in BOOLEAN /\ echoes \subseteq Boxes

\* A row is waiting when the filter matches it and no tick has passed it.
Waiting(r) == r \in open /\ (cursor = NoPlace \/ After(Place(r), cursor))

\* Whatever the cursor has passed was fanned out, declined, or given up to the cap, unless it
\* became readable behind a place that had been fetched: two instances, ticks that fail and
\* cursors moved backwards lose nothing.
PassedIsAccounted ==
    \A r \in open : Waiting(r) \/ r \in handled \cup dropped \cup late

\* A notification that was deleted comes back only when its row was written again, or a tick
\* failed or ran beside another: the cursor alone keeps a quiet sweep from repeating itself.
EchoNeedsDisturbance ==
    \A b \in echoes : b[1] \in rewritten \/ overlapped \/ faults > 0

\* Every waiting row is passed or settled: no row, declined or past the cap, keeps a source
\* from reaching the rows behind it.
SweepReachesEveryRow == \A r \in Rows : Waiting(r) ~> ~Waiting(r)
================================================================================
