----------------------------- MODULE ProjectorProofs -----------------------------
(***************************************************************************)
(* The sweep of the notification projector, for any rows, administrators,  *)
(* instances, batch, cap and number of ticks that fail: what the cursor    *)
(* has passed is accounted for, and a quiet sweep repeats nothing.         *)
(***************************************************************************)
EXTENDS Projector, FiniteSetTheorems, TLAPS

Marks == [at : Nat, id : Nat]

\* The types the order of places needs.
PlaceTypes ==
    /\ time \in Nat
    /\ open \subseteq Rows
    /\ at \in [Rows -> Nat] /\ writing \in [Rows -> Nat]
    /\ cursor \in Marks /\ reach \in Marks

\* What instance i holds in the middle of a tick.
SweepTypes ==
    /\ DOMAIN sweep = Instances
    /\ \A i \in Instances :
         /\ sweep[i].stage \in {"rest", "seed", "fetch", "row"}
         /\ sweep[i].from \in Marks
         /\ DOMAIN sweep[i].seen \subseteq Rows
         /\ \A r \in DOMAIN sweep[i].seen : sweep[i].seen[r] \in Nat
         /\ sweep[i].todo \subseteq DOMAIN sweep[i].seen

Accounted == handled \cup dropped \cup late

\* Everything readable up to place c, apart from the rows in S, is accounted for, and no
\* fetch has returned less than c.
Swept(c, S) ==
    /\ ~Precedes(reach, c)
    /\ \A r \in open : After(Place(r), c) \/ r \in Accounted \cup S

\* The cursor, the place a fetch starts from, and the place a batch ends at: the batch's own
\* rows are accounted for or still to do.
CursorAgrees == Swept(cursor, {})
SweepAgrees(i) ==
    /\ sweep[i].stage = "fetch" => Swept(sweep[i].from, {})
    /\ sweep[i].stage = "row" =>
         \A c \in Marks : IsLast(i, c) => Swept(c, sweep[i].todo)

SweepInv == /\ PlaceTypes /\ SweepTypes
            /\ cursor = NoPlace \/ CursorAgrees
            /\ \A i \in Instances : SweepAgrees(i)

-------------------------------------------------------------------------------
(* The order of places. *)

LEMMA Transitive ==
    \A x, y, z \in Marks : Precedes(x, y) /\ Precedes(y, z) => Precedes(x, z)
BY DEF Marks, Precedes

LEMMA NotBefore ==
    \A x, y, z \in Marks : ~Precedes(x, y) /\ ~Precedes(y, z) => ~Precedes(x, z)
BY DEF Marks, Precedes

LEMMA BeyondReach ==
    \A x, y, z \in Marks : Precedes(y, z) /\ ~Precedes(y, x) => Precedes(x, z)
BY DEF Marks, Precedes

LEMMA PlacesAreMarks ==
    ASSUME PlaceTypes, NEW r \in Rows
    PROVE  Place(r) \in Marks
BY ProjectorAssumption DEF PlaceTypes, Place, Marks

LEMMA FurtherIsFurthest ==
    \A x, y \in Marks : /\ Further(x, y) \in Marks
                        /\ ~Precedes(Further(x, y), x) /\ ~Precedes(Further(x, y), y)
BY DEF Further, Marks, Precedes

-------------------------------------------------------------------------------
(* What every step leaves swept. *)

\* A step moves no row that is accounted for back to the places that were fetched.
Kept ==
    /\ ~Precedes(reach', reach)
    /\ \A r \in open' :
         \/ r \in open /\ at'[r] = at[r] /\ (r \in Accounted => r \in Accounted')
         \/ Precedes(reach, Place(r)')
         \/ r \in Accounted'

LEMMA StillSwept ==
    ASSUME PlaceTypes, PlaceTypes', Kept
    PROVE  \A c \in Marks : \A S : Swept(c, S) =>
             /\ ~Precedes(reach', c)
             /\ \A r \in open' : Precedes(c, Place(r)') \/ r \in Accounted' \cup S
<1>. TAKE c \in Marks
<1>. TAKE S
<1>. HAVE Swept(c, S)
<1>1. ~Precedes(reach', c)
  BY NotBefore DEF Kept, Swept, PlaceTypes
<1>2. ASSUME NEW r \in open' PROVE Precedes(c, Place(r)') \/ r \in Accounted' \cup S
  <2>1. CASE r \in open /\ at'[r] = at[r] /\ (r \in Accounted => r \in Accounted')
    BY <2>1 DEF Swept, After, Place
  <2>2. CASE Precedes(reach, Place(r)')
    <3>1. Place(r)' \in Marks
      BY PlacesAreMarks, ProjectorAssumption DEF PlaceTypes, Place, Marks
    <3>. QED
      BY <2>2, <3>1, BeyondReach DEF Swept, PlaceTypes
  <2>. QED
    BY <1>2, <2>1, <2>2 DEF Kept
<1>. QED
  BY <1>1, <1>2

LEMMA CursorStays ==
    ASSUME SweepInv, PlaceTypes', Kept, cursor' = cursor
    PROVE  cursor' = NoPlace \/ CursorAgrees'
BY StillSwept DEF SweepInv, PlaceTypes, CursorAgrees, Swept, After, Accounted

LEMMA SweepStays ==
    ASSUME SweepInv, PlaceTypes', Kept, NEW i \in Instances, sweep'[i] = sweep[i]
    PROVE  SweepAgrees(i)'
<1>1. sweep[i].from \in Marks
  BY DEF SweepInv, SweepTypes
<1>2. ASSUME sweep[i].stage = "fetch" PROVE Swept(sweep[i].from, {})'
  <2>1. Swept(sweep[i].from, {})
    BY <1>2 DEF SweepInv, SweepAgrees
  <2>. QED
    BY <1>1, <2>1, StillSwept DEF SweepInv, Swept, After
<1>3. ASSUME sweep[i].stage = "row", NEW c \in Marks, IsLast(i, c)
      PROVE  Swept(c, sweep[i].todo)'
  <2>1. Swept(c, sweep[i].todo)
    BY <1>3 DEF SweepInv, SweepAgrees
  <2>. QED
    BY <2>1, StillSwept DEF SweepInv, Swept, After
<1>. QED
  BY <1>2, <1>3 DEF SweepAgrees, IsLast, Fetched, Swept

LEMMA SweepInvInit == Init => SweepInv
<1>. SUFFICES ASSUME Init PROVE SweepInv
  OBVIOUS
<1>1. PlaceTypes
  <2>1. cursor \in Marks
    BY ProjectorAssumption DEF Init, NoPlace, Marks
  <2>. QED
    BY <2>1 DEF Init, PlaceTypes
<1>2. SweepTypes
  BY DEF Init, SweepTypes, Resting, NoPlace, Marks
<1>3. CursorAgrees
  BY ProjectorAssumption DEF Init, CursorAgrees, Swept, Precedes, NoPlace
<1>4. \A i \in Instances : SweepAgrees(i)
  BY DEF Init, SweepAgrees, Resting
<1>. QED
  BY <1>1, <1>2, <1>3, <1>4 DEF SweepInv

\* The steps that leave the sweep and the cursor alone.
LEMMA RowsMove ==
    ASSUME SweepInv, UNCHANGED <<cursor, sweep, reach, handled, dropped>>, PlaceTypes', Kept
    PROVE  SweepInv'
<1>1. SweepTypes'
  BY DEF SweepInv, SweepTypes
<1>. QED
  BY <1>1, CursorStays, SweepStays DEF SweepInv

LEMMA NothingMoves ==
    ASSUME PlaceTypes, UNCHANGED <<open, at, late, reach, handled, dropped>>
    PROVE  Kept
BY DEF PlaceTypes, Kept, Accounted, Precedes, Marks

\* The steps of an instance that leave the rows and the cursor alone: only its own tick
\* has to agree anew.
LEMMA TickMoves ==
    ASSUME SweepInv, NEW i \in Instances, PlaceTypes', SweepTypes', Kept, cursor' = cursor,
           \A j \in Instances \ {i} : sweep'[j] = sweep[j], SweepAgrees(i)'
    PROVE  SweepInv'
<1>1. \A j \in Instances : SweepAgrees(j)'
  BY SweepStays
<1>. QED
  BY <1>1, CursorStays DEF SweepInv

LEMMA RestAgrees ==
    ASSUME NEW i \in Instances, sweep'[i].stage \in {"rest", "seed"}
    PROVE  SweepAgrees(i)'
BY DEF SweepAgrees

\* A row of a batch is dealt with.
LEMMA RowDone ==
    ASSUME SweepInv, NEW i \in Instances, NEW r \in Rows, AtRow(i, r),
           UNCHANGED <<time, open, at, writing, late, cursor, reach>>,
           DOMAIN sweep' = Instances,
           \A j \in Instances \ {i} : sweep'[j] = sweep[j],
           sweep'[i].stage = sweep[i].stage, sweep'[i].from = sweep[i].from,
           sweep'[i].seen = sweep[i].seen, sweep'[i].todo = sweep[i].todo \ {r},
           handled \cup dropped \cup {r} = handled' \cup dropped'
    PROVE  SweepInv'
<1>1. PlaceTypes'
  BY DEF SweepInv, PlaceTypes
<1>2. SweepTypes'
  BY DEF SweepInv, SweepTypes
<1>3. Kept
  BY DEF SweepInv, PlaceTypes, Kept, Accounted, Precedes, Marks
<1>4. SweepAgrees(i)'
  <2>1. sweep[i].stage = "row"
    BY DEF AtRow
  <2>2. ASSUME NEW c \in Marks, IsLast(i, c)' PROVE Swept(c, sweep[i].todo \ {r})'
    <3>1. IsLast(i, c)
      BY <2>2 DEF IsLast, Fetched
    <3>2. Swept(c, sweep[i].todo)
      BY <2>1, <3>1 DEF SweepInv, SweepAgrees
    <3>3. /\ ~Precedes(reach', c)
          /\ \A x \in open' : Precedes(c, Place(x)') \/ x \in Accounted' \cup sweep[i].todo
      BY <1>1, <1>3, <3>2, StillSwept DEF SweepInv
    <3>4. r \in Accounted'
      BY DEF Accounted
    <3>. QED
      BY <3>3, <3>4 DEF Swept, After
  <2>. QED
    BY <2>1, <2>2 DEF SweepAgrees, Swept
<1>. QED
  BY <1>1, <1>2, <1>3, <1>4, TickMoves

-------------------------------------------------------------------------------
LEMMA FetchStep ==
    ASSUME SweepInv, NEW i \in Instances, Fetch(i)
    PROVE  SweepInv'
<1>. DEFINE found == {r \in open : After(Place(r), sweep[i].from)}
<1>1. PICK batch \in SUBSET found :
        /\ OldestOf(found, batch)
        /\ sweep' = [sweep EXCEPT ![i] =
                       IF batch = {} THEN Resting
                       ELSE [@ EXCEPT !.stage = "row", !.todo = batch,
                                      !.seen = [r \in batch |-> at[r]]]]
        /\ reach' \in {reach} \cup {Place(r) : r \in batch}
        /\ \A p \in {reach} \cup {Place(r) : r \in batch} : ~Precedes(reach', p)
  BY DEF Fetch
<1>2. UNCHANGED <<time, open, at, writing, late, cursor, handled, dropped>>
      /\ sweep[i].stage = "fetch"
  BY DEF Fetch, source
<1>3. batch \subseteq Rows /\ \A r \in batch : Place(r) \in Marks
  BY <1>1, PlacesAreMarks DEF SweepInv, PlaceTypes
<1>4. PlaceTypes'
  BY <1>1, <1>2, <1>3 DEF SweepInv, PlaceTypes
<1>5. DOMAIN sweep' = Instances /\ \A j \in Instances \ {i} : sweep'[j] = sweep[j]
  BY <1>1 DEF SweepInv, SweepTypes
<1>6. Kept
  BY <1>1, <1>2 DEF Kept, Accounted
<1>7. CASE batch = {}
  <2>1. sweep'[i] = Resting
    BY <1>1, <1>7 DEF SweepInv, SweepTypes
  <2>2. SweepTypes'
    BY <1>5, <2>1 DEF SweepInv, SweepTypes, Resting, NoPlace, Marks
  <2>3. SweepAgrees(i)'
    BY <2>1, RestAgrees DEF Resting
  <2>. QED
    BY <1>2, <1>4, <1>5, <1>6, <2>2, <2>3, TickMoves
<1>8. CASE batch # {}
  <2>1. /\ sweep'[i].stage = "row" /\ sweep'[i].from = sweep[i].from
        /\ sweep'[i].todo = batch /\ sweep'[i].seen = [r \in batch |-> at[r]]
    BY <1>1, <1>8 DEF SweepInv, SweepTypes
  <2>2. SweepTypes'
    BY <1>3, <1>5, <2>1 DEF SweepInv, SweepTypes, PlaceTypes
  <2>3. ASSUME NEW c \in Marks, IsLast(i, c)' PROVE Swept(c, batch)'
    <3>1. PICK r0 \in batch : c = Place(r0)
      BY <2>1, <2>3 DEF IsLast, Fetched, Place
    <3>2. ~Precedes(reach', c)
      BY <1>1, <3>1
    <3>3. ASSUME NEW x \in open PROVE Precedes(c, Place(x)) \/ x \in Accounted \cup batch
      <4>1. CASE x \in found \ batch
        BY <1>1, <3>1, <4>1 DEF OldestOf
      <4>2. CASE x \notin found
        BY <1>2, <4>2 DEF SweepInv, SweepAgrees, Swept
      <4>. QED
        BY <4>1, <4>2
    <3>. QED
      BY <1>2, <3>2, <3>3 DEF Swept, After, Place, Accounted
  <2>4. SweepAgrees(i)'
    BY <2>1, <2>3 DEF SweepAgrees, Swept
  <2>. QED
    BY <1>2, <1>4, <1>5, <1>6, <2>2, <2>4, TickMoves
<1>. QED
  BY <1>7, <1>8

LEMMA SeedStep ==
    ASSUME SweepInv, NEW i \in Instances, Seed(i)
    PROVE  SweepInv'
<1>. DEFINE here == [at |-> time, id |-> StartId]
<1>1. /\ cursor' = IF cursor = NoPlace THEN here ELSE cursor
      /\ sweep' = [sweep EXCEPT ![i].stage = "fetch", ![i].from = here]
      /\ reach' = Further(reach, here)
      /\ late' = late \cup {r \in open : ~After(Place(r), here)}
      /\ UNCHANGED <<time, open, at, writing, handled, dropped>>
  BY DEF Seed
<1>2. here \in Marks /\ reach \in Marks
  BY ProjectorAssumption DEF SweepInv, PlaceTypes, Marks
<1>3. reach' \in Marks /\ ~Precedes(reach', reach) /\ ~Precedes(reach', here)
  BY <1>1, <1>2, FurtherIsFurthest
<1>4. PlaceTypes'
  BY <1>1, <1>2, <1>3 DEF SweepInv, PlaceTypes
<1>5. /\ DOMAIN sweep' = Instances /\ \A j \in Instances \ {i} : sweep'[j] = sweep[j]
      /\ sweep'[i].stage = "fetch" /\ sweep'[i].from = here
      /\ sweep'[i].seen = sweep[i].seen /\ sweep'[i].todo = sweep[i].todo
  BY <1>1 DEF SweepInv, SweepTypes
<1>6. SweepTypes'
  BY <1>2, <1>5 DEF SweepInv, SweepTypes
<1>7. Kept
  BY <1>1, <1>3 DEF Kept, Accounted
<1>8. ~Precedes(reach', here)
      /\ \A r \in open' : Precedes(here, Place(r)') \/ r \in Accounted'
  BY <1>1, <1>3 DEF Place, After, Accounted
<1>9. cursor' = NoPlace \/ CursorAgrees'
  <2>1. CASE cursor = NoPlace
    BY <1>1, <1>8, <2>1 DEF CursorAgrees, Swept, After
  <2>2. CASE cursor # NoPlace
    BY <1>1, <1>4, <1>7, <2>2, CursorStays
  <2>. QED
    BY <2>1, <2>2
<1>10. SweepAgrees(i)'
  BY <1>5, <1>8 DEF SweepAgrees, Swept, After
<1>11. \A j \in Instances : SweepAgrees(j)'
  BY <1>4, <1>5, <1>7, <1>10, SweepStays
<1>. QED
  BY <1>4, <1>6, <1>9, <1>11 DEF SweepInv

LEMMA StampStep ==
    ASSUME SweepInv, NEW i \in Instances, Stamp(i)
    PROVE  SweepInv'
<1>1. PICK c \in Places : IsLast(i, c) /\ cursor' = c
  BY DEF Stamp, StampLast
<1>2. /\ sweep[i].stage = "row" /\ sweep[i].todo = {} /\ sweep' = [sweep EXCEPT ![i] = Resting]
      /\ UNCHANGED <<time, open, at, writing, late, reach, handled, dropped>>
  BY DEF Stamp, source, history
<1>3. c \in Marks
  <2>1. PICK r \in DOMAIN sweep[i].seen : c = [at |-> sweep[i].seen[r], id |-> r]
    BY <1>1 DEF IsLast, Fetched
  <2>2. sweep[i].seen[r] \in Nat /\ r \in Nat
    BY ProjectorAssumption DEF SweepInv, SweepTypes
  <2>. QED
    BY <2>1, <2>2 DEF Marks
<1>4. PlaceTypes'
  BY <1>1, <1>2, <1>3 DEF SweepInv, PlaceTypes
<1>5. /\ DOMAIN sweep' = Instances /\ \A j \in Instances \ {i} : sweep'[j] = sweep[j]
      /\ sweep'[i] = Resting
  BY <1>2 DEF SweepInv, SweepTypes
<1>6. SweepTypes'
  BY <1>5 DEF SweepInv, SweepTypes, Resting, NoPlace, Marks
<1>7. Kept
  BY <1>2, NothingMoves DEF SweepInv
<1>8. CursorAgrees'
  <2>1. Swept(c, {})
    BY <1>1, <1>2, <1>3 DEF SweepInv, SweepAgrees
  <2>. QED
    BY <1>1, <1>2, <2>1 DEF CursorAgrees, Swept, After, Place, Accounted
<1>9. \A j \in Instances : SweepAgrees(j)'
  BY <1>4, <1>5, <1>7, SweepStays, RestAgrees DEF Resting
<1>. QED
  BY <1>4, <1>6, <1>8, <1>9 DEF SweepInv

LEMMA SweepInvStep == SweepInv /\ [Next]_vars => SweepInv'
<1>. SUFFICES ASSUME SweepInv, [Next]_vars PROVE SweepInv'
  OBVIOUS
<1>. USE DEF source, inboxes, history
<1>1. ASSUME NEW r \in Rows, BeginWrite(r) PROVE SweepInv'
  <2>1. PlaceTypes'
    BY <1>1 DEF BeginWrite, SweepInv, PlaceTypes
  <2>. QED
    BY <1>1, <2>1, NothingMoves, RowsMove DEF BeginWrite, SweepInv
<1>2. ASSUME NEW r \in Rows, CommitWrite(r) PROVE SweepInv'
  <2>1. PlaceTypes'
    BY <1>2 DEF CommitWrite, SweepInv, PlaceTypes
  <2>2. Place(r)' = [at |-> writing[r], id |-> r]
    BY <1>2 DEF CommitWrite, Place, SweepInv, PlaceTypes
  <2>3. \A x \in Rows \ {r} : at'[x] = at[x]
    BY <1>2 DEF CommitWrite, SweepInv, PlaceTypes
  <2>4. Kept
    <3>1. ~Precedes(reach', reach)
      BY <1>2 DEF CommitWrite, Precedes, SweepInv, PlaceTypes, Marks
    <3>2. Precedes(reach, Place(r)') \/ r \in Accounted'
      BY <1>2, <2>2 DEF CommitWrite, After, Accounted
    <3>3. \A x \in open' \ {r} : x \in open /\ at'[x] = at[x]
                                 /\ (x \in Accounted => x \in Accounted')
      BY <1>2, <2>3 DEF CommitWrite, Accounted, SweepInv, PlaceTypes
    <3>. QED
      BY <3>1, <3>2, <3>3 DEF Kept
  <2>. QED
    BY <1>2, <2>1, <2>4, RowsMove DEF CommitWrite
<1>3. ASSUME NEW r \in Rows, Settle(r) PROVE SweepInv'
  <2>1. PlaceTypes' /\ Kept
    BY <1>3 DEF Settle, SweepInv, PlaceTypes, Kept, Accounted, Precedes, Marks
  <2>. QED
    BY <1>3, <2>1, RowsMove DEF Settle
<1>4. ASSUME NEW i \in Instances, ReadCursor(i) PROVE SweepInv'
  <2>1. PlaceTypes' /\ Kept
    BY <1>4, NothingMoves DEF ReadCursor, SweepInv, PlaceTypes
  <2>2. /\ DOMAIN sweep' = Instances /\ \A j \in Instances \ {i} : sweep'[j] = sweep[j]
        /\ sweep'[i] = IF cursor = NoPlace THEN [Resting EXCEPT !.stage = "seed"]
                       ELSE [Resting EXCEPT !.stage = "fetch", !.from = cursor]
        /\ cursor' = cursor
    BY <1>4 DEF ReadCursor, SweepInv, SweepTypes
  <2>3. SweepTypes'
    <3>1. /\ sweep'[i].stage \in {"seed", "fetch"} /\ sweep'[i].from \in {NoPlace, cursor}
          /\ sweep'[i].seen = [r \in {} |-> 0] /\ sweep'[i].todo = {}
      BY <2>2 DEF Resting
    <3>2. sweep'[i].from \in Marks
      BY <3>1 DEF SweepInv, PlaceTypes, NoPlace, Marks
    <3>. QED
      BY <2>2, <3>1, <3>2 DEF SweepInv, SweepTypes
  <2>4. SweepAgrees(i)'
    <3>1. CASE cursor = NoPlace
      BY <2>2, <3>1, RestAgrees DEF Resting
    <3>2. CASE cursor # NoPlace
      <4>1. CursorAgrees'
        BY <2>1, <2>2, <3>2, CursorStays
      <4>. QED
        BY <2>2, <3>2, <4>1 DEF SweepAgrees, CursorAgrees, Resting, Swept
    <3>. QED
      BY <3>1, <3>2
  <2>. QED
    BY <2>1, <2>2, <2>3, <2>4, TickMoves
<1>5. ASSUME NEW i \in Instances, Seed(i) \/ Fetch(i) \/ Stamp(i) PROVE SweepInv'
  BY <1>5, SeedStep, FetchStep, StampStep
<1>6. ASSUME NEW i \in Instances, NEW r \in Rows,
             SkipRow(i, r) \/ DeclineRow(i, r) \/ WriteRow(i, r)
      PROVE  SweepInv'
  <2>1. AtRow(i, r) /\ UNCHANGED <<time, open, at, writing, late, cursor, reach>>
    BY <1>6 DEF SkipRow, DeclineRow, WriteRow
  <2>2. handled \cup dropped \cup {r} = handled' \cup dropped'
    BY <1>6 DEF SkipRow, DeclineRow, WriteRow
  <2>3. /\ DOMAIN sweep' = Instances /\ \A j \in Instances \ {i} : sweep'[j] = sweep[j]
        /\ sweep'[i].stage = sweep[i].stage /\ sweep'[i].from = sweep[i].from
        /\ sweep'[i].seen = sweep[i].seen /\ sweep'[i].todo = sweep[i].todo \ {r}
    <3>1. DOMAIN sweep = Instances
      BY DEF SweepInv, SweepTypes
    <3>2. CASE SkipRow(i, r) \/ DeclineRow(i, r)
      <4>1. sweep' = [sweep EXCEPT ![i].todo = @ \ {r}]
        BY <3>2 DEF SkipRow, DeclineRow
      <4>. QED
        BY <3>1, <4>1
    <3>3. CASE WriteRow(i, r)
      <4>1. PICK n : sweep' = [sweep EXCEPT ![i].todo = @ \ {r}, ![i].delivered = n]
        BY <3>3 DEF WriteRow
      <4>. QED
        BY <3>1, <4>1
    <3>. QED
      BY <1>6, <3>2, <3>3
  <2>. QED
    BY <2>1, <2>2, <2>3, RowDone
<1>7. ASSUME NEW i \in Instances, Fail(i) PROVE SweepInv'
  <2>1. UNCHANGED <<time, open, at, writing, late, cursor, reach, handled, dropped>>
        /\ sweep' = [sweep EXCEPT ![i] = Resting]
    BY <1>7 DEF Fail, CursorAfterFailure
  <2>2. PlaceTypes' /\ Kept
    BY <2>1, NothingMoves DEF SweepInv, PlaceTypes
  <2>3. /\ DOMAIN sweep' = Instances /\ \A j \in Instances \ {i} : sweep'[j] = sweep[j]
        /\ sweep'[i] = Resting
    BY <2>1 DEF SweepInv, SweepTypes
  <2>4. SweepTypes' /\ SweepAgrees(i)'
    BY <2>3, RestAgrees DEF SweepInv, SweepTypes, Resting, NoPlace, Marks
  <2>. QED
    BY <2>1, <2>2, <2>3, <2>4, TickMoves
<1>8. ASSUME \/ \E b \in Boxes : Archive(b) \/ Unarchive(b) \/ Purge(b)
             \/ AutoArchive \/ Tick \/ UNCHANGED vars
      PROVE  SweepInv'
  <2>1. /\ UNCHANGED <<open, at, writing, late, cursor, sweep, reach, handled, dropped>>
        /\ time' \in Nat
    BY <1>8 DEF Archive, Unarchive, Purge, AutoArchive, Tick, vars, SweepInv, PlaceTypes
  <2>2. PlaceTypes'
    BY <2>1 DEF SweepInv, PlaceTypes
  <2>. QED
    BY <2>1, <2>2, NothingMoves, RowsMove DEF SweepInv
<1>. QED
  BY <1>1, <1>2, <1>3, <1>4, <1>5, <1>6, <1>7, <1>8 DEF Next, Sweep

\* No row is passed in silence: the cursor, however many instances move it and however
\* their ticks end, has behind it only rows that were fanned out, declined, given up to the
\* cap, or readable too late (runSource, stampRun).
THEOREM NothingIsPassedInSilence == Spec => []PassedIsAccounted
<1>1. SweepInv => PassedIsAccounted
  BY DEF SweepInv, CursorAgrees, Swept, PassedIsAccounted, Waiting, Accounted
<1>. QED
  BY <1>1, SweepInvInit, SweepInvStep, PTL DEF Spec

-------------------------------------------------------------------------------
(* A quiet sweep: one tick at a time, none of which fails. *)

Disturbed == overlapped \/ faults > 0

\* A notified row that is not rewritten is behind the cursor, or done in the batch at hand.
Passed(r) ==
    \/ ~Precedes(cursor, Place(r))
    \/ \E i \in Instances : /\ sweep[i].stage = "row"
                            /\ r \in DOMAIN sweep[i].seen \ sweep[i].todo

Quiet ==
    /\ \A i, j \in Instances : sweep[i].stage # "rest" /\ sweep[j].stage # "rest" => i = j
    /\ \A i \in Instances :
         /\ sweep[i].stage = "seed" => cursor = NoPlace
         /\ sweep[i].stage \in {"fetch", "row"} => sweep[i].from = cursor /\ cursor # NoPlace
         /\ sweep[i].stage = "row" =>
              \A r \in DOMAIN sweep[i].seen :
                 /\ Precedes(cursor, Fetched(i, r))
                 /\ r \notin rewritten => sweep[i].seen[r] = at[r]
                 /\ at[r] # 0
    /\ \A b \in Boxes : inbox[b] # "none" /\ b[1] \notin rewritten =>
         cursor # NoPlace /\ at[b[1]] # 0 /\ Passed(b[1])
    /\ \A b \in echoes : b[1] \in rewritten

QuietInv ==
    /\ SweepInv
    /\ time > 0 /\ faults \in Nat
    /\ \A r \in open : at[r] # 0
    /\ Disturbed \/ Quiet

\* The first and the second step of a box.
LEMMA BoxIsPair == \A b \in Boxes : b[1] \in Rows /\ b[2] \in Admins /\ b = <<b[1], b[2]>>
BY DEF Boxes

\* A step that leaves sweep, cursor, rows and boxes as they were.
LEMMA QuietStays ==
    ASSUME Quiet, UNCHANGED <<cursor, sweep, at, inbox, rewritten, echoes>>
    PROVE  Quiet'
BY DEF Quiet, Passed, Fetched, Place

LEMMA QuietInvInit == Init => QuietInv
<1>. SUFFICES ASSUME Init PROVE QuietInv
  OBVIOUS
<1>1. Quiet
  BY DEF Init, Quiet, Resting
<1>. QED
  BY <1>1, SweepInvInit DEF Init, QuietInv

LEMMA FewFacts ==
    ASSUME QuietInv, [Next]_vars
    PROVE  /\ time' > 0 /\ faults' \in Nat
           /\ \A r \in open' : at'[r] # 0
<1>. USE DEF source, inboxes, history, QuietInv, SweepInv, PlaceTypes
<1>1. ASSUME NEW r \in Rows, BeginWrite(r) \/ CommitWrite(r) \/ Settle(r)
      PROVE  /\ time' > 0 /\ faults' \in Nat
             /\ \A x \in open' : at'[x] # 0
  BY <1>1 DEF BeginWrite, CommitWrite, Settle
<1>2. ASSUME NEW i \in Instances, ReadCursor(i) \/ Seed(i) \/ Fetch(i) \/ Stamp(i)
      PROVE  UNCHANGED <<time, faults, open, at>>
  BY <1>2 DEF ReadCursor, Seed, Fetch, Stamp
<1>3. ASSUME NEW i \in Instances, NEW r \in Rows,
             SkipRow(i, r) \/ DeclineRow(i, r) \/ WriteRow(i, r)
      PROVE  UNCHANGED <<time, faults, open, at>>
  BY <1>3 DEF SkipRow, DeclineRow, WriteRow
<1>4. ASSUME NEW i \in Instances, Fail(i)
      PROVE  UNCHANGED <<time, open, at>> /\ faults' = faults + 1
  BY <1>4 DEF Fail
<1>5. ASSUME \/ \E b \in Boxes : Archive(b) \/ Unarchive(b) \/ Purge(b)
             \/ AutoArchive \/ UNCHANGED vars
      PROVE  UNCHANGED <<time, faults, open, at>>
  BY <1>5 DEF Archive, Unarchive, Purge, AutoArchive, vars
<1>6. CASE Tick
  BY <1>6 DEF Tick
<1>. QED
  BY <1>1, <1>2, <1>3, <1>4, <1>5, <1>6 DEF Next, Sweep

\* A row that is written for the second time is rewritten from then on.
LEMMA QuietCommit ==
    ASSUME QuietInv, Quiet, NEW r \in Rows, CommitWrite(r)
    PROVE  Quiet'
<1>1. /\ at' = [at EXCEPT ![r] = writing[r]] /\ writing[r] # 0
      /\ rewritten' = IF at[r] # 0 THEN rewritten \cup {r} ELSE rewritten
      /\ UNCHANGED <<cursor, sweep, inbox, echoes>>
  BY DEF CommitWrite, inboxes
<1>2. \A x \in Rows : at[x] # 0 => at'[x] # 0 /\ (x \notin rewritten' => at'[x] = at[x])
  BY <1>1 DEF QuietInv, SweepInv, PlaceTypes
<1>3. ASSUME NEW i \in Instances
      PROVE  /\ sweep[i].stage = "seed" => cursor = NoPlace
             /\ sweep[i].stage \in {"fetch", "row"} => sweep[i].from = cursor /\ cursor # NoPlace
             /\ sweep[i].stage = "row" =>
                  \A x \in DOMAIN sweep[i].seen :
                     /\ Precedes(cursor, Fetched(i, x))
                     /\ x \notin rewritten' => sweep[i].seen[x] = at'[x]
                     /\ at'[x] # 0
  <2>1. DOMAIN sweep[i].seen \subseteq Rows
    BY DEF QuietInv, SweepInv, SweepTypes
  <2>. QED
    BY <1>1, <1>2, <2>1 DEF Quiet
<1>4. ASSUME NEW b \in Boxes, inbox[b] # "none", b[1] \notin rewritten'
      PROVE  cursor # NoPlace /\ at'[b[1]] # 0 /\ Passed(b[1])'
  <2>1. b[1] \in Rows /\ b[1] \notin rewritten
    BY <1>1, <1>4, BoxIsPair
  <2>2. cursor # NoPlace /\ at[b[1]] # 0 /\ Passed(b[1])
    BY <1>4, <2>1 DEF Quiet
  <2>3. at'[b[1]] = at[b[1]]
    BY <1>2, <1>4, <2>1, <2>2
  <2>. QED
    BY <1>1, <2>2, <2>3 DEF Passed, Place
<1>5. \A b \in echoes : b[1] \in rewritten'
  BY <1>1 DEF Quiet
<1>. QED
  BY <1>1, <1>3, <1>4, <1>5 DEF Quiet, Fetched

\* A tick starts while the others rest: no batch is at hand.
LEMMA QuietRead ==
    ASSUME QuietInv, Quiet, NEW i \in Instances, ReadCursor(i), ~overlapped'
    PROVE  Quiet'
<1>1. /\ sweep[i].stage = "rest" /\ \A j \in Instances : sweep[j].stage = "rest"
      /\ UNCHANGED <<cursor, at, inbox, rewritten, echoes>>
      /\ DOMAIN sweep' = Instances /\ \A j \in Instances \ {i} : sweep'[j] = sweep[j]
      /\ sweep'[i] = IF cursor = NoPlace THEN [Resting EXCEPT !.stage = "seed"]
                     ELSE [Resting EXCEPT !.stage = "fetch", !.from = cursor]
  BY DEF ReadCursor, source, inboxes, QuietInv, SweepInv, SweepTypes
<1>2. \/ cursor = NoPlace /\ sweep'[i].stage = "seed"
      \/ cursor # NoPlace /\ sweep'[i].stage = "fetch" /\ sweep'[i].from = cursor
  BY <1>1 DEF Resting
<1>3. \A r \in Rows : Passed(r) => ~Precedes(cursor, Place(r))
  BY <1>1 DEF Passed
<1>4. ASSUME NEW b \in Boxes, inbox[b] # "none", b[1] \notin rewritten
      PROVE  cursor # NoPlace /\ at[b[1]] # 0 /\ Passed(b[1])'
  BY <1>1, <1>3, <1>4, BoxIsPair DEF Quiet, Passed, Place
<1>5. ASSUME NEW j \in Instances
      PROVE  /\ sweep'[j].stage # "rest" => j = i
             /\ sweep'[j].stage = "seed" => cursor = NoPlace
             /\ sweep'[j].stage \in {"fetch", "row"} => sweep'[j].from = cursor
                                                        /\ cursor # NoPlace
             /\ sweep'[j].stage # "row"
  BY <1>1, <1>2
<1>. QED
  BY <1>1, <1>4, <1>5 DEF Quiet

\* Only the present can be a new source's first place, and nobody was notified before it.
LEMMA QuietSeed ==
    ASSUME QuietInv, Quiet, NEW i \in Instances, Seed(i)
    PROVE  Quiet'
<1>. DEFINE here == [at |-> time, id |-> StartId]
<1>1. /\ sweep[i].stage = "seed" /\ cursor = NoPlace /\ cursor' = here
      /\ UNCHANGED <<at, inbox, rewritten, echoes>>
      /\ DOMAIN sweep' = Instances /\ \A j \in Instances \ {i} : sweep'[j] = sweep[j]
      /\ sweep'[i].stage = "fetch" /\ sweep'[i].from = here
  BY DEF Seed, inboxes, Quiet, QuietInv, SweepInv, SweepTypes
<1>2. here # NoPlace
  BY DEF QuietInv, NoPlace
<1>3. \A j \in Instances \ {i} : sweep'[j].stage = "rest"
  BY <1>1 DEF Quiet
<1>4. \A b \in Boxes : inbox[b] # "none" => b[1] \in rewritten
  BY <1>1 DEF Quiet
<1>. QED
  BY <1>1, <1>2, <1>3, <1>4 DEF Quiet

LEMMA QuietFetch ==
    ASSUME QuietInv, Quiet, NEW i \in Instances, Fetch(i)
    PROVE  Quiet'
<1>1. PICK batch \in SUBSET {r \in open : After(Place(r), sweep[i].from)} :
        sweep' = [sweep EXCEPT ![i] =
                    IF batch = {} THEN Resting
                    ELSE [@ EXCEPT !.stage = "row", !.todo = batch,
                                   !.seen = [r \in batch |-> at[r]]]]
  BY DEF Fetch
<1>2. /\ sweep[i].stage = "fetch" /\ sweep[i].from = cursor /\ cursor # NoPlace
      /\ UNCHANGED <<cursor, at, inbox, rewritten, echoes>>
      /\ DOMAIN sweep' = Instances /\ \A j \in Instances \ {i} : sweep'[j] = sweep[j]
  BY <1>1 DEF Fetch, source, inboxes, Quiet, QuietInv, SweepInv, SweepTypes
<1>3. \/ sweep'[i].stage = "rest"
      \/ /\ sweep'[i].stage = "row" /\ sweep'[i].from = cursor
         /\ sweep'[i].seen = [r \in batch |-> at[r]]
  BY <1>1, <1>2 DEF Resting, QuietInv, SweepInv, SweepTypes
<1>4. \A j \in Instances \ {i} : sweep[j].stage = "rest"
  BY <1>2 DEF Quiet
<1>5. \A r \in batch : Precedes(cursor, Place(r)) /\ at[r] # 0
  BY <1>1, <1>2 DEF After, QuietInv
<1>6. \A r \in Rows : Passed(r) => ~Precedes(cursor, Place(r))
  BY <1>2, <1>4 DEF Passed
<1>7. ASSUME NEW b \in Boxes, inbox[b] # "none", b[1] \notin rewritten
      PROVE  cursor # NoPlace /\ at[b[1]] # 0 /\ Passed(b[1])'
  BY <1>2, <1>6, <1>7, BoxIsPair DEF Quiet, Passed, Place
<1>8. ASSUME NEW j \in Instances
      PROVE  /\ sweep'[j].stage # "seed"
             /\ sweep'[j].stage \in {"fetch", "row"} => j = i /\ sweep'[j].from = cursor
             /\ sweep'[j].stage = "row" =>
                  \A r \in DOMAIN sweep'[j].seen :
                     /\ Precedes(cursor, Fetched(j, r)')
                     /\ sweep'[j].seen[r] = at[r]
                     /\ at[r] # 0
  BY <1>2, <1>3, <1>4, <1>5 DEF Fetched, Place
<1>. QED
  BY <1>2, <1>3, <1>4, <1>7, <1>8 DEF Quiet

\* A row of the batch is dealt with; whoever is notified of it had not been before.
LEMMA QuietRow ==
    ASSUME QuietInv, Quiet, NEW i \in Instances, NEW r \in Rows,
           SkipRow(i, r) \/ DeclineRow(i, r) \/ WriteRow(i, r)
    PROVE  Quiet'
<1>1. /\ sweep[i].stage = "row" /\ r \in sweep[i].todo
      /\ UNCHANGED <<cursor, at, rewritten>>
  BY DEF SkipRow, DeclineRow, WriteRow, AtRow, FirstLeft, source
<1>2. /\ DOMAIN sweep' = Instances /\ \A j \in Instances \ {i} : sweep'[j] = sweep[j]
      /\ sweep'[i].stage = sweep[i].stage /\ sweep'[i].from = sweep[i].from
      /\ sweep'[i].seen = sweep[i].seen /\ sweep'[i].todo = sweep[i].todo \ {r}
  <2>1. DOMAIN sweep = Instances
    BY DEF QuietInv, SweepInv, SweepTypes
  <2>2. CASE SkipRow(i, r) \/ DeclineRow(i, r)
    <3>1. sweep' = [sweep EXCEPT ![i].todo = @ \ {r}]
      BY <2>2 DEF SkipRow, DeclineRow
    <3>. QED
      BY <2>1, <3>1
  <2>3. CASE WriteRow(i, r)
    <3>1. PICK n : sweep' = [sweep EXCEPT ![i].todo = @ \ {r}, ![i].delivered = n]
      BY <2>3 DEF WriteRow
    <3>. QED
      BY <2>1, <3>1
  <2>. QED
    BY <2>2, <2>3
<1>3. r \in DOMAIN sweep[i].seen
  BY <1>1 DEF QuietInv, SweepInv, SweepTypes
<1>4. \A x \in Rows : Passed(x) => Passed(x)'
  BY <1>1, <1>2 DEF Passed, Place
<1>5. Passed(r)' /\ cursor # NoPlace /\ at[r] # 0
  BY <1>1, <1>2, <1>3 DEF Passed, Quiet
<1>6. r \notin rewritten => ~Passed(r)
  <2>. SUFFICES ASSUME r \notin rewritten, Passed(r) PROVE FALSE
    OBVIOUS
  <2>1. Precedes(cursor, Place(r))
    BY <1>1, <1>3 DEF Quiet, Fetched, Place
  <2>. QED
    BY <1>1, <2>1 DEF Passed, Quiet
<1>7. \A b \in Boxes : inbox'[b] # "none" => inbox[b] # "none" \/ b[1] = r
  BY DEF SkipRow, DeclineRow, WriteRow, Insert, EmptyBoxes, inboxes
<1>8. \A b \in echoes' : b \in echoes \/ (b \in Boxes /\ b[1] = r /\ inbox[b] # "none")
  <2>1. CASE SkipRow(i, r) \/ DeclineRow(i, r)
    BY <2>1 DEF SkipRow, DeclineRow, inboxes
  <2>2. CASE WriteRow(i, r)
    <3>1. PICK targets \in SUBSET Admins :
            echoes' = echoes \cup {b \in EmptyBoxes(r, targets) : inbox[b] # "none"}
      BY <2>2 DEF WriteRow, Insert
    <3>. QED
      BY <3>1 DEF EmptyBoxes, Boxes
  <2>. QED
    BY <2>1, <2>2
<1>9. \A b \in echoes' : b[1] \in rewritten
  BY <1>6, <1>8 DEF Quiet
<1>10. ASSUME NEW b \in Boxes, inbox'[b] # "none", b[1] \notin rewritten
       PROVE  cursor # NoPlace /\ at[b[1]] # 0 /\ Passed(b[1])'
  BY <1>4, <1>5, <1>7, <1>10, BoxIsPair DEF Quiet
<1>11. ASSUME NEW j \in Instances
       PROVE  /\ sweep'[j].stage = sweep[j].stage /\ sweep'[j].from = sweep[j].from
              /\ sweep'[j].seen = sweep[j].seen
  BY <1>2
<1>. QED
  BY <1>1, <1>9, <1>10, <1>11 DEF Quiet, Fetched

\* The cursor takes the batch with it.
LEMMA QuietStamp ==
    ASSUME QuietInv, Quiet, NEW i \in Instances, Stamp(i)
    PROVE  Quiet'
<1>1. /\ sweep[i].stage = "row" /\ sweep[i].todo = {} /\ sweep' = [sweep EXCEPT ![i] = Resting]
      /\ UNCHANGED <<at, inbox, rewritten, echoes>> /\ IsLast(i, cursor')
  BY DEF Stamp, StampLast, source, inboxes
<1>2. \A j \in Instances : sweep'[j].stage = "rest"
  BY <1>1 DEF Quiet, QuietInv, SweepInv, SweepTypes, Resting
<1>3. \A x \in DOMAIN sweep[i].seen : Fetched(i, x) \in Marks
  BY ProjectorAssumption DEF Fetched, Marks, QuietInv, SweepInv, SweepTypes
<1>4. PICK r0 \in DOMAIN sweep[i].seen :
        /\ cursor' = Fetched(i, r0)
        /\ \A x \in DOMAIN sweep[i].seen : ~Precedes(cursor', Fetched(i, x))
  BY <1>1 DEF IsLast
<1>5. Precedes(cursor, cursor') /\ cursor' \in Marks /\ cursor \in Marks
  BY <1>1, <1>3, <1>4 DEF Quiet, QuietInv, SweepInv, PlaceTypes
<1>6. cursor' # NoPlace
  BY <1>5 DEF Precedes, NoPlace, Marks
<1>7. ASSUME NEW b \in Boxes, inbox[b] # "none", b[1] \notin rewritten
      PROVE  at[b[1]] # 0 /\ ~Precedes(cursor', Place(b[1]))
  <2>1. at[b[1]] # 0 /\ Passed(b[1]) /\ Place(b[1]) \in Marks
    BY <1>7, BoxIsPair, PlacesAreMarks DEF Quiet, QuietInv, SweepInv
  <2>2. CASE ~Precedes(cursor, Place(b[1]))
    BY <1>5, <2>1, <2>2, Transitive
  <2>3. CASE b[1] \in DOMAIN sweep[i].seen
    BY <1>1, <1>4, <1>7, <2>1, <2>3 DEF Quiet, Fetched, Place
  <2>. QED
    BY <1>1, <2>1, <2>2, <2>3 DEF Passed, Quiet
<1>. QED
  BY <1>1, <1>2, <1>6, <1>7 DEF Quiet, Passed, Place

LEMMA QuietInvStep == QuietInv /\ [Next]_vars => QuietInv'
<1>. SUFFICES ASSUME QuietInv, [Next]_vars PROVE QuietInv'
  OBVIOUS
<1>1. SweepInv'
  BY SweepInvStep DEF QuietInv
<1>2. Disturbed \/ Quiet
  BY DEF QuietInv
<1>3. Disturbed' \/ Quiet'
  <2>1. ASSUME NEW r \in Rows, BeginWrite(r) \/ CommitWrite(r) \/ Settle(r)
        PROVE  Disturbed' \/ Quiet'
    <3>1. overlapped' = overlapped /\ faults' = faults
      BY <2>1 DEF BeginWrite, CommitWrite, Settle, history
    <3>2. CASE BeginWrite(r) \/ Settle(r)
      <4>1. UNCHANGED <<cursor, sweep, at, inbox, rewritten, echoes>>
        BY <3>2 DEF BeginWrite, Settle, inboxes
      <4>. QED
        BY <1>2, <3>1, <4>1, QuietStays DEF Disturbed
    <3>3. CASE CommitWrite(r)
      BY <1>2, <3>1, <3>3, QuietCommit DEF Disturbed
    <3>. QED
      BY <2>1, <3>2, <3>3
  <2>2. ASSUME NEW i \in Instances, ReadCursor(i)
        PROVE  Disturbed' \/ Quiet'
    <3>1. faults' = faults /\ (overlapped => overlapped')
      BY <2>2 DEF ReadCursor
    <3>. QED
      BY <1>2, <2>2, <3>1, QuietRead DEF Disturbed
  <2>3. ASSUME NEW i \in Instances, Seed(i) \/ Fetch(i) \/ Stamp(i)
        PROVE  Disturbed' \/ Quiet'
    <3>1. overlapped' = overlapped /\ faults' = faults
      BY <2>3 DEF Seed, Fetch, Stamp, history
    <3>. QED
      BY <1>2, <2>3, <3>1, QuietSeed, QuietFetch, QuietStamp DEF Disturbed
  <2>4. ASSUME NEW i \in Instances, NEW r \in Rows,
               SkipRow(i, r) \/ DeclineRow(i, r) \/ WriteRow(i, r)
        PROVE  Disturbed' \/ Quiet'
    <3>1. overlapped' = overlapped /\ faults' = faults
      BY <2>4 DEF SkipRow, DeclineRow, WriteRow
    <3>. QED
      BY <1>2, <2>4, <3>1, QuietRow DEF Disturbed
  <2>5. ASSUME NEW i \in Instances, Fail(i)
        PROVE  Disturbed'
    BY <2>5 DEF Fail, Disturbed, QuietInv
  <2>6. ASSUME \/ \E b \in Boxes : Archive(b) \/ Unarchive(b)
               \/ AutoArchive \/ Tick \/ UNCHANGED vars
        PROVE  Disturbed' \/ Quiet'
    <3>1. UNCHANGED <<cursor, sweep, at, inbox, rewritten, echoes, overlapped, faults>>
      BY <2>6 DEF Archive, Unarchive, AutoArchive, Tick, vars, source, inboxes, history
    <3>. QED
      BY <1>2, <3>1, QuietStays DEF Disturbed
  <2>7. ASSUME NEW b \in Boxes, Purge(b)
        PROVE  Disturbed' \/ Quiet'
    <3>1. UNCHANGED <<cursor, sweep, at, rewritten, echoes, overlapped, faults>>
      BY <2>7 DEF Purge, source, history
    <3>2. \A d \in Boxes : inbox'[d] # "none" => inbox[d] # "none"
      BY <2>7 DEF Purge
    <3>3. Quiet => Quiet'
      BY <3>1, <3>2 DEF Quiet, Passed, Fetched, Place
    <3>. QED
      BY <1>2, <3>1, <3>3 DEF Disturbed
  <2>. QED
    BY <1>2, <2>1, <2>2, <2>3, <2>4, <2>5, <2>6, <2>7 DEF Next, Sweep
<1>. QED
  BY <1>1, <1>3, FewFacts DEF QuietInv

\* A notification that was deleted does not come back by itself: the cursor and the order of
\* a batch keep a row from being fanned out twice, unless it is written again, a tick fails
\* or two instances run at once (the upsert sees only what is still there).
THEOREM EchoesAreExplained == Spec => []EchoNeedsDisturbance
<1>1. QuietInv => EchoNeedsDisturbance
  BY DEF QuietInv, Disturbed, Quiet, EchoNeedsDisturbance
<1>. QED
  BY <1>1, QuietInvInit, QuietInvStep, PTL DEF Spec

-------------------------------------------------------------------------------
(* Types, and how far a tick goes past its cap. *)

TypeInv == SweepInv /\ TypeOK /\ \A i \in Instances : sweep[i].delivered \in Nat

\* A row has one box for each administrator.
LEMMA OneBoxEach ==
    ASSUME IsFiniteSet(Admins), NEW r \in Rows, NEW targets \in SUBSET Admins
    PROVE  LET n == Cardinality(EmptyBoxes(r, targets)) IN
             n \in Nat /\ n <= Cardinality(Admins)
<1>1. IsFiniteSet({r}) /\ Cardinality({r}) = 1
  BY FS_Singleton
<1>2. IsFiniteSet({r} \X Admins) /\ Cardinality({r} \X Admins) = 1 * Cardinality(Admins)
  BY <1>1, FS_Product
<1>3. EmptyBoxes(r, targets) \in SUBSET ({r} \X Admins)
  BY DEF EmptyBoxes
<1>4. IsFiniteSet(EmptyBoxes(r, targets))
      /\ Cardinality(EmptyBoxes(r, targets)) <= Cardinality({r} \X Admins)
  BY <1>2, <1>3, FS_Subset
<1>5. Cardinality(Admins) \in Nat /\ Cardinality(EmptyBoxes(r, targets)) \in Nat
  BY <1>4, FS_CardinalityType
<1>. QED
  BY <1>2, <1>4, <1>5

LEMMA TypeInvInit == ASSUME IsFiniteSet(Admins) PROVE Init => TypeInv
<1>. SUFFICES ASSUME Init PROVE TypeInv
  OBVIOUS
<1>1. Cardinality(Admins) \in Nat
  BY FS_CardinalityType
<1>2. \A i \in Instances : /\ sweep[i].stage = "rest" /\ sweep[i].todo = {}
                           /\ sweep[i].delivered = 0
  BY DEF Init, Resting
<1>3. cursor \in [at : Nat, id : Rows \cup {0, StartId}]
  BY DEF Init, NoPlace
<1>4. inbox \in [Boxes -> {"none", "kept", "deleted"}] /\ due \in [Boxes -> Nat]
  BY DEF Init
<1>5. at \in [Rows -> Nat] /\ writing \in [Rows -> Nat]
  BY DEF Init
<1>6. \A i \in Instances :
        /\ sweep[i].stage \in {"rest", "seed", "fetch", "row"}
        /\ sweep[i].todo \subseteq DOMAIN sweep[i].seen
        /\ sweep[i].delivered < Cap + Cardinality(Admins) /\ sweep[i].delivered \in Nat
  BY <1>1, <1>2, ProjectorAssumption
<1>7. /\ time = 1 /\ faults = 0 /\ open = {} /\ reach = cursor /\ overlapped = FALSE
      /\ handled = {} /\ dropped = {} /\ late = {} /\ rewritten = {} /\ echoes = {}
  BY DEF Init
<1>. QED
  BY <1>3, <1>4, <1>5, <1>6, <1>7, SweepInvInit DEF TypeInv, TypeOK

\* What the ticks have taken.
LEMMA TicksTyped ==
    ASSUME IsFiniteSet(Admins), TypeInv, [Next]_vars
    PROVE  \A i \in Instances :
             /\ sweep'[i].delivered \in Nat
             /\ sweep'[i].delivered < Cap + Cardinality(Admins)
<1>. SUFFICES ASSUME NEW i \in Instances
              PROVE  /\ sweep'[i].delivered \in Nat
                     /\ sweep'[i].delivered < Cap + Cardinality(Admins)
  OBVIOUS
<1>. DEFINE d == sweep[i].delivered
<1>0. /\ Cardinality(Admins) \in Nat /\ Cap \in Nat \ {0}
      /\ d \in Nat /\ d < Cap + Cardinality(Admins) /\ DOMAIN sweep = Instances
  BY FS_CardinalityType, ProjectorAssumption DEF TypeInv, TypeOK, SweepInv, SweepTypes
<1>1. ASSUME sweep'[i].delivered \in {0, d}
      PROVE  /\ sweep'[i].delivered \in Nat
             /\ sweep'[i].delivered < Cap + Cardinality(Admins)
  BY <1>0, <1>1
<1>2. ASSUME NEW j \in Instances, ReadCursor(j) \/ Seed(j) \/ Fetch(j) \/ Stamp(j) \/ Fail(j)
      PROVE  sweep'[i].delivered \in {0, d}
  <2>1. CASE ReadCursor(j)
    BY <1>0, <2>1 DEF ReadCursor, Resting
  <2>2. CASE Stamp(j) \/ Fail(j)
    BY <1>0, <2>2 DEF Stamp, Fail, Resting
  <2>3. CASE Seed(j)
    BY <1>0, <2>3 DEF Seed
  <2>4. CASE Fetch(j)
    <3>1. PICK b, s : sweep' = [sweep EXCEPT ![j] =
                         IF b = {} THEN Resting
                         ELSE [@ EXCEPT !.stage = "row", !.todo = b, !.seen = s]]
      BY <2>4 DEF Fetch
    <3>. QED
      BY <1>0, <3>1 DEF Resting
  <2>. QED
    BY <1>2, <2>1, <2>2, <2>3, <2>4
<1>3. ASSUME NEW j \in Instances, NEW r \in Rows, SkipRow(j, r) \/ DeclineRow(j, r)
      PROVE  sweep'[i].delivered \in {0, d}
  <2>1. sweep' = [sweep EXCEPT ![j].todo = @ \ {r}]
    BY <1>3 DEF SkipRow, DeclineRow
  <2>. QED
    BY <1>0, <2>1
<1>4. ASSUME NEW j \in Instances, NEW r \in Rows, WriteRow(j, r)
      PROVE  /\ sweep'[i].delivered \in Nat
             /\ sweep'[i].delivered < Cap + Cardinality(Admins)
  <2>1. PICK targets \in SUBSET Admins :
          sweep' = [sweep EXCEPT ![j].todo = @ \ {r},
                       ![j].delivered = @ + Cardinality(EmptyBoxes(r, targets))]
    BY <1>4 DEF WriteRow
  <2>2. CASE i # j
    BY <1>0, <1>1, <2>1, <2>2
  <2>3. CASE i = j
    <3>1. d < Cap
      BY <1>0, <1>4, <2>3 DEF WriteRow, Full
    <3>2. sweep'[i].delivered = d + Cardinality(EmptyBoxes(r, targets))
      BY <1>0, <2>1, <2>3
    <3>. QED
      BY <1>0, <3>1, <3>2, OneBoxEach
  <2>. QED
    BY <2>2, <2>3
<1>5. ASSUME \/ \E r \in Rows : BeginWrite(r) \/ CommitWrite(r) \/ Settle(r)
             \/ \E b \in Boxes : Archive(b) \/ Unarchive(b) \/ Purge(b)
             \/ AutoArchive \/ Tick \/ UNCHANGED vars
      PROVE  UNCHANGED sweep
  BY <1>5 DEF BeginWrite, CommitWrite, Settle, Archive, Unarchive, Purge, AutoArchive, Tick, vars
<1>. QED
  BY <1>1, <1>2, <1>3, <1>4, <1>5 DEF Next, Sweep

\* The boxes and the history.
LEMMA BoxesTyped ==
    ASSUME TypeInv, [Next]_vars
    PROVE  /\ inbox' \in [Boxes -> {"none", "kept", "deleted"}] /\ due' \in [Boxes -> Nat]
           /\ echoes' \subseteq Boxes
<1>. USE DEF TypeInv, TypeOK, inboxes
<1>1. ASSUME NEW r \in Rows, NEW boxes \in SUBSET EmptyBoxes(r, Admins), Insert(boxes)
      PROVE  /\ inbox' \in [Boxes -> {"none", "kept", "deleted"}] /\ due' \in [Boxes -> Nat]
             /\ echoes' \subseteq Boxes
  BY <1>1 DEF Insert, EmptyBoxes, Boxes
<1>2. ASSUME NEW i \in Instances, Fail(i)
      PROVE  /\ inbox' \in [Boxes -> {"none", "kept", "deleted"}] /\ due' \in [Boxes -> Nat]
             /\ echoes' \subseteq Boxes
  BY <1>1, <1>2 DEF Fail
<1>3. ASSUME NEW i \in Instances, NEW r \in Rows, WriteRow(i, r)
      PROVE  /\ inbox' \in [Boxes -> {"none", "kept", "deleted"}] /\ due' \in [Boxes -> Nat]
             /\ echoes' \subseteq Boxes
  <2>1. PICK targets \in SUBSET Admins : Insert(EmptyBoxes(r, targets))
    BY <1>3 DEF WriteRow
  <2>2. EmptyBoxes(r, targets) \in SUBSET EmptyBoxes(r, Admins)
    BY DEF EmptyBoxes
  <2>. QED
    BY <1>1, <2>1, <2>2
<1>4. ASSUME NEW b \in Boxes, Archive(b) \/ Unarchive(b) \/ Purge(b)
      PROVE  /\ inbox' \in [Boxes -> {"none", "kept", "deleted"}] /\ due' \in [Boxes -> Nat]
             /\ echoes' \subseteq Boxes
  <2>1. time + Retention \in Nat
    BY ProjectorAssumption
  <2>. QED
    BY <1>4, <2>1 DEF Archive, Unarchive, Purge
<1>5. ASSUME AutoArchive
      PROVE  /\ inbox' \in [Boxes -> {"none", "kept", "deleted"}] /\ due' \in [Boxes -> Nat]
             /\ echoes' \subseteq Boxes
  <2>1. time + Retention \in Nat
    BY ProjectorAssumption
  <2>. QED
    BY <1>5, <2>1 DEF AutoArchive
<1>6. ASSUME \/ \E r \in Rows : BeginWrite(r) \/ CommitWrite(r) \/ Settle(r)
             \/ \E i \in Instances : \/ ReadCursor(i) \/ Seed(i) \/ Fetch(i) \/ Stamp(i)
                                     \/ \E r \in Rows : SkipRow(i, r) \/ DeclineRow(i, r)
             \/ Tick \/ UNCHANGED vars
      PROVE  UNCHANGED <<inbox, due, echoes>>
  BY <1>6 DEF BeginWrite, CommitWrite, Settle, ReadCursor, Seed, Fetch, Stamp, SkipRow,
              DeclineRow, Tick, vars
<1>. QED
  BY <1>2, <1>3, <1>4, <1>5, <1>6 DEF Next, Sweep

\* The rows, the clock and where the cursor can be.
LEMMA RowsTyped ==
    ASSUME TypeInv, [Next]_vars
    PROVE  /\ faults' \in Nat /\ overlapped' \in BOOLEAN
           /\ handled' \subseteq Rows /\ dropped' \subseteq Rows
           /\ late' \subseteq Rows /\ rewritten' \subseteq Rows
           /\ cursor' \in [at : Nat, id : Rows \cup {0, StartId}]
           /\ reach' \in [at : Nat, id : Rows \cup {0, StartId}]
<1>. DEFINE Ids    == Rows \cup {0, StartId}
            Goal == /\ faults' \in Nat /\ overlapped' \in BOOLEAN
                    /\ handled' \subseteq Rows /\ dropped' \subseteq Rows
                    /\ late' \subseteq Rows /\ rewritten' \subseteq Rows
                    /\ cursor' \in [at : Nat, id : Ids] /\ reach' \in [at : Nat, id : Ids]
<1>. USE DEF TypeInv, TypeOK, source, history
<1>1. ASSUME NEW r \in Rows, BeginWrite(r) \/ CommitWrite(r) \/ Settle(r) PROVE Goal
  BY <1>1 DEF BeginWrite, CommitWrite, Settle
<1>2. ASSUME NEW i \in Instances, ReadCursor(i) PROVE Goal
  BY <1>2 DEF ReadCursor
<1>3. ASSUME NEW i \in Instances, Seed(i) PROVE Goal
  <2>1. [at |-> time, id |-> StartId] \in [at : Nat, id : Ids]
    OBVIOUS
  <2>. QED
    BY <1>3, <2>1 DEF Seed, Further
<1>4. ASSUME NEW i \in Instances, Fetch(i) PROVE Goal
  <2>1. PICK batch \in SUBSET open : reach' \in {reach} \cup {Place(r) : r \in batch}
    BY <1>4 DEF Fetch
  <2>2. \A r \in batch : Place(r) \in [at : Nat, id : Ids]
    BY DEF Place
  <2>. QED
    BY <1>4, <2>1, <2>2 DEF Fetch
<1>5. ASSUME NEW i \in Instances, Stamp(i) PROVE Goal
  <2>1. PICK c \in Places : cursor' = c
    BY <1>5 DEF Stamp
  <2>2. c \in [at : Nat, id : Ids]
    BY ProjectorAssumption DEF Places, Times
  <2>. QED
    BY <1>5, <2>1, <2>2 DEF Stamp
<1>6. ASSUME NEW i \in Instances, NEW r \in Rows,
             SkipRow(i, r) \/ DeclineRow(i, r) \/ WriteRow(i, r)
      PROVE  Goal
  BY <1>6 DEF SkipRow, DeclineRow, WriteRow
<1>7. ASSUME NEW i \in Instances, Fail(i) PROVE Goal
  BY <1>7 DEF Fail, CursorAfterFailure
<1>8. ASSUME \/ \E b \in Boxes : Archive(b) \/ Unarchive(b) \/ Purge(b)
             \/ AutoArchive \/ Tick \/ UNCHANGED vars
      PROVE  Goal
  BY <1>8 DEF Archive, Unarchive, Purge, AutoArchive, Tick, vars
<1>. QED
  BY <1>1, <1>2, <1>3, <1>4, <1>5, <1>6, <1>7, <1>8 DEF Next, Sweep

\* Every reachable state is well typed; a tick delivers less than its cap and one
\* notification for each administrator.
THEOREM ProjectorTyped == ASSUME IsFiniteSet(Admins) PROVE Spec => []TypeOK
<1>1. TypeInv /\ [Next]_vars => TypeInv'
  <2>. SUFFICES ASSUME TypeInv, [Next]_vars PROVE TypeInv'
    OBVIOUS
  <2>1. SweepInv'
    BY SweepInvStep DEF TypeInv
  <2>. QED
    BY <2>1, TicksTyped, BoxesTyped, RowsTyped
    DEF TypeInv, TypeOK, SweepInv, PlaceTypes, SweepTypes
<1>2. TypeInv => TypeOK
  BY DEF TypeInv
<1>. QED
  BY <1>1, <1>2, TypeInvInit, PTL DEF Spec
===============================================================================
