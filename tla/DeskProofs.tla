------------------------------- MODULE DeskProofs -------------------------------
(***************************************************************************)
(* Three desks of the back office that share no state: the convergence of  *)
(* the feature flag caches, for any number of instances, any lifetime of   *)
(* an entry and any bound on a read; the completeness of the transaction   *)
(* feed, for any number of sources and any page size; and the arithmetic   *)
(* of a statement, for orders of any number of lines.                      *)
(***************************************************************************)
EXTENDS FeatureFlags, TransactionFeed, Statements, FiniteSetTheorems, TLAPS

-------------------------------------------------------------------------------
(* Feature flags. *)

Entered == [value : States, readAt : Int]
Queries == {NoRead} \cup [value : States, sent : Nat]

FlagTypes ==
    /\ row \in States \cup {"absent"}
    /\ clock \in Nat
    /\ cache \in [Nodes -> Entered]
    /\ read \in [Nodes -> Queries]
    /\ until \in [States -> Int]

\* The value in force has been the flag's value up to now, and no value after now.
HistoryAgrees ==
    /\ until[Effective(row)] = clock
    /\ \A v \in States : until[v] <= clock

\* What a query is about to return was in force when it was sent, which is not long ago.
ReadsAgree ==
    \A n \in Nodes : read[n] # NoRead =>
        /\ read[n].sent <= clock
        /\ clock - read[n].sent <= MaxRead
        /\ read[n].sent <= until[read[n].value]

\* What was put in a cache had been in force at most one read earlier.
EntriesAgree ==
    \A n \in Nodes : cache[n].readAt >= 0 =>
        /\ cache[n].readAt <= clock
        /\ until[cache[n].value] >= 0
        /\ cache[n].readAt - until[cache[n].value] <= MaxRead

FlagInv == FlagTypes /\ HistoryAgrees /\ ReadsAgree /\ EntriesAgree

\* What flagEnabled answers from a row is a state of the flag.
LEMMA EffectiveValue ==
    ASSUME row \in States \cup {"absent"}
    PROVE  Effective(row) \in States
BY FlagAssumption DEF Effective

\* The invariant of the flags holds at the start, and every step keeps it.
LEMMA FlagInvInit == FlagInit => FlagInv
<1>. SUFFICES ASSUME FlagInit PROVE FlagInv
  OBVIOUS
<1>1. FlagTypes
  BY FlagAssumption DEF FlagInit, FlagTypes, Entered, Queries, Uncached, States
<1>2. HistoryAgrees
  BY FlagAssumption DEF FlagInit, HistoryAgrees, Effective, States
<1>3. ReadsAgree /\ EntriesAgree
  BY DEF FlagInit, ReadsAgree, EntriesAgree, Uncached
<1>. QED
  BY <1>1, <1>2, <1>3 DEF FlagInv

LEMMA FlagInvStep == FlagInv /\ [FlagNext]_flagVars => FlagInv'
<1>. SUFFICES ASSUME FlagInv, [FlagNext]_flagVars PROVE FlagInv'
  OBVIOUS
<1>. USE DEF FlagInv
<1>0. Effective(row) \in States
  BY EffectiveValue DEF FlagTypes
<1>1. ASSUME NEW n \in Nodes, Query(n) PROVE FlagInv'
  <2>1. FlagTypes'
    BY <1>0, <1>1 DEF Query, FlagTypes, Queries
  <2>2. HistoryAgrees' /\ EntriesAgree'
    BY <1>1 DEF Query, HistoryAgrees, EntriesAgree, Effective
  <2>3. ReadsAgree'
    BY <1>0, <1>1, FlagAssumption DEF Query, ReadsAgree, HistoryAgrees, FlagTypes
  <2>. QED
    BY <2>1, <2>2, <2>3
<1>2. ASSUME NEW n \in Nodes, Fill(n) PROVE FlagInv'
  <2>1. read[n].value \in States /\ read[n].sent \in Nat
    BY <1>2 DEF Fill, FlagTypes, Queries
  <2>2. FlagTypes'
    BY <1>2, <2>1 DEF Fill, FlagTypes, Entered, Queries
  <2>3. HistoryAgrees' /\ ReadsAgree'
    BY <1>2 DEF Fill, HistoryAgrees, ReadsAgree, Effective, FlagTypes
  <2>4. EntriesAgree'
    BY <1>2, <2>1, FlagAssumption DEF Fill, EntriesAgree, ReadsAgree, FlagTypes
  <2>. QED
    BY <2>2, <2>3, <2>4
<1>3. ASSUME NEW n \in Nodes, Fail(n) PROVE FlagInv'
  BY <1>3 DEF Fail, AfterOutage, FlagTypes, HistoryAgrees, ReadsAgree, EntriesAgree, Effective,
              Queries
<1>4. ASSUME NEW n \in Nodes, NEW v \in States, SetFlag(n, v) PROVE FlagInv'
  <2>0. until' \in [States -> Int]
    BY <1>0, <1>4 DEF SetFlag, FlagTypes
  <2>1. FlagTypes'
    BY <1>4, <2>0 DEF SetFlag, FlagTypes
  <2>2. /\ until'[v] = clock /\ \A w \in States : until'[w] <= clock
        /\ \A w \in States : until[w] <= until'[w]
    BY <1>0, <1>4 DEF SetFlag, FlagTypes, HistoryAgrees
  <2>3. Effective(row') = v
    BY <1>4 DEF SetFlag, Effective, States
  <2>4. HistoryAgrees'
    BY <1>4, <2>2, <2>3 DEF SetFlag, HistoryAgrees, Effective
  <2>5. ReadsAgree'
    BY <1>4, <2>1, <2>2 DEF SetFlag, ReadsAgree, FlagTypes, Queries
  <2>6. EntriesAgree'
    BY <1>4, <2>1, <2>2, FlagAssumption DEF SetFlag, EntriesAgree, FlagTypes, Entered
  <2>. QED
    BY <2>1, <2>4, <2>5, <2>6
<1>5. ASSUME NEW n \in Nodes, Forget(n) PROVE FlagInv'
  BY <1>5, FlagAssumption DEF Forget, FlagTypes, HistoryAgrees, ReadsAgree, EntriesAgree,
      Effective, Entered, Uncached
<1>6. ASSUME NEW n \in Nodes, Restart(n) PROVE FlagInv'
  BY <1>6, FlagAssumption DEF Restart, FlagTypes, HistoryAgrees, ReadsAgree, EntriesAgree,
      Effective, Entered, Queries, Uncached
<1>7. CASE FlagTick
  <2>0. until' \in [States -> Int]
    BY <1>0, <1>7 DEF FlagTick, FlagTypes
  <2>1. FlagTypes'
    BY <1>7, <2>0 DEF FlagTick, FlagTypes
  <2>2. /\ until'[Effective(row)] = clock' /\ \A w \in States : until'[w] <= clock'
        /\ \A w \in States : until[w] <= until'[w]
    BY <1>0, <1>7 DEF FlagTick, FlagTypes, HistoryAgrees
  <2>3. HistoryAgrees'
    BY <1>7, <2>2 DEF FlagTick, HistoryAgrees, Effective
  <2>4. ReadsAgree'
    BY <1>7, <2>1, <2>2, FlagAssumption DEF FlagTick, ReadsAgree, FlagTypes, Queries
  <2>5. EntriesAgree'
    BY <1>7, <2>1, <2>2, FlagAssumption DEF FlagTick, EntriesAgree, FlagTypes, Entered
  <2>. QED
    BY <2>1, <2>3, <2>4, <2>5
<1>8. CASE UNCHANGED flagVars
  BY <1>8 DEF flagVars, FlagTypes, HistoryAgrees, ReadsAgree, EntriesAgree, Effective
<1>. QED
  BY <1>1, <1>2, <1>3, <1>4, <1>5, <1>6, <1>7, <1>8 DEF FlagNext

\* What flagEnabled answers from its cache was the flag's value within the lifetime of an
\* entry and the duration of one read, whatever instances set, restart or fail to read.
THEOREM FlagsAreFresh == FlagSpec => []FlagsConverge
<1>1. FlagInv => FlagsConverge
  <2>. SUFFICES ASSUME FlagInv, NEW n \in Nodes, Hit(n)
                PROVE  /\ clock - until[cache[n].value] < FlagTTL + MaxRead
                       /\ until[cache[n].value] >= 0
    BY DEF FlagsConverge
  <2>. QED
    BY FlagAssumption DEF Hit, FlagInv, FlagTypes, EntriesAgree, Entered
<1>. QED
  BY <1>1, FlagInvInit, FlagInvStep, PTL DEF FlagSpec

-------------------------------------------------------------------------------
(* The transaction feed.  The sort, read in the direction of the paging. *)

Ahead(x, m) == Before(x, m, direction)

\* The fields of a row are numbers, and they are the row.
LEMMA Fields ==
    ASSUME NEW x \in Moves, NEW m \in Moves
    PROVE  /\ x.value \in Int /\ x.id \in Int
           /\ x.value = m.value /\ x.id = m.id => x = m
<1>1. Values \subseteq Int /\ Ids \subseteq Int
  BY FeedAssumption DEF Ids
<1>2. x = [value |-> x.value, id |-> x.id] /\ m = [value |-> m.value, id |-> m.id]
  BY DEF Moves
<1>3. x.value \in Values /\ x.id \in Ids
  BY DEF Moves
<1>. QED
  BY <1>1, <1>2, <1>3

\* Before, spelled out in each direction: what the provers' arithmetic needs.
LEMMA Directions ==
    ASSUME NEW x \in Moves, NEW m \in Moves
    PROVE  /\ direction = 1 => (Ahead(x, m) <=> \/ x.value < m.value
                                                \/ x.value = m.value /\ x.id < m.id)
           /\ direction = -1 => (Ahead(x, m) <=> \/ x.value > m.value
                                                 \/ x.value = m.value /\ x.id > m.id)
<1>1. x.value \in Int /\ m.value \in Int /\ x.id \in Int /\ m.id \in Int
  BY Fields
<1>2. \A i, j \in Int : ((j - i) * 1 > 0 <=> i < j) /\ ((j - i) * (-1) > 0 <=> i > j)
  OBVIOUS
<1>. QED
  BY <1>1, <1>2 DEF Ahead, Before

\* The sort is a strict total order on the rows.
LEMMA StrictOrder ==
    ASSUME direction \in {1, -1}, NEW x \in Moves, NEW m \in Moves, NEW z \in Moves
    PROVE  /\ ~Ahead(x, x)
           /\ Ahead(x, m) /\ Ahead(m, z) => Ahead(x, z)
           /\ x # m => Ahead(x, m) \/ Ahead(m, x)
<1>1. /\ x.value \in Int /\ m.value \in Int /\ z.value \in Int
      /\ x.id \in Int /\ m.id \in Int /\ z.id \in Int
      /\ x.value = m.value /\ x.id = m.id => x = m
  BY Fields
<1>2. CASE direction = 1
  BY <1>1, <1>2, Directions
<1>3. CASE direction = -1
  BY <1>1, <1>3, Directions
<1>. QED
  BY <1>2, <1>3

-------------------------------------------------------------------------------
(* Ranks in a finite set of rows. *)

Less(m, rows) == {x \in rows : Ahead(x, m)}

\* The rank of a row counts a finite set.
LEMMA RankIsCount ==
    ASSUME NEW rows, IsFiniteSet(rows), NEW m
    PROVE  /\ IsFiniteSet(Less(m, rows))
           /\ Rank(m, rows) = Cardinality(Less(m, rows))
           /\ Rank(m, rows) \in Nat
           /\ Cardinality(rows) \in Nat
<1>1. Less(m, rows) \in SUBSET rows
  BY DEF Less
<1>2. IsFiniteSet(Less(m, rows))
  BY <1>1, FS_Subset
<1>3. Rank(m, rows) = Cardinality(Less(m, rows))
  BY DEF Rank, Less, Ahead
<1>. QED
  BY <1>2, <1>3, FS_CardinalityType

\* More rows, no smaller rank.
LEMMA RankGrows ==
    ASSUME NEW rows, IsFiniteSet(rows), NEW some \in SUBSET rows, NEW m
    PROVE  Rank(m, some) <= Rank(m, rows)
<1>1. Less(m, some) \in SUBSET Less(m, rows)
  BY DEF Less
<1>2. IsFiniteSet(some)
  BY FS_Subset
<1>. QED
  BY <1>1, <1>2, RankIsCount, FS_Subset

\* The earlier row has the smaller rank.
LEMMA RankOrders ==
    ASSUME direction \in {1, -1},
           NEW rows \in SUBSET Moves, IsFiniteSet(rows),
           NEW x \in rows, NEW m \in Moves, Ahead(x, m)
    PROVE  Rank(x, rows) < Rank(m, rows)
<1>1. Less(x, rows) \in SUBSET Less(m, rows)
  BY StrictOrder DEF Less
<1>2. x \in Less(m, rows) /\ x \notin Less(x, rows)
  BY StrictOrder DEF Less
<1>3. Cardinality(Less(x, rows)) <= Cardinality(Less(m, rows))
      /\ Cardinality(Less(x, rows)) # Cardinality(Less(m, rows))
  BY <1>1, <1>2, RankIsCount, FS_Subset
<1>. QED
  BY <1>3, RankIsCount

\* The rank decides the order, and no two rows share one.
LEMMA RankDecides ==
    ASSUME direction \in {1, -1},
           NEW rows \in SUBSET Moves, IsFiniteSet(rows),
           NEW x \in rows, NEW m \in rows
    PROVE  /\ Rank(x, rows) < Rank(m, rows) => Ahead(x, m)
           /\ Rank(x, rows) = Rank(m, rows) => x = m
<1>1. Rank(x, rows) \in Nat /\ Rank(m, rows) \in Nat
  BY RankIsCount
<1>2. Ahead(m, x) => Rank(m, rows) < Rank(x, rows)
  BY RankOrders
<1>3. Ahead(x, m) => Rank(x, rows) < Rank(m, rows)
  BY RankOrders
<1>4. x = m \/ Ahead(x, m) \/ Ahead(m, x)
  BY StrictOrder
<1>. QED
  BY <1>1, <1>2, <1>3, <1>4

\* The ranks of n rows are below n.
LEMMA RankInRange ==
    ASSUME direction \in {1, -1},
           NEW rows \in SUBSET Moves, IsFiniteSet(rows), NEW m \in rows
    PROVE  Rank(m, rows) < Cardinality(rows)
<1>1. Less(m, rows) \in SUBSET rows /\ m \notin Less(m, rows)
  BY StrictOrder DEF Less
<1>2. Cardinality(Less(m, rows)) <= Cardinality(rows)
      /\ Cardinality(Less(m, rows)) # Cardinality(rows)
  BY <1>1, FS_Subset
<1>. QED
  BY <1>2, RankIsCount

\* Every rank is taken.
LEMMA RanksAreTaken ==
    ASSUME direction \in {1, -1},
           NEW rows \in SUBSET Moves, IsFiniteSet(rows),
           NEW k \in 0..(Cardinality(rows) - 1)
    PROVE  \E m \in rows : Rank(m, rows) = k
<1>. DEFINE n == Cardinality(rows)
            ranks == [m \in rows |-> Rank(m, rows)]
<1>1. n \in Nat
  BY FS_CardinalityType
<1>2. \A m \in rows : Rank(m, rows) \in 0..(n - 1)
  BY <1>1, RankIsCount, RankInRange
<1>3. \A x, m \in rows : Rank(x, rows) = Rank(m, rows) => x = m
  BY RankDecides
<1>4. ranks \in Injection(rows, 0..(n - 1))
  BY <1>2, <1>3 DEF Injection, IsInjective
<1>5. IsFiniteSet(0..(n - 1)) /\ Cardinality(0..(n - 1)) = n
  BY <1>1, FS_Interval
<1>6. ranks \in Surjection(rows, 0..(n - 1))
  BY <1>4, <1>5, FS_Injection
<1>. QED
  BY <1>6 DEF Surjection

\* The first rows of a set: all of them when there are not too many, as many as asked for
\* when there are, and those left out come after.
LEMMA FirstRows ==
    ASSUME direction \in {1, -1},
           NEW rows \in SUBSET Moves, IsFiniteSet(rows), NEW n \in Nat
    PROVE  /\ FirstOf(rows, n) \in SUBSET rows /\ IsFiniteSet(FirstOf(rows, n))
           /\ Cardinality(rows) <= n => FirstOf(rows, n) = rows
           /\ Cardinality(rows) >= n => Cardinality(FirstOf(rows, n)) >= n
           /\ \A m \in rows \ FirstOf(rows, n), x \in FirstOf(rows, n) : Ahead(x, m)
<1>1. FirstOf(rows, n) \in SUBSET rows
  BY DEF FirstOf
<1>2. IsFiniteSet(FirstOf(rows, n))
  BY <1>1, FS_Subset
<1>3. ASSUME Cardinality(rows) <= n PROVE FirstOf(rows, n) = rows
  BY <1>3, RankInRange, RankIsCount DEF FirstOf
<1>4. ASSUME Cardinality(rows) >= n PROVE Cardinality(FirstOf(rows, n)) >= n
  <2>. DEFINE ranks == [m \in FirstOf(rows, n) |-> Rank(m, rows)]
  <2>1. Cardinality(rows) \in Nat
    BY FS_CardinalityType
  <2>2. \A m \in FirstOf(rows, n) : Rank(m, rows) \in 0..(n - 1)
    BY RankIsCount DEF FirstOf
  <2>3. ASSUME NEW k \in 0..(n - 1) PROVE \E m \in FirstOf(rows, n) : Rank(m, rows) = k
    <3>1. PICK m \in rows : Rank(m, rows) = k
      BY <1>4, <2>1, RanksAreTaken
    <3>. QED
      BY <3>1 DEF FirstOf
  <2>4. ranks \in Surjection(FirstOf(rows, n), 0..(n - 1))
    BY <2>2, <2>3 DEF Surjection
  <2>5. Cardinality(0..(n - 1)) = n
    BY FS_Interval
  <2>. QED
    BY <1>2, <2>4, <2>5, FS_Surjection
<1>5. ASSUME NEW m \in rows \ FirstOf(rows, n), NEW x \in FirstOf(rows, n)
      PROVE  Ahead(x, m)
  <2>1. Rank(x, rows) < n /\ ~(Rank(m, rows) < n) /\ x \in rows
    BY DEF FirstOf
  <2>2. Rank(x, rows) \in Nat /\ Rank(m, rows) \in Nat
    BY RankIsCount
  <2>3. Rank(x, rows) < Rank(m, rows)
    BY <2>1, <2>2
  <2>. QED
    BY <2>1, <2>3, RankDecides
<1>. QED
  BY <1>1, <1>2, <1>3, <1>4, <1>5

\* A sorted page: its rows, each once, in order.
LEMMA Sorted ==
    ASSUME direction \in {1, -1},
           NEW rows \in SUBSET Moves, IsFiniteSet(rows)
    PROVE  /\ InOrder(rows) \in Seq(rows) /\ Len(InOrder(rows)) = Cardinality(rows)
           /\ \A i, j \in 1..Cardinality(rows) :
                i < j => Ahead(InOrder(rows)[i], InOrder(rows)[j])
           /\ \A m \in rows : \E i \in 1..Cardinality(rows) : InOrder(rows)[i] = m
<1>. DEFINE n == Cardinality(rows)
<1>1. n \in Nat
  BY FS_CardinalityType
<1>2. ASSUME NEW i \in 1..n
      PROVE  InOrder(rows)[i] \in rows /\ Rank(InOrder(rows)[i], rows) = i - 1
  <2>1. \E m \in rows : Rank(m, rows) = i - 1
    BY <1>1, RanksAreTaken
  <2>2. InOrder(rows)[i] = CHOOSE m \in rows : Rank(m, rows) = i - 1
    BY DEF InOrder
  <2>. QED
    BY <2>1, <2>2
<1>3. InOrder(rows) \in Seq(rows) /\ Len(InOrder(rows)) = n
  <2>1. InOrder(rows) \in [1..n -> rows]
    BY <1>2 DEF InOrder
  <2>. QED
    BY <1>1, <2>1
<1>4. ASSUME NEW i \in 1..n, NEW j \in 1..n, i < j
      PROVE  Ahead(InOrder(rows)[i], InOrder(rows)[j])
  <2>1. i - 1 < j - 1
    BY <1>1, <1>4
  <2>. QED
    BY <1>2, <2>1, RankDecides
<1>5. ASSUME NEW m \in rows PROVE \E i \in 1..n : InOrder(rows)[i] = m
  <2>1. Rank(m, rows) \in Nat /\ Rank(m, rows) < n
    BY RankIsCount, RankInRange
  <2>2. Rank(m, rows) + 1 \in 1..n
    BY <1>1, <2>1
  <2>3. /\ InOrder(rows)[Rank(m, rows) + 1] \in rows
        /\ Rank(InOrder(rows)[Rank(m, rows) + 1], rows) = Rank(m, rows)
    BY <1>2, <2>1, <2>2
  <2>. QED
    BY <2>2, <2>3, RankDecides
<1>. QED
  BY <1>3, <1>4, <1>5

-------------------------------------------------------------------------------
(* The invariant of the paging. *)

Sent == {shown[i] : i \in DOMAIN shown}

FeedTypes ==
    /\ table \in [Sources -> SUBSET Moves]
    /\ \A s \in Sources : IsFiniteSet(table[s])
    /\ first \subseteq UNION {table[s] : s \in Sources}
    /\ direction \in {1, -1}
    /\ cursor \in Moves \cup {Beginning}
    /\ pages \in [Sources -> SUBSET Moves]
    /\ asked \subseteq Sources
    /\ shown \in Seq(Moves)
    /\ over \in BOOLEAN

\* What was sent is in order, and ends with the cursor.
SentInOrder ==
    /\ \A i, j \in 1..Len(shown) : i < j => Ahead(shown[i], shown[j])
    /\ ~over => \A i \in 1..Len(shown) :
                  cursor # Beginning /\ (shown[i] = cursor \/ Ahead(shown[i], cursor))

\* A row that was there at the start has been sent, or is still to come; at the end all
\* have been sent.
NothingSkipped == \A m \in first : m \in Sent \/ (~over /\ After(m))

\* What a source answered is after the cursor, and of the first rows nothing is left out
\* that more than a page of its answer does not precede.
AnswersAgree ==
    \A s \in Sources :
        /\ IsFiniteSet(pages[s])
        /\ \A x \in pages[s] : After(x)
        /\ s \in asked => \A m \in first \cap table[s] :
              After(m) => \/ m \in pages[s]
                          \/ /\ Cardinality(pages[s]) > Limit
                             /\ \A x \in pages[s] : Ahead(x, m)

FeedInv == FeedTypes /\ SentInOrder /\ NothingSkipped /\ (~over => AnswersAgree)

\* Nothing was sent at the start, and every row is still to come.
LEMMA FeedInvInit == FeedInit => FeedInv
<1>. SUFFICES ASSUME FeedInit PROVE FeedInv
  OBVIOUS
<1>1. FeedTypes
  <2>1. /\ table \in [Sources -> SUBSET Moves] /\ \A s \in Sources : IsFiniteSet(table[s])
        /\ first \subseteq UNION {table[s] : s \in Sources} /\ direction \in {1, -1}
    BY DEF FeedInit, Filled
  <2>2. cursor \in Moves \cup {Beginning} /\ asked \subseteq Sources /\ over \in BOOLEAN
    BY DEF FeedInit
  <2>3. pages \in [Sources -> SUBSET Moves]
    BY DEF FeedInit
  <2>4. shown \in Seq(Moves)
    BY DEF FeedInit
  <2>. QED
    BY <2>1, <2>2, <2>3, <2>4 DEF FeedTypes
<1>2. SentInOrder /\ NothingSkipped
  BY DEF FeedInit, SentInOrder, NothingSkipped, After
<1>3. AnswersAgree
  BY FS_EmptySet DEF FeedInit, AnswersAgree
<1>. QED
  BY <1>1, <1>2, <1>3 DEF FeedInv

\* One source answers: the rows it leaves out come after more than a page of those it sends.
LEMMA AnswerStep ==
    ASSUME FeedInv, NEW s \in Sources, Answer(s)
    PROVE  FeedInv'
<1>. DEFINE rows == {m \in table[s] : After(m)}
            page == FirstOf(rows, Limit + 1)
<1>. USE DEF FeedInv
<1>1. /\ ~over /\ UNCHANGED <<table, first, direction, cursor, shown, over>>
      /\ pages' = [pages EXCEPT ![s] = page] /\ asked' = asked \cup {s}
  BY DEF Answer
<1>2. rows \in SUBSET Moves /\ IsFiniteSet(rows) /\ Limit + 1 \in Nat /\ direction \in {1, -1}
  <2>1. rows \in SUBSET table[s] /\ IsFiniteSet(table[s])
    BY DEF FeedTypes
  <2>. QED
    BY <2>1, FS_Subset, FeedAssumption DEF FeedTypes
<1>3. /\ page \in SUBSET rows /\ IsFiniteSet(page)
      /\ Cardinality(rows) <= Limit + 1 => page = rows
      /\ Cardinality(rows) >= Limit + 1 => Cardinality(page) >= Limit + 1
      /\ \A m \in rows \ page, x \in page : Ahead(x, m)
  BY <1>2, FirstRows
<1>4. FeedTypes'
  BY <1>1, <1>2, <1>3 DEF FeedTypes
<1>5. SentInOrder' /\ NothingSkipped'
  BY <1>1 DEF SentInOrder, NothingSkipped, Sent, After, Ahead
<1>6. Cardinality(page) \in Nat /\ Cardinality(rows) \in Nat /\ Limit \in Nat
  BY <1>2, <1>3, FS_CardinalityType, FeedAssumption
<1>7. ASSUME NEW m \in rows, m \notin page
      PROVE  Cardinality(page) > Limit /\ \A x \in page : Ahead(x, m)
  BY <1>3, <1>6, <1>7
<1>8. ASSUME NEW z \in Sources
      PROVE  /\ IsFiniteSet(pages'[z])
             /\ \A x \in pages'[z] : After(x)
             /\ z \in asked' => \A m \in first \cap table[z] :
                   After(m) => \/ m \in pages'[z]
                               \/ /\ Cardinality(pages'[z]) > Limit
                                  /\ \A x \in pages'[z] : Ahead(x, m)
  <2>1. CASE z = s
    <3>1. pages'[z] = page
      BY <1>1, <2>1 DEF FeedTypes
    <3>. QED
      BY <1>3, <1>7, <2>1, <3>1
  <2>2. CASE z # s
    <3>1. pages'[z] = pages[z] /\ (z \in asked' => z \in asked)
      BY <1>1, <2>2 DEF FeedTypes
    <3>. QED
      BY <1>1, <3>1 DEF AnswersAgree
  <2>. QED
    BY <2>1, <2>2
<1>9. AnswersAgree'
  BY <1>1, <1>8 DEF AnswersAgree, After, Ahead
<1>. QED
  BY <1>4, <1>5, <1>9

\* A new row is not one of those that were there at the start.
LEMMA GrowStep ==
    ASSUME FeedInv, NEW s \in Sources, NEW m \in Moves, Grow(s, m)
    PROVE  FeedInv'
<1>. USE DEF FeedInv
<1>1. /\ UNCHANGED <<first, direction, cursor, pages, asked, shown, over>>
      /\ table' = [table EXCEPT ![s] = @ \cup {m}]
      /\ \A z \in Sources : \A x \in table[z] : x.id # m.id
  BY DEF Grow
<1>2. m \notin first
  BY <1>1 DEF FeedTypes
<1>3. IsFiniteSet(table[s] \cup {m})
  BY FS_AddElement DEF FeedTypes
<1>4. \A z \in Sources : /\ table'[z] \in SUBSET Moves /\ IsFiniteSet(table'[z])
                         /\ table[z] \subseteq table'[z]
                         /\ table'[z] \subseteq table[z] \cup {m}
  BY <1>1, <1>3 DEF FeedTypes
<1>5. FeedTypes'
  <2>1. table' \in [Sources -> SUBSET Moves] /\ \A z \in Sources : IsFiniteSet(table'[z])
    BY <1>1, <1>4 DEF FeedTypes
  <2>2. ASSUME NEW x \in first PROVE x \in UNION {table'[z] : z \in Sources}
    <3>1. PICK z \in Sources : x \in table[z]
      BY DEF FeedTypes
    <3>. QED
      BY <1>4, <3>1
  <2>. QED
    BY <1>1, <2>1, <2>2 DEF FeedTypes
<1>6. SentInOrder' /\ NothingSkipped'
  BY <1>1 DEF SentInOrder, NothingSkipped, Sent, After, Ahead
<1>7. AnswersAgree' \/ over
  BY <1>1, <1>2, <1>4 DEF AnswersAgree, After, Ahead
<1>. QED
  BY <1>1, <1>5, <1>6, <1>7

-------------------------------------------------------------------------------
(* The merge. *)

All == UNION {pages[s] : s \in Sources}

\* The answers of finitely many sources are finitely many rows.
LEMMA AllIsFinite ==
    ASSUME FeedInv, ~over
    PROVE  All \in SUBSET Moves /\ IsFiniteSet(All)
<1>. DEFINE sets == {pages[s] : s \in Sources}
            which == [s \in Sources |-> pages[s]]
<1>1. which \in Surjection(Sources, sets)
  BY DEF Surjection
<1>2. IsFiniteSet(sets)
  BY <1>1, FS_Surjection, FeedAssumption
<1>3. \A z \in sets : IsFiniteSet(z)
  BY DEF FeedInv, AnswersAgree
<1>4. IsFiniteSet(UNION sets)
  BY <1>2, <1>3, FS_UNION
<1>. QED
  BY <1>4 DEF All, FeedInv, FeedTypes

\* The page and the cursor that a merge sends.
Page == InOrder(FirstOf(All, Limit))

\* A page is in order, and every row of the answers is on it or after all of it.
LEMMA PageSent ==
    ASSUME FeedInv, ~over
    PROVE  /\ Page \in Seq(All)
           /\ \A i, j \in 1..Len(Page) : i < j => Ahead(Page[i], Page[j])
           /\ \A m \in All : \/ \E i \in 1..Len(Page) : Page[i] = m
                             \/ \A i \in 1..Len(Page) : Ahead(Page[i], m)
           /\ Cardinality(All) <= Limit => \A m \in All : \E i \in 1..Len(Page) : Page[i] = m
           /\ Cardinality(All) > Limit => Len(Page) > 0
           /\ \A i \in 1..Len(Page) : Rank(Page[i], All) < Limit
<1>. DEFINE rows == FirstOf(All, Limit)
<1>1. /\ All \in SUBSET Moves /\ IsFiniteSet(All) /\ direction \in {1, -1}
      /\ Limit \in Nat /\ Limit >= 1 /\ Cardinality(All) \in Nat
  BY AllIsFinite, FeedAssumption, FS_CardinalityType DEF FeedInv, FeedTypes
<1>2. /\ rows \in SUBSET All /\ IsFiniteSet(rows)
      /\ Cardinality(All) <= Limit => rows = All
      /\ Cardinality(All) >= Limit => Cardinality(rows) >= Limit
      /\ \A m \in All \ rows, x \in rows : Ahead(x, m)
  BY <1>1, FirstRows
<1>3. /\ Page \in Seq(rows) /\ Len(Page) = Cardinality(rows)
      /\ \A i, j \in 1..Cardinality(rows) : i < j => Ahead(Page[i], Page[j])
      /\ \A m \in rows : \E i \in 1..Cardinality(rows) : Page[i] = m
  BY <1>1, <1>2, Sorted DEF Page
<1>4. \A i \in 1..Len(Page) : Page[i] \in rows
  BY <1>3
<1>5. Page \in Seq(All)
  BY <1>2, <1>3
<1>6. \A i \in 1..Len(Page) : Rank(Page[i], All) < Limit
  BY <1>4 DEF FirstOf
<1>7. Cardinality(rows) \in Nat
  BY <1>2, FS_CardinalityType
<1>8. Cardinality(All) > Limit => Len(Page) > 0
  BY <1>1, <1>2, <1>3, <1>7
<1>9. \A m \in All : \/ \E i \in 1..Len(Page) : Page[i] = m
                     \/ \A i \in 1..Len(Page) : Ahead(Page[i], m)
  BY <1>2, <1>3, <1>4
<1>10. Cardinality(All) <= Limit => \A m \in All : \E i \in 1..Len(Page) : Page[i] = m
  BY <1>2, <1>3
<1>. QED
  BY <1>3, <1>5, <1>6, <1>8, <1>9, <1>10

\* A page is sent and, unless it was the last, the cursor moves to its last row.
LEMMA MergeStep ==
    ASSUME FeedInv, Merge
    PROVE  FeedInv'
<1>1. /\ ~over /\ asked = Sources
      /\ shown' = shown \o Page
      /\ over' = (Cardinality(All) <= Limit)
      /\ cursor' = IF over' THEN cursor ELSE Page[Len(Page)]
      /\ pages' = [s \in Sources |-> {}] /\ asked' = {}
      /\ UNCHANGED <<table, first, direction>>
  BY DEF Merge, All, Page
<1>2. /\ Page \in Seq(All)
      /\ \A i, j \in 1..Len(Page) : i < j => Ahead(Page[i], Page[j])
      /\ \A m \in All : \/ \E i \in 1..Len(Page) : Page[i] = m
                        \/ \A i \in 1..Len(Page) : Ahead(Page[i], m)
      /\ Cardinality(All) <= Limit => \A m \in All : \E i \in 1..Len(Page) : Page[i] = m
      /\ Cardinality(All) > Limit => Len(Page) > 0
      /\ \A i \in 1..Len(Page) : Rank(Page[i], All) < Limit
  BY <1>1, PageSent
<1>3. All \in SUBSET Moves /\ IsFiniteSet(All) /\ direction \in {1, -1}
  BY <1>1, AllIsFinite DEF FeedInv, FeedTypes
<1>4. Limit \in Nat /\ Cardinality(All) \in Nat
  BY <1>3, FS_CardinalityType, FeedAssumption
<1>5. shown \in Seq(Moves) /\ Page \in Seq(Moves)
  BY <1>2, <1>3 DEF FeedInv, FeedTypes
<1>6. /\ Len(shown) \in Nat /\ Len(Page) \in Nat /\ Len(shown') = Len(shown) + Len(Page)
      /\ \A i \in 1..Len(shown) : shown'[i] = shown[i] /\ shown[i] \in Moves
      /\ \A i \in 1..Len(Page) : shown'[Len(shown) + i] = Page[i] /\ Page[i] \in All
      /\ DOMAIN shown = 1..Len(shown) /\ DOMAIN shown' = 1..(Len(shown) + Len(Page))
      /\ shown' \in Seq(Moves)
  BY <1>1, <1>2, <1>5
<1>7. \A m \in All : After(m)
  BY <1>1 DEF All, FeedInv, AnswersAgree
<1>8. \A i \in 1..Len(shown), m \in All : Ahead(shown[i], m)
  <2>. SUFFICES ASSUME NEW i \in 1..Len(shown), NEW m \in All PROVE Ahead(shown[i], m)
    OBVIOUS
  <2>1. cursor # Beginning /\ (shown[i] = cursor \/ Ahead(shown[i], cursor))
    BY <1>1 DEF FeedInv, SentInOrder
  <2>2. Ahead(cursor, m) /\ cursor \in Moves /\ m \in Moves /\ shown[i] \in Moves
    BY <1>3, <1>6, <1>7, <2>1 DEF After, Ahead, FeedInv, FeedTypes
  <2>. QED
    BY <1>3, <2>1, <2>2, StrictOrder
<1>9. \A i, j \in 1..Len(shown') : i < j => Ahead(shown'[i], shown'[j])
  <2>. SUFFICES ASSUME NEW i \in 1..Len(shown'), NEW j \in 1..Len(shown'), i < j
                PROVE  Ahead(shown'[i], shown'[j])
    OBVIOUS
  <2>1. CASE j <= Len(shown)
    <3>1. i \in 1..Len(shown) /\ j \in 1..Len(shown)
      BY <1>6, <2>1
    <3>. QED
      BY <1>6, <3>1 DEF FeedInv, SentInOrder
  <2>2. CASE j > Len(shown) /\ i <= Len(shown)
    <3>1. i \in 1..Len(shown) /\ j - Len(shown) \in 1..Len(Page)
          /\ j = Len(shown) + (j - Len(shown))
      BY <1>6, <2>2
    <3>. QED
      BY <1>6, <1>8, <3>1
  <2>3. CASE i > Len(shown)
    <3>1. /\ i - Len(shown) \in 1..Len(Page) /\ i = Len(shown) + (i - Len(shown))
          /\ j - Len(shown) \in 1..Len(Page) /\ j = Len(shown) + (j - Len(shown))
          /\ i - Len(shown) < j - Len(shown)
      BY <1>6, <2>3
    <3>. QED
      BY <1>2, <1>6, <3>1
  <2>. QED
    BY <1>6, <2>1, <2>2, <2>3
<1>10. ASSUME ~over'
       PROVE  /\ cursor' \in All /\ cursor' # Beginning /\ Rank(cursor', All) < Limit
              /\ \A i \in 1..Len(shown') : shown'[i] = cursor' \/ Ahead(shown'[i], cursor')
              /\ Cardinality(All) > Limit
              /\ \A m \in All : (\E i \in 1..Len(Page) : Page[i] = m) \/ Ahead(cursor', m)
  <2>1. Cardinality(All) > Limit /\ Len(Page) \in 1..Len(Page) /\ cursor' = Page[Len(Page)]
    <3>1. ~(Cardinality(All) <= Limit) /\ cursor' = Page[Len(Page)]
      BY <1>1, <1>10, Zenon
    <3>2. Cardinality(All) > Limit
      BY <1>4, <3>1
    <3>3. Len(Page) > 0
      BY <1>2, <3>2
    <3>. QED
      BY <1>6, <3>1, <3>2, <3>3
  <2>2. cursor' \in All /\ Rank(cursor', All) < Limit
    BY <1>2, <1>6, <2>1
  <2>3. cursor' # Beginning
    BY <1>3, <2>2 DEF Moves, Beginning, Ids
  <2>4. ASSUME NEW i \in 1..Len(shown')
        PROVE  shown'[i] = cursor' \/ Ahead(shown'[i], cursor')
    <3>1. CASE i = Len(shown')
      BY <1>6, <2>1, <3>1
    <3>2. CASE i # Len(shown')
      <4>1. Len(shown') \in 1..Len(shown') /\ i < Len(shown')
        BY <1>6, <2>1, <3>2
      <4>2. cursor' = shown'[Len(shown')]
        BY <1>6, <2>1
      <4>. QED
        BY <1>9, <4>1, <4>2
    <3>. QED
      BY <3>1, <3>2
  <2>. QED
    BY <1>2, <2>1, <2>2, <2>3, <2>4
<1>11. \A m \in Moves : m \in Sent \/ (\E i \in 1..Len(Page) : Page[i] = m) => m \in Sent'
  <2>. SUFFICES ASSUME NEW m \in Moves, m \in Sent \/ \E i \in 1..Len(Page) : Page[i] = m
                PROVE  m \in Sent'
    OBVIOUS
  <2>1. CASE m \in Sent
    <3>1. PICK i \in 1..Len(shown) : shown[i] = m
      BY <1>6, <2>1 DEF Sent
    <3>2. i \in DOMAIN shown' /\ shown'[i] = m
      BY <1>6, <3>1
    <3>. QED
      BY <3>2 DEF Sent
  <2>2. CASE \E i \in 1..Len(Page) : Page[i] = m
    <3>1. PICK i \in 1..Len(Page) : Page[i] = m
      BY <2>2
    <3>2. Len(shown) + i \in DOMAIN shown' /\ shown'[Len(shown) + i] = m
      BY <1>6, <3>1
    <3>. QED
      BY <3>2 DEF Sent
  <2>. QED
    BY <2>1, <2>2
<1>12. NothingSkipped'
  <2>. SUFFICES ASSUME NEW m \in first, m \notin Sent' PROVE ~over' /\ After(m)'
    BY <1>1 DEF NothingSkipped
  <2>1. PICK s \in Sources : m \in table[s]
    BY DEF FeedInv, FeedTypes
  <2>2. m \in Moves
    BY <2>1 DEF FeedInv, FeedTypes
  <2>3. m \notin Sent /\ ~\E i \in 1..Len(Page) : Page[i] = m
    BY <1>11, <2>2
  <2>4. /\ pages[s] \in SUBSET All /\ IsFiniteSet(pages[s])
        /\ \/ m \in pages[s]
           \/ Cardinality(pages[s]) > Limit /\ \A x \in pages[s] : Ahead(x, m)
    BY <1>1, <2>1, <2>3 DEF FeedInv, NothingSkipped, AnswersAgree, All
  <2>5. CASE m \in pages[s]
    <3>1. ~over'
      BY <1>1, <1>2, <2>3, <2>4, <2>5
    <3>2. Ahead(cursor', m)
      BY <1>10, <2>3, <2>4, <2>5, <3>1
    <3>. QED
      BY <1>1, <3>1, <3>2 DEF After, Ahead
  <2>6. CASE Cardinality(pages[s]) > Limit /\ \A x \in pages[s] : Ahead(x, m)
    <3>1. Cardinality(pages[s]) \in Nat /\ Cardinality(pages[s]) <= Cardinality(All)
      BY <1>3, <2>4, FS_Subset, FS_CardinalityType
    <3>2. ~over'
      <4>1. ~(Cardinality(All) <= Limit)
        BY <1>4, <2>6, <3>1
      <4>. QED
        BY <1>1, <4>1, Zenon
    <3>3. ASSUME ~Ahead(cursor', m) PROVE FALSE
      <4>1. cursor' \in Moves /\ (cursor' = m \/ Ahead(m, cursor'))
        BY <1>3, <1>10, <2>2, <3>2, <3>3, StrictOrder
      <4>2. \A x \in pages[s] : Ahead(x, cursor')
        BY <1>3, <2>2, <2>4, <2>6, <4>1, StrictOrder
      <4>3. pages[s] \in SUBSET Less(cursor', All)
        BY <2>4, <4>2 DEF Less
      <4>4. /\ IsFiniteSet(Less(cursor', All)) /\ Rank(cursor', All) \in Nat
            /\ Rank(cursor', All) = Cardinality(Less(cursor', All))
        BY <1>3, RankIsCount
      <4>5. Cardinality(pages[s]) <= Rank(cursor', All)
        BY <4>3, <4>4, FS_Subset
      <4>. QED
        BY <1>4, <1>10, <2>6, <3>1, <3>2, <4>4, <4>5
    <3>. QED
      BY <1>1, <3>2, <3>3 DEF After, Ahead
  <2>. QED
    BY <2>4, <2>5, <2>6
<1>13. SentInOrder'
  BY <1>1, <1>9, <1>10 DEF SentInOrder, Ahead
<1>14. FeedTypes'
  <2>1. cursor' \in Moves \cup {Beginning} /\ over' \in BOOLEAN
    BY <1>1, <1>3, <1>10 DEF FeedInv, FeedTypes
  <2>2. pages' \in [Sources -> SUBSET Moves] /\ asked' \subseteq Sources
    BY <1>1
  <2>. QED
    BY <1>1, <1>6, <2>1, <2>2 DEF FeedInv, FeedTypes
<1>15. AnswersAgree'
  BY <1>1, FS_EmptySet DEF AnswersAgree
<1>. QED
  BY <1>12, <1>13, <1>14, <1>15 DEF FeedInv

\* Paging loses no row and repeats none, for any sources, sort keys and page size: the
\* merge of the sources' answers, each with one row too many, and the keyset cursor.
THEOREM PagingIsComplete == FeedSpec => []FeedLosesNothing
<1>1. FeedInv /\ [FeedNext]_feedVars => FeedInv'
  <2>. SUFFICES ASSUME FeedInv, [FeedNext]_feedVars PROVE FeedInv'
    OBVIOUS
  <2>1. CASE UNCHANGED feedVars
    BY <2>1 DEF feedVars, FeedInv, FeedTypes, SentInOrder, NothingSkipped, AnswersAgree, Sent,
                After, Ahead
  <2>. QED
    BY <2>1, AnswerStep, GrowStep, MergeStep DEF FeedNext
<1>2. FeedInv => FeedLosesNothing
  <2>. SUFFICES ASSUME FeedInv PROVE FeedLosesNothing
    OBVIOUS
  <2>1. DOMAIN shown = 1..Len(shown)
    BY DEF FeedInv, FeedTypes
  <2>. QED
    BY <2>1 DEF FeedInv, FeedLosesNothing, SentInOrder, NothingSkipped, Sent, Ahead
<1>. QED
  BY <1>1, <1>2, FeedInvInit, PTL DEF FeedSpec

-------------------------------------------------------------------------------
(* Statements. *)

\* Induction up to a bound, over a set: the first number outside it would be the successor
\* of one inside.
LEMMA UpTo ==
    ASSUME NEW top \in Nat, NEW holds, 0 \in holds,
           \A n \in 1..top : n - 1 \in holds => n \in holds
    PROVE  \A n \in 0..top : n \in holds
<1>. SUFFICES ASSUME NEW n \in 0..top, n \notin holds PROVE FALSE
  OBVIOUS
<1>. DEFINE out   == {k \in 0..top : k \notin holds}
            downs == {0..k : k \in out}
<1>1. \A k \in out : 0..k \in SUBSET (0..top) /\ IsFiniteSet(0..k)
  BY FS_Interval
<1>2. downs \subseteq FiniteSubsetsOf(0..top) /\ downs # {}
  BY <1>1 DEF FiniteSubsetsOf
<1>3. PICK low \in downs : \A d \in downs : <<d, low>> \notin StrictSubsetOrdering(0..top)
  <2>. HIDE DEF downs
  <2>. QED
    BY <1>2, FS_StrictSubsetOrderingWellFounded, WFMin
<1>4. PICK least \in out : low = 0..least
  OBVIOUS
<1>5. least \in 1..top /\ least - 1 \in 0..top /\ least \notin holds
  <2>1. least \in 0..top /\ least \notin holds
    OBVIOUS
  <2>. QED
    BY <2>1
<1>6. <<0..(least - 1), 0..least>> \in StrictSubsetOrdering(0..top)
  <2>1. 0..(least - 1) \in SUBSET (0..top) /\ 0..least \in SUBSET (0..top)
    BY <1>5
  <2>2. 0..(least - 1) \subseteq 0..least /\ 0..(least - 1) # 0..least
    BY <1>5
  <2>. QED
    BY <2>1, <2>2 DEF StrictSubsetOrdering
<1>7. least - 1 \notin out
  BY <1>3, <1>4, <1>6
<1>. QED
  BY <1>5, <1>7

-------------------------------------------------------------------------------
(* What Total computes. *)

Amounts == [Lines -> Int]

\* g adds the shares of the first k lines up, line by line.
AddsUpTo(k, g, shares) ==
    /\ g \in [0..k -> Int]
    /\ g[0] = 0
    /\ \A n \in 1..k : g[n] = g[n - 1] + shares[n]

AddsUp(g, shares) == AddsUpTo(LastLine, g, shares)

\* The body of Total's recursive function.
Step(g, shares) == [n \in 0..LastLine |-> IF n = 0 THEN 0 ELSE g[n - 1] + shares[n]]

\* What one unfolding of the sum's equation says.
LEMMA StepIs ==
    ASSUME NEW shares, NEW g
    PROVE  /\ DOMAIN Step(g, shares) = 0..LastLine
           /\ Step(g, shares)[0] = 0
           /\ \A n \in 1..LastLine : Step(g, shares)[n] = g[n - 1] + shares[n]
<1>1. LastLine \in Nat
  BY StatementAssumption
<1>2. DOMAIN Step(g, shares) = 0..LastLine
  BY DEF Step
<1>3. Step(g, shares)[0] = 0
  BY <1>1 DEF Step
<1>4. ASSUME NEW n \in 1..LastLine PROVE Step(g, shares)[n] = g[n - 1] + shares[n]
  <2>1. n \in 0..LastLine /\ n # 0
    BY <1>1
  <2>. QED
    BY <2>1 DEF Step
<1>. QED
  BY <1>2, <1>3, <1>4

\* One unfolding is a function of the line numbers.
LEMMA StepIsFunction ==
    ASSUME NEW shares, NEW g, \A n \in 0..LastLine : Step(g, shares)[n] \in Int
    PROVE  Step(g, shares) \in [0..LastLine -> Int]
  BY DEF Step

\* g satisfies the function's equation.
Solves(g, shares) == g = Step(g, shares)

\* What satisfies it adds the shares up.
LEMMA Equation ==
    ASSUME NEW shares \in Amounts, NEW g, Solves(g, shares)
    PROVE  AddsUp(g, shares)
<1>0. LastLine \in Nat
  BY StatementAssumption
<1>1. \A n \in 0..LastLine : g[n] = Step(g, shares)[n]
  BY Zenon DEF Solves
<1>2. g[0] = 0 /\ \A n \in 1..LastLine : g[n] = g[n - 1] + shares[n]
  BY <1>0, <1>1, StepIs
<1>. DEFINE holds == {n \in 0..LastLine : g[n] \in Int}
<1>3. 0 \in holds
  BY <1>0, <1>2
<1>4. ASSUME NEW n \in 1..LastLine, n - 1 \in holds PROVE n \in holds
  BY <1>0, <1>2, <1>4 DEF Amounts, Lines
<1>5. \A n \in 0..LastLine : n \in holds
  <2>. HIDE DEF holds
  <2>. QED
    BY <1>0, <1>3, <1>4, UpTo
<1>6. \A n \in 0..LastLine : Step(g, shares)[n] \in Int
  BY <1>1, <1>5
<1>7. Step(g, shares) \in [0..LastLine -> Int]
  BY <1>6, StepIsFunction
<1>8. g \in [0..LastLine -> Int]
  BY <1>7, Zenon DEF Solves
<1>. QED
  BY <1>2, <1>8 DEF AddsUp, AddsUpTo

\* One more line can be added up.
LEMMA OneMoreLine ==
    ASSUME NEW shares \in Amounts, NEW k \in 1..LastLine, NEW g, AddsUpTo(k - 1, g, shares)
    PROVE  \E h : AddsUpTo(k, h, shares)
<1>. DEFINE h == [n \in 0..k |-> IF n = k THEN g[k - 1] + shares[k] ELSE g[n]]
<1>1. shares[k] \in Int /\ k \in Nat /\ k # 0
  BY StatementAssumption DEF Amounts, Lines
<1>0. \A n \in 0..(k - 1) : g[n] \in Int
  BY <1>1 DEF AddsUpTo
<1>2. \A n \in 0..(k - 1) : h[n] = g[n]
  BY <1>1
<1>3. h[k] = g[k - 1] + shares[k]
  BY <1>1
<1>4. h \in [0..k -> Int]
  <2>1. g[k - 1] \in Int
    BY <1>1 DEF AddsUpTo
  <2>2. \A n \in 0..k : n = k \/ n \in 0..(k - 1)
    BY <1>1
  <2>3. \A n \in 0..k : (IF n = k THEN g[k - 1] + shares[k] ELSE g[n]) \in Int
    BY <1>0, <1>1, <2>1, <2>2
  <2>. QED
    BY <2>3
<1>5. h[0] = 0
  BY <1>1, <1>2 DEF AddsUpTo
<1>6. ASSUME NEW n \in 1..k PROVE h[n] = h[n - 1] + shares[n]
  <2>. HIDE DEF h
  <2>1. CASE n = k
    BY <1>1, <1>2, <1>3, <2>1
  <2>2. CASE n # k
    <3>1. n \in 1..(k - 1) /\ n \in 0..(k - 1) /\ n - 1 \in 0..(k - 1)
      BY <1>1, <2>2
    <3>. QED
      BY <1>2, <3>1 DEF AddsUpTo
  <2>. QED
    BY <2>1, <2>2
<1>7. AddsUpTo(k, h, shares)
  <2>. HIDE DEF h
  <2>. QED
    BY <1>4, <1>5, <1>6 DEF AddsUpTo
<1>. QED
  BY <1>7

\* So all lines can, and the function's equation has a solution.
LEMMA EquationHolds ==
    ASSUME NEW shares \in Amounts
    PROVE  \E g : Solves(g, shares)
<1>0. LastLine \in Nat
  BY StatementAssumption
<1>. DEFINE holds == {k \in 0..LastLine : \E g : AddsUpTo(k, g, shares)}
<1>1. 0 \in holds
  <2>1. AddsUpTo(0, [n \in 0..0 |-> 0], shares)
    BY DEF AddsUpTo
  <2>. QED
    BY <1>0, <2>1
<1>2. ASSUME NEW k \in 1..LastLine, k - 1 \in holds PROVE k \in holds
  BY <1>0, <1>2, OneMoreLine
<1>3. \A n \in 0..LastLine : n \in holds
  <2>. HIDE DEF holds
  <2>. QED
    BY <1>0, <1>1, <1>2, UpTo
<1>4. PICK g : AddsUpTo(LastLine, g, shares)
  BY <1>0, <1>3
<1>5. g = [n \in 0..LastLine |-> g[n]]
  BY <1>4 DEF AddsUpTo
<1>6. \A n \in 0..LastLine : g[n] = Step(g, shares)[n]
  BY <1>0, <1>4 DEF AddsUpTo, Step
<1>7. Step(g, shares) = [n \in 0..LastLine |-> Step(g, shares)[n]]
  BY DEF Step
<1>8. Solves(g, shares)
  BY <1>5, <1>6, <1>7, Zenon DEF Solves
<1>. QED
  BY <1>8

\* No two functions add the same shares up differently.
LEMMA OneSum ==
    ASSUME NEW shares, NEW g, NEW h, AddsUp(g, shares), AddsUp(h, shares)
    PROVE  g[LastLine] = h[LastLine]
<1>0. LastLine \in Nat
  BY StatementAssumption
<1>. DEFINE holds == {n \in 0..LastLine : g[n] = h[n]}
<1>1. 0 \in holds
  BY <1>0 DEF AddsUp, AddsUpTo
<1>2. ASSUME NEW n \in 1..LastLine, n - 1 \in holds PROVE n \in holds
  BY <1>0, <1>2 DEF AddsUp, AddsUpTo
<1>3. \A n \in 0..LastLine : n \in holds
  <2>. HIDE DEF holds
  <2>. QED
    BY <1>0, <1>1, <1>2, UpTo
<1>. QED
  BY <1>0, <1>3

\* Total is where any function that adds the shares up ends.
LEMMA TotalIs ==
    ASSUME NEW shares \in Amounts, NEW g, AddsUp(g, shares)
    PROVE  Total(shares) = g[LastLine]
<1>. DEFINE sum == CHOOSE s : s = Step(s, shares)
<1>1. Solves(sum, shares)
  BY EquationHolds, Zenon DEF Solves
<1>2. Total(shares) = sum[LastLine]
  BY DEF Total, Step
<1>. HIDE DEF sum
<1>3. AddsUp(sum, shares)
  BY <1>1, Equation
<1>. QED
  BY <1>2, <1>3, OneSum

\* And there is one.
LEMMA TotalHasSum ==
    ASSUME NEW shares \in Amounts
    PROVE  \E g : AddsUp(g, shares) /\ Total(shares) = g[LastLine]
<1>1. PICK g : Solves(g, shares)
  BY EquationHolds
<1>2. AddsUp(g, shares)
  BY <1>1, Equation
<1>. QED
  BY <1>2, TotalIs

\* A total of whole numbers is one.
LEMMA TotalType ==
    ASSUME NEW shares \in Amounts
    PROVE  Total(shares) \in Int
<1>1. PICK g : AddsUp(g, shares) /\ Total(shares) = g[LastLine]
  BY TotalHasSum
<1>. QED
  BY <1>1, StatementAssumption DEF AddsUp, AddsUpTo

\* Nothing adds up to nothing.
LEMMA TotalOfNothing ==
    ASSUME NEW shares \in Amounts, \A i \in Lines : shares[i] = 0
    PROVE  Total(shares) = 0
<1>1. AddsUp([n \in 0..LastLine |-> 0], shares)
  BY StatementAssumption DEF AddsUp, AddsUpTo, Lines
<1>. QED
  BY <1>1, StatementAssumption, TotalIs

\* Larger shares have the larger total.
LEMMA TotalGrows ==
    ASSUME NEW a \in Amounts, NEW b \in Amounts, \A i \in Lines : a[i] <= b[i]
    PROVE  Total(a) <= Total(b)
<1>0. LastLine \in Nat
  BY StatementAssumption
<1>1. PICK g : AddsUp(g, a) /\ Total(a) = g[LastLine]
  BY TotalHasSum
<1>2. PICK h : AddsUp(h, b) /\ Total(b) = h[LastLine]
  BY TotalHasSum
<1>. DEFINE holds == {n \in 0..LastLine : g[n] <= h[n]}
<1>3. 0 \in holds
  BY <1>0, <1>1, <1>2 DEF AddsUp, AddsUpTo
<1>4. ASSUME NEW n \in 1..LastLine, n - 1 \in holds PROVE n \in holds
  <2>1. /\ n \in 0..LastLine /\ n - 1 \in 0..LastLine /\ g[n - 1] <= h[n - 1]
        /\ a[n] <= b[n] /\ a[n] \in Int /\ b[n] \in Int
    BY <1>0, <1>4 DEF Amounts, Lines
  <2>2. /\ g[n] = g[n - 1] + a[n] /\ g[n - 1] \in Int
        /\ h[n] = h[n - 1] + b[n] /\ h[n - 1] \in Int
    BY <1>1, <1>2, <2>1 DEF AddsUp, AddsUpTo
  <2>. QED
    BY <2>1, <2>2
<1>5. LastLine \in holds
  <2>. HIDE DEF holds
  <2>1. \A n \in 0..LastLine : n \in holds
    BY <1>0, <1>3, <1>4, UpTo
  <2>. QED
    BY <1>0, <2>1
<1>. QED
  BY <1>1, <1>2, <1>5

\* Twice the shares make twice the total.
LEMMA TotalScales ==
    ASSUME NEW a \in Amounts, NEW b \in Amounts, NEW c \in Int,
           \A i \in Lines : b[i] = c * a[i]
    PROVE  Total(b) = c * Total(a)
<1>0. LastLine \in Nat
  BY StatementAssumption
<1>1. PICK g : AddsUp(g, a) /\ Total(a) = g[LastLine]
  BY TotalHasSum
<1>. DEFINE h == [n \in 0..LastLine |-> c * g[n]]
<1>2. \A n \in 0..LastLine : g[n] \in Int
  BY <1>1 DEF AddsUp, AddsUpTo
<1>3. h \in [0..LastLine -> Int]
  BY <1>2
<1>4. h[0] = 0
  BY <1>0, <1>1 DEF AddsUp, AddsUpTo
<1>5. ASSUME NEW n \in 1..LastLine PROVE h[n] = h[n - 1] + b[n]
  <2>1. n \in 0..LastLine /\ n - 1 \in 0..LastLine /\ b[n] = c * a[n] /\ a[n] \in Int
    BY <1>0 DEF Amounts, Lines
  <2>2. g[n] = g[n - 1] + a[n] /\ g[n - 1] \in Int
    BY <1>1, <1>2, <2>1 DEF AddsUp, AddsUpTo
  <2>3. c * (g[n - 1] + a[n]) = c * g[n - 1] + c * a[n]
    BY <2>1, <2>2
  <2>. QED
    BY <2>1, <2>2, <2>3
<1>6. AddsUp(h, b)
  <2>. HIDE DEF h
  <2>. QED
    BY <1>3, <1>4, <1>5 DEF AddsUp, AddsUpTo
<1>7. Total(b) = h[LastLine]
  BY <1>6, TotalIs
<1>. QED
  BY <1>0, <1>1, <1>7

\* What one line gets more, the total is more.
LEMMA TotalChanges ==
    ASSUME NEW a \in Amounts, NEW i \in Lines, NEW d \in Int,
           NEW b \in Amounts, b[i] = a[i] + d, \A j \in Lines : j # i => b[j] = a[j]
    PROVE  Total(b) = Total(a) + d
<1>0. LastLine \in Nat /\ i \in 1..LastLine
  BY StatementAssumption DEF Lines
<1>1. PICK g : AddsUp(g, a) /\ Total(a) = g[LastLine]
  BY TotalHasSum
<1>. DEFINE h == [n \in 0..LastLine |-> IF n < i THEN g[n] ELSE g[n] + d]
<1>2. \A n \in 0..LastLine : g[n] \in Int
  BY <1>1 DEF AddsUp, AddsUpTo
<1>3. h \in [0..LastLine -> Int]
  BY <1>2
<1>4. h[0] = 0
  BY <1>0, <1>1 DEF AddsUp, AddsUpTo
<1>5. ASSUME NEW n \in 1..LastLine PROVE h[n] = h[n - 1] + b[n]
  <2>1. n \in 0..LastLine /\ n - 1 \in 0..LastLine /\ n \in Lines /\ a[n] \in Int
    BY <1>0 DEF Amounts, Lines
  <2>2. g[n] = g[n - 1] + a[n] /\ g[n - 1] \in Int
    BY <1>1, <1>2, <2>1 DEF AddsUp, AddsUpTo
  <2>3. /\ h[n] = IF n < i THEN g[n] ELSE g[n] + d
        /\ h[n - 1] = IF n - 1 < i THEN g[n - 1] ELSE g[n - 1] + d
    BY <2>1
  <2>4. n = i => b[n] = a[n] + d
    OBVIOUS
  <2>5. n # i => b[n] = a[n]
    BY <2>1
  <2>. HIDE DEF h
  <2>. QED
    BY <1>0, <2>1, <2>2, <2>3, <2>4, <2>5
<1>6. AddsUp(h, b)
  <2>. HIDE DEF h
  <2>. QED
    BY <1>3, <1>4, <1>5 DEF AddsUp, AddsUpTo
<1>7. Total(b) = h[LastLine]
  BY <1>6, TotalIs
<1>. QED
  BY <1>0, <1>1, <1>7

\* A total of shares none of which is negative is at least each of them.
LEMMA TotalBounds ==
    ASSUME NEW a \in Amounts, \A i \in Lines : a[i] >= 0, NEW i \in Lines
    PROVE  Total(a) >= a[i]
<1>. DEFINE nothing == [j \in Lines |-> 0]
            single  == [j \in Lines |-> IF j = i THEN a[i] ELSE 0]
<1>1. a[i] \in Int
  BY DEF Amounts
<1>2. nothing \in Amounts /\ single \in Amounts
  BY <1>1 DEF Amounts
<1>3. Total(nothing) = 0
  BY <1>2, TotalOfNothing
<1>4. single[i] = nothing[i] + a[i] /\ \A j \in Lines : j # i => single[j] = nothing[j]
  BY <1>1
<1>5. \A j \in Lines : single[j] <= a[j]
  BY <1>1
<1>. HIDE DEF nothing, single
<1>6. Total(single) = a[i]
  BY <1>1, <1>2, <1>3, <1>4, TotalChanges
<1>. QED
  BY <1>2, <1>5, <1>6, TotalGrows

\* There is a largest line.
LEMMA LargestLineIs ==
    ASSUME NEW a \in Amounts, LastLine # 0
    PROVE  /\ LargestLine(a) \in Lines
           /\ \A j \in Lines : a[j] <= a[LargestLine(a)]
<1>0. LastLine \in Nat \ {0}
  BY StatementAssumption
<1>. DEFINE Wins(i, k) == \A j \in 1..k : a[j] < a[i] \/ (a[j] = a[i] /\ i <= j)
            holds == {k \in 0..LastLine : k = 0 \/ \E i \in 1..k : Wins(i, k)}
<1>1. 0 \in holds
  BY <1>0
<1>2. ASSUME NEW k \in 1..LastLine, k - 1 \in holds PROVE k \in holds
  <2>0. k \in 0..LastLine /\ \A j \in 1..k : a[j] \in Int
    BY <1>0 DEF Amounts, Lines
  <2>1. CASE k - 1 = 0
    <3>1. Wins(1, k) /\ 1 \in 1..k
      BY <1>0, <2>0, <2>1
    <3>. QED
      BY <2>0, <3>1
  <2>2. CASE \E i \in 1..(k - 1) : Wins(i, k - 1)
    <3>1. PICK i \in 1..(k - 1) : Wins(i, k - 1)
      BY <2>2
    <3>2. i \in 1..k /\ a[i] \in Int /\ a[k] \in Int /\ k \in 1..k /\ i < k
      BY <1>0, <2>0
    <3>3. \A j \in 1..k : j = k \/ j \in 1..(k - 1)
      BY <1>0
    <3>4. CASE a[k] > a[i]
      <4>1. Wins(k, k)
        BY <2>0, <3>1, <3>2, <3>3, <3>4
      <4>. QED
        BY <2>0, <3>2, <4>1
    <3>5. CASE a[k] <= a[i]
      <4>1. Wins(i, k)
        BY <2>0, <3>1, <3>2, <3>3, <3>5
      <4>. QED
        BY <2>0, <3>2, <4>1
    <3>. QED
      BY <3>2, <3>4, <3>5
  <2>. QED
    BY <1>2, <2>1, <2>2
<1>3. LastLine \in holds
  <2>. HIDE DEF holds
  <2>1. \A n \in 0..LastLine : n \in holds
    BY <1>0, <1>1, <1>2, UpTo
  <2>. QED
    BY <1>0, <2>1
<1>4. \E i \in Lines : \A j \in Lines : a[j] < a[i] \/ (a[j] = a[i] /\ i <= j)
  BY <1>0, <1>3 DEF Lines
<1>5. /\ LargestLine(a) \in Lines
      /\ \A j \in Lines : \/ a[j] < a[LargestLine(a)]
                          \/ a[j] = a[LargestLine(a)] /\ LargestLine(a) <= j
  BY <1>4 DEF LargestLine
<1>6. \A j \in Lines : a[j] \in Int
  BY DEF Amounts
<1>. QED
  BY <1>5, <1>6

-------------------------------------------------------------------------------
(* The three kinds of statement. *)

\* A floor share is no more than the exact one, not negative, and nothing of nothing.
LEMMA FloorShare ==
    ASSUME NEW fee \in Nat, NEW total \in Nat \ {0}, NEW uplift \in Nat
    PROVE  /\ (fee * uplift) \div total \in Nat
           /\ total * ((fee * uplift) \div total) <= fee * uplift
           /\ uplift = 0 => (fee * uplift) \div total = 0
<1>1. fee * uplift \in Nat
  OBVIOUS
<1>2. \A n \in Nat : n \div total \in Nat /\ total * (n \div total) <= n
  OBVIOUS
<1>3. 0 \div total = 0
  OBVIOUS
<1>4. uplift = 0 => fee * uplift = 0
  OBVIOUS
<1>. QED
  BY <1>1, <1>2, <1>3, <1>4

\* The floor shares leave a remainder that is not negative, and the largest line takes it.
LEMMA ApportionedAddsUp ==
    ASSUME NEW fee \in Nat, NEW uplifts \in [Lines -> Nat], Total(uplifts) > 0
    PROVE  /\ Apportioned(fee, uplifts) \in [Lines -> Nat]
           /\ Total(Apportioned(fee, uplifts)) = fee
           /\ \A i \in Lines : uplifts[i] = 0 => Apportioned(fee, uplifts)[i] = 0
<1>. DEFINE total  == Total(uplifts)
            top    == LargestLine(uplifts)
            floors == [i \in Lines |-> (fee * uplifts[i]) \div total]
            exact  == [i \in Lines |-> fee * uplifts[i]]
            scaled == [i \in Lines |-> total * floors[i]]
            rest   == fee - Total(floors)
<1>1. uplifts \in Amounts
  BY DEF Amounts
<1>2. total \in Nat \ {0}
  BY <1>1, TotalType
<1>3. ASSUME NEW i \in Lines
      PROVE  /\ floors[i] \in Nat /\ total * floors[i] <= fee * uplifts[i]
             /\ uplifts[i] = 0 => floors[i] = 0
  <2>1. uplifts[i] \in Nat
    OBVIOUS
  <2>. HIDE DEF total
  <2>2. floors[i] = (fee * uplifts[i]) \div total
    OBVIOUS
  <2>. HIDE DEF floors
  <2>. QED
    BY <1>2, <2>1, <2>2, FloorShare
<1>4. floors \in [Lines -> Nat]
  BY <1>3
<1>5. exact \in Amounts
  BY DEF Amounts
<1>. HIDE DEF floors, total
<1>6. scaled \in Amounts /\ floors \in Amounts
  BY <1>2, <1>4 DEF Amounts
<1>7. /\ \A i \in Lines : scaled[i] <= exact[i]
      /\ \A i \in Lines : scaled[i] = total * floors[i]
      /\ \A i \in Lines : exact[i] = fee * uplifts[i]
  BY <1>3
<1>. HIDE DEF scaled, exact
<1>8. total * Total(floors) <= fee * total
  <2>1. Total(scaled) <= Total(exact)
    BY <1>5, <1>6, <1>7, TotalGrows
  <2>2. Total(scaled) = total * Total(floors)
    BY <1>2, <1>6, <1>7, TotalScales
  <2>3. Total(exact) = fee * total
    BY <1>1, <1>5, <1>7, TotalScales DEF total
  <2>. QED
    BY <2>1, <2>2, <2>3
<1>9. rest \in Nat
  <2>1. Total(floors) \in Int
    BY <1>6, TotalType
  <2>2. \A n \in Nat \ {0}, a \in Int, b \in Nat : n * a <= b * n => a <= b
    OBVIOUS
  <2>. QED
    BY <1>2, <1>8, <2>1, <2>2
<1>10. LastLine # 0 /\ \E i \in Lines : uplifts[i] # 0
  <2>1. \E i \in Lines : uplifts[i] # 0
    BY <1>1, <1>2, TotalOfNothing DEF total
  <2>. QED
    BY <2>1, StatementAssumption DEF Lines
<1>11. top \in Lines /\ uplifts[top] # 0
  <2>1. top \in Lines /\ \A j \in Lines : uplifts[j] <= uplifts[top]
    BY <1>1, <1>10, LargestLineIs
  <2>2. PICK i \in Lines : uplifts[i] # 0
    BY <1>10
  <2>3. uplifts[i] \in Nat /\ uplifts[top] \in Nat /\ uplifts[i] <= uplifts[top]
    BY <2>1
  <2>. QED
    BY <2>1, <2>2, <2>3
<1>. DEFINE shares == Apportioned(fee, uplifts)
<1>12. /\ shares = [floors EXCEPT ![top] = @ + fee - Total(floors)]
       /\ Total(floors) \in Int
  BY <1>6, TotalType DEF Apportioned, floors, total
<1>. HIDE DEF shares, top
<1>13. /\ DOMAIN shares = Lines
       /\ shares[top] = floors[top] + rest
       /\ \A i \in Lines : i # top => shares[i] = floors[i]
       /\ shares = [i \in Lines |-> shares[i]]
  <2>1. shares = [floors EXCEPT ![top] = floors[top] + fee - Total(floors)]
    BY <1>12
  <2>2. floors[top] + fee - Total(floors) = floors[top] + rest
    BY <1>4, <1>11, <1>12
  <2>3. DOMAIN floors = Lines
    BY <1>4
  <2>. QED
    BY <1>11, <2>1, <2>2, <2>3
<1>. HIDE DEF rest
<1>14. \A i \in Lines : shares[i] \in Nat
  BY <1>4, <1>9, <1>11, <1>13
<1>15. shares \in [Lines -> Nat] /\ shares \in Amounts
  <2>1. shares \in [Lines -> Nat]
    BY <1>13, <1>14
  <2>. QED
    BY <2>1 DEF Amounts
<1>16. Total(shares) = Total(floors) + rest
  BY <1>6, <1>9, <1>11, <1>13, <1>15, TotalChanges
<1>17. Total(shares) = fee
  BY <1>12, <1>16 DEF rest
<1>18. \A i \in Lines : uplifts[i] = 0 => shares[i] = 0
  BY <1>3, <1>11, <1>13
<1>. QED
  BY <1>15, <1>17, <1>18 DEF shares

\* An order's bargain fee is shared out whole, or the order has no line to share it to.
LEMMA OrderAddsUp ==
    ASSUME NEW o \in Orders
    PROVE  SharesAddUp(o, apportionBargainFee(o))
<1>. DEFINE uplifts == [i \in Lines |-> Uplift(o.lines[i])]
            none    == [i \in Lines |-> 0]
<1>1. /\ o.fee \in Nat
      /\ \A i \in Lines : /\ o.lines[i].paid \in Int /\ o.lines[i].quantity \in Int
                          /\ o.lines[i].floor \in Int
  <2>1. o.fee \in Fees /\ \A i \in Lines : o.lines[i] \in
            [paid : Prices, quantity : Quantities, floor : Floors \cup {Blank}]
    BY DEF Orders
  <2>2. \A i \in Lines : /\ o.lines[i].paid \in Prices
                         /\ o.lines[i].quantity \in Quantities
                         /\ o.lines[i].floor \in Floors \cup {Blank}
    BY <2>1
  <2>3. /\ Prices \subseteq Int /\ Quantities \subseteq Int
        /\ Floors \cup {Blank} \subseteq Int /\ Fees \subseteq Nat
    BY StatementAssumption DEF Blank
  <2>. QED
    BY <2>1, <2>2, <2>3
<1>2. \A i \in Lines : Uplift(o.lines[i]) \in Nat
  <2>1. \A n \in Int : Larger(0, n) \in Nat
    BY DEF Larger
  <2>2. \A i \in Lines : (o.lines[i].paid - o.lines[i].floor) * o.lines[i].quantity \in Int
    BY <1>1
  <2>. QED
    BY <2>1, <2>2 DEF Uplift
<1>3. uplifts \in [Lines -> Nat] /\ uplifts \in Amounts /\ none \in Amounts
  BY <1>2 DEF Amounts
<1>4. \A i \in Lines : uplifts[i] = Uplift(o.lines[i]) /\ none[i] = 0
  OBVIOUS
<1>5. Total(none) = 0
  BY <1>3, TotalOfNothing
<1>6. apportionBargainFee(o) = IF Total(uplifts) <= 0 \/ o.fee <= 0
                               THEN none ELSE Apportioned(o.fee, uplifts)
  BY DEF apportionBargainFee
<1>. HIDE DEF uplifts, none
<1>7. Total(uplifts) \in Int
  BY <1>3, TotalType
<1>8. CASE Total(uplifts) <= 0 \/ o.fee <= 0
  <2>1. ASSUME NEW i \in Lines, Uplift(o.lines[i]) > 0 PROVE o.fee = 0
    <3>1. Total(uplifts) >= uplifts[i] /\ uplifts[i] > 0 /\ uplifts[i] \in Nat
      BY <1>3, <1>4, <2>1, TotalBounds
    <3>. QED
      BY <1>1, <1>7, <1>8, <3>1
  <2>. QED
    BY <1>4, <1>5, <1>6, <1>8, <2>1 DEF SharesAddUp
<1>9. CASE ~(Total(uplifts) <= 0 \/ o.fee <= 0)
  <2>1. apportionBargainFee(o) = Apportioned(o.fee, uplifts) /\ Total(uplifts) > 0
    BY <1>6, <1>7, <1>9
  <2>2. /\ apportionBargainFee(o) \in [Lines -> Nat]
        /\ Total(apportionBargainFee(o)) = o.fee
        /\ \A i \in Lines : uplifts[i] = 0 => apportionBargainFee(o)[i] = 0
    BY <1>1, <1>3, <2>1, ApportionedAddsUp
  <2>3. \A i \in Lines : apportionBargainFee(o)[i] >= 0
    BY <2>2
  <2>. QED
    BY <1>4, <2>2, <2>3 DEF SharesAddUp
<1>. QED
  BY <1>8, <1>9

\* What is split in two, or not at all, adds up.
LEMMA SplitAddsUp ==
    ASSUME NEW rest \in Nat, NEW fee \in Nat \cup {Blank}
    PROVE  \/ Split(fee, rest).cod = Blank
           \/ /\ Split(fee, rest).delivery \in Nat /\ Split(fee, rest).cod \in Nat
              /\ Split(fee, rest).delivery + Split(fee, rest).cod = rest
  BY DEF Split, Fits, Blank

\* A sale's parts give back its gross.
LEMMA SaleIsSplit ==
    ASSUME NEW s \in Sales, s.bargain + s.commission + s.net <= s.gross
    PROVE  SaleAddsUp(s, vendorSaleBreakdown(s))
<1>1. /\ s.gross \in Nat /\ s.bargain \in Nat /\ s.commission \in Nat /\ s.net \in Nat
      /\ s.snapshot \in Nat \cup {Blank} /\ s.customer \in Nat /\ s.cod \in BOOLEAN
  BY StatementAssumption DEF Sales
<1>2. vendorBorneDeliveryFee(s) \in Nat \cup {Blank}
  <2>1. customerPaidDeliveryFee(s) \in Nat
    BY <1>1 DEF customerPaidDeliveryFee
  <2>. QED
    BY <1>1, <2>1 DEF vendorBorneDeliveryFee, Larger, Blank
<1>. DEFINE rest == s.gross - s.bargain - s.commission - s.net
            fees == vendorSaleBreakdown(s)
<1>3. rest \in Nat
  BY <1>1
<1>4. CASE s.cod
  <2>1. fees = Split(vendorBorneDeliveryFee(s), rest)
    BY <1>4 DEF vendorSaleBreakdown
  <2>2. \/ fees.cod = Blank
        \/ fees.delivery \in Nat /\ fees.cod \in Nat /\ fees.delivery + fees.cod = rest
    <3>. HIDE DEF fees, rest
    <3>. DEFINE parts == Split(vendorBorneDeliveryFee(s), rest)
    <3>1. \/ parts.cod = Blank
          \/ parts.delivery \in Nat /\ parts.cod \in Nat /\ parts.delivery + parts.cod = rest
      BY <1>2, <1>3, SplitAddsUp
    <3>2. fees = parts
      BY <2>1
    <3>. QED
      BY <3>1, <3>2, Zenon
  <2>. HIDE DEF fees
  <2>. QED
    BY <1>1, <2>2 DEF SaleAddsUp, fees
<1>5. CASE ~s.cod
  <2>1. fees.delivery = rest /\ fees.cod = 0
    BY <1>5 DEF vendorSaleBreakdown
  <2>. HIDE DEF fees
  <2>. QED
    BY <1>1, <1>3, <2>1 DEF SaleAddsUp, fees
<1>. QED
  BY <1>1, <1>4, <1>5

\* A run's parts give back its earning.
LEMMA RunIsSplit ==
    ASSUME NEW r \in Runs
    PROVE  RunAddsUp(r, agencyEarningBreakdown(r))
<1>1. /\ r.net \in Nat /\ r.cut \in Nat /\ r.fee \in Nat \cup {Blank} /\ r.cod \in BOOLEAN
  BY StatementAssumption DEF Runs
<1>. DEFINE rest == r.net + r.cut
            fees == agencyEarningBreakdown(r)
<1>2. rest \in Nat
  BY <1>1
<1>3. CASE r.cod
  <2>1. fees = Split(r.fee, rest)
    BY <1>3 DEF agencyEarningBreakdown
  <2>2. \/ fees.cod = Blank
        \/ fees.delivery \in Nat /\ fees.cod \in Nat /\ fees.delivery + fees.cod = rest
    <3>. HIDE DEF fees, rest
    <3>. DEFINE parts == Split(r.fee, rest)
    <3>1. \/ parts.cod = Blank
          \/ parts.delivery \in Nat /\ parts.cod \in Nat /\ parts.delivery + parts.cod = rest
      BY <1>1, <1>2, SplitAddsUp
    <3>2. fees = parts
      BY <2>1
    <3>. QED
      BY <3>1, <3>2, Zenon
  <2>. HIDE DEF fees
  <2>. QED
    BY <1>1, <2>2 DEF RunAddsUp, fees
<1>4. CASE ~r.cod
  <2>1. fees.delivery = rest /\ fees.cod = 0
    BY <1>4 DEF agencyEarningBreakdown
  <2>. HIDE DEF fees
  <2>. QED
    BY <1>1, <1>2, <2>1 DEF RunAddsUp, fees
<1>. QED
  BY <1>1, <1>3, <1>4

\* What is on the sheet is what the entry is printed as.
StatementInv == entry \in Entries /\ sheet \in {Unprinted, Printed(entry)}

\* Every statement that is not blank adds up, for orders of any number of lines and any
\* amounts: the floor shares never exceed the fee, so the remainder the largest line takes
\* is not negative, and a fee is split off only when it fits.
THEOREM StatementsBalance == StatementSpec => []StatementsAddUp
<1>1. StatementInit => StatementInv
  BY DEF StatementInit, StatementInv
<1>2. StatementInv /\ [Issue]_statementVars => StatementInv'
  BY DEF StatementInv, Issue, statementVars
<1>3. StatementInv => StatementsAddUp
  <2>. SUFFICES ASSUME StatementInv, sheet # Unprinted PROVE StatementsAddUp
    BY DEF StatementsAddUp
  <2>1. sheet = Printed(entry)
    BY DEF StatementInv
  <2>2. CASE entry \in Orders
    <3>1. entry.kind = "order"
      BY <2>2 DEF Orders
    <3>2. sheet = apportionBargainFee(entry)
      BY <2>1, <3>1 DEF Printed
    <3>. QED
      BY <2>2, <3>1, <3>2, OrderAddsUp DEF StatementsAddUp
  <2>3. CASE entry \in Sales /\ entry.bargain + entry.commission + entry.net <= entry.gross
    <3>1. entry.kind = "sale"
      BY <2>3 DEF Sales
    <3>2. sheet = vendorSaleBreakdown(entry)
      BY <2>1, <3>1 DEF Printed
    <3>. QED
      BY <2>3, <3>1, <3>2, SaleIsSplit DEF StatementsAddUp
  <2>4. CASE entry \in Runs
    <3>1. entry.kind = "run"
      BY <2>4 DEF Runs
    <3>2. sheet = agencyEarningBreakdown(entry)
      BY <2>1, <3>1 DEF Printed
    <3>. QED
      BY <2>4, <3>1, <3>2, RunIsSplit DEF StatementsAddUp
  <2>. QED
    BY <2>2, <2>3, <2>4 DEF StatementInv, Entries
<1>. QED
  BY <1>1, <1>2, <1>3, PTL DEF StatementSpec
=================================================================================
