---------------------------- MODULE TransactionFeed ----------------------------
(***************************************************************************)
(* One administrator paging through the list of all money movements        *)
(* (modules/money): every page asks each source for the rows after a       *)
(* cursor, one source after the other in any order, merges the answers and *)
(* issues the next cursor.  The sources are the platform's collections,    *)
(* which grow meanwhile.                                                   *)
(***************************************************************************)
EXTENDS Integers, Sequences, FiniteSets

CONSTANTS
    Sources,    \* the kinds of transaction
    Values,     \* sort keys: instants or amounts
    LastId,     \* ids are 1..LastId, unique over all sources
    Limit       \* rows on a page

ASSUME FeedAssumption ==
    /\ IsFiniteSet(Sources) /\ Values \subseteq Int
    /\ LastId \in Nat /\ Limit \in Nat \ {0}

VARIABLES
    table,      \* table[s]: the rows of source s
    first,      \* the rows that were there when the paging began (history)
    direction,  \* 1 ascending, -1 descending
    cursor,     \* the last row of the page before, or the start
    pages,      \* pages[s]: what source s answered for the page being made
    asked,      \* the sources that have answered
    shown,      \* the rows sent so far, in order
    over        \* a page came without a cursor

feedVars == <<table, first, direction, cursor, pages, asked, shown, over>>

Ids       == 1..LastId
Moves     == [value : Values, id : Ids]
Beginning == [value |-> 0, id |-> 0]

\* a comes before b in the sort, the id breaking ties.
Before(a, b, d) == \/ (b.value - a.value) * d > 0
                   \/ a.value = b.value /\ (b.id - a.id) * d > 0

\* At least one row, never infinitely many, and distinct ids over all the tables.
Filled(t) ==
    /\ \E s \in Sources : t[s] # {}
    /\ \A s \in Sources : IsFiniteSet(t[s])
    /\ \A s, z \in Sources : \A a \in t[s], b \in t[z] : a.id = b.id => s = z /\ a = b

FeedInit ==
    /\ table \in {t \in [Sources -> SUBSET Moves] : Filled(t)}
    /\ first = UNION {table[s] : s \in Sources}
    /\ direction \in {1, -1}
    /\ cursor = Beginning
    /\ pages = [s \in Sources |-> {}]
    /\ asked = {}
    /\ shown = << >>
    /\ over = FALSE

\* Bug: the cursor is the value alone.
AfterValue(m) == cursor = Beginning \/ (m.value - cursor.value) * direction > 0

\* keysetClause: strictly after the cursor.
After(m) == cursor = Beginning \/ Before(cursor, m, direction)

\* How many of a set of rows come before a row.
Rank(m, rows) == Cardinality({x \in rows : Before(x, m, direction)})

\* The first n rows of a set.
FirstOf(rows, n) == {m \in rows : Rank(m, rows) < n}

\* collect: one source answers limit + 1 rows.
Answer(s) ==
    /\ ~over
    /\ s \notin asked
    /\ pages' = [pages EXCEPT ![s] = FirstOf({m \in table[s] : After(m)}, Limit + 1)]
    /\ asked' = asked \cup {s}
    /\ UNCHANGED <<table, first, direction, cursor, shown, over>>

\* Sorted: each row in the place its rank gives it.
InOrder(rows) ==
    [n \in 1..Cardinality(rows) |-> CHOOSE m \in rows : Rank(m, rows) = n - 1]

\* mergeTransactionPage, once every source has answered.
Merge ==
    /\ ~over
    /\ asked = Sources
    /\ LET all  == UNION {pages[s] : s \in Sources}
           page == InOrder(FirstOf(all, Limit))
       IN /\ shown' = shown \o page
          /\ over' = (Cardinality(all) <= Limit)
          /\ cursor' = IF over' THEN cursor ELSE page[Len(page)]
    /\ pages' = [s \in Sources |-> {}]
    /\ asked' = {}
    /\ UNCHANGED <<table, first, direction>>

\* The platform inserts a row, anywhere in the sort.
Grow(s, m) ==
    /\ ~over
    /\ \A z \in Sources : \A x \in table[z] : x.id # m.id
    /\ table' = [table EXCEPT ![s] = @ \cup {m}]
    /\ UNCHANGED <<first, direction, cursor, pages, asked, shown, over>>

FeedNext == (\E s \in Sources : Answer(s) \/ \E m \in Moves : Grow(s, m)) \/ Merge

FeedSpec == FeedInit /\ [][FeedNext]_feedVars

\* Paging loses no row and repeats none: whatever order the sources answer in and whatever
\* is inserted meanwhile, the rows sent are strictly in order, and once a page comes
\* without a cursor they include every row that was there at the start (the keyset over
\* the merge, and the row too many that each source is asked for).
FeedLosesNothing ==
    /\ \A i, j \in DOMAIN shown : i < j => Before(shown[i], shown[j], direction)
    /\ over => first \subseteq {shown[i] : i \in DOMAIN shown}
===============================================================================
