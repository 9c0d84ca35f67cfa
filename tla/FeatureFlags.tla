------------------------------ MODULE FeatureFlags ------------------------------
(***************************************************************************)
(* One feature flag (modules/dev-tools): a row in MongoDB that may be      *)
(* absent, and on every instance of the service a cache that flagEnabled   *)
(* fills after an await and setFlag empties, on its own instance only.     *)
(***************************************************************************)
EXTENDS Integers

CONSTANTS
    Nodes,      \* instances of the service, each with one read and one write at a time
    Default,    \* the catalogue's default, "on" or "off"
    FlagTTL,    \* ADMIN_FEATURE_FLAG_CACHE_MS, in ticks
    MaxRead,    \* bound on how long one read of the row takes, in ticks
    LastTick    \* bound on the clock

VARIABLES
    row,      \* the stored value, "on" or "off", or "absent"
    clock,
    cache,    \* cache[n]: what instance n holds, and when it was put there
    read,     \* read[n]: the value n's query found and when the query was sent
    writer,   \* writer[n]: n has committed a new value and not emptied its cache yet
    until     \* until[v]: when v was last the flag's value, -1 if never (history)

flagVars == <<row, clock, cache, read, writer, until>>

States   == {"on", "off"}

\* env.ts and the catalogue: the lifetimes are numbers, the default is a value.
ASSUME FlagAssumption ==
    /\ Default \in States
    /\ FlagTTL \in Nat /\ MaxRead \in Nat /\ LastTick \in Nat

Uncached == [value |-> Default, readAt |-> -1]
NoRead   == [value |-> "none", sent |-> 0]

\* featureFlagSpec(name).default when there is no row.
Effective(r) == IF r = "absent" THEN Default ELSE r

FlagInit ==
    /\ row = "absent"
    /\ clock = 0
    /\ cache = [n \in Nodes |-> Uncached]
    /\ read = [n \in Nodes |-> NoRead]
    /\ writer = [n \in Nodes |-> FALSE]
    /\ until = [v \in States |-> IF v = Default THEN 0 ELSE -1]

Hit(n) == cache[n].readAt >= 0 /\ clock - cache[n].readAt < FlagTTL

\* A miss: the query finds the row as it is when it gets there.
Query(n) ==
    /\ read[n] = NoRead
    /\ ~Hit(n)
    /\ read' = [read EXCEPT ![n] = [value |-> Effective(row), sent |-> clock]]
    /\ UNCHANGED <<row, clock, cache, writer, until>>

\* Its answer arrives: the entry's age is counted from here.
Fill(n) ==
    /\ read[n] # NoRead
    /\ cache' = [cache EXCEPT ![n] = [value |-> read[n].value, readAt |-> clock]]
    /\ read' = [read EXCEPT ![n] = NoRead]
    /\ UNCHANGED <<row, clock, writer, until>>

\* Bug: the default answered during an outage is kept.
DefaultKept(n) == [cache EXCEPT ![n] = [value |-> Default, readAt |-> clock]]

\* The query fails: the caller gets the default, and the cache stays as it was.
AfterOutage(n) == cache

Fail(n) ==
    /\ read[n] # NoRead
    /\ cache' = AfterOutage(n)
    /\ read' = [read EXCEPT ![n] = NoRead]
    /\ UNCHANGED <<row, clock, writer, until>>

\* setFlag: the row and its audit row commit together, then the local entry goes.
SetFlag(n, v) ==
    /\ ~writer[n]
    /\ row' = v
    /\ until' = [until EXCEPT ![v] = clock, ![Effective(row)] = clock]
    /\ writer' = [writer EXCEPT ![n] = TRUE]
    /\ UNCHANGED <<clock, cache, read>>

Forget(n) ==
    /\ writer[n]
    /\ cache' = [cache EXCEPT ![n] = Uncached]
    /\ writer' = [writer EXCEPT ![n] = FALSE]
    /\ UNCHANGED <<row, clock, read, until>>

Restart(n) ==
    /\ cache' = [cache EXCEPT ![n] = Uncached]
    /\ read' = [read EXCEPT ![n] = NoRead]
    /\ writer' = [writer EXCEPT ![n] = FALSE]
    /\ UNCHANGED <<row, clock, until>>

FlagTick ==
    /\ clock < LastTick
    /\ \A n \in Nodes : read[n] # NoRead => clock - read[n].sent < MaxRead
    /\ clock' = clock + 1
    /\ until' = [until EXCEPT ![Effective(row)] = clock + 1]
    /\ UNCHANGED <<row, cache, read, writer>>

FlagNext ==
    \/ \E n \in Nodes :
         \/ Query(n) \/ Fill(n) \/ Fail(n) \/ Forget(n) \/ Restart(n)
         \/ \E v \in States : SetFlag(n, v)
    \/ FlagTick

FlagSpec == FlagInit /\ [][FlagNext]_flagVars

\* What an instance serves from its cache was the flag's value no longer ago than the TTL
\* and the time one read takes: the documented convergence within the TTL, corrected by
\* the read that was under way when the flag was set, which refills even the cache of the
\* instance that set it.
FlagsConverge ==
    \A n \in Nodes :
        Hit(n) => clock - until[cache[n].value] < FlagTTL + MaxRead
                  /\ until[cache[n].value] >= 0
===============================================================================
