---------------------------- MODULE TimestampPool -----------------------------
(***************************************************************************)
(* The sorted circular pool of block timestamps (argpool/timestamppool.go   *)
(* and the timestamp methods of ArgPool).  NewBackend fills it: deployment  *)
(* extracts timestamps from the EVM stack, ProcessConfig adds the           *)
(* configured ones.  Fuzzing then only walks it, so its life has two        *)
(* phases.  Timestamps stay below 2^63 (config.json and processor.go:69),   *)
(* where the conversion to *big.Int in Add is exact.                        *)
(***************************************************************************)
EXTENDS Integers, FiniteSets, Sequences, Functions

CONSTANTS Times,      \* the timestamps that can be added
          WallClock   \* time.Now() of a run without any timestamp

ASSUME TimesAssumption == Times \subseteq Nat /\ WallClock \in Nat

VARIABLES times,     \* storage, sorted
          timeKeys,  \* storageMap
          cursor,    \* idx, 0-based
          time       \* the header.Time of the latest transaction
poolVars == <<times, timeKeys, cursor>>
clockVars == <<poolVars, time>>

\* The order sort.Slice establishes; the elements are distinct.
Increasing(s) == \A i, j \in DOMAIN s : i < j => s[i] < s[j]

\* What Sort() leaves in storage: the same elements in increasing order.
SortedSeq(S) == CHOOSE s \in [1 .. Cardinality(S) -> S] : Increasing(s)

EmptyPool == /\ times = <<>>
             /\ timeKeys = {}
             /\ cursor = 0

\* Slip: Sort() is forgotten.
AddTimestampUnsorted(t) == /\ t \notin timeKeys
                           /\ timeKeys' = timeKeys \cup {t}
                           /\ times' = Append(times, t)
                           /\ UNCHANGED cursor

\* ArgPool.AddTimestamp: the lookup, Add and the Sort that follows it.
AddTimestamp(t) == /\ t \notin timeKeys
                   /\ timeKeys' = timeKeys \cup {t}
                   /\ times' = SortedSeq(Range(times) \cup {t})
                   /\ UNCHANGED cursor

\* ArgPool.CurrentTimestamp
CurrentTimestamp == IF times = <<>> THEN WallClock ELSE times[cursor + 1]

\* AllPassed(), evaluated after Next() moved the cursor to c.
AllPassed(c) == times # <<>> /\ c + 1 = Len(times)

\* Slip: the cursor moves twice.
NextCursorTwice == IF times = <<>> THEN cursor ELSE (cursor + 2) % Len(times)

\* ArgPool.NextTimestamp moves the cursor first and asks AllPassed() after.
NextCursor == IF times = <<>> THEN cursor ELSE (cursor + 1) % Len(times)
NextTime == IF times = <<>> THEN WallClock ELSE times[NextCursor + 1]
\* Slip: AllPassed() is asked before the cursor moves.
ShouldRevertBefore == AllPassed(cursor)
ShouldRevert == AllPassed(NextCursor)

\* The two phases on their own.  Deployment uses the default header's time, so
\* the cursor has not moved while the pool is filled.
ClockInit == EmptyPool /\ time = WallClock

Fill(t) == /\ time = WallClock
           /\ AddTimestamp(t)
           /\ UNCHANGED time

StayCurrent == /\ time' = CurrentTimestamp
               /\ UNCHANGED poolVars

\* Slip: the cursor is not wrapped.
AdvanceUnwrapped == /\ time' = NextTime
                    /\ cursor' = cursor + 1
                    /\ cursor < Len(times)
                    /\ UNCHANGED <<times, timeKeys>>

Advance == /\ time' = NextTime
           /\ cursor' = NextCursor
           /\ UNCHANGED <<times, timeKeys>>

ClockNext == StayCurrent \/ Advance \/ \E t \in Times : Fill(t)

ClockSpec == ClockInit /\ [][ClockNext]_clockVars
-------------------------------------------------------------------------------
ClockTypeOK == /\ times \in Seq(Times)
               /\ timeKeys \subseteq Times
               /\ cursor \in Nat
               /\ IF times = <<>> THEN cursor = 0 ELSE cursor < Len(times)
               /\ time \in Times \cup {WallClock}

\* Whatever the order in which deployment and config.json add timestamps, the
\* pool is sorted and free of duplicates, and its map agrees with it (Add, Sort).
TimestampsSorted == Increasing(times) /\ Range(times) = timeKeys

\* Between two timestamps of the pool time runs forward, except for the one step
\* that wraps from the latest to the earliest (Next, GetCurrent).  A time equal to
\* WallClock may come from before the pool had any timestamp: it is left out.
TimeWrapsOnce ==
  [][(time \in timeKeys \ {WallClock} /\ time' < time) =>
        /\ \A t \in timeKeys : t <= time
        /\ \A t \in timeKeys : time' <= t]_clockVars

\* The revert signal is raised by the step that reaches the latest timestamp, so
\* that the last timestamp starts from the deployed state (AllPassed, Next).
RevertAtLatest ==
  [][(Advance /\ times # <<>>) =>
        (ShouldRevert <=> \A t \in timeKeys : t <= time')]_clockVars
===============================================================================
