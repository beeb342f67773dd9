-------------------------- MODULE TimestampPoolProofs --------------------------
(***************************************************************************)
(* The sorted pool of timestamps for any set of timestamps: what Sort()     *)
(* leaves in storage, type correctness, and the order in which time moves.  *)
(***************************************************************************)
EXTENDS TimestampPool, FiniteSetTheorems, SequenceTheorems, TLAPS

\* An increasing sequence repeats no element and is as long as its range is large.
LEMMA IncreasingCount ==
  ASSUME NEW s \in Seq(Nat), Increasing(s)
  PROVE  /\ IsInjective(s)
         /\ IsFiniteSet(Range(s))
         /\ Cardinality(Range(s)) = Len(s)
<1> DEFINE n == Len(s)
<1>1. n \in Nat /\ DOMAIN s = 1 .. n /\ s \in [1 .. n -> Nat]
  BY LenProperties
<1>2. IsInjective(s)
  <2> SUFFICES ASSUME NEW i \in 1 .. n, NEW j \in 1 .. n, i # j
               PROVE  s[i] # s[j]
    BY <1>1 DEF IsInjective
  <2>1. CASE i < j
    BY <1>1, <2>1 DEF Increasing
  <2>2. CASE j < i
    BY <1>1, <2>2 DEF Increasing
  <2> QED
    BY <1>1, <2>1, <2>2
<1>3. s \in Bijection(1 .. n, Range(s))
  <2>1. s \in [1 .. n -> Range(s)]
    BY <1>1 DEF Range
  <2> QED
    BY <1>1, <1>2, <2>1 DEF Bijection, Injection, Surjection, Range
<1>4. ExistsBijection(1 .. n, Range(s))
  BY <1>3 DEF ExistsBijection
<1> QED
  BY <1>1, <1>2, <1>4, FS_NatBijection, FS_CountingElements

\* Inserting t before the first element that is larger.
Inserted(s, t) ==
  [j \in 1 .. Len(s) + 1 |->
     IF j <= Len(s) /\ s[j] < t THEN s[j]
     ELSE IF j = 1 \/ s[j - 1] < t THEN t
     ELSE s[j - 1]]

LEMMA InsertedIncreases ==
  ASSUME NEW s \in Seq(Nat), Increasing(s), NEW t \in Nat, t \notin Range(s)
  PROVE  /\ Inserted(s, t) \in [1 .. Len(s) + 1 -> Range(s) \cup {t}]
         /\ Increasing(Inserted(s, t))
<1> DEFINE n == Len(s)
           r == Inserted(s, t)
<1>1. n \in Nat /\ DOMAIN s = 1 .. n /\ \A j \in 1 .. n : s[j] \in Nat
  BY LenProperties
<1>2. \A j \in 1 .. n : s[j] \in Range(s) /\ s[j] # t
  BY <1>1 DEF Range
<1>3. DOMAIN r = 1 .. n + 1 /\ r = [j \in 1 .. n + 1 |-> r[j]]
  BY DEF Inserted
<1>4. \A j \in 1 .. n + 1 : r[j] \in Range(s) \cup {t}
  <2> SUFFICES ASSUME NEW j \in 1 .. n + 1
               PROVE  r[j] \in Range(s) \cup {t}
    OBVIOUS
  <2>1. CASE j <= n /\ s[j] < t
    BY <1>1, <1>2, <2>1 DEF Inserted
  <2>2. CASE ~(j <= n /\ s[j] < t) /\ (j = 1 \/ s[j - 1] < t)
    BY <1>1, <2>2 DEF Inserted
  <2>3. CASE ~(j <= n /\ s[j] < t) /\ ~(j = 1 \/ s[j - 1] < t)
    <3>1. r[j] = s[j - 1] /\ j - 1 \in 1 .. n
      BY <1>1, <2>3 DEF Inserted
    <3> QED
      BY <1>2, <3>1
  <2> QED
    BY <2>1, <2>2, <2>3
<1>5. ASSUME NEW i \in 1 .. n + 1, NEW j \in 1 .. n + 1, i < j
      PROVE  r[i] < r[j]
  <2> DEFINE at(k) == IF k <= n /\ s[k] < t THEN s[k]
                      ELSE IF k = 1 \/ s[k - 1] < t THEN t ELSE s[k - 1]
  <2>0. r[i] = at(i) /\ r[j] = at(j)
    BY DEF Inserted
  <2>1. \A k, l \in 1 .. n : k < l => s[k] < s[l]
    BY <1>1 DEF Increasing
  <2>2. i \in 1 .. n /\ j - 1 \in 1 .. n /\ i <= j - 1 /\ j # 1
    BY <1>1, <1>5
  <2>3. s[i] <= s[j - 1]
    BY <1>1, <2>1, <2>2
  <2>4. CASE s[i] < t
    <3>1. r[i] = s[i]
      BY <2>0, <2>2, <2>4
    <3>2. CASE j <= n /\ s[j] < t
      BY <2>0, <2>1, <2>2, <3>1, <3>2, <1>5
    <3>3. CASE ~(j <= n /\ s[j] < t) /\ s[j - 1] < t
      BY <2>0, <2>2, <2>4, <3>1, <3>3
    <3>4. CASE ~(j <= n /\ s[j] < t) /\ ~(s[j - 1] < t)
      <4>1. r[j] = s[j - 1]
        BY <2>0, <2>2, <3>4
      <4> QED
        BY <1>1, <2>2, <2>4, <3>1, <3>4, <4>1
    <3> QED
      BY <3>2, <3>3, <3>4
  <2>5. CASE ~(s[i] < t)
    <3>1. t < s[i] /\ t < s[j - 1]
      BY <1>1, <1>2, <2>2, <2>3, <2>5
    <3>2. ~(j <= n /\ s[j] < t)
      <4>1. ASSUME j <= n
            PROVE  s[j - 1] < s[j] /\ s[j] \in Nat
        <5>1. j \in 1 .. n /\ j - 1 < j
          BY <1>1, <4>1
        <5> QED
          BY <1>1, <2>1, <2>2, <5>1
      <4> QED
        BY <1>1, <2>2, <3>1, <4>1
    <3>3. r[j] = s[j - 1]
      BY <1>1, <2>0, <2>2, <3>1, <3>2
    <3>4. CASE i = 1 \/ s[i - 1] < t
      BY <2>0, <2>5, <3>1, <3>3, <3>4
    <3>5. CASE ~(i = 1 \/ s[i - 1] < t)
      <4>1. r[i] = s[i - 1] /\ i - 1 \in 1 .. n /\ i - 1 < j - 1
        BY <2>0, <2>2, <2>5, <3>5, <1>5
      <4> QED
        BY <2>1, <2>2, <3>3, <4>1
    <3> QED
      BY <3>4, <3>5
  <2> QED
    BY <2>4, <2>5
<1>6. Increasing(r)
  BY <1>3, <1>5 DEF Increasing
<1> QED
  BY <1>3, <1>4, <1>6

\* What Sort() leaves in storage when AddTimestamp has appended a new timestamp:
\* the old elements and the new one, in increasing order.
LEMMA SortedInsert ==
  ASSUME NEW s \in Seq(Nat), Increasing(s), NEW t \in Nat, t \notin Range(s)
  PROVE  LET r == SortedSeq(Range(s) \cup {t})
         IN  /\ r \in Seq(Range(s) \cup {t})
             /\ Len(r) = Len(s) + 1
             /\ Increasing(r)
             /\ Range(r) = Range(s) \cup {t}
<1> DEFINE n == Len(s)
           S == Range(s) \cup {t}
           r == SortedSeq(S)
<1>1. n \in Nat /\ IsFiniteSet(S) /\ Cardinality(S) = n + 1
  BY IncreasingCount, FS_AddElement, LenProperties
<1>2. S \subseteq Nat
  BY LenProperties DEF Range
<1>3. r \in [1 .. n + 1 -> S] /\ Increasing(r)
  <2>1. \E q \in [1 .. n + 1 -> S] : Increasing(q)
    BY InsertedIncreases
  <2>2. r = CHOOSE q \in [1 .. n + 1 -> S] : Increasing(q)
    BY <1>1 DEF SortedSeq
  <2> HIDE DEF r
  <2> QED
    BY <2>1, <2>2
<1> HIDE DEF r
<1>4. r \in Seq(S) /\ r \in Seq(Nat) /\ Len(r) = n + 1
  BY <1>1, <1>2, <1>3
<1>5. r \in Injection(1 .. n + 1, S)
  BY <1>3, <1>4, IncreasingCount DEF Injection
<1>6. r \in Surjection(1 .. n + 1, S)
  <2>1. Cardinality(1 .. n + 1) = n + 1
    BY <1>1, FS_Interval
  <2> QED
    BY <1>1, <1>5, <2>1, FS_Injection
<1>7. Range(r) = S
  <2>1. DOMAIN r = 1 .. n + 1
    BY <1>3
  <2>2. Range(r) \subseteq S
    BY <1>3, <2>1 DEF Range
  <2>3. S \subseteq Range(r)
    BY <1>6, <2>1 DEF Surjection, Range
  <2> QED
    BY <2>2, <2>3
<1> QED
  BY <1>3, <1>4, <1>7 DEF r
-------------------------------------------------------------------------------
\* The storage is sorted at all times, and a time that is not the wall clock's is
\* the one at the cursor: NewBackend has filled the pool before the first such time.
ClockInv == /\ ClockTypeOK
            /\ TimestampsSorted
            /\ time # WallClock => times # <<>> /\ time = CurrentTimestamp

\* A position of a sequence of length n is the last one or has a successor.
LEMMA LastOrNot ==
  ASSUME NEW n \in Nat, NEW c \in Nat, c < n
  PROVE  /\ c + 1 \in 1 .. n /\ c + 1 < c + 2
         /\ c + 1 # n => c + 2 \in 1 .. n
         /\ \A j \in 1 .. n : j = n \/ j < n
OBVIOUS

\* Reading the pool at a cursor that is inside it.
LEMMA PoolAt ==
  ASSUME ClockInv, NEW c \in Nat, c < Len(times)
  PROVE  /\ times[c + 1] \in timeKeys /\ times[c + 1] \in Times
         /\ times[c + 1] \in Nat
         /\ c + 1 = Len(times) <=> \A t \in timeKeys : t <= times[c + 1]
         /\ c = 0 => \A t \in timeKeys : times[c + 1] <= t
<1> DEFINE n == Len(times)
<1>1. /\ n \in Nat /\ DOMAIN times = 1 .. n
      /\ \A j \in 1 .. n : times[j] \in Times /\ times[j] \in Nat
  BY LenProperties, TimesAssumption DEF ClockInv, ClockTypeOK
<1>2. timeKeys = {times[j] : j \in 1 .. n}
  BY <1>1 DEF ClockInv, TimestampsSorted, Range
<1>3. \A j, k \in 1 .. n : j < k => times[j] < times[k]
  BY <1>1 DEF ClockInv, TimestampsSorted, Increasing
<1>4. c + 1 \in 1 .. n
  BY <1>1
<1>5. ASSUME c + 1 = n
      PROVE  \A t \in timeKeys : t <= times[c + 1]
  <2>1. \A j \in 1 .. n : times[j] <= times[n]
    <3> SUFFICES ASSUME NEW j \in 1 .. n
                 PROVE  times[j] <= times[n]
      OBVIOUS
    <3>1. CASE j = n
      BY <1>1, <1>4, <3>1
    <3>2. CASE j < n
      <4>1. n \in 1 .. n /\ times[j] < times[n]
        BY <1>3, <1>4, <1>5, <3>2
      <4> QED
        BY <1>1, <4>1
    <3>3. j = n \/ j < n
      BY <1>1, LastOrNot
    <3> QED
      BY <3>1, <3>2, <3>3
  <2> QED
    BY <1>1, <1>2, <1>4, <1>5, <2>1
<1>6. ASSUME c + 1 # n
      PROVE  ~ \A t \in timeKeys : t <= times[c + 1]
  <2>1. c + 2 \in 1 .. n /\ c + 1 < c + 2
    BY <1>1, <1>6, LastOrNot
  <2>2. times[c + 1] < times[c + 2]
    BY <1>3, <1>4, <2>1
  <2>3. times[c + 2] \in timeKeys /\ ~(times[c + 2] <= times[c + 1])
    BY <1>1, <1>2, <1>4, <2>1, <2>2
  <2> QED
    BY <1>6, <2>3
<1>7. ASSUME c = 0
      PROVE  \A t \in timeKeys : times[c + 1] <= t
  <2>1. \A j \in 1 .. n : times[1] <= times[j]
    <3> SUFFICES ASSUME NEW j \in 1 .. n
                 PROVE  times[1] <= times[j]
      OBVIOUS
    <3>1. CASE j = 1
      BY <1>1, <3>1
    <3>2. CASE 1 < j
      BY <1>1, <1>3, <1>4, <1>7, <3>2
    <3> QED
      BY <1>1, <3>1, <3>2
  <2> QED
    BY <1>2, <1>7, <2>1
<1>8. c + 1 = n <=> \A t \in timeKeys : t <= times[c + 1]
  BY <1>5, <1>6
<1> QED
  BY <1>1, <1>2, <1>4, <1>7, <1>8

\* Next() moves the cursor by one and wraps it at the end of storage.
LEMMA NextCursorInside ==
  ASSUME ClockInv, times # <<>>
  PROVE  /\ NextCursor \in Nat /\ NextCursor < Len(times)
         /\ NextCursor = IF cursor + 1 = Len(times) THEN 0 ELSE cursor + 1
         /\ cursor \in Nat /\ cursor < Len(times) /\ Len(times) \in Nat
<1>1. Len(times) \in Nat /\ cursor \in Nat /\ cursor < Len(times)
  BY LenProperties DEF ClockInv, ClockTypeOK
<1>2. NextCursor = (cursor + 1) % Len(times)
  BY DEF NextCursor
<1>3. CASE cursor + 1 = Len(times)
  BY <1>1, <1>2, <1>3
<1>4. CASE cursor + 1 # Len(times)
  BY <1>1, <1>2, <1>4
<1> QED
  BY <1>1, <1>3, <1>4

LEMMA FillPreserves ==
  ASSUME NEW t \in Times, ClockInv, Fill(t)
  PROVE  ClockInv'
<1>1. /\ times \in Seq(Nat) /\ Increasing(times) /\ t \in Nat
      /\ t \notin Range(times) /\ Range(times) = timeKeys
      /\ times \in Seq(Times) /\ timeKeys \subseteq Times
  <2>1. times \in Seq(Times) /\ timeKeys \subseteq Times
    BY DEF ClockInv, ClockTypeOK
  <2>2. times \in Seq(Nat) /\ t \in Nat
    BY <2>1, SeqMonotonic, TimesAssumption
  <2>3. Increasing(times) /\ Range(times) = timeKeys /\ t \notin timeKeys
    BY DEF ClockInv, TimestampsSorted, Fill, AddTimestamp
  <2> QED
    BY <2>1, <2>2, <2>3
<1>2. /\ times' = SortedSeq(Range(times) \cup {t})
      /\ timeKeys' = timeKeys \cup {t}
      /\ UNCHANGED <<cursor, time>> /\ time = WallClock
  BY DEF Fill, AddTimestamp
<1>3. /\ times' \in Seq(Range(times) \cup {t}) /\ Len(times') = Len(times) + 1
      /\ Increasing(times') /\ Range(times') = Range(times) \cup {t}
  BY <1>1, <1>2, SortedInsert
<1>4. TimestampsSorted'
  BY <1>1, <1>2, <1>3 DEF TimestampsSorted
<1>5. Len(times) \in Nat /\ times' \in Seq(Times) /\ times' # <<>>
  <2>1. Range(times) \cup {t} \subseteq Times
    BY <1>1
  <2>2. times' \in Seq(Times)
    BY <1>3, <2>1
  <2>3. Len(times) \in Nat
    BY <1>1, LenProperties
  <2>4. Len(times') # 0
    BY <1>3, <2>3
  <2> QED
    BY <2>2, <2>3, <2>4
<1>6. cursor' \in Nat /\ cursor' < Len(times')
  BY <1>2, <1>3, <1>5 DEF ClockInv, ClockTypeOK
<1>7. ClockTypeOK'
  BY <1>1, <1>2, <1>5, <1>6 DEF ClockInv, ClockTypeOK
<1> QED
  BY <1>2, <1>4, <1>7 DEF ClockInv

LEMMA StayCurrentPreserves == ClockInv /\ StayCurrent => ClockInv'
<1> SUFFICES ASSUME ClockInv, StayCurrent
             PROVE  ClockInv'
  OBVIOUS
<1>1. time' = CurrentTimestamp /\ UNCHANGED <<times, timeKeys, cursor>>
  BY DEF StayCurrent, poolVars
<1>2. times # <<>> => time' = times[cursor + 1] /\ time' \in Times
  <2> SUFFICES ASSUME times # <<>> PROVE time' = times[cursor + 1] /\ time' \in Times
    OBVIOUS
  <2>1. time' = times[cursor + 1]
    BY <1>1 DEF CurrentTimestamp
  <2>2. cursor \in Nat /\ cursor < Len(times)
    BY DEF ClockInv, ClockTypeOK
  <2> QED
    BY <2>1, <2>2, PoolAt
<1>3. times = <<>> => time' = WallClock
  BY <1>1 DEF CurrentTimestamp
<1> QED
  BY <1>1, <1>2, <1>3 DEF ClockInv, ClockTypeOK, TimestampsSorted, CurrentTimestamp

LEMMA AdvancePreserves == ClockInv /\ Advance => ClockInv'
<1> SUFFICES ASSUME ClockInv, Advance
             PROVE  ClockInv'
  OBVIOUS
<1>1. UNCHANGED <<times, timeKeys>>
  BY DEF Advance
<1>2. CASE times = <<>>
  BY <1>1, <1>2 DEF Advance, NextTime, NextCursor, ClockInv, ClockTypeOK, TimestampsSorted
<1>3. CASE times # <<>>
  <2>1. time' = times[cursor' + 1] /\ cursor' = NextCursor
    BY <1>3 DEF Advance, NextTime
  <2>2. cursor' \in Nat /\ cursor' < Len(times)
    BY <1>3, <2>1, NextCursorInside
  <2>3. time' \in Times
    BY <2>1, <2>2, PoolAt
  <2> QED
    BY <1>1, <1>3, <2>1, <2>2, <2>3
    DEF ClockInv, ClockTypeOK, TimestampsSorted, CurrentTimestamp
<1> QED
  BY <1>2, <1>3

THEOREM ClockInvariant == ClockSpec => []ClockInv
<1>1. ClockInit => ClockInv
  BY DEF ClockInit, EmptyPool, ClockInv, ClockTypeOK, TimestampsSorted, Increasing, Range
<1>2. ClockInv /\ [ClockNext]_clockVars => ClockInv'
  <2> SUFFICES ASSUME ClockInv, [ClockNext]_clockVars
               PROVE  ClockInv'
    OBVIOUS
  <2>1. CASE StayCurrent
    BY <2>1, StayCurrentPreserves
  <2>2. CASE Advance
    BY <2>2, AdvancePreserves
  <2>3. ASSUME NEW t \in Times, Fill(t)
        PROVE  ClockInv'
    BY <2>3, FillPreserves
  <2>4. CASE UNCHANGED clockVars
    BY <2>4 DEF clockVars, poolVars, ClockInv, ClockTypeOK, TimestampsSorted, CurrentTimestamp
  <2> QED
    BY <2>1, <2>2, <2>3, <2>4 DEF ClockNext
<1> QED
  BY <1>1, <1>2, PTL DEF ClockSpec

\* The cursor stays inside storage, which Next and GetCurrent index unchecked.
THEOREM ClockTypeCorrect == ClockSpec => []ClockTypeOK
<1>1. ClockInv => ClockTypeOK
  BY DEF ClockInv
<1> QED
  BY <1>1, ClockInvariant, PTL

\* In whatever order timestamps are added, storage is sorted, free of duplicates
\* and agrees with storageMap (Add, Sort).
THEOREM AlwaysSorted == ClockSpec => []TimestampsSorted
<1>1. ClockInv => TimestampsSorted
  BY DEF ClockInv
<1> QED
  BY <1>1, ClockInvariant, PTL
-------------------------------------------------------------------------------
\* Time goes back only from the latest timestamp to the earliest (Next, GetCurrent).
THEOREM TimeRunsForward == ClockSpec => TimeWrapsOnce
<1> DEFINE Wraps == (time \in timeKeys \ {WallClock} /\ time' < time) =>
                      /\ \A t \in timeKeys : t <= time
                      /\ \A t \in timeKeys : time' <= t
<1>1. ClockInv /\ [ClockNext]_clockVars => [Wraps]_clockVars
  <2> SUFFICES ASSUME ClockInv, ClockNext,
                      time \in timeKeys \ {WallClock}, time' < time
               PROVE  /\ \A t \in timeKeys : t <= time
                      /\ \A t \in timeKeys : time' <= t
    OBVIOUS
  <2>1. times # <<>> /\ time = times[cursor + 1] /\ time # WallClock
    BY DEF ClockInv, CurrentTimestamp
  <2>2. cursor \in Nat /\ cursor < Len(times) /\ Len(times) \in Nat /\ time \in Nat
    BY <2>1, NextCursorInside, PoolAt
  <2>3. Advance
    <3>1. ASSUME StayCurrent PROVE FALSE
      <4>1. time' = time
        BY <2>1, <3>1 DEF StayCurrent, CurrentTimestamp
      <4> QED
        BY <2>2, <4>1
    <3>2. ASSUME NEW t \in Times, Fill(t) PROVE FALSE
      BY <2>1, <3>2 DEF Fill
    <3> QED
      BY <3>1, <3>2 DEF ClockNext
  <2>4. time' = times[NextCursor + 1]
    BY <2>1, <2>3 DEF Advance, NextTime
  <2>5. cursor + 1 = Len(times)
    <3> SUFFICES ASSUME cursor + 1 # Len(times) PROVE FALSE
      OBVIOUS
    <3>1. NextCursor = cursor + 1 /\ cursor + 2 <= Len(times)
      BY <2>1, <2>2, NextCursorInside
    <3>2. DOMAIN times = 1 .. Len(times)
      BY LenProperties DEF ClockInv, ClockTypeOK
    <3>3. times[cursor + 1] < times[cursor + 2]
      <4>1. cursor + 1 \in DOMAIN times /\ cursor + 2 \in DOMAIN times
        BY <2>2, <3>1, <3>2, LastOrNot
      <4>2. cursor + 1 < cursor + 2
        BY <2>2
      <4> QED
        BY <4>1, <4>2 DEF ClockInv, TimestampsSorted, Increasing
    <3>4. time' = times[cursor + 2] /\ time' \in Nat
      BY <2>2, <2>4, <3>1, PoolAt
    <3> QED
      BY <2>1, <2>2, <3>3, <3>4
  <2>6. NextCursor = 0 /\ 0 < Len(times)
    BY <2>1, <2>2, <2>5, NextCursorInside
  <2> QED
    BY <2>1, <2>2, <2>4, <2>5, <2>6, PoolAt
<1> QED
  BY <1>1, ClockInvariant, PTL DEF ClockSpec, TimeWrapsOnce

\* NextTimestamp asks for the revert exactly when the step it makes reaches the
\* latest timestamp (Next, AllPassed).
THEOREM RevertsAtLatest == ClockSpec => RevertAtLatest
<1> DEFINE Exact == (Advance /\ times # <<>>) =>
                      (ShouldRevert <=> \A t \in timeKeys : t <= time')
<1>1. ClockInv /\ [ClockNext]_clockVars => [Exact]_clockVars
  <2> SUFFICES ASSUME ClockInv, Advance, times # <<>>
               PROVE  ShouldRevert <=> \A t \in timeKeys : t <= time'
    OBVIOUS
  <2>1. time' = times[NextCursor + 1]
    BY DEF Advance, NextTime
  <2>2. NextCursor \in Nat /\ NextCursor < Len(times)
    BY NextCursorInside
  <2>3. ShouldRevert <=> NextCursor + 1 = Len(times)
    BY DEF ShouldRevert, AllPassed
  <2> QED
    BY <2>1, <2>2, <2>3, PoolAt
<1> QED
  BY <1>1, ClockInvariant, PTL DEF ClockSpec, RevertAtLatest
===============================================================================
