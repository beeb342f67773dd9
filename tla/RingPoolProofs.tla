---------------------------- MODULE RingPoolProofs ----------------------------
(***************************************************************************)
(* The circular pool for any set of values: type correctness,               *)
(* deduplication, and the simulation of FairPool step by step.              *)
(***************************************************************************)
EXTENDS RingPool, SequenceTheorems, TLAPS

LEMMA AppendRange ==
  ASSUME NEW S, NEW s \in Seq(S), NEW x \in S
  PROVE  Range(Append(s, x)) = Range(s) \cup {x}
<1> DEFINE t == Append(s, x)
<1>1. /\ DOMAIN t = 1 .. Len(s) + 1
      /\ \A j \in 1 .. Len(s) : t[j] = s[j]
      /\ t[Len(s) + 1] = x
      /\ DOMAIN s = 1 .. Len(s)
      /\ Len(s) \in Nat
  BY AppendProperties, LenProperties
<1>2. \A y \in Range(t) : y \in Range(s) \cup {x}
  BY <1>1, SMT DEF Range
<1>3. \A y \in Range(s) \cup {x} : y \in Range(t)
  <2>1. x \in Range(t)
    BY <1>1, SMT DEF Range
  <2>2. ASSUME NEW j \in DOMAIN s PROVE s[j] \in Range(t)
    BY <1>1, <2>2, SMT DEF Range
  <2> QED
    BY <2>1, <2>2 DEF Range
<1> QED
  BY <1>2, <1>3

\* A cursor inside the buffer stays inside it (pool.Next, pool.Add).
THEOREM TypeCorrect == Spec => []TypeOK
<1>1. Init => TypeOK
  BY DEF Init, TypeOK
<1>2. TypeOK /\ [Next]_vars => TypeOK'
  <2> SUFFICES ASSUME TypeOK, [Next]_vars
               PROVE  TypeOK'
    OBVIOUS
  <2> USE DEF TypeOK
  <2>1. CASE NextItem
    <3>1. Len(storage) \in Nat \ {0} /\ idx + 1 \in 1 .. Len(storage)
      BY <2>1 DEF NextItem
    <3>2. Current \in Items
      BY <3>1 DEF Current
    <3>3. idx' \in Nat /\ idx' < Len(storage)
      BY <2>1, <3>1 DEF NextItem
    <3> QED
      BY <2>1, <3>2, <3>3 DEF NextItem
  <2>2. CASE NextOfEmpty
    BY <2>2 DEF NextOfEmpty
  <2>3. ASSUME NEW item \in Items, AddItem(item)
        PROVE  TypeOK'
    <3>1. storage' \in Seq(Items) /\ Len(storage') = Len(storage) + 1 /\ storage' # <<>>
      BY <2>3 DEF AddItem
    <3>2. idx' < Len(storage')
      <4>1. CASE storage = <<>>
        BY <2>3, <3>1, <4>1 DEF AddItem
      <4>2. CASE storage # <<>>
        BY <2>3, <3>1, <4>2 DEF AddItem
      <4> QED
        BY <4>1, <4>2
    <3> QED
      BY <2>3, <3>1, <3>2 DEF AddItem
  <2>4. CASE UNCHANGED vars
    BY <2>4 DEF vars
  <2> QED
    BY <2>1, <2>2, <2>3, <2>4 DEF Next
<1> QED
  BY <1>1, <1>2, PTL DEF Spec

-------------------------------------------------------------------------------
\* What holds of the buffer at all times: the map is its range, no element is
\* repeated, and nothing was delivered while it is empty.
BufferInv == /\ TypeOK
             /\ storageMap = Range(storage)
             /\ IsInjective(storage)
             /\ storage = <<>> => out = NoItem

THEOREM BufferInvariant == Spec => []BufferInv
<1>1. Init => BufferInv
  BY DEF Init, TypeOK, Range, IsInjective, BufferInv
<1>2. TypeOK' /\ BufferInv /\ [Next]_vars => BufferInv'
  <2> SUFFICES ASSUME TypeOK', BufferInv, [Next]_vars
               PROVE  BufferInv'
    OBVIOUS
  <2> USE DEF BufferInv
  <2>1. CASE NextItem \/ NextOfEmpty \/ UNCHANGED vars
    BY <2>1 DEF NextItem, NextOfEmpty, vars
  <2>2. ASSUME NEW item \in Items, AddItem(item)
        PROVE  BufferInv'
    <3>1. storageMap' = Range(storage')
      BY <2>2, AppendRange DEF AddItem, TypeOK
    <3>2. item \notin Range(storage)
      BY <2>2 DEF AddItem, Contains
    <3>3. IsInjective(storage')
      BY <2>2, <3>2 DEF AddItem, TypeOK, IsInjective, Range
    <3>4. storage' # <<>>
      BY <2>2 DEF AddItem, TypeOK
    <3> QED
      BY <3>1, <3>3, <3>4
  <2> QED
    BY <2>1, <2>2 DEF Next
<1> QED
  BY <1>1, <1>2, TypeCorrect, PTL DEF Spec

\* The map answers for the buffer and nothing is stored twice (pool.go:36).
THEOREM AlwaysDeduplicated == Spec => []Deduplicated
<1>1. BufferInv => Deduplicated
  BY DEF BufferInv, Deduplicated, ContainsTruthful, Contains
<1> QED
  BY <1>1, BufferInvariant, PTL
-------------------------------------------------------------------------------
\* Moving a cursor that is not on the last element.
LEMMA CursorStep ==
  ASSUME NEW n \in Nat \ {0}, NEW k \in Nat, k < n, k + 1 # n
  PROVE  (k + 1) % n = k + 1 /\ k + 2 \in 1 .. n
OBVIOUS

LEMMA CursorWraps ==
  ASSUME NEW n \in Nat \ {0}, NEW k \in 0 .. n - 1
  PROVE  (k + 1) % n = IF k + 1 = n THEN 0 ELSE k + 1
<1>1. CASE k + 1 = n
  BY <1>1
<1>2. CASE k + 1 # n
  BY <1>2, CursorStep
<1> QED
  BY <1>1, <1>2

\* One delivery of the buffer is a delivery of the abstract pool: the element at
\* the cursor is pending, and moving the cursor takes exactly it off the round.
LEMMA NextItemDelivers == BufferInv /\ NextItem => Abstract!Deliver
<1> SUFFICES ASSUME BufferInv, NextItem
             PROVE  Abstract!Deliver
  OBVIOUS
<1> DEFINE n == Len(storage)
<1>1. n \in Nat \ {0} /\ idx \in 0 .. n - 1 /\ DOMAIN storage = 1 .. n
  BY DEF BufferInv, TypeOK, NextItem
<1>2. Current \in Pending
  BY <1>1 DEF Current, Pending
<1>3. \A j, k \in 1 .. n : storage[j] = storage[k] => j = k
  BY <1>1 DEF BufferInv, IsInjective
<1>4. Pending' = IF Pending = {Current} THEN storageMap ELSE Pending \ {Current}
  <2>1. CASE idx + 1 = n
    <3>1. Pending = {Current}
      BY <1>1, <2>1 DEF Pending, Current
    <3>2. idx' = 0
      BY <1>1, <2>1 DEF NextItem
    <3>3. Pending' = {storage[j] : j \in 1 .. n}
      BY <3>2, <1>1 DEF Pending, NextItem
    <3>4. storageMap = {storage[j] : j \in 1 .. n}
      BY <1>1 DEF BufferInv, Range
    <3> QED
      BY <3>1, <3>3, <3>4
  <2>2. CASE idx + 1 # n
    <3>1. idx' = idx + 1 /\ idx + 2 \in 1 .. n
      <4>1. idx \in Nat /\ idx < n
        BY <1>1
      <4> QED
        BY <1>1, <2>2, <4>1, CursorStep DEF NextItem
    <3>2. storage[idx + 2] \in Pending /\ storage[idx + 2] # Current
      BY <1>1, <1>3, <3>1 DEF Pending, Current
    <3>3. Pending' = {storage[j] : j \in idx + 2 .. n}
      BY <3>1, <1>1 DEF Pending, NextItem
    <3>4. \A j \in idx + 2 .. n : storage[j] \in Pending \ {Current}
      BY <1>1, <1>3 DEF Pending, Current
    <3>5. \A j \in idx + 1 .. n : storage[j] # Current => j \in idx + 2 .. n
      BY <1>1 DEF Current
    <3>6. Pending' = Pending \ {Current}
      BY <3>3, <3>4, <3>5 DEF Pending
    <3> QED
      BY <3>2, <3>6
  <2> QED
    BY <2>1, <2>2
<1>5. out' = Current /\ storageMap' = storageMap
  BY DEF NextItem
<1> QED
  BY <1>2, <1>4, <1>5 DEF Abstract!Deliver

\* An appended value joins the current round.
LEMMA AddItemOffers ==
  ASSUME NEW item \in Items, BufferInv, AddItem(item)
  PROVE  Abstract!Offer(item)
<1> DEFINE n == Len(storage)
<1>1. n \in Nat /\ idx \in 0 .. n /\ DOMAIN storage = 1 .. n
  BY DEF BufferInv, TypeOK
<1>2. /\ Len(storage') = n + 1
      /\ storage'[n + 1] = item
      /\ \A j \in 1 .. n : storage'[j] = storage[j]
  BY AppendProperties DEF AddItem, BufferInv, TypeOK
<1>3. Pending' = {storage'[j] : j \in idx + 1 .. n + 1}
  BY <1>2 DEF Pending, AddItem
<1>4. \A j \in idx + 1 .. n + 1 : storage'[j] \in Pending \cup {item}
  BY <1>1, <1>2 DEF Pending
<1>5. item \in Pending'
  BY <1>1, <1>2, <1>3
<1>6. \A j \in idx + 1 .. n : storage[j] \in Pending'
  BY <1>1, <1>2, <1>3
<1>7. Pending' = Pending \cup {item}
  <2>1. Pending' \subseteq Pending \cup {item}
    BY <1>3, <1>4
  <2>2. Pending \subseteq Pending'
    BY <1>6 DEF Pending
  <2> QED
    BY <2>1, <2>2, <1>5
<1> QED
  BY <1>7 DEF Abstract!Offer, AddItem, Contains

\* pool.go implements the rounds of FairPool: every step of the buffer is a step
\* of the abstract pool or leaves it alone.
THEOREM RoundsImplemented == Spec => Abstract!Init /\ [][Abstract!Next]_(Abstract!vars)
<1>1. Init => Abstract!Init
  BY DEF Init, Abstract!Init, Pending
<1>2. BufferInv /\ [Next]_vars => [Abstract!Next]_(Abstract!vars)
  <2> SUFFICES ASSUME BufferInv, [Next]_vars
               PROVE  [Abstract!Next]_(Abstract!vars)
    OBVIOUS
  <2>1. CASE NextItem
    BY <2>1, NextItemDelivers DEF Abstract!Next
  <2>2. CASE NextOfEmpty
    BY <2>2 DEF NextOfEmpty, BufferInv, Abstract!vars, Pending
  <2>3. ASSUME NEW item \in Items, AddItem(item)
        PROVE  Abstract!Next
    BY <2>3, AddItemOffers DEF Abstract!Next
  <2>4. CASE UNCHANGED vars
    BY <2>4 DEF vars, Abstract!vars, Pending
  <2> QED
    BY <2>1, <2>2, <2>3, <2>4 DEF Next
<1> QED
  BY <1>1, <1>2, BufferInvariant, PTL DEF Spec
-------------------------------------------------------------------------------
LEMMA PositionFacts ==
  ASSUME NEW item, BufferInv, item \in storageMap
  PROVE  /\ Position(item) \in 1 .. Len(storage) /\ storage[Position(item)] = item
         /\ Len(storage) \in Nat \ {0} /\ idx \in 0 .. Len(storage) - 1
<1>1. DOMAIN storage = 1 .. Len(storage) /\ Len(storage) \in Nat
  BY LenProperties DEF BufferInv, TypeOK
<1>2. \E j \in DOMAIN storage : storage[j] = item
  BY DEF BufferInv, Range
<1>3. Position(item) \in DOMAIN storage /\ storage[Position(item)] = item
  BY <1>2 DEF Position
<1>4. idx \in Nat /\ idx < Len(storage)
  BY <1>1, <1>2 DEF BufferInv, TypeOK
<1> QED
  BY <1>1, <1>3, <1>4
LEMMA PositionFactsNext ==
  ASSUME NEW CONSTANT item
  PROVE  (BufferInv /\ item \in storageMap =>
            /\ Position(item) \in 1 .. Len(storage) /\ storage[Position(item)] = item
            /\ Len(storage) \in Nat \ {0} /\ idx \in 0 .. Len(storage) - 1)'
BY PositionFacts, PTL

\* The place of a value is the only one that holds it, and no step moves it.
LEMMA PositionStays ==
  ASSUME NEW CONSTANT item, BufferInv, BufferInv', item \in storageMap, item \in storageMap',
         Position(item) \in DOMAIN storage', storage'[Position(item)] = item
  PROVE  Position(item)' = Position(item)
<1>1. Position(item)' \in DOMAIN storage' /\ storage'[Position(item)'] = item
  BY PositionFactsNext, LenProperties DEF BufferInv, TypeOK
<1>2. \A j, k \in DOMAIN storage' : storage'[j] = storage'[k] => j = k
  BY DEF BufferInv, IsInjective
<1> QED
  BY <1>1, <1>2

\* A draw hands a value out or brings it one draw nearer, and an append puts off
\* only what the cursor has passed, by one draw (pool.Next, pool.Add).
THEOREM DrawsAlwaysComeNearer == Spec => DrawsComeNearer
<1> DEFINE Nearer(item) ==
      IF storage' = storage
      THEN IF Wait(item) = 0 THEN out' = item ELSE Wait(item)' = Wait(item) - 1
      ELSE Wait(item)' = Wait(item) + (IF Position(item) > idx THEN 0 ELSE 1)
<1>1. BufferInv /\ BufferInv' /\ [Next]_vars => [\A item \in storageMap : Nearer(item)]_vars
  <2> SUFFICES ASSUME BufferInv, BufferInv', Next, NEW CONSTANT item, item \in storageMap
               PROVE  Nearer(item)
    OBVIOUS
  <2> DEFINE n == Len(storage)
             p == Position(item)
  <2>1. /\ p \in 1 .. n /\ storage[p] = item /\ n \in Nat \ {0} /\ idx \in 0 .. n - 1
        /\ DOMAIN storage = 1 .. n /\ storage # <<>>
    BY PositionFacts, LenProperties DEF BufferInv, TypeOK
  <2>2. CASE NextItem
    <3>1. /\ storage' = storage /\ item \in storageMap' /\ out' = storage[idx + 1]
          /\ idx' = (idx + 1) % n
      BY <2>2 DEF NextItem, Current
    <3>2. Position(item)' = p
      BY <2>1, <3>1, PositionStays
    <3>3. idx' = IF idx + 1 = n THEN 0 ELSE idx + 1
      <4> HIDE DEF n
      <4> QED
        BY <2>1, <3>1, CursorWraps
    <3>4. Wait(item) = IF p > idx THEN p - idx - 1 ELSE n - idx + p - 1
      BY DEF Wait
    <3>5. Wait(item)' = IF p > idx' THEN p - idx' - 1 ELSE n - idx' + p - 1
      BY <3>1, <3>2 DEF Wait
    <3> HIDE DEF n, p
    <3>6. Wait(item) = 0 => p = idx + 1
      BY <2>1, <3>4
    <3>7. Wait(item) # 0 => Wait(item)' = Wait(item) - 1
      BY <2>1, <3>3, <3>4, <3>5
    <3> QED
      BY <2>1, <3>1, <3>6, <3>7
  <2>3. ASSUME NEW x \in Items, AddItem(x)
        PROVE  Nearer(item)
    <3>1. /\ Len(storage') = n + 1 /\ idx' = idx /\ item \in storageMap'
          /\ \A j \in 1 .. n : storage'[j] = storage[j]
          /\ DOMAIN storage' = 1 .. n + 1
      BY <2>3, AppendProperties, LenProperties DEF AddItem, BufferInv, TypeOK
    <3>2. storage' # storage
      BY <2>1, <3>1
    <3>3. Position(item)' = p
      BY <2>1, <3>1, PositionStays
    <3>4. Wait(item) = IF p > idx THEN p - idx - 1 ELSE n - idx + p - 1
      BY DEF Wait
    <3>5. Wait(item)' = IF p > idx THEN p - idx - 1 ELSE (n + 1) - idx + p - 1
      BY <3>1, <3>3 DEF Wait
    <3> HIDE DEF n, p
    <3>6. Wait(item)' = Wait(item) + (IF p > idx THEN 0 ELSE 1)
      BY <2>1, <3>4, <3>5
    <3> QED
      BY <3>2, <3>6 DEF p
  <2> QED
    BY <2>1, <2>2, <2>3 DEF Next, NextOfEmpty
<1> QED
  BY <1>1, BufferInvariant, PTL DEF Spec, DrawsComeNearer
===============================================================================
