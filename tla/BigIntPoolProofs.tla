--------------------------- MODULE BigIntPoolProofs ---------------------------
(***************************************************************************)
(* For any set of values and any number of them: the amount loop of         *)
(* getRandomAmountFromAddress draws at most one round of the pool, and what *)
(* it settles on stays affordable while Rec halves it inside the pool.      *)
(***************************************************************************)
EXTENDS BigIntPool, SequenceTheorems, TLAPS

\* The loop's cursor: it started at `start' and has not yet passed the element
\* 0 in the first cell, where it is bound to stop.
LoopCursor == \/ start <= idx /\ tries = idx - start
              \/ idx = 0 /\ start >= 1 /\ tries = Len(storage) - start

SearchInv == /\ BigTypeOK
             /\ storage[1] = 0
             /\ searching => LoopCursor /\ (start = 0 => tries = 0)
             /\ SearchBounded
             /\ AmountAffordable

\* Halving a natural number.
LEMMA HalfOfNat == ASSUME NEW n \in Nat PROVE n \div 2 \in Nat /\ n \div 2 <= n
OBVIOUS

\* Where the cursor goes.
LEMMA CursorMoves ==
  ASSUME NEW n \in Nat \ {0}, NEW k \in 0 .. n - 1
  PROVE  /\ (k + 1) % n \in 0 .. n - 1
         /\ (k + 1) % n = IF k + 1 = n THEN 0 ELSE k + 1
<1>1. CASE k + 1 = n
  BY <1>1
<1>2. CASE k + 1 # n
  <2>1. k + 1 \in Nat /\ k + 1 < n
    BY <1>2
  <2> QED
    BY <1>2, <2>1
<1> QED
  BY <1>1, <1>2

LEMMA InitEstablishes == BigInit => SearchInv
<1> SUFFICES ASSUME BigInit PROVE SearchInv
  OBVIOUS
<1>1. storage = <<0>> /\ Len(storage) = 1 /\ storage[1] = 0 /\ storage \in Seq(Nat)
  BY DEF BigInit, InitArgPool
<1>2. BigTypeOK
  <2>1. storageMap \subseteq Items /\ out \in Nat \cup {NoItem} /\ searching \in BOOLEAN
    BY ValuesAssumption DEF BigInit, InitArgPool
  <2>2. idx = 0 /\ balance = 0 /\ amount = 0 /\ start = 0 /\ tries = 0
    BY DEF BigInit, InitArgPool
  <2> QED
    BY <1>1, <2>1, <2>2 DEF BigTypeOK
<1>3. ~searching /\ AmountAffordable
  BY DEF BigInit, AmountAffordable
<1>4. SearchBounded
  BY <1>1 DEF BigInit, SearchBounded
<1> QED
  BY <1>1, <1>2, <1>3, <1>4 DEF SearchInv

\* The facts about the pool every step needs.
LEMMA PoolFacts ==
  ASSUME SearchInv
  PROVE  /\ Len(storage) \in Nat \ {0}
         /\ DOMAIN storage = 1 .. Len(storage)
         /\ idx + 1 \in DOMAIN storage
         /\ Current \in Nat
         /\ idx = 0 => Current = 0
BY LenProperties DEF SearchInv, BigTypeOK, Current

LEMMA DrawPreserves == SearchInv /\ Draw => SearchInv'
<1> SUFFICES ASSUME SearchInv, Draw PROVE SearchInv'
  OBVIOUS
<1> DEFINE n == Len(storage)
<1>1. /\ n \in Nat \ {0} /\ idx \in 0 .. n - 1 /\ start \in 0 .. n - 1
      /\ tries \in Nat /\ balance \in Nat
      /\ Current \in Nat /\ (idx = 0 => Current = 0)
  BY PoolFacts DEF SearchInv, BigTypeOK
<1>2. /\ idx' = IF idx + 1 = n THEN 0 ELSE idx + 1
      /\ idx' \in 0 .. n - 1
  BY <1>1, CursorMoves DEF Draw, NextItem
<1>3. /\ storage' = storage /\ storageMap' = storageMap /\ out' = Current
      /\ amount' = idx + 1 /\ tries' = tries + 1
      /\ searching' = (Current > balance) /\ balance' = balance /\ start' = start
  BY DEF Draw, NextItem, OneMoreTry, SearchInv, SearchBounded
<1>4. LoopCursor /\ (start = 0 => tries = 0)
  BY DEF SearchInv, Draw
<1>9. searching' => Current > balance
  BY <1>3, Zenon
<1>10. ~searching' => ~(Current > balance)
  BY <1>3, Zenon
<1>5. BigTypeOK'
  BY <1>1, <1>2, <1>3 DEF SearchInv, BigTypeOK
<1>6. tries' <= n
  BY <1>1, <1>3, <1>4 DEF LoopCursor
<1>7. ASSUME searching' PROVE LoopCursor' /\ (start' = 0 => tries' = 0)
  <2>1. idx # 0
    BY <1>1, <1>7, <1>9
  <2>2. start <= idx /\ tries = idx - start /\ start # 0
    BY <1>1, <1>4, <2>1 DEF LoopCursor
  <2> QED
    BY <1>1, <1>2, <1>3, <2>2 DEF LoopCursor
<1>8. AmountAffordable'
  <2>1. ~searching' => Current <= balance
    BY <1>1, <1>10
  <2>2. storage'[amount'] = Current
    BY <1>3 DEF Current
  <2> QED
    BY <1>3, <2>1, <2>2 DEF AmountAffordable
<1> QED
  BY <1>3, <1>5, <1>6, <1>7, <1>8 DEF SearchInv, SearchBounded

LEMMA DrawArgumentPreserves == SearchInv /\ DrawArgument => SearchInv'
<1> SUFFICES ASSUME SearchInv, DrawArgument PROVE SearchInv'
  OBVIOUS
<1>1. idx' \in 0 .. Len(storage) - 1
  BY PoolFacts, CursorMoves DEF DrawArgument, NextItem, SearchInv, BigTypeOK
<1>2. out' \in Nat
  BY PoolFacts DEF DrawArgument, NextItem
<1>3. UNCHANGED <<storage, storageMap, loopVars>> /\ ~searching
  BY DEF DrawArgument, NextItem
<1> QED
  BY <1>1, <1>2, <1>3
  DEF SearchInv, BigTypeOK, SearchBounded, AmountAffordable, loopVars

LEMMA AddReturnedPreserves ==
  ASSUME NEW item \in Items, SearchInv, AddReturned(item)
  PROVE  SearchInv'
<1> DEFINE n == Len(storage)
<1>1. /\ storage' \in Seq(Nat)
      /\ Len(storage') = n + 1
      /\ \A j \in 1 .. n : storage'[j] = storage[j]
  BY AppendProperties, ValuesAssumption DEF AddReturned, AddItem, SearchInv, BigTypeOK
<1>2. UNCHANGED <<idx, out, loopVars>> /\ ~searching /\ storageMap' = storageMap \cup {item}
  BY DEF AddReturned, AddItem
<1>3. n \in Nat \ {0}
  BY PoolFacts
<1>4. BigTypeOK'
  BY <1>1, <1>2, <1>3 DEF SearchInv, BigTypeOK, loopVars
<1>5. SearchBounded' /\ storage'[1] = 0
  <2>1. tries' = tries /\ tries \in Nat /\ tries <= n
    BY <1>2 DEF SearchInv, BigTypeOK, SearchBounded, loopVars
  <2>2. tries' <= Len(storage')
    BY <1>1, <1>3, <2>1
  <2>3. storage'[1] = 0
    BY <1>1, <1>3 DEF SearchInv
  <2> QED
    BY <2>2, <2>3 DEF SearchBounded
<1>6. AmountAffordable'
  <2>1. amount \in 0 .. n /\ UNCHANGED <<amount, balance, searching>>
    BY <1>2 DEF SearchInv, BigTypeOK, loopVars
  <2>2. amount # 0 => storage'[amount] = storage[amount] /\ storage[amount] <= balance
    BY <1>1, <1>2, <1>3, <2>1 DEF SearchInv, AmountAffordable
  <2> QED
    BY <2>1, <2>2 DEF AmountAffordable
<1> QED
  BY <1>2, <1>4, <1>5, <1>6 DEF SearchInv, loopVars

LEMMA HalveAmountPreserves == SearchInv /\ HalveAmount => SearchInv'
<1> SUFFICES ASSUME SearchInv, HalveAmount PROVE SearchInv'
  OBVIOUS
<1> DEFINE n == Len(storage)
<1>1. amount \in 1 .. n /\ storage[amount] \in Nat /\ n \in Nat
  <2>1. amount # 0 /\ amount \in 0 .. n
    BY DEF HalveAmount, SearchInv, BigTypeOK
  <2>2. n \in Nat /\ \A j \in 1 .. n : storage[j] \in Nat
    BY LenProperties DEF SearchInv, BigTypeOK
  <2>3. amount \in 1 .. n
    BY <2>1, <2>2
  <2> QED
    BY <2>2, <2>3
<1>2. storage[amount] \div 2 \in Nat /\ storage[amount] \div 2 <= storage[amount]
  BY <1>1, HalfOfNat
<1>3. /\ storage' \in Seq(Nat)
      /\ Len(storage') = n
      /\ \A j \in 1 .. n : j # amount => storage'[j] = storage[j]
      /\ storage'[amount] = storage[amount] \div 2
  BY <1>1, <1>2, ExceptSeq DEF HalveAmount, SearchInv, BigTypeOK
<1>4. UNCHANGED <<storageMap, idx, out, loopVars>> /\ ~searching /\ storage[amount] > 0
  BY DEF HalveAmount
<1>5. BigTypeOK'
  BY <1>3, <1>4 DEF SearchInv, BigTypeOK, loopVars
<1>6. storage'[1] = 0
  BY <1>1, <1>3, <1>4, PoolFacts DEF SearchInv
<1>7. SearchBounded'
  BY <1>3, <1>4 DEF SearchInv, SearchBounded, loopVars
<1>8. AmountAffordable'
  <2>1. storage[amount] <= balance /\ balance \in Nat
    BY <1>1, <1>4 DEF SearchInv, AmountAffordable, BigTypeOK
  <2>2. storage'[amount'] <= balance'
    BY <1>1, <1>2, <1>3, <1>4, <2>1 DEF loopVars
  <2> QED
    BY <2>2 DEF AmountAffordable
<1> QED
  BY <1>4, <1>5, <1>6, <1>7, <1>8 DEF SearchInv, loopVars

THEOREM SearchInvariant == BigSpec => []SearchInv
<1>1. SearchInv /\ [BigNext]_bigVars => SearchInv'
  <2> SUFFICES ASSUME SearchInv, [BigNext]_bigVars PROVE SearchInv'
    OBVIOUS
  <2>1. ASSUME NEW bal \in Balances, BeginSearch(bal) PROVE SearchInv'
    BY <2>1, ValuesAssumption
    DEF BeginSearch, SearchInv, BigTypeOK, SearchBounded, AmountAffordable, LoopCursor, vars
  <2>2. CASE Draw
    BY <2>2, DrawPreserves
  <2>3. CASE DrawArgument
    BY <2>3, DrawArgumentPreserves
  <2>4. ASSUME NEW item \in Items, AddReturned(item) PROVE SearchInv'
    BY <2>4, AddReturnedPreserves
  <2>5. CASE HalveAmount
    BY <2>5, HalveAmountPreserves
  <2>6. CASE UNCHANGED bigVars
    BY <2>6 DEF bigVars, vars, loopVars, SearchInv, BigTypeOK, SearchBounded,
                AmountAffordable, LoopCursor
  <2> QED
    BY <2>1, <2>2, <2>3, <2>4, <2>5, <2>6 DEF BigNext
<1> QED
  BY InitEstablishes, <1>1, PTL DEF BigSpec

\* The variables keep their types, the cursor and the amount their cells.
THEOREM TypeCorrect == BigSpec => []BigTypeOK
BY SearchInvariant, PTL DEF SearchInv

\* getRandomAmountFromAddress draws at most as many values as the pool holds.
THEOREM OneRoundSuffices == BigSpec => []SearchBounded
BY SearchInvariant, PTL DEF SearchInv

\* Halving an amount inside the pool never makes it unaffordable.
THEOREM AmountStaysAffordable == BigSpec => []AmountAffordable
BY SearchInvariant, PTL DEF SearchInv
===============================================================================
