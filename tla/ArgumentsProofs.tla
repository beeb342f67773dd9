--------------------------- MODULE ArgumentsProofs ---------------------------
(* Theorems about Arguments, for all widths and all pooled values. *)
EXTENDS Arguments, TLAPS

\* The leaf types are told apart by their sort.
LEMMA LeafCases ==
  ASSUME NEW T \in LeafTypes
  PROVE  \/ /\ T \in IntTypes /\ T # BoolType /\ T # BigIntType
            /\ T.width \in Widths /\ T.signed \in BOOLEAN
         \/ T = BoolType /\ T \notin IntTypes /\ T # BigIntType
         \/ T = BigIntType /\ T \notin IntTypes /\ T # BoolType
  BY ValuesAssumption DEF LeafTypes, IntTypes

LEMMA HalfPositive ==
  ASSUME NEW w \in Widths
  PROVE  Half[w] \in Nat /\ Half[w] > 0
  BY WidthsAssumption

\* A value goes through the pool of its width unchanged, whatever its sign.
LEMMA RoundTrip ==
  ASSUME NEW T \in IntTypes, NEW v \in Values(T)
  PROVE  /\ ToPool(T.width, v) \in SignedRange(T.width)
         /\ FromPool(T, ToPool(T.width, v)) = v
<1>1. T.width \in Widths /\ T.signed \in BOOLEAN
  BY DEF IntTypes
<1>2. Half[T.width] \in Nat /\ Half[T.width] > 0
  BY <1>1, HalfPositive
<1>3. v \in IF T.signed THEN SignedRange(T.width) ELSE UnsignedRange(T.width)
  BY DEF Values, IntValues
<1>4. CASE T.signed
  BY <1>2, <1>3, <1>4 DEF ToPool, FromPool, SignedRange
<1>5. CASE ~T.signed
  BY <1>2, <1>3, <1>5 DEF ToPool, FromPool, SignedRange, UnsignedRange
<1>6. QED
  BY <1>1, <1>4, <1>5

\* What is drawn from a pool of the right range is a value of the type.
LEMMA DrawnFits ==
  ASSUME NEW T \in IntTypes, NEW v \in SignedRange(T.width)
  PROVE  FromPool(T, v) \in Values(T)
<1>1. T.width \in Widths /\ T.signed \in BOOLEAN
  BY DEF IntTypes
<1>2. Half[T.width] \in Nat /\ Half[T.width] > 0
  BY <1>1, HalfPositive
<1>3. Values(T) = IF T.signed THEN SignedRange(T.width) ELSE UnsignedRange(T.width)
  BY DEF Values, IntValues
<1>4. CASE T.signed
  BY <1>2, <1>3, <1>4 DEF FromPool, SignedRange
<1>5. CASE ~T.signed
  BY <1>2, <1>3, <1>5 DEF FromPool, SignedRange, UnsignedRange
<1>6. QED
  BY <1>1, <1>4, <1>5

\* The bytes in InitArgPool's loop are all the values an int8 has.
LEMMA BytesConvert ==
  {ToPool(Narrowest, i) : i \in UnsignedRange(Narrowest)} = SignedRange(Narrowest)
<1>1. Half[Narrowest] \in Nat /\ Half[Narrowest] > 0
  BY WidthsAssumption, HalfPositive
<1>2. ASSUME NEW i \in UnsignedRange(Narrowest)
      PROVE  ToPool(Narrowest, i) \in SignedRange(Narrowest)
  BY <1>1 DEF ToPool, SignedRange, UnsignedRange
<1>3. ASSUME NEW v \in SignedRange(Narrowest)
      PROVE  \E i \in UnsignedRange(Narrowest) : ToPool(Narrowest, i) = v
  <2>1. CASE v >= 0
    <3>1. v \in UnsignedRange(Narrowest) /\ ToPool(Narrowest, v) = v
      BY <1>1, <2>1 DEF ToPool, SignedRange, UnsignedRange
    <3>2. QED
      BY <3>1
  <2>2. CASE v < 0
    <3>1. /\ v + 2 * Half[Narrowest] \in UnsignedRange(Narrowest)
          /\ ToPool(Narrowest, v + 2 * Half[Narrowest]) = v
      BY <1>1, <2>2 DEF ToPool, SignedRange, UnsignedRange
    <3>2. QED
      BY <3>1
  <2>3. QED
    BY <1>1, <2>1, <2>2 DEF SignedRange
<1>4. QED
  BY <1>2, <1>3

\* A pool starts with values of its own range.
LEMMA InitPoolTyped ==
  ASSUME NEW w \in Widths
  PROVE  InitPool(w) \subseteq SignedRange(w)
<1>1. /\ Half[w] \in Nat /\ Half[w] > 0
      /\ Half[Narrowest] \in Nat /\ Half[Narrowest] > 0
  BY WidthsAssumption, HalfPositive
<1>2. w # Narrowest => 2 * Half[Narrowest] <= Half[w]
  BY WidthsAssumption
<1>3. ASSUME NEW i \in UnsignedRange(Narrowest)
      PROVE  ToPool(w, i) \in SignedRange(w)
  <2>1. CASE w = Narrowest
    BY <1>1, <2>1 DEF ToPool, SignedRange, UnsignedRange
  <2>2. CASE w # Narrowest
    BY <1>1, <1>2, <2>2 DEF ToPool, SignedRange, UnsignedRange
  <2>3. QED
    BY <2>1, <2>2
<1>4. {p \in Powers : p < Half[w]} \subseteq SignedRange(w)
  <2>1. Powers \subseteq Nat
    BY ValuesAssumption
  <2>2. ASSUME NEW p \in Powers, p < Half[w] PROVE p \in SignedRange(w)
    BY <1>1, <2>1, <2>2 DEF SignedRange
  <2>3. QED
    BY <2>2
<1>5. -1 \in SignedRange(w)
  BY <1>1 DEF SignedRange
<1>6. QED
  BY <1>3, <1>4, <1>5 DEF InitPool
-------------------------------------------------------------------------------
\* The 8 bit pool keeps every value it started with, and gets no other.
BytesPreloaded == pools[Narrowest] = SignedRange(Narrowest)

\* An element nobody can pay for is the value it was added with.
DearUnhalved ==
  \A k \in DOMAIN bigPool : k > MostEther => bigPool[k] = k

\* A returned value of type T can still be drawn, but for the exceptions.
Returned(T, v) ==
  /\ T \in IntTypes => v \in Fill(T)
  /\ T = BigIntType => v \in DOMAIN bigPool

\* This holds of the value remembered.
WitnessDrawable ==
  witness # None => witness[1] \in LeafTypes /\ Returned(witness[1], witness[2])

\* What the pools hold suffices for every argument, and for the returned value
\* remembered in witness.
IInv == TypeOK /\ BytesPreloaded /\ DearUnhalved /\ WitnessDrawable /\ ArgsFit

LEMMA Initially == Init => IInv
<1> SUFFICES ASSUME Init PROVE IInv
  OBVIOUS
<1>1. TypeOK
  <2>1. \A w \in Widths : pools[w] \subseteq SignedRange(w) /\ pools[w] \subseteq Int
    <3> SUFFICES ASSUME NEW w \in Widths
                 PROVE  pools[w] \subseteq SignedRange(w) /\ pools[w] \subseteq Int
      OBVIOUS
    <3>1. pools[w] \subseteq SignedRange(w)
      BY InitPoolTyped DEF Init
    <3>2. SignedRange(w) \subseteq Int
      BY HalfPositive DEF SignedRange
    <3>3. QED
      BY <3>1, <3>2
  <2>2. pools \in [Widths -> SUBSET Int]
    BY <2>1 DEF Init
  <2>3. DOMAIN bigPool \subseteq Nat /\ bigPool \in [DOMAIN bigPool -> Nat]
    BY ValuesAssumption DEF Init
  <2>4. QED
    BY <2>1, <2>2, <2>3 DEF TypeOK
<1>2. BytesPreloaded
  <2>1. pools[Narrowest] = InitPool(Narrowest)
    BY WidthsAssumption DEF Init
  <2>2. InitPool(Narrowest) \subseteq SignedRange(Narrowest)
    BY WidthsAssumption, InitPoolTyped
  <2>3. SignedRange(Narrowest) \subseteq InitPool(Narrowest)
    BY BytesConvert DEF InitPool
  <2>4. QED
    BY <2>1, <2>2, <2>3 DEF BytesPreloaded
<1>3. DearUnhalved
  BY DEF Init, DearUnhalved
<1>4. QED
  BY <1>1, <1>2, <1>3 DEF Init, IInv, WitnessDrawable, ArgsFit

\* Building an argument draws values of its type.
LEMMA ConstructKeeps ==
  ASSUME IInv, NEW T \in LeafTypes, ConstructArg(T)
  PROVE  IInv'
<1>1. PICK v \in Fill(T) : arg' = <<T, v>>
  BY DEF ConstructArg
<1>2. UNCHANGED <<pools, bigPool, witness>>
  BY DEF ConstructArg
<1>3. TypeOK' /\ BytesPreloaded' /\ DearUnhalved' /\ WitnessDrawable'
  BY <1>2 DEF IInv, TypeOK, BytesPreloaded, DearUnhalved, WitnessDrawable, Returned, Fill
<1>4. ArgsFit'
  <2> SUFFICES ASSUME T \in IntTypes PROVE v \in Values(T)
    BY <1>1 DEF ArgsFit
  <2>1. PICK u \in pools[T.width] : v = FromPool(T, u)
    BY DEF Fill
  <2>2. u \in SignedRange(T.width)
    BY <2>1 DEF IInv, TypeOK, IntTypes
  <2>3. QED
    BY <2>1, <2>2, DrawnFits
<1>5. QED
  BY <1>3, <1>4 DEF IInv

\* Storing a returned value keeps the pools typed and makes the value drawable.
LEMMA UpdateKeeps ==
  ASSUME IInv, NEW T \in LeafTypes, UpdatePool(T)
  PROVE  IInv'
<1>1. PICK leaves \in LeafSets(Values(T)) \cup {{}} :
        /\ pools' = [w \in Widths |-> pools[w] \cup Stored(T, leaves, w)]
        /\ bigPool' = [k \in DOMAIN bigPool \cup StoredBig(T, leaves) |->
                         IF k \in DOMAIN bigPool THEN bigPool[k] ELSE k]
        /\ \/ UNCHANGED witness
           \/ witness = None /\ \E v \in leaves : witness' = <<T, v>>
  BY DEF UpdatePool
<1>2. leaves \subseteq Values(T)
  BY DEF LeafSets
<1>3. \A w \in Widths : /\ pools'[w] = pools[w] \cup Stored(T, leaves, w)
                        /\ Stored(T, leaves, w) \subseteq SignedRange(w)
  <2> SUFFICES ASSUME NEW w \in Widths PROVE Stored(T, leaves, w) \subseteq SignedRange(w)
    BY <1>1
  <2>1. CASE T \in IntTypes /\ w # Narrowest /\ w = T.width
    BY <1>2, <2>1, RoundTrip DEF Stored
  <2>2. CASE ~(T \in IntTypes /\ w # Narrowest /\ w = T.width)
    BY <2>2 DEF Stored
  <2>3. QED
    BY <2>1, <2>2
<1>4. TypeOK'
  <2>1. \A w \in Widths : pools'[w] \subseteq SignedRange(w) /\ SignedRange(w) \subseteq Int
    BY <1>3, HalfPositive DEF IInv, TypeOK, SignedRange
  <2>2. pools' \in [Widths -> SUBSET Int]
    <3>1. pools' = [w \in Widths |-> pools'[w]]
      BY <1>1
    <3>2. QED
      BY <2>1, <3>1
  <2>3. StoredBig(T, leaves) \subseteq Nat
    <3>1. CASE T = BigIntType
      BY <1>2, <3>1, LeafCases, ValuesAssumption DEF StoredBig, Values
    <3>2. CASE T # BigIntType
      BY <3>2 DEF StoredBig
    <3>3. QED
      BY <3>1, <3>2
  <2>4. DOMAIN bigPool' = DOMAIN bigPool \cup StoredBig(T, leaves)
    BY <1>1
  <2>5. DOMAIN bigPool \subseteq Nat /\ \A k \in DOMAIN bigPool : bigPool[k] \in Nat
    BY DEF IInv, TypeOK
  <2>6. bigPool' \in [DOMAIN bigPool' -> Nat]
    BY <1>1, <2>3, <2>5
  <2>7. QED
    BY <2>1, <2>2, <2>3, <2>4, <2>5, <2>6 DEF TypeOK
<1>5. BytesPreloaded'
  <2>1. Stored(T, leaves, Narrowest) = {}
    BY DEF Stored
  <2>2. QED
    BY <1>3, <2>1, WidthsAssumption DEF IInv, BytesPreloaded, SignedRange
<1>6. /\ DOMAIN bigPool \subseteq DOMAIN bigPool'
      /\ \A k \in DOMAIN bigPool' :
           bigPool'[k] = IF k \in DOMAIN bigPool THEN bigPool[k] ELSE k
  BY <1>1
<1>7. DearUnhalved'
  BY <1>6 DEF IInv, DearUnhalved
<1>8. ASSUME NEW U \in LeafTypes, NEW v, Returned(U, v) PROVE Returned(U, v)'
  <2>1. CASE U \in IntTypes
    <3>1. pools[U.width] \subseteq pools'[U.width]
      BY <1>3, <2>1 DEF IntTypes
    <3>2. U # BigIntType
      BY <2>1, LeafCases
    <3>3. QED
      BY <1>8, <2>1, <3>1, <3>2 DEF Returned, Fill
  <2>2. CASE U \notin IntTypes
    BY <1>6, <1>8, <2>2 DEF Returned
  <2>3. QED
    BY <2>1, <2>2
<1>9. ASSUME NEW v \in leaves PROVE Returned(T, v)'
  <2>1. CASE T \in IntTypes /\ T.width # Narrowest
    <3>1. ToPool(T.width, v) \in pools'[T.width]
      BY <1>3, <2>1 DEF Stored, IntTypes
    <3>2. FromPool(T, ToPool(T.width, v)) = v
      BY <1>2, <2>1, RoundTrip
    <3>3. T # BigIntType
      BY <2>1, LeafCases
    <3>4. QED
      BY <2>1, <3>1, <3>2, <3>3 DEF Returned, Fill
  <2>2. CASE T \in IntTypes /\ T.width = Narrowest
    <3>1. ToPool(T.width, v) \in pools'[T.width] /\ FromPool(T, ToPool(T.width, v)) = v
      BY <1>2, <1>5, <2>2, RoundTrip DEF BytesPreloaded, SignedRange
    <3>2. T # BigIntType
      BY <2>2, LeafCases
    <3>3. QED
      BY <2>2, <3>1, <3>2 DEF Returned, Fill
  <2>3. CASE T = BigIntType
    <3>1. T \notin IntTypes
      BY <2>3, LeafCases
    <3>2. v \in DOMAIN bigPool'
      BY <1>1, <2>3 DEF StoredBig
    <3>3. QED
      BY <3>1, <3>2 DEF Returned
  <2>4. CASE T = BoolType
    BY <2>4, LeafCases DEF Returned
  <2>5. QED
    BY <2>1, <2>2, <2>3, <2>4, LeafCases
<1>10. WitnessDrawable'
  <2>1. CASE UNCHANGED witness
    BY <1>8, <2>1 DEF IInv, WitnessDrawable
  <2>2. CASE \E v \in leaves : witness' = <<T, v>>
    BY <1>9, <2>2 DEF WitnessDrawable
  <2>3. QED
    BY <1>1, <2>1, <2>2
<1>11. ArgsFit'
  BY DEF UpdatePool, IInv, ArgsFit
<1>12. QED
  BY <1>4, <1>5, <1>7, <1>10, <1>11 DEF IInv

\* Halving an amount changes an element somebody can pay for, and no key.
LEMMA HalveKeeps ==
  ASSUME IInv, HalveAmount
  PROVE  IInv'
<1>1. PICK k \in DOMAIN bigPool :
        /\ bigPool[k] > 0 /\ bigPool[k] <= MostEther
        /\ bigPool' = [bigPool EXCEPT ![k] = @ \div 2]
  BY DEF HalveAmount
<1>2. UNCHANGED <<pools, arg, witness>>
  BY DEF HalveAmount
<1>3. /\ DOMAIN bigPool \subseteq Nat /\ MostEther \in Nat
      /\ \A j \in DOMAIN bigPool : bigPool[j] \in Nat
  BY ValuesAssumption DEF IInv, TypeOK
<1>4. /\ DOMAIN bigPool' = DOMAIN bigPool
      /\ \A j \in DOMAIN bigPool :
           bigPool'[j] = IF j = k THEN bigPool[k] \div 2 ELSE bigPool[j]
  BY <1>1
<1>5. TypeOK'
  <2>1. bigPool[k] \div 2 \in Nat
    BY <1>3
  <2>2. bigPool' \in [DOMAIN bigPool' -> Nat]
    BY <1>1, <1>3, <1>4, <2>1
  <2>3. QED
    BY <1>2, <1>3, <1>4, <2>2 DEF IInv, TypeOK, SignedRange
<1>6. DearUnhalved'
  <2>1. ~(k > MostEther)
    <3>1. SUFFICES ASSUME k > MostEther PROVE FALSE
      OBVIOUS
    <3>2. bigPool[k] = k
      BY <3>1 DEF IInv, DearUnhalved
    <3>3. QED
      BY <1>1, <1>3, <3>1, <3>2
  <2>2. QED
    BY <1>4, <2>1 DEF IInv, DearUnhalved
<1>7. WitnessDrawable'
  BY <1>2, <1>4, LeafCases DEF IInv, WitnessDrawable, Returned, Fill
<1>8. BytesPreloaded' /\ ArgsFit'
  BY <1>2 DEF IInv, BytesPreloaded, ArgsFit, SignedRange
<1>9. QED
  BY <1>5, <1>6, <1>7, <1>8 DEF IInv

LEMMA Inductive == IInv /\ [Next]_vars => IInv'
<1> SUFFICES ASSUME IInv, [Next]_vars PROVE IInv'
  OBVIOUS
<1>1. CASE Next
  BY <1>1, ConstructKeeps, UpdateKeeps, HalveKeeps DEF Next
<1>2. CASE UNCHANGED vars
  BY <1>2 DEF vars, IInv, TypeOK, BytesPreloaded, DearUnhalved, WitnessDrawable,
                  Returned, Fill, ArgsFit
<1>3. QED
  BY <1>1, <1>2

LEMMA Invariance == Spec => []IInv
  BY Initially, Inductive, PTL DEF Spec

\* Whatever was stored was converted to the range of its pool: no width gets the
\* values of another (updateRecursively, InitArgPool).
THEOREM TypeCorrect == Spec => []TypeOK
<1>1. IInv => TypeOK
  BY DEF IInv
<1>2. QED
  BY <1>1, Invariance, PTL

\* A drawn argument is a value of its type, for every width (fillRecursively).
THEOREM ArgumentsFit == Spec => []ArgsFit
<1>1. IInv => ArgsFit
  BY DEF IInv
<1>2. QED
  BY <1>1, Invariance, PTL

\* A returned value stays drawable for ever, but for the bools and for the big
\* integers an account can pay, which are halved once they are drawn as an amount
\* (updateRecursively, fillRecursively, Rec).
THEOREM ReturnedValuesRecur == Spec => []ReturnedRecurs
<1>1. IInv => ReturnedRecurs
  <2> SUFFICES ASSUME IInv, witness # None, witness[1] # BoolType
               PROVE  \/ witness[2] \in Fill(witness[1])
                      \/ witness[1] = BigIntType /\ witness[2] <= MostEther
    BY DEF ReturnedRecurs
  <2>1. witness[1] \in LeafTypes /\ Returned(witness[1], witness[2])
    BY DEF IInv, WitnessDrawable
  <2>2. CASE witness[1] \in IntTypes
    BY <2>1, <2>2 DEF Returned
  <2>3. CASE witness[1] = BigIntType /\ witness[2] > MostEther
    <3>1. witness[2] \in DOMAIN bigPool
      BY <2>1, <2>3 DEF Returned
    <3>2. bigPool[witness[2]] = witness[2]
      BY <2>3, <3>1 DEF IInv, DearUnhalved
    <3>3. witness[1] \notin IntTypes
      BY <2>1, <2>3, LeafCases
    <3>4. QED
      BY <2>3, <3>1, <3>2, <3>3 DEF Fill
  <2>4. CASE witness[1] = BigIntType /\ ~(witness[2] > MostEther)
    <3>1. witness[2] \in Nat /\ MostEther \in Nat
      BY <2>1, <2>4, ValuesAssumption DEF Returned, IInv, TypeOK
    <3>2. QED
      BY <2>4, <3>1
  <2>5. QED
    BY <2>1, <2>2, <2>3, <2>4, LeafCases
<1>2. QED
  BY <1>1, Invariance, PTL
===============================================================================
