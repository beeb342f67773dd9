------------------------------ MODULE Arguments ------------------------------
(***************************************************************************)
(* Values between contracts and pools (utils/args.go): fillRecursively      *)
(* builds an argument of an ABI type from pooled values, updateRecursively  *)
(* takes a returned value apart again.  Signed and unsigned integers of one *)
(* width share a signed pool; the values of all sizes Go has no type for    *)
(* share the *big.Int pool.                                                 *)
(*                                                                          *)
(* Simplifications.  A pool of Go integers is the set of its values, any of  *)
(* which may be drawn next: RingPool shows that draws bring each one nearer. *)
(* The *big.Int pool keeps its elements apart from the keys they were added  *)
(* under, because an amount that is drawn from it may be halved in place.    *)
(* A composite value is the set of its leaves, which the recursion visits    *)
(* one after the other.  Addresses, strings and bytes32 pass unconverted and *)
(* are left out.                                                             *)
(***************************************************************************)
EXTENDS Integers, FiniteSets

CONSTANTS
  Widths,               \* the integer widths with a Go type
  Narrowest, Widest,    \* int8 and int64
  Half,                 \* width w -> 2^(w-1)
  Powers,               \* the powers of two below 1E18
  Amounts,              \* the balances of the configured accounts
  BigValues,            \* bound: the other integers a contract returns
  MaxLeaves,            \* bound: the different leaves of a returned value
  MostEther,            \* the most ether an account can come to own
  BoolType, BigIntType, \* the leaf types that are no integers of a Go width
  None

ASSUME WidthsAssumption ==
  /\ Narrowest \in Widths /\ Widest \in Widths
  /\ Half \in [Widths -> Nat \ {0}]
  /\ \A w \in Widths \ {Narrowest} : 2 * Half[Narrowest] <= Half[w]
ASSUME ValuesAssumption ==
  /\ Powers \subseteq Nat /\ \A p \in Powers : p < Half[Widest]
  /\ Amounts \subseteq Nat /\ BigValues \subseteq Nat
  /\ MaxLeaves \in Nat \ {0} /\ MostEther \in Nat
  /\ BoolType # BigIntType
  /\ {BoolType, BigIntType} \cap [width : Widths, signed : BOOLEAN] = {}

VARIABLES
  pools,    \* Int8Pool to Int64Pool
  bigPool,  \* BigIntPool: key in storageMap -> value of the element added under it
  arg,      \* some leaf of the argument built last, and its type
  witness   \* history: some value a contract returned, and its type
vars == <<pools, bigPool, arg, witness>>

IntTypes == [width : Widths, signed : BOOLEAN]
LeafTypes == IntTypes \cup {BoolType, BigIntType}

SignedRange(w) == -Half[w] .. Half[w] - 1
UnsignedRange(w) == 0 .. 2 * Half[w] - 1

\* The values of a type as a contract sees it.
IntValues(T) == IF T.signed THEN SignedRange(T.width) ELSE UnsignedRange(T.width)
Values(T) == IF T \in IntTypes THEN IntValues(T)
             ELSE IF T = BoolType THEN BOOLEAN ELSE BigValues
-------------------------------------------------------------------------------
(* The conversions between a type and the pool of its width. *)

\* Slip: the unsigned value is stored as it is.
ToPoolUnchanged(w, v) == v

\* int16(val.Uint()) and the like: the upper half wraps to the negative numbers.
ToPool(w, v) == IF v < Half[w] THEN v ELSE v - 2 * Half[w]

\* Slip: the pooled value is handed out as it is.
FromPoolUnchanged(T, v) == v

\* uint16(argPool.NextInt16()) and the like.
FromPool(T, v) == IF T.signed \/ v >= 0 THEN v ELSE v + 2 * Half[T.width]

\* fillRecursively at a leaf: whatever is in the pool.  The value built for true
\* is dropped, so a bool is false.
Fill(T) == IF T \in IntTypes THEN {FromPool(T, v) : v \in pools[T.width]}
           ELSE IF T = BoolType THEN {FALSE} ELSE {bigPool[k] : k \in DOMAIN bigPool}

\* The leaves of a returned value: one, or those of an array or a slice.
LeafSets(S) == {leaves \in SUBSET S : leaves # {} /\ Cardinality(leaves) <= MaxLeaves}

\* updateRecursively at a leaf of an integer type: 8 bit values are ignored.
Stored(leaf, values, w) ==
  IF leaf \in IntTypes /\ w # Narrowest /\ w = leaf.width
  THEN {ToPool(w, v) : v \in values} ELSE {}

\* AddBigInt stores what storageMap has no key of.
StoredBig(leaf, values) == IF leaf = BigIntType THEN values \ DOMAIN bigPool ELSE {}
-------------------------------------------------------------------------------
\* InitArgPool: all bytes, converted to each width, the powers of two that fit
\* the wider ones, and -1 for int64.
InitPool(w) ==
  {ToPool(w, i) : i \in UnsignedRange(Narrowest)}
    \cup (IF w = Narrowest THEN {} ELSE {p \in Powers : p < Half[w]})
    \cup (IF w = Widest THEN {-1} ELSE {})

Init == /\ pools = [w \in Widths |-> InitPool(w)]
        /\ bigPool = [k \in {0} \cup Powers \cup Amounts |-> k]
        /\ arg = None
        /\ witness = None

\* ConstructArgs: each leaf of an argument is drawn from the pools, which keep it.
ConstructArg(T) ==
  /\ \E v \in Fill(T) : arg' = <<T, v>>
  /\ UNCHANGED <<pools, bigPool, witness>>

\* UpdatePool with a returned value; without leaves when unpacking it failed.
UpdatePool(T) ==
  /\ \E leaves \in LeafSets(Values(T)) \cup {{}} :
       /\ pools' = [w \in Widths |-> pools[w] \cup Stored(T, leaves, w)]
       /\ bigPool' = [k \in DOMAIN bigPool \cup StoredBig(T, leaves) |->
                        IF k \in DOMAIN bigPool THEN bigPool[k] ELSE k]
       /\ \/ UNCHANGED witness
          \/ witness = None /\ \E v \in leaves : witness' = <<T, v>>
  /\ UNCHANGED arg

\* Slip: the amount is drawn without comparing it with the balance.
HalveAnyAmount ==
  /\ \E k \in DOMAIN bigPool :
       /\ bigPool[k] > 0
       /\ bigPool' = [bigPool EXCEPT ![k] = @ \div 2]
  /\ UNCHANGED <<pools, arg, witness>>

\* A payable transaction drew an element its sender can afford as its amount,
\* and failed: Rec halves the element in place and leaves its key.
HalveAmount ==
  /\ \E k \in DOMAIN bigPool :
       /\ bigPool[k] > 0 /\ bigPool[k] <= MostEther
       /\ bigPool' = [bigPool EXCEPT ![k] = @ \div 2]
  /\ UNCHANGED <<pools, arg, witness>>

Next == \/ \E T \in LeafTypes : ConstructArg(T) \/ UpdatePool(T)
        \/ HalveAmount

Spec == Init /\ [][Next]_vars
-------------------------------------------------------------------------------
\* The pools hold what their Go type can hold: whatever was stored was converted
\* to the width and the sign of the pool.
TypeOK == /\ pools \in [Widths -> SUBSET Int]
          /\ \A w \in Widths : pools[w] \subseteq SignedRange(w)
          /\ DOMAIN bigPool \subseteq Nat
          /\ bigPool \in [DOMAIN bigPool -> Nat]

\* An argument of a type with a Go width is a value of that type, although the
\* pool it comes from was also filled by values of the other sign (args.go:43-58).
ArgsFit == arg # None /\ arg[1] \in IntTypes => arg[2] \in Values(arg[1])

\* What a contract returned can be passed to a contract as the same type again,
\* whatever was returned and halved in between: through the conversion to the pool
\* and back for integers, through the preloaded bytes for the 8 bit types, which
\* are never stored (args.go:97).  There are two exceptions.  A bool is never
\* drawn true; and a big integer an account can pay may be drawn as an amount and
\* halved (heuristics.go:162), and is not stored when it is returned again.
ReturnedRecurs ==
  witness # None /\ witness[1] # BoolType =>
    \/ witness[2] \in Fill(witness[1])
    \/ witness[1] = BigIntType /\ witness[2] <= MostEther
===============================================================================
