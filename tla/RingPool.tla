------------------------------- MODULE RingPool -------------------------------
(***************************************************************************)
(* The circular value pool of argpool/pool.go.  The pools of the fixed      *)
(* width integers, of bytes32 and of strings (int8pool.go ... stringpool.go)*)
(* are the same code with another element type.  Pools are filled through   *)
(* ArgPool.AddX, which looks the value up in storageMap first, and read     *)
(* through Next(), which walks storage circularly and may run between any   *)
(* two AddX calls: UpdatePool adds the values a transaction returned while  *)
(* the cursor stands anywhere in the buffer.                                *)
(***************************************************************************)
EXTENDS Integers, Sequences, Functions

CONSTANTS Items,   \* the values a pool can hold
          NoItem   \* the nil an empty pool hands out

ASSUME ItemsAssumption == NoItem \notin Items

VARIABLES storage,     \* the elements, in insertion order
          storageMap,  \* the keys used for deduplication
          idx,         \* 0-based position of the element Next() hands out
          out          \* the value handed out last
vars == <<storage, storageMap, idx, out>>

\* The element Next() is about to hand out (Go's storage[p.idx]).
Current == storage[idx + 1]

Contains(item) == item \in storageMap

Init == /\ storage = <<>>
        /\ storageMap = {}
        /\ idx = 0
        /\ out = NoItem

\* Slip: the lookup is forgotten.
AddItemUnchecked(item) == /\ storage' = Append(storage, item)
                          /\ storageMap' = storageMap \cup {item}
                          /\ UNCHANGED <<idx, out>>

\* Slip: a new value restarts the round.
AddItemRestarting(item) == /\ ~Contains(item)
                           /\ storage' = Append(storage, item)
                           /\ storageMap' = storageMap \cup {item}
                           /\ idx' = 0
                           /\ UNCHANGED out

\* ArgPool.AddX: the lookup and, for a new value, pool.Add.
AddItem(item) == /\ ~Contains(item)
                 /\ storage' = Append(storage, item)
                 /\ storageMap' = storageMap \cup {item}
                 /\ UNCHANGED <<idx, out>>

\* Slip: the cursor is not wrapped.
NextItemUnwrapped == /\ storage # <<>>
                     /\ idx < Len(storage)
                     /\ out' = Current
                     /\ idx' = idx + 1
                     /\ UNCHANGED <<storage, storageMap>>

\* Slip: the cursor is wrapped one element early.
NextItemSkipsLast == /\ storage # <<>>
                     /\ out' = Current
                     /\ idx' = IF idx + 2 < Len(storage) THEN idx + 1 ELSE 0
                     /\ UNCHANGED <<storage, storageMap>>

\* pool.Next on a non-empty pool ...
NextItem == /\ storage # <<>>
            /\ out' = Current
            /\ idx' = (idx + 1) % Len(storage)
            /\ UNCHANGED <<storage, storageMap>>

\* ... and on an empty one.
NextOfEmpty == /\ storage = <<>>
               /\ out' = NoItem
               /\ UNCHANGED <<storage, storageMap, idx>>

Next == NextItem \/ NextOfEmpty \/ \E item \in Items : AddItem(item)

Spec == Init /\ [][Next]_vars /\ WF_vars(NextItem)
-------------------------------------------------------------------------------
\* The cursor stays inside the buffer (Next() indexes storage unchecked).
TypeOK == /\ storage \in Seq(Items)
          /\ storageMap \subseteq Items
          /\ idx \in Nat
          /\ IF storage = <<>> THEN idx = 0 ELSE idx < Len(storage)
          /\ out \in Items \cup {NoItem}

\* What pool.go:36 says of the map: Contains() answers whether the buffer
\* holds the value.
ContainsTruthful == \A item \in Items : Contains(item) <=> item \in Range(storage)

\* The map and the buffer agree and no value is stored twice, however AddX and
\* Next interleave (pool.Add, ArgPool.AddX).
Deduplicated == ContainsTruthful /\ IsInjective(storage)

\* The values from the cursor on are the ones the current round still owes.
Pending == {storage[j] : j \in idx + 1 .. Len(storage)}

Abstract == INSTANCE FairPool WITH members <- storageMap, pending <- Pending

\* The buffer implements the rounds of FairPool: between two deliveries of a
\* value every other value the pool held is delivered, also when values were
\* appended behind the cursor in between (pool.Next, pool.Add).
ImplementsFairPool == Abstract!Spec

\* The draws that come before the one that hands out a value of the pool.
Position(item) == CHOOSE j \in DOMAIN storage : storage[j] = item
Wait(item) == IF Position(item) > idx THEN Position(item) - idx - 1
              ELSE Len(storage) - idx + Position(item) - 1

\* A value is put off by appends alone: each draw hands it out or brings it one
\* draw nearer, each append delays it by one draw, and only if the cursor has
\* passed it.  So a value comes back unless values are appended as fast as they
\* are drawn, which pool.go:50 does not exclude: Next wraps at the length of the
\* moment.
DrawsComeNearer ==
  [][\A item \in storageMap :
       IF storage' = storage
       THEN IF Wait(item) = 0 THEN out' = item ELSE Wait(item)' = Wait(item) - 1
       ELSE Wait(item)' = Wait(item) + (IF Position(item) > idx THEN 0 ELSE 1)]_vars
===============================================================================
