---------------------------- MODULE DeploymentProofs ----------------------------
(***************************************************************************)
(* The deployment of any projects, in any order of Go's maps: what a refused *)
(* transaction does to the ones after it, which timestamps the clock has     *)
(* when fuzzing begins, and which contracts and methods are fuzzed.          *)
(***************************************************************************)
EXTENDS Deployment, FiniteSetTheorems, SequenceTheorems, TLAPS

\* A project is at hand, and every sender has a nonce.
Prepared == pc = "replay" => /\ metadata \in DOMAIN Metadata
                             /\ SendersKnown(metadata, DOMAIN nonce)

Counted == /\ position \in Nat \ {0}
           /\ executed \subseteq 1 .. position - 1
           /\ \A a \in DOMAIN nonce : nonce[a] \in Nat

\* Every nonce below the next one of an account was used by a transaction.
NoncesUsed ==
  \A a \in DOMAIN nonce : \A n \in 0 .. nonce[a] - 1 :
    \E j \in executed : Transactions[j].from = a /\ Transactions[j].nonce = n

ReplayInv == Prepared /\ Counted /\ NoncesUsed /\ ReplayIsPrefix

\* What the steps before and after the replay leave alone.
Kept == UNCHANGED <<metadata, nonce, position, executed>>

LEMMA KeptPreserves ==
  ASSUME ReplayInv, Kept, pc' = "replay" => pc = "replay"
  PROVE  ReplayInv'
<1>1. Transactions' = Transactions
  BY DEF Kept, Transactions
<1>2. Prepared' /\ Counted'
  BY DEF ReplayInv, Kept, Prepared, Counted
<1>3. NoncesUsed' /\ ReplayIsPrefix'
  BY <1>1 DEF ReplayInv, Kept, NoncesUsed, ReplayIsPrefix
<1> QED
  BY <1>2, <1>3 DEF ReplayInv

LEMMA NewBackendPreserves ==
  ASSUME ReplayInv, NEW p \in DOMAIN Metadata, NewBackend(p)
  PROVE  ReplayInv'
<1>1. /\ metadata' = p /\ position' = 1 /\ executed' = {}
      /\ nonce' = [a \in DOMAIN accounts' |-> 0]
  BY DEF NewBackend
<1>2. pc' = "replay" => SendersKnown(p, DOMAIN accounts')
  BY DEF NewBackend, Panic
<1>3. Prepared'
  BY <1>1, <1>2 DEF Prepared, SendersKnown
<1>4. Counted' /\ NoncesUsed' /\ ReplayIsPrefix'
  BY <1>1 DEF Counted, NoncesUsed, ReplayIsPrefix
<1> QED
  BY <1>3, <1>4 DEF ReplayInv

\* The transaction replayed next is one of the project's, and its sender is known.
LEMMA NextTransaction ==
  ASSUME ReplayInv, Replaying
  PROVE  tx.from \in DOMAIN nonce /\ tx.nonce \in Nat
<1>1. metadata \in DOMAIN Metadata /\ SendersKnown(metadata, DOMAIN nonce)
  BY DEF ReplayInv, Prepared, Replaying
<1>2. /\ Transactions \in Seq(Range(Transactions))
      /\ \A k \in DOMAIN Transactions : Transactions[k].nonce \in Nat
  BY <1>1, ProjectsAssumption DEF Transactions
<1>3. position \in DOMAIN Transactions
  <2>1. DOMAIN Transactions = 1 .. Len(Transactions) /\ Len(Transactions) \in Nat
    BY <1>2, LenProperties
  <2> QED
    BY <2>1 DEF ReplayInv, Counted, Replaying
<1>4. tx \in Range(Transactions)
  BY <1>3 DEF tx, Range
<1> QED
  BY <1>1, <1>2, <1>3, <1>4 DEF SendersKnown, Transactions, tx

LEMMA ExecutePreserves ==
  ASSUME ReplayInv, Execute
  PROVE  ReplayInv'
<1>1. /\ Replaying /\ nonce[tx.from] = tx.nonce
      /\ nonce' = [nonce EXCEPT ![tx.from] = @ + 1]
      /\ executed' = executed \cup {position}
      /\ position' = position + 1
      /\ metadata' = metadata
  BY DEF Execute, Applicable, ExecuteUpTo
<1>2. tx.from \in DOMAIN nonce /\ tx.nonce \in Nat
  BY <1>1, NextTransaction
<1>3. Transactions' = Transactions
  BY <1>1 DEF Transactions
<1>4. Prepared'
  BY <1>1 DEF ReplayInv, Prepared, Replaying, SendersKnown
<1>5. Counted'
  BY <1>1, <1>2 DEF ReplayInv, Counted
<1>6. NoncesUsed'
  <2> SUFFICES ASSUME NEW a \in DOMAIN nonce, NEW n \in 0 .. nonce'[a] - 1
               PROVE  \E j \in executed' : /\ Transactions[j].from = a
                                           /\ Transactions[j].nonce = n
    BY <1>1, <1>3 DEF NoncesUsed
  <2>1. CASE n \in 0 .. nonce[a] - 1
    BY <1>1, <2>1 DEF ReplayInv, NoncesUsed
  <2>2. CASE n \notin 0 .. nonce[a] - 1
    <3>1. a = tx.from /\ n = tx.nonce
      BY <1>1, <1>2, <2>2 DEF ReplayInv, Counted
    <3> QED
      BY <1>1, <3>1 DEF tx
  <2> QED
    BY <2>1, <2>2
<1>7. ReplayIsPrefix'
  <2> SUFFICES ASSUME NEW k \in executed', NEW n \in 0 .. Transactions[k].nonce - 1
               PROVE  \E j \in executed' : /\ j < k
                                           /\ Transactions[j].from = Transactions[k].from
                                           /\ Transactions[j].nonce = n
    BY <1>3 DEF ReplayIsPrefix
  <2>1. CASE k \in executed
    BY <1>1, <2>1 DEF ReplayInv, ReplayIsPrefix
  <2>2. CASE k = position
    <3>1. n \in 0 .. nonce[tx.from] - 1 /\ Transactions[k] = tx
      BY <1>1, <2>2 DEF tx
    <3>2. PICK j \in executed : Transactions[j].from = tx.from /\ Transactions[j].nonce = n
      BY <1>2, <3>1 DEF ReplayInv, NoncesUsed
    <3>3. j < k
      BY <2>2 DEF ReplayInv, Counted
    <3> QED
      BY <1>1, <3>1, <3>2, <3>3
  <2> QED
    BY <1>1, <2>1, <2>2
<1> QED
  BY <1>4, <1>5, <1>6, <1>7 DEF ReplayInv

LEMMA RefusePreserves ==
  ASSUME ReplayInv, Refuse
  PROVE  ReplayInv'
<1>1. /\ position' = position + 1
      /\ UNCHANGED <<pc, metadata, nonce, executed>>
  BY DEF Refuse
<1>2. Transactions' = Transactions
  BY <1>1 DEF Transactions
<1>3. Prepared' /\ Counted'
  BY <1>1 DEF ReplayInv, Prepared, Counted, SendersKnown
<1>4. NoncesUsed' /\ ReplayIsPrefix'
  BY <1>1, <1>2 DEF ReplayInv, NoncesUsed, ReplayIsPrefix
<1> QED
  BY <1>3, <1>4 DEF ReplayInv

LEMMA OthersKeep ==
  ASSUME \/ FinishReplay \/ BeginConfig \/ FinishConfig \/ Fuzz \/ HalveAmount \/ Reset \/ Stop
         \/ IgnoreContractMethod
         \/ \E c \in todo : ListContract(c) \/ ProcessConfig(c)
         \/ UNCHANGED vars
  PROVE  Kept /\ (pc' = "replay" => pc = "replay")
<1>1. CASE FinishReplay \/ BeginConfig \/ FinishConfig \/ Fuzz \/ HalveAmount \/ Reset
  BY <1>1 DEF FinishReplay, BeginConfig, FinishConfig, BetweenContracts, Fuzz, HalveAmount, Panic, Reset, Kept, chain
<1>2. ASSUME NEW c \in todo, ListContract(c) PROVE Kept /\ pc' # "replay"
  BY <1>2 DEF ListContract, Panic, Kept, chain
<1>3. ASSUME NEW c \in todo, ProcessConfig(c) PROVE Kept /\ pc' # "replay"
  BY <1>3 DEF ProcessConfig, BetweenContracts, Kept, chain
<1>4. CASE IgnoreContractMethod
  BY <1>4 DEF IgnoreContractMethod, Kept, chain
<1>5. CASE Stop \/ UNCHANGED vars
  BY <1>5 DEF Stop, vars, Kept, chain
<1> QED
  BY <1>1, <1>2, <1>3, <1>4, <1>5

LEMMA ReplayStep == ReplayInv /\ [Next]_vars => ReplayInv'
<1> SUFFICES ASSUME ReplayInv, [Next]_vars PROVE ReplayInv'
  OBVIOUS
<1>1. ASSUME NEW p \in DOMAIN Metadata, NewBackend(p) PROVE ReplayInv'
  BY <1>1, NewBackendPreserves
<1>2. CASE Execute
  BY <1>2, ExecutePreserves
<1>3. CASE Refuse
  BY <1>3, RefusePreserves
<1>4. CASE \/ FinishReplay \/ BeginConfig \/ FinishConfig \/ Fuzz \/ HalveAmount \/ Reset \/ Stop
           \/ IgnoreContractMethod
           \/ \E c \in todo : ListContract(c) \/ ProcessConfig(c)
           \/ UNCHANGED vars
  BY <1>4, OthersKeep, KeptPreserves
<1> QED
  BY <1>1, <1>2, <1>3, <1>4 DEF Next

\* A refused transaction stops every later one of its sender (backend.go:184), so
\* that no contract is registered at the address of another transaction.
THEOREM ReplayedInOrder == Spec => []ReplayIsPrefix
<1>1. Init => ReplayInv
  BY DEF Init, ReplayInv, Prepared, Counted, NoncesUsed, ReplayIsPrefix
<1>2. ReplayInv => ReplayIsPrefix
  BY DEF ReplayInv
<1> QED
  BY <1>1, <1>2, ReplayStep, PTL DEF Spec
-------------------------------------------------------------------------------
(* The timestamps, from one place of the program to the next. *)

Replayed == {w \in Pushed(logged) : InRange(w)}
Configured(contracts) == UNION {fuzzingConfig[c].timestamps : c \in contracts}

ClockInv ==
  /\ pc \in Places
  /\ pc = "start" => timestamps = {}
  /\ pc \in {"replay", "listing"} => timestamps = Replayed
  /\ pc = "configuring" => /\ todo \subseteq DOMAIN fuzzingConfig
                           /\ timestamps = Replayed \cup Configured(DOMAIN fuzzingConfig \ todo)
  /\ TimestampsExact

LEMMA ClockStep == ClockInv /\ [Next]_vars => ClockInv'
<1> SUFFICES ASSUME ClockInv, [Next]_vars PROVE ClockInv'
  OBVIOUS
<1>1. ASSUME NEW p \in DOMAIN Metadata, NewBackend(p) PROVE ClockInv'
  <2>1. pc' \in {"replay", "panicked"} /\ timestamps' = {} /\ logged' = {}
    BY <1>1 DEF NewBackend, Panic, ClockInv
  <2>2. Replayed' = {}
    BY <2>1 DEF Replayed, Pushed
  <2> QED
    BY <2>1, <2>2 DEF ClockInv, Places, TimestampsExact, Ready
<1>2. CASE Execute
  <2>1. PICK n \in 0 .. Len(tx.trace), success \in BOOLEAN : ExecuteUpTo(n, success)
    BY <1>2 DEF Execute
  <2> DEFINE done == SubSeq(tx.trace, 1, n)
  <2>2. /\ timestamps' = timestamps \cup {w \in Pushed(Range(done)) : InRange(w)}
        /\ logged' = logged \cup Range(done)
    BY <2>1 DEF ExecuteUpTo
  <2>3. pc = "replay" /\ pc' \in {"replay", "panicked"}
    BY <1>2, <2>1 DEF Execute, Replaying, ExecuteUpTo, Panic
  <2>4. timestamps' = Replayed'
    <3> HIDE DEF done
    <3> QED
      BY <2>2, <2>3 DEF ClockInv, Replayed, Pushed, InRange
  <2> QED
    BY <2>3, <2>4 DEF ClockInv, Places, TimestampsExact, Ready
<1>3. CASE Refuse
  BY <1>3 DEF Refuse, Replaying, ClockInv, Replayed, TimestampsExact, Ready
<1>4. CASE FinishReplay
  BY <1>4 DEF FinishReplay, chain, ClockInv, Replayed, Places, TimestampsExact, Ready
<1>5. ASSUME NEW c \in todo, ListContract(c) PROVE ClockInv'
  BY <1>5 DEF ListContract, Panic, chain, ClockInv, Replayed, Places, TimestampsExact, Ready
<1>6. CASE BeginConfig
  <2>1. /\ pc = "listing" /\ pc' = "configuring" /\ todo' = DOMAIN fuzzingConfig'
        /\ UNCHANGED <<timestamps, logged>>
    BY <1>6 DEF BeginConfig, chain
  <2>2. Configured(DOMAIN fuzzingConfig \ todo)' = {}
    BY <2>1 DEF Configured
  <2> QED
    BY <2>1, <2>2 DEF ClockInv, Replayed, Places, TimestampsExact, Ready
<1>7. ASSUME NEW c \in todo, ProcessConfig(c) PROVE ClockInv'
  <2>1. /\ pc = "configuring" /\ todo' = todo \ {c}
        /\ timestamps' = timestamps \cup fuzzingConfig[c].timestamps
        /\ UNCHANGED <<pc, fuzzingConfig, logged>>
    BY <1>7 DEF ProcessConfig, BetweenContracts, caches, chain
  <2>2. Configured(DOMAIN fuzzingConfig \ todo)'
          = Configured(DOMAIN fuzzingConfig \ todo) \cup fuzzingConfig[c].timestamps
    <3>1. DOMAIN fuzzingConfig \ (todo \ {c}) = (DOMAIN fuzzingConfig \ todo) \cup {c}
      BY <2>1 DEF ClockInv
    <3> QED
      BY <2>1, <3>1 DEF Configured
  <2> QED
    BY <2>1, <2>2 DEF ClockInv, Replayed, Places, TimestampsExact, Ready
<1>8. CASE IgnoreContractMethod
  <2>1. /\ pc = "configuring"
        /\ UNCHANGED <<pc, todo, timestamps, fuzzingConfig, logged>>
    BY <1>8 DEF IgnoreContractMethod, caches, chain
  <2>2. Configured(DOMAIN fuzzingConfig \ todo)' = Configured(DOMAIN fuzzingConfig \ todo)
    BY <2>1 DEF Configured
  <2> QED
    BY <2>1, <2>2 DEF ClockInv, Replayed, Places, TimestampsExact, Ready
<1>9. CASE FinishConfig
  <2>1. /\ pc = "configuring" /\ todo = {} /\ pc' \in {"exited", "deployed"}
        /\ UNCHANGED <<timestamps, logged, fuzzingConfig>>
    BY <1>9 DEF FinishConfig, BetweenContracts, caches, chain
  <2>2. timestamps = Replayed \cup Configured(DOMAIN fuzzingConfig)
    BY <2>1 DEF ClockInv
  <2> QED
    BY <2>1, <2>2 DEF ClockInv, Replayed, Configured, Places, TimestampsExact, Ready
<1>10. CASE Fuzz
  <2>1. /\ pc = "deployed" /\ pc' \in {"fuzzed", "panicked"}
        /\ UNCHANGED <<timestamps, logged, fuzzingConfig>>
    BY <1>10 DEF Fuzz, Panic, caches, chain
  <2> QED
    BY <2>1 DEF ClockInv, Places, TimestampsExact, Ready
<1>11. CASE Reset
  BY <1>11 DEF Reset, ResetArgPool, ClockInv, Places, TimestampsExact, Ready
<1>12. CASE HalveAmount
  BY <1>12 DEF HalveAmount, chain, ClockInv, Replayed, Places, TimestampsExact, Ready
<1>13. CASE Stop \/ UNCHANGED vars
  BY <1>13 DEF Stop, vars, caches, chain, targets, ClockInv, Replayed, Configured,
     TimestampsExact, Ready
<1> QED
  BY <1>1, <1>2, <1>3, <1>4, <1>5, <1>6, <1>7, <1>8, <1>9, <1>10, <1>11, <1>12, <1>13 DEF Next

\* When fuzzing begins the clock has the timestamps the replay pushed and all the
\* configured ones, and none of an earlier project (contracts.go:316, argpool.go:188).
THEOREM TimestampsAreExact == Spec => []TimestampsExact
<1>1. Init => ClockInv
  BY DEF Init, ClockInv, Places, TimestampsExact, Ready
<1>2. ClockInv => TimestampsExact
  BY DEF ClockInv
<1> QED
  BY <1>1, <1>2, ClockStep, PTL DEF Spec
-------------------------------------------------------------------------------
(* Lists without repetition. *)

Lists(seq, set) == seq \in Seq(set) /\ IsInjective(seq) /\ Range(seq) = set

LEMMA OwnRange ==
  ASSUME NEW S, NEW s \in Seq(S)
  PROVE  s \in Seq(Range(s)) /\ Range(s) \subseteq S
<1>1. Len(s) \in Nat /\ s \in [1 .. Len(s) -> S]
  OBVIOUS
<1>2. s \in [1 .. Len(s) -> Range(s)]
  BY <1>1 DEF Range
<1> QED
  BY <1>1, <1>2 DEF Range

LEMMA HeadAndTail ==
  ASSUME NEW S, NEW s \in Seq(S), s # <<>>
  PROVE  Range(s) = {Head(s)} \cup Range(Tail(s))
<1>1. /\ Len(s) \in Nat \ {0} /\ DOMAIN s = 1 .. Len(s) /\ Head(s) = s[1]
      /\ DOMAIN Tail(s) = 1 .. Len(s) - 1
      /\ \A i \in 1 .. Len(s) - 1 : Tail(s)[i] = s[i + 1]
  BY EmptySeq
<1>2. \A i \in 1 .. Len(s) : i = 1 \/ i - 1 \in 1 .. Len(s) - 1
  BY <1>1
<1>3. \A i \in 1 .. Len(s) - 1 : i + 1 \in 1 .. Len(s)
  BY <1>1
<1>4. Range(s) \subseteq {Head(s)} \cup Range(Tail(s))
  <2> SUFFICES ASSUME NEW i \in 1 .. Len(s), i # 1 PROVE s[i] \in Range(Tail(s))
    BY <1>1 DEF Range
  <2>1. i - 1 \in 1 .. Len(s) - 1 /\ s[i] = Tail(s)[i - 1]
    BY <1>1, <1>2
  <2> QED
    BY <1>1, <2>1 DEF Range
<1>5. {Head(s)} \cup Range(Tail(s)) \subseteq Range(s)
  BY <1>1, <1>3 DEF Range
<1> QED
  BY <1>4, <1>5

LEMMA EmptyList == Lists(<<>>, {})
<1>1. <<>> \in Seq({}) /\ DOMAIN <<>> = {}
  OBVIOUS
<1> QED
  BY <1>1 DEF Lists, IsInjective, Range

LEMMA AppendLists ==
  ASSUME NEW S, NEW s, Lists(s, S), NEW v, v \notin S
  PROVE  Lists(Append(s, v), S \cup {v})
<1> DEFINE r == Append(s, v)
<1>1. s \in Seq(S) /\ Len(s) \in Nat /\ DOMAIN s = 1 .. Len(s)
  BY DEF Lists
<1>2. r \in Seq(S \cup {v}) /\ DOMAIN r = 1 .. Len(s) + 1
  BY <1>1
<1>3. r[Len(s) + 1] = v /\ \A i \in DOMAIN s : r[i] = s[i]
  BY <1>1
<1>4. \A i \in DOMAIN s : s[i] \in S /\ s[i] # v
  BY <1>1
<1> HIDE DEF r
<1>5. IsInjective(r)
  BY <1>1, <1>2, <1>3, <1>4 DEF Lists, IsInjective
<1>6. Range(r) = S \cup {v}
  BY <1>1, <1>2, <1>3 DEF Lists, Range
<1> QED
  BY <1>2, <1>5, <1>6 DEF Lists, r

\* Deleting from a list without repetition removes the value and nothing else.
LEMMA Deleted ==
  ASSUME NEW S, NEW a \in Seq(S), IsInjective(a), NEW val
  PROVE  /\ deleteFromSlice(val, a) \in Seq(S)
         /\ IsInjective(deleteFromSlice(val, a))
         /\ Range(deleteFromSlice(val, a)) = Range(a) \ {val}
<1> DEFINE n == Len(a)
<1>1. n \in Nat /\ DOMAIN a = 1 .. n /\ \A j \in 1 .. n : a[j] \in S
  OBVIOUS
<1>2. CASE val \notin Range(a)
  BY <1>2 DEF deleteFromSlice
<1>3. CASE val \in Range(a)
  <2> DEFINE First(j) == a[j] = val /\ \A k \in 1 .. j - 1 : a[k] # val
             i == CHOOSE j \in DOMAIN a : First(j)
             b == [a EXCEPT ![i] = a[n]]
             r == SubSeq(b, 1, n - 1)
  <2>1. \E j \in DOMAIN a : First(j)
    <3>1. PICK j \in DOMAIN a : a[j] = val
      BY <1>3 DEF Range
    <3>2. \A k \in 1 .. j - 1 : k \in DOMAIN a /\ k # j
      BY <1>1
    <3> QED
      BY <3>1, <3>2 DEF IsInjective
  <2>2. i \in 1 .. n /\ a[i] = val
    BY <1>1, <2>1
  <2>3. deleteFromSlice(val, a) = r
    BY <1>3 DEF deleteFromSlice
  <2> HIDE DEF First, i
  <2>4. b \in Seq(S) /\ Len(b) = n
    BY <1>1, <2>2
  <2>5. \A j \in 1 .. n : b[j] = IF j = i THEN a[n] ELSE a[j]
    BY <1>1
  <2> HIDE DEF b
  <2>6. r \in Seq(S) /\ DOMAIN r = 1 .. n - 1
    BY <1>1, <2>2, <2>4
  <2>7. \A j \in 1 .. n - 1 : r[j] = IF j = i THEN a[n] ELSE a[j]
    BY <1>1, <2>2, <2>4, <2>5
  <2> HIDE DEF r
  <2>8. IsInjective(r)
    BY <1>1, <2>2, <2>6, <2>7 DEF IsInjective
  <2>9. Range(r) \subseteq Range(a) \ {val}
    BY <1>1, <2>2, <2>6, <2>7 DEF IsInjective, Range
  <2>10. Range(a) \ {val} \subseteq Range(r)
    <3> SUFFICES ASSUME NEW j \in 1 .. n, a[j] # val PROVE \E k \in 1 .. n - 1 : r[k] = a[j]
      BY <1>1, <2>6 DEF Range
    <3>0. n \in Nat /\ j # i
      BY <1>1, <2>2
    <3> HIDE DEF n
    <3>1. CASE j # n
      <4>1. j \in 1 .. n - 1
        BY <3>0, <3>1
      <4> QED
        BY <2>7, <3>0, <4>1
    <3>2. CASE j = n
      <4>1. i \in 1 .. n - 1
        BY <2>2, <3>0, <3>2
      <4> QED
        BY <2>7, <3>2, <4>1
    <3> QED
      BY <3>1, <3>2
  <2> QED
    BY <2>3, <2>6, <2>8, <2>9, <2>10
<1> QED
  BY <1>2, <1>3

LEMMA DeletedLists ==
  ASSUME NEW S, NEW a, Lists(a, S), NEW val
  PROVE  Lists(deleteFromSlice(val, a), S \ {val})
<1> DEFINE r == deleteFromSlice(val, a)
<1>1. r \in Seq(S) /\ IsInjective(r) /\ Range(r) = S \ {val}
  BY Deleted DEF Lists
<1> HIDE DEF r
<1>2. r \in Seq(Range(r))
  BY <1>1, OwnRange
<1> QED
  BY <1>1, <1>2 DEF Lists, r

\* An order of a finite set has each element once.
LEMMA OrderLists ==
  ASSUME NEW S, IsFiniteSet(S), NEW q \in SetToSeqs(S)
  PROVE  Lists(q, S)
<1> DEFINE D == 1 .. Cardinality(S)
<1>1. Cardinality(S) \in Nat
  BY FS_CardinalityType
<1>2. q \in [D -> S] /\ \A i, j \in D : i # j => q[i] # q[j]
  BY DEF SetToSeqs
<1>3. q \in Injection(D, S)
  BY <1>2 DEF Injection, IsInjective
<1>4. IsFiniteSet(D) /\ Cardinality(D) = Cardinality(S)
  BY <1>1, FS_Interval
<1>5. q \in Surjection(D, S)
  BY <1>3, <1>4, FS_Injection
<1>6. q \in Seq(S) /\ IsInjective(q) /\ DOMAIN q = D
  BY <1>1, <1>2 DEF IsInjective
<1>7. Range(q) = S
  BY <1>2, <1>5, <1>6 DEF Surjection, Range
<1> QED
  BY <1>6, <1>7 DEF Lists
-------------------------------------------------------------------------------
(* What is fuzzed, from one place of the program to the next. *)

CompiledContracts == Project(metadata).contracts
Creations == {<<t.from, t.nonce>> : t \in Range(Transactions)}
CompiledMethods == UNION {CompiledContracts[c].methods : c \in DOMAIN CompiledContracts}
Contract == [addresses : Seq(Creations), methods : Seq(CompiledMethods)]

PlacesTyped == /\ pc \in Places /\ reason \in Panics \cup {None}
               /\ pc = "panicked" <=> reason # None
               /\ runs \in 0 .. MaxRuns

\* The ether of the accounts that were read, and of the chain.
LedgerTyped ==
  /\ pc # "start" \/ accounts # None => \A a \in DOMAIN accounts : accounts[a] \in Nat
  /\ \A a \in DOMAIN balance : balance[a] \in Nat
  /\ DOMAIN nonce = DOMAIN balance

ContractsTyped ==
  /\ \A c \in DOMAIN DeployedContracts :
       DeployedContracts[c] \in Contract /\ DeployedContracts[c].addresses # <<>>
  /\ ignoring = [contract |-> ignoring.contract, methods |-> ignoring.methods]
  /\ ignoring.methods \in Seq(Range(ignoring.methods))

\* The artifacts are those of the project at hand; the configuration is that of some
\* project.
SourcesInv ==
  /\ IF pc = "start" THEN artifacts = None
     ELSE metadata \in DOMAIN Metadata /\ artifacts = ReadArtifacts(metadata)
  /\ pc = "configuring" \/ fuzzingConfig # None =>
       \E p \in DOMAIN Metadata : fuzzingConfig = Project(p).config

Deployable == {c \in FoundContracts : ~CompiledContracts[c].library}
HasMethods(c) == c # Migrations /\ CompiledContracts[c].methods # {}

\* The configuration has been applied to the contract, or is being applied.
Settled(c) == c \in DOMAIN fuzzingConfig \ todo
Remaining(c) == IF c = ignoring.contract THEN Range(ignoring.methods) ELSE {}
LeftMethods(c) ==
  CompiledContracts[c].methods \ (IF Settled(c) THEN Range(fuzzingConfig[c].ignored) ELSE {})

WhileReplaying ==
  /\ FoundContracts \subseteq DOMAIN CompiledContracts
  /\ DOMAIN DeployedContracts = FoundContracts
  /\ ContractsList = <<>> /\ ignoring.methods = <<>>

WhileListing ==
  /\ FoundContracts \subseteq DOMAIN CompiledContracts
  /\ DOMAIN DeployedContracts = Deployable
  /\ todo \subseteq Deployable /\ ignoring.methods = <<>>
  /\ \A c \in Deployable \ todo : Lists(DeployedContracts[c].methods, CompiledContracts[c].methods)
  /\ Lists(ContractsList, {c \in Deployable \ todo : HasMethods(c)})

WhileConfiguring ==
  /\ todo \subseteq DOMAIN fuzzingConfig
  /\ DOMAIN DeployedContracts =
       {c \in Deployable : ~(Settled(c) /\ fuzzingConfig[c].ignoreAll)}
  /\ \A c \in DOMAIN DeployedContracts :
       LET methods == DeployedContracts[c].methods IN
       IsInjective(methods) /\ Range(methods) \ Remaining(c) = LeftMethods(c)
  /\ ignoring.methods # <<>> => ignoring.contract \in DOMAIN DeployedContracts
  /\ Lists(ContractsList, {c \in DOMAIN DeployedContracts : HasMethods(c)})

TargetsInv ==
  /\ pc = "replay" => WhileReplaying
  /\ pc = "listing" => WhileListing
  /\ pc = "configuring" => WhileConfiguring
  /\ TargetsExact /\ PanicsExplained

LEMMA ProjectFacts ==
  ASSUME NEW p \in DOMAIN Metadata
  PROVE  /\ \A c \in DOMAIN Project(p).contracts : IsFiniteSet(Project(p).contracts[c].methods)
         /\ \A a \in DOMAIN Project(p).accounts : Project(p).accounts[a] \in Nat
         /\ \A c \in DOMAIN Project(p).config :
              /\ Project(p).config[c].ignored \in Seq(Range(Project(p).config[c].ignored))
              /\ Project(p).config[c].timestamps \subseteq Words
         /\ \A t \in Range(Project(p).transactions) :
              /\ t.value \in Nat /\ t.trace \in Seq(Range(t.trace))
              /\ \A e \in Range(t.trace) : e[1] = "PUSH" => e[2] \in Words
<1> DEFINE m == Project(p)
<1>1. \A k \in DOMAIN m.transactions :
        /\ m.transactions[k].value \in Nat
        /\ m.transactions[k].trace \in Seq(Range(m.transactions[k].trace))
        /\ \A e \in Range(m.transactions[k].trace) : e[1] = "PUSH" => e[2] \in Words
  BY ProjectsAssumption
<1>2. \A t \in Range(m.transactions) : \E k \in DOMAIN m.transactions : t = m.transactions[k]
  BY DEF Range
<1>3. \A t \in Range(m.transactions) :
        /\ t.value \in Nat /\ t.trace \in Seq(Range(t.trace))
        /\ \A e \in Range(t.trace) : e[1] = "PUSH" => e[2] \in Words
  BY <1>1, <1>2
<1> QED
  BY <1>3, ProjectsAssumption

LEMMA NextTrace ==
  ASSUME ReplayInv, Replaying
  PROVE  /\ metadata \in DOMAIN Metadata
         /\ tx \in Range(Transactions) /\ tx.from \in DOMAIN nonce
         /\ tx.value \in Nat /\ tx.trace \in Seq(Range(tx.trace))
         /\ \A e \in Range(tx.trace) : e[1] = "PUSH" => e[2] \in Words
<1>1. metadata \in DOMAIN Metadata
  BY DEF ReplayInv, Prepared, Replaying
<1>2. tx.from \in DOMAIN nonce
  BY NextTransaction
<1>3. tx \in Range(Transactions)
  <2>1. Transactions \in Seq(Range(Transactions))
    BY <1>1, ProjectsAssumption DEF Transactions
  <2>2. DOMAIN Transactions = 1 .. Len(Transactions) /\ Len(Transactions) \in Nat
    BY <2>1, LenProperties
  <2> QED
    BY <2>2 DEF ReplayInv, Counted, Replaying, tx, Range
<1> QED
  BY <1>1, <1>2, <1>3, ProjectFacts DEF Transactions

\* The part of a trace that a log covers is a sequence of its steps.
LEMMA Logged ==
  ASSUME NEW T, NEW trace \in Seq(T), NEW n \in 0 .. Len(trace)
  PROVE  SubSeq(trace, 1, n) \in Seq(T) /\ Range(SubSeq(trace, 1, n)) \subseteq T
<1>1. SubSeq(trace, 1, n) \in Seq(T)
  OBVIOUS
<1> QED
  BY <1>1, OwnRange

LEMMA Repeated ==
  ASSUME NEW k \in Nat, NEW S, NEW v \in S
  PROVE  /\ [i \in 1 .. k |-> v] \in Seq(S)
         /\ k > 0 => [i \in 1 .. k |-> v] # <<>>
<1> DEFINE s == [i \in 1 .. k |-> v]
<1>1. s \in Seq(S) /\ DOMAIN s = 1 .. k
  OBVIOUS
<1>2. DOMAIN <<>> = {}
  OBVIOUS
<1>3. k > 0 => 1 \in 1 .. k
  OBVIOUS
<1> HIDE DEF s
<1>4. k > 0 => s # <<>>
  BY <1>1, <1>2, <1>3
<1> QED
  BY <1>1, <1>4 DEF s

LEMMA Joined ==
  ASSUME NEW S, NEW s \in Seq(S), s # <<>>, NEW t \in Seq(S)
  PROVE  s \o t \in Seq(S) /\ s \o t # <<>>
<1>1. s \o t \in Seq(S) /\ Len(s \o t) = Len(s) + Len(t)
  BY ConcatProperties
<1>2. Len(s) \in Nat /\ Len(s) # 0 /\ Len(t) \in Nat
  BY EmptySeq, LenProperties
<1> QED
  BY <1>1, <1>2, EmptySeq

LEMMA Registered ==
  ASSUME NEW T, NEW trace \in Seq(T), NEW contracts, NEW address \in Creations,
         \A c \in DOMAIN contracts : contracts[c] \in Contract /\ contracts[c].addresses # <<>>
  PROVE  LET after == Register(contracts, trace, address) IN
         /\ DOMAIN after = DOMAIN contracts \cup Returned(Range(trace))
         /\ \A c \in DOMAIN after : after[c] \in Contract /\ after[c].addresses # <<>>
<1> DEFINE returns(c) == {k \in DOMAIN trace : trace[k][1] = "RETURN" /\ trace[k][2] = c}
           new(c) == [i \in 1 .. Cardinality(returns(c)) |-> address]
           after == Register(contracts, trace, address)
<1>1. ASSUME NEW c PROVE IsFiniteSet(returns(c)) /\ Cardinality(returns(c)) \in Nat
  <2>1. Len(trace) \in Nat /\ returns(c) \subseteq 1 .. Len(trace)
    OBVIOUS
  <2>2. IsFiniteSet(1 .. Len(trace))
    BY <2>1, FS_Interval
  <2> QED
    BY <2>1, <2>2, FS_Subset, FS_CardinalityType
<1>2. ASSUME NEW c
      PROVE  new(c) \in Seq(Creations) /\ (Cardinality(returns(c)) > 0 => new(c) # <<>>)
  <2> DEFINE k == Cardinality(returns(c))
  <2>1. k \in Nat
    BY <1>1
  <2> HIDE DEF k
  <2>2. /\ [i \in 1 .. k |-> address] \in Seq(Creations)
        /\ k > 0 => [i \in 1 .. k |-> address] # <<>>
    BY <2>1, Repeated
  <2> QED
    BY <2>2 DEF k
<1>3. ASSUME NEW c \in Returned(Range(trace)) PROVE new(c) # <<>>
  <2>1. returns(c) # {}
    BY DEF Returned, Range
  <2> HIDE DEF returns, new
  <2>2. IsFiniteSet(returns(c)) /\ Cardinality(returns(c)) \in Nat
    BY <1>1
  <2>3. Cardinality(returns(c)) # 0
    BY <2>1, <2>2, FS_EmptySet
  <2> QED
    BY <1>2, <2>2, <2>3
<1>4. /\ DOMAIN after = DOMAIN contracts \cup Returned(Range(trace))
      /\ \A c \in DOMAIN after :
           after[c] = IF c \in DOMAIN contracts
                      THEN [contracts[c] EXCEPT !.addresses = @ \o new(c)]
                      ELSE [addresses |-> new(c), methods |-> <<>>]
  BY DEF Register
<1> HIDE DEF returns, new, after
<1>5. ASSUME NEW c \in DOMAIN contracts
      PROVE  after[c] \in Contract /\ after[c].addresses # <<>>
  <2>1. /\ contracts[c].addresses \in Seq(Creations) /\ contracts[c].addresses # <<>>
        /\ contracts[c].methods \in Seq(CompiledMethods)
    BY <1>5 DEF Contract
  <2>2. after[c] = [contracts[c] EXCEPT !.addresses = @ \o new(c)]
    BY <1>4
  <2>3. /\ contracts[c].addresses \o new(c) \in Seq(Creations)
        /\ contracts[c].addresses \o new(c) # <<>>
    <3>1. new(c) \in Seq(Creations)
      BY <1>2
    <3> QED
      BY <2>1, <3>1, Joined
  <2> QED
    BY <2>1, <2>2, <2>3 DEF Contract
<1>6. ASSUME NEW c \in Returned(Range(trace)), c \notin DOMAIN contracts
      PROVE  after[c] \in Contract /\ after[c].addresses # <<>>
  <2>1. new(c) \in Seq(Creations) /\ new(c) # <<>>
    BY <1>2, <1>3
  <2>2. after[c] = [addresses |-> new(c), methods |-> <<>>]
    BY <1>4, <1>6
  <2>3. <<>> \in Seq(CompiledMethods)
    OBVIOUS
  <2> QED
    BY <2>1, <2>2, <2>3 DEF Contract
<1> QED
  BY <1>4, <1>5, <1>6 DEF after
-------------------------------------------------------------------------------
(* The types and the sources of what is at hand. *)

LEMMA SourcesStep == SourcesInv /\ [Next]_vars => SourcesInv'
<1> SUFFICES ASSUME SourcesInv, [Next]_vars PROVE SourcesInv'
  OBVIOUS
<1>1. ASSUME NEW p \in DOMAIN Metadata, NewBackend(p) PROVE SourcesInv'
  <2>1. /\ artifacts' = ReadArtifacts(p) /\ metadata' = p /\ fuzzingConfig' = fuzzingConfig
        /\ pc' \in {"replay", "panicked"}
    BY <1>1 DEF NewBackend, GetABIMap, Panic, SourcesInv
  <2>2. ReadArtifacts(metadata)' = ReadArtifacts(p)
    BY <2>1 DEF ReadArtifacts, Project
  <2> QED
    BY <2>1, <2>2 DEF SourcesInv, Project
<1>2. CASE BeginConfig
  <2>1. /\ fuzzingConfig' = GetConfig(metadata)
        /\ metadata \in DOMAIN Metadata /\ pc # "start" /\ pc' # "start"
        /\ UNCHANGED <<artifacts, metadata>>
    BY <1>2 DEF BeginConfig, SourcesInv
  <2> QED
    BY <2>1 DEF GetConfig, SourcesInv, ReadArtifacts, Project
<1>3. CASE Reset
  BY <1>3 DEF Reset, ResetContractData, SourcesInv, Project
<1>4. CASE \/ Execute \/ Refuse \/ FinishReplay \/ FinishConfig \/ Fuzz \/ HalveAmount
           \/ IgnoreContractMethod \/ Stop \/ UNCHANGED vars
           \/ \E c \in todo : ListContract(c) \/ ProcessConfig(c)
  <2>1. /\ UNCHANGED <<artifacts, metadata, fuzzingConfig>>
        /\ pc' = "start" <=> pc = "start"
        /\ pc' = "configuring" => pc = "configuring"
    <3>1. CASE Execute \/ Refuse
      BY <3>1 DEF Execute, Refuse, Replaying, ExecuteUpTo, Panic, caches
    <3>2. CASE FinishReplay \/ FinishConfig \/ Fuzz \/ HalveAmount \/ IgnoreContractMethod
      BY <3>2 DEF FinishReplay, FinishConfig, BetweenContracts, Fuzz, Panic, HalveAmount,
         IgnoreContractMethod, caches
    <3>3. CASE \E c \in todo : ListContract(c) \/ ProcessConfig(c)
      BY <3>3 DEF ListContract, ProcessConfig, BetweenContracts, Panic, caches
    <3>4. CASE Stop \/ UNCHANGED vars
      BY <3>4 DEF Stop, vars, caches
    <3> QED
      BY <1>4, <3>1, <3>2, <3>3, <3>4
  <2> QED
    BY <2>1 DEF SourcesInv, ReadArtifacts, Project
<1> QED
  BY <1>1, <1>2, <1>3, <1>4 DEF Next

LEMMA PlacesStep == PlacesTyped /\ [Next]_vars => PlacesTyped'
<1> SUFFICES ASSUME PlacesTyped, [Next]_vars PROVE PlacesTyped'
  OBVIOUS
<1>0. ASSUME NEW p \in DOMAIN Metadata, NewBackend(p) PROVE runs' \in 0 .. MaxRuns
  <2>1. runs < MaxRuns /\ runs' = runs + 1
    BY <1>0 DEF NewBackend
  <2>2. runs \in 0 .. MaxRuns
    BY DEF PlacesTyped
  <2> QED
    BY <2>1, <2>2, RunsAssumption
<1> USE NoneAssumption DEF PlacesTyped, Places, Panics, Panic
<1>1. ASSUME NEW p \in DOMAIN Metadata, NewBackend(p) PROVE PlacesTyped'
  <2>1. pc = "start" /\ reason = None
    BY <1>1 DEF NewBackend
  <2>2. \/ pc' = "replay" /\ reason' = None
        \/ pc' = "panicked" /\ reason' = "no account"
    BY <1>1, <2>1 DEF NewBackend
  <2> QED
    BY <1>0, <1>1, <2>2
<1>2. CASE Execute \/ Refuse
  BY <1>2 DEF Execute, Refuse, Replaying, ExecuteUpTo
<1>3. CASE FinishReplay \/ BeginConfig \/ FinishConfig \/ IgnoreContractMethod
  BY <1>3 DEF FinishReplay, BeginConfig, FinishConfig, BetweenContracts, IgnoreContractMethod
<1>4. CASE Fuzz \/ HalveAmount \/ Reset
  BY <1>4 DEF Fuzz, HalveAmount, Reset
<1>5. CASE \E c \in todo : ListContract(c) \/ ProcessConfig(c)
  BY <1>5 DEF ListContract, ProcessConfig, BetweenContracts
<1>6. CASE Stop \/ UNCHANGED vars
  BY <1>6 DEF Stop, vars
<1> QED
  BY <1>1, <1>2, <1>3, <1>4, <1>5, <1>6 DEF Next

LEMMA LedgerStep == LedgerTyped /\ ReplayInv /\ [Next]_vars => LedgerTyped'
<1> SUFFICES ASSUME LedgerTyped, ReplayInv, [Next]_vars PROVE LedgerTyped'
  OBVIOUS
<1>1. ASSUME NEW p \in DOMAIN Metadata, NewBackend(p) PROVE LedgerTyped'
  <2>1. \A a \in DOMAIN ReadAccounts(p) : ReadAccounts(p)[a] \in Nat
    BY ProjectFacts DEF ReadAccounts, LedgerTyped
  <2> QED
    BY <1>1, <2>1 DEF NewBackend, LedgerTyped
<1>2. CASE Execute
  <2>1. PICK n \in 0 .. Len(tx.trace), success \in BOOLEAN : ExecuteUpTo(n, success)
    BY <1>2 DEF Execute
  <2>2. /\ balance' = [balance EXCEPT ![tx.from] = @ - IF success THEN Amount(tx) ELSE 0]
        /\ DOMAIN nonce' = DOMAIN nonce /\ Amount(tx) <= balance[tx.from]
        /\ pc # "start" /\ accounts' = accounts
    BY <1>2, <2>1 DEF ExecuteUpTo, Execute, Applicable, Replaying, caches
  <2>3. Amount(tx) \in Nat /\ tx.from \in DOMAIN balance
    BY <1>2, NextTrace DEF Execute, Amount, LedgerTyped
  <2>4. \A a \in DOMAIN balance' : balance'[a] \in Nat
    BY <2>2, <2>3 DEF LedgerTyped
  <2> QED
    BY <2>2, <2>4 DEF LedgerTyped
<1>3. CASE HalveAmount
  BY <1>3 DEF HalveAmount, chain, LedgerTyped
<1>4. CASE Reset
  BY <1>4 DEF Reset, chain, LedgerTyped
<1>5. CASE \/ Refuse \/ FinishReplay \/ BeginConfig \/ FinishConfig \/ Fuzz
           \/ IgnoreContractMethod \/ Stop \/ UNCHANGED vars
           \/ \E c \in todo : ListContract(c) \/ ProcessConfig(c)
  <2>1. /\ UNCHANGED <<accounts, balance, nonce>>
        /\ pc' = "start" <=> pc = "start"
    <3>1. CASE Refuse \/ FinishReplay \/ BeginConfig \/ FinishConfig
      BY <3>1 DEF Refuse, Replaying, FinishReplay, BeginConfig, FinishConfig,
         BetweenContracts, caches, chain
    <3>2. CASE Fuzz \/ IgnoreContractMethod
      BY <3>2 DEF Fuzz, Panic, IgnoreContractMethod, caches, chain
    <3>3. CASE \E c \in todo : ListContract(c) \/ ProcessConfig(c)
      BY <3>3 DEF ListContract, ProcessConfig, BetweenContracts, Panic, caches, chain
    <3>4. CASE Stop \/ UNCHANGED vars
      BY <3>4 DEF Stop, vars, caches, chain
    <3> QED
      BY <1>5, <3>1, <3>2, <3>3, <3>4
  <2> QED
    BY <2>1 DEF LedgerTyped
<1> QED
  BY <1>1, <1>2, <1>3, <1>4, <1>5 DEF Next

LEMMA SameContracts ==
  ASSUME ContractsTyped, UNCHANGED <<metadata, DeployedContracts, ignoring>>
  PROVE  ContractsTyped'
<1>1. Contract' = Contract
  BY DEF Contract, Creations, CompiledMethods, CompiledContracts, Transactions
<1> QED
  BY <1>1 DEF ContractsTyped

LEMMA ContractsAfterExecute ==
  ASSUME ContractsTyped, ReplayInv, Execute
  PROVE  ContractsTyped'
<1>1. PICK n \in 0 .. Len(tx.trace), success \in BOOLEAN : ExecuteUpTo(n, success)
  BY DEF Execute
<1> DEFINE done == SubSeq(tx.trace, 1, n)
           address == <<tx.from, tx.nonce>>
           after == Register(DeployedContracts, done, address)
<1>2. DeployedContracts' = after /\ UNCHANGED <<metadata, ignoring>>
  BY <1>1 DEF ExecuteUpTo, Execute
<1>3. done \in Seq(Range(tx.trace))
  BY NextTrace, Logged DEF Execute
<1>4. address \in Creations
  BY NextTrace DEF Execute, Creations
<1>5. \A c \in DOMAIN DeployedContracts :
        DeployedContracts[c] \in Contract /\ DeployedContracts[c].addresses # <<>>
  BY DEF ContractsTyped
<1> HIDE DEF done, address
<1>6. \A c \in DOMAIN after : after[c] \in Contract /\ after[c].addresses # <<>>
  BY <1>3, <1>4, <1>5, Registered
<1>7. Contract' = Contract
  BY <1>2 DEF Contract, Creations, CompiledMethods, CompiledContracts, Transactions
<1> HIDE DEF after
<1> QED
  BY <1>2, <1>6, <1>7 DEF ContractsTyped

\* A contract of the project at hand is listed with all its methods.
LEMMA ListContractFacts ==
  ASSUME SourcesInv, WhileListing, NEW c \in todo, ListContract(c)
  PROVE  /\ c \in DOMAIN CompiledContracts /\ pc' = "listing"
         /\ \E methods : /\ Lists(methods, CompiledContracts[c].methods)
                         /\ DeployedContracts' = [DeployedContracts EXCEPT ![c].methods = methods]
         /\ ContractsList' = IF HasMethods(c) THEN Append(ContractsList, c) ELSE ContractsList
         /\ todo' = todo \ {c}
         /\ UNCHANGED <<reason, metadata, logged, ignoring>>
<1>1. c \in DOMAIN CompiledContracts /\ ~CompiledContracts[c].library
  BY DEF WhileListing, Deployable
<1>2. pc = "listing"
  BY DEF ListContract
<1>3. metadata \in DOMAIN Metadata /\ artifacts = ReadArtifacts(metadata)
  BY <1>2 DEF SourcesInv
<1>4. HasABI(c) /\ artifacts.abi[c] = CompiledContracts[c].methods
  BY <1>1, <1>3 DEF HasABI, ReadArtifacts, CompiledContracts
<1>5. IsFiniteSet(CompiledContracts[c].methods)
  BY <1>1, <1>3, ProjectFacts DEF CompiledContracts
<1>6. PICK methods \in SetToSeqs(CompiledContracts[c].methods) :
        DeployedContracts' = [DeployedContracts EXCEPT ![c].methods = methods]
  BY <1>4 DEF ListContract
<1>7. Lists(methods, CompiledContracts[c].methods)
  BY <1>5, OrderLists
<1>8. /\ pc' = "listing" /\ todo' = todo \ {c}
      /\ ContractsList' = IF HasMethods(c) THEN Append(ContractsList, c) ELSE ContractsList
      /\ UNCHANGED <<reason, metadata, logged, ignoring>>
  BY <1>2, <1>4 DEF ListContract, HasMethods, chain
<1> QED
  BY <1>1, <1>6, <1>7, <1>8

LEMMA ContractsStep ==
  ASSUME ContractsTyped, ReplayInv, SourcesInv, TargetsInv, [Next]_vars
  PROVE  ContractsTyped'
<1>1. ASSUME NEW p \in DOMAIN Metadata, NewBackend(p) PROVE ContractsTyped'
  <2>1. DeployedContracts' = <<>> /\ ignoring' = Idle
    BY <1>1 DEF NewBackend
  <2>2. DOMAIN <<>> = {} /\ Range(<<>>) = {} /\ <<>> \in Seq({})
    BY DEF Range
  <2> QED
    BY <2>1, <2>2 DEF ContractsTyped, Idle
<1>2. CASE Execute
  BY <1>2, ContractsAfterExecute
<1>3. CASE FinishReplay
  <2>1. /\ DeployedContracts' = Restrict(DeployedContracts,
                                         DOMAIN DeployedContracts \ artifacts.libraries)
        /\ UNCHANGED <<metadata, ignoring>>
    BY <1>3 DEF FinishReplay, RemoveLibraries
  <2>2. Contract' = Contract
    BY <2>1 DEF Contract, Creations, CompiledMethods, CompiledContracts, Transactions
  <2> QED
    BY <2>1, <2>2 DEF ContractsTyped, Restrict
<1>4. ASSUME NEW c \in todo, ListContract(c) PROVE ContractsTyped'
  <2>1. WhileListing /\ pc = "listing"
    BY <1>4 DEF ListContract, TargetsInv
  <2>2. c \in DOMAIN CompiledContracts /\ UNCHANGED <<metadata, ignoring>>
    BY <1>4, <2>1, ListContractFacts
  <2>3. PICK methods : /\ Lists(methods, CompiledContracts[c].methods)
                       /\ DeployedContracts' = [DeployedContracts EXCEPT ![c].methods = methods]
    BY <1>4, <2>1, ListContractFacts
  <2>4. methods \in Seq(CompiledMethods)
    <3>1. methods \in Seq(CompiledContracts[c].methods)
      BY <2>3 DEF Lists
    <3>2. CompiledContracts[c].methods \subseteq CompiledMethods
      BY <2>2 DEF CompiledMethods
    <3> HIDE DEF CompiledMethods
    <3> QED
      BY <3>1, <3>2
  <2>5. Contract' = Contract
    BY <2>2 DEF Contract, Creations, CompiledMethods, CompiledContracts, Transactions
  <2>6. ASSUME NEW x \in DOMAIN DeployedContracts
        PROVE  DeployedContracts'[x] \in Contract /\ DeployedContracts'[x].addresses # <<>>
    <3>1. DeployedContracts[x] \in Contract /\ DeployedContracts[x].addresses # <<>>
      BY DEF ContractsTyped
    <3>2. DeployedContracts'[x] = IF x = c THEN [DeployedContracts[x] EXCEPT !.methods = methods]
                                  ELSE DeployedContracts[x]
      BY <2>3
    <3> QED
      BY <2>4, <3>1, <3>2 DEF Contract
  <2>7. DOMAIN DeployedContracts' = DOMAIN DeployedContracts
    BY <2>3
  <2> QED
    BY <2>2, <2>5, <2>6, <2>7 DEF ContractsTyped
<1>5. ASSUME NEW c \in todo, ProcessConfig(c) PROVE ContractsTyped'
  <2>1. pc = "configuring" /\ c \in DOMAIN fuzzingConfig /\ metadata' = metadata
    BY <1>5 DEF ProcessConfig, BetweenContracts, TargetsInv, WhileConfiguring
  <2>2. fuzzingConfig[c].ignored \in Seq(Range(fuzzingConfig[c].ignored))
    BY <2>1, ProjectFacts DEF SourcesInv
  <2>3. Contract' = Contract
    BY <2>1 DEF Contract, Creations, CompiledMethods, CompiledContracts, Transactions
  <2>4. CASE IgnoreContract(c) /\ UNCHANGED ignoring
    BY <2>3, <2>4 DEF IgnoreContract, Restrict, ContractsTyped
  <2>5. CASE /\ ignoring' = [contract |-> c, methods |-> fuzzingConfig[c].ignored]
             /\ UNCHANGED DeployedContracts
    BY <2>2, <2>3, <2>5 DEF ContractsTyped
  <2>6. CASE UNCHANGED <<DeployedContracts, ignoring>>
    BY <2>3, <2>6 DEF ContractsTyped
  <2> QED
    BY <1>5, <2>4, <2>5, <2>6 DEF ProcessConfig, Apply
<1>6. CASE IgnoreContractMethod
  <2> DEFINE c == ignoring.contract
             left == deleteFromSlice(Head(ignoring.methods), DeployedContracts[c].methods)
  <2>1. /\ pc = "configuring" /\ ignoring.methods # <<>> /\ UNCHANGED metadata
        /\ DeployedContracts' = [DeployedContracts EXCEPT ![c].methods = left]
        /\ ignoring' = [ignoring EXCEPT !.methods = Tail(@)]
    BY <1>6 DEF IgnoreContractMethod
  <2>2. c \in DOMAIN DeployedContracts /\ IsInjective(DeployedContracts[c].methods)
    BY <2>1 DEF TargetsInv, WhileConfiguring
  <2>3. left \in Seq(CompiledMethods)
    <3>1. DeployedContracts[c].methods \in Seq(CompiledMethods)
      BY <2>2 DEF ContractsTyped, Contract
    <3> QED
      BY <2>2, <3>1, Deleted
  <2> HIDE DEF left
  <2>4. ASSUME NEW x \in DOMAIN DeployedContracts
        PROVE  DeployedContracts'[x] \in Contract /\ DeployedContracts'[x].addresses # <<>>
    <3>1. DeployedContracts[x] \in Contract /\ DeployedContracts[x].addresses # <<>>
      BY DEF ContractsTyped
    <3>2. DeployedContracts'[x] = IF x = c THEN [DeployedContracts[x] EXCEPT !.methods = left]
                                  ELSE DeployedContracts[x]
      BY <2>1
    <3> QED
      BY <2>3, <3>1, <3>2 DEF Contract
  <2>5. Contract' = Contract
    BY <2>1 DEF Contract, Creations, CompiledMethods, CompiledContracts, Transactions
  <2>6. DOMAIN DeployedContracts' = DOMAIN DeployedContracts
    BY <2>1
  <2>7. /\ ignoring' = [contract |-> ignoring'.contract, methods |-> ignoring'.methods]
        /\ ignoring'.methods = Tail(ignoring.methods)
    BY <2>1 DEF ContractsTyped
  <2>8. Tail(ignoring.methods) \in Seq(Range(Tail(ignoring.methods)))
    <3>1. Tail(ignoring.methods) \in Seq(Range(ignoring.methods))
      BY <2>1, HeadTailProperties DEF ContractsTyped
    <3> QED
      BY <3>1, OwnRange
  <2> QED
    BY <2>4, <2>5, <2>6, <2>7, <2>8 DEF ContractsTyped
<1>7. CASE \/ Refuse \/ BeginConfig \/ FinishConfig \/ Fuzz \/ HalveAmount \/ Reset \/ Stop
           \/ UNCHANGED vars
  <2>1. UNCHANGED <<metadata, DeployedContracts, ignoring>>
    <3>1. CASE Refuse \/ BeginConfig \/ FinishConfig
      BY <3>1 DEF Refuse, BeginConfig, FinishConfig, targets
    <3>2. CASE Fuzz \/ HalveAmount \/ Reset
      BY <3>2 DEF Fuzz, HalveAmount, Reset, targets
    <3>3. CASE Stop \/ UNCHANGED vars
      BY <3>3 DEF Stop, vars, targets
    <3> QED
      BY <1>7, <3>1, <3>2, <3>3
  <2> QED
    BY <2>1, SameContracts
<1> QED
  BY <1>1, <1>2, <1>3, <1>4, <1>5, <1>6, <1>7 DEF Next
-------------------------------------------------------------------------------
(* What is fuzzed: each action. *)

ListingVars == <<metadata, logged, DeployedContracts, ContractsList, todo, ignoring>>
TargetVars == <<ListingVars, fuzzingConfig>>

LEMMA SameTargets ==
  ASSUME TargetsInv, UNCHANGED <<pc, reason, TargetVars>>
  PROVE  TargetsInv'
<1> USE DEF TargetVars, ListingVars
<1>1. CompiledContracts' = CompiledContracts /\ FoundContracts' = FoundContracts
  BY DEF CompiledContracts, FoundContracts, Project
<1>2. Fuzzable' = Fuzzable /\ \A c : FuzzableMethods(c)' = FuzzableMethods(c)
  BY <1>1 DEF Fuzzable, FuzzableMethods, Ignored, Project
<1>3. TargetsExact' /\ PanicsExplained'
  BY <1>2 DEF TargetsInv, TargetsExact, PanicsExplained, Ready, Project
<1>4. Deployable' = Deployable /\ \A c : HasMethods(c)' = HasMethods(c)
  BY <1>1 DEF Deployable, HasMethods
<1>5. WhileReplaying' = WhileReplaying
  BY <1>1 DEF WhileReplaying
<1>6. WhileListing' = WhileListing
  BY <1>1, <1>4 DEF WhileListing, Lists
<1>7. WhileConfiguring' = WhileConfiguring
  BY <1>1, <1>4 DEF WhileConfiguring, Lists, Settled, Remaining, LeftMethods
<1> QED
  BY <1>3, <1>5, <1>6, <1>7 DEF TargetsInv

LEMMA TargetsAfterNewBackend ==
  ASSUME PlacesTyped, NEW p \in DOMAIN Metadata, NewBackend(p)
  PROVE  TargetsInv'
<1>1. /\ DeployedContracts' = <<>> /\ ContractsList' = <<>> /\ logged' = {} /\ ignoring' = Idle
      /\ pc' \in {"replay", "panicked"} /\ reason' \in {None, "no account"}
  BY DEF NewBackend, Panic, PlacesTyped
<1>2. WhileReplaying'
  <2>1. FoundContracts' = {} /\ DOMAIN DeployedContracts' = {}
    <3>1. DOMAIN <<>> = {} /\ Returned({}) = {}
      BY DEF Returned
    <3>2. FoundContracts' = Returned({})
      BY <1>1 DEF FoundContracts
    <3> QED
      BY <1>1, <3>1, <3>2
  <2>2. ignoring'.methods = <<>>
    BY <1>1 DEF Idle
  <2> QED
    BY <1>1, <2>1, <2>2 DEF WhileReplaying
<1>3. TargetsExact' /\ PanicsExplained'
  BY <1>1, NoneAssumption DEF TargetsExact, Ready, PanicsExplained, Panics
<1> QED
  BY <1>1, <1>2, <1>3 DEF TargetsInv

LEMMA TargetsAfterExecute ==
  ASSUME PlacesTyped, ContractsTyped, ReplayInv, TargetsInv, Execute
  PROVE  TargetsInv'
<1>1. PICK n \in 0 .. Len(tx.trace), success \in BOOLEAN : ExecuteUpTo(n, success)
  BY DEF Execute
<1> DEFINE done == SubSeq(tx.trace, 1, n)
           address == <<tx.from, tx.nonce>>
           after == Register(DeployedContracts, done, address)
           panics == ~ \A c \in Returned(Range(done)) : Compiled(c)
<1>2. /\ pc = "replay" /\ DeployedContracts' = after /\ logged' = logged \cup Range(done)
      /\ UNCHANGED <<metadata, ContractsList, ignoring>>
      /\ IF panics THEN pc' = "panicked" /\ reason' = "no contract with hash"
                   ELSE UNCHANGED <<pc, reason>>
  BY <1>1 DEF ExecuteUpTo, Execute, Replaying, Panic
<1>3. DOMAIN after = DOMAIN DeployedContracts \cup Returned(Range(done))
  <2>1. done \in Seq(Range(tx.trace))
    BY NextTrace, Logged DEF Execute
  <2>2. address \in Creations
    BY NextTrace DEF Execute, Creations
  <2> HIDE DEF done, address
  <2> QED
    BY <2>1, <2>2, Registered DEF ContractsTyped
<1> HIDE DEF after, done
<1>4. FoundContracts' = FoundContracts \cup Returned(Range(done))
  BY <1>2 DEF FoundContracts, Returned
<1>5. ~panics => WhileReplaying'
  <2>1. WhileReplaying /\ CompiledContracts' = CompiledContracts
    BY <1>2 DEF TargetsInv, CompiledContracts
  <2>2. ~panics => Returned(Range(done)) \subseteq DOMAIN CompiledContracts
    BY DEF Compiled, CompiledContracts
  <2> HIDE DEF panics
  <2> QED
    BY <1>2, <1>3, <1>4, <2>1, <2>2 DEF WhileReplaying
<1>6. reason = None
  BY <1>2 DEF PlacesTyped
<1>7. TargetsExact' /\ PanicsExplained'
  <2> HIDE DEF panics
  <2> QED
    BY <1>2, <1>6, NoneAssumption DEF TargetsExact, Ready, PanicsExplained, Panics
<1> QED
  BY <1>2, <1>5, <1>7 DEF TargetsInv

LEMMA TargetsAfterReplay ==
  ASSUME PlacesTyped, SourcesInv, TargetsInv, FinishReplay
  PROVE  TargetsInv'
<1>1. /\ pc = "replay" /\ pc' = "listing" /\ reason' = reason
      /\ DeployedContracts' = RemoveLibraries(DeployedContracts)
      /\ todo' = DOMAIN DeployedContracts'
      /\ UNCHANGED <<metadata, logged, ContractsList, ignoring>>
  BY DEF FinishReplay, chain
<1>2. /\ DOMAIN DeployedContracts = FoundContracts
      /\ FoundContracts \subseteq DOMAIN CompiledContracts
      /\ ContractsList = <<>> /\ ignoring.methods = <<>>
  BY <1>1 DEF TargetsInv, WhileReplaying
<1>3. artifacts.libraries = {c \in DOMAIN CompiledContracts : CompiledContracts[c].library}
  BY <1>1 DEF SourcesInv, ReadArtifacts, CompiledContracts
<1>4. DOMAIN DeployedContracts' = Deployable
  BY <1>1, <1>2, <1>3 DEF RemoveLibraries, Restrict, Deployable
<1>5. Deployable' = Deployable /\ FoundContracts' = FoundContracts
      /\ CompiledContracts' = CompiledContracts
  BY <1>1 DEF Deployable, FoundContracts, CompiledContracts
<1>6. Lists(ContractsList, {c \in Deployable \ todo : HasMethods(c)})'
  <2>1. {c \in Deployable \ todo : HasMethods(c)}' = {}
    BY <1>1, <1>4, <1>5
  <2>2. ContractsList' = <<>>
    BY <1>1, <1>2
  <2> QED
    BY <2>1, <2>2, EmptyList DEF Lists
<1>7. WhileListing'
  BY <1>1, <1>2, <1>4, <1>5, <1>6 DEF WhileListing
<1>8. reason' = None
  BY <1>1 DEF PlacesTyped
<1> QED
  BY <1>1, <1>7, <1>8, NoneAssumption DEF TargetsInv, TargetsExact, Ready, PanicsExplained, Panics

LEMMA TargetsAfterListing ==
  ASSUME PlacesTyped, ContractsTyped, SourcesInv, TargetsInv, NEW c \in todo, ListContract(c)
  PROVE  TargetsInv'
<1>1. WhileListing /\ pc = "listing"
  BY DEF ListContract, TargetsInv
<1>2. /\ c \in DOMAIN CompiledContracts /\ pc' = "listing" /\ todo' = todo \ {c}
      /\ ContractsList' = IF HasMethods(c) THEN Append(ContractsList, c) ELSE ContractsList
      /\ UNCHANGED <<reason, metadata, logged, ignoring>>
  BY <1>1, ListContractFacts
<1>3. PICK methods : /\ Lists(methods, CompiledContracts[c].methods)
                     /\ DeployedContracts' = [DeployedContracts EXCEPT ![c].methods = methods]
  BY <1>1, ListContractFacts
<1>4. /\ Deployable' = Deployable /\ FoundContracts' = FoundContracts
      /\ CompiledContracts' = CompiledContracts /\ \A x : HasMethods(x)' = HasMethods(x)
  BY <1>2 DEF Deployable, FoundContracts, CompiledContracts, HasMethods
<1>5. c \in Deployable /\ DOMAIN DeployedContracts = Deployable
  BY <1>1 DEF WhileListing
<1>6. DOMAIN DeployedContracts' = Deployable
  BY <1>3, <1>5
<1>7. ASSUME NEW x \in Deployable \ todo'
      PROVE  Lists(DeployedContracts'[x].methods, CompiledContracts[x].methods)
  <2>1. CASE x = c
    <3>1. DeployedContracts[c] \in Contract
      BY <1>5 DEF ContractsTyped
    <3>2. DeployedContracts'[c].methods = methods
      BY <1>3, <1>5, <3>1 DEF Contract
    <3> QED
      BY <1>3, <2>1, <3>2
  <2>2. CASE x # c
    <3>1. DeployedContracts'[x] = DeployedContracts[x] /\ x \in Deployable \ todo
      BY <1>2, <1>3, <1>5, <2>2
    <3> QED
      BY <1>1, <3>1 DEF WhileListing
  <2> QED
    BY <2>1, <2>2
<1>8. Lists(ContractsList', {x \in Deployable \ todo' : HasMethods(x)})
  <2> DEFINE listed == {x \in Deployable \ todo : HasMethods(x)}
  <2>1. Lists(ContractsList, listed) /\ c \notin listed
    BY <1>1 DEF WhileListing
  <2>2. {x \in Deployable \ todo' : HasMethods(x)}
          = IF HasMethods(c) THEN listed \cup {c} ELSE listed
    BY <1>2, <1>5
  <2> HIDE DEF listed
  <2>3. CASE HasMethods(c)
    BY <1>2, <2>1, <2>2, <2>3, AppendLists
  <2>4. CASE ~HasMethods(c)
    BY <1>2, <2>1, <2>2, <2>4
  <2> QED
    BY <2>3, <2>4
<1>9. WhileListing'
  <2>1. todo' \subseteq Deployable /\ ignoring'.methods = <<>>
        /\ FoundContracts \subseteq DOMAIN CompiledContracts
    BY <1>1, <1>2 DEF WhileListing
  <2>2. Lists(ContractsList, {x \in Deployable \ todo : HasMethods(x)})'
    BY <1>4, <1>8 DEF Lists
  <2>3. \A x \in Deployable' \ todo' :
          Lists(DeployedContracts[x].methods, CompiledContracts[x].methods)'
    BY <1>4, <1>7 DEF Lists
  <2> QED
    BY <1>4, <1>6, <2>1, <2>2, <2>3 DEF WhileListing
<1>10. reason' = None
  BY <1>1, <1>2 DEF PlacesTyped
<1> QED
  BY <1>2, <1>9, <1>10, NoneAssumption
     DEF TargetsInv, TargetsExact, Ready, PanicsExplained, Panics

LEMMA TargetsBeforeConfig ==
  ASSUME PlacesTyped, SourcesInv, TargetsInv, BeginConfig
  PROVE  TargetsInv'
<1>1. /\ pc = "listing" /\ todo = {} /\ pc' = "configuring" /\ todo' = DOMAIN fuzzingConfig'
      /\ UNCHANGED <<reason, metadata, logged, DeployedContracts, ContractsList, ignoring>>
  BY DEF BeginConfig, chain
<1>2. WhileListing
  BY <1>1 DEF TargetsInv
<1>3. /\ Deployable' = Deployable /\ CompiledContracts' = CompiledContracts
      /\ \A x : HasMethods(x)' = HasMethods(x)
  BY <1>1 DEF Deployable, FoundContracts, CompiledContracts, HasMethods
<1>4. \A x : ~Settled(x)'
  BY <1>1 DEF Settled
<1>5. ignoring'.methods = <<>> /\ \A x : Remaining(x)' = {}
  <2>1. Range(<<>>) = {}
    BY DEF Range
  <2> QED
    BY <1>1, <1>2, <2>1 DEF WhileListing, Remaining
<1>6. DOMAIN DeployedContracts' = Deployable
  BY <1>1, <1>2 DEF WhileListing
<1>7. ASSUME NEW x \in Deployable
      PROVE  /\ IsInjective(DeployedContracts'[x].methods)
             /\ Range(DeployedContracts'[x].methods) \ Remaining(x)' = LeftMethods(x)'
  <2>1. Lists(DeployedContracts'[x].methods, CompiledContracts[x].methods)
    BY <1>1, <1>2 DEF WhileListing
  <2>2. LeftMethods(x)' = CompiledContracts[x].methods
    BY <1>3, <1>4 DEF LeftMethods
  <2> QED
    BY <1>5, <2>1, <2>2 DEF Lists
<1>8. Lists(ContractsList, {c \in DOMAIN DeployedContracts : HasMethods(c)})'
  <2>1. Lists(ContractsList, {c \in Deployable : HasMethods(c)})
    BY <1>1, <1>2 DEF WhileListing
  <2>2. {c \in DOMAIN DeployedContracts : HasMethods(c)}' = {c \in Deployable : HasMethods(c)}
    BY <1>3, <1>6
  <2> QED
    BY <1>1, <2>1, <2>2 DEF Lists
<1>9. WhileConfiguring'
  BY <1>1, <1>3, <1>4, <1>5, <1>6, <1>7, <1>8 DEF WhileConfiguring
<1>10. reason' = None
  BY <1>1 DEF PlacesTyped
<1> QED
  BY <1>1, <1>9, <1>10, NoneAssumption
     DEF TargetsInv, TargetsExact, Ready, PanicsExplained, Panics

\* Of what the configuration says only one contract is affected by a turn of the loop.
LEMMA TargetsAfterConfig ==
  ASSUME PlacesTyped, SourcesInv, TargetsInv, NEW c \in todo, ProcessConfig(c)
  PROVE  TargetsInv'
<1> DEFINE config == fuzzingConfig[c]
<1>1. /\ pc = "configuring" /\ ignoring.methods = <<>> /\ pc' = "configuring"
      /\ todo' = todo \ {c} /\ Apply(c, config)
      /\ UNCHANGED <<reason, metadata, logged, fuzzingConfig>>
  BY DEF ProcessConfig, BetweenContracts, caches, chain
<1>2. WhileConfiguring /\ c \in DOMAIN fuzzingConfig
  BY <1>1 DEF TargetsInv, WhileConfiguring
<1>3. /\ Deployable' = Deployable /\ CompiledContracts' = CompiledContracts
      /\ \A x : HasMethods(x)' = HasMethods(x)
  BY <1>1 DEF Deployable, FoundContracts, CompiledContracts, HasMethods
<1>4. ~Settled(c) /\ Settled(c)' /\ \A x : x # c => Settled(x)' = Settled(x)
  BY <1>1, <1>2 DEF Settled
<1>5. \A x : Remaining(x) = {}
  <2>1. Range(<<>>) = {}
    BY DEF Range
  <2> QED
    BY <1>1, <2>1 DEF Remaining
<1>6. \A x : x # c => LeftMethods(x)' = LeftMethods(x)
  BY <1>1, <1>3, <1>4 DEF LeftMethods
<1> DEFINE kept == {x \in Deployable : ~(Settled(x) /\ fuzzingConfig[x].ignoreAll)}
<1>7. /\ DOMAIN DeployedContracts = kept
      /\ \A x \in kept : /\ IsInjective(DeployedContracts[x].methods)
                         /\ Range(DeployedContracts[x].methods) = LeftMethods(x)
      /\ Lists(ContractsList, {x \in kept : HasMethods(x)})
  BY <1>2, <1>5 DEF WhileConfiguring
<1>8. kept' = kept \ (IF config.ignoreAll THEN {c} ELSE {})
  BY <1>1, <1>3, <1>4
<1> HIDE DEF kept
<1>9. ASSUME c \in DOMAIN DeployedContracts /\ config.ignoreAll PROVE WhileConfiguring'
  <2>1. /\ DeployedContracts' = Restrict(DeployedContracts, DOMAIN DeployedContracts \ {c})
        /\ ContractsList' = deleteFromSlice(c, ContractsList) /\ ignoring' = ignoring
    BY <1>1, <1>9 DEF Apply, IgnoreContract
  <2>2. /\ DOMAIN DeployedContracts' = kept'
        /\ \A x \in kept' : x # c /\ x \in kept /\ DeployedContracts'[x] = DeployedContracts[x]
    BY <1>7, <1>8, <1>9, <2>1 DEF Restrict
  <2>3. Lists(ContractsList', {x \in kept : HasMethods(x)} \ {c})
    BY <1>7, <2>1, DeletedLists
  <2>4. {x \in kept : HasMethods(x)} \ {c} = {x \in kept' : HasMethods(x)}
    BY <1>8, <1>9
  <2>5. Lists(ContractsList, {x \in DOMAIN DeployedContracts : HasMethods(x)})'
    BY <1>3, <2>2, <2>3, <2>4 DEF Lists
  <2>6. ignoring'.methods = <<>> /\ \A x : Remaining(x)' = {}
    BY <1>1, <1>5, <2>1 DEF Remaining
  <2>7. \A x \in kept' : /\ IsInjective(DeployedContracts'[x].methods)
                         /\ Range(DeployedContracts'[x].methods) = LeftMethods(x)'
    BY <1>6, <1>7, <2>2
  <2>8. todo' \subseteq DOMAIN fuzzingConfig'
    BY <1>1, <1>2 DEF WhileConfiguring
  <2> QED
    BY <2>2, <2>5, <2>6, <2>7, <2>8 DEF WhileConfiguring, kept
<1>10. ASSUME c \in DOMAIN DeployedContracts /\ ~config.ignoreAll PROVE WhileConfiguring'
  <2>1. /\ ignoring' = [contract |-> c, methods |-> config.ignored]
        /\ UNCHANGED <<DeployedContracts, ContractsList>>
    BY <1>1, <1>10 DEF Apply
  <2>2. DOMAIN DeployedContracts' = kept' /\ kept' = kept
    BY <1>7, <1>8, <1>10, <2>1
  <2>3. Lists(ContractsList, {x \in DOMAIN DeployedContracts : HasMethods(x)})'
    BY <1>3, <1>7, <2>1, <2>2 DEF Lists
  <2>4. /\ Remaining(c)' = Range(config.ignored)
        /\ \A x : x # c => Remaining(x)' = {}
    BY <2>1 DEF Remaining
  <2>5. LeftMethods(c)' = CompiledContracts[c].methods \ Range(config.ignored)
        /\ LeftMethods(c) = CompiledContracts[c].methods
    BY <1>1, <1>3, <1>4 DEF LeftMethods
  <2>6. ASSUME NEW x \in kept'
        PROVE  /\ IsInjective(DeployedContracts'[x].methods)
               /\ Range(DeployedContracts'[x].methods) \ Remaining(x)' = LeftMethods(x)'
    <3>1. /\ IsInjective(DeployedContracts'[x].methods)
          /\ Range(DeployedContracts'[x].methods) = LeftMethods(x)
      BY <1>7, <2>1, <2>2
    <3>2. CASE x = c
      BY <2>4, <2>5, <3>1, <3>2
    <3>3. CASE x # c
      BY <1>6, <2>4, <3>1, <3>3
    <3> QED
      BY <3>1, <3>2, <3>3
  <2>7. todo' \subseteq DOMAIN fuzzingConfig' /\ ignoring'.contract \in DOMAIN DeployedContracts'
    BY <1>1, <1>2, <1>10, <2>1 DEF WhileConfiguring
  <2> QED
    BY <2>2, <2>3, <2>6, <2>7 DEF WhileConfiguring, kept
<1>11. ASSUME c \notin DOMAIN DeployedContracts PROVE WhileConfiguring'
  <2>1. UNCHANGED <<DeployedContracts, ContractsList, ignoring>>
    BY <1>1, <1>11 DEF Apply
  <2>2. DOMAIN DeployedContracts' = kept' /\ kept' = kept
    BY <1>7, <1>8, <1>11, <2>1
  <2>3. Lists(ContractsList, {x \in DOMAIN DeployedContracts : HasMethods(x)})'
    BY <1>3, <1>7, <2>1, <2>2 DEF Lists
  <2>4. ignoring'.methods = <<>> /\ \A x : Remaining(x)' = {}
    BY <1>1, <1>5, <2>1 DEF Remaining
  <2>5. \A x \in kept' : /\ IsInjective(DeployedContracts'[x].methods)
                         /\ Range(DeployedContracts'[x].methods) = LeftMethods(x)'
    BY <1>6, <1>7, <1>11, <2>1, <2>2
  <2>6. todo' \subseteq DOMAIN fuzzingConfig'
    BY <1>1, <1>2 DEF WhileConfiguring
  <2> QED
    BY <2>2, <2>3, <2>4, <2>5, <2>6 DEF WhileConfiguring, kept
<1>12. reason' = None
  BY <1>1 DEF PlacesTyped
<1> QED
  BY <1>1, <1>9, <1>10, <1>11, <1>12, NoneAssumption
     DEF TargetsInv, TargetsExact, Ready, PanicsExplained, Panics

\* A turn of the inner loop deletes one method and does not change what will be left.
LEMMA TargetsAfterMethod ==
  ASSUME PlacesTyped, ContractsTyped, SourcesInv, TargetsInv, IgnoreContractMethod
  PROVE  TargetsInv'
<1> DEFINE c == ignoring.contract
           m == Head(ignoring.methods)
           left == deleteFromSlice(m, DeployedContracts[c].methods)
<1>1. /\ pc = "configuring" /\ pc' = "configuring" /\ ignoring.methods # <<>>
      /\ DeployedContracts' = [DeployedContracts EXCEPT ![c].methods = left]
      /\ ignoring' = [ignoring EXCEPT !.methods = Tail(@)]
      /\ UNCHANGED <<reason, metadata, logged, fuzzingConfig, ContractsList, todo>>
  BY DEF IgnoreContractMethod, caches, chain
<1>2. WhileConfiguring
  BY <1>1 DEF TargetsInv
<1>3. /\ Deployable' = Deployable /\ CompiledContracts' = CompiledContracts
      /\ \A x : HasMethods(x)' = HasMethods(x)
  BY <1>1 DEF Deployable, FoundContracts, CompiledContracts, HasMethods
<1>4. /\ \A x : Settled(x)' = Settled(x)
      /\ \A x : LeftMethods(x)' = LeftMethods(x)
  BY <1>1, <1>3 DEF Settled, LeftMethods
<1>5. c \in DOMAIN DeployedContracts /\ DeployedContracts[c] \in Contract
  BY <1>1, <1>2 DEF WhileConfiguring, ContractsTyped
<1>6. /\ ignoring'.contract = c /\ ignoring'.methods = Tail(ignoring.methods)
      /\ Range(ignoring.methods) = {m} \cup Range(Tail(ignoring.methods))
  <2>1. ignoring.methods \in Seq(Range(ignoring.methods))
    BY DEF ContractsTyped
  <2>2. Range(ignoring.methods) = {m} \cup Range(Tail(ignoring.methods))
    BY <1>1, <2>1, HeadAndTail
  <2> QED
    BY <1>1, <2>2 DEF ContractsTyped
<1>7. IsInjective(left) /\ Range(left) = Range(DeployedContracts[c].methods) \ {m}
  <2>1. DeployedContracts[c].methods \in Seq(CompiledMethods)
    BY <1>5 DEF Contract
  <2>2. IsInjective(DeployedContracts[c].methods)
    BY <1>2, <1>5 DEF WhileConfiguring
  <2> QED
    BY <2>1, <2>2, Deleted
<1> HIDE DEF left, m
<1>8. /\ DOMAIN DeployedContracts' = DOMAIN DeployedContracts
      /\ DeployedContracts'[c].methods = left
      /\ \A x \in DOMAIN DeployedContracts :
           x # c => DeployedContracts'[x] = DeployedContracts[x]
  BY <1>1, <1>5 DEF Contract
<1>9. ASSUME NEW x \in DOMAIN DeployedContracts
      PROVE  /\ IsInjective(DeployedContracts'[x].methods)
             /\ Range(DeployedContracts'[x].methods) \ Remaining(x)' = LeftMethods(x)'
  <2>1. /\ IsInjective(DeployedContracts[x].methods)
        /\ Range(DeployedContracts[x].methods) \ Remaining(x) = LeftMethods(x)
    BY <1>2 DEF WhileConfiguring
  <2>2. CASE x = c
    <3>1. Remaining(x) = {m} \cup Remaining(x)'
      BY <1>6, <2>2 DEF Remaining
    <3> QED
      BY <1>4, <1>7, <1>8, <2>1, <2>2, <3>1
  <2>3. CASE x # c
    <3>1. Remaining(x) = {} /\ Remaining(x)' = {}
      BY <1>6, <2>3 DEF Remaining
    <3> QED
      BY <1>4, <1>8, <2>1, <2>3, <3>1
  <2> QED
    BY <2>2, <2>3
<1>10. Lists(ContractsList, {x \in DOMAIN DeployedContracts : HasMethods(x)})'
  <2>1. Lists(ContractsList, {x \in DOMAIN DeployedContracts : HasMethods(x)})
    BY <1>2 DEF WhileConfiguring
  <2> QED
    BY <1>1, <1>3, <1>8, <2>1 DEF Lists
<1>11. DOMAIN DeployedContracts'
         = {x \in Deployable' : ~(Settled(x)' /\ fuzzingConfig'[x].ignoreAll)}
  BY <1>1, <1>2, <1>3, <1>4, <1>8 DEF WhileConfiguring
<1>12. todo' \subseteq DOMAIN fuzzingConfig' /\ ignoring'.contract \in DOMAIN DeployedContracts'
  BY <1>1, <1>2, <1>5, <1>6, <1>8 DEF WhileConfiguring
<1>13. WhileConfiguring'
  BY <1>8, <1>9, <1>10, <1>11, <1>12 DEF WhileConfiguring
<1>14. reason' = None
  BY <1>1 DEF PlacesTyped
<1> QED
  BY <1>1, <1>13, <1>14, NoneAssumption
     DEF TargetsInv, TargetsExact, Ready, PanicsExplained, Panics

LEMMA TargetsAfterFinish ==
  ASSUME PlacesTyped, TargetsInv, FinishConfig
  PROVE  TargetsInv'
<1>1. /\ pc = "configuring" /\ ignoring.methods = <<>> /\ todo = {}
      /\ pc' \in {"exited", "deployed"}
      /\ UNCHANGED <<reason, metadata, logged, fuzzingConfig, DeployedContracts, ContractsList>>
  BY DEF FinishConfig, BetweenContracts, caches, chain, targets
<1>2. WhileConfiguring
  BY <1>1 DEF TargetsInv
<1>3. \A x : Remaining(x) = {}
  <2>1. Range(<<>>) = {}
    BY DEF Range
  <2> QED
    BY <1>1, <2>1 DEF Remaining
<1>4. \A x : Settled(x) <=> x \in DOMAIN fuzzingConfig
  BY <1>1 DEF Settled
<1>5. DOMAIN DeployedContracts = Fuzzable
  BY <1>2, <1>4 DEF WhileConfiguring, Fuzzable, Deployable, CompiledContracts, Ignored
<1>6. \A x : LeftMethods(x) = FuzzableMethods(x)
  BY <1>4 DEF LeftMethods, FuzzableMethods, CompiledContracts
<1>7. \A x \in Fuzzable : /\ IsInjective(DeployedContracts[x].methods)
                          /\ Range(DeployedContracts[x].methods) = FuzzableMethods(x)
  BY <1>2, <1>3, <1>5, <1>6 DEF WhileConfiguring
<1>8. /\ IsInjective(ContractsList)
      /\ Range(ContractsList) = {x \in Fuzzable \ {Migrations} :
                                   Project(metadata).contracts[x].methods # {}}
  <2>1. Lists(ContractsList, {x \in Fuzzable : HasMethods(x)})
    BY <1>2, <1>5 DEF WhileConfiguring
  <2>2. {x \in Fuzzable : HasMethods(x)}
          = {x \in Fuzzable \ {Migrations} : Project(metadata).contracts[x].methods # {}}
    BY DEF HasMethods, CompiledContracts
  <2> QED
    BY <2>1, <2>2 DEF Lists
<1>9. Fuzzable' = Fuzzable /\ \A x : FuzzableMethods(x)' = FuzzableMethods(x)
  BY <1>1 DEF Fuzzable, FuzzableMethods, FoundContracts, Ignored
<1>10. TargetsExact'
  BY <1>1, <1>5, <1>7, <1>8, <1>9 DEF TargetsExact
<1>11. reason' = None
  BY <1>1 DEF PlacesTyped
<1> QED
  BY <1>1, <1>10, <1>11, NoneAssumption DEF TargetsInv, PanicsExplained, Panics

LEMMA TargetsAfterFuzz ==
  ASSUME PlacesTyped, TargetsInv, Fuzz
  PROVE  TargetsInv'
<1>1. /\ pc = "deployed" /\ pc' \in {"fuzzed", "panicked"}
      /\ UNCHANGED <<metadata, logged, fuzzingConfig, DeployedContracts, ContractsList>>
      /\ \/ reason' = reason
         \/ /\ reason' = "no method"
            /\ \E c \in DOMAIN DeployedContracts \ {Migrations} : NoRandomMethod(c)
  BY DEF Fuzz, Panic, caches, chain, targets
<1>2. Fuzzable' = Fuzzable /\ \A x : FuzzableMethods(x)' = FuzzableMethods(x)
  BY <1>1 DEF Fuzzable, FuzzableMethods, FoundContracts, Ignored
<1>3. TargetsExact /\ Ready
  BY <1>1 DEF TargetsInv, Ready
<1>4. TargetsExact'
  BY <1>1, <1>2, <1>3 DEF TargetsExact
<1>5. ASSUME NEW c \in DOMAIN DeployedContracts \ {Migrations}, NoRandomMethod(c)
      PROVE  c \in Fuzzable \ {Migrations} /\ FuzzableMethods(c) = {}
  <2>1. c \in Fuzzable /\ Range(DeployedContracts[c].methods) = FuzzableMethods(c)
    BY <1>3 DEF TargetsExact
  <2>2. Range(<<>>) = {}
    BY DEF Range
  <2> QED
    BY <1>5, <2>1, <2>2 DEF NoRandomMethod
<1>6. reason = None
  BY <1>1 DEF PlacesTyped
<1>7. PanicsExplained'
  <2>1. CASE reason' = reason
    BY <1>6, <2>1, NoneAssumption DEF PanicsExplained, Panics
  <2>2. CASE /\ reason' = "no method"
             /\ \E c \in DOMAIN DeployedContracts \ {Migrations} : NoRandomMethod(c)
    BY <1>2, <1>5, <2>2 DEF PanicsExplained
  <2> QED
    BY <1>1, <2>1, <2>2
<1> QED
  BY <1>1, <1>4, <1>7 DEF TargetsInv
-------------------------------------------------------------------------------
(* What is fuzzed: the theorems. *)

DeploymentInv == /\ ReplayInv /\ SourcesInv /\ PlacesTyped /\ LedgerTyped /\ ContractsTyped
                 /\ TargetsInv
                 /\ timestamps \subseteq Words

LEMMA TargetsStep == DeploymentInv /\ [Next]_vars => TargetsInv'
<1> SUFFICES ASSUME DeploymentInv, [Next]_vars PROVE TargetsInv'
  OBVIOUS
<1> USE DEF DeploymentInv
<1>1. ASSUME NEW p \in DOMAIN Metadata, NewBackend(p) PROVE TargetsInv'
  BY <1>1, TargetsAfterNewBackend
<1>2. CASE Execute
  BY <1>2, TargetsAfterExecute
<1>3. CASE FinishReplay
  BY <1>3, TargetsAfterReplay
<1>4. ASSUME NEW c \in todo, ListContract(c) PROVE TargetsInv'
  BY <1>4, TargetsAfterListing
<1>5. CASE BeginConfig
  BY <1>5, TargetsBeforeConfig
<1>6. ASSUME NEW c \in todo, ProcessConfig(c) PROVE TargetsInv'
  BY <1>6, TargetsAfterConfig
<1>7. CASE IgnoreContractMethod
  BY <1>7, TargetsAfterMethod
<1>8. CASE FinishConfig
  BY <1>8, TargetsAfterFinish
<1>9. CASE Fuzz
  BY <1>9, TargetsAfterFuzz
<1>10. CASE Refuse \/ HalveAmount \/ Stop \/ UNCHANGED vars
  <2>1. UNCHANGED <<pc, reason, TargetVars>>
    BY <1>10 DEF Refuse, HalveAmount, Stop, vars, caches, chain, targets, TargetVars, ListingVars
  <2> QED
    BY <2>1, SameTargets
<1>11. CASE Reset
  <2>1. pc' = "start" /\ reason' = None
    BY <1>11 DEF Reset, PlacesTyped
  <2> QED
    BY <2>1, NoneAssumption DEF TargetsInv, TargetsExact, Ready, PanicsExplained, Panics
<1> QED
  BY <1>1, <1>2, <1>3, <1>4, <1>5, <1>6, <1>7, <1>8, <1>9, <1>10, <1>11 DEF Next

\* The timestamps are words: the clock's pool has no others.
LEMMA WordsStep == DeploymentInv /\ [Next]_vars => timestamps' \subseteq Words
<1> SUFFICES ASSUME DeploymentInv, [Next]_vars PROVE timestamps' \subseteq Words
  OBVIOUS
<1> USE DEF DeploymentInv
<1>1. CASE Execute
  <2>1. PICK n \in 0 .. Len(tx.trace), success \in BOOLEAN : ExecuteUpTo(n, success)
    BY <1>1 DEF Execute
  <2> DEFINE done == SubSeq(tx.trace, 1, n)
  <2>2. timestamps' = timestamps \cup {w \in Pushed(Range(done)) : InRange(w)}
    BY <2>1 DEF ExecuteUpTo
  <2>3. Range(done) \subseteq Range(tx.trace)
    BY <1>1, NextTrace, Logged DEF Execute
  <2>4. \A e \in Range(tx.trace) : e[1] = "PUSH" => e[2] \in Words
    BY <1>1, NextTrace DEF Execute
  <2> HIDE DEF done
  <2> QED
    BY <2>2, <2>3, <2>4 DEF Pushed
<1>2. ASSUME NEW c \in todo, ProcessConfig(c) PROVE timestamps' \subseteq Words
  <2>1. /\ pc = "configuring" /\ c \in DOMAIN fuzzingConfig
        /\ timestamps' = timestamps \cup fuzzingConfig[c].timestamps
    BY <1>2 DEF ProcessConfig, BetweenContracts, TargetsInv, WhileConfiguring
  <2> QED
    BY <2>1, ProjectFacts DEF SourcesInv
<1>3. CASE Reset
  BY <1>3 DEF Reset, ResetArgPool
<1>4. CASE \/ \E p \in DOMAIN Metadata : NewBackend(p)
           \/ Refuse \/ FinishReplay \/ BeginConfig \/ FinishConfig \/ Fuzz \/ HalveAmount
           \/ IgnoreContractMethod \/ Stop \/ UNCHANGED vars
           \/ \E c \in todo : ListContract(c)
  <2>1. UNCHANGED timestamps
    BY <1>4 DEF NewBackend, Refuse, FinishReplay, BeginConfig, FinishConfig, Fuzz, HalveAmount,
       IgnoreContractMethod, Stop, ListContract, vars
  <2> QED
    BY <2>1
<1> QED
  BY <1>1, <1>2, <1>3, <1>4 DEF Next

LEMMA DeploymentStep == DeploymentInv /\ [Next]_vars => DeploymentInv'
<1> SUFFICES ASSUME DeploymentInv, [Next]_vars PROVE DeploymentInv'
  OBVIOUS
<1>1. ReplayInv'
  BY ReplayStep DEF DeploymentInv
<1>2. SourcesInv' /\ PlacesTyped' /\ LedgerTyped'
  BY SourcesStep, PlacesStep, LedgerStep DEF DeploymentInv
<1>3. ContractsTyped'
  BY ContractsStep DEF DeploymentInv
<1> QED
  BY <1>1, <1>2, <1>3, TargetsStep, WordsStep DEF DeploymentInv

\* Whatever projects are fuzzed one after the other, the program is never in a state
\* that it does not expect.
THEOREM DeploymentInvariant == Spec => []DeploymentInv
<1>1. Init => DeploymentInv
  <2> SUFFICES ASSUME Init PROVE DeploymentInv
    OBVIOUS
  <2>1. ReplayInv
    BY DEF Init, ReplayInv, Prepared, Counted, NoncesUsed, ReplayIsPrefix
  <2>2. DOMAIN <<>> = {} /\ Range(<<>>) = {} /\ <<>> \in Seq({})
    BY DEF Range
  <2>3. SourcesInv /\ LedgerTyped /\ ContractsTyped
    BY <2>2 DEF Init, SourcesInv, LedgerTyped, ContractsTyped, Idle
  <2>4. PlacesTyped
    BY RunsAssumption DEF Init, PlacesTyped, Places
  <2>5. TargetsInv
    BY NoneAssumption DEF Init, TargetsInv, TargetsExact, Ready, PanicsExplained, Panics
  <2> QED
    BY <2>1, <2>3, <2>4, <2>5 DEF Init, DeploymentInv
<1> QED
  BY <1>1, DeploymentStep, PTL DEF Spec

\* The replay never spends more ether than an account has, every deployed contract has
\* an address (transactions.go:33), and a panic has a reason (backend.go:144).
THEOREM DeploymentTypeCorrect == Spec => []TypeOK
<1>1. DeploymentInv => TypeOK
  BY DEF DeploymentInv, TypeOK, PlacesTyped, LedgerTyped, ContractsTyped, ReplayInv, Counted
<1> QED
  BY <1>1, DeploymentInvariant, PTL

\* In whatever order Go iterates its maps, what is fuzzed is what was found, is no
\* library and is not ignored, with every method that is left, once (backend.go:193).
THEOREM TargetsAreExact == Spec => []TargetsExact
<1>1. DeploymentInv => TargetsExact
  BY DEF DeploymentInv, TargetsInv
<1> QED
  BY <1>1, DeploymentInvariant, PTL

\* GetContractABI never panics (contracts.go:213), and GetRandomMethod only when a
\* contract has no method or the configuration leaves none (contracts.go:240).
THEOREM PanicsAreExplained == Spec => []PanicsExplained
<1>1. DeploymentInv => PanicsExplained
  BY DEF DeploymentInv, TargetsInv
<1> QED
  BY <1>1, DeploymentInvariant, PTL
===============================================================================
