--------------------------- MODULE FuzzEngineProofs ---------------------------
(***************************************************************************)
(* The engine for any contracts, methods, accounts, pool values, verdicts,  *)
(* flags and limits: type correctness, what a retry repeats, why nothing    *)
(* follows a failed custom property, the quota of a timestamp, the first    *)
(* revert, the depth of the recursion and the statistics.                   *)
(***************************************************************************)
EXTENDS FuzzEngine, FiniteSetTheorems, SequenceTheorems, TLAPS

After == {"afterHalf", "afterDiff"}

\* Rec runs only inside an attempt.
BetweenAttempts == loop \in {"test", "done"} => stack = <<>>

\* An activation that is not the last one waits for a retry to return.
CallersWait == \A k \in 1 .. Len(stack) - 1 : stack[k] \in After

\* The attempt has generated a transaction, which the Hint then describes: contract
\* and method are the same, and the amount only shrinks.
Committed == stack # <<>> /\ (Len(stack) > 1 \/ Top # "generate")
HintType == [contract : Contracts \cup {None}, method : Callable \cup {None},
             args : {None}, amount : Nat \cup {None}, cell : Pooled \cup {None},
             sender : Accounts \cup {None}, fallback : BOOLEAN]
FullTx == [contract : Contracts, method : Callable, args : ArgLists \cup {None},
           sender : Accounts, value : Nat]
HintKept ==
  Committed => /\ tx \in FullTx
               /\ hint.contract = tx.contract /\ hint.method = tx.method
               /\ hint.amount \in Nat /\ hint.amount <= tx.value
               /\ hint.fallback => tx.method = Fallback
               /\ Top \in {"commit", "judge"} => hint.amount = tx.value

\* What RetryHalfEther prepared is still there when the retry is generated.
HalfReady ==
  (stack # <<>> /\ Top = "generate" /\ Len(stack) > 1 /\ stack[Len(stack) - 1] = "afterHalf")
    => hint.amount = tx.value \div 2 /\ hint.sender = tx.sender

\* Only calls that are no custom property are retried, and tried as corner cases.
RetriedHarmless ==
  (stack # <<>> /\ (Len(stack) > 1 \/ Top \in After)) => ~IsFuzz(tx.method)
CornersHarmless ==
  /\ corner \subseteq CornerCases
  /\ (loop = "corner" /\ stack # <<>>) =>
       IF Committed THEN ~IsFuzz(tx.method)
       ELSE hint.fallback \/ hint.method \in Callable \ FuzzMethods

\* A transaction under way still has its place in the quota of the timestamp.
QuotaKept ==
  /\ TimestampQuota
  /\ (stack # <<>> /\ Top \in {"commit", "judge"}) => count < SubmitPerTimestamp

EngineInv == /\ TypeOK
             /\ BetweenAttempts
             /\ CallersWait
             /\ HintKept
             /\ HalfReady
             /\ RetriedHarmless
             /\ CornersHarmless
             /\ QuotaKept
             /\ StopsOnFinding
-------------------------------------------------------------------------------
(* The stack of activations. *)

LEMMA TopFacts ==
  ASSUME stack \in Seq(Statements), stack # <<>>
  PROVE  /\ Len(stack) \in Nat \ {0}
         /\ Top = stack[Len(stack)]
         /\ Top \in Statements
         /\ \A k \in 1 .. Len(stack) : stack[k] \in Statements
BY LenProperties, ElementOfSeq, EmptySeq DEF Top

LEMMA GotoFacts ==
  ASSUME stack \in Seq(Statements), stack # <<>>, NEW x \in Statements
  PROVE  /\ Goto(x) \in Seq(Statements)
         /\ Goto(x) # <<>>
         /\ Len(Goto(x)) = Len(stack)
         /\ Goto(x)[Len(stack)] = x
         /\ \A k \in 1 .. Len(stack) - 1 : Goto(x)[k] = stack[k]
<1>1. Len(stack) \in 1 .. Len(stack) /\ Len(stack) \in Nat \ {0}
  BY TopFacts
<1>2. /\ Goto(x) \in Seq(Statements)
      /\ Len(Goto(x)) = Len(stack)
      /\ \A k \in 1 .. Len(stack) : Goto(x)[k] = IF k = Len(stack) THEN x ELSE stack[k]
  BY <1>1, ExceptSeq DEF Goto
<1> QED
  BY <1>1, <1>2, EmptySeq

\* A retry: the activation waits at x, a new one starts at y.
LEMMA PushFacts ==
  ASSUME stack \in Seq(Statements), stack # <<>>, NEW x \in Statements, NEW y \in Statements
  PROVE  /\ Append(Goto(x), y) \in Seq(Statements)
         /\ Append(Goto(x), y) # <<>>
         /\ Len(Append(Goto(x), y)) = Len(stack) + 1
         /\ Append(Goto(x), y)[Len(stack) + 1] = y
         /\ Append(Goto(x), y)[Len(stack)] = x
         /\ \A k \in 1 .. Len(stack) - 1 : Append(Goto(x), y)[k] = stack[k]
<1>1. Len(stack) \in Nat \ {0}
  BY TopFacts
<1>2. /\ Goto(x) \in Seq(Statements)
      /\ Len(Goto(x)) = Len(stack)
      /\ Goto(x)[Len(stack)] = x
      /\ \A k \in 1 .. Len(stack) - 1 : Goto(x)[k] = stack[k]
  BY GotoFacts
<1>3. /\ Append(Goto(x), y) \in Seq(Statements)
      /\ Append(Goto(x), y) # <<>>
      /\ Len(Append(Goto(x), y)) = Len(stack) + 1
      /\ Append(Goto(x), y)[Len(stack) + 1] = y
      /\ \A k \in 1 .. Len(stack) : Append(Goto(x), y)[k] = Goto(x)[k]
  BY <1>2, AppendProperties
<1> QED
  BY <1>1, <1>2, <1>3

LEMMA PopFacts ==
  ASSUME stack \in Seq(Statements), stack # <<>>
  PROVE  /\ Pop \in Seq(Statements)
         /\ Len(Pop) = Len(stack) - 1
         /\ (Pop = <<>>) <=> (Len(stack) = 1)
         /\ \A k \in 1 .. Len(stack) - 1 : Pop[k] = stack[k]
<1>1. Len(stack) \in Nat \ {0}
  BY TopFacts
<1> DEFINE n == Len(stack) - 1
<1>2. n \in Nat /\ \A k \in 1 .. n : stack[k] \in Statements
  BY <1>1, TopFacts
<1>3. /\ Pop \in Seq(Statements)
      /\ Len(Pop) = IF 1 <= n THEN n - 1 + 1 ELSE 0
      /\ \A k \in 1 .. n - 1 + 1 : Pop[k] = stack[1 + k - 1]
  <2> HIDE DEF n
  <2>1. Pop = SubSeq(stack, 1, n)
    BY DEF Pop, n
  <2> QED
    BY <1>2, <2>1, SubSeqProperties
<1>4. Len(Pop) = n
  <2> HIDE DEF n
  <2> QED
    BY <1>2, <1>3
<1>5. \A k \in 1 .. n : Pop[k] = stack[k]
  <2> HIDE DEF n
  <2> SUFFICES ASSUME NEW k \in 1 .. n PROVE Pop[k] = stack[k]
    OBVIOUS
  <2>1. k \in 1 .. n - 1 + 1 /\ 1 + k - 1 = k
    BY <1>2
  <2> QED
    BY <1>3, <2>1
<1>6. (Pop = <<>>) <=> (Len(Pop) = 0)
  BY <1>3, EmptySeq
<1> QED
  BY <1>1, <1>3, <1>4, <1>5, <1>6

-------------------------------------------------------------------------------
(* fuzz(): the steps outside Rec. *)

\* Nothing is claimed of the activations of Rec while there are none.
RecParts == /\ BetweenAttempts /\ CallersWait /\ HintKept /\ HalfReady
            /\ RetriedHarmless /\ QuotaKept
LEMMA NoActivation == stack = <<>> /\ TimestampQuota => RecParts
<1> SUFFICES ASSUME stack = <<>>, TimestampQuota PROVE RecParts
  OBVIOUS
<1>1. Len(stack) = 0
  BY EmptySeq
<1> QED
  BY <1>1 DEF BetweenAttempts, CallersWait, HintKept, Committed, HalfReady,
     RetriedHarmless, QuotaKept, RecParts
LEMMA NoActivationNext == (stack = <<>> /\ TimestampQuota => RecParts)'
BY NoActivation, PTL

LEMMA CornersAreCalls == CornerCases \subseteq Contracts \X Callable
BY DEF CornerCases, Callable

LEMMA DeployedTyped ==
  ASSUME NEW cells \in [Pooled -> Nat]
  PROVE  DeployedWith(cells) \in Worlds
BY EngineAssumption DEF DeployedWith, Worlds

LEMMA InitEngine == Init => EngineInv
<1> SUFFICES ASSUME Init PROVE EngineInv
  OBVIOUS
<1> USE EngineAssumption, TimesAssumption
<1>1. TypeOK
  <2>1. ClockTyped
    <3>1. times \in Seq(Times)
      BY DEF Init
    <3>2. times # <<>> => 0 < Len(times)
      BY <3>1, EmptySeq, LenProperties
    <3> QED
      BY <3>1, <3>2 DEF Init, ClockTyped
  <2>2. optMode \in [halfEther : BOOLEAN, diffSender : BOOLEAN,
                     snapshots : BOOLEAN, statistics : BOOLEAN]
    <3>1. \A n, w : Bit(n, w) \in BOOLEAN
      BY Zenon DEF Bit
    <3>2. \A n : SetFlag(n) \in [halfEther : BOOLEAN, diffSender : BOOLEAN,
                                 snapshots : BOOLEAN, statistics : BOOLEAN]
      BY <3>1 DEF SetFlag
    <3> QED
      BY <3>2 DEF Init
  <2>3. /\ loop = "corner" /\ corner \subseteq Contracts \X Callable
        /\ i = 0 /\ txCount = 0 /\ count = 0 /\ terminate = FALSE /\ result = {}
        /\ stack = <<>> /\ stack \in Seq(Statements)
    BY CornersAreCalls, EmptySeq DEF Init
  <2>4. hint \in HintType
    BY DEF Init, EmptyHint, HintType
  <2>5. tx \in [contract : Contracts \cup {None}, method : Callable \cup {None},
                args : ArgLists \cup {None}, sender : Accounts \cup {None}, value : Nat]
    BY DEF Init, NoTx
  <2>6. lastTxRes \in [verdict : AllVerdicts, receipt : BOOLEAN]
    <3>1. CleanVerdict \in AllVerdicts
      BY DEF CleanVerdict, AllVerdicts, Outputs
    <3> QED
      BY <3>1 DEF Init
  <2>7. db \in StateDBs /\ amounts \in [Pooled -> Nat]
    <3>1. InitAmounts \in [Pooled -> Nat]
      BY DEF InitAmounts
    <3>2. DeployedWith(InitAmounts) \in Worlds
      BY <3>1, DeployedTyped
    <3> QED
      BY <3>1, <3>2 DEF Init, SnapshotBackend, StateDBs
  <2>8. stats \in [Contracts \X Callable -> [failed : Nat, total : Nat]]
    BY DEF Init, NoStats
  <2> QED
    BY <2>1, <2>2, <2>3, <2>4, <2>5, <2>6, <2>7, <2>8 DEF TypeOK, LoopTyped, StackTyped, CallTyped,
       HintType, ResultTyped, StateTyped, CountersTyped
<1>2. stack = <<>> /\ TimestampQuota
  BY DEF Init, TimestampQuota
<1>3. CornersHarmless
  BY <1>2 DEF Init, CornersHarmless
<1>4. StopsOnFinding
  BY DEF Init, StopsOnFinding
<1> QED
  BY <1>1, <1>2, <1>3, <1>4, NoActivation DEF EngineInv, RecParts

LEMMA RevertTyped == db \in StateDBs => RevertBackend(db) \in StateDBs
BY DEF RevertBackend, StateDBs

\* A step of fuzz() from one attempt to the next, or to its end.
LEMMA BetweenPreserves ==
  ASSUME EngineInv, CornersDone \/ LimitReached \/ Break \/ Continue
  PROVE  EngineInv'
<1>1. /\ stack = <<>> /\ stack' = stack
      /\ UNCHANGED <<times, timeKeys, cursor, time, amounts, tx, lastTxRes, result, count,
                     stats, optMode, corner, terminate, hint>>
      /\ loop' \in {"test", "done"}
  BY DEF EngineInv, BetweenAttempts, CornersDone, LimitReached, Break, Continue,
     engineVars, clockVars, poolVars
<1>2. i' \in Nat /\ txCount' \in Nat
  <2> USE DEF EngineInv, TypeOK, LoopTyped, StateTyped
  <2>1. CASE CornersDone
    BY <2>1 DEF CornersDone
  <2>2. CASE LimitReached \/ Break
    BY <2>2 DEF LimitReached, Break
  <2>3. CASE Continue
    BY <2>3 DEF Continue
  <2> QED
    BY <2>1, <2>2, <2>3
<1>8. db' \in StateDBs
  <2>1. db' = db \/ db' = RevertBackend(db)
    BY DEF CornersDone, LimitReached, Break, Continue
  <2> QED
    BY <2>1, RevertTyped DEF EngineInv, TypeOK, StateTyped
<1>3. TypeOK'
  <2>1. ClockTyped'
    BY <1>1 DEF EngineInv, TypeOK, ClockTyped
  <2>2. LoopTyped' /\ StackTyped'
    BY <1>1, <1>2 DEF EngineInv, TypeOK, LoopTyped, StackTyped
  <2>3. CallTyped' /\ ResultTyped'
    BY <1>1 DEF EngineInv, TypeOK, CallTyped, ResultTyped
  <2>4. StateTyped' /\ CountersTyped'
    BY <1>1, <1>2, <1>8 DEF EngineInv, TypeOK, StateTyped, CountersTyped
  <2> QED
    BY <2>1, <2>2, <2>3, <2>4 DEF TypeOK
<1>4. TimestampQuota'
  BY <1>1 DEF EngineInv, QuotaKept, TimestampQuota
<1>5. CornersHarmless'
  BY <1>1 DEF EngineInv, CornersHarmless
<1>6. StopsOnFinding'
  BY <1>1 DEF EngineInv, StopsOnFinding, CornersDone, LimitReached, Break, Continue
<1> QED
  BY <1>1, <1>3, <1>4, <1>5, <1>6, NoActivationNext DEF EngineInv, RecParts

\* A step that starts an attempt.
LEMMA AttemptPreserves ==
  ASSUME EngineInv, CornerAttempt \/ MainAttempt
  PROVE  EngineInv'
<1> USE EngineAssumption
<1>1. /\ stack = <<>> /\ stack' = <<"generate">>
      /\ UNCHANGED <<times, timeKeys, cursor, time, amounts, tx, lastTxRes, result, count,
                     stats, optMode, i, terminate, db, txCount>>
  BY DEF EngineInv, BetweenAttempts, CornerAttempt, MainAttempt, Attempt,
     engineVars, clockVars, poolVars
<1>2. /\ stack' \in Seq(Statements) /\ stack' # <<>> /\ Len(stack') = 1 /\ Top' = "generate"
  BY <1>1 DEF Top, Statements
<1>3. /\ loop' \in {"corner", "after"}
      /\ corner' \subseteq corner
      /\ hint' \in HintType
      /\ loop' = "corner" => hint'.fallback \/ hint'.method \in Callable \ FuzzMethods
  <2>1. ASSUME NEW p \in NextCorner, Attempt(CornerHint(p)), CornerAttempt
        PROVE  /\ hint' \in HintType
               /\ hint'.fallback \/ hint'.method \in Callable \ FuzzMethods
    <3>1. p \in CornerCases
      BY DEF NextCorner, EngineInv, CornersHarmless
    <3>2. p[1] \in Contracts /\ p[2] \in Callable
      BY <3>1, CornersAreCalls
    <3>3. CASE p[2] = Fallback
      BY <2>1, <3>2, <3>3 DEF Attempt, CornerHint, EmptyHint, HintType
    <3>4. CASE p[2] # Fallback
      <4>1. p[2] \notin FuzzMethods
        BY <3>1, <3>4 DEF CornerCases, IsFuzz
      <4> QED
        BY <2>1, <3>2, <3>4, <4>1 DEF Attempt, CornerHint, EmptyHint, HintType
    <3> QED
      BY <3>3, <3>4
  <2>2. CASE CornerAttempt
    BY <2>1, <2>2 DEF CornerAttempt
  <2>3. CASE MainAttempt
    BY <2>3 DEF MainAttempt, Attempt, EmptyHint, HintType
  <2> QED
    BY <2>2, <2>3
<1>4. TypeOK'
  <2>1. ClockTyped'
    BY <1>1 DEF EngineInv, TypeOK, ClockTyped
  <2>2. LoopTyped' /\ StackTyped'
    BY <1>1, <1>2, <1>3 DEF EngineInv, TypeOK, LoopTyped, StackTyped
  <2>3. CallTyped' /\ ResultTyped'
    BY <1>1, <1>3 DEF EngineInv, TypeOK, CallTyped, HintType, ResultTyped
  <2>4. StateTyped' /\ CountersTyped'
    BY <1>1 DEF EngineInv, TypeOK, StateTyped, CountersTyped
  <2> QED
    BY <2>1, <2>2, <2>3, <2>4 DEF TypeOK
<1>5. BetweenAttempts' /\ CallersWait' /\ HintKept' /\ HalfReady' /\ RetriedHarmless' /\ QuotaKept'
  BY <1>1, <1>2, <1>3 DEF EngineInv, BetweenAttempts, CallersWait, HintKept, Committed,
     HalfReady, RetriedHarmless, After, QuotaKept, TimestampQuota
<1>6. CornersHarmless'
  BY <1>2, <1>3 DEF EngineInv, CornersHarmless, Committed
<1>7. StopsOnFinding'
  <2>1. ~ \E r \in result : r[3] \in Fatal
    BY <1>1 DEF EngineInv, StopsOnFinding, CornerAttempt, MainAttempt
  <2> QED
    BY <1>1, <2>1 DEF StopsOnFinding
<1> QED
  BY <1>4, <1>5, <1>6, <1>7 DEF EngineInv

-------------------------------------------------------------------------------
(* Rec: what a step does to the stack of activations. *)

LEMMA GotoStep ==
  ASSUME EngineInv, stack # <<>>, NEW x \in Statements, stack' = Goto(x)
  PROVE  /\ StackTyped' /\ CallersWait'
         /\ stack' # <<>> /\ Len(stack') = Len(stack) /\ Top' = x
         /\ Len(stack) > 1 => stack'[Len(stack) - 1] = stack[Len(stack) - 1]
<1>1. stack \in Seq(Statements) /\ Len(stack) \in Nat \ {0}
  BY TopFacts DEF EngineInv, TypeOK, StackTyped
<1>2. /\ stack' \in Seq(Statements) /\ stack' # <<>> /\ Len(stack') = Len(stack)
      /\ stack'[Len(stack)] = x
      /\ \A k \in 1 .. Len(stack) - 1 : stack'[k] = stack[k]
  BY <1>1, GotoFacts
<1>3. CallersWait'
  BY <1>2 DEF EngineInv, CallersWait
<1> QED
  BY <1>1, <1>2, <1>3 DEF StackTyped, Top

LEMMA PushStep ==
  ASSUME EngineInv, stack # <<>>, NEW x \in After, stack' = Append(Goto(x), "generate")
  PROVE  /\ StackTyped' /\ CallersWait'
         /\ stack' # <<>> /\ Len(stack') > 1 /\ Top' = "generate"
         /\ stack'[Len(stack') - 1] = x
<1> DEFINE n == Len(stack)
<1>1. stack \in Seq(Statements) /\ n \in Nat \ {0}
  BY TopFacts DEF EngineInv, TypeOK, StackTyped
<1>2. /\ stack' \in Seq(Statements) /\ stack' # <<>> /\ Len(stack') = n + 1
      /\ stack'[n + 1] = "generate" /\ stack'[n] = x
      /\ \A k \in 1 .. n - 1 : stack'[k] = stack[k]
  BY <1>1, PushFacts DEF Statements, After
<1>3. CallersWait'
  <2> SUFFICES ASSUME NEW k \in 1 .. n PROVE stack'[k] \in After
    BY <1>1, <1>2 DEF CallersWait
  <2>1. CASE k = n
    BY <1>2, <2>1
  <2>2. CASE k # n
    <3>1. k \in 1 .. n - 1
      BY <1>1, <2>2
    <3> QED
      BY <1>2, <3>1 DEF EngineInv, CallersWait
  <2> QED
    BY <2>1, <2>2
<1>4. Top' = "generate"
  BY <1>2 DEF Top
<1>5. Len(stack') > 1 /\ Len(stack') - 1 = n
  BY <1>1, <1>2
<1> QED
  BY <1>2, <1>3, <1>4, <1>5 DEF StackTyped

LEMMA PopStep ==
  ASSUME EngineInv, stack # <<>>, stack' = Pop
  PROVE  /\ StackTyped' /\ CallersWait'
         /\ (stack' = <<>>) <=> (Len(stack) = 1)
         /\ stack' # <<>> => Len(stack) > 1 /\ Top' \in After
<1> DEFINE n == Len(stack)
<1>1. stack \in Seq(Statements) /\ n \in Nat \ {0}
  BY TopFacts DEF EngineInv, TypeOK, StackTyped
<1>2. /\ stack' \in Seq(Statements) /\ Len(stack') = n - 1
      /\ (stack' = <<>>) <=> (n = 1)
      /\ \A k \in 1 .. n - 1 : stack'[k] = stack[k]
  BY <1>1, PopFacts
<1>3. \A k \in 1 .. n - 1 : stack'[k] \in After
  BY <1>2 DEF EngineInv, CallersWait
<1>4. CallersWait'
  BY <1>1, <1>2, <1>3 DEF CallersWait
<1>5. ASSUME stack' # <<>> PROVE n > 1 /\ Top' \in After
  <2>1. n > 1 /\ n - 1 \in 1 .. n - 1
    BY <1>1, <1>2, <1>5
  <2> QED
    BY <1>2, <1>3, <2>1 DEF Top
<1> QED
  BY <1>2, <1>4, <1>5 DEF StackTyped

\* Rec runs in the corner cases and in the main loop.
LEMMA RecRunning ==
  ASSUME EngineInv, stack # <<>>
  PROVE  /\ loop \in {"corner", "after"}
         /\ ~ \E r \in result : r[3] \in Fatal
<1>1. loop \in {"corner", "test", "after", "done"}
  BY DEF EngineInv, TypeOK, LoopTyped
<1>2. loop \notin {"test", "done"}
  BY DEF EngineInv, BetweenAttempts
<1> QED
  BY <1>1, <1>2 DEF EngineInv, StopsOnFinding

LEMMA OneActivation ==
  ASSUME EngineInv, stack # <<>>, ~(Len(stack) > 1)
  PROVE  Len(stack) = 1
<1>1. \A n \in Nat \ {0} : n = 1 \/ n > 1
  OBVIOUS
<1>2. Len(stack) \in Nat \ {0}
  BY TopFacts DEF EngineInv, TypeOK, StackTyped
<1> QED
  BY <1>1, <1>2, Zenon

(* The choices of GenTransaction respect the Hint. *)

\* The amounts an element of the pool can be drawn from or point to.
LEMMA PoolAmountFacts ==
  ASSUME EngineInv, NEW p \in PoolAmounts
  PROVE  /\ p.value \in Nat /\ p.cell \in Pooled \cup {None}
         /\ p.value \in PoolValues \/ \E a \in Pooled : p.value = amounts[a]
<1>1. PoolValues \subseteq Nat /\ amounts \in [Pooled -> Nat]
  BY EngineAssumption DEF EngineInv, TypeOK, StateTyped
<1> QED
  BY <1>1 DEF PoolAmounts, Amount

LEMMA AmountFacts ==
  ASSUME EngineInv, NEW c, NEW m, NEW balance, NEW p \in AmountChoices(c, m, balance)
  PROVE  /\ p.value \in Nat /\ p.cell \in Pooled \cup {None}
         /\ hint.amount # None => p.value = hint.amount
         /\ hint.amount = None => \/ p.value = 0
                                  \/ p \in PoolAmounts /\ p.value <= balance
<1>1. hint.amount \in Nat \cup {None} /\ hint.cell \in Pooled \cup {None}
  BY DEF EngineInv, TypeOK, CallTyped
<1>2. CASE hint.amount # None
  BY <1>1, <1>2 DEF AmountChoices, HintedAmount, Amount
<1>3. CASE hint.amount = None
  <2>1. p = Amount(0, None) \/ (p \in PoolAmounts /\ p.value <= balance)
    BY <1>3 DEF AmountChoices, HintedAmount
  <2> QED
    BY <1>3, <2>1, PoolAmountFacts DEF Amount
<1> QED
  BY <1>2, <1>3

LEMMA GeneratedCall ==
  ASSUME EngineInv, Generate
  PROVE  /\ tx' \in FullTx /\ hint' \in HintType
         /\ hint'.contract = tx'.contract /\ hint'.method = tx'.method
         /\ hint'.amount = tx'.value /\ hint'.fallback = hint.fallback
         /\ hint.contract # None => tx'.contract = hint.contract
         /\ hint.method # None /\ ~hint.fallback => tx'.method = hint.method
         /\ hint.fallback => tx'.method = Fallback
         /\ hint.amount # None => tx'.value = hint.amount
         /\ hint.sender # None => tx'.sender = hint.sender
         /\ hint.amount = None =>
              \/ tx'.value = 0
              \/ /\ tx'.value <= db'.live.balance[tx'.sender]
                 /\ tx'.value \in PoolValues \/ \E a \in Pooled : tx'.value = amounts[a]
<1> USE EngineAssumption
<1>1. PICK c \in Hinted(hint.contract, Contracts) :
        \E m \in MethodChoices(c), s \in Hinted(hint.sender, Accounts) :
          \E args \in ArgChoices(m), p \in AmountChoices(c, m, db'.live.balance[s]) :
            /\ tx' = [contract |-> c, method |-> m, args |-> args, sender |-> s,
                      value |-> p.value]
            /\ hint' = [hint EXCEPT !.contract = c, !.method = m,
                                    !.amount = p.value, !.cell = p.cell]
  BY DEF Generate, GenTransaction
<1>2. PICK m \in MethodChoices(c), s \in Hinted(hint.sender, Accounts) :
        \E args \in ArgChoices(m), p \in AmountChoices(c, m, db'.live.balance[s]) :
          /\ tx' = [contract |-> c, method |-> m, args |-> args, sender |-> s,
                    value |-> p.value]
          /\ hint' = [hint EXCEPT !.contract = c, !.method = m,
                                  !.amount = p.value, !.cell = p.cell]
  BY <1>1
<1>3. PICK args \in ArgChoices(m), p \in AmountChoices(c, m, db'.live.balance[s]) :
        /\ tx' = [contract |-> c, method |-> m, args |-> args, sender |-> s,
                  value |-> p.value]
        /\ hint' = [hint EXCEPT !.contract = c, !.method = m,
                                !.amount = p.value, !.cell = p.cell]
  BY <1>2
<1>4. hint \in HintType
  BY DEF EngineInv, TypeOK, CallTyped, HintType
<1>5. c \in Contracts /\ (hint.contract # None => c = hint.contract)
  BY <1>4 DEF Hinted, HintType
<1>6. s \in Accounts /\ (hint.sender # None => s = hint.sender)
  BY <1>4 DEF Hinted, HintType
<1>7. /\ m \in Callable
      /\ hint.method # None /\ ~hint.fallback => m = hint.method
      /\ hint.fallback => m = Fallback
  <2>1. CASE hint.fallback
    BY <2>1 DEF MethodChoices, Callable
  <2>2. CASE ~hint.fallback
    BY <1>4, <1>5, <2>2 DEF HintType, MethodChoices, Hinted, Callable
  <2> QED
    BY <2>1, <2>2
<1>8. args \in ArgLists \cup {None}
  BY <1>4 DEF HintType, ArgChoices, Hinted
<1>9. /\ p.value \in Nat /\ p.cell \in Pooled \cup {None}
      /\ hint.amount # None => p.value = hint.amount
      /\ hint.amount = None =>
           \/ p.value = 0
           \/ p \in PoolAmounts /\ p.value <= db'.live.balance[s]
  BY AmountFacts
<1>10. tx' \in FullTx /\ tx'.contract = c /\ tx'.method = m /\ tx'.sender = s /\ tx'.value = p.value
  BY <1>3, <1>5, <1>6, <1>7, <1>8, <1>9 DEF FullTx
<1>11. /\ hint' \in HintType
       /\ hint'.contract = c /\ hint'.method = m /\ hint'.amount = p.value
       /\ hint'.fallback = hint.fallback
  BY <1>3, <1>4, <1>5, <1>7, <1>9 DEF HintType
<1> QED
  BY <1>5, <1>6, <1>7, <1>9, <1>10, <1>11, PoolAmountFacts

-------------------------------------------------------------------------------
(* Rec: each of its steps preserves the invariant. *)

\* GenTimestamp keeps the cursor in the pool and the count under the quota.
LEMMA TimestampGenerated ==
  ASSUME EngineInv, GenTimestamp
  PROVE  /\ ClockTyped' /\ db' \in StateDBs
         /\ count' \in Nat /\ count' < SubmitPerTimestamp
         /\ cursor' # cursor => count = SubmitPerTimestamp
<1> USE EngineAssumption, TimesAssumption
<1>1. /\ times \in Seq(Times) /\ Len(times) \in Nat /\ cursor \in Nat
      /\ times # <<>> => cursor < Len(times)
      /\ db \in StateDBs /\ count \in Nat /\ count <= SubmitPerTimestamp
  BY LenProperties DEF EngineInv, TypeOK, ClockTyped, StateTyped, CountersTyped,
     QuotaKept, TimestampQuota
<1>2. times' = times /\ timeKeys' = timeKeys
  BY DEF GenTimestamp, poolVars
<1>3. ASSUME NEW k \in Nat, times # <<>> => k < Len(times), cursor' = k,
             time' = IF times = <<>> THEN WallClock ELSE times[k + 1]
      PROVE  ClockTyped'
  <2>1. time' \in Nat
    <3>1. CASE times = <<>>
      BY <1>3, <3>1
    <3>2. CASE times # <<>>
      <4>1. k + 1 \in 1 .. Len(times)
        BY <1>1, <1>3, <3>2
      <4>2. times[k + 1] \in Times
        BY <1>1, <4>1, ElementOfSeq
      <4> QED
        BY <1>3, <3>2, <4>2
    <3> QED
      BY <3>1, <3>2
  <2> QED
    BY <1>1, <1>2, <1>3, <2>1 DEF EngineInv, TypeOK, ClockTyped
<1>4. CASE count < SubmitPerTimestamp /\ time' = CurrentTimestamp /\ UNCHANGED <<poolVars, count, db>>
  <2>1. cursor' = cursor /\ count' = count /\ db' = db
    BY <1>4 DEF poolVars
  <2>2. ClockTyped'
    BY <1>1, <1>3, <1>4, <2>1 DEF CurrentTimestamp
  <2> QED
    BY <1>1, <1>4, <2>1, <2>2
<1>5. CASE /\ count >= SubmitPerTimestamp /\ time' = NextTime /\ cursor' = NextCursor /\ count' = 0
           /\ db' = IF ShouldRevert THEN RevertBackend(db) ELSE db
  <2>1. NextCursor \in Nat /\ (times # <<>> => NextCursor < Len(times))
    <3>1. CASE times = <<>>
      BY <1>1, <3>1 DEF NextCursor
    <3>2. CASE times # <<>>
      <4>1. Len(times) \in Nat \ {0}
        BY <1>1, <3>2
      <4> QED
        BY <1>1, <3>2, <4>1 DEF NextCursor
    <3> QED
      BY <3>1, <3>2
  <2>2. ClockTyped'
    BY <1>3, <1>5, <2>1 DEF NextTime
  <2>3. db' \in StateDBs
    BY <1>1, <1>5, RevertTyped
  <2> QED
    BY <1>1, <1>5, <2>2, <2>3
<1> QED
  BY <1>4, <1>5 DEF GenTimestamp

LEMMA GeneratePreserves ==
  ASSUME EngineInv, Generate
  PROVE  EngineInv'
<1> USE EngineAssumption
<1>1. /\ stack # <<>> /\ Top = "generate" /\ stack' = Goto("commit")
      /\ UNCHANGED <<optMode, loop, corner, i, terminate, amounts, lastTxRes, result,
                     txCount, stats>>
  BY DEF Generate, At
<1>2. /\ StackTyped' /\ CallersWait'
      /\ stack' # <<>> /\ Len(stack') = Len(stack) /\ Top' = "commit"
  BY <1>1, GotoStep DEF Statements
<1>3. /\ ClockTyped' /\ db' \in StateDBs
      /\ count' \in Nat /\ count' < SubmitPerTimestamp
  BY TimestampGenerated DEF Generate
<1>4. /\ loop \in {"corner", "after"}
      /\ ~ \E r \in result : r[3] \in Fatal
  BY <1>1, RecRunning
<1>5. /\ tx' \in FullTx /\ hint' \in HintType
      /\ hint'.contract = tx'.contract /\ hint'.method = tx'.method /\ hint'.amount = tx'.value
      /\ hint'.fallback = hint.fallback
      /\ hint.method # None /\ ~hint.fallback => tx'.method = hint.method
      /\ hint.fallback => tx'.method = Fallback
  BY GeneratedCall
<1>6. CallTyped'
  BY <1>5 DEF CallTyped, HintType, FullTx
<1>7. TypeOK'
  <2>1. LoopTyped'
    BY <1>1 DEF EngineInv, TypeOK, LoopTyped
  <2>2. ResultTyped'
    BY <1>1 DEF EngineInv, TypeOK, ResultTyped
  <2>3. StateTyped' /\ CountersTyped'
    BY <1>1, <1>3 DEF EngineInv, TypeOK, StateTyped, CountersTyped
  <2> QED
    BY <1>2, <1>3, <1>6, <2>1, <2>2, <2>3 DEF TypeOK
<1>8. HintKept'
  BY <1>2, <1>5 DEF HintKept, Committed, FullTx
<1>9. HalfReady'
  BY <1>2 DEF HalfReady
<1>10. ASSUME Committed, ~IsFuzz(tx.method) PROVE ~IsFuzz(tx'.method)
  <2>1. /\ hint.method = tx.method /\ hint.method # None
        /\ hint.fallback => tx.method = Fallback
    BY <1>10 DEF EngineInv, HintKept, FullTx
  <2>2. tx'.method = tx.method
    BY <1>5, <2>1 DEF EngineInv, TypeOK, CallTyped
  <2> QED
    BY <1>10, <2>2
<1>11. RetriedHarmless'
  <2> SUFFICES ASSUME Len(stack') > 1 PROVE ~IsFuzz(tx'.method)
    BY <1>2 DEF RetriedHarmless, After
  <2>1. Committed /\ ~IsFuzz(tx.method)
    BY <1>1, <1>2 DEF EngineInv, RetriedHarmless, Committed
  <2> QED
    BY <1>10, <2>1
<1>12. CornersHarmless'
  <2>1. corner' \subseteq CornerCases
    BY <1>1 DEF EngineInv, CornersHarmless
  <2>2. ASSUME loop = "corner" PROVE ~IsFuzz(tx'.method)
    <3>1. CASE Committed
      BY <1>1, <1>10, <2>2, <3>1 DEF EngineInv, CornersHarmless
    <3>2. CASE ~Committed
      <4>1. hint.fallback \/ hint.method \in Callable \ FuzzMethods
        BY <1>1, <2>2, <3>2 DEF EngineInv, CornersHarmless
      <4>2. Fallback \notin FuzzMethods /\ None \notin Callable
        OBVIOUS
      <4> QED
        BY <1>5, <4>1, <4>2 DEF IsFuzz
    <3> QED
      BY <3>1, <3>2
  <2>3. Committed'
    BY <1>2 DEF Committed
  <2> QED
    BY <1>1, <2>1, <2>2, <2>3 DEF CornersHarmless
<1>13. QuotaKept' /\ BetweenAttempts' /\ StopsOnFinding'
  BY <1>1, <1>3, <1>4 DEF QuotaKept, TimestampQuota, BetweenAttempts, StopsOnFinding
<1> QED
  BY <1>2, <1>7, <1>8, <1>9, <1>11, <1>12, <1>13 DEF EngineInv

\* What an activation of Rec leaves to its caller.
RetryParts == /\ StackTyped /\ BetweenAttempts /\ CallersWait /\ HintKept /\ HalfReady
              /\ RetriedHarmless /\ CornersHarmless /\ QuotaKept

LEMMA ReturnPreserves ==
  ASSUME EngineInv, stack # <<>>, Top # "generate", stack' = Pop,
         UNCHANGED <<hint, tx, loop, corner>>, TimestampQuota'
  PROVE  RetryParts'
<1>1. /\ StackTyped' /\ CallersWait'
      /\ (stack' = <<>>) <=> (Len(stack) = 1)
      /\ stack' # <<>> => Len(stack) > 1 /\ Top' \in After
  BY PopStep
<1>2. loop \in {"corner", "after"} /\ corner' \subseteq CornerCases
  BY RecRunning DEF EngineInv, CornersHarmless
<1>3. CASE stack' = <<>>
  BY <1>1, <1>2, <1>3, NoActivationNext DEF RetryParts, RecParts, CornersHarmless
<1>4. CASE stack' # <<>>
  <2>1. Committed /\ Len(stack) > 1 /\ Top' \in After /\ Committed'
    BY <1>1, <1>4 DEF Committed, After
  <2>2. HintKept'
    BY <2>1 DEF EngineInv, HintKept, After
  <2>3. HalfReady' /\ QuotaKept'
    BY <2>1 DEF HalfReady, QuotaKept, After
  <2>4. RetriedHarmless'
    BY <2>1 DEF EngineInv, RetriedHarmless
  <2>5. CornersHarmless'
    BY <1>2, <2>1 DEF EngineInv, CornersHarmless, RetriedHarmless
  <2>6. BetweenAttempts'
    BY <1>2 DEF BetweenAttempts
  <2> QED
    BY <1>1, <2>2, <2>3, <2>4, <2>5, <2>6 DEF RetryParts
<1> QED
  BY <1>3, <1>4

LEMMA PushPreserves ==
  ASSUME EngineInv, stack # <<>>, Top # "generate", ~IsFuzz(tx.method),
         NEW x \in After, stack' = Append(Goto(x), "generate"),
         NEW a \in Nat, a <= hint.amount,
         NEW s, hint' = [hint EXCEPT !.amount = a, !.sender = s],
         x = "afterHalf" => a = tx.value \div 2 /\ s = tx.sender,
         UNCHANGED <<tx, loop, corner>>, TimestampQuota'
  PROVE  RetryParts'
<1>1. /\ StackTyped' /\ CallersWait'
      /\ stack' # <<>> /\ Len(stack') > 1 /\ Top' = "generate"
      /\ stack'[Len(stack') - 1] = x
  BY PushStep
<1>2. loop \in {"corner", "after"} /\ corner' \subseteq CornerCases
  BY RecRunning DEF EngineInv, CornersHarmless
<1>3. Committed /\ Committed'
  BY <1>1 DEF Committed
<1>4. /\ hint'.contract = hint.contract /\ hint'.method = hint.method
      /\ hint'.fallback = hint.fallback /\ hint'.amount = a /\ hint'.sender = s
  BY DEF EngineInv, TypeOK, CallTyped
<1>5. HintKept'
  <2>1. /\ tx \in FullTx /\ hint.contract = tx.contract /\ hint.method = tx.method
        /\ hint.amount \in Nat /\ hint.amount <= tx.value
        /\ hint.fallback => tx.method = Fallback
    BY <1>3 DEF EngineInv, HintKept
  <2>2. a <= tx.value
    BY <2>1 DEF FullTx
  <2> QED
    BY <1>1, <1>4, <2>1, <2>2 DEF HintKept
<1>6. HalfReady'
  BY <1>1, <1>4 DEF HalfReady
<1>7. RetriedHarmless' /\ CornersHarmless' /\ QuotaKept' /\ BetweenAttempts'
  BY <1>1, <1>2, <1>3 DEF RetriedHarmless, CornersHarmless, QuotaKept, BetweenAttempts
<1> QED
  BY <1>1, <1>5, <1>6, <1>7 DEF RetryParts

LEMMA SuccessorsTyped ==
  ASSUME NEW world \in Worlds, NEW sender \in Accounts, NEW value \in Nat,
         CanTransfer(world, sender, value), NEW w \in Successors(world, sender, value)
  PROVE  w \in Worlds /\ RolledBack(world, w) \in Worlds
<1> DEFINE moved == Transferred(world, sender, value)
<1>1. /\ world.balance[sender] - value \in Nat /\ world.balance \in [Accounts -> Nat]
      /\ world.held \in Nat /\ StillTied(world, sender, value) \in SUBSET Pooled
  BY DEF CanTransfer, Worlds, StillTied
<1>2. moved \in Worlds
  BY <1>1 DEF Transferred, Worlds
<1>3. ASSUME NEW payee \in Accounts PROVE PaidOut(moved, payee) \in Worlds
  <2> HIDE DEF moved
  <2>1. /\ moved.balance[payee] + moved.held \in Nat /\ moved.balance \in [Accounts -> Nat]
        /\ StillTied(moved, payee, moved.held) \in SUBSET Pooled
    BY <1>2 DEF Worlds, StillTied
  <2> QED
    BY <2>1 DEF PaidOut, Worlds
<1>4. w \in Worlds
  BY <1>2, <1>3 DEF Successors
<1> QED
  BY <1>4 DEF RolledBack, Worlds

LEMMA CommitPreserves ==
  ASSUME EngineInv, Commit
  PROVE  EngineInv'
<1> USE EngineAssumption
<1>1. /\ stack # <<>> /\ Top = "commit" /\ stack' = Goto("judge")
      /\ UNCHANGED <<times, timeKeys, cursor, time, optMode, loop, corner, i, terminate,
                     hint, amounts, tx, result, count, stats>>
      /\ txCount' = txCount + 1
  BY DEF Commit, At, clockVars, poolVars
<1>2. /\ StackTyped' /\ CallersWait'
      /\ stack' # <<>> /\ Len(stack') = Len(stack) /\ Top' = "judge"
  BY <1>1, GotoStep DEF Statements
<1>3. Committed /\ Committed' /\ tx \in FullTx
  BY <1>1, <1>2 DEF EngineInv, HintKept, Committed
<1>4. db' \in StateDBs /\ ResultTyped'
  <2>1. db \in StateDBs /\ lastTxRes \in [verdict : AllVerdicts, receipt : BOOLEAN]
    BY DEF EngineInv, TypeOK, StateTyped, ResultTyped
  <2>2. CASE Execute
    <3>1. PICK v \in Verdicts, w \in Successors(db.live, tx.sender, tx.value) :
            /\ lastTxRes' = [verdict |-> v, receipt |-> TRUE]
            /\ db' = Write(db, IF v.reverted \/ v.failed THEN RolledBack(db.live, w) ELSE w)
      BY <2>2 DEF Execute
    <3>2. db' \in StateDBs
      <4>1. w \in Worlds /\ RolledBack(db.live, w) \in Worlds
        BY <1>3, <2>1, <2>2, SuccessorsTyped DEF Execute, FullTx, StateDBs
      <4>2. PICK u \in Worlds : db' = Write(db, u)
        BY <3>1, <4>1
      <4> QED
        BY <2>1, <4>2 DEF Write, StateDBs
    <3>3. lastTxRes' \in [verdict : AllVerdicts, receipt : BOOLEAN]
      BY <3>1
    <3> QED
      BY <1>1, <3>2, <3>3 DEF EngineInv, TypeOK, ResultTyped
  <2>3. CASE Reject
    <3>1. [lastTxRes.verdict EXCEPT !.output = "none"] \in AllVerdicts
      BY <2>1 DEF AllVerdicts, Outputs
    <3>2. lastTxRes' \in [verdict : AllVerdicts, receipt : BOOLEAN]
      BY <2>3, <3>1 DEF Reject
    <3> QED
      BY <1>1, <2>1, <2>3, <3>2 DEF Reject, EngineInv, TypeOK, ResultTyped
  <2> QED
    BY <2>2, <2>3 DEF Commit
<1>5. TypeOK'
  <2>1. ClockTyped'
    BY <1>1 DEF EngineInv, TypeOK, ClockTyped
  <2>2. LoopTyped' /\ CallTyped'
    BY <1>1 DEF EngineInv, TypeOK, LoopTyped, CallTyped
  <2>3. StateTyped' /\ CountersTyped'
    BY <1>1, <1>4 DEF EngineInv, TypeOK, StateTyped, CountersTyped
  <2> QED
    BY <1>2, <1>4, <2>1, <2>2, <2>3 DEF TypeOK
<1>6. HintKept' /\ HalfReady'
  BY <1>1, <1>2, <1>3 DEF EngineInv, HintKept, HalfReady
<1>7. RetriedHarmless' /\ CornersHarmless'
  BY <1>1, <1>2, <1>3 DEF EngineInv, RetriedHarmless, CornersHarmless, After
<1>8. QuotaKept'
  BY <1>1, <1>2 DEF EngineInv, QuotaKept, TimestampQuota
<1>9. BetweenAttempts' /\ StopsOnFinding'
  BY <1>1, RecRunning DEF BetweenAttempts, StopsOnFinding
<1> QED
  BY <1>2, <1>5, <1>6, <1>7, <1>8, <1>9 DEF EngineInv

-------------------------------------------------------------------------------
(* Rec: the verdicts. *)

\* What Rec reports is typed, and fatal exactly when it stops.
LEMMA FoundFacts ==
  ASSUME NEW v \in AllVerdicts, tx \in FullTx
  PROVE  /\ Found(v) \subseteq Contracts \X Callable \X Kinds
         /\ ~MustStop(v) => ~ \E r \in Found(v) : r[3] \in Fatal
<1>1. v.reverted \in BOOLEAN /\ v.overflow \in BOOLEAN /\ v.asserted \in BOOLEAN
  BY DEF AllVerdicts
<1>2. ASSUME NEW r \in Found(v)
      PROVE  /\ r \in Contracts \X Callable \X Kinds
             /\ r[3] \in Fatal => MustStop(v)
  <2>1. PICK kind \in Kinds :
          /\ r = <<tx.contract, tx.method, kind>>
          /\ kind = "Property violation" =>
               IsFuzz(tx.method) /\ ~v.reverted /\ v.output = "otherWord"
          /\ kind = "Revert in fuzz function" => IsFuzz(tx.method) /\ v.reverted
    BY <1>2 DEF Found, Kinds
  <2>2. r[3] = kind /\ r \in Contracts \X Callable \X Kinds
    BY <2>1 DEF FullTx
  <2> QED
    BY <2>1, <2>2 DEF MustStop, Fatal
<1> QED
  BY <1>2

LEMMA JudgeStopPreserves ==
  ASSUME EngineInv, JudgeStop
  PROVE  EngineInv'
<1>1. /\ stack # <<>> /\ Top = "judge" /\ MustStop(lastTxRes.verdict)
      /\ UNCHANGED <<times, timeKeys, cursor, time, optMode, loop, corner, i,
                     hint, amounts, tx, lastTxRes, db, txCount, count, stats>>
      /\ result' = result \cup Found(lastTxRes.verdict)
      /\ stack' = Pop
  BY DEF JudgeStop, At, Return, clockVars, poolVars
<1>2. Committed /\ tx \in FullTx /\ IsFuzz(tx.method)
  BY <1>1 DEF EngineInv, HintKept, Committed, MustStop
<1>3. Len(stack) = 1 /\ loop = "after"
  <2>1. ~(Len(stack) > 1) /\ loop # "corner"
    BY <1>1, <1>2 DEF EngineInv, RetriedHarmless, CornersHarmless
  <2>3. Len(stack) = 1
    BY <1>1, <2>1, OneActivation, Zenon
  <2>4. stack # <<>>
    BY <1>1
  <2>5. loop \in {"corner", "after"}
    BY <2>4, RecRunning
  <2> QED
    BY <2>1, <2>3, <2>5
<1>4. stack' = <<>> /\ StackTyped'
  BY <1>1, <1>3, PopStep
<1>8. terminate' = TRUE
  BY <1>3 DEF JudgeStop, Return
<1>5. TypeOK'
  <2>1. ClockTyped'
    BY <1>1 DEF EngineInv, TypeOK, ClockTyped
  <2>2. LoopTyped' /\ CallTyped'
    <3>1. terminate' \in BOOLEAN
      BY <1>8
    <3> QED
      BY <1>1, <3>1 DEF EngineInv, TypeOK, LoopTyped, CallTyped
  <2>3. StateTyped' /\ CountersTyped'
    BY <1>1 DEF EngineInv, TypeOK, StateTyped, CountersTyped
  <2>4. ResultTyped'
    BY <1>1, <1>2, FoundFacts DEF EngineInv, TypeOK, ResultTyped
  <2> QED
    BY <1>4, <2>1, <2>2, <2>3, <2>4 DEF TypeOK
<1>6. TimestampQuota' /\ CornersHarmless'
  BY <1>1, <1>3 DEF EngineInv, QuotaKept, TimestampQuota, CornersHarmless
<1>7. StopsOnFinding'
  BY <1>1, <1>3, <1>4, <1>8 DEF StopsOnFinding
<1> QED
  BY <1>4, <1>5, <1>6, <1>7, NoActivationNext DEF EngineInv, RecParts

LEMMA StatsCounted ==
  ASSUME EngineInv, stack # <<>>, Top \in {"commit", "judge"},
         NEW failed \in BOOLEAN, AddTx(failed)
  PROVE  CountersTyped' /\ TimestampQuota'
<1>1. count' = count + 1 /\ count \in Nat /\ count < SubmitPerTimestamp
  BY DEF EngineInv, QuotaKept, TypeOK, CountersTyped, AddTx
<1>2. SubmitPerTimestamp \in Nat
  BY EngineAssumption
<1>3. stats' \in [Contracts \X Callable -> [failed : Nat, total : Nat]]
  <2> DEFINE p == <<tx.contract, tx.method>>
             new == [failed |-> stats[p].failed + (IF failed THEN 1 ELSE 0),
                     total  |-> stats[p].total + 1]
  <2>1. stats \in [Contracts \X Callable -> [failed : Nat, total : Nat]]
    BY DEF EngineInv, TypeOK, CountersTyped
  <2>2. p \in Contracts \X Callable
    BY DEF EngineInv, HintKept, Committed, FullTx
  <2>3. stats[p] \in [failed : Nat, total : Nat]
    BY <2>1, <2>2
  <2>4. new \in [failed : Nat, total : Nat]
    BY <2>3
  <2>5. stats' = stats \/ stats' = [stats EXCEPT ![p] = new]
    BY DEF AddTx
  <2> QED
    BY <2>1, <2>2, <2>4, <2>5
<1> QED
  BY <1>1, <1>2, <1>3 DEF CountersTyped, TimestampQuota

\* Halving the element of an account leaves naturals, in the pool and in the balances.
LEMMA HalvingTyped ==
  ASSUME EngineInv, HalveHint \/ HalveCell
  PROVE  db' \in StateDBs /\ amounts' \in [Pooled -> Nat]
<1> USE EngineAssumption
<1>1. db \in StateDBs /\ amounts \in [Pooled -> Nat]
  BY DEF EngineInv, TypeOK, StateTyped
<1>2. CASE HalveHint
  BY <1>1, <1>2 DEF HalveHint
<1>3. CASE HalveCell
  <2> DEFINE c == hint.cell
  <2>1. c \in Pooled /\ c \in Accounts
    BY <1>3 DEF HalveCell, EngineInv, TypeOK, CallTyped
  <2>2. amounts' = [amounts EXCEPT ![c] = @ \div 2] /\ db' = HalveAmount(db, c)
    BY <1>3 DEF HalveCell
  <2> HIDE DEF c
  <2>3. \A n \in Nat : n \div 2 \in Nat
    OBVIOUS
  <2>4. ASSUME NEW world \in Worlds PROVE Halved(world, c) \in Worlds
    <3>1. world.balance[c] \div 2 \in Nat
      BY <2>1, <2>3 DEF Worlds
    <3> QED
      BY <2>1, <3>1 DEF Halved, Worlds
  <2>5. amounts[c] \div 2 \in Nat
    BY <1>1, <2>1, <2>3
  <2> QED
    BY <1>1, <2>1, <2>2, <2>4, <2>5 DEF HalveAmount, StateDBs
<1> QED
  BY <1>2, <1>3

LEMMA JudgeGoOnPreserves ==
  ASSUME EngineInv, JudgeGoOn
  PROVE  EngineInv'
<1> DEFINE v == lastTxRes.verdict
<1>1. /\ stack # <<>> /\ Top = "judge" /\ ~MustStop(v)
      /\ UNCHANGED <<times, timeKeys, cursor, time, optMode, loop, corner, i,
                     tx, lastTxRes, txCount>>
      /\ result' = result \cup Found(v)
      /\ AddTx(v.reverted)
  BY DEF JudgeGoOn, At, clockVars, poolVars
<1>2. /\ Committed /\ tx \in FullTx
      /\ hint.amount = tx.value /\ hint.amount \in Nat
  BY <1>1 DEF EngineInv, HintKept, Committed
<1>3. v \in AllVerdicts /\ v.reverted \in BOOLEAN
  BY DEF EngineInv, TypeOK, ResultTyped, AllVerdicts
<1>4. v.reverted => ~IsFuzz(tx.method)
  BY <1>1 DEF MustStop
<1>5. CountersTyped' /\ TimestampQuota'
  BY <1>1, <1>3, StatsCounted
<1>6. ResultTyped' /\ StopsOnFinding'
  <2>1. ~ \E r \in result' : r[3] \in Fatal
    BY <1>1, <1>2, <1>3, FoundFacts, RecRunning
  <2> QED
    BY <1>1, <1>2, <1>3, <2>1, FoundFacts DEF EngineInv, TypeOK, ResultTyped, StopsOnFinding
<1>7. RetryParts' /\ CallTyped' /\ StateTyped' /\ terminate' \in BOOLEAN
  <2>0. terminate \in BOOLEAN /\ CallTyped /\ StateTyped
    BY DEF EngineInv, TypeOK, LoopTyped
  <2>1. CASE ~v.reverted /\ Return(FALSE) /\ UNCHANGED <<hint, amounts, db>>
    <3>1. RetryParts'
      BY <1>1, <1>5, <2>1, ReturnPreserves DEF Return
    <3> QED
      BY <1>1, <2>0, <2>1, <3>1 DEF Return, CallTyped, StateTyped
  <2>2. CASE v.reverted /\ optMode.halfEther /\ tx.value > 0 /\ RetryHalfEther
    <3> DEFINE a == hint.amount \div 2
    <3>1. a \in Nat /\ a <= hint.amount /\ a = tx.value \div 2
      BY <1>2
    <3>2. /\ hint' = [hint EXCEPT !.amount = a, !.sender = tx.sender]
          /\ stack' = Append(Goto("afterHalf"), "generate")
          /\ terminate' = terminate
      BY <2>2 DEF RetryHalfEther
    <3>3. RetryParts'
      <4> HIDE DEF a
      <4>1. "afterHalf" \in After
        BY DEF After
      <4> QED
        BY <1>1, <1>4, <1>5, <2>2, <3>1, <3>2, <4>1, PushPreserves
    <3>4. CallTyped'
      <4> HIDE DEF a
      <4> QED
        BY <1>1, <1>2, <2>0, <3>1, <3>2 DEF CallTyped, FullTx
    <3>5. StateTyped'
      BY <1>1, <2>0, <2>2, HalvingTyped DEF RetryHalfEther, StateTyped
    <3> QED
      BY <2>0, <3>2, <3>3, <3>4, <3>5
  <2>3. CASE /\ v.reverted /\ stack' = Goto("afterHalf")
             /\ UNCHANGED <<hint, amounts, db, terminate>>
    <3>1. /\ StackTyped' /\ CallersWait'
          /\ stack' # <<>> /\ Len(stack') = Len(stack) /\ Top' = "afterHalf"
      BY <1>1, <2>3, GotoStep DEF Statements
    <3>2. Committed'
      BY <3>1 DEF Committed
    <3>3. HintKept' /\ HalfReady' /\ QuotaKept'
      BY <1>1, <1>2, <1>5, <2>3, <3>1 DEF EngineInv, HintKept, HalfReady, QuotaKept
    <3>4. RetriedHarmless' /\ CornersHarmless' /\ BetweenAttempts'
      BY <1>1, <1>4, <2>3, <3>2, RecRunning DEF EngineInv, RetriedHarmless, CornersHarmless,
         BetweenAttempts
    <3> QED
      BY <1>1, <2>0, <2>3, <3>1, <3>3, <3>4 DEF RetryParts, CallTyped, StateTyped
  <2> QED
    BY <2>1, <2>2, <2>3 DEF JudgeGoOn
<1>8. TypeOK'
  <2>1. ClockTyped'
    BY <1>1 DEF EngineInv, TypeOK, ClockTyped
  <2>2. LoopTyped'
    BY <1>1, <1>7 DEF EngineInv, TypeOK, LoopTyped
  <2> QED
    BY <1>5, <1>6, <1>7, <2>1, <2>2 DEF TypeOK, RetryParts
<1> QED
  BY <1>6, <1>7, <1>8 DEF EngineInv, RetryParts

LEMMA RetriesPreserve ==
  ASSUME EngineInv, RetryDiffSender \/ ReturnFalse
  PROVE  EngineInv'
<1> USE EngineAssumption
<1>1. /\ stack # <<>> /\ Top \in After
      /\ UNCHANGED <<times, timeKeys, cursor, time, amounts, tx, lastTxRes, result, count,
                     stats, optMode, loop, corner, i, db, txCount>>
  BY DEF RetryDiffSender, ReturnFalse, At, After, engineVars, clockVars, poolVars
<1>2. /\ Committed /\ tx \in FullTx /\ hint.amount \in Nat /\ ~IsFuzz(tx.method)
      /\ Top # "generate"
  BY <1>1 DEF EngineInv, HintKept, Committed, RetriedHarmless, After
<1>3. TimestampQuota'
  BY <1>1 DEF EngineInv, QuotaKept, TimestampQuota
<1>4. terminate \in BOOLEAN /\ CallTyped
  BY DEF EngineInv, TypeOK, LoopTyped
<1>5. RetryParts' /\ CallTyped' /\ terminate' \in BOOLEAN
  <2>1. CASE RetryDiffSender
    <3>1. /\ hint' = [hint EXCEPT !.amount = hint.amount, !.sender = None]
          /\ stack' = Append(Goto("afterDiff"), "generate")
          /\ terminate' = terminate
      BY <1>4, <2>1 DEF RetryDiffSender, CallTyped
    <3>2. RetryParts'
      <4>1. "afterDiff" \in After /\ "afterDiff" # "afterHalf" /\ hint.amount <= hint.amount
        BY <1>2 DEF After
      <4> QED
        BY <1>1, <1>2, <1>3, <3>1, <4>1, PushPreserves
    <3> QED
      BY <1>1, <1>4, <3>1, <3>2 DEF CallTyped
  <2>2. CASE ReturnFalse
    <3>1. RetryParts'
      BY <1>1, <1>2, <1>3, <2>2, ReturnPreserves DEF ReturnFalse, Return
    <3> QED
      BY <1>1, <1>4, <2>2, <3>1 DEF ReturnFalse, Return, CallTyped
  <2> QED
    BY <2>1, <2>2
<1>6. TypeOK'
  <2>1. ClockTyped'
    BY <1>1 DEF EngineInv, TypeOK, ClockTyped
  <2>2. LoopTyped' /\ ResultTyped'
    BY <1>1, <1>5 DEF EngineInv, TypeOK, LoopTyped, ResultTyped
  <2>3. StateTyped' /\ CountersTyped'
    BY <1>1 DEF EngineInv, TypeOK, StateTyped, CountersTyped
  <2> QED
    BY <1>5, <2>1, <2>2, <2>3 DEF TypeOK, RetryParts
<1>7. StopsOnFinding'
  BY <1>1, RecRunning DEF StopsOnFinding
<1> QED
  BY <1>5, <1>6, <1>7 DEF EngineInv, RetryParts

-------------------------------------------------------------------------------
(* The theorems. *)

LEMMA StutterPreserves ==
  ASSUME EngineInv, UNCHANGED vars
  PROVE  EngineInv'
<1>1. UNCHANGED <<times, timeKeys, cursor, time, optMode, loop, corner, i, stack, terminate,
                  hint, amounts, tx, lastTxRes, result, db, txCount, count, stats>>
  BY DEF vars, clockVars, poolVars
<1>2. TypeOK'
  <2>1. ClockTyped'
    BY <1>1 DEF EngineInv, TypeOK, ClockTyped
  <2>2. LoopTyped' /\ StackTyped' /\ CallTyped'
    BY <1>1 DEF EngineInv, TypeOK, LoopTyped, StackTyped, CallTyped
  <2>3. ResultTyped' /\ StateTyped' /\ CountersTyped'
    BY <1>1 DEF EngineInv, TypeOK, ResultTyped, StateTyped, CountersTyped
  <2> QED
    BY <2>1, <2>2, <2>3 DEF TypeOK
<1>3. BetweenAttempts' /\ CallersWait' /\ HintKept' /\ HalfReady'
  BY <1>1 DEF EngineInv, BetweenAttempts, CallersWait, HintKept, Committed, Top, HalfReady
<1>4. RetriedHarmless' /\ CornersHarmless' /\ QuotaKept'
  BY <1>1 DEF EngineInv, RetriedHarmless, CornersHarmless, Committed, Top, QuotaKept,
     TimestampQuota
<1>5. StopsOnFinding'
  BY <1>1 DEF EngineInv, StopsOnFinding
<1> QED
  BY <1>2, <1>3, <1>4, <1>5 DEF EngineInv

LEMMA StepPreserves == EngineInv /\ [Next]_vars => EngineInv'
<1> SUFFICES ASSUME EngineInv, [Next]_vars PROVE EngineInv'
  OBVIOUS
<1>1. CASE CornerAttempt \/ MainAttempt
  BY <1>1, AttemptPreserves
<1>2. CASE CornersDone \/ LimitReached \/ Break \/ Continue
  BY <1>2, BetweenPreserves
<1>3. CASE Generate
  BY <1>3, GeneratePreserves
<1>4. CASE Commit
  BY <1>4, CommitPreserves
<1>5. CASE JudgeStop
  BY <1>5, JudgeStopPreserves
<1>6. CASE JudgeGoOn
  BY <1>6, JudgeGoOnPreserves
<1>7. CASE RetryDiffSender \/ ReturnFalse
  BY <1>7, RetriesPreserve
<1>8. CASE Finished \/ UNCHANGED vars
  BY <1>8, StutterPreserves DEF Finished
<1> QED
  BY <1>1, <1>2, <1>3, <1>4, <1>5, <1>6, <1>7, <1>8 DEF Next

\* The inductive invariant of the engine (fuzz, Rec, GenTransaction and
\* CommitTransaction).
THEOREM EngineInvariant == Spec => []EngineInv
BY InitEngine, StepPreserves, PTL DEF Spec

\* The variables of the engine keep their types, in particular a Hint that is
\* halved holds an amount and LastTxIn is filled in whenever it is used.
THEOREM TypeCorrect == Spec => []TypeOK
<1>1. EngineInv => TypeOK
  BY DEF EngineInv
<1> QED
  BY <1>1, EngineInvariant, PTL

\* No transaction follows the failure of a custom property, although the retries
\* of Rec drop the return value that asks fuzz() to stop (heuristics.go:164, 172).
THEOREM NothingFollowsAFinding == Spec => []StopsOnFinding
<1>1. EngineInv => StopsOnFinding
  BY DEF EngineInv
<1> QED
  BY <1>1, EngineInvariant, PTL

\* No timestamp serves more than SubmitPerTimestamp transactions (GenTimestamp),
\* whatever retries intervene.
THEOREM QuotaHolds == Spec => []TimestampQuota
<1>1. EngineInv => TimestampQuota
  BY DEF EngineInv, QuotaKept
<1> QED
  BY <1>1, EngineInvariant, PTL

\* The clock moves only when the counter of IncTxCnt has reached the quota.
THEOREM ClockMovesWhenFull == Spec => ClockWaits
<1>1. EngineInv /\ [Next]_vars => [cursor' # cursor => count = SubmitPerTimestamp]_vars
  <2> SUFFICES ASSUME EngineInv, Next, cursor' # cursor
               PROVE  count = SubmitPerTimestamp
    OBVIOUS
  <2>1. CASE Generate
    BY <2>1, TimestampGenerated DEF Generate
  <2>2. CASE ~Generate
    <3>1. cursor' = cursor
      BY <2>2 DEF Next, CornerAttempt, CornersDone, MainAttempt, LimitReached, Break, Continue,
         Finished, Commit, JudgeStop, JudgeGoOn, RetryDiffSender, ReturnFalse, engineVars,
         vars, clockVars, poolVars
    <3> QED
      BY <3>1
  <2> QED
    BY <2>1, <2>2
<1> QED
  BY <1>1, EngineInvariant, PTL DEF Spec, ClockWaits

\* Only Generate moves an activation on from the statement "generate".
LEMMA OnlyGenerate ==
  ASSUME EngineInv, Next, At("generate"), stack' # stack
  PROVE  Generate
<1>1. stack # <<>> /\ Top = "generate" /\ loop # "test"
  BY DEF At, EngineInv, BetweenAttempts
<1> QED
  BY <1>1 DEF Next, CornerAttempt, CornersDone, MainAttempt, LimitReached, Break, Continue,
     Finished, Commit, JudgeStop, JudgeGoOn, RetryDiffSender, ReturnFalse, At, vars

\* A retry calls the method the shared Hint still names, with the Hint's amount.
LEMMA RetryRepeats ==
  ASSUME EngineInv, Next, NEW kind, Retrying(kind)
  PROVE  /\ Generate /\ stack # <<>> /\ Top = "generate" /\ Len(stack) > 1
         /\ tx \in FullTx /\ tx' \in FullTx
         /\ tx'.contract = tx.contract /\ tx'.method = tx.method
         /\ tx'.value = hint.amount /\ hint.amount \in Nat /\ hint.amount <= tx.value
         /\ hint.sender # None => tx'.sender = hint.sender
<1> USE EngineAssumption
<1>1. Generate /\ stack # <<>> /\ Top = "generate" /\ Depth > 0
  BY OnlyGenerate DEF Retrying, At
<1>2. Len(stack) > 1
  BY <1>1, TopFacts DEF Depth, EngineInv, TypeOK, StackTyped
<1>3. /\ tx \in FullTx
      /\ hint.contract = tx.contract /\ hint.method = tx.method
      /\ hint.amount \in Nat /\ hint.amount <= tx.value
      /\ hint.fallback => tx.method = Fallback
  BY <1>1, <1>2 DEF EngineInv, HintKept, Committed
<1>4. hint.contract # None /\ hint.method # None /\ hint.amount # None
  BY <1>3 DEF FullTx
<1>5. hint.fallback \in BOOLEAN
  BY DEF EngineInv, TypeOK, CallTyped
<1> QED
  BY <1>1, <1>2, <1>3, <1>4, <1>5, GeneratedCall

\* A half-ether retry calls the method of the failed call from the same sender with
\* half its ether (heuristics.go:162), however deep in a chain of retries; only
\* the arguments differ, which ConstructArgs draws anew.
THEOREM HalfRetriesHalve == Spec => HalfRetryHalves
<1>1. EngineInv /\ [Next]_vars =>
        [Retrying("afterHalf") =>
           tx' = [tx EXCEPT !.value = @ \div 2, !.args = tx'.args]]_vars
  <2> SUFFICES ASSUME EngineInv, Next, Retrying("afterHalf")
               PROVE  tx' = [tx EXCEPT !.value = @ \div 2, !.args = tx'.args]
    OBVIOUS
  <2>1. /\ stack # <<>> /\ Top = "generate" /\ Len(stack) > 1
        /\ tx \in FullTx /\ tx' \in FullTx
        /\ tx'.contract = tx.contract /\ tx'.method = tx.method
        /\ tx'.value = hint.amount
        /\ hint.sender # None => tx'.sender = hint.sender
    BY RetryRepeats
  <2>2. hint.amount = tx.value \div 2 /\ hint.sender = tx.sender
    BY <2>1 DEF EngineInv, HalfReady, Retrying
  <2>3. tx'.sender = tx.sender /\ tx'.value = tx.value \div 2
    BY <2>1, <2>2, EngineAssumption DEF FullTx
  <2> QED
    BY <2>1, <2>3 DEF FullTx
<1> QED
  BY <1>1, EngineInvariant, PTL DEF Spec, HalfRetryHalves

\* A retry with a sender chosen anew calls the method of the failed call with no more
\* ether (heuristics.go:171), although the Hint has been halved by retries in
\* between; of its arguments and its sender nothing is promised.
THEOREM DiffRetriesKeepMethod == Spec => DiffRetryKeepsMethod
<1>1. EngineInv /\ [Next]_vars =>
        [Retrying("afterDiff") => /\ tx'.contract = tx.contract
                                  /\ tx'.method = tx.method
                                  /\ tx'.value <= tx.value]_vars
  <2> SUFFICES ASSUME EngineInv, Next, Retrying("afterDiff")
               PROVE  /\ tx'.contract = tx.contract
                      /\ tx'.method = tx.method
                      /\ tx'.value <= tx.value
    OBVIOUS
  <2> QED
    BY RetryRepeats
<1> QED
  BY <1>1, EngineInvariant, PTL DEF Spec, DiffRetryKeepsMethod

-------------------------------------------------------------------------------
(* Whose result a finding is.  LastTxRes may describe an older transaction than *)
(* LastTxIn, but not for the first transaction of an attempt of the main loop,  *)
(* and only such a transaction can be a custom property.                        *)

FirstAffordable ==
  (loop = "after" /\ stack # <<>> /\ Len(stack) = 1) =>
    /\ Top = "generate" => hint.amount = None
    /\ Top = "commit" => tx.value <= db.live.balance[tx.sender]
    /\ Top = "judge" => lastTxRes.receipt

\* An amount that is not given by the Hint is compared with the balance.
LEMMA GeneratedAmount ==
  ASSUME EngineInv, Generate, hint.amount = None
  PROVE  tx'.value <= db'.live.balance[tx'.sender]
<1>1. tx'.sender \in Accounts /\ db' \in StateDBs
  BY GeneratedCall, TimestampGenerated DEF FullTx, Generate
<1>2. db'.live.balance[tx'.sender] \in Nat
  BY <1>1 DEF StateDBs, Worlds
<1>3. tx'.value = 0 \/ tx'.value <= db'.live.balance[tx'.sender]
  BY GeneratedCall
<1> QED
  BY <1>2, <1>3

LEMMA AffordableStep == EngineInv /\ FirstAffordable /\ [Next]_vars => FirstAffordable'
<1> SUFFICES ASSUME EngineInv, FirstAffordable, [Next]_vars PROVE FirstAffordable'
  OBVIOUS
<1>1. CASE CornerAttempt \/ CornersDone \/ LimitReached \/ Break \/ Continue
  <2>1. loop' # "after"
    BY <1>1 DEF CornerAttempt, CornersDone, LimitReached, Break, Continue
  <2> QED
    BY <2>1 DEF FirstAffordable
<1>2. CASE MainAttempt
  <2>1. Top' = "generate" /\ hint'.amount = None
    BY <1>2 DEF MainAttempt, Attempt, EmptyHint, Top
  <2> QED
    BY <2>1 DEF FirstAffordable
<1>3. CASE Generate
  <2>1. stack # <<>> /\ Top = "generate" /\ stack' = Goto("commit") /\ loop' = loop
    BY <1>3 DEF Generate, At
  <2>2. Len(stack') = Len(stack) /\ Top' = "commit"
    BY <2>1, GotoStep DEF Statements
  <2>3. (loop = "after" /\ Len(stack) = 1) => tx'.value <= db'.live.balance[tx'.sender]
    BY <1>3, <2>1, GeneratedAmount DEF FirstAffordable
  <2> QED
    BY <2>1, <2>2, <2>3 DEF FirstAffordable
<1>4. CASE Commit
  <2>1. stack # <<>> /\ Top = "commit" /\ stack' = Goto("judge") /\ loop' = loop
    BY <1>4 DEF Commit, At
  <2>2. Len(stack') = Len(stack) /\ Top' = "judge"
    BY <2>1, GotoStep DEF Statements
  <2>3. CanTransfer(db.live, tx.sender, tx.value) => lastTxRes'.receipt
    BY <1>4 DEF Commit, Execute, Reject
  <2> QED
    BY <2>1, <2>2, <2>3 DEF FirstAffordable, CanTransfer
<1>5. ASSUME stack # <<>>, stack' = Pop PROVE FirstAffordable'
  BY <1>5, PopStep DEF FirstAffordable, After
<1>6. ASSUME stack # <<>>, NEW x \in After, stack' = Append(Goto(x), "generate")
      PROVE  FirstAffordable'
  <2>1. Len(stack') > 1
    BY <1>6, PushStep
  <2> QED
    BY <2>1 DEF FirstAffordable
<1>7. CASE JudgeStop \/ ReturnFalse
  <2>1. stack # <<>> /\ stack' = Pop
    BY <1>7 DEF JudgeStop, ReturnFalse, At, Return
  <2> QED
    BY <1>5, <2>1
<1>8. CASE JudgeGoOn
  <2>1. stack # <<>> /\ \/ stack' = Pop
                        \/ stack' = Append(Goto("afterHalf"), "generate")
                        \/ stack' = Goto("afterHalf")
    BY <1>8 DEF JudgeGoOn, At, Return, RetryHalfEther
  <2>2. CASE stack' = Goto("afterHalf")
    <3>1. Top' = "afterHalf"
      BY <2>1, <2>2, GotoStep DEF Statements
    <3> QED
      BY <3>1 DEF FirstAffordable
  <2> QED
    BY <1>5, <1>6, <2>1, <2>2 DEF After
<1>9. CASE RetryDiffSender
  <2>1. stack # <<>> /\ stack' = Append(Goto("afterDiff"), "generate")
    BY <1>9 DEF RetryDiffSender, At
  <2> QED
    BY <1>6, <2>1 DEF After
<1>10. CASE Finished \/ UNCHANGED vars
  BY <1>10 DEF Finished, vars, FirstAffordable, Top
<1> QED
  BY <1>1, <1>2, <1>3, <1>4, <1>7, <1>8, <1>9, <1>10 DEF Next

LEMMA AffordableInvariant == Spec => []FirstAffordable
<1>1. Init => FirstAffordable
  BY DEF Init, FirstAffordable
<1> QED
  BY <1>1, EngineInvariant, AffordableStep, PTL DEF Spec

\* The first transaction of an attempt of the main loop is always executed:
\* GenTransaction compares its amount with the balance after GenTimestamp's
\* revert (heuristics.go:78, generator.go:45).
THEOREM FirstAttemptsAlwaysExecute == Spec => []FirstAttemptsExecute
<1>1. EngineInv /\ FirstAffordable => FirstAttemptsExecute
  <2> SUFFICES ASSUME EngineInv, FirstAffordable, loop = "after", Depth = 0, At("judge")
               PROVE  lastTxRes.receipt
    BY DEF FirstAttemptsExecute
  <2>1. stack # <<>> /\ Top = "judge" /\ Len(stack) \in Nat
    BY TopFacts DEF At, EngineInv, TypeOK, StackTyped
  <2>2. Len(stack) = 1
    BY <2>1 DEF Depth
  <2> QED
    BY <2>1, <2>2 DEF FirstAffordable
<1> QED
  BY <1>1, EngineInvariant, AffordableInvariant, PTL

\* The failure of a custom property is only ever reported for a transaction that
\* was executed, although commitTransaction may return before LastTxRes is set.
THEOREM FatalFindingsAreExecuted == Spec => FatalFindingsExecuted
<1>1. EngineInv /\ FirstAffordable /\ [Next]_vars =>
        [(\E r \in result' \ result : r[3] \in Fatal) => lastTxRes.receipt]_vars
  <2> SUFFICES ASSUME EngineInv, FirstAffordable, Next,
                      NEW r \in result' \ result, r[3] \in Fatal
               PROVE  lastTxRes.receipt
    OBVIOUS
  <2>1. JudgeStop \/ JudgeGoOn
    <3>1. result' # result
      OBVIOUS
    <3> QED
      BY <3>1 DEF Next, CornerAttempt, CornersDone, MainAttempt, LimitReached, Break, Continue,
         Finished, Generate, Commit, RetryDiffSender, ReturnFalse, engineVars, vars
  <2>2. /\ stack # <<>> /\ Top = "judge" /\ r \in Found(lastTxRes.verdict)
    BY <2>1 DEF JudgeStop, JudgeGoOn, At
  <2>3. tx \in FullTx /\ lastTxRes.verdict \in AllVerdicts
    BY <2>2 DEF EngineInv, HintKept, Committed, TypeOK, ResultTyped
  <2>4. IsFuzz(tx.method)
    BY <2>2, <2>3, FoundFacts DEF MustStop
  <2>5. ~(Len(stack) > 1) /\ loop # "corner"
    BY <2>2, <2>4 DEF EngineInv, RetriedHarmless, CornersHarmless, Committed
  <2>6. Len(stack) = 1
    BY <2>2, <2>5, OneActivation, Zenon
  <2>7. loop = "after"
    BY <2>2, <2>5, RecRunning
  <2> QED
    BY <2>2, <2>6, <2>7 DEF FirstAffordable
<1> QED
  BY <1>1, EngineInvariant, AffordableInvariant, PTL DEF Spec, FatalFindingsExecuted
-------------------------------------------------------------------------------
\* The retries halve elements of the pool only when half-ether is on.
AmountsKept == ~optMode.halfEther => amounts = InitAmounts

\* As long as the maps are not shared, what changed in the snapshot are the balances
\* that point to elements of the pool, and they changed with these.
SnapshotKept == ~db.shared => db.snap = DeployedWith(amounts)

\* What a step can do to the chain state, the snapshot and the pool.
Halving == \E c \in Pooled : /\ amounts' = [amounts EXCEPT ![c] = @ \div 2]
                             /\ db' = HalveAmount(db, c)

LEMMA StateSteps ==
  ASSUME EngineInv, [Next]_vars
  PROVE  /\ optMode' = optMode
         /\ \/ /\ amounts' = amounts
               /\ \/ db' = db \/ db' = RevertBackend(db)
                  \/ \E w : db' = Write(db, w)
            \/ optMode.halfEther /\ Halving
<1>1. CASE Generate
  BY <1>1 DEF Generate, GenTimestamp
<1>2. CASE Commit
  BY <1>2 DEF Commit, Execute, Reject
<1>3. CASE Continue
  BY <1>3 DEF Continue, engineVars
<1>4. CASE CornerAttempt \/ CornersDone \/ MainAttempt \/ LimitReached \/ Break
  BY <1>4 DEF CornerAttempt, CornersDone, MainAttempt, LimitReached, Break, engineVars
<1>5. CASE JudgeGoOn
  <2>1. optMode' = optMode
    BY <1>5 DEF JudgeGoOn
  <2>2. UNCHANGED <<amounts, db>> \/ (optMode.halfEther /\ (HalveHint \/ HalveCell))
    BY <1>5 DEF JudgeGoOn, RetryHalfEther
  <2>3. HalveCell => Halving
    BY DEF HalveCell, Halving, EngineInv, TypeOK, CallTyped
  <2> QED
    BY <2>1, <2>2, <2>3 DEF HalveHint
<1>6. CASE JudgeStop \/ RetryDiffSender \/ ReturnFalse
  BY <1>6 DEF JudgeStop, RetryDiffSender, ReturnFalse, engineVars
<1>7. CASE Finished \/ UNCHANGED vars
  BY <1>7 DEF Finished, vars
<1> QED
  BY <1>1, <1>2, <1>3, <1>4, <1>5, <1>6, <1>7 DEF Next

\* The operations of ChainState on a typed state.
LEMMA StateFacts ==
  ASSUME NEW d \in StateDBs
  PROVE  /\ RevertBackend(d).live = d.snap /\ RevertBackend(d).snap = d.snap
         /\ RevertBackend(d).shared
         /\ \A w : /\ Write(d, w).shared = d.shared
                   /\ ~d.shared => Write(d, w).snap = d.snap
         /\ \A c : /\ HalveAmount(d, c).shared = d.shared
                   /\ HalveAmount(d, c).snap = Halved(d.snap, c)
BY DEF StateDBs, RevertBackend, Write, HalveAmount

\* Halving an element halves the balance of the deployed project that points to it.
LEMMA DeployedHalved ==
  ASSUME NEW cells \in [Pooled -> Nat], NEW c \in Pooled
  PROVE  Halved(DeployedWith(cells), c) = DeployedWith([cells EXCEPT ![c] = @ \div 2])
<1> USE EngineAssumption
<1> DEFINE new == [cells EXCEPT ![c] = @ \div 2]
           d == DeployedWith(cells)
<1>1. c \in Accounts /\ Pooled \subseteq Accounts
  OBVIOUS
<1>2. d.balance[c] = cells[c]
  BY <1>1 DEF DeployedWith
<1>3. [d.balance EXCEPT ![c] = @ \div 2] =
        [a \in Accounts |-> IF a \in Pooled THEN new[a] ELSE InitBalance[a]]
  BY <1>1, <1>2 DEF DeployedWith
<1> QED
  BY <1>1, <1>3 DEF Halved, DeployedWith

\* The first revert gives back the deployed ether, but for the accounts whose amount
\* a half-ether retry has halved, in the pool and in the snapshot at once: until
\* then every write of an executed transaction went to the live maps only
\* (SnapshotBackend, RevertBackend, Rec).
THEOREM FirstRevertAlwaysRestores == Spec => FirstRevertRestores
<1> DEFINE Restores ==
             (~db.shared /\ db'.shared) =>
               /\ EtherOf(db'.live) = EtherOf(DeployedWith(amounts))
               /\ ~optMode.halfEther => EtherOf(db'.live) = EtherOf(DeployedWith(InitAmounts))
           Inv == SnapshotKept /\ AmountsKept
<1>1. Init => Inv
  BY DEF Init, SnapshotBackend, SnapshotKept, AmountsKept
<1>2. EngineInv /\ Inv /\ [Next]_vars => Inv' /\ [Restores]_vars
  <2> SUFFICES ASSUME EngineInv, SnapshotKept, AmountsKept, [Next]_vars
               PROVE  SnapshotKept' /\ AmountsKept' /\ Restores
    OBVIOUS
  <2>1. db \in StateDBs /\ amounts \in [Pooled -> Nat]
    BY DEF EngineInv, TypeOK, StateTyped
  <2>2. optMode' = optMode /\ InitAmounts' = InitAmounts
    BY StateSteps DEF InitAmounts
  <2>3. amounts' = amounts => DeployedWith(amounts)' = DeployedWith(amounts)
    BY DEF DeployedWith
  <2>4. CASE amounts' = amounts /\ db' = db
    BY <2>2, <2>3, <2>4 DEF SnapshotKept, AmountsKept
  <2>5. CASE amounts' = amounts /\ db' = RevertBackend(db)
    BY <2>1, <2>2, <2>3, <2>5, StateFacts DEF SnapshotKept, AmountsKept
  <2>6. ASSUME NEW w, amounts' = amounts, db' = Write(db, w)
        PROVE  SnapshotKept' /\ AmountsKept' /\ Restores
    BY <2>1, <2>2, <2>3, <2>6, StateFacts DEF SnapshotKept, AmountsKept
  <2>7. ASSUME optMode.halfEther, Halving
        PROVE  SnapshotKept' /\ AmountsKept' /\ Restores
    <3>1. PICK c \in Pooled : /\ amounts' = [amounts EXCEPT ![c] = @ \div 2]
                              /\ db' = HalveAmount(db, c)
      BY <2>7 DEF Halving
    <3>2. DeployedWith(amounts)' = Halved(DeployedWith(amounts), c)
      BY <2>1, <3>1, DeployedHalved DEF DeployedWith
    <3>3. db'.shared = db.shared /\ db'.snap = Halved(db.snap, c)
      BY <2>1, <3>1, StateFacts
    <3> QED
      BY <2>2, <2>7, <3>2, <3>3 DEF SnapshotKept, AmountsKept
  <2> QED
    BY <2>4, <2>5, <2>6, <2>7, StateSteps
<1> QED
  BY <1>1, <1>2, EngineInvariant, PTL DEF Spec, FirstRevertRestores
-------------------------------------------------------------------------------
(* Digits: the recursive definition, by the least element of a set of naturals. *)

\* A set of naturals has a least element.
LEMMA LeastNat ==
  ASSUME NEW T, T \subseteq Nat, T # {}
  PROVE  \E m \in T : \A k \in T : m <= k
<1>1. PICK m \in T : \A k \in T : ~ (<<k, m>> \in OpToRel(<, Nat))
  BY NatLessThanWellFounded, WFMin
<1>2. ASSUME NEW k \in T PROVE ~ (k < m)
  <2>1. k < m => <<k, m>> \in OpToRel(<, Nat)
    BY DEF OpToRel
  <2> QED
    BY <1>1, <2>1, Zenon
<1>3. m \in Nat /\ \A k \in T : k \in Nat /\ ~ (k < m)
  BY <1>2
<1> QED
  BY <1>3

\* A function with the equation of Digits on 0 .. n: two of them agree, and there
\* is one for every n, so that the recursive definition has a solution.
DigitsUpTo(f, n) == /\ f \in [0 .. n -> Nat]
                /\ \A k \in 0 .. n : f[k] = IF k = 0 THEN 0 ELSE 1 + f[k \div 2]

LEMMA HalfSmaller == \A n \in Nat \ {0} : n \div 2 \in Nat /\ n \div 2 < n
OBVIOUS

LEMMA UpToUnique ==
  ASSUME NEW m \in Nat, NEW n \in Nat, NEW f, NEW g, DigitsUpTo(f, m), DigitsUpTo(g, n),
         NEW k \in 0 .. m, k \in 0 .. n
  PROVE  f[k] = g[k]
<1> DEFINE T == {x \in Nat : x <= m /\ x <= n /\ f[x] # g[x]}
<1>1. ASSUME T # {} PROVE FALSE
  <2>1. T \subseteq Nat
    OBVIOUS
  <2>2. PICK x \in T : \A y \in T : x <= y
    <3> HIDE DEF T
    <3> QED
      BY <1>1, <2>1, LeastNat
  <2>3. x # 0
    BY DEF DigitsUpTo
  <2>4. x \div 2 \in Nat /\ x \div 2 < x
    BY <2>3, HalfSmaller
  <2>5. f[x \div 2] = g[x \div 2]
    BY <2>2, <2>4
  <2>6. f[x] = 1 + f[x \div 2] /\ g[x] = 1 + g[x \div 2]
    BY <2>3 DEF DigitsUpTo
  <2> QED
    BY <2>5, <2>6
<1> QED
  BY <1>1

LEMMA UpToExists == \A n \in Nat : \E f : DigitsUpTo(f, n)
<1> DEFINE T == {n \in Nat : ~ \E f : DigitsUpTo(f, n)}
<1> SUFFICES ASSUME T # {} PROVE FALSE
  OBVIOUS
<1>1. T \subseteq Nat
  OBVIOUS
<1>2. PICK n \in T : \A k \in T : n <= k
  <2> HIDE DEF T
  <2> QED
    BY <1>1, LeastNat
<1>3. n # 0
  <2> SUFFICES ASSUME n = 0 PROVE FALSE
    OBVIOUS
  <2>1. DigitsUpTo([k \in 0 .. n |-> 0], n)
    BY DEF DigitsUpTo
  <2> QED
    BY <2>1
<1>4. n \in Nat \ {0} /\ n - 1 \in Nat
  BY <1>3
<1>5. PICK f : DigitsUpTo(f, n - 1)
  BY <1>2, <1>4
<1> DEFINE g == [k \in 0 .. n |-> IF k = n THEN 1 + f[n \div 2] ELSE f[k]]
<1>6. n \div 2 \in 0 .. n - 1
  BY <1>4, HalfSmaller
<1>7. g \in [0 .. n -> Nat]
  BY <1>4, <1>5, <1>6 DEF DigitsUpTo
<1>8. ASSUME NEW k \in 0 .. n PROVE g[k] = IF k = 0 THEN 0 ELSE 1 + g[k \div 2]
  <2>1. CASE k = n
    BY <1>4, <1>6, <2>1
  <2>2. CASE k # n
    <3>1. k \in 0 .. n - 1 /\ (k # 0 => k \div 2 \in 0 .. n - 1)
      BY <1>4, <2>2, HalfSmaller
    <3>2. f[k] = IF k = 0 THEN 0 ELSE 1 + f[k \div 2]
      BY <1>5, <3>1 DEF DigitsUpTo
    <3>3. g[k] = f[k] /\ (k # 0 => g[k \div 2] = f[k \div 2])
      BY <1>4, <3>1
    <3> QED
      BY <3>2, <3>3
  <2> QED
    BY <2>1, <2>2
<1>9. DigitsUpTo(g, n)
  <2> HIDE DEF g
  <2> QED
    BY <1>7, <1>8 DEF DigitsUpTo
<1> QED
  <2> HIDE DEF g
  <2> QED
    BY <1>9

LEMMA DigitsDefined == Digits = [n \in Nat |-> IF n = 0 THEN 0 ELSE 1 + Digits[n \div 2]]
<1> DEFINE F(n) == CHOOSE f : DigitsUpTo(f, n)
           d == [n \in Nat |-> F(n)[n]]
<1>1. \A n \in Nat : DigitsUpTo(F(n), n)
  BY UpToExists
<1> HIDE DEF F
<1>2. ASSUME NEW n \in Nat PROVE d[n] = IF n = 0 THEN 0 ELSE 1 + d[n \div 2]
  <2>1. CASE n = 0
    BY <1>1, <2>1 DEF DigitsUpTo
  <2>2. CASE n # 0
    <3> DEFINE h == n \div 2
    <3>1. h \in Nat /\ h \in 0 .. n /\ h \in 0 .. h /\ n \in 0 .. n
      BY <2>2, HalfSmaller
    <3>2. F(n)[n] = 1 + F(n)[h]
      BY <1>1, <2>2, <3>1 DEF DigitsUpTo
    <3>3. F(h)[h] = F(n)[h]
      <4> HIDE DEF h
      <4> QED
        BY <1>1, <3>1, UpToUnique
    <3> QED
      BY <2>2, <3>1, <3>2, <3>3
  <2> QED
    BY <2>1, <2>2
<1>3. d = [n \in Nat |-> IF n = 0 THEN 0 ELSE 1 + d[n \div 2]]
  <2>1. DOMAIN d = Nat
    OBVIOUS
  <2> QED
    BY <1>2
<1> HIDE DEF d
<1> QED
  BY <1>3 DEF Digits
LEMMA DigitsType == \A n \in Nat : Digits[n] \in Nat
<1> DEFINE T == {n \in Nat : Digits[n] \notin Nat}
<1> SUFFICES ASSUME T # {} PROVE FALSE
  OBVIOUS
<1>1. T \subseteq Nat
  OBVIOUS
<1>2. PICK n \in T : \A k \in T : n <= k
  <2> HIDE DEF T
  <2> QED
    BY <1>1, LeastNat
<1>3. Digits[n] = IF n = 0 THEN 0 ELSE 1 + Digits[n \div 2]
  BY DigitsDefined
<1>4. n # 0
  BY <1>3
<1>5. n \div 2 \in Nat /\ n \div 2 < n
  BY <1>4, HalfSmaller
<1>6. Digits[n \div 2] \in Nat
  BY <1>2, <1>5
<1> QED
  BY <1>3, <1>4, <1>6

\* Halving removes a digit, and a larger amount has no fewer.
LEMMA DigitsHalved == \A n \in Nat \ {0} : Digits[n] = 1 + Digits[n \div 2]
BY DigitsDefined

LEMMA DigitsMonotone ==
  ASSUME NEW m \in Nat, NEW n \in Nat, m <= n
  PROVE  Digits[m] <= Digits[n]
<1> DEFINE T == {y \in Nat : \E x \in 0 .. y : ~ (Digits[x] <= Digits[y])}
<1> SUFFICES ASSUME T # {} PROVE FALSE
  OBVIOUS
<1>1. T \subseteq Nat
  OBVIOUS
<1>2. PICK y \in T : \A k \in T : y <= k
  <2> HIDE DEF T
  <2> QED
    BY <1>1, LeastNat
<1>3. PICK x \in 0 .. y : ~ (Digits[x] <= Digits[y])
  OBVIOUS
<1>4. x # 0
  <2>1. Digits[0] = 0 /\ Digits[y] \in Nat
    BY DigitsDefined, DigitsType
  <2> QED
    BY <1>3, <2>1
<1>5. /\ y \div 2 \in Nat /\ y \div 2 < y /\ x \div 2 \in 0 .. y \div 2
  BY <1>4
<1>6. Digits[x \div 2] <= Digits[y \div 2]
  BY <1>2, <1>5
<1>7. Digits[x] = 1 + Digits[x \div 2] /\ Digits[y] = 1 + Digits[y \div 2]
  BY <1>4, DigitsHalved
<1>8. Digits[x \div 2] \in Nat /\ Digits[y \div 2] \in Nat
  BY <1>5, DigitsType
<1> QED
  BY <1>3, <1>6, <1>7, <1>8

\* A finite set of naturals has a largest element: one that the fewest exceed.
LEMMA LargestNat ==
  ASSUME NEW S, S \subseteq Nat, S # {}, IsFiniteSet(S)
  PROVE  \E m \in S : \A k \in S : k <= m
<1> DEFINE Above(m) == {k \in S : k > m}
           T == {Cardinality(Above(m)) : m \in S}
<1>1. \A m \in S : IsFiniteSet(Above(m)) /\ Cardinality(Above(m)) \in Nat
  <2> SUFFICES ASSUME NEW m \in S
               PROVE  IsFiniteSet(Above(m)) /\ Cardinality(Above(m)) \in Nat
    OBVIOUS
  <2>1. Above(m) \in SUBSET S
    OBVIOUS
  <2> QED
    BY <2>1, FS_Subset, FS_CardinalityType
<1>2. T \subseteq Nat /\ T # {}
  BY <1>1
<1>3. PICK c \in T : \A t \in T : c <= t
  <2> HIDE DEF T
  <2> QED
    BY <1>2, LeastNat
<1>4. PICK m \in S : c = Cardinality(Above(m))
  OBVIOUS
<1>5. ASSUME NEW k \in S, k > m PROVE FALSE
  <2>0. m \in Nat /\ k \in Nat /\ \A j \in S : j \in Nat
    OBVIOUS
  <2>1. Above(k) \in SUBSET Above(m) /\ k \in Above(m) /\ k \notin Above(k)
    <3>1. k \in Above(m) /\ k \notin Above(k)
      BY <1>5, <2>0
    <3>2. \A j \in S : j > k => j > m
      BY <1>5, <2>0
    <3> QED
      BY <3>1, <3>2
  <2>2. /\ Cardinality(Above(k)) <= Cardinality(Above(m))
        /\ Cardinality(Above(m)) # Cardinality(Above(k))
    <3> HIDE DEF Above
    <3> QED
      BY <1>1, <2>1, FS_Subset
  <2>3. Cardinality(Above(k)) \in T
    OBVIOUS
  <2>4. Cardinality(Above(k)) \in Nat /\ Cardinality(Above(m)) \in Nat
    BY <1>1
  <2> HIDE DEF T, Above
  <2> QED
    BY <1>3, <1>4, <2>2, <2>3, <2>4
<1>6. m \in Nat /\ \A k \in S : k \in Nat /\ ~ (k > m)
  BY <1>5
<1> QED
  BY <1>6

LEMMA LargestFacts ==
  /\ Largest \in Nat
  /\ \A a \in Starts : a <= Largest
<1>1. /\ PoolValues \cup {1} \subseteq Nat /\ IsFiniteSet(PoolValues \cup {1})
      /\ Pooled \subseteq Accounts /\ IsFiniteSet(Pooled)
  BY EngineAssumption, FS_AddElement
<1>2. IsFiniteSet({InitBalance[a] : a \in Pooled})
  <2>1. InitAmounts \in Surjection(Pooled, {InitBalance[a] : a \in Pooled})
    BY DEF InitAmounts, Surjection
  <2> QED
    BY <1>1, <2>1, FS_Surjection
<1>3. Starts \subseteq Nat /\ Starts # {} /\ IsFiniteSet(Starts)
  BY <1>1, <1>2, FS_Union, EngineAssumption DEF Starts
<1>4. \E a \in Starts : \A b \in Starts : b <= a
  BY <1>3, LargestNat
<1>5. Largest \in Starts /\ \A b \in Starts : b <= Largest
  BY <1>4 DEF Largest
<1> QED
  BY <1>3, <1>5

LEMMA LargestConstant == Largest' = Largest /\ Digits' = Digits
BY DEF Largest, Starts, Digits

-------------------------------------------------------------------------------
(* The depth of the retries: a half-ether retry takes a digit of the amount,    *)
(* a retry with another sender keeps the amount and the limit of the depth.     *)

RetryInv == /\ AmountLeft <= Largest
            /\ \A a \in Pooled : amounts[a] <= InitBalance[a]
            /\ RecursionBounded

\* Whatever happens to an account's element of the pool, it does not grow.
LEMMA AmountsShrink ==
  ASSUME EngineInv, [Next]_vars, \A a \in Pooled : amounts[a] <= InitBalance[a]
  PROVE  \A a \in Pooled : amounts'[a] <= InitBalance[a]
<1>1. /\ amounts \in [Pooled -> Nat]
      /\ \A a \in Pooled : amounts[a] \in Nat /\ InitBalance[a] \in Nat
  BY EngineAssumption DEF EngineInv, TypeOK, StateTyped
<1>2. ASSUME NEW c \in Pooled, amounts' = [amounts EXCEPT ![c] = @ \div 2]
      PROVE  \A a \in Pooled : amounts'[a] <= InitBalance[a]
  <2>1. \A n \in Nat : n \div 2 <= n /\ n \div 2 \in Nat
    OBVIOUS
  <2>2. \A a \in Pooled : amounts'[a] = amounts[a] \/ amounts'[a] = amounts[a] \div 2
    BY <1>1, <1>2
  <2> QED
    BY <1>1, <2>1, <2>2
<1> QED
  BY <1>2, StateSteps DEF Halving

LEMMA AmountTyped ==
  ASSUME EngineInv
  PROVE  /\ AmountLeft \in Nat
         /\ Committed => AmountLeft = hint.amount /\ hint.amount = AmountLeft
<1>1. hint.amount \in Nat \cup {None}
  BY DEF EngineInv, TypeOK, CallTyped
<1>2. Committed => hint.amount \in Nat
  BY DEF EngineInv, HintKept
<1> QED
  BY <1>1, <1>2, LargestFacts, EngineAssumption DEF AmountLeft

\* An activation more, or a smaller amount, within what the digits allow.
LEMMA RetryBound ==
  ASSUME NEW depth \in Int, NEW spent \in Nat, spent <= Largest,
         Len(stack') - 1 = depth, AmountLeft' = spent,
         depth <= MaxDiffDepth + Digits[Largest] - Digits[spent],
         \A a \in Pooled : amounts'[a] <= InitBalance[a]
  PROVE  RetryInv'
BY LargestConstant DEF RetryInv, RecursionBounded, Depth

\* A step that starts no activation and does not increase the amount.
LEMMA ShrinkingKeeps ==
  ASSUME EngineInv, RetryInv, stack # <<>>, NEW n \in Nat, Len(stack') = n, n <= Len(stack),
         AmountLeft' \in Nat, AmountLeft' <= AmountLeft,
         \A a \in Pooled : amounts'[a] <= InitBalance[a]
  PROVE  RetryInv'
<1>1. AmountLeft \in Nat /\ AmountLeft <= Largest /\ Largest \in Nat
  BY AmountTyped, LargestFacts DEF RetryInv
<1>2. Digits[AmountLeft'] <= Digits[AmountLeft]
  BY <1>1, DigitsMonotone
<1>3. /\ Digits[AmountLeft'] \in Nat /\ Digits[AmountLeft] \in Nat /\ Digits[Largest] \in Nat
      /\ MaxDiffDepth \in Nat
  BY <1>1, DigitsType, EngineAssumption
<1>4. Len(stack) \in Nat /\ Len(stack) - 1 <= MaxDiffDepth + Digits[Largest] - Digits[AmountLeft]
  BY TopFacts DEF EngineInv, TypeOK, StackTyped, RetryInv, RecursionBounded, Depth
<1>5. n - 1 <= MaxDiffDepth + Digits[Largest] - Digits[AmountLeft']
  BY <1>2, <1>3, <1>4
<1>6. AmountLeft' <= Largest /\ n - 1 \in Int
  BY <1>1
<1> DEFINE left == AmountLeft'
<1> HIDE DEF left
<1>7. left \in Nat /\ left <= Largest /\ AmountLeft' = left /\ n - 1 <= MaxDiffDepth + Digits[Largest] - Digits[left]
  BY <1>5, <1>6 DEF left
<1> QED
  BY <1>6, <1>7, RetryBound

\* What GenTransaction puts into the Hint is no more than there was.
LEMMA GeneratedLeft ==
  ASSUME EngineInv, Generate, \A a \in Pooled : amounts[a] <= InitBalance[a]
  PROVE  AmountLeft' \in Nat /\ AmountLeft' <= AmountLeft
<1> USE EngineAssumption
<1>1. /\ tx' \in FullTx /\ hint'.amount = tx'.value
      /\ hint.amount # None => tx'.value = hint.amount
      /\ hint.amount = None =>
           \/ tx'.value = 0
           \/ tx'.value \in PoolValues
           \/ \E a \in Pooled : tx'.value = amounts[a]
  BY GeneratedCall
<1>2. tx'.value \in Nat
  BY <1>1 DEF FullTx
<1>3. AmountLeft' = tx'.value
  BY <1>1, <1>2 DEF AmountLeft
<1>4. CASE hint.amount # None
  BY <1>1, <1>2, <1>3, <1>4 DEF AmountLeft
<1>5. CASE hint.amount = None
  <2>1. Largest \in Nat /\ (\A v \in PoolValues : v <= Largest)
        /\ \A a \in Pooled : InitBalance[a] <= Largest
    BY LargestFacts DEF Starts
  <2>2. \A a \in Pooled : amounts[a] \in Nat /\ InitBalance[a] \in Nat
    BY DEF EngineInv, TypeOK, StateTyped
  <2>3. \A a \in Pooled : amounts[a] <= Largest
    BY <2>1, <2>2
  <2>4. tx'.value <= Largest
    BY <1>1, <1>2, <1>5, <2>1, <2>3
  <2> QED
    BY <1>2, <1>3, <1>5, <2>4 DEF AmountLeft
<1> QED
  BY <1>4, <1>5

LEMMA RetryInvStep == EngineInv /\ RetryInv /\ [Next]_vars => RetryInv'
<1> SUFFICES ASSUME EngineInv, RetryInv, [Next]_vars PROVE RetryInv'
  OBVIOUS
<1> USE EngineAssumption
<1>1. AmountLeft \in Nat /\ AmountLeft <= Largest /\ Largest \in Nat /\ MaxDiffDepth \in Nat
  BY AmountTyped, LargestFacts DEF RetryInv
<1>2. Digits[Largest] \in Nat /\ \A n \in Nat : n <= Largest => Digits[n] \in Nat /\ Digits[n] <= Digits[Largest]
  BY <1>1, DigitsType, DigitsMonotone
<1>3. stack # <<>> => /\ stack \in Seq(Statements) /\ Len(stack) \in Nat \ {0}
                      /\ Len(stack) - 1 <= MaxDiffDepth + Digits[Largest] - Digits[AmountLeft]
  BY TopFacts DEF EngineInv, TypeOK, StackTyped, RetryInv, RecursionBounded, Depth
<1>0. /\ \A a \in Pooled : amounts[a] <= InitBalance[a]
      /\ \A a \in Pooled : amounts'[a] <= InitBalance[a]
  BY AmountsShrink DEF RetryInv
<1>4. CASE CornerAttempt \/ MainAttempt
  <2>1. stack' = <<"generate">> /\ hint'.amount \in {None, 1}
    <3>1. EmptyHint.amount = None /\ \A p : CornerHint(p).amount \in {None, 1}
      BY DEF CornerHint, EmptyHint
    <3>2. \E h : Attempt(h) /\ h.amount \in {None, 1}
      BY <1>4, <3>1 DEF CornerAttempt, MainAttempt
    <3> QED
      BY <3>2 DEF Attempt
  <2>2. Len(stack') - 1 = 0
    BY <2>1
  <2>3. ASSUME NEW a \in {1, Largest}, AmountLeft' = a PROVE RetryInv'
    <3>1. a \in Nat /\ a <= Largest /\ 0 <= MaxDiffDepth + Digits[Largest] - Digits[a]
      BY <1>1, <1>2, LargestFacts DEF Starts
    <3> QED
      BY <1>0, <2>2, <2>3, <3>1, RetryBound
  <2>4. AmountLeft' \in {1, Largest}
    BY <2>1, LargestConstant DEF AmountLeft
  <2> QED
    BY <2>3, <2>4
<1>5. ASSUME UNCHANGED <<stack, hint>> PROVE RetryInv'
  BY <1>0, <1>5, LargestConstant DEF RetryInv, RecursionBounded, Depth, AmountLeft
<1>6. CASE CornersDone \/ LimitReached \/ Break \/ Continue \/ Finished \/ UNCHANGED vars
  BY <1>5, <1>6 DEF CornersDone, LimitReached, Break, Continue, Finished, vars
<1>7. ASSUME hint' = hint PROVE AmountLeft' = AmountLeft
  BY <1>7, LargestConstant DEF AmountLeft
<1>8. ASSUME stack # <<>>, NEW x \in Statements, stack' = Goto(x),
             AmountLeft' \in Nat, AmountLeft' <= AmountLeft
      PROVE  RetryInv'
  <2>1. Len(stack') = Len(stack)
    BY <1>8, GotoStep
  <2> QED
    BY <1>0, <1>3, <1>8, <2>1, ShrinkingKeeps
<1>9. ASSUME stack # <<>>, stack' = Pop, hint' = hint PROVE RetryInv'
  <2> DEFINE n == Len(stack) - 1
  <2>1. Len(stack') = n
    BY <1>3, <1>9, PopFacts
  <2>2. n \in Nat /\ n <= Len(stack)
    BY <1>3, <1>9
  <2>3. AmountLeft' \in Nat /\ AmountLeft' <= AmountLeft
    BY <1>1, <1>7, <1>9
  <2> HIDE DEF n
  <2> QED
    BY <1>0, <1>9, <2>1, <2>2, <2>3, ShrinkingKeeps
<1>10. CASE Generate
  BY <1>0, <1>8, <1>10, GeneratedLeft DEF Generate, At, Statements
<1>11. CASE Commit
  <2>1. stack # <<>> /\ stack' = Goto("judge") /\ hint' = hint
    BY <1>11 DEF Commit, At
  <2> QED
    BY <1>1, <1>7, <1>8, <2>1 DEF Statements
<1>12. CASE JudgeStop \/ ReturnFalse
  BY <1>9, <1>12 DEF JudgeStop, ReturnFalse, Return, At
<1>13. CASE JudgeGoOn
  <2>1. stack # <<>> /\ Top = "judge"
    BY <1>13 DEF JudgeGoOn, At
  <2>2. CASE Return(FALSE) /\ UNCHANGED <<hint, amounts, db>>
    BY <1>9, <2>1, <2>2 DEF Return
  <2>3. CASE stack' = Goto("afterHalf") /\ UNCHANGED <<hint, amounts, db, terminate>>
    BY <1>1, <1>7, <1>8, <2>1, <2>3 DEF Statements
  <2>4. CASE tx.value > 0 /\ RetryHalfEther
    <3>1. Committed /\ hint.amount = tx.value /\ AmountLeft = tx.value
      BY <2>1, AmountTyped DEF Committed, EngineInv, HintKept
    <3> DEFINE a == tx.value \div 2
    <3>2. AmountLeft \in Nat \ {0} /\ a \in Nat /\ a <= AmountLeft /\ a = AmountLeft \div 2
      BY <1>1, <2>4, <3>1
    <3>3. AmountLeft' = a
      <4>1. hint' = [hint EXCEPT !.amount = hint.amount \div 2, !.sender = tx.sender]
        BY <2>4 DEF RetryHalfEther
      <4>2. hint'.amount = a
        BY <3>1, <4>1 DEF EngineInv, TypeOK, CallTyped
      <4>3. hint'.amount # None
        BY <3>2, <4>2
      <4> QED
        BY <4>2, <4>3 DEF AmountLeft
    <3>4. Len(stack') = Len(stack) + 1
      BY <1>3, <2>1, <2>4, PushFacts DEF RetryHalfEther, Statements
    <3> HIDE DEF a
    <3>5. Digits[AmountLeft] = 1 + Digits[a] /\ Digits[a] \in Nat /\ a <= Largest
      BY <1>1, <3>2, DigitsHalved, DigitsType
    <3>6. Len(stack) - 1 <= MaxDiffDepth + Digits[Largest] - Digits[AmountLeft] /\ Len(stack) \in Nat
      BY <1>3, <2>1
    <3>7. Len(stack) <= MaxDiffDepth + Digits[Largest] - Digits[a] /\ Len(stack') - 1 = Len(stack)
      BY <1>1, <1>2, <3>4, <3>5, <3>6
    <3> QED
      BY <1>0, <3>2, <3>3, <3>5, <3>6, <3>7, RetryBound
  <2> QED
    BY <1>13, <2>2, <2>3, <2>4 DEF JudgeGoOn
<1>14. CASE RetryDiffSender
  <2>1. /\ stack # <<>> /\ Top = "afterHalf" /\ stack' = Append(Goto("afterDiff"), "generate")
        /\ hint' = [hint EXCEPT !.sender = None] /\ Len(stack) - 1 < MaxDiffDepth
    BY <1>14 DEF RetryDiffSender, At, MayRetryDiffSender, Depth
  <2>2. AmountLeft' = AmountLeft
    <3>1. hint'.amount = hint.amount
      BY <2>1 DEF EngineInv, TypeOK, CallTyped
    <3> QED
      BY <3>1, LargestConstant DEF AmountLeft
  <2>3. Len(stack') = Len(stack) + 1
    BY <1>3, <2>1, PushFacts DEF Statements
  <2>4. Len(stack) \in Nat /\ Digits[AmountLeft] \in Nat /\ Digits[AmountLeft] <= Digits[Largest]
    BY <1>1, <1>2, <1>3, <2>1
  <2>5. Len(stack) <= MaxDiffDepth + Digits[Largest] - Digits[AmountLeft] /\ Len(stack') - 1 = Len(stack)
    BY <1>1, <1>2, <2>1, <2>3, <2>4
  <2> QED
    BY <1>0, <1>1, <2>2, <2>4, <2>5, RetryBound
<1> QED
  BY <1>4, <1>6, <1>10, <1>11, <1>12, <1>13, <1>14 DEF Next

\* The half-ether retries of Rec have no limit of depth, and still the recursion
\* is bounded: the digits of the largest amount and the limit of the retries with
\* another sender add up (heuristics.go:158, 169).
THEOREM RetriesAreBounded == Spec => []RecursionBounded
<1>1. Init => RetryInv
  <2> SUFFICES ASSUME Init PROVE RetryInv
    OBVIOUS
  <2>1. stack = <<>> /\ AmountLeft = Largest
    BY DEF Init, EmptyHint, AmountLeft
  <2>2. Largest <= Largest
    BY LargestFacts
  <2>3. \A a \in Pooled : amounts[a] <= InitBalance[a]
    BY EngineAssumption DEF Init, InitAmounts
  <2> QED
    BY <2>1, <2>2, <2>3 DEF RetryInv, RecursionBounded
<1>2. RetryInv => RecursionBounded
  BY DEF RetryInv
<1> QED
  BY <1>1, <1>2, EngineInvariant, RetryInvStep, PTL DEF Spec

-------------------------------------------------------------------------------
(* The statistics. *)

\* Whatever has been recorded is finite, and a sum of full timestamps and the
\* transactions counted since.
StatsInv == optMode.statistics => IsFiniteSet(Recorded) /\ StatsMatchCounter

\* One more call of p adds one element to what is recorded.
LEMMA RecordedOnce ==
  ASSUME NEW p \in Calls, stats \in [Calls -> [failed : Nat, total : Nat]],
         NEW f \in Nat, IsFiniteSet(Recorded),
         stats' = [stats EXCEPT ![p] = [failed |-> f, total |-> stats[p].total + 1]]
  PROVE  /\ IsFiniteSet(Recorded')
         /\ Cardinality(Recorded') = Cardinality(Recorded) + 1
<1> DEFINE t == stats[p].total
           e == <<p, t + 1>>
<1>1. t \in Nat /\ \A q \in Calls : stats[q].total \in Nat
  OBVIOUS
<1>2. \A q \in Calls : stats'[q].total = IF q = p THEN t + 1 ELSE stats[q].total
  OBVIOUS
<1>3. 1 .. t + 1 = (1 .. t) \cup {t + 1} /\ t + 1 \notin 1 .. t
  BY <1>1
<1>4. Recorded' = UNION {{q} \X (1 .. stats'[q].total) : q \in Calls}
  BY DEF Recorded, Calls
<1>5. \A q, k : <<q, k>> \in Recorded <=> q \in Calls /\ k \in 1 .. stats[q].total
  BY DEF Recorded
<1>6. \A q, k : <<q, k>> \in Recorded' <=> q \in Calls /\ k \in 1 .. stats'[q].total
  BY <1>4
<1>7. /\ \A x \in Recorded : \E q, k : x = <<q, k>>
      /\ \A x \in Recorded' : \E q, k : x = <<q, k>>
  BY <1>4 DEF Recorded
<1>8. Recorded' = Recorded \cup {e} /\ e \notin Recorded
  <2> HIDE DEF t
  <2>1. \A q, k : <<q, k>> \in Recorded' <=> <<q, k>> \in Recorded \/ <<q, k>> = e
    BY <1>2, <1>3, <1>5, <1>6 DEF t
  <2>2. e \notin Recorded
    BY <1>3, <1>5 DEF t
  <2> QED
    BY <1>7, <2>1, <2>2
<1> HIDE DEF e
<1> QED
  BY <1>8, FS_AddElement

LEMMA StatsInvStep == EngineInv /\ StatsInv /\ [Next]_vars => StatsInv'
<1> SUFFICES ASSUME EngineInv, StatsInv, [Next]_vars, optMode'.statistics
             PROVE  IsFiniteSet(Recorded') /\ StatsMatchCounter'
  BY DEF StatsInv
<1>1. optMode' = optMode
  BY DEF Next, CornerAttempt, CornersDone, MainAttempt, LimitReached, Break, Continue,
     Finished, Generate, Commit, JudgeStop, JudgeGoOn, RetryDiffSender, ReturnFalse,
     engineVars, vars
<1> DEFINE total == Cardinality(Recorded)
           S     == SubmitPerTimestamp
<1>2. /\ IsFiniteSet(Recorded) /\ total \in Nat
      /\ \E full \in 0 .. total : total = full * S + count
      /\ \A p \in Calls : stats[p].failed <= stats[p].total
  BY <1>1, FS_CardinalityType DEF StatsInv, StatsMatchCounter
<1>3. PICK full \in 0 .. total : total = full * S + count
  BY <1>2
<1>4. count \in Nat /\ S \in Nat \ {0} /\ full \in Nat /\ full * S \in Nat
  BY <1>2, EngineAssumption DEF EngineInv, TypeOK, CountersTyped
<1>5. stats \in [Calls -> [failed : Nat, total : Nat]]
  BY DEF EngineInv, TypeOK, CountersTyped, Calls
<1>6. CASE UNCHANGED <<count, stats>>
  <2>1. Recorded' = Recorded /\ Calls' = Calls /\ SubmitPerTimestamp' = SubmitPerTimestamp
    BY <1>6 DEF Recorded, Calls
  <2> QED
    BY <1>1, <1>2, <1>6, <2>1 DEF StatsMatchCounter
<1>7. CASE Generate
  <2>1. stats' = stats /\ Recorded' = Recorded
    BY <1>7 DEF Generate, Recorded, Calls
  <2>2. CASE count' = count
    BY <1>6, <2>1, <2>2
  <2>3. CASE count' = 0 /\ count >= S
    <3>1. count = S
      BY <1>4, <2>3 DEF EngineInv, QuotaKept, TimestampQuota
    <3>2. total = (full + 1) * S + 0 /\ full + 1 \in 0 .. total
      <4>1. full <= full * S
        BY <1>4
      <4> HIDE DEF total, S
      <4> QED
        BY <1>2, <1>3, <1>4, <3>1, <4>1
    <3> QED
      BY <1>2, <2>1, <2>3, <3>2 DEF StatsMatchCounter
  <2> QED
    BY <1>7, <2>2, <2>3 DEF Generate, GenTimestamp
<1>8. CASE JudgeGoOn
  <2> DEFINE p == <<tx.contract, tx.method>>
             f == stats[p].failed + (IF lastTxRes.verdict.reverted THEN 1 ELSE 0)
  <2>1. stack # <<>> /\ Top = "judge" /\ AddTx(lastTxRes.verdict.reverted)
    BY <1>8 DEF JudgeGoOn, At
  <2>2. p \in Calls
    BY <2>1 DEF EngineInv, HintKept, Committed, FullTx, Calls
  <2>3. /\ count' = count + 1
        /\ stats' = [stats EXCEPT ![p] = [failed |-> f, total |-> stats[p].total + 1]]
    BY <1>1, <2>1 DEF AddTx
  <2>4. stats[p].failed \in Nat /\ stats[p].total \in Nat /\ stats[p].failed <= stats[p].total
    BY <1>2, <1>5, <2>2
  <2>5. f \in Nat /\ f <= stats[p].total + 1
    BY <2>4
  <2> HIDE DEF p, f
  <2>6. IsFiniteSet(Recorded') /\ Cardinality(Recorded') = total + 1
    BY <1>2, <1>5, <2>2, <2>3, <2>5, RecordedOnce
  <2>7. full \in 0 .. total + 1 /\ total + 1 = full * S + (count + 1)
    BY <1>2, <1>3, <1>4
  <2>8. \A q \in Calls : stats'[q].failed <= stats'[q].total
    BY <1>2, <1>5, <2>2, <2>3, <2>5
  <2> QED
    BY <2>3, <2>6, <2>7, <2>8 DEF StatsMatchCounter, Calls
<1>9. CASE ~Generate /\ ~JudgeGoOn
  BY <1>6, <1>9 DEF Next, CornerAttempt, CornersDone, MainAttempt, LimitReached, Break,
     Continue, Finished, Commit, JudgeStop, RetryDiffSender, ReturnFalse, engineVars, vars
<1> QED
  BY <1>7, <1>8, <1>9

\* The statistics lose no transaction and count none twice, whatever retries and
\* timestamps intervene (AddTx, ResetCounter).
THEOREM StatsAlwaysMatch == Spec => []StatsMatchCounter
<1>1. Init => StatsInv
  <2> SUFFICES ASSUME Init PROVE StatsInv
    OBVIOUS
  <2>1. \A p \in Calls : stats[p].failed = 0 /\ stats[p].total = 0
    BY DEF Init, NoStats, Calls
  <2>2. Recorded = {}
    BY <2>1 DEF Recorded
  <2>3. Cardinality(Recorded) = 0 /\ IsFiniteSet(Recorded)
    BY <2>2, FS_EmptySet
  <2>4. 0 = 0 * SubmitPerTimestamp + 0
    BY EngineAssumption
  <2> QED
    BY <2>1, <2>3, <2>4 DEF Init, StatsInv, StatsMatchCounter
<1>2. StatsInv => StatsMatchCounter
  BY DEF StatsInv, StatsMatchCounter
<1> QED
  BY <1>1, <1>2, EngineInvariant, StatsInvStep, PTL DEF Spec
-------------------------------------------------------------------------------
(* Why an attempt ends: its stacks of activations move in one direction. *)

LEMMA OrderFacts ==
  /\ \A x \in Statements : Order[x] \in 1 .. 5
  /\ Order["commit"] > Order["generate"]
  /\ Order["judge"] > Order["commit"]
  /\ Order["afterHalf"] > Order["judge"]
  /\ Order["afterDiff"] > Order["afterHalf"]
<1>1. /\ Order["generate"] = 1 /\ Order["commit"] = 2 /\ Order["judge"] = 3
      /\ Order["afterHalf"] = 4 /\ Order["afterDiff"] = 5
  BY DEF Order, Statements
<1> QED
  BY <1>1 DEF Statements

\* The activation that executes moves on, alone or with a retry below it.
LEMMA TopMovesOn ==
  ASSUME EngineInv, stack # <<>>, NEW x \in Statements, Order[x] > Order[Top],
         stack' = Goto(x) \/ \E y \in Statements : stack' = Append(Goto(x), y)
  PROVE  MovesOn(stack', stack)
<1> DEFINE n == Len(stack)
<1>1. stack \in Seq(Statements) /\ n \in Nat \ {0} /\ Top = stack[n]
  BY TopFacts DEF EngineInv, TypeOK, StackTyped
<1>2. /\ stack' \in Seq(Statements) /\ stack'[n] = x
      /\ Len(stack') = n \/ Len(stack') = n + 1
      /\ \A j \in 1 .. n - 1 : stack'[j] = stack[j]
  <2>1. CASE stack' = Goto(x)
    <3>1. /\ Goto(x) \in Seq(Statements) /\ Goto(x)[n] = x /\ Len(Goto(x)) = n
          /\ \A j \in 1 .. n - 1 : Goto(x)[j] = stack[j]
      BY <1>1, GotoFacts
    <3> QED
      BY <2>1, <3>1
  <2>2. ASSUME NEW y \in Statements, stack' = Append(Goto(x), y)
        PROVE  /\ stack' \in Seq(Statements) /\ stack'[n] = x /\ Len(stack') = n + 1
               /\ \A j \in 1 .. n - 1 : stack'[j] = stack[j]
    <3>1. LET s == Append(Goto(x), y) IN
            /\ s \in Seq(Statements) /\ s[n] = x /\ Len(s) = n + 1
            /\ \A j \in 1 .. n - 1 : s[j] = stack[j]
      BY <1>1, PushFacts
    <3> QED
      BY <2>2, <3>1
  <2> QED
    BY <2>1, <2>2
<1>3. DOMAIN stack' = 1 .. Len(stack') /\ n \in DOMAIN stack
  BY <1>1, <1>2, LenProperties
<1>4. MovedAt(n, stack', stack)
  <2>1. \A j \in 1 .. n - 1 : j \in DOMAIN stack'
    <3>1. \A m \in Nat : \A l \in {m, m + 1} : \A j \in 1 .. m - 1 : j \in 1 .. l
      OBVIOUS
    <3> QED
      BY <1>1, <1>2, <1>3, <3>1
  <2>2. Order[stack'[n]] > Order[stack[n]]
    BY <1>1, <1>2
  <2> QED
    BY <1>2, <2>1, <2>2 DEF MovedAt
<1> QED
  BY <1>3, <1>4 DEF MovesOn

LEMMA ReturnMovesOn ==
  ASSUME EngineInv, stack # <<>>, stack' = Pop
  PROVE  MovesOn(stack', stack)
<1> DEFINE n == Len(stack)
<1>1. stack \in Seq(Statements) /\ n \in Nat \ {0}
  BY TopFacts DEF EngineInv, TypeOK, StackTyped
<1>2. /\ stack' \in Seq(Statements) /\ Len(stack') = n - 1
      /\ \A j \in 1 .. n - 1 : stack'[j] = stack[j]
  BY <1>1, PopFacts
<1>3. DOMAIN stack' = 1 .. n - 1 /\ n \in DOMAIN stack
  BY <1>1, <1>2, LenProperties
<1>4. MovedAt(n, stack', stack)
  BY <1>1, <1>2, <1>3 DEF MovedAt
<1> QED
  BY <1>3, <1>4 DEF MovesOn

\* Every step of Rec moves its activations on, also the steps that start a retry
\* (heuristics.go:90, 164, 172).
THEOREM RecAlwaysMovesOn == Spec => RecMovesOn
<1>1. EngineInv /\ [Next]_vars => [stack # <<>> => MovesOn(stack', stack)]_vars
  <2> SUFFICES ASSUME EngineInv, Next, stack # <<>>, vars' # vars
               PROVE  MovesOn(stack', stack)
    OBVIOUS
  <2>1. loop \in {"corner", "after"}
    BY RecRunning
  <2>2. CASE Generate
    BY <2>2, TopMovesOn, OrderFacts DEF Generate, At, Statements
  <2>3. CASE Commit
    BY <2>3, TopMovesOn, OrderFacts DEF Commit, At, Statements
  <2>4. CASE JudgeStop \/ ReturnFalse
    BY <2>4, ReturnMovesOn DEF JudgeStop, ReturnFalse, Return
  <2>5. CASE JudgeGoOn
    <3>1. Top = "judge" /\ \/ stack' = Pop
                           \/ stack' = Goto("afterHalf")
                           \/ stack' = Append(Goto("afterHalf"), "generate")
      BY <2>5 DEF JudgeGoOn, At, Return, RetryHalfEther
    <3> QED
      BY <3>1, TopMovesOn, ReturnMovesOn, OrderFacts DEF Statements
  <2>6. CASE RetryDiffSender
    BY <2>6, TopMovesOn, OrderFacts DEF RetryDiffSender, At, Statements
  <2> QED
    BY <2>1, <2>2, <2>3, <2>4, <2>5, <2>6 DEF Next, CornerAttempt, CornersDone, MainAttempt,
       LimitReached, Break, Continue, Finished
<1> QED
  BY <1>1, EngineInvariant, PTL DEF Spec, RecMovesOn

\* The stacks the depth allows (RecursionBounded).
BoundedStacks ==
  {s \in Seq(Statements) : Len(s) <= MaxDiffDepth + Digits[Largest] + 1}

LEMMA StackBounded ==
  ASSUME EngineInv, RecursionBounded
  PROVE  stack \in BoundedStacks
<1>1. stack \in Seq(Statements) /\ Len(stack) \in Nat
  BY LenProperties DEF EngineInv, TypeOK, StackTyped
<1>2. Digits[Largest] \in Nat /\ Digits[AmountLeft] \in Nat /\ MaxDiffDepth \in Nat
  BY AmountTyped, LargestFacts, DigitsType, EngineAssumption
<1>3. CASE stack = <<>>
  <2>1. Len(stack) = 0
    BY <1>3, EmptySeq
  <2> QED
    BY <1>1, <1>2, <2>1 DEF BoundedStacks
<1>4. CASE stack # <<>>
  BY <1>1, <1>2, <1>4 DEF BoundedStacks, RecursionBounded, Depth
<1> QED
  BY <1>3, <1>4

\* The depth of the retries leaves only stacks of bounded length (heuristics.go:158).
THEOREM StacksStayBounded == Spec => [](stack \in BoundedStacks)
<1>1. EngineInv /\ RecursionBounded => stack \in BoundedStacks
  BY StackBounded
<1> QED
  BY <1>1, EngineInvariant, RetriesAreBounded, PTL

\* How far the activation at depth k still has to go.
Rest(s, k) == IF k \in DOMAIN s THEN 6 - Order[s[k]] ELSE 0

LEMMA StackFacts ==
  ASSUME NEW s \in Seq(Statements)
  PROVE  /\ Len(s) \in Nat /\ DOMAIN s = 1 .. Len(s)
         /\ \A k \in DOMAIN s : k \in Nat \ {0} /\ Order[s[k]] \in 1 .. 5
         /\ \A k : Rest(s, k) \in Nat
<1>1. Len(s) \in Nat /\ DOMAIN s = 1 .. Len(s)
  BY LenProperties
<1>2. \A k \in DOMAIN s : k \in Nat \ {0} /\ Order[s[k]] \in 1 .. 5
  <2> TAKE k \in DOMAIN s
  <2>1. s[k] \in Statements /\ k \in Nat \ {0}
    BY <1>1, ElementOfSeq
  <2> QED
    BY <2>1, OrderFacts
<1>3. \A k : Rest(s, k) \in Nat
  BY <1>2 DEF Rest
<1> QED
  BY <1>1, <1>2, <1>3

\* Of any stacks some have no other that has moved on at one of the first n depths:
\* among those for n - 1 the ones whose activation at depth n is closest to its end.
LEMMA SomeStackLast ==
  ASSUME NEW S, S \subseteq Seq(Statements), S # {}, NEW n \in Nat
  PROVE  \E s \in S : \A t \in S, k \in DOMAIN s : k <= n => ~MovedAt(k, t, s)
<1> DEFINE Last(s, m) == \A t \in S, k \in DOMAIN s : k <= m => ~MovedAt(k, t, s)
           T == {m \in Nat : ~ \E s \in S : Last(s, m)}
<1>1. ASSUME T # {} PROVE FALSE
  <2>1. T \subseteq Nat
    OBVIOUS
  <2>2. PICK m \in T : \A k \in T : m <= k
    <3> HIDE DEF T
    <3> QED
      BY <1>1, <2>1, LeastNat
  <2>3. \A s \in S : /\ Len(s) \in Nat /\ DOMAIN s = 1 .. Len(s)
                     /\ \A k \in DOMAIN s : k \in Nat \ {0} /\ Order[s[k]] \in 1 .. 5
                     /\ \A k : Rest(s, k) \in Nat
    BY StackFacts
  <2>4. m # 0
    <3>1. \A s \in S : Last(s, 0)
      BY <2>3
    <3> QED
      BY <3>1
  <2> DEFINE B == {s \in S : Last(s, m - 1)}
             R == {Rest(s, m) : s \in B}
  <2>5. m - 1 \in Nat /\ m \in Nat /\ B # {}
    BY <2>2, <2>4
  <2>6. \A s \in S : Rest(s, m) \in Nat
    BY <2>3
  <2>7. R \subseteq Nat /\ R # {}
    BY <2>5, <2>6
  <2>8. PICK r \in R : \A q \in R : r <= q
    <3> HIDE DEF R
    <3> QED
      BY <2>7, LeastNat
  <2>9. PICK s \in B : r = Rest(s, m)
    OBVIOUS
  <2>10. ASSUME NEW t \in S, m \in DOMAIN s, MovedAt(m, t, s) PROVE FALSE
    <3>1. \A j \in 1 .. m - 1 : j \in DOMAIN s /\ j \in DOMAIN t /\ t[j] = s[j]
      <4>1. DOMAIN s = 1 .. Len(s) /\ Len(s) \in Nat
        BY <2>3
      <4>2. 1 .. m - 1 \subseteq DOMAIN s
        <5> HIDE DEF Last, B
        <5> QED
          BY <2>5, <2>10, <4>1
      <4> QED
        BY <2>10, <4>2 DEF MovedAt
    <3>2. Last(t, m - 1)
      <4> SUFFICES ASSUME NEW u \in S, NEW k \in DOMAIN t, k <= m - 1, MovedAt(k, u, t)
                   PROVE  FALSE
        OBVIOUS
      <4>1. k \in 1 .. m - 1
        <5>1. k \in Nat \ {0}
          BY <2>3
        <5> QED
          BY <2>5, <5>1
      <4>2. \A j \in 1 .. k - 1 : t[j] = s[j]
        BY <2>5, <3>1, <4>1
      <4>3. k \in DOMAIN s /\ t[k] = s[k]
        BY <3>1, <4>1
      <4>4. MovedAt(k, u, s)
        BY <4>2, <4>3 DEF MovedAt
      <4> QED
        BY <4>1, <4>3, <4>4
    <3>3. Rest(t, m) < Rest(s, m)
      <4>1. Order[s[m]] \in 1 .. 5
        BY <2>3, <2>10
      <4>4. Rest(s, m) = 6 - Order[s[m]]
        BY <2>10 DEF Rest
      <4>2. CASE m \in DOMAIN t
        <5>1. Order[t[m]] \in 1 .. 5 /\ Order[t[m]] > Order[s[m]]
          BY <2>3, <2>10, <4>2 DEF MovedAt
        <5>2. Rest(t, m) = 6 - Order[t[m]]
          BY <4>2 DEF Rest
        <5> HIDE DEF Last, B
        <5> QED
          BY <4>1, <4>4, <5>1, <5>2
      <4>3. CASE m \notin DOMAIN t
        <5>1. Rest(t, m) = 0
          BY <4>3 DEF Rest
        <5> HIDE DEF Last, B
        <5> QED
          BY <4>1, <4>4, <5>1
      <4> QED
        BY <4>2, <4>3
    <3>4. Rest(t, m) \in R /\ Rest(t, m) \in Nat /\ Rest(s, m) \in Nat
      BY <2>6, <3>2
    <3> HIDE DEF R
    <3> QED
      BY <2>8, <2>9, <3>3, <3>4
  <2>11. Last(s, m)
    <3> SUFFICES ASSUME NEW t \in S, NEW k \in DOMAIN s, k <= m, MovedAt(k, t, s)
                 PROVE  FALSE
      OBVIOUS
    <3>1. k <= m - 1 \/ k = m
      <4>1. k \in Nat
        BY <2>3
      <4> QED
        BY <2>5, <4>1
    <3> QED
      BY <2>10, <3>1
  <2> QED
    BY <2>11
<1>2. n \notin T
  BY <1>1
<1> QED
  BY <1>2

\* Whatever stacks an attempt goes through, there is one no other has moved on
\* from: as every step of Rec moves on, an attempt ends, with all its retries,
\* after finitely many of them (heuristics.go:90).
THEOREM SomeStackIsFinal ==
  ASSUME NEW S, S \subseteq BoundedStacks, S # {}
  PROVE  \E s \in S : \A t \in S : ~MovesOn(t, s)
<1> DEFINE n == MaxDiffDepth + Digits[Largest] + 1
<1>1. n \in Nat
  BY LargestFacts, DigitsType, EngineAssumption
<1>2. S \subseteq Seq(Statements) /\ \A s \in S : Len(s) <= n
  BY DEF BoundedStacks
<1> HIDE DEF n
<1>3. PICK s \in S : \A t \in S, k \in DOMAIN s : k <= n => ~MovedAt(k, t, s)
  BY <1>1, <1>2, SomeStackLast
<1>4. \A k \in DOMAIN s : k <= n
  <2>1. s \in Seq(Statements) /\ Len(s) <= n
    BY <1>2
  <2>2. DOMAIN s = 1 .. Len(s) /\ Len(s) \in Nat
    BY <2>1, LenProperties
  <2> QED
    BY <1>1, <2>1, <2>2
<1> QED
  BY <1>3, <1>4 DEF MovesOn
===============================================================================
