------------------------------ MODULE FuzzEngine ------------------------------
(***************************************************************************)
(* The fuzzing engine: fuzz() of fuzzer/fuzzer.go, the recursive Rec of     *)
(* utils/heuristics.go, GenTransaction of utils/generator.go and            *)
(* CommitTransaction of utils/backend.go, over the timestamp pool           *)
(* (TimestampPool) and the chain state (ChainState).                        *)
(*                                                                          *)
(* The program has one thread.  `loop' is the position in fuzz(), `stack'   *)
(* the activations of Rec, outermost first; an activation is described by   *)
(* the statement it executes next, and its argument depth is its position.  *)
(* All activations of one attempt share one Hint, as they do in the code.   *)
(***************************************************************************)
EXTENDS TimestampPool, ChainState

CONSTANTS
  Contracts,          \* the fuzzed contracts, each with a method
  Methods,            \* all method names
  MethodsOf,          \* contract -> its fuzzed methods
  Payable,            \* the <<contract, method>> pairs IsPayable holds for
  FuzzMethods,        \* the methods named fuzz_always_true...
  Fallback,           \* the method name "" of a fallback call
  None,               \* a nil or empty field of a Hint
  PoolValues,         \* the other amounts the *big.Int pool can hand out
  ArgLists,           \* the argument lists ConstructArgs can build
  Verdicts,           \* what executing a transaction can show
  OptFlags,           \* the values of the flag -o to consider
  TimestampLists,     \* the timestamp pools NewBackend can leave behind
  InitBalance,        \* account -> ether
  Limit,              \* the flag --limit
  SubmitPerTimestamp, \* 2048 in GenTimestamp
  SnapshotBit,        \* 8192 in fuzz()
  MaxDiffDepth        \* 4 in Rec

Callable == Methods \cup {Fallback}
Outputs == {"none", "one", "otherWord"}   \* by the last byte of a 32 byte word
AllVerdicts == [reverted : BOOLEAN,   \* RevertAtDepth == 1
                failed   : BOOLEAN,   \* the call failed without a REVERT opcode
                asserted : BOOLEAN,   \* AssertionAtDepth # -1
                overflow : BOOLEAN,   \* Overflow # ""
                output   : Outputs]

ASSUME EngineAssumption ==
  /\ MethodsOf \in [Contracts -> SUBSET Methods]
  /\ \A c \in Contracts : MethodsOf[c] # {}
  /\ Payable \subseteq Contracts \X Callable
  /\ FuzzMethods \subseteq Methods
  /\ Fallback \notin Methods
  /\ None \notin Contracts /\ None \notin Callable /\ None \notin Accounts /\ None \notin Nat
  /\ PoolValues \subseteq Nat /\ 0 \in PoolValues /\ IsFiniteSet(PoolValues)
  /\ Pooled \subseteq Accounts /\ IsFiniteSet(Pooled)
  /\ ArgLists # {}
  /\ Verdicts \subseteq AllVerdicts
  /\ OptFlags \subseteq 0 .. 15
  /\ TimestampLists \subseteq Seq(Times)
  /\ InitBalance \in [Accounts -> Nat]
  /\ Limit \in Nat
  /\ SubmitPerTimestamp \in Nat \ {0} /\ SnapshotBit \in Nat \ {0} /\ MaxDiffDepth \in Nat

VARIABLES
  optMode,    \* the OptMode decoded from the flag
  loop,       \* "corner", "test", "after" (Rec returned) or "done"
  corner,     \* the corner cases still to try, <<contract, method>>
  i,          \* the loop variable of the main loop
  stack,      \* the activations of Rec
  terminate,  \* what the outermost Rec returned last
  hint,       \* the Hint shared by the activations
  amounts,    \* account in Pooled -> its *big.Int, an element of the pool
  tx,         \* the transaction generated last (LastTxIn and tx.Value())
  lastTxRes,  \* backend.LastTxRes
  result,     \* the ResultsMap: <<contract, method, kind>>
  db,         \* the chain state and its snapshot
  txCount,    \* backend.TxCount
  count,      \* Stats.txCntAfterRevert
  stats       \* Stats.statsMap: <<contract, method>> -> failed and total
vars == <<clockVars, optMode, loop, corner, i, stack, terminate, hint, amounts, tx,
          lastTxRes, result, db, txCount, count, stats>>
-------------------------------------------------------------------------------
\* OptMode.SetFlag: the bits of -o, least significant first.
Bit(n, weight) == (n \div weight) % 2 = 1
SetFlag(flag) == [halfEther  |-> Bit(flag, 1), diffSender |-> Bit(flag, 2),
                  snapshots  |-> Bit(flag, 4), statistics |-> Bit(flag, 8)]

IsFuzz(method) == method \in FuzzMethods

\* The calls fuzz() makes first: every fallback, and one ether to every method
\* that is neither payable nor a custom property.
CornerCases == {<<c, Fallback>> : c \in Contracts} \cup
               {p \in Contracts \X Methods :
                  p[2] \in MethodsOf[p[1]] /\ p \notin Payable /\ ~IsFuzz(p[2])}

\* The range loops finish one contract, fallback first, before the next.
NextCorner == LET begun == {p \in corner : <<p[1], Fallback>> \notin corner}
              IN  IF begun # {} THEN begun ELSE {p \in corner : p[2] = Fallback}

\* In the code Amount is a pointer: cell tells the account whose *big.Int it
\* points to, None that it is another number.  Nothing ever sets args.
EmptyHint == [contract |-> None, method |-> None, args |-> None, amount |-> None,
              cell |-> None, sender |-> None, fallback |-> FALSE]
CornerHint(p) == IF p[2] = Fallback
                 THEN [EmptyHint EXCEPT !.contract = p[1], !.fallback = TRUE]
                 ELSE [EmptyHint EXCEPT !.contract = p[1], !.method = p[2], !.amount = 1]

NoTx == [contract |-> None, method |-> None, args |-> None, sender |-> None, value |-> 0]
CleanVerdict == [reverted |-> FALSE, failed |-> FALSE, asserted |-> FALSE,
                 overflow |-> FALSE, output |-> "none"]
NoStats == [p \in Contracts \X Callable |-> [failed |-> 0, total |-> 0]]

\* The ether of the deployed project when the elements of the pool are as given.
DeployedWith(cells) ==
  [balance |-> [a \in Accounts |-> IF a \in Pooled THEN cells[a] ELSE InitBalance[a]],
   tied |-> Pooled, held |-> 0]
InitAmounts == [a \in Pooled |-> InitBalance[a]]

\* NewBackend has deployed the project; fuzz() takes the snapshot.
Init == /\ times \in TimestampLists
        /\ timeKeys = Range(times)
        /\ cursor = 0
        /\ time = WallClock
        /\ \E flag \in OptFlags : optMode = SetFlag(flag)
        /\ loop = "corner"
        /\ corner = CornerCases
        /\ i = 0
        /\ stack = <<>>
        /\ terminate = FALSE
        /\ hint = EmptyHint
        /\ amounts = InitAmounts
        /\ tx = NoTx
        /\ lastTxRes = [verdict |-> CleanVerdict, receipt |-> TRUE]
        /\ result = {}
        /\ db = SnapshotBackend(DeployedWith(InitAmounts))
        /\ txCount = 0
        /\ count = 0
        /\ stats = NoStats
-------------------------------------------------------------------------------
(* fuzz() *)

engineVars == <<clockVars, amounts, tx, lastTxRes, result, count, stats, optMode>>

\* Calls Rec at depth 0 with a new Hint.
Attempt(h) == hint' = h /\ stack' = <<"generate">>

CornerAttempt == /\ loop = "corner" /\ stack = <<>>
                 /\ \E p \in NextCorner : /\ Attempt(CornerHint(p))
                                          /\ corner' = corner \ {p}
                 /\ UNCHANGED <<engineVars, loop, i, terminate, db, txCount>>

\* Slip: the corner cases count towards the limit.
CornersDoneCounting == /\ loop = "corner" /\ stack = <<>> /\ corner = {}
                       /\ loop' = "test"
                       /\ i' = 0
                       /\ UNCHANGED <<engineVars, corner, stack, terminate, hint, db, txCount>>

CornersDone == /\ loop = "corner" /\ stack = <<>> /\ corner = {}
               /\ loop' = "test"
               /\ txCount' = 0
               /\ i' = 0
               /\ UNCHANGED <<engineVars, corner, stack, terminate, hint, db>>

\* Slip: the limit is included.
MainAttemptOneMore == /\ loop = "test" /\ i <= Limit
                      /\ Attempt(EmptyHint)
                      /\ loop' = "after"
                      /\ UNCHANGED <<engineVars, corner, i, terminate, db, txCount>>

MainAttempt == /\ loop = "test" /\ i < Limit
               /\ Attempt(EmptyHint)
               /\ loop' = "after"
               /\ UNCHANGED <<engineVars, corner, i, terminate, db, txCount>>

LimitReached == /\ loop = "test" /\ i >= Limit
                /\ loop' = "done"
                /\ UNCHANGED <<engineVars, corner, i, stack, terminate, hint, db, txCount>>

Break == /\ loop = "after" /\ stack = <<>>
         /\ terminate \/ txCount > Limit
         /\ loop' = "done"
         /\ UNCHANGED <<engineVars, corner, i, stack, terminate, hint, db, txCount>>

Continue == /\ loop = "after" /\ stack = <<>>
            /\ ~terminate /\ txCount <= Limit
            /\ db' = IF optMode.snapshots /\ Bit(i, SnapshotBit)
                     THEN RevertBackend(db) ELSE db
            /\ i' = i + 1
            /\ loop' = "test"
            /\ UNCHANGED <<engineVars, corner, stack, terminate, hint, txCount>>

\* The reports are printed; nothing the model keeps changes any more.
Finished == loop = "done" /\ UNCHANGED vars
-------------------------------------------------------------------------------
(* Rec *)

Top == stack[Len(stack)]
At(statement) == stack # <<>> /\ Top = statement
Depth == Len(stack) - 1
Goto(statement) == [stack EXCEPT ![Len(stack)] = statement]
Pop == SubSeq(stack, 1, Len(stack) - 1)

\* The value an activation returns matters at depth 0 only: fuzz() looks at it,
\* the retries of Rec drop it.
Return(value) == /\ stack' = Pop
                 /\ terminate' = IF Len(stack) = 1 THEN value ELSE terminate

\* Slip: ResetCounter is forgotten.
GenTimestampNoReset ==
  \/ /\ count < SubmitPerTimestamp
     /\ time' = CurrentTimestamp
     /\ UNCHANGED <<poolVars, count, db>>
  \/ /\ count >= SubmitPerTimestamp
     /\ time' = NextTime
     /\ cursor' = NextCursor
     /\ db' = IF ShouldRevert THEN RevertBackend(db) ELSE db
     /\ UNCHANGED <<times, timeKeys, count>>

\* Slip: off by one in the comparison with the quota.
GenTimestampEarly ==
  \/ /\ count + 1 < SubmitPerTimestamp
     /\ time' = CurrentTimestamp
     /\ UNCHANGED <<poolVars, count, db>>
  \/ /\ count + 1 >= SubmitPerTimestamp
     /\ time' = NextTime
     /\ cursor' = NextCursor
     /\ count' = 0
     /\ db' = IF ShouldRevert THEN RevertBackend(db) ELSE db
     /\ UNCHANGED <<times, timeKeys>>

\* GenTimestamp: the same timestamp for SubmitPerTimestamp transactions.
GenTimestamp ==
  \/ /\ count < SubmitPerTimestamp
     /\ time' = CurrentTimestamp
     /\ UNCHANGED <<poolVars, count, db>>
  \/ /\ count >= SubmitPerTimestamp
     /\ time' = NextTime
     /\ cursor' = NextCursor
     /\ count' = 0
     /\ db' = IF ShouldRevert THEN RevertBackend(db) ELSE db
     /\ UNCHANGED <<times, timeKeys>>

\* What a field of the Hint leaves open is chosen from S.
Hinted(field, S) == IF field # None THEN {field} ELSE S

MethodChoices(c) == IF hint.fallback THEN {Fallback}
                    ELSE Hinted(hint.method, MethodsOf[c])

\* The elements of the *big.Int pool an amount can be.
Amount(value, cell) == [value |-> value, cell |-> cell]
PoolAmounts == {Amount(v, None) : v \in PoolValues} \cup {Amount(amounts[a], a) : a \in Pooled}
HintedAmount(S) == IF hint.amount # None THEN {Amount(hint.amount, hint.cell)} ELSE S

\* Slip: the balance is not looked at.
AmountChoicesUnchecked(c, m, balance) ==
  HintedAmount(IF <<c, m>> \in Payable THEN PoolAmounts ELSE {Amount(0, None)})

\* getRandomAmountFromAddress returns some pool element the sender can pay; that
\* the loop ends and what it draws is the subject of BigIntPool.
AmountChoices(c, m, balance) ==
  HintedAmount(IF <<c, m>> \in Payable
               THEN {p \in PoolAmounts : p.value <= balance} ELSE {Amount(0, None)})

\* ConstructArgs draws new arguments, for a retry as well; a fallback has none.
ArgChoices(m) == Hinted(hint.args, IF m = Fallback THEN {None} ELSE ArgLists)

\* Slip: the method is not saved in the Hint.
GenTransactionForgetful ==
  \E c \in Hinted(hint.contract, Contracts) :
    \E m \in MethodChoices(c), s \in Hinted(hint.sender, Accounts) :
      \E args \in ArgChoices(m), p \in AmountChoices(c, m, db'.live.balance[s]) :
        /\ tx' = [contract |-> c, method |-> m, args |-> args, sender |-> s,
                  value |-> p.value]
        /\ hint' = [hint EXCEPT !.contract = c, !.amount = p.value, !.cell = p.cell]

\* Slip: the balance is read before GenTimestamp reverts the state.
GenTransactionStale ==
  \E c \in Hinted(hint.contract, Contracts) :
    \E m \in MethodChoices(c), s \in Hinted(hint.sender, Accounts) :
      \E args \in ArgChoices(m), p \in AmountChoices(c, m, db.live.balance[s]) :
        /\ tx' = [contract |-> c, method |-> m, args |-> args, sender |-> s,
                  value |-> p.value]
        /\ hint' = [hint EXCEPT !.contract = c, !.method = m,
                                !.amount = p.value, !.cell = p.cell]

\* GenTransaction saves contract, method and amount in the Hint, and leaves the
\* arguments and the sender out of it.
GenTransaction ==
  \E c \in Hinted(hint.contract, Contracts) :
    \E m \in MethodChoices(c), s \in Hinted(hint.sender, Accounts) :
      \E args \in ArgChoices(m), p \in AmountChoices(c, m, db'.live.balance[s]) :
        /\ tx' = [contract |-> c, method |-> m, args |-> args, sender |-> s,
                  value |-> p.value]
        /\ hint' = [hint EXCEPT !.contract = c, !.method = m,
                                !.amount = p.value, !.cell = p.cell]

Generate == /\ At("generate")
            /\ GenTimestamp
            /\ GenTransaction
            /\ stack' = Goto("commit")
            /\ UNCHANGED <<optMode, loop, corner, i, terminate, amounts, lastTxRes,
                           result, txCount, stats>>

\* Slip: the value is moved without looking at the balance.
ExecuteUnchecked ==
  \E v \in Verdicts, w \in Successors(db.live, tx.sender, tx.value) :
    /\ lastTxRes' = [verdict |-> v, receipt |-> TRUE]
    /\ db' = Write(db, IF v.reverted \/ v.failed THEN RolledBack(db.live, w) ELSE w)

\* ApplyTransaction runs the call; processLogs records what the trace shows.
\* The ether only moves in a call that ends without an error.
Execute ==
  /\ CanTransfer(db.live, tx.sender, tx.value)
  /\ \E v \in Verdicts, w \in Successors(db.live, tx.sender, tx.value) :
       /\ lastTxRes' = [verdict |-> v, receipt |-> TRUE]
       /\ db' = Write(db, IF v.reverted \/ v.failed THEN RolledBack(db.live, w) ELSE w)

\* ApplyTransaction returns an error: the StructLogger is a new one without
\* output and the Receipt is nil, but processLogs, which resets the other fields
\* of LastTxRes, is not reached.
Reject == /\ ~CanTransfer(db.live, tx.sender, tx.value)
          /\ lastTxRes' = [verdict |-> [lastTxRes.verdict EXCEPT !.output = "none"],
                           receipt |-> FALSE]
          /\ UNCHANGED db

Commit == /\ At("commit")
          /\ txCount' = txCount + 1
          /\ Execute \/ Reject
          /\ stack' = Goto("judge")
          /\ UNCHANGED <<clockVars, optMode, loop, corner, i, terminate, hint, amounts,
                         tx, result, count, stats>>

\* What Rec writes into the ResultsMap.
Found(v) ==
  {<<tx.contract, tx.method, kind>> :
     kind \in {k \in {"Overflow", "AssertionFailure", "Property violation",
                      "Revert in fuzz function"} :
       CASE k = "Overflow"           -> v.overflow /\ ~v.reverted
         [] k = "AssertionFailure"   -> v.asserted
         [] k = "Property violation" -> IsFuzz(tx.method) /\ ~v.reverted /\ v.output = "otherWord"
         [] OTHER                    -> IsFuzz(tx.method) /\ v.reverted}}

\* The custom property failed: Rec returns true before the statistics.
MustStop(v) == IsFuzz(tx.method) /\ (v.reverted \/ v.output = "otherWord")

\* Slip: a failed call is not counted in the total of its method.
AddTxLosesFailed(failed) ==
  /\ count' = count + 1
  /\ stats' = IF optMode.statistics
              THEN [stats EXCEPT ![<<tx.contract, tx.method>>] =
                      [failed |-> @.failed + (IF failed THEN 1 ELSE 0),
                       total  |-> @.total + (IF failed THEN 0 ELSE 1)]]
              ELSE stats

\* Stats.AddTx, or IncTxCnt alone when statistics are off.
AddTx(failed) ==
  /\ count' = count + 1
  /\ stats' = IF optMode.statistics
              THEN [stats EXCEPT ![<<tx.contract, tx.method>>] =
                      [failed |-> @.failed + (IF failed THEN 1 ELSE 0),
                       total  |-> @.total + 1]]
              ELSE stats

\* hint.Amount.Rsh halves the number Amount points to: with it the element of the
\* pool it was drawn from, and the balances tied to that.
HalveHint == /\ hint.cell = None
             /\ UNCHANGED <<amounts, db>>
HalveCell == /\ hint.cell # None
             /\ amounts' = [amounts EXCEPT ![hint.cell] = @ \div 2]
             /\ db' = HalveAmount(db, hint.cell)

\* Slip: the sender of the failed transaction is not kept.
RetryHalfEtherAnySender == /\ hint' = [hint EXCEPT !.amount = @ \div 2]
                           /\ HalveHint \/ HalveCell
                           /\ stack' = Append(Goto("afterHalf"), "generate")
                           /\ UNCHANGED terminate

\* The retry with half the ether, from the same sender.
RetryHalfEther == /\ hint' = [hint EXCEPT !.amount = @ \div 2, !.sender = tx.sender]
                  /\ HalveHint \/ HalveCell
                  /\ stack' = Append(Goto("afterHalf"), "generate")
                  /\ UNCHANGED terminate

JudgeStop == /\ At("judge") /\ MustStop(lastTxRes.verdict)
             /\ result' = result \cup Found(lastTxRes.verdict)
             /\ Return(TRUE)
             /\ UNCHANGED <<clockVars, optMode, loop, corner, i, hint, amounts, tx,
                            lastTxRes, db, txCount, count, stats>>

JudgeGoOn == LET v == lastTxRes.verdict IN
             /\ At("judge") /\ ~MustStop(v)
             /\ result' = result \cup Found(v)
             /\ AddTx(v.reverted)
             /\ \/ ~v.reverted /\ Return(FALSE) /\ UNCHANGED <<hint, amounts, db>>
                \/ v.reverted /\ optMode.halfEther /\ tx.value > 0 /\ RetryHalfEther
                \/ /\ v.reverted /\ ~(optMode.halfEther /\ tx.value > 0)
                   /\ stack' = Goto("afterHalf")
                   /\ UNCHANGED <<hint, amounts, db, terminate>>
             /\ UNCHANGED <<clockVars, optMode, loop, corner, i, tx, lastTxRes, txCount>>

\* Slip: the depth of the recursion is not limited.
MayRetryUnlimited == optMode.diffSender

\* The retry with another sender follows, whatever the first retry returned.
MayRetryDiffSender == optMode.diffSender /\ Depth < MaxDiffDepth

\* Slip: the retry draws a new amount.
RetryDiffSenderNewAmount == /\ At("afterHalf") /\ MayRetryDiffSender
                            /\ hint' = [hint EXCEPT !.sender = None, !.amount = None]
                            /\ stack' = Append(Goto("afterDiff"), "generate")
                            /\ UNCHANGED <<engineVars, loop, corner, i, terminate, db, txCount>>

\* Slip: the retry is written as a loop, whose condition is tested again.
RetryDiffSenderWhile == /\ At("afterHalf") /\ MayRetryDiffSender
                        /\ hint' = [hint EXCEPT !.sender = None]
                        /\ stack' = Append(stack, "generate")
                        /\ UNCHANGED <<engineVars, loop, corner, i, terminate, db, txCount>>

RetryDiffSender == /\ At("afterHalf") /\ MayRetryDiffSender
                   /\ hint' = [hint EXCEPT !.sender = None]
                   /\ stack' = Append(Goto("afterDiff"), "generate")
                   /\ UNCHANGED <<engineVars, loop, corner, i, terminate, db, txCount>>

\* Slip: the retries are written as a loop that nothing leaves.
ReturnFalseNever == /\ At("afterDiff") \/ (At("afterHalf") /\ ~MayRetryDiffSender)
                    /\ UNCHANGED vars

ReturnFalse == /\ At("afterDiff") \/ (At("afterHalf") /\ ~MayRetryDiffSender)
               /\ Return(FALSE)
               /\ UNCHANGED <<engineVars, loop, corner, i, hint, db, txCount>>

Next == \/ CornerAttempt \/ CornersDone
        \/ MainAttempt \/ LimitReached \/ Break \/ Continue \/ Finished
        \/ Generate \/ Commit \/ JudgeStop \/ JudgeGoOn
        \/ RetryDiffSender \/ ReturnFalse

Spec == Init /\ [][Next]_vars /\ WF_vars(Next)
-------------------------------------------------------------------------------
Statements == {"generate", "commit", "judge", "afterHalf", "afterDiff"}
Kinds == {"Overflow", "AssertionFailure", "Property violation", "Revert in fuzz function"}

ClockTyped == /\ times \in Seq(Times) /\ timeKeys = Range(times)
              /\ cursor \in Nat /\ (times # <<>> => cursor < Len(times))
              /\ time \in Nat

LoopTyped == /\ optMode \in [halfEther : BOOLEAN, diffSender : BOOLEAN,
                             snapshots : BOOLEAN, statistics : BOOLEAN]
             /\ loop \in {"corner", "test", "after", "done"}
             /\ corner \subseteq Contracts \X Callable
             /\ i \in Nat
             /\ terminate \in BOOLEAN

StackTyped == stack \in Seq(Statements)

CallTyped == /\ hint \in [contract : Contracts \cup {None}, method : Callable \cup {None},
                          args : {None}, amount : Nat \cup {None},
                          cell : Pooled \cup {None}, sender : Accounts \cup {None},
                          fallback : BOOLEAN]
             /\ tx \in [contract : Contracts \cup {None}, method : Callable \cup {None},
                        args : ArgLists \cup {None}, sender : Accounts \cup {None},
                        value : Nat]

ResultTyped == /\ lastTxRes \in [verdict : AllVerdicts, receipt : BOOLEAN]
               /\ result \subseteq Contracts \X Callable \X Kinds

StateTyped == /\ db \in StateDBs
              /\ amounts \in [Pooled -> Nat]
              /\ txCount \in Nat

CountersTyped == /\ count \in Nat
                 /\ stats \in [Contracts \X Callable -> [failed : Nat, total : Nat]]

TypeOK == /\ ClockTyped /\ LoopTyped /\ StackTyped /\ CallTyped
          /\ ResultTyped /\ StateTyped /\ CountersTyped

Fatal == {"Property violation", "Revert in fuzz function"}

\* Rec returns true when a custom property fails and fuzz() then stops, but the
\* return value of a retry is dropped (heuristics.go:164, 172).  Still no
\* transaction follows a failed custom property: every activation below the
\* outermost repeats the method of the shared Hint, which was not a property.
StopsOnFinding ==
  (\E r \in result : r[3] \in Fatal) =>
     \/ loop = "done"
     \/ loop = "after" /\ stack = <<>> /\ terminate

\* The failure of a custom property is only ever reported for a transaction
\* that was executed, although LastTxRes may describe an older transaction than
\* LastTxIn (commitTransaction's early return).
FatalFindingsExecuted ==
  [][(\E r \in result' \ result : r[3] \in Fatal) => lastTxRes.receipt]_vars

\* The first transaction of an attempt of the main loop is always executed: its
\* amount was compared with the sender's balance after GenTimestamp's revert.
FirstAttemptsExecute ==
  (loop = "after" /\ Depth = 0 /\ At("judge")) => lastTxRes.receipt

\* The step that generates the transaction of a retry of the given kind.
Retrying(kind) == /\ At("generate") /\ Depth > 0
                  /\ stack[Len(stack) - 1] = kind
                  /\ stack' # stack

\* A half-ether retry calls the same method of the same contract from the same
\* sender as the failed call, with half its ether, also deep inside a chain of
\* retries, where the shared Hint and its amount have been overwritten many times.
\* Only the arguments are drawn anew (generator.go:78-82).
HalfRetryHalves ==
  [][Retrying("afterHalf") =>
       tx' = [tx EXCEPT !.value = @ \div 2, !.args = tx'.args]]_vars

\* A retry with a sender chosen anew calls the method of the contract that the
\* failed transaction called, and never with more ether; its arguments are drawn
\* anew, and its sender may be the same account (heuristics.go:168-173).
DiffRetryKeepsMethod ==
  [][Retrying("afterDiff") => /\ tx'.contract = tx.contract
                              /\ tx'.method = tx.method
                              /\ tx'.value <= tx.value]_vars

\* How often an amount can be halved: the number of its binary digits.
Digits[n \in Nat] == IF n = 0 THEN 0 ELSE 1 + Digits[n \div 2]

\* The amounts an attempt can start from: an element of the pool, where those of
\* the accounts only shrink, or the corner cases' 1.
Starts == PoolValues \cup {1} \cup {InitBalance[a] : a \in Pooled}
Largest == CHOOSE a \in Starts : \A b \in Starts : b <= a
AmountLeft == IF hint.amount = None THEN Largest ELSE hint.amount

\* Half-ether retries have no depth limit; only the shrinking amount ends them.
\* The recursion depth stays within MaxDiffDepth plus the digits already halved
\* away from the largest amount.
RecursionBounded ==
  stack # <<>> => Depth <= MaxDiffDepth + Digits[Largest] - Digits[AmountLeft]

\* An activation only moves on, in the order of the statements of Rec.
Order == [statement \in Statements |->
            CASE statement = "generate"  -> 1
              [] statement = "commit"    -> 2
              [] statement = "judge"     -> 3
              [] statement = "afterHalf" -> 4
              [] statement = "afterDiff" -> 5]

\* The activation at depth k has returned or moved on, and its callers wait where
\* they were.
MovedAt(k, later, earlier) ==
  /\ \A j \in 1 .. k - 1 : j \in DOMAIN later /\ later[j] = earlier[j]
  /\ k \in DOMAIN later => Order[later[k]] > Order[earlier[k]]
MovesOn(later, earlier) == \E k \in DOMAIN earlier : MovedAt(k, later, earlier)

\* Every step of Rec moves its activations on, also one that starts a retry below
\* them: no stack of activations comes back, and as its depth is bounded an
\* attempt ends, with all its retries.
RecMovesOn == [][stack # <<>> => MovesOn(stack', stack)]_vars

\* Each timestamp serves SubmitPerTimestamp transactions: the counter never
\* passes it, and the clock moves only when it is full, whichever activation of
\* Rec, in whichever phase, generates the transaction (GenTimestamp, IncTxCnt).
TimestampQuota == count <= SubmitPerTimestamp
ClockWaits == [][cursor' # cursor => count = SubmitPerTimestamp]_vars

\* The statistics miss no transaction: what they record, over all methods, is
\* the transactions of some number of full timestamps and those counted since
\* the counter was last reset (AddTx, ResetCounter).
Calls == Contracts \X Callable
Recorded == UNION {{p} \X (1 .. stats[p].total) : p \in Calls}
StatsMatchCounter ==
  optMode.statistics =>
    /\ \E full \in 0 .. Cardinality(Recorded) :
         Cardinality(Recorded) = full * SubmitPerTimestamp + count
    /\ \A p \in Calls : stats[p].failed <= stats[p].total

\* The first revert gives back the ether of the deployed project, however much
\* was executed since the snapshot was taken, except that an account whose amount
\* was drawn from the pool and halved comes back with what is left of it: to the
\* last wei only without half-ether retries (SnapshotBackend, RevertBackend, Rec).
EtherOf(world) == [balance |-> world.balance, held |-> world.held]
FirstRevertRestores ==
  [][(~db.shared /\ db'.shared) =>
       /\ EtherOf(db'.live) = EtherOf(DeployedWith(amounts))
       /\ ~optMode.halfEther => EtherOf(db'.live) = EtherOf(DeployedWith(InitAmounts))]_vars

\* Every attempt of the main loop counts at least one transaction, and without
\* retries exactly one, so that the limit means what it says then; no attempt
\* follows one whose retries went past the limit.  The corner cases, tried before,
\* are not counted (fuzz, CommitTransaction).
AttemptsCounted ==
  loop = "test" => /\ i <= txCount /\ txCount <= Limit
                   /\ ~(optMode.halfEther \/ optMode.diffSender) => txCount = i

\* fuzz() comes to an end: every attempt's tree of retries is finite.
Termination == <>(loop = "done")

-------------------------------------------------------------------------------
(* The campaign the engine carries out. *)

\* What of the main loop has begun: iteration i is under way or over when `loop'
\* is behind the test, also when the loop was left by its break.
Begun == IF loop = "after" \/ (loop = "done" /\ i < Limit) THEN i + 1 ELSE i
Phase == IF loop = "corner" THEN "corner" ELSE IF loop = "done" THEN "over" ELSE "main"

Abstract == INSTANCE Campaign WITH
  Cases <- CornerCases, Findings <- Contracts \X Callable \X Kinds,
  Fatal <- Contracts \X Callable \X Fatal,
  phase <- Phase, open <- (stack # <<>>), cases <- corner, attempts <- Begun,
  reports <- result

\* fuzz() with all its retries is a campaign: each corner case once, no attempt
\* beyond the limit or after the failure of a custom property, no failure among
\* the corner cases, and an attempt that failed is over at once, although the
\* retries drop the value that says so (fuzzer.go:187-221, heuristics.go:164).
ImplementsCampaign == Abstract!CampaignSpec
-------------------------------------------------------------------------------
(* Refuted: what a comment, a flag and a message of the program say.           *)

\* backend.go:75 "input and output of last transaction": what is reported of a
\* transaction is what its own execution showed.
FindingsExecuted == [][result' # result => lastTxRes.receipt]_vars

\* snapshots.go:40 "state has been reverted"
Reverting == \/ loop = "after" /\ loop' = "test" /\ optMode.snapshots /\ Bit(i, SnapshotBit)
             \/ cursor' # cursor /\ ShouldRevert
RevertRestores == [][Reverting => EtherOf(db'.live) = EtherOf(DeployedWith(InitAmounts))]_vars
===============================================================================
