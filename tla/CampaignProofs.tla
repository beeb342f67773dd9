----------------------------- MODULE CampaignProofs -----------------------------
(***************************************************************************)
(* The engine carries out a campaign (module Campaign), for any contracts,  *)
(* methods, verdicts, flags and limits: each of its steps is a step of the  *)
(* campaign or leaves it alone.                                             *)
(***************************************************************************)
EXTENDS FuzzEngineProofs

\* The main loop stays within the limit, and its variable counts from 0.
WithinLimit == /\ loop = "corner" => i = 0
               /\ loop = "test" => i <= Limit
               /\ loop = "after" => i < Limit

LEMMA LimitStep == EngineInv /\ WithinLimit /\ [Next]_vars => WithinLimit'
<1> SUFFICES ASSUME EngineInv, WithinLimit, [Next]_vars PROVE WithinLimit'
  OBVIOUS
<1> USE EngineAssumption
<1>1. i \in Nat
  BY DEF EngineInv, TypeOK, LoopTyped
<1>2. CASE CornersDone \/ MainAttempt \/ LimitReached \/ Break
  BY <1>1, <1>2 DEF CornersDone, MainAttempt, LimitReached, Break, WithinLimit
<1>3. CASE Continue
  BY <1>1, <1>3 DEF Continue, WithinLimit
<1>4. CASE CornerAttempt \/ Generate \/ Commit \/ JudgeStop \/ JudgeGoOn
           \/ RetryDiffSender \/ ReturnFalse \/ Finished \/ UNCHANGED vars
  <2>1. UNCHANGED <<loop, i>>
    BY <1>4 DEF CornerAttempt, Generate, Commit, JudgeStop, JudgeGoOn, RetryDiffSender,
       ReturnFalse, Finished, vars
  <2> QED
    BY <2>1 DEF WithinLimit
<1> QED
  BY <1>2, <1>3, <1>4 DEF Next

LEMMA LimitInvariant == Spec => []WithinLimit
<1>1. Init => WithinLimit
  BY DEF Init, WithinLimit
<1> QED
  BY <1>1, EngineInvariant, LimitStep, PTL DEF Spec
-------------------------------------------------------------------------------
(* The steps of fuzz(). *)

AbstractFindings == Contracts \X Callable \X Kinds
AbstractFatal == Contracts \X Callable \X Fatal

LEMMA NotFailed ==
  ASSUME EngineInv, ~ \E r \in result : r[3] \in Fatal
  PROVE  ~Abstract!Failed
BY DEF Abstract!Failed

\* An attempt of either phase begins.
LEMMA AttemptBegins ==
  ASSUME EngineInv, WithinLimit, CornerAttempt \/ MainAttempt
  PROVE  Abstract!CampaignNext
<1> USE EngineAssumption
<1>1. i \in Nat /\ stack = <<>> /\ stack' # <<>>
  BY DEF EngineInv, TypeOK, LoopTyped, BetweenAttempts, CornerAttempt, MainAttempt, Attempt
<1>2. CASE CornerAttempt
  <2>1. PICK p \in NextCorner : corner' = corner \ {p}
    BY <1>2 DEF CornerAttempt
  <2>2. p \in corner
    BY DEF NextCorner
  <2>3. UNCHANGED <<loop, i, result>> /\ loop = "corner"
    BY <1>2 DEF CornerAttempt, engineVars
  <2>4. Abstract!TryCorner
    BY <1>1, <2>1, <2>2, <2>3 DEF Abstract!TryCorner, Phase, Begun
  <2> QED
    BY <2>4 DEF Abstract!CampaignNext
<1>3. CASE MainAttempt
  <2>1. /\ loop = "test" /\ i < Limit /\ loop' = "after"
        /\ UNCHANGED <<i, corner, result>>
    BY <1>3 DEF MainAttempt, engineVars
  <2>2. ~ \E r \in result : r[3] \in Fatal
    BY <2>1 DEF EngineInv, StopsOnFinding
  <2>3. Begun = i /\ Begun' = i + 1 /\ Phase = "main" /\ Phase' = "main"
    BY <2>1 DEF Begun, Phase
  <2>4. Abstract!Try
    BY <1>1, <2>1, <2>2, <2>3, NotFailed DEF Abstract!Try
  <2> QED
    BY <2>4 DEF Abstract!CampaignNext
<1> QED
  BY <1>2, <1>3

\* From one attempt to the next, or to the end.
LEMMA BetweenMaps ==
  ASSUME EngineInv, WithinLimit, CornersDone \/ LimitReached \/ Break \/ Continue
  PROVE  Abstract!CampaignNext \/ UNCHANGED Abstract!campaignVars
<1> USE EngineAssumption
<1>1. /\ i \in Nat /\ stack = <<>> /\ stack' = <<>>
      /\ UNCHANGED <<corner, result>>
  BY DEF EngineInv, TypeOK, LoopTyped, BetweenAttempts, CornersDone, LimitReached, Break,
     Continue, engineVars
<1>2. CASE CornersDone
  <2>1. Abstract!BeginMain
    BY <1>1, <1>2 DEF CornersDone, WithinLimit, Abstract!BeginMain, Phase, Begun
  <2> QED
    BY <2>1 DEF Abstract!CampaignNext
<1>3. CASE LimitReached \/ Break
  <2>1. loop \in {"test", "after"} /\ loop' = "done" /\ i' = i
    BY <1>3 DEF LimitReached, Break
  <2>2. loop = "test" => i >= Limit
    BY <1>3 DEF LimitReached, Break
  <2>3. Begun' = Begun
    BY <1>1, <2>1, <2>2 DEF WithinLimit, Begun
  <2>4. Abstract!Finish
    BY <1>1, <2>1, <2>3 DEF Abstract!Finish, Phase
  <2> QED
    BY <2>4 DEF Abstract!CampaignNext
<1>4. CASE Continue
  <2>1. loop = "after" /\ loop' = "test" /\ i' = i + 1
    BY <1>4 DEF Continue
  <2>2. Begun' = Begun /\ Phase' = Phase
    BY <1>1, <2>1 DEF Begun, Phase
  <2> QED
    BY <1>1, <2>2 DEF Abstract!campaignVars
<1> QED
  BY <1>2, <1>3, <1>4
-------------------------------------------------------------------------------
(* The steps of Rec. *)

\* A step of an activation changes neither the loop nor the corner cases.
LEMMA InsideAttempt ==
  ASSUME EngineInv, Generate \/ Commit \/ JudgeStop \/ JudgeGoOn \/ RetryDiffSender \/ ReturnFalse
  PROVE  /\ stack # <<>>
         /\ UNCHANGED <<corner, Begun, Phase>>
         /\ loop \in {"corner", "after"}
         /\ ~Abstract!Failed
<1>1. stack # <<>> /\ UNCHANGED <<corner, loop, i>>
  BY DEF Generate, Commit, JudgeStop, JudgeGoOn, RetryDiffSender, ReturnFalse, At
<1>2. loop \in {"corner", "after"} /\ ~ \E r \in result : r[3] \in Fatal
  BY <1>1, RecRunning
<1> QED
  BY <1>1, <1>2, NotFailed DEF Begun, Phase

\* What the first retries found is reported whether or not the attempt goes on.
LEMMA GoingOnReports ==
  ASSUME EngineInv, JudgeGoOn \/ RetryDiffSender \/ ReturnFalse
  PROVE  Abstract!CampaignNext
<1>1. /\ stack # <<>> /\ UNCHANGED <<corner, Begun, Phase>> /\ ~Abstract!Failed
  BY InsideAttempt
<1>2. PICK R \in SUBSET (AbstractFindings \ AbstractFatal) : result' = result \cup R
  <2>1. CASE JudgeGoOn
    <3>1. /\ At("judge") /\ ~MustStop(lastTxRes.verdict)
          /\ result' = result \cup Found(lastTxRes.verdict)
      BY <2>1 DEF JudgeGoOn
    <3>2. tx \in FullTx /\ lastTxRes.verdict \in AllVerdicts
      BY <3>1 DEF At, EngineInv, HintKept, Committed, TypeOK, ResultTyped
    <3>3. /\ Found(lastTxRes.verdict) \subseteq Contracts \X Callable \X Kinds
          /\ ~ \E r \in Found(lastTxRes.verdict) : r[3] \in Fatal
      BY <3>1, <3>2, FoundFacts
    <3>4. Found(lastTxRes.verdict) \in SUBSET (AbstractFindings \ AbstractFatal)
      BY <3>3 DEF AbstractFindings, AbstractFatal
    <3> QED
      BY <3>1, <3>4
  <2>2. CASE RetryDiffSender \/ ReturnFalse
    <3>1. result' = result \cup {}
      BY <2>2 DEF RetryDiffSender, ReturnFalse, engineVars
    <3> QED
      BY <3>1
  <2> QED
    BY <2>1, <2>2
<1>3. Abstract!Report
  BY <1>1, <1>2 DEF Abstract!Report, AbstractFindings, AbstractFatal
<1> QED
  BY <1>3 DEF Abstract!CampaignNext

\* A custom property fails in the outermost activation of an attempt of the main
\* loop: the retries repeat calls that are no custom property.
LEMMA StoppingFails ==
  ASSUME EngineInv, JudgeStop
  PROVE  Abstract!CampaignNext
<1>1. /\ stack # <<>> /\ UNCHANGED <<corner, Begun, Phase>> /\ ~Abstract!Failed
      /\ loop \in {"corner", "after"}
  BY InsideAttempt
<1>2. /\ Top = "judge" /\ MustStop(lastTxRes.verdict)
      /\ result' = result \cup Found(lastTxRes.verdict)
      /\ stack' = Pop
  BY DEF JudgeStop, At, Return
<1>3. Committed /\ tx \in FullTx /\ IsFuzz(tx.method) /\ lastTxRes.verdict \in AllVerdicts
  BY <1>1, <1>2 DEF EngineInv, HintKept, Committed, MustStop, TypeOK, ResultTyped
<1>4. loop = "after" /\ stack' = <<>>
  <2>1. ~(Len(stack) > 1) /\ loop # "corner"
    BY <1>1, <1>2, <1>3 DEF EngineInv, RetriedHarmless, CornersHarmless
  <2>2. Len(stack) = 1
    BY <1>1, <2>1, OneActivation, Zenon
  <2> QED
    BY <1>1, <1>2, <2>1, <2>2, PopStep
<1>5. \E r \in Found(lastTxRes.verdict) : r[3] \in Fatal
  <2>1. /\ lastTxRes.verdict.reverted \in BOOLEAN
        /\ lastTxRes.verdict.reverted \/ lastTxRes.verdict.output = "otherWord"
    BY <1>2, <1>3 DEF MustStop, AllVerdicts
  <2> DEFINE kind == IF lastTxRes.verdict.reverted THEN "Revert in fuzz function"
                     ELSE "Property violation"
  <2>2. <<tx.contract, tx.method, kind>> \in Found(lastTxRes.verdict)
    BY <1>3, <2>1 DEF Found
  <2> QED
    BY <2>2 DEF Fatal
<1>6. Found(lastTxRes.verdict) \subseteq AbstractFindings
  BY <1>3, FoundFacts DEF AbstractFindings
<1>7. Found(lastTxRes.verdict) \cap AbstractFatal # {}
  BY <1>5, <1>6 DEF AbstractFindings, AbstractFatal
<1>8. Phase = "main"
  BY <1>4 DEF Phase
<1>9. Abstract!Fail
  BY <1>1, <1>2, <1>4, <1>6, <1>7, <1>8 DEF Abstract!Fail, AbstractFindings, AbstractFatal
<1> QED
  BY <1>9 DEF Abstract!CampaignNext
-------------------------------------------------------------------------------
\* fuzz() with all its retries is a campaign: each corner case once, at most
\* Limit attempts, none after the failure of a custom property, although the
\* retries drop the value that reports it (fuzzer.go:187-221, heuristics.go:164).
THEOREM CampaignImplemented == Spec => ImplementsCampaign
<1>1. Init => Abstract!CampaignInit
  BY DEF Init, Abstract!CampaignInit, Phase, Begun
<1>2. EngineInv /\ WithinLimit /\ [Next]_vars
        => [Abstract!CampaignNext]_(Abstract!campaignVars)
  <2> SUFFICES ASSUME EngineInv, WithinLimit, [Next]_vars
               PROVE  Abstract!CampaignNext \/ UNCHANGED Abstract!campaignVars
    OBVIOUS
  <2>1. CASE CornerAttempt \/ MainAttempt
    BY <2>1, AttemptBegins
  <2>2. CASE CornersDone \/ LimitReached \/ Break \/ Continue
    BY <2>2, BetweenMaps
  <2>3. CASE Generate \/ Commit
    <3>1. stack # <<>> /\ UNCHANGED <<corner, Begun, Phase>>
      BY <2>3, InsideAttempt
    <3>2. stack' # <<>> /\ result' = result
      BY <2>3, <3>1, GotoStep DEF Generate, Commit, Statements
    <3> QED
      BY <3>1, <3>2 DEF Abstract!campaignVars
  <2>4. CASE JudgeStop
    BY <2>4, StoppingFails
  <2>5. CASE JudgeGoOn \/ RetryDiffSender \/ ReturnFalse
    BY <2>5, GoingOnReports
  <2>6. CASE Finished \/ UNCHANGED vars
    BY <2>6 DEF Finished, vars, Abstract!campaignVars, Begun, Phase
  <2> QED
    BY <2>1, <2>2, <2>3, <2>4, <2>5, <2>6 DEF Next
<1> QED
  BY <1>1, <1>2, EngineInvariant, LimitInvariant, PTL
  DEF Spec, ImplementsCampaign, Abstract!CampaignSpec
-------------------------------------------------------------------------------
(* The transactions of the main loop. *)

Retries == optMode.halfEther \/ optMode.diffSender
Counts(n) == n <= txCount /\ (~Retries => txCount = n)

\* The attempt under way has still to commit its first transaction.
FirstPending == stack # <<>> /\ Len(stack) = 1 /\ Top \in {"generate", "commit"}

CountInv ==
  /\ loop = "test" => Counts(i) /\ txCount <= Limit
  /\ loop = "after" => Counts(IF FirstPending THEN i ELSE i + 1)
  /\ ~Retries /\ stack # <<>> => Len(stack) = 1

LEMMA CountStep == EngineInv /\ CountInv /\ [Next]_vars => CountInv'
<1> SUFFICES ASSUME EngineInv, CountInv, [Next]_vars PROVE CountInv'
  OBVIOUS
<1>1. i \in Nat /\ txCount \in Nat /\ Len(<<"generate">>) = 1
  BY DEF EngineInv, TypeOK, LoopTyped, StateTyped
<1>2. CASE CornersDone
  BY <1>2, EngineAssumption DEF CornersDone, engineVars, CountInv, Counts, Retries
<1>3. CASE CornerAttempt
  BY <1>1, <1>3 DEF CornerAttempt, Attempt, engineVars, CountInv, Counts
<1>4. CASE MainAttempt
  <2>1. /\ loop = "test" /\ stack' = <<"generate">> /\ loop' = "after"
        /\ UNCHANGED <<i, txCount, optMode>>
    BY <1>4 DEF MainAttempt, Attempt, engineVars
  <2>2. FirstPending'
    BY <1>1, <2>1 DEF FirstPending, Top
  <2> QED
    BY <1>1, <2>1, <2>2 DEF CountInv, Counts, Retries
<1>5. CASE LimitReached \/ Break
  BY <1>5 DEF LimitReached, Break, engineVars, CountInv, Retries
<1>6. CASE Continue
  <2>1. ~FirstPending
    BY <1>6 DEF Continue, FirstPending
  <2> QED
    BY <1>6, <2>1 DEF Continue, engineVars, CountInv, Counts, Retries
<1>7. CASE Generate
  <2>1. /\ stack # <<>> /\ Top = "generate" /\ stack' = Goto("commit")
        /\ UNCHANGED <<loop, i, txCount, optMode>>
    BY <1>7 DEF Generate, At
  <2>2. stack' # <<>> /\ Len(stack') = Len(stack) /\ Top' = "commit"
    BY <2>1, GotoStep DEF Statements
  <2>3. FirstPending' = FirstPending
    BY <2>1, <2>2 DEF FirstPending
  <2> QED
    BY <2>1, <2>2, <2>3 DEF CountInv, Counts, Retries
<1>8. CASE Commit
  <2>1. /\ stack # <<>> /\ Top = "commit" /\ stack' = Goto("judge")
        /\ UNCHANGED <<loop, i, optMode>> /\ txCount' = txCount + 1
    BY <1>8 DEF Commit, At
  <2>2. stack' # <<>> /\ Len(stack') = Len(stack) /\ Top' = "judge"
    BY <2>1, GotoStep DEF Statements
  <2>3. ~FirstPending' /\ loop # "test"
    BY <2>1, <2>2, RecRunning DEF FirstPending
  <2>4. ~FirstPending => Retries
    BY <2>1 DEF CountInv, FirstPending
  <2>5. loop = "after" => Counts(i + 1)'
    <3>1. CASE FirstPending
      BY <1>1, <2>1, <3>1 DEF CountInv, Counts, Retries
    <3>2. CASE ~FirstPending
      BY <1>1, <2>1, <2>4, <3>2 DEF CountInv, Counts, Retries
    <3> QED
      BY <3>1, <3>2
  <2>6. (~Retries /\ stack # <<>> => Len(stack) = 1)'
    BY <2>1, <2>2 DEF CountInv, Retries
  <2> QED
    BY <2>1, <2>3, <2>5, <2>6 DEF CountInv
<1>9. CASE JudgeStop \/ JudgeGoOn \/ RetryDiffSender \/ ReturnFalse
  <2>1. /\ stack # <<>> /\ Top \notin {"generate", "commit"}
        /\ UNCHANGED <<loop, i, txCount, optMode>>
    BY <1>9 DEF JudgeStop, JudgeGoOn, RetryDiffSender, ReturnFalse, At, engineVars
  <2>2. \/ stack' = Pop
        \/ stack' = Goto("afterHalf")
        \/ Retries /\ \E x \in After : stack' = Append(Goto(x), "generate")
    BY <1>9 DEF JudgeStop, JudgeGoOn, RetryHalfEther, RetryDiffSender, ReturnFalse, Return,
       MayRetryDiffSender, Retries, After
  <2>3. ~FirstPending /\ ~FirstPending' /\ (~Retries /\ stack' # <<>> => Len(stack') = 1)
    <3>1. CASE stack' = Pop
      BY <2>1, <3>1, PopStep DEF FirstPending, After, CountInv
    <3>2. CASE stack' = Goto("afterHalf")
      <4>1. Len(stack') = Len(stack) /\ Top' = "afterHalf"
        BY <2>1, <3>2, GotoStep DEF Statements
      <4> QED
        BY <2>1, <4>1 DEF FirstPending, CountInv
    <3>3. ASSUME Retries, NEW x \in After, stack' = Append(Goto(x), "generate")
          PROVE  ~FirstPending /\ ~FirstPending'
      <4>1. Len(stack') > 1 /\ Len(stack') \in Nat
        BY <2>1, <3>3, PushStep, LenProperties DEF StackTyped
      <4>2. \A n \in Nat : n > 1 => n # 1
        OBVIOUS
      <4>3. Len(stack') # 1
        BY <4>1, <4>2, Zenon
      <4> QED
        BY <2>1, <4>3, Zenon DEF FirstPending
    <3> QED
      BY <2>2, <3>1, <3>2, <3>3
  <2>4. loop # "test"
    BY <2>1, RecRunning
  <2> QED
    BY <2>1, <2>3, <2>4 DEF CountInv, Counts, Retries
<1>10. CASE Finished \/ UNCHANGED vars
  <2>1. UNCHANGED <<loop, i, txCount, optMode, stack>>
    BY <1>10 DEF Finished, vars
  <2> QED
    BY <2>1 DEF CountInv, Counts, Retries, FirstPending, Top
<1> QED
  BY <1>2, <1>3, <1>4, <1>5, <1>6, <1>7, <1>8, <1>9, <1>10 DEF Next

\* Every attempt of the main loop counts at least one transaction, and without
\* retries exactly one (fuzz, CommitTransaction): then the limit on the attempts
\* is the limit on the transactions that --limit is documented to be.  With retries
\* an attempt can pass the limit, but no attempt follows it (fuzzer.go:211).
THEOREM AttemptsAreCounted == Spec => []AttemptsCounted
<1>1. Init => CountInv
  BY DEF Init, CountInv
<1>2. CountInv => AttemptsCounted
  BY DEF CountInv, Counts, Retries, AttemptsCounted
<1> QED
  BY <1>1, <1>2, EngineInvariant, CountStep, PTL DEF Spec
===============================================================================
