# A TLA+ development of ChainFuzz

ChainFuzz deploys a truffle project on an in-memory Ethereum chain and then
sends it random transactions until a transaction limit is reached or a custom
property (`fuzz_always_true...`) fails. It is a single-threaded Go program: its
hard parts are not races but long sequences of legal steps over shared,
mutable, cached state. A recursive retry shares one mutable `Hint`. A pool hands
out pointers to its own elements. A snapshot is restored by copying a struct. A
result record is only partly reset when a transaction cannot be executed.

All paths below are relative to the repository.

## 1. Inventory

| component | source | state it keeps | operations | depends on |
|---|---|---|---|---|
| value pools | `argpool/*pool.go`, `argpool.go` | `storage`, `storageMap`, `idx` per pool | `AddX` (lookup, add), `Next` | - |
| big integer pool and its clients | `pool.go`, `generator.go:44`, `heuristics.go:162`, `args.go` | the pool; the pointer held as `hint.Amount` | amount loop, argument draw, returned value, in-place halving | value pools, chain state |
| timestamp pool | `argpool/timestamppool.go` | sorted `storage`, `idx` | `AddTimestamp`, `NextTimestamp`, `CurrentTimestamp` | - |
| chain state | `utils/snapshots.go`, `backend.go:100` | `StateDB`, `backendSnapshot` | transaction, `SnapshotBackend`, `RevertBackend` | go-ethereum |
| fuzzing loop | `fuzzer/fuzzer.go:168` | loop counter, limit, results | corner cases, main loop, reverts, stop | Rec, snapshots |
| transaction heuristics | `utils/heuristics.go` | `OptMode`, the shared `Hint`, recursion | `GenTimestamp`, `Rec` | generation, execution, statistics |
| transaction generation | `utils/generator.go` | `Hint`, `LastTxIn` | `GenTransaction` | pools, accounts, chain state |
| transaction execution | `utils/backend.go:87` | `LastTxRes`, `TxCount` | `CommitTransaction` | chain state, trace analysis |
| statistics | `utils/statistics.go` | `statsMap`, `txCntAfterRevert` | `AddTx`, `IncTxCnt`, `ResetCounter` | - |
| trace analysis | `utils/processor.go:98` | `LastTxRes`, `OpcodeIndices`, `DeployedContracts` | `processLogs` | go-ethereum's tracer |
| deployment and configuration | `backend.go:144`, `contracts.go:82-337`, `transactions.go` | `DeployedContracts`, `ContractsList`, the replayed chain | `NewBackend`, `ReadTransactions`, `RemoveLibraries`, `ProcessConfig` | trace analysis, pools, caches |
| argument conversion | `utils/args.go` | the preloaded pools | `InitArgPool`, `ConstructArgs`, `UpdatePool` | pools |
| accounts, singletons and reset | `accounts.go`, `utils.go`, package variables of `contracts.go`, `argpool.go`, `pool.go` | caches that live as long as the process | lazy initialisation, `Reset` | - |
| metadata, command line, scripts, benchmarks | `contracts.go:73`, `fuzzer.go:40`, `build/`, `benchmarks/` | - | parsing and printing | - |

What makes each of them correct, and where that is hard:

- **pools**: the map answers for the buffer; every draw brings each value nearer,
  and only values appended behind a moving cursor put it off; the amount loop,
  which has no exit of its own, ends.
- **timestamps**: sorted; a timestamp serves 2048 transactions whatever retries
  intervene; a revert happens on reaching the latest.
- **chain state**: the snapshot is isolated from execution, but not from the
  amounts that retries halve in place; a revert restores it.
- **loop and heuristics**: no transaction follows a failed custom property
  although the retries drop the return value that says so; recursion and
  transaction count are bounded; a retry calls the method that failed, with half
  the ether or from another draw of the sender; a result belongs to the
  transaction it is reported for; the loop ends.
- **trace analysis**: every opcode is attributed to the contract that executes
  it; a verdict belongs to the shallowest depth; an overflow is real.
- **deployment**: what is fuzzed is exactly what was deployed, is no library and is
  not ignored, in every order of Go's maps; a refused transaction stops the later
  ones of its sender; the clock gets the pushed and the configured timestamps.
- **argument conversion**: an argument is a value of its type although signed and
  unsigned integers share a pool; a returned value can be passed again, unless it
  is a big integer that was halved as an amount.
- **reset**: after `Reset` nothing of the previous project is left.

The hazards, each at its line, are listed in `PROJECT.json`.

## 2. Plan

The modules are written so that TLC and TLAPS use the same definitions: parameters
are CONSTANTS with a named assumption, every operation is an action, invariants are
conjunctions of named parts, and no module declares a RECURSIVE operator.

| order | module | state |
|---|---|---|
| 1 | `FairPool`, `RingPool`: what a pool promises, and the circular buffer | modelled, refinement checked and its safety part proved |
| 2 | `BigIntPool`: the pool with the amount loop and in-place halving | modelled, checked, proved |
| 3 | `TimestampPool`, `ChainState`: the two parts the engine is built on | modelled, checked, proved |
| 4 | `FuzzEngine`: loop, heuristics, generation, execution, statistics | modelled, checked, every safety property proved |
| 5 | `TraceScan`: what `processLogs` reads off a trace | modelled, checked, proved |
| 6 | `Campaign`: what `fuzz()` promises whatever `Rec` does | modelled, the refinement checked and proved |
| 7 | `Deployment`: `NewBackend` with its caches, `ProcessConfig`, `Reset` | modelled, checked, proved |
| 8 | `Arguments`: `fillRecursively`, `updateRecursively`, `InitArgPool` | modelled, checked, proved |

Composition: `FuzzEngine` EXTENDS `TimestampPool` and `ChainState`; `BigIntPool`
EXTENDS `RingPool`; `RingPool` implements `FairPool` and `FuzzEngine` implements
`Campaign`.

Every invariant and every action property of the passing runs is proved, and so is
the safety part of both refinements; what is left is liveness (section 5).

## 3. Modules and how they correspond to the code

`PROJECT.json` maps each definition to its lines. A definition commented `Slip:`
is not a model of the code: it is a plausible wrong version of the definition
after it, kept to show that a property notices the mistake.

### FairPool, RingPool (`argpool/pool.go`, `argpool.go`)

`FairPool` is the promise: members are handed out in rounds, each once per round,
and a value offered during a round belongs to that round. `RingPool` is the code:

| TLA+ | Go |
|---|---|
| `storage`, `storageMap`, `idx` | fields of a pool; `idx` 0-based |
| `AddItem` | `ArgPool.AddX`: `Contains`, then `Add` |
| `NextItem`, `NextOfEmpty` | `Next` |
| `out` | the value returned last |

`Abstract == INSTANCE FairPool WITH members <- storageMap, pending <- Pending`
where `Pending` is what lies at and behind the cursor. `Wait` counts the draws that
come before the one that hands a value out. The typed pools (`int8pool.go` to
`stringpool.go`) are this code with another element type.

### BigIntPool (`pool.go`, `generator.go:44`, `heuristics.go:162`, `args.go`)

EXTENDS `RingPool`. The `*big.Int` pool is different because it hands out pointers
to its own elements: `amount` is the index of the cell whose pointer became
`hint.Amount`, and `HalveAmount` changes that cell but not its key in `storageMap`.
`BeginSearch` and `Draw` are the loop of `getRandomAmountFromAddress`, one draw per
step; `DrawArgument` is a draw for an argument; `AddReturned` is `UpdatePool`
storing a returned value. Single-threadedness is the guard `~searching`: nothing
but `Draw` runs while the loop does. `start` and `tries` are history variables.

### TimestampPool (`argpool/timestamppool.go`, timestamp methods of `ArgPool`)

`AddTimestamp` includes the `Sort` that follows each insertion. `NextCursor`,
`NextTime` and `ShouldRevert` are the three effects of `NextTimestamp`; the code
moves the cursor first and asks `AllPassed` afterwards, and so does the model.
`Fill` is the deployment phase, `StayCurrent` and `Advance` the fuzzing phase.
`TimeWrapsOnce` leaves out a time equal to the wall clock's: it may come from before
the pool had any timestamp, and the step from there may go either way.

### ChainState (`utils/snapshots.go`, `backend.go:100`)

Operators over a record `[live, snap, shared]` of two worlds. `SnapshotBackend`
makes new maps and new objects, whose balances still point to the same numbers.
`RevertBackend` is `*backend.StateDB = *backendSnapshot`, a struct assignment:
afterwards both hold the same maps, which is `shared`; `Write` then changes both.
`Successors` lists what an executed call can leave behind: the value moves to the
contract, which may also pay everything it holds to some account.

`NewBackend` sets a balance to the `*big.Int` of the configured account, and that
number is an element of the `*big.Int` pool too (backend.go:170, args.go:198). The
accounts for which this still holds are `tied`. `HalveAmount` is `Rsh` in `Rec` on
such an element: the balance halves with it, in the live world and in the snapshot,
wherever it is tied. Moving ether in or out replaces the number and so unties the
account (`StillTied`); taking the movement back restores the balance and not the tie
(`RolledBack`).

### FuzzEngine (`fuzzer.go:168`, `heuristics.go`, `generator.go`, `backend.go:87`, `statistics.go`)

EXTENDS `TimestampPool` and `ChainState`, whose operators its actions use; the
engine's initial states are the states `Fill` can leave.

| TLA+ | Go |
|---|---|
| `loop`, `corner`, `i`, `terminate` | the position in `fuzz()`, what its corner-case loops still have to do, its loop variable, the value `Rec` returned |
| `stack` | the activations of `Rec`; each element is the statement to execute next, `Depth` the argument `depth` |
| `hint` | the one `Hint` all activations of an attempt point to; `cell` tells whose pooled `*big.Int` its `Amount` points to, if any |
| `amounts` | what is left of the pooled `*big.Int` of each account in `Pooled` |
| `tx`, `lastTxRes` | `backend.LastTxIn` (with arguments and value), `backend.LastTxRes` |
| `txCount`, `count`, `stats`, `result` | `TxCount`, `txCntAfterRevert`, `statsMap`, `ResultsMap` |
| `CornerAttempt`, `CornersDone`, `MainAttempt`, `LimitReached`, `Break`, `Continue` | `fuzz()` |
| `Generate` | `GenTimestamp` and `GenTransaction` |
| `Commit` (`Execute`, `Reject`) | `CommitTransaction`; `Reject` is the early return after an error of `ApplyTransaction` |
| `JudgeStop`, `JudgeGoOn` | the verdict, the report, the statistics and the first retry of `Rec` |
| `HalveHint`, `HalveCell` | `hint.Amount.Rsh` of the first retry, on a number of its own or on an account's |
| `RetryDiffSender`, `ReturnFalse` | the second retry and the end of `Rec` |

The numbers 2048, 8192 and 4 of the code are the constants `SubmitPerTimestamp`,
`SnapshotBit` and `MaxDiffDepth`. `MCFuzzEngine` gives an instance.

What an executed call shows is a choice from `Verdicts`: the engine is correct or
not whatever the contracts do. The amount drawn is any affordable pool value;
`BigIntPool` shows that the loop which draws it ends. An argument list is one value,
drawn anew for every transaction: `GenTransaction` reads `hint.Args` and nothing sets
it, so that a retry has arguments of its own. A half-ether retry halves the number
`hint.Amount` points to (`HalveHint`, `HalveCell`); when it is an account's, the
pool, the live state and the snapshot change with it. Other elements of the pool are
closed under halving instead (`PoolValues`). Accounts outside `Pooled` are those
whose amount equalled a value the pool had already and was not added to it.
Signatures and nonces are left out. `EngineAssumption` demands a method of every contract; what
happens on others is in `Deployment`.

### Campaign

What is left of `fuzz()` when retries, transactions and time are hidden.
`Abstract == INSTANCE Campaign WITH ...` in `FuzzEngine`:

| Campaign | FuzzEngine |
|---|---|
| `phase` | `Phase`: the place in `fuzz()` |
| `open` | `stack # <<>>`: some activation of `Rec` exists |
| `cases` | `corner` |
| `attempts` | `Begun`: `i`, and one more while an attempt is under way or has broken the loop |
| `reports` | `result` |

An attempt of `Campaign` fails at most once and then ends; in the code the
activations below the failing one would go on, so that the refinement holds only
because a failure never happens in a retry.

### TraceScan (`utils/processor.go:98`)

The scan of the log next to the execution that writes it, one opcode per step.
`frames`, `pushed`, `outcome` are the EVM; `prev`, `callSt`, `verdict`, `covered`,
`deployed` are the variables of `processLogs`; `truth` records what really happened.
The code looks one entry ahead for the result of an arithmetic opcode; the model
looks one entry back from the following one, which is the same comparison. `Results`
are the unbounded results of the four opcodes, below 0 for a SUB that underflows: a
result is an overflow when it is no word. Two contracts can be called, and each can
call the other, itself, or create a third.

### Deployment (`backend.go:144`, `contracts.go`, `transactions.go`, `accounts.go`, `utils.go`, `fuzzer.go:163`)

A project's files are one constant record of `Metadata`. `pc` is the place in the
program: `replay`, `listing`, `configuring` are the three loops of `NewBackend`,
`start` and `deployed` lie before and after it.

| TLA+ | Go |
|---|---|
| `artifacts`, `accounts`, `fuzzingConfig` | `ABIMap` and `Libraries`, `accounts`, `fuzzingConfig`: nil or what was read first |
| `addressPool`, `timestamps` | a pool behind `GetPool`, which `Reset` keeps, and one behind the `ArgPool`, which it renews |
| `NewBackend` | `NewBackend` to its first loop, `ReadTransactions` included |
| `Execute`, `Refuse` | one turn of the replay loop: `CommitTransaction` and the two outcomes of `ApplyTransaction` |
| `Register` | the end of `processLogs`; `Compiled` is its panic |
| `FinishReplay`, `ListContract` | `InitArgPool`, `RemoveLibraries` and the loop over `DeployedContracts` |
| `BeginConfig`, `ProcessConfig` (`Apply`), `FinishConfig` | the outer loop of `ProcessConfig`, and `os.Exit` on an empty list |
| `IgnoreContractMethod`, `ignoring` | its inner loop: one ignored method, and those still to come |
| `Fuzz` | the first corner case of every contract, `GetRandomMethod` included |
| `AddAmounts`, `HalveAmount` | `AddBigInt(account.Amount)` of `InitArgPool`, and `Rsh` of `Rec` on a pooled amount |
| `Reset` | `Reset`: `ResetContractData` and `ResetArgPool` |

`ExecuteUpTo(n, success)` lets a transaction stop anywhere in its trace: what it
pushed and returned until then has been logged although the transaction fails.
`todo` is what a `range` over a map has still to visit, in any order;
`BetweenContracts` holds when the inner loop is at rest. `executed`
and `logged` are history variables. Pointers are values, with one exception:
`amountPool` remembers which account's `*big.Int` the pool holds, because `Rec`
halves it there, so that the cached accounts are not what their file says.
Accounts pay contracts only.

### Arguments (`utils/args.go`)

A pool of Go integers is the set of its values, any of which may be drawn next, since
`RingPool` shows that draws bring each of them nearer. `bigPool` is a function from
the keys of `storageMap` to the values of the elements added under them, because
`HalveAmount` (`Rsh` in `Rec`, on an element an account could pay) changes an element
and not its key; `MostEther` is the most an account can come to own. `ToPool` and `FromPool` are the conversions `int16(val.Uint())`
and `uint16(argPool.NextInt16())`; `Stored` and `StoredBig` are the cases of
`updateRecursively`, `Fill` those of `fillRecursively`, `LeafSets` the recursion
into arrays and slices. `InitPool` is the loop that preloads the bytes. `witness`
remembers some returned value.

### External code

go-ethereum is modelled from how `src/` uses it and marked external in the map: a
tracer that logs every opcode before executing it, 0xfe included; `ApplyTransaction`
failing when the sender cannot pay; `StateDB.Copy` making new maps and objects whose
balances keep pointing to the same `*big.Int`; `SetBalance` keeping the pointer it is
given, and `AddBalance`, `SubBalance` and the journal installing a new one; struct
assignment being shallow. `time.Now()` is one constant, `WallClock`.

## 4. Runs

| run | question | instance | distinct states |
|---|---|---|---|
| `value_pool` | does the buffer keep its map and the rounds of `FairPool`, and what puts a value off? | 4 values | 393 |
| `amount_search` | does the amount loop end, with an affordable amount? | values 0, 1, 2, 5; balances 0, 1, 3 | 3 733 |
| `timestamps` | is the pool sorted, does time wrap once, is the revert signalled at the latest? | 6 timestamps, every insertion order | 256 |
| `engine_retries` | do retries keep the failed method, stop, and never hide a failed property, so that `Campaign` is implemented? | flags 1, 2, 3; limit 2; depth 2; 2 argument lists | 1 063 662 |
| `engine_clock` | do clock, counters, statistics and reverts agree? | flags 0, 4, 13, 15; limit 3; 0 to 2 timestamps; depth 1 | 2 803 588 |
| `trace_scan` | does the scan agree with the execution? | 7 opcodes, depth 3, 2 called contracts, results -1 to 4 modulo 2 | 1 249 214 |
| `deployment` | is the right thing fuzzed, after one deployment and after two? | three projects, 2 deployments | 371 653 |
| `arguments` | do values survive the conversions? | integers of 1, 2 and 3 bits, 2 leaves, big integers 1 and 3 | 188 160 |

The next four find the disagreements of section 6: `stale_finding`,
`second_revert`, `false_overflow`, `reset_keeps_caches`.

Why these bounds suffice:

- **pools.** Four values allow an insertion before, at and behind the cursor in
  two successive rounds. Four values are not enough to see a value put off for
  ever, so that recurrence is stated by the step (`DrawsComeNearer`). Of the values 0, 1, 2, 5 the last is above every balance,
  and halving makes each equal to the next smaller one, so that duplicates, missing
  keys and keys without a value all occur. Both modules are also proved for any set.
- **timestamps.** Six values give an earliest, a latest and middle ones on both
  sides of the cursor; the wall clock 25 is none of them.
- **engine.** Two accounts of 3 and 1 ether, so that a retry with another sender may
  be unaffordable; Alice's 3 is an element of the pool of its own, Bob's 1 is one of
  the pool's powers of two, and these, 0 to 2, are closed under halving, as are 3
  and what is left of it; one contract
  with a payable method, a method that takes no ether and a property, so that all
  kinds of corner case exist. A quota of 2 makes the clock move in the middle of a
  tree of retries; `SnapshotBit` 1 makes a revert happen at every second iteration;
  a depth of 2 allows half-ether retries below retries with another sender. Every
  activation in the code treats its depth only by comparing it with 4. In
  `engine_retries` the property is payable, so that amounts and stopping meet, and
  two argument lists tell a retry's arguments from those of the failed call. In
  `engine_clock` flags 13 and 15 let the first revert come after a halving, flag 4
  before any.
- **trace.** The largest depth of 3 gives a callee of a callee; six opcodes
  are a call, something inside, its end, and something afterwards, twice, and a
  seventh looks at what the last one left. Two called contracts suffice to tell the
  caller from the callee. Results range from below 0 to twice the word, so that
  several operands overflow or underflow and others do not.
- **deployment.** The three projects have a library that the next one deploys as a
  contract, a transaction that creates two contracts, a contract without methods
  and one whose methods are all ignored, a contract that is unknown, a sender that
  is unknown to the first project's accounts, a gap in a sender's nonces, an
  amount above `MaxInt64`, and transactions that are affordable only if an earlier
  one failed. Two deployments show everything the first leaves to the second;
  `Reset` does the same every time. Amounts of 1 to 3 can be halved once or twice.
- **arguments.** One bit stands for `int8`, which alone is never stored; 2 and 3
  bits are wider and differ, so that a value of one width could be found out in
  the pool of another. Half of the unsigned values wrap at each width. Two leaves
  store two values in one step. Of the big integers 1 and 3 an account can pay the
  first only (`MostEther`), so that one may be halved away and the other may not.
  The three properties are proved for any widths.

Deadlock is checked in all runs. Where the program ends, `Finished` is a stutter;
`Stop` in `Deployment` is the end after a panic, an exit or `MaxRuns` deployments;
`OutOfBound` is the stutter of an execution that reached `MaxLogs`.

**Fairness.** `FuzzEngine` assumes WF(Next): the only thread keeps executing. It is
what a running process does, and it favours no branch. `BigIntPool` assumes
WF(Draw): while the loop runs nothing else does. `RingPool` and `FairPool` assume
WF(NextItem) and WF(Deliver): the client keeps asking. It is used only to show that
the fairness of `FairPool` is implemented; an idle fuzzer delivers nothing. `TimestampPool`,
`TraceScan`, `Deployment` and `Arguments` make no claim of progress and assume none;
`Campaign` is a safety specification.

### What the properties say

- `ImplementsFairPool`: between two deliveries of a value every other is delivered
  once, with insertions behind a moving cursor.
- `DrawsComeNearer`: what can put a value off. A draw hands it out or brings it one
  draw nearer, an append delays it by one. `Next` wraps at the length of the moment,
  so that a pool to which every transaction adds as many values as it draws never
  wraps: nothing in the code excludes that, and no property claims that it does.
- `SearchBounded`, `SearchTerminates`: the loop draws at most a pool's worth. The
  reason is the 0 that `InitArgPool` puts first: halving cannot raise it.
- `StopsOnFinding`: the retries drop the return value of `Rec`, which is the only
  notice of a failed property. It is still safe, because a retry repeats the method
  of the shared hint, and a property that reverted is never retried.
- `HalfRetryHalves`, `DiffRetryKeepsMethod`: the `Hint` has been overwritten by
  deeper activations when a retry uses it; it still names the method that failed and
  the ether it was sent. The arguments are not kept, and the sender of the second
  kind of retry may be the same again (section 6).
- `FirstRevertRestores`: the snapshot is not written to by what is executed after it
  was taken. An account whose pooled amount was halved comes back with what is left
  of it; without half-ether retries the revert is exact.
- `RecursionBounded`, `Termination`: half-ether retries have no depth limit; the
  recursion ends because the shared amount shrinks and never grows again.
- `RecMovesOn`: every step of `Rec` moves an activation on in the order of its
  statements or returns from it, with its callers where they were, so that no
  stack of activations comes back.
- `TimestampQuota`, `ClockWaits`, `StatsMatchCounter`, `AttemptsCounted`: the
  counters agree although transactions are generated at every depth. The limit is
  compared with `TxCount` after an attempt with all its retries; no attempt follows
  one that went past it.
- `FatalFindingsExecuted`, `FirstAttemptsExecute`: the reports that stop the fuzzer
  are about executed transactions. The weaker report of an overflow or an
  assertion failure is not (run `stale_finding`).
- `VerdictExact`, `CallCoverageExact`, `NoOverflowMissed`, `CreatedIsRegistered`: the
  scan's verdicts against the history of the execution, overflows and underflows
  alike. `CallCoverageExact` is
  about code reached by calls; see section 6 for constructors.
- `ImplementsCampaign`: every corner case is tried once, at most `--limit` attempts
  follow, a custom property fails only in an attempt of the main loop, and
  nothing is tried or reported after it.
- `TargetsExact`: the lists that loops over maps, deletions by swapping and
  ignored names leave are the set one would compute from the files and from what
  the replay saw, each element once.
- `PanicsExplained`: which of the panics in lookups can happen, and on what
  projects.
- `ReplayIsPrefix`: the dropped error of `CommitTransaction` costs the rest of a
  sender's transactions and no other; no contract gets the address of another.
- `TimestampsExact`: which timestamps the clock starts with.
- `ArgsFit`, `ReturnedRecurs`: the conversions into a pool and out of it fit
  together for both signs, and 8 bit values, never stored, recur all the same. A big
  integer that an account can pay may be halved away, its key staying behind so that
  it is not stored again; those no account can pay do recur.

## 5. Proofs

Eight modules hold the theorems, for every value of the constants under the named
assumptions of the modules they extend: `RingPoolProofs` (`ItemsAssumption`),
`BigIntPoolProofs` (with `ValuesAssumption`), `TimestampPoolProofs`
(`TimesAssumption`), `FuzzEngineProofs` and `CampaignProofs` (with
`EngineAssumption`), `TraceScanProofs` (`TraceAssumption`), `DeploymentProofs`
(`ProjectsAssumption`, `RunsAssumption`, `NoneAssumption`), `ArgumentsProofs`
(`WidthsAssumption`, `ValuesAssumption`). TLC evaluates these on every run. They say
that nil is none of the values it is told apart from, that a project's files have
their format, and that the pool of amounts is finite.

- **RingPool.** `BufferInv` is `TypeOK` with the map equal to the range of the
  buffer, the buffer injective, and nothing delivered while it is empty. The last
  part is what makes `NextOfEmpty` a stutter of `FairPool`. `RoundsImplemented`
  shows each step to be a step or a stutter of `FairPool`: the argument is that
  removing the cell under the cursor from `Pending` removes its value, as no
  other cell holds it. `DrawsAlwaysComeNearer` uses the same fact: the position of a
  value is its only one, and an append does not move it.
- **BigIntPool.** `SearchBounded` is not inductive: nothing in it says where the
  cursor is. `SearchInv` adds that cell 1 holds 0 (halving keeps it, appending does
  not touch it) and that the loop's cursor either has not wrapped, with `tries` its
  distance from `start`, or has wrapped exactly to the first cell, where it stops.
- **TimestampPool.** `SortedSeq` is a choice, so that the theorems rest on its
  existence: `IncreasingCount` and `InsertedIncreases` show that inserting a new
  timestamp at its place gives an increasing sequence of the enlarged set.
  `ClockInv` adds to the types that a time other than the wall clock's is the
  element at the cursor. Time runs backwards only
  when the cursor wraps, which is the step after `RevertAtLatest`.
- **FuzzEngine.** `EngineInv` strengthens `StopsOnFinding` by what an activation may
  rely on: `CallersWait` (all but the top activation wait for a retry), `HintKept`
  (once a transaction is generated the hint names the same method and its amount has
  not grown), `HalfReady` (what the half-ether branch prepared is still there when
  the retry is generated), `RetriedHarmless` and `CornersHarmless` (what is retried
  or tried first is no property), `QuotaKept` (a transaction under way has its place
  in the quota). `StopsOnFinding` needs the middle ones: a finding in a nested
  activation would contradict `RetriedHarmless`. `FirstAttemptsExecute` needs, on
  top, `FirstAffordable`: the amount was compared with the balance after the revert
  inside `GenTimestamp`, and nothing writes between generation and execution.
  Three more invariants stand on `EngineInv`. `SnapshotKept`, for
  `FirstRevertRestores`: as long as the maps are not shared, the snapshot is the
  deployed world with the account amounts as they are now, every one still tied to
  it, and without half-ether retries these are the configured ones (`AmountsKept`).
  `RetryInv`, for `RecursionBounded`: the amount never exceeds the largest one, as
  the amounts of accounts only shrink, so that a retry with another sender, whose depth is limited, leaves
  room for as many halvings as the amount has digits; a half-ether retry takes one
  of them. `StatsInv`, for `StatsMatchCounter`: what is recorded is a finite set to
  which `AddTx` adds exactly one element, and a reset turns a full counter into
  one more full timestamp.
- **Why an attempt ends.** `RecAlwaysMovesOn` shows each step of `Rec` to move its
  stack on, `StacksStayBounded` bounds the stacks' length by `RecursionBounded`, and
  `SomeStackIsFinal` shows that among any such stacks some has no other that has
  moved on from it: the order is well-founded (`SomeStackLast` selects, depth by
  depth, the activations closest to their end). That is `Termination` without the
  fairness.
- **Digits.** `Digits` is a recursive function, for which the definition alone gives
  nothing: `DigitsDefined` proves that its equation has a solution. `LeastNat` (a set
  of naturals has a least element) takes the place of induction: approximations on
  `0 .. n` are unique and exist for every `n`, and their diagonal is the solution.
  `DigitsMonotone` and `LargestNat` are proved in the same way.
- **Campaign.** `CampaignImplemented` is the whole refinement, `Spec => Abstract!CampaignSpec`.
  Each step of the engine is mapped under `EngineInv` and `WithinLimit`, which says
  that an attempt has begun only below the limit. The decisive case is a failed
  property: `RetriedHarmless` and `CornersHarmless` exclude it in retries and corner
  cases, so that it empties the stack as `Fail` demands. `AttemptsCounted` is not
  inductive, as the loop counter and the transaction counter move in different
  steps: `CountInv` distinguishes whether the first transaction of the attempt
  under way is still to be committed (`FirstPending`), and `Continue` is the one step
  to the next attempt, behind the comparison with the limit.
- **TraceScan.** The scan is one entry behind the execution, so that its stack and
  the frames differ by the call or return it has not read: `Expected(i)` is the
  address the scan will have for frame `i` then, and `StackInv` says that it is the
  right one. `CallCoverageExact` follows, as an opcode is attributed with the stack
  that has caught up. `VerdictInv` says that a running or successful transaction has
  shown no REVERT of depth 1, `OverflowInv` that an overflow has been reported or its
  result is the next entry's top, which differs from what was expected because a word
  lies in `0 .. Word - 1` and the expected result does not, on either side.
- **Deployment.** `ReplayIsPrefix` needs to know why a nonce is what it is:
  `ReplayInv` adds that every nonce below the next one of an account was used by an
  executed transaction of that account (`NoncesUsed`). `TimestampsExact` speaks of
  the end only; `ClockInv` says what the timestamps are at each place of the
  program, in the middle of the configuration loop too. `TargetsExact` and
  `PanicsExplained` speak of the end as well: `TargetsInv` says, for each of the three
  loops, what the lists hold for the contracts already visited. `DeployedContracts`
  has exactly the contracts found so far (`WhileReplaying`); without the libraries,
  each visited contract has its methods and `ContractsList` has those with any
  (`WhileListing`); and each keeps its methods but those already ignored, in the
  middle of the inner loop too (`WhileConfiguring`). Deletions swap the last
  element in, so that `Deleted` and `OrderLists` speak of a list as a set without
  repetitions. The lookups that may panic need `SourcesInv`: which project each cache
  was read from. `DeploymentInv` joins all of this with the types.
- **Arguments.** `ReturnedRecurs` rests on two facts about pools: the conversions are
  inverse to each other on the values of a type, and the bytes preloaded into the
  narrowest pool are all of its values (`BytesPreloaded`). For big integers it is that
  an element no account can pay still has the value of its key. `IInv` is these with
  the types of the pools.

Only model-checked: `SearchTerminates` and `Termination`, as
liveness under fairness is beyond the prover, and with them the fairness half of
`ImplementsFairPool`. What their arguments count is proved: `SearchBounded` bounds
the draws of a search, and the theorems above the steps of an attempt; the loops of
`fuzz()` around them count `i` up to the limit and take corner cases away.

## 6. Where code and text disagree

Each is a run with a counterexample:

| run | the program says | what happens |
|---|---|---|
| `stale_finding` | backend.go:75, input and output of the last transaction | a transaction that cannot be executed leaves the verdict of an earlier one in place, and `Rec` reports it |
| `second_revert` | snapshots.go:40, the state has been reverted | after the first revert the snapshot shares its maps with the live state |
| `false_overflow` | processor.go:148, after out-of-gas there is no next entry | inside a call the next entry is the caller's, and its 0 is taken for the result |
| `reset_keeps_caches` | fuzzer.go:161, resets all global variables that are used for caching | the accounts, the configuration and the pools behind `GetPool` survive: the second project is deployed from the first one's accounts, whose amounts retries may have halved (args.go:198, heuristics.go:162) |

Seen while modelling, without a run:

- A retry is to repeat the failed transaction (heuristics.go:45, 47), but `hint.Args`
  is read (generator.go:78) and never set (generator.go:105-108): its arguments are
  drawn anew, so that it may fail or succeed for another reason.
- The retry with a "different sender" (heuristics.go:47) draws from all accounts and
  may draw the same one (heuristics.go:171).
- An account's `*big.Int` is a pool element and a balance of both the live state and
  the snapshot (args.go:198, backend.go:170, `StateDB.Copy`). Halving it as an amount
  (heuristics.go:162) changes all of them: with half-ether retries not even the first
  revert need restore the deployed balances.
- Halving an amount in place changes a pool's element and not its key (pool.go:36): a
  big integer a contract returned is lost in this way and not stored when it is
  returned again.
- `Next` wraps at the length of the moment (pool.go:50): while values are appended as
  fast as they are drawn, the values before the cursor are not drawn.
- `--limit` is "a number of transactions" (fuzzer.go:63), but it is compared after an
  attempt with all its retries (fuzzer.go:211); and the comment that it is
  increased by the deployment's transactions (fuzzer.go:203) precedes a counter that
  was just set to 0.
- A RETURN with creation code in memory registers an address that has no code
  (processor.go:200).
- A property's output is judged by its last byte, so the word 257 passes for 1
  (heuristics.go:124).
- The opcodes of a constructor run by a contract are attributed to the memory offset
  second on the stack of CREATE (processor.go:184), which is why `CallCoverageExact`
  excludes constructors.
- A `bool` argument is always false (args.go:68).
- An amount that does not fit an int64 becomes 0 (transactions.go:77).
- `Used` of an account is set and never read (transactions.go:98).
- `DeployedBytecodes` is shadowed, so that it is never cached (contracts.go:86).
- The expected result of EXP is computed without a modulus (processor.go:63).
- The loop of `build/extract.js:18` has no braces around its body.

## 7. Not modelled

- Input, output and formatting: parsing of ABIs, bytecode and swarm hashes, the
  command line, the profiles, `GetStats`, `SaveJson`, the printed reports, logging.
- The opcode count of the coverage report (`GetOpcodeIndices`): a disassembly by a
  library of a string cut by position.
- `build/` scripts, container images and the example projects in `benchmarks/`.
- In `TraceScan`: memory, storage and gas beyond what the scan looks at; its calls of
  `AddTimestamp` and `UpdatePool` are `Fill` in `TimestampPool` and `AddReturned` in
  `BigIntPool`.
- In `Arguments`: addresses, strings and bytes32, which pass unconverted; the order
  in which leaves are drawn; big integers below 0.
- In `Deployment`: gas, the bytecode, and what fuzzing does to balances.
