------------------------------ MODULE Deployment ------------------------------
(***************************************************************************)
(* How a project becomes something to fuzz: NewBackend of utils/backend.go  *)
(* reads the project's files through caches that live as long as the        *)
(* process, replays the recorded deployment, drops libraries, lists the     *)
(* contracts that were found and applies the configuration; fuzz() and      *)
(* Reset of fuzzer/fuzzer.go follow.                                        *)
(*                                                                          *)
(* Simplifications.  A project's files are one constant record.  Of a       *)
(* transaction's execution its trace matters: the words it pushes and the   *)
(* contracts whose code it returns (TraceScan derives these from a log).    *)
(* `value' stands for all the ether a transaction needs.  Accounts pay      *)
(* contracts and are not paid.  What fuzzing does to the chain is left out: *)
(* of it only the accounts survive.  Go's map iteration is an arbitrary     *)
(* order.                                                                   *)
(***************************************************************************)
EXTENDS Integers, FiniteSets, SequencesExt

CONSTANTS
  Metadata,      \* project -> what the files its metadata file names contain
  Migrations,    \* truffle's own contract
  None,          \* a cache that is nil
  EarliestTime, LatestTime,
  MaxInt64,      \* the largest amount strconv.ParseInt reads
  MaxRuns        \* bound: how often NewBackend is called

VARIABLES
  pc,                \* where the program is, see Places; "fuzzed" once fuzz() runs
  reason,            \* why it panicked
  metadata,          \* the project NewBackend was called for
  artifacts,         \* ABIMap and Libraries of contracts.go
  accounts,          \* the accounts of accounts.go
  fuzzingConfig,     \* the configuration of utils.go
  addressPool,       \* GetPool("Address")
  amountPool,        \* GetPool("BigInt"): key -> the account whose *big.Int was added
  timestamps,        \* the timestamps of the ArgPool
  balance, nonce,    \* the StateDB
  position,          \* the transaction to replay next
  DeployedContracts, ContractsList,
  todo,              \* what the range loop of this place has still to visit
  ignoring,          \* the contract of the inner loop and the methods it has still to ignore
  runs,              \* calls of NewBackend
  executed,          \* history: the transactions that were not refused
  logged             \* history: the words seen and the contracts found by them
caches == <<artifacts, accounts, fuzzingConfig>>
pools == <<addressPool, amountPool>>
chain == <<balance, nonce, position, executed, logged>>
targets == <<DeployedContracts, ContractsList, todo, ignoring>>
vars == <<pc, reason, metadata, caches, pools, timestamps, chain, targets, runs>>

\* MetadataJSON and the files it points to: the compiled contracts, the recorded
\* transactions, the accounts and the configuration.
Project(p) == Metadata[p]
Words == Nat
Opcodes == {"PUSH", "RETURN"}
Panics == {"no account", "no contract with hash", "no ABI", "no method"}

ASSUME ProjectsAssumption ==
  \A p \in DOMAIN Metadata :
    LET m == Project(p) IN
    /\ DOMAIN m = {"contracts", "transactions", "accounts", "config"}
    /\ \A c \in DOMAIN m.contracts : /\ m.contracts[c].library \in BOOLEAN
                                     /\ IsFiniteSet(m.contracts[c].methods)
    /\ \A a \in DOMAIN m.accounts : m.accounts[a] \in Nat
    /\ m.transactions \in Seq(Range(m.transactions))
    /\ \A k \in DOMAIN m.transactions :
         LET tx == m.transactions[k] IN
         /\ tx.nonce \in Nat /\ tx.value \in Nat
         /\ tx.trace \in Seq(Range(tx.trace))
         /\ \A e \in Range(tx.trace) : /\ e[1] \in Opcodes
                                       /\ e[1] = "PUSH" => e[2] \in Words
    /\ \A c \in DOMAIN m.config : /\ m.config[c].ignoreAll \in BOOLEAN
                                  /\ m.config[c].ignored \in Seq(Range(m.config[c].ignored))
                                  /\ m.config[c].timestamps \subseteq Words
ASSUME RunsAssumption == MaxRuns \in Nat /\ MaxInt64 \in Nat
ASSUME NoneAssumption == None \notin Panics
-------------------------------------------------------------------------------
(* The caches: read once, from the project at hand. *)

\* GetABIMap: the methods of the contracts that are no libraries.
ReadArtifacts(p) ==
  LET contracts == Project(p).contracts
      libraries == {c \in DOMAIN contracts : contracts[c].library}
  IN  [libraries |-> libraries,
       abi |-> [c \in DOMAIN contracts \ libraries |-> contracts[c].methods]]

GetABIMap(p) == IF artifacts = None THEN ReadArtifacts(p) ELSE artifacts
ReadAccounts(p) == IF accounts = None THEN Project(p).accounts ELSE accounts
GetConfig(p) == IF fuzzingConfig = None THEN Project(p).config ELSE fuzzingConfig

\* convertAndSign: an amount that does not fit an int64 becomes 0.
Amount(tx) == IF tx.value <= MaxInt64 THEN tx.value ELSE 0

\* ReadTransactions looks every sender up in the cached accounts.
SendersKnown(p, known) == \A tx \in Range(Project(p).transactions) : tx.from \in known

Idle == [contract |-> None, methods |-> <<>>]

Panic(why) == pc' = "panicked" /\ reason' = why

Init == /\ pc = "start" /\ reason = None
        /\ metadata = None
        /\ artifacts = None /\ accounts = None /\ fuzzingConfig = None
        /\ addressPool = {} /\ amountPool = <<>> /\ timestamps = {}
        /\ balance = <<>> /\ nonce = <<>> /\ position = 1
        /\ executed = {} /\ logged = {}
        /\ DeployedContracts = <<>> /\ ContractsList = <<>> /\ todo = {} /\ ignoring = Idle
        /\ runs = 0

NewBackend(p) ==
  /\ pc = "start" /\ runs < MaxRuns
  /\ runs' = runs + 1
  /\ metadata' = p
  /\ artifacts' = GetABIMap(p)
  /\ accounts' = ReadAccounts(p)
  /\ balance' = accounts'
  /\ nonce' = [a \in DOMAIN accounts' |-> 0]
  /\ position' = 1 /\ executed' = {} /\ logged' = {}
  /\ DeployedContracts' = <<>> /\ ContractsList' = <<>> /\ todo' = {} /\ ignoring' = Idle
  /\ IF SendersKnown(p, DOMAIN accounts')
     THEN pc' = "replay" /\ UNCHANGED reason
     ELSE Panic("no account")
  /\ UNCHANGED <<fuzzingConfig, pools, timestamps>>
-------------------------------------------------------------------------------
(* Replaying the recorded transactions. *)

Transactions == Project(metadata).transactions
tx == Transactions[position]
Replaying == pc = "replay" /\ position <= Len(Transactions)

\* ApplyTransaction's conditions: the next nonce, and ether for the value.
Applicable == nonce[tx.from] = tx.nonce /\ Amount(tx) <= balance[tx.from]

\* GetContractNameByHash: the bytecodes of the project are read again for it.
Compiled(c) == c \in DOMAIN Project(metadata).contracts

Pushed(log) == {e[2] : e \in {f \in log : f[1] = "PUSH"}}
Returned(log) == {e[2] : e \in {f \in log : f[1] = "RETURN"}}

\* processLogs registers every contract found in the trace, once for each time, at
\* the address this transaction would create, CreateAddress(from, nonce).
Register(contracts, trace, address) ==
  LET returns(c) == {k \in DOMAIN trace : trace[k][1] = "RETURN" /\ trace[k][2] = c}
      new(c) == [i \in 1 .. Cardinality(returns(c)) |-> address]
  IN  [c \in DOMAIN contracts \cup Returned(Range(trace)) |->
         IF c \in DOMAIN contracts
         THEN [contracts[c] EXCEPT !.addresses = @ \o new(c)]
         ELSE [addresses |-> new(c), methods |-> <<>>]]

InRange(word) == EarliestTime < word /\ word < LatestTime

\* The log covers a prefix of the trace.  Only a transaction that runs to its end
\* can succeed and move its value; it can also fail there.
ExecuteUpTo(n, success) ==
  LET done == SubSeq(tx.trace, 1, n)
  IN  /\ success => n = Len(tx.trace)
      /\ balance' = [balance EXCEPT ![tx.from] = @ - IF success THEN Amount(tx) ELSE 0]
      /\ nonce' = [nonce EXCEPT ![tx.from] = @ + 1]
      /\ timestamps' = timestamps \cup {w \in Pushed(Range(done)) : InRange(w)}
      /\ executed' = executed \cup {position}
      /\ logged' = logged \cup Range(done)
      /\ position' = position + 1
      /\ DeployedContracts' = Register(DeployedContracts, done, <<tx.from, tx.nonce>>)
      /\ IF \A c \in Returned(Range(done)) : Compiled(c)
         THEN UNCHANGED <<pc, reason>>
         ELSE Panic("no contract with hash")

\* Slip: a transaction runs without the ether it sends.
ExecuteUnpaid == /\ Replaying /\ nonce[tx.from] = tx.nonce
                 /\ \E n \in 0 .. Len(tx.trace), success \in BOOLEAN : ExecuteUpTo(n, success)
                 /\ UNCHANGED <<metadata, caches, pools, ContractsList, todo, ignoring, runs>>

Execute == /\ Replaying /\ Applicable
           /\ \E n \in 0 .. Len(tx.trace), success \in BOOLEAN : ExecuteUpTo(n, success)
           /\ UNCHANGED <<metadata, caches, pools, ContractsList, todo, ignoring, runs>>

\* Slip: a refused transaction consumes its nonce.
RefuseCounting == /\ Replaying /\ ~Applicable
                  /\ position' = position + 1
                  /\ nonce' = [nonce EXCEPT ![tx.from] = tx.nonce + 1]
                  /\ UNCHANGED <<pc, reason, metadata, caches, pools, timestamps,
                                 balance, executed, logged, targets, runs>>

\* The state is reverted to what it was, the nonce included, the error is logged
\* and NewBackend goes on with the next transaction.
Refuse == /\ Replaying /\ ~Applicable
          /\ position' = position + 1
          /\ UNCHANGED <<pc, reason, metadata, caches, pools, timestamps,
                         balance, nonce, executed, logged, targets, runs>>
-------------------------------------------------------------------------------
(* Choosing what to fuzz. *)

\* AddBigInt for every account: the pool keeps the pointer of the first account with
\* an amount, unless the amount is among the powers of two or was pooled before.
AddAmounts ==
  \E amounts \in SUBSET (Range(accounts) \ DOMAIN amountPool) :
    \E owner \in [amounts -> DOMAIN accounts] :
      /\ \A n \in amounts : accounts[owner[n]] = n
      /\ amountPool' = owner @@ amountPool

\* Slip: libraries stay among the contracts.
RemoveNoLibraries(contracts) == contracts

RemoveLibraries(contracts) == Restrict(contracts, DOMAIN contracts \ artifacts.libraries)

\* The replay is over: InitArgPool adds the accounts' addresses and amounts, then
\* libraries go.
FinishReplay == /\ pc = "replay" /\ position > Len(Transactions)
                /\ addressPool' = addressPool \cup DOMAIN accounts
                /\ AddAmounts
                /\ DeployedContracts' = RemoveLibraries(DeployedContracts)
                /\ todo' = DOMAIN DeployedContracts'
                /\ pc' = "listing"
                /\ UNCHANGED <<reason, metadata, caches, timestamps, chain, ContractsList,
                               ignoring, runs>>

\* GetContractABI panics without it.
HasABI(c) == c \in DOMAIN artifacts.abi

\* One turn of the loop over DeployedContracts.
ListContract(c) ==
  /\ pc = "listing"
  /\ todo' = todo \ {c}
  /\ IF ~HasABI(c)
     THEN Panic("no ABI") /\ UNCHANGED <<DeployedContracts, ContractsList>>
     ELSE /\ \E methods \in SetToSeqs(artifacts.abi[c]) :
               DeployedContracts' = [DeployedContracts EXCEPT ![c].methods = methods]
          /\ ContractsList' = IF c # Migrations /\ artifacts.abi[c] # {}
                              THEN Append(ContractsList, c) ELSE ContractsList
          /\ UNCHANGED <<pc, reason>>
  /\ UNCHANGED <<metadata, caches, pools, timestamps, chain, ignoring, runs>>

\* ProcessConfig reads the configuration.
BeginConfig == /\ pc = "listing" /\ todo = {}
               /\ fuzzingConfig' = GetConfig(metadata)
               /\ todo' = DOMAIN fuzzingConfig'
               /\ pc' = "configuring"
               /\ UNCHANGED <<reason, metadata, artifacts, accounts, pools, timestamps,
                              chain, DeployedContracts, ContractsList, ignoring, runs>>

\* Slip: the last element is cut off without taking the place of the deleted one.
deleteFromSliceCutting(val, a) ==
  IF val \in Range(a) THEN SubSeq(a, 1, Len(a) - 1) ELSE a

\* The last element takes the place of the deleted one.
deleteFromSlice(val, a) ==
  IF val \in Range(a)
  THEN LET i == CHOOSE j \in DOMAIN a : a[j] = val /\ \A k \in 1 .. j - 1 : a[k] # val
       IN  SubSeq([a EXCEPT ![i] = a[Len(a)]], 1, Len(a) - 1)
  ELSE a

IgnoreContract(c) ==
  /\ DeployedContracts' = Restrict(DeployedContracts, DOMAIN DeployedContracts \ {c})
  /\ ContractsList' = deleteFromSlice(c, ContractsList)

\* The inner loop over the ignored methods is not in a turn.
BetweenContracts == pc = "configuring" /\ ignoring.methods = <<>>

\* What a turn of ProcessConfig's loop does with an entry of the configuration: the
\* contract is ignored, its methods will be, or it is not deployed and nothing is.
Apply(c, config) ==
  \/ /\ c \in DOMAIN DeployedContracts /\ config.ignoreAll
     /\ IgnoreContract(c)
     /\ UNCHANGED ignoring
  \/ /\ c \in DOMAIN DeployedContracts /\ ~config.ignoreAll
     /\ ignoring' = [contract |-> c, methods |-> config.ignored]
     /\ UNCHANGED <<DeployedContracts, ContractsList>>
  \/ /\ c \notin DOMAIN DeployedContracts
     /\ UNCHANGED <<DeployedContracts, ContractsList, ignoring>>

\* Slip: an ignored contract is skipped before its timestamps are added.
ProcessConfigSkipping(c) ==
  LET config == fuzzingConfig[c] IN
  /\ BetweenContracts
  /\ todo' = todo \ {c}
  /\ timestamps' = IF config.ignoreAll THEN timestamps ELSE timestamps \cup config.timestamps
  /\ Apply(c, config)
  /\ UNCHANGED <<pc, reason, metadata, caches, pools, chain, runs>>

\* One turn of ProcessConfig's loop.
ProcessConfig(c) ==
  LET config == fuzzingConfig[c] IN
  /\ BetweenContracts
  /\ todo' = todo \ {c}
  /\ timestamps' = timestamps \cup config.timestamps
  /\ Apply(c, config)
  /\ UNCHANGED <<pc, reason, metadata, caches, pools, chain, runs>>

\* One turn of its inner loop.
IgnoreContractMethod ==
  /\ pc = "configuring" /\ ignoring.methods # <<>>
  /\ DeployedContracts' = [DeployedContracts EXCEPT ![ignoring.contract].methods =
                             deleteFromSlice(Head(ignoring.methods), @)]
  /\ ignoring' = [ignoring EXCEPT !.methods = Tail(@)]
  /\ UNCHANGED <<pc, reason, metadata, caches, pools, timestamps, chain, ContractsList,
                 todo, runs>>

\* NewBackend returns, or leaves the program when there is nothing to fuzz.
FinishConfig == /\ BetweenContracts /\ todo = {}
                /\ pc' = IF ContractsList = <<>> THEN "exited" ELSE "deployed"
                /\ UNCHANGED <<reason, metadata, caches, pools, timestamps, chain, targets, runs>>

\* GetRandomMethod divides by the number of methods.
NoRandomMethod(c) == DeployedContracts[c].methods = <<>>

\* fuzz() begins with a call of every contract's fallback.  GenTransaction draws
\* a method for it, which it does not use.
Fuzz == /\ pc = "deployed"
        /\ IF \E c \in DOMAIN DeployedContracts \ {Migrations} : NoRandomMethod(c)
           THEN Panic("no method")
           ELSE pc' = "fuzzed" /\ UNCHANGED reason
        /\ UNCHANGED <<metadata, caches, pools, timestamps, chain, targets, runs>>

\* A failing call with a pooled amount is retried with half of it: Rec halves the
\* amount of the account to which the *big.Int belongs.  Some account had to pay it;
\* fuzzing may also leave more in an account than the replay did.
HalveAmount ==
  /\ pc = "fuzzed"
  /\ \E n \in DOMAIN amountPool : LET a == amountPool[n] IN
       /\ accounts[a] > 0 /\ \E payer \in DOMAIN balance : accounts[a] <= balance[payer]
       /\ accounts' = [accounts EXCEPT ![a] = @ \div 2]
  /\ UNCHANGED <<pc, reason, metadata, artifacts, fuzzingConfig, pools, timestamps,
                 chain, targets, runs>>

ResetContractData == artifacts' = None

\* The next ArgPool gets a new timestamp pool; GetPool finds addresses and amounts again.
ResetArgPool == timestamps' = {} /\ UNCHANGED pools

Reset == /\ pc = "fuzzed"
         /\ ResetContractData /\ ResetArgPool
         /\ pc' = "start"
         /\ UNCHANGED <<reason, metadata, accounts, fuzzingConfig, chain, targets, runs>>

Ended == \/ pc \in {"exited", "panicked"}
         \/ pc = "start" /\ runs = MaxRuns
Stop == Ended /\ UNCHANGED vars

Next == \/ \E p \in DOMAIN Metadata : NewBackend(p)
        \/ Execute \/ Refuse \/ FinishReplay
        \/ \E c \in todo : ListContract(c)
        \/ BeginConfig
        \/ \E c \in todo : ProcessConfig(c)
        \/ IgnoreContractMethod
        \/ FinishConfig \/ Fuzz \/ HalveAmount \/ Reset \/ Stop

Spec == Init /\ [][Next]_vars
-------------------------------------------------------------------------------
Places == {"start", "replay", "listing", "configuring", "deployed", "fuzzed",
           "exited", "panicked"}

\* The ether of an account never gets negative, and a nonce is known for it.
TypeOK == /\ pc \in Places /\ reason \in Panics \cup {None}
          /\ pc = "panicked" <=> reason # None
          /\ \A a \in DOMAIN balance : balance[a] \in Nat
          /\ DOMAIN nonce = DOMAIN balance
          /\ \A a \in DOMAIN nonce : nonce[a] \in Nat
          /\ position \in Nat /\ executed \subseteq 1 .. position - 1
          /\ \A c \in DOMAIN DeployedContracts : DeployedContracts[c].addresses # <<>>
          /\ timestamps \subseteq Words
          /\ runs \in 0 .. MaxRuns

Ready == pc \in {"deployed", "fuzzed"}

\* The contracts whose code the replay saw returned.
FoundContracts == Returned(logged)
Ignored(c) == c \in DOMAIN fuzzingConfig /\ fuzzingConfig[c].ignoreAll
Fuzzable == {c \in FoundContracts : ~Project(metadata).contracts[c].library /\ ~Ignored(c)}
FuzzableMethods(c) ==
  Project(metadata).contracts[c].methods \
    (IF c \in DOMAIN fuzzingConfig THEN Range(fuzzingConfig[c].ignored) ELSE {})

\* What is fuzzed is exactly what was deployed, is no library and is not ignored,
\* with all the methods the configuration leaves, each once: whatever the order in
\* which the maps are iterated and the lists shrink (backend.go:193-204), and for
\* the project at hand although the process has fuzzed another before.
TargetsExact ==
  Ready => /\ DOMAIN DeployedContracts = Fuzzable
           /\ \A c \in Fuzzable : LET methods == DeployedContracts[c].methods IN
                IsInjective(methods) /\ Range(methods) = FuzzableMethods(c)
           /\ IsInjective(ContractsList)
           /\ Range(ContractsList) = {c \in Fuzzable \ {Migrations} :
                                        Project(metadata).contracts[c].methods # {}}

\* GetContractABI finds every contract that is listed (backend.go:196, and later
\* GenTransaction): replay, RemoveLibraries and the skipping of libraries in
\* GetABIMap agree.  A method is missing (contracts.go:240) only in a contract
\* that has none, or whose methods the configuration ignores one by one.
PanicsExplained ==
  /\ reason # "no ABI"
  /\ reason = "no method" => \E c \in Fuzzable \ {Migrations} : FuzzableMethods(c) = {}

\* A refused transaction stops every later one of its sender (backend.go:184):
\* what was executed has the consecutive nonces from 0 on, in the recorded order,
\* so that no contract is registered at the address of another transaction.
ReplayIsPrefix ==
  \A k \in executed : \A n \in 0 .. Transactions[k].nonce - 1 :
    \E j \in executed : /\ j < k
                        /\ Transactions[j].from = Transactions[k].from
                        /\ Transactions[j].nonce = n

\* The clock gets every configured timestamp, of ignored contracts and of those
\* that are not deployed too (contracts.go:316), every timestamp that the replay
\* pushed (processor.go:133), and none that the previous project left.
TimestampsExact ==
  Ready => timestamps =
             {w \in Pushed(logged) : InRange(w)} \cup
             UNION {fuzzingConfig[c].timestamps : c \in DOMAIN fuzzingConfig}
-------------------------------------------------------------------------------
(* Refuted: what a comment of the program says. *)

\* fuzzer.go:161 "resets all global variables that are used for caching", "only
\* useful when testing several projects at the same time": what is deployed then
\* comes from the files of its own project, as they are.
CachesOfProject ==
  pc = "deployed" => /\ accounts = Project(metadata).accounts
                     /\ fuzzingConfig = Project(metadata).config
                     /\ addressPool = DOMAIN accounts
===============================================================================
