------------------------------- MODULE TraceScan ------------------------------
(***************************************************************************)
(* processLogs (utils/processor.go): what the fuzzer reads off the trace of *)
(* one executed transaction, next to the execution that produced it.        *)
(*                                                                          *)
(* The EVM logs every opcode BEFORE executing it, with its depth and stack. *)
(* The scan is a loop over that log which looks one entry back (call        *)
(* depth) and one ahead (the result of an arithmetic opcode), so it is run  *)
(* here together with the execution, one entry per step; the look ahead     *)
(* becomes a look back from the following entry.                            *)
(***************************************************************************)
EXTENDS Integers, Sequences, SequencesExt

CONSTANTS Names,      \* contracts, known by the swarm hash of their code
          Accounts,   \* the addresses of the contracts that can be called
          NewAddress, \* the address CreateAddress(sender, nonce) of the transaction
          Inner,      \* the address of a contract created by a contract
          Offset,     \* a memory offset taken for an address
          None,
          Word,       \* 2^256: results are taken modulo Word
          MaxDepth, MaxLogs   \* bounds of the executions considered

ASSUME TraceAssumption ==
  /\ Word \in Nat \ {0, 1} /\ MaxDepth \in Nat \ {0} /\ MaxLogs \in Nat
  /\ {NewAddress, Inner, Offset, None} \cap Accounts = {}
  /\ None \notin Names \cup 0 .. Word - 1

VARIABLES
  frames,    \* EVM: the running calls, outermost first
  pushed,    \* EVM: what the last opcode left on top of the stack; None: anything
  outcome,   \* EVM: "none", "running", "success", "reverted" or "failed"
  logs,      \* EVM: the number of entries logged
  prev,      \* scan: the previous entry
  callSt,    \* scan: callStack of addresses
  verdict,   \* scan: LastTxRes
  covered,   \* scan: OpcodeIndices, with the address that really executed
  deployed,  \* scan: DeployedContracts, <<name, address>>
  check,     \* options.CheckDeployedContract
  truth      \* history: what really happened in this transaction
evmVars == <<frames, pushed, outcome, logs>>
scanVars == <<prev, callSt, verdict, covered, deployed>>
vars == <<evmVars, scanVars, check, truth>>

\* What ADD, SUB, MUL and EXP give without a bound on the size of an integer: below
\* 0 for a SUB, up to any size for the others, of which 2 * Word stands for all.
Results == 1 - Word .. 2 * Word

Ops == {"other", "math", "CALL", "CREATE", "REVERT", "0xfe", "RETURN"}
NoEntry == [op |-> "none", depth |-> 0, top |-> 0, second |-> None, expected |-> 0, hash |-> None]
NoTruth == [asserted |-> FALSE, overflowed |-> FALSE]
ResetVerdict == [assertionAtDepth |-> -1, revertAtDepth |-> -1, overflow |-> FALSE]

Depth == Len(frames)
Executing == frames[Depth]
Frame(address, kind, name) ==
  [address |-> address, kind |-> kind, name |-> name, made |-> {}]

\* LastTxRes still holds an earlier transaction's result.
Init == /\ frames = <<>> /\ pushed = None /\ outcome = "none" /\ logs = 0
        /\ prev = NoEntry /\ callSt = <<>>
        /\ verdict \in [assertionAtDepth : {-1, 1}, revertAtDepth : {-1, 1}, overflow : BOOLEAN]
        /\ covered = {} /\ deployed = {}
        /\ check \in BOOLEAN
        /\ truth = NoTruth

\* Slip: the verdict is not reset.
BeginKeepsVerdict(frame) ==
  /\ outcome = "none"
  /\ frames' = <<frame>>
  /\ outcome' = "running"
  /\ callSt' = IF frame.kind = "create" THEN <<None>> ELSE <<frame.address>>
  /\ UNCHANGED <<pushed, logs, prev, verdict, covered, deployed, check, truth>>

\* A transaction to a contract (tx.To() is its address), or one that creates a
\* contract (tx.To() is nil), which the scan keeps no coverage for.  The head of
\* processLogs resets what the last transaction left.
Begin(frame) == /\ outcome = "none"
                /\ frames' = <<frame>>
                /\ outcome' = "running"
                /\ verdict' = ResetVerdict
                /\ callSt' = IF frame.kind = "create" THEN <<None>> ELSE <<frame.address>>
                /\ UNCHANGED <<pushed, logs, prev, covered, deployed, check, truth>>
BeginCall == \E a \in Accounts : Begin(Frame(a, "call", None))
BeginCreate == check /\ \E n \in Names : Begin(Frame(NewAddress, "create", n))

-------------------------------------------------------------------------------
(* The scan of one log entry. *)

Shallowest(old, depth) == IF old = -1 \/ old > depth THEN depth ELSE old

\* Slip: only a result below the expected one counts, so no subtraction does.
OverflowSeenAbove(e) == verdict.overflow \/ (prev.op = "math" /\ e.top < prev.expected)

\* The arithmetic of the previous entry is compared with what is on top of the
\* stack now.  The last entry of the log has no successor.
OverflowSeen(e) == verdict.overflow \/ (prev.op = "math" /\ e.top # prev.expected)

Scanned(e) == [assertionAtDepth |-> IF e.op = "0xfe"
                                    THEN Shallowest(verdict.assertionAtDepth, e.depth)
                                    ELSE verdict.assertionAtDepth,
               revertAtDepth |-> IF e.op = "REVERT"
                                 THEN Shallowest(verdict.revertAtDepth, e.depth)
                                 ELSE verdict.revertAtDepth,
               overflow |-> OverflowSeen(e)]

\* How deep the entry is, seen from the one before it.  The first has none.
Deeper(e) == prev.op # "none" /\ e.depth > prev.depth
Shallower(e) == prev.op # "none" /\ e.depth < prev.depth

\* Slip: the address is taken from the top of the stack.
MovedTop(e) == CASE Deeper(e)    -> Append(callSt, prev.top)
                 [] Shallower(e) -> Front(callSt)
                 [] OTHER        -> callSt

\* Slip: a call pushes the address of the caller again.
MovedRepeating(e) == CASE Deeper(e)    -> Append(callSt, Last(callSt))
                       [] Shallower(e) -> Front(callSt)
                       [] OTHER        -> callSt

\* Deeper than before: a call was made, to the address second on the stack of
\* the previous entry.  Shallower: one returned.
Moved(e) == CASE Deeper(e)    -> Append(callSt, prev.second)
              [] Shallower(e) -> Front(callSt)
              [] OTHER        -> callSt

UpdateCoverage == frames[1].kind = "call"

\* Slip: without coverage the rest of the entry is skipped.
ScanNeedsCoverage(e) ==
  /\ verdict' = Scanned(e)
  /\ IF UpdateCoverage
     THEN /\ callSt' = Moved(e)
          /\ covered' = covered \cup {[attributed |-> Last(callSt'),
                                       actual     |-> Executing.address,
                                       kind       |-> Executing.kind]}
          /\ deployed' = IF check /\ e.op = "RETURN" /\ e.hash # None
                         THEN deployed \cup {<<e.hash, NewAddress>>}
                         ELSE deployed
     ELSE UNCHANGED <<callSt, covered, deployed>>
  /\ prev' = e

Scan(e) ==
  /\ verdict' = Scanned(e)
  /\ IF UpdateCoverage
     THEN /\ callSt' = Moved(e)
          /\ covered' = covered \cup {[attributed |-> Last(callSt'),
                                       actual     |-> Executing.address,
                                       kind       |-> Executing.kind]}
     ELSE UNCHANGED <<callSt, covered>>
  /\ deployed' = IF check /\ e.op = "RETURN" /\ e.hash # None
                 THEN deployed \cup {<<e.hash, NewAddress>>}
                 ELSE deployed
  /\ prev' = e
-------------------------------------------------------------------------------
(* The execution.  Every opcode is logged and scanned, then executed. *)

Entry(op) == [NoEntry EXCEPT !.op = op, !.depth = Depth]

Log(e) == /\ outcome = "running" /\ logs < MaxLogs
          /\ logs' = logs + 1
          /\ \E t \in (IF pushed = None THEN 0 .. Word - 1 ELSE {pushed}) :
               Scan([e EXCEPT !.top = t])
          /\ UNCHANGED check

\* The running call ends; its caller finds 1 or 0 on its stack.
Leave(how) == /\ frames' = Front(frames)
              /\ pushed' = IF how = "success" THEN 1 ELSE 0
              /\ outcome' = IF Depth = 1 THEN how ELSE "running"

Stay(value) == /\ pushed' = value
               /\ UNCHANGED <<frames, outcome>>

\* ADD, SUB, MUL or EXP whose unbounded result is r: the EVM keeps it modulo Word.
Math(r) == /\ Log([Entry("math") EXCEPT !.expected = r])
           /\ Stay(r % Word)
           /\ truth' = [truth EXCEPT !.overflowed = @ \/ r \notin 0 .. Word - 1]

Other == /\ Log(Entry("other"))
         /\ Stay(None)
         /\ UNCHANGED truth

Call == \E a \in Accounts :
          /\ Log([Entry("CALL") EXCEPT !.second = a])
          /\ Depth < MaxDepth
          /\ frames' = Append(frames, Frame(a, "call", None))
          /\ pushed' = None
          /\ UNCHANGED <<outcome, truth>>

\* CREATE takes a memory offset where CALL takes the address.
Create == \E n \in Names :
            /\ Log([Entry("CREATE") EXCEPT !.second = Offset])
            /\ Depth < MaxDepth
            /\ frames' = Append([frames EXCEPT ![Depth].made = @ \cup {n}],
                                Frame(Inner, "create", n))
            /\ pushed' = None
            /\ UNCHANGED <<outcome, truth>>

Revert == /\ Log(Entry("REVERT"))
          /\ Leave("reverted")
          /\ UNCHANGED truth

Invalid == /\ Log(Entry("0xfe"))
           /\ Leave("failed")
           /\ truth' = [truth EXCEPT !.asserted = TRUE]

\* RETURN.  The memory holds the code that is being created, or code a contract
\* created from it; the scan takes the last swarm hash it finds there.
HashesInMemory(frame) == frame.made \cup
                         (IF frame.kind = "create" THEN {frame.name}
                          ELSE IF frame.made = {} THEN {None} ELSE {})
ReturnEntries == {[Entry("RETURN") EXCEPT !.hash = h] : h \in HashesInMemory(Executing)}
Return == /\ outcome = "running"
          /\ \E e \in ReturnEntries : Log(e)
          /\ Leave("success")
          /\ UNCHANGED truth

\* Any opcode can run out of gas, whatever the scan has already read off it.
MathEntries == {[Entry("math") EXCEPT !.expected = r] : r \in Results}
OutOfGas == /\ outcome = "running"
            /\ \E e \in MathEntries \cup ReturnEntries \cup {Entry("other"), Entry("REVERT")} :
                 Log(e)
            /\ Leave("failed")
            /\ UNCHANGED truth

Finished == outcome \in {"success", "reverted", "failed"} /\ UNCHANGED vars
OutOfBound == outcome = "running" /\ logs = MaxLogs /\ UNCHANGED vars

Next == \/ BeginCall \/ BeginCreate
        \/ Other \/ OutOfGas \/ Call \/ Create \/ Revert \/ Invalid \/ Return
        \/ \E r \in Results : Math(r)
        \/ Finished \/ OutOfBound

Spec == Init /\ [][Next]_vars
-------------------------------------------------------------------------------
Addresses == Accounts \cup {NewAddress, Inner, Offset, None}
Done == outcome \in {"success", "reverted", "failed"}

TypeOK ==
  /\ frames \in Seq([address : Addresses, kind : {"call", "create"}, name : Names \cup {None},
                     made : SUBSET Names])
  /\ pushed \in 0 .. Word - 1 \cup {None}
  /\ outcome \in {"none", "running", "success", "reverted", "failed"}
  /\ (outcome = "running") <=> (frames # <<>>)
  /\ logs \in 0 .. MaxLogs
  /\ prev \in [op : Ops \cup {"none"}, depth : 0 .. MaxDepth, top : 0 .. Word - 1,
               second : Addresses, expected : Results, hash : Names \cup {None}]
  /\ callSt \in Seq(Addresses)
  /\ verdict \in [assertionAtDepth : -1 .. MaxDepth, revertAtDepth : -1 .. MaxDepth,
                  overflow : BOOLEAN]
  /\ covered \subseteq [attributed : Addresses, actual : Addresses, kind : {"call", "create"}]
  /\ deployed \subseteq Names \X {NewAddress}
  /\ check \in BOOLEAN
  /\ truth \in [asserted : BOOLEAN, overflowed : BOOLEAN]

\* The verdicts Rec acts on are those of this transaction: a revert of the
\* outermost call is seen as RevertAtDepth = 1, nothing that succeeds is, and an
\* assertion failure is recorded exactly when one was executed at some depth.
VerdictExact ==
  Done => /\ outcome = "reverted" => verdict.revertAtDepth = 1
          /\ verdict.revertAtDepth = 1 => outcome # "success"
          /\ (verdict.assertionAtDepth # -1) <=> truth.asserted

\* Code reached through calls is attributed to the contract it belongs to, also
\* when contracts call each other and themselves, and when nested creations and
\* failed calls left and re-entered it (callStack).
CallCoverageExact ==
  \A c \in covered : c.kind = "call" => c.attributed = c.actual

\* An arithmetic opcode whose result does not fit a word, above it or below 0, is
\* noticed, however deep it ran and whatever else the transaction computed.
NoOverflowMissed == (Done /\ truth.overflowed) => verdict.overflow

Returned == outcome = "running" /\ logs' # logs /\ prev'.op = "RETURN"

\* A contract the transaction itself creates is registered at its address,
\* unless its constructor created others (the RETURN branch of processLogs).
CreatedIsRegistered ==
  [][(Returned /\ Depth = 1 /\ Executing.kind = "create" /\ Executing.made = {})
       => <<Executing.name, NewAddress>> \in deployed']_vars

(* Refuted: what comments of processor.go say. *)

\* processor.go:148 "Out of gas can happen after math opcode, therefore there
\* won't be next log that should include the result".
OverflowReal == (verdict.overflow /\ outcome # "none") => truth.overflowed

===============================================================================
