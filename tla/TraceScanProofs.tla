---------------------------- MODULE TraceScanProofs ----------------------------
(***************************************************************************)
(* What processLogs reads off a trace, for any contracts, any word size and *)
(* any bounds on the depth and the length of an execution.                  *)
(***************************************************************************)
EXTENDS TraceScan, SequenceTheorems, TLAPS

Kinds == {"call", "create"}
FrameType == [address : Addresses, kind : Kinds, name : Names \cup {None},
              made : SUBSET Names]
EntryType == [op : Ops, depth : 1 .. MaxDepth, top : 0 .. Word - 1, second : Addresses,
              expected : Results, hash : Names \cup {None}]

\* What the bounds and the transaction say of the running calls.
FrameInv ==
  /\ Depth <= MaxDepth
  /\ \A i \in 1 .. Depth : frames[i].kind = "create" => frames[i].name \in Names
  /\ (frames # <<>> /\ frames[1].kind = "create") => check
  /\ prev.op = "none" <=> prev.depth = 0
  /\ outcome = "none" => truth = NoTruth /\ prev = NoEntry

\* The scan is one step behind the execution: what callStack will hold for the
\* call at depth i once the next entry has been read.
Expected(i) == IF i <= prev.depth THEN callSt[i] ELSE prev.second

\* The stack of the scan is that of the execution, a call or a return behind.
\* Only the addresses of calls are known: of a creation it holds an offset.
StackInv ==
  (frames # <<>> /\ UpdateCoverage) =>
    IF prev.op = "none" THEN Depth = 1 /\ callSt = <<frames[1].address>>
    ELSE /\ Len(callSt) = prev.depth
         /\ Depth \in prev.depth - 1 .. prev.depth + 1
         /\ \A i \in 1 .. Depth :
              frames[i].kind = "call" => frames[i].address = Expected(i)

\* While the transaction runs no REVERT of depth 1 has been seen: it would have
\* ended it.
VerdictInv ==
  outcome # "none" =>
    /\ verdict.revertAtDepth # 0
    /\ outcome \in {"running", "success"} => verdict.revertAtDepth # 1
    /\ outcome = "reverted" => verdict.revertAtDepth = 1
    /\ (verdict.assertionAtDepth # -1) <=> truth.asserted

\* An overflow has been seen, or waits for the next entry with its result.
OverflowInv ==
  truth.overflowed => \/ verdict.overflow
                      \/ /\ outcome = "running" /\ prev.op = "math"
                         /\ pushed # None /\ pushed # prev.expected

TypeInv == TypeOK /\ FrameInv
ScanInv == /\ TypeInv /\ StackInv
           /\ VerdictInv /\ OverflowInv /\ CallCoverageExact
-------------------------------------------------------------------------------
(* Sequences *)

LEMMA FrontFacts ==
  ASSUME NEW S, NEW s \in Seq(S), s # <<>>
  PROVE  /\ Front(s) \in Seq(S)
         /\ Len(Front(s)) = Len(s) - 1
         /\ \A i \in 1 .. Len(s) - 1 : Front(s)[i] = s[i]
         /\ Front(s) = <<>> <=> Len(s) = 1
<1>1. Len(s) \in Nat \ {0}
  BY LenProperties, EmptySeq
<1>2. /\ Front(s) \in Seq(S) /\ Len(Front(s)) = Len(s) - 1
      /\ \A i \in 1 .. Len(s) - 1 : Front(s)[i] = s[i]
  <2> DEFINE n == Len(s) - 1
  <2>1. n \in Nat /\ \A i \in 1 .. n : s[i] \in S
    BY <1>1, LenProperties
  <2>2. /\ SubSeq(s, 1, n) \in Seq(S)
        /\ Len(SubSeq(s, 1, n)) = IF 1 <= n THEN n - 1 + 1 ELSE 0
        /\ \A i \in 1 .. n - 1 + 1 : SubSeq(s, 1, n)[i] = s[1 + i - 1]
    BY <2>1, SubSeqProperties
  <2>3. \A k \in Nat : (IF 1 <= k THEN k - 1 + 1 ELSE 0) = k /\ k - 1 + 1 = k
    OBVIOUS
  <2>4. \A i \in 1 .. n : 1 + i - 1 = i
    BY <2>1
  <2> QED
    BY <2>1, <2>2, <2>3, <2>4 DEF Front
<1>3. Front(s) = <<>> <=> Len(Front(s)) = 0
  BY <1>2, EmptySeq
<1> QED
  BY <1>1, <1>2, <1>3

LEMMA SequenceFacts ==
  ASSUME NEW S, NEW s \in Seq(S)
  PROVE  /\ Len(s) \in Nat
         /\ s = <<>> <=> Len(s) = 0
         /\ DOMAIN s = 1 .. Len(s)
         /\ \A i \in 1 .. Len(s) : s[i] \in S
BY LenProperties, EmptySeq

LEMMA AppendFacts ==
  ASSUME NEW S, NEW s \in Seq(S), NEW x \in S
  PROVE  /\ Append(s, x) \in Seq(S)
         /\ Len(Append(s, x)) = Len(s) + 1
         /\ \A i \in 1 .. Len(s) : Append(s, x)[i] = s[i]
         /\ Append(s, x)[Len(s) + 1] = x
BY AppendProperties
-------------------------------------------------------------------------------
(* One entry of the log *)

Scanning(e) == /\ outcome = "running" /\ logs < MaxLogs
               /\ logs' = logs + 1 /\ check' = check
               /\ e.depth = Depth
               /\ pushed # None => e.top = pushed
               /\ Scan(e)

LEMMA Running ==
  ASSUME TypeInv, outcome = "running"
  PROVE  /\ frames \in Seq(FrameType) /\ frames # <<>>
         /\ Depth \in 1 .. MaxDepth /\ MaxDepth \in Nat /\ 1 \in 1 .. Depth
         /\ \A i \in 1 .. Depth : frames[i] \in FrameType
         /\ Executing \in FrameType
<1>1. frames \in Seq(FrameType) /\ frames # <<>> /\ Depth <= MaxDepth
  BY DEF TypeInv, TypeOK, FrameInv, FrameType, Kinds
<1>2. Len(frames) \in Nat /\ Len(frames) # 0 /\ \A i \in 1 .. Len(frames) : frames[i] \in FrameType
  BY <1>1, SequenceFacts
<1> QED
  BY <1>1, <1>2, TraceAssumption DEF Depth, Executing

\* The scan's own state after an entry: the stack has caught up with the
\* execution, and what it recorded is true.
LEMMA StackCatchesUp ==
  ASSUME TypeInv, StackInv, NEW e \in EntryType, Scanning(e), UpdateCoverage
  PROVE  /\ callSt' \in Seq(Addresses) /\ Len(callSt') = Depth
         /\ \A i \in 1 .. Depth : frames[i].kind = "call" => frames[i].address = callSt'[i]
<1> DEFINE d == Depth
           p == prev.depth
<1>1. /\ d \in Nat /\ d >= 1 /\ frames # <<>> /\ \A i \in 1 .. d : frames[i] \in FrameType
      /\ 1 \in 1 .. d
  BY Running DEF Scanning
<1>2. callSt' = Moved(e) /\ e.depth = d
  BY DEF Scanning, Scan
<1>3. callSt \in Seq(Addresses) /\ p \in Nat /\ prev.second \in Addresses
  BY TraceAssumption DEF TypeInv, TypeOK
<1>4. Len(callSt) \in Nat
  BY <1>3, SequenceFacts
<1>5. CASE prev.op = "none"
  <2>1. d = 1 /\ callSt = <<frames[1].address>>
    BY <1>1, <1>5 DEF StackInv
  <2>2. callSt' = callSt
    BY <1>2, <1>5 DEF Moved, Deeper, Shallower
  <2> QED
    BY <1>3, <2>1, <2>2
<1>6. CASE prev.op # "none"
  <2>1. /\ Len(callSt) = p /\ d \in p - 1 .. p + 1
        /\ \A i \in 1 .. d : frames[i].kind = "call" => frames[i].address = Expected(i)
    BY <1>1, <1>6 DEF StackInv
  <2>2. CASE d > p
    <3>1. callSt' = Append(callSt, prev.second)
      BY <1>1, <1>2, <1>3, <1>6, <2>2 DEF Moved, Deeper, Shallower
    <3>2. d = p + 1
      BY <1>1, <1>3, <2>1, <2>2
    <3>3. /\ callSt' \in Seq(Addresses) /\ Len(callSt') = d
          /\ \A i \in 1 .. p : callSt'[i] = callSt[i]
          /\ callSt'[d] = prev.second
      BY <1>3, <2>1, <3>1, <3>2, AppendFacts
    <3>4. \A i \in 1 .. d : callSt'[i] = Expected(i)
      <4>1. \A i \in 1 .. p : i <= p
        BY <1>3
      <4>2. ~(d <= p) /\ \A i \in 1 .. d : i \in 1 .. p \/ i = d
        BY <1>1, <1>3, <3>2
      <4> QED
        BY <3>3, <4>1, <4>2 DEF Expected
    <3> QED
      BY <2>1, <3>3, <3>4
  <2>3. CASE d < p
    <3>1. callSt' = Front(callSt)
      BY <1>1, <1>2, <1>3, <1>6, <2>3 DEF Moved, Deeper, Shallower
    <3>2. d = p - 1 /\ callSt # <<>>
      <4>1. d = p - 1
        BY <1>1, <1>3, <2>1, <2>3
      <4> QED
        BY <1>1, <1>3, <2>1, <4>1, SequenceFacts
    <3>3. /\ callSt' \in Seq(Addresses) /\ Len(callSt') = d
          /\ \A i \in 1 .. d : callSt'[i] = callSt[i]
      <4>1. /\ Front(callSt) \in Seq(Addresses)
            /\ Len(Front(callSt)) = Len(callSt) - 1
            /\ \A i \in 1 .. Len(callSt) - 1 : Front(callSt)[i] = callSt[i]
        BY <1>3, <3>2, FrontFacts
      <4>2. Len(callSt) - 1 = d
        BY <2>1, <3>2
      <4> QED
        BY <3>1, <4>1, <4>2
    <3>4. \A i \in 1 .. d : i <= p
      BY <1>1, <1>3, <3>2
    <3> QED
      BY <2>1, <3>3, <3>4 DEF Expected
  <2>4. CASE d = p
    <3>1. callSt' = callSt
      BY <1>1, <1>2, <1>3, <1>6, <2>4 DEF Moved, Deeper, Shallower
    <3>2. \A i \in 1 .. d : i <= p
      BY <1>1, <1>3, <2>4
    <3> QED
      BY <1>3, <2>1, <2>4, <3>1, <3>2 DEF Expected
  <2> QED
    BY <1>1, <1>3, <2>2, <2>3, <2>4
<1> QED
  BY <1>5, <1>6

LEMMA ScanTyped ==
  ASSUME TypeInv, StackInv, CallCoverageExact, NEW e \in EntryType, Scanning(e)
  PROVE  /\ callSt' \in Seq(Addresses)
         /\ covered' \subseteq [attributed : Addresses, actual : Addresses, kind : Kinds]
         /\ CallCoverageExact'
         /\ deployed' \subseteq Names \X {NewAddress}
         /\ prev' = e /\ logs' \in 0 .. MaxLogs /\ check' = check
<1>1. /\ Executing \in FrameType /\ Executing = frames[Depth] /\ Depth \in 1 .. Depth
      /\ Depth \in Nat
  BY Running DEF Scanning, Executing
<1>2. callSt' \in Seq(Addresses) /\ (UpdateCoverage => Len(callSt') = Depth)
  <2>1. CASE UpdateCoverage
    BY <2>1, StackCatchesUp
  <2>2. CASE ~UpdateCoverage
    BY <2>2 DEF Scanning, Scan, TypeInv, TypeOK
  <2> QED
    BY <2>1, <2>2
<1>3. UpdateCoverage => /\ Last(callSt') \in Addresses
                        /\ Executing.kind = "call" => Last(callSt') = Executing.address
  <2> SUFFICES ASSUME UpdateCoverage
               PROVE  /\ Last(callSt') \in Addresses
                      /\ Executing.kind = "call" => Last(callSt') = Executing.address
    OBVIOUS
  <2>1. Last(callSt') = callSt'[Depth]
    BY <1>2 DEF Last
  <2>2. callSt'[Depth] \in Addresses
    BY <1>1, <1>2, SequenceFacts
  <2> QED
    BY <1>1, <2>1, <2>2, StackCatchesUp
<1>4. /\ covered' \subseteq [attributed : Addresses, actual : Addresses, kind : Kinds]
      /\ CallCoverageExact'
  <2>1. covered \subseteq [attributed : Addresses, actual : Addresses, kind : Kinds]
    BY DEF TypeInv, TypeOK, Kinds
  <2>2. CASE UpdateCoverage
    <3> DEFINE new == [attributed |-> Last(callSt'), actual |-> Executing.address,
                       kind |-> Executing.kind]
    <3>1. covered' = covered \cup {new}
      BY <2>2 DEF Scanning, Scan
    <3>2. new \in [attributed : Addresses, actual : Addresses, kind : Kinds]
      BY <1>1, <1>3, <2>2 DEF FrameType
    <3>3. new.kind = "call" => new.attributed = new.actual
      BY <1>3, <2>2
    <3> HIDE DEF new
    <3> QED
      BY <2>1, <3>1, <3>2, <3>3 DEF CallCoverageExact
  <2>3. CASE ~UpdateCoverage
    <3>1. covered' = covered
      BY <2>3 DEF Scanning, Scan
    <3> QED
      BY <2>1, <3>1 DEF CallCoverageExact
  <2> QED
    BY <2>2, <2>3
<1>5. deployed' \subseteq Names \X {NewAddress}
  <2>1. deployed \subseteq Names \X {NewAddress} /\ e.hash \in Names \cup {None}
    BY DEF TypeInv, TypeOK, EntryType
  <2>2. \/ deployed' = deployed
        \/ e.hash # None /\ deployed' = deployed \cup {<<e.hash, NewAddress>>}
    BY DEF Scanning, Scan
  <2> QED
    BY <2>1, <2>2
<1>6. prev' = e /\ logs' \in 0 .. MaxLogs /\ check' = check
  BY TraceAssumption DEF Scanning, Scan, TypeInv, TypeOK
<1> QED
  BY <1>2, <1>4, <1>5, <1>6

\* The verdict after an entry, by the kind of the entry.
LEMMA VerdictAfter ==
  ASSUME TypeInv, VerdictInv, NEW e \in EntryType, Scanning(e)
  PROVE  /\ verdict' \in [assertionAtDepth : -1 .. MaxDepth, revertAtDepth : -1 .. MaxDepth,
                          overflow : BOOLEAN]
         /\ verdict'.overflow = OverflowSeen(e)
         /\ verdict'.assertionAtDepth # -1 <=> truth.asserted \/ e.op = "0xfe"
         /\ verdict'.revertAtDepth # 0
         /\ verdict'.revertAtDepth = 1 <=> e.op = "REVERT" /\ Depth = 1
<1>1. Depth \in 1 .. MaxDepth /\ MaxDepth \in Nat /\ e.depth = Depth
  BY Running DEF Scanning
<1>2. /\ verdict.assertionAtDepth \in -1 .. MaxDepth /\ verdict.revertAtDepth \in -1 .. MaxDepth
      /\ verdict.overflow \in BOOLEAN
  BY DEF TypeInv, TypeOK
<1>3. /\ verdict.revertAtDepth # 0 /\ verdict.revertAtDepth # 1
      /\ verdict.assertionAtDepth # -1 <=> truth.asserted
  BY DEF VerdictInv, Scanning
<1>4. verdict' = Scanned(e)
  BY DEF Scanning, Scan
<1> DEFINE S(old) == Shallowest(old, e.depth)
<1>5. \A old \in -1 .. MaxDepth : /\ S(old) \in 1 .. MaxDepth \/ S(old) = 0
                                  /\ S(old) \in -1 .. MaxDepth /\ S(old) # -1
                                  /\ old # 0 => S(old) # 0
                                  /\ old # 0 /\ old # 1 => (S(old) = 1 <=> Depth = 1)
  BY <1>1 DEF Shallowest
<1>6. verdict'.overflow = OverflowSeen(e) /\ OverflowSeen(e) \in BOOLEAN
  BY <1>2, <1>4 DEF Scanned, OverflowSeen
<1>7. /\ verdict'.assertionAtDepth = IF e.op = "0xfe" THEN S(verdict.assertionAtDepth)
                                     ELSE verdict.assertionAtDepth
      /\ verdict'.revertAtDepth = IF e.op = "REVERT" THEN S(verdict.revertAtDepth)
                                  ELSE verdict.revertAtDepth
  BY <1>4 DEF Scanned
<1> HIDE DEF S
<1>8. /\ verdict'.assertionAtDepth \in -1 .. MaxDepth
      /\ verdict'.assertionAtDepth # -1 <=> truth.asserted \/ e.op = "0xfe"
  BY <1>2, <1>3, <1>5, <1>7
<1>9. /\ verdict'.revertAtDepth \in -1 .. MaxDepth /\ verdict'.revertAtDepth # 0
      /\ verdict'.revertAtDepth = 1 <=> e.op = "REVERT" /\ Depth = 1
  BY <1>2, <1>3, <1>5, <1>7
<1>10. verdict' = [assertionAtDepth |-> verdict'.assertionAtDepth,
                   revertAtDepth |-> verdict'.revertAtDepth, overflow |-> verdict'.overflow]
  BY <1>4 DEF Scanned
<1> QED
  BY <1>6, <1>8, <1>9, <1>10
-------------------------------------------------------------------------------
(* The step the execution takes after an entry *)

\* The calls stay, but for one that is left or one that is entered.
FramesMove(e) ==
  /\ frames' \in Seq(FrameType) /\ Depth' \in Depth - 1 .. Depth + 1 /\ Depth' <= MaxDepth
  /\ \A i \in 1 .. Depth' : i <= Depth => /\ frames'[i].address = frames[i].address
                                        /\ frames'[i].kind = frames[i].kind
                                        /\ frames'[i].name = frames[i].name
  /\ Depth' = Depth + 1 =>
       /\ frames'[Depth'].kind = "call" => frames'[Depth'].address = e.second
       /\ frames'[Depth'].kind = "create" => frames'[Depth'].name \in Names
  /\ outcome' = "running" <=> frames' # <<>>
  /\ outcome' # "none"

LEMMA ShapeKept ==
  ASSUME TypeInv, StackInv, CallCoverageExact, NEW e \in EntryType, Scanning(e), FramesMove(e)
  PROVE  FrameInv' /\ StackInv'
<1> DEFINE d == Depth
           c == Depth'
<1>1. d \in Nat /\ d >= 1 /\ c \in Nat /\ c \in d - 1 .. d + 1
  <2>1. d \in 1 .. MaxDepth /\ MaxDepth \in Nat
    BY Running DEF Scanning
  <2> QED
    BY <2>1 DEF FramesMove
<1>2. prev' = e /\ check' = check /\ e.op \in Ops /\ e.depth = d
  BY ScanTyped DEF EntryType, Scanning
<1>3. \A i \in 1 .. c : i <= d \/ (c = d + 1 /\ i = c)
  BY <1>1
<1>4. \A i \in 1 .. d : frames[i].kind = "create" => frames[i].name \in Names
  BY DEF TypeInv, FrameInv
<1>5. \A i \in 1 .. c : i <= d => i \in 1 .. d
  BY <1>1
<1>6. \A i \in 1 .. c : frames'[i].kind = "create" => frames'[i].name \in Names
  <2> SUFFICES ASSUME NEW i \in 1 .. c, frames'[i].kind = "create"
               PROVE  frames'[i].name \in Names
    OBVIOUS
  <2>1. CASE i <= d
    BY <1>4, <1>5, <2>1 DEF FramesMove
  <2>2. CASE c = d + 1 /\ i = c
    BY <2>2 DEF FramesMove
  <2> QED
    BY <1>3, <2>1, <2>2
<1>7. frames' # <<>> => frames # <<>> /\ frames'[1].kind = frames[1].kind
  <2> SUFFICES ASSUME frames' # <<>>
               PROVE  frames # <<>> /\ frames'[1].kind = frames[1].kind
    OBVIOUS
  <2>1. c # 0
    BY SequenceFacts DEF FramesMove, Depth
  <2>2. 1 \in 1 .. c /\ 1 <= d
    BY <1>1, <2>1
  <2> QED
    BY <2>2, Running DEF FramesMove, Scanning
<1>8. FrameInv'
  <2>1. e.op # "none" /\ e.depth # 0
    BY <1>1, <1>2 DEF Ops
  <2>2. (frames' # <<>> /\ frames'[1].kind = "create") => check'
    BY <1>2, <1>7 DEF TypeInv, FrameInv
  <2>3. prev'.op = "none" <=> prev'.depth = 0
    BY <1>2, <2>1
  <2> QED
    BY <1>6, <2>2, <2>3 DEF FrameInv, FramesMove
<1>9. StackInv'
  <2> SUFFICES ASSUME frames' # <<>>, UpdateCoverage'
               PROVE  /\ prev'.op # "none"
                      /\ Len(callSt') = prev'.depth
                      /\ c \in prev'.depth - 1 .. prev'.depth + 1
                      /\ \A i \in 1 .. c :
                           frames'[i].kind = "call" => frames'[i].address = Expected(i)'
    BY DEF StackInv
  <2>1. UpdateCoverage
    BY <1>7 DEF UpdateCoverage
  <2>2. /\ Len(callSt') = d
        /\ \A i \in 1 .. d : frames[i].kind = "call" => frames[i].address = callSt'[i]
    BY <2>1, StackCatchesUp
  <2>3. prev'.op # "none" /\ prev'.depth = d
    BY <1>2 DEF Ops
  <2>4. ASSUME NEW i \in 1 .. c, frames'[i].kind = "call"
        PROVE  frames'[i].address = Expected(i)'
    <3>1. Expected(i)' = IF i <= d THEN callSt'[i] ELSE e.second
      BY <1>2 DEF Expected
    <3>2. CASE i <= d
      <4>1. i \in 1 .. d /\ frames[i].kind = "call" /\ frames'[i].address = frames[i].address
        BY <1>5, <2>4, <3>2 DEF FramesMove
      <4> QED
        BY <2>2, <3>1, <3>2, <4>1
    <3>3. CASE c = d + 1 /\ i = c
      <4>1. ~(i <= d)
        BY <1>1, <3>3
      <4>2. frames'[i].address = e.second
        BY <2>4, <3>3 DEF FramesMove
      <4> QED
        BY <3>1, <4>1, <4>2
    <3> QED
      BY <1>3, <3>2, <3>3
  <2> QED
    BY <1>1, <2>2, <2>3, <2>4
<1> QED
  BY <1>8, <1>9

\* Leaving a call, staying in it, entering one.
LEMMA LeaveMoves ==
  ASSUME TypeInv, outcome = "running", NEW e, NEW how \in {"success", "reverted", "failed"},
         Leave(how)
  PROVE  /\ FramesMove(e) /\ pushed' \in 0 .. Word - 1 \cup {None}
         /\ outcome' = IF Depth = 1 THEN how ELSE "running"
<1> DEFINE d == Depth
<1>1. /\ frames \in Seq(FrameType) /\ frames # <<>> /\ d \in Nat /\ d >= 1 /\ d <= MaxDepth
      /\ MaxDepth \in Nat
  BY Running DEF TypeInv, FrameInv
<1>2. frames' = Front(frames) /\ outcome' = IF d = 1 THEN how ELSE "running"
  BY DEF Leave
<1>3. /\ frames' \in Seq(FrameType) /\ Len(frames') = d - 1
      /\ \A i \in 1 .. d - 1 : frames'[i] = frames[i]
      /\ frames' = <<>> <=> d = 1
  BY <1>1, <1>2, FrontFacts DEF Depth
<1>4. d - 1 \in d - 1 .. d + 1 /\ d - 1 <= MaxDepth /\ d - 1 # d + 1
  BY <1>1
<1>5. pushed' \in 0 .. Word - 1
  BY TraceAssumption DEF Leave
<1>6. Depth' = d - 1
  BY <1>3 DEF Depth
<1>7. outcome' = "running" <=> frames' # <<>>
  BY <1>2, <1>3
<1> QED
  BY <1>2, <1>3, <1>4, <1>5, <1>6, <1>7 DEF FramesMove

LEMMA StayMoves ==
  ASSUME TypeInv, outcome = "running", NEW e, NEW value, Stay(value)
  PROVE  FramesMove(e) /\ outcome' = "running" /\ pushed' = value
<1>1. /\ frames \in Seq(FrameType) /\ frames # <<>> /\ Depth \in Nat /\ Depth <= MaxDepth
  BY Running DEF TypeInv, FrameInv
<1>2. frames' = frames /\ outcome' = outcome /\ pushed' = value /\ Depth' = Depth
  BY DEF Stay, Depth
<1>3. Depth \in Depth - 1 .. Depth + 1 /\ Depth # Depth + 1
  BY <1>1
<1> QED
  BY <1>1, <1>2, <1>3 DEF FramesMove

LEMMA EnterMoves ==
  ASSUME TypeInv, outcome = "running", Depth < MaxDepth, outcome' = outcome,
         NEW e, NEW s \in Seq(FrameType), NEW f \in FrameType,
         Len(s) = Depth,
         \A i \in 1 .. Depth : /\ s[i].address = frames[i].address
                               /\ s[i].kind = frames[i].kind /\ s[i].name = frames[i].name,
         frames' = Append(s, f),
         f.kind = "call" => f.address = e.second,
         f.kind = "create" => f.name \in Names
  PROVE  FramesMove(e)
<1> DEFINE d == Depth
<1>1. d \in Nat /\ d >= 1 /\ MaxDepth \in Nat
  BY Running
<1>2. /\ frames' \in Seq(FrameType) /\ Len(frames') = d + 1
      /\ \A i \in 1 .. d : frames'[i] = s[i]
      /\ frames'[d + 1] = f
  BY AppendFacts
<1>3. Depth' = d + 1 /\ d + 1 \in d - 1 .. d + 1 /\ d + 1 <= MaxDepth /\ d + 1 # 0
  BY <1>1, <1>2 DEF Depth
<1>4. frames' # <<>>
  BY <1>2, <1>3, SequenceFacts
<1>5. \A i \in 1 .. d + 1 : i <= d => i \in 1 .. d
  BY <1>1
<1> QED
  BY <1>2, <1>3, <1>4, <1>5 DEF FramesMove
-------------------------------------------------------------------------------
(* The invariant *)

Outcomes == {"running", "success", "reverted", "failed"}

\* What every action of the execution that logs e does, whatever it is.
StepOf(e) ==
  /\ Scanning(e) /\ FramesMove(e)
  /\ e.op = "RETURN" => e.hash \in HashesInMemory(Executing)
  /\ pushed' \in 0 .. Word - 1 \cup {None}
  /\ outcome' \in Outcomes
  /\ outcome' = "reverted" => e.op = "REVERT" /\ Depth = 1
  /\ outcome' \in {"running", "success"} => ~(e.op = "REVERT" /\ Depth = 1)
  /\ truth' \in [asserted : BOOLEAN, overflowed : BOOLEAN]
  /\ truth'.asserted <=> truth.asserted \/ e.op = "0xfe"
  /\ truth'.overflowed => \/ truth.overflowed
                          \/ /\ e.op = "math" /\ outcome' = "running"
                             /\ pushed' # None /\ pushed' # e.expected

LEMMA StepPreserves ==
  ASSUME ScanInv, NEW e \in EntryType, StepOf(e)
  PROVE  ScanInv'
<1>1. Scanning(e) /\ FramesMove(e) /\ outcome = "running"
  BY DEF StepOf, Scanning
<1>2. FrameInv' /\ StackInv'
  BY <1>1, ShapeKept DEF ScanInv
<1>3. /\ callSt' \in Seq(Addresses)
      /\ covered' \subseteq [attributed : Addresses, actual : Addresses, kind : Kinds]
      /\ CallCoverageExact'
      /\ deployed' \subseteq Names \X {NewAddress}
      /\ prev' = e /\ logs' \in 0 .. MaxLogs /\ check' = check
  BY <1>1, ScanTyped DEF ScanInv
<1>4. /\ verdict' \in [assertionAtDepth : -1 .. MaxDepth, revertAtDepth : -1 .. MaxDepth,
                       overflow : BOOLEAN]
      /\ verdict'.overflow = OverflowSeen(e)
      /\ verdict'.assertionAtDepth # -1 <=> truth.asserted \/ e.op = "0xfe"
      /\ verdict'.revertAtDepth # 0
      /\ verdict'.revertAtDepth = 1 <=> e.op = "REVERT" /\ Depth = 1
  BY <1>1, VerdictAfter DEF ScanInv
<1>5. TypeOK'
  <2>1. frames' \in Seq([address : Addresses, kind : {"call", "create"},
                         name : Names \cup {None}, made : SUBSET Names])
    BY <1>1 DEF FramesMove, FrameType, Kinds
  <2>2. prev' \in [op : Ops \cup {"none"}, depth : 0 .. MaxDepth, top : 0 .. Word - 1,
                   second : Addresses, expected : Results, hash : Names \cup {None}]
    <3>1. 1 .. MaxDepth \subseteq 0 .. MaxDepth
      BY TraceAssumption
    <3> QED
      BY <1>3, <3>1 DEF EntryType
  <2>3. (outcome' = "running") <=> (frames' # <<>>)
    BY <1>1 DEF FramesMove
  <2>4. /\ pushed' \in 0 .. Word - 1 \cup {None}
        /\ outcome' \in {"none", "running", "success", "reverted", "failed"}
        /\ truth' \in [asserted : BOOLEAN, overflowed : BOOLEAN]
    BY DEF StepOf, Outcomes
  <2>5. check' \in BOOLEAN
    BY <1>3 DEF ScanInv, TypeInv, TypeOK
  <2> QED
    BY <1>3, <1>4, <2>1, <2>2, <2>3, <2>4, <2>5 DEF TypeOK, Kinds
<1>6. VerdictInv'
  BY <1>4 DEF StepOf, VerdictInv
<1>7. OverflowInv'
  <2> SUFFICES ASSUME truth'.overflowed
               PROVE  \/ verdict'.overflow
                      \/ /\ outcome' = "running" /\ prev'.op = "math"
                         /\ pushed' # None /\ pushed' # prev'.expected
    BY DEF OverflowInv
  <2>1. CASE truth.overflowed
    <3>1. \/ verdict.overflow
          \/ prev.op = "math" /\ pushed # None /\ pushed # prev.expected
      BY <2>1 DEF ScanInv, OverflowInv
    <3>2. OverflowSeen(e)
      BY <1>1, <3>1 DEF OverflowSeen, Scanning
    <3> QED
      BY <1>4, <3>2
  <2>2. CASE ~truth.overflowed
    BY <1>3, <2>2 DEF StepOf
  <2> QED
    BY <2>1, <2>2
<1> QED
  BY <1>2, <1>3, <1>5, <1>6, <1>7 DEF ScanInv, TypeInv

\* The entry an action logs, with the top t of the stack it finds.
Record(op, depth, t, second, expected, hash) ==
  [op |-> op, depth |-> depth, top |-> t, second |-> second, expected |-> expected,
   hash |-> hash]
EntryOf(op, t, second, expected, hash) == Record(op, Depth, t, second, expected, hash)

LEMMA EntryForms ==
  ASSUME NEW op, NEW x
  PROVE  /\ Entry(op) = EntryOf(op, 0, None, 0, None)
         /\ [Entry(op) EXCEPT !.expected = x] = EntryOf(op, 0, None, x, None)
         /\ [Entry(op) EXCEPT !.second = x] = EntryOf(op, 0, x, 0, None)
         /\ [Entry(op) EXCEPT !.hash = x] = EntryOf(op, 0, None, 0, x)
<1>1. Entry(op) = EntryOf(op, 0, None, 0, None)
  <2>1. Entry(op) = [[NoEntry EXCEPT !.op = op] EXCEPT !.depth = Depth]
    BY DEF Entry, NoEntry
  <2>2. NoEntry = Record("none", 0, 0, None, 0, None)
    BY DEF NoEntry, Record
  <2>3. [Record("none", 0, 0, None, 0, None) EXCEPT !.op = op] = Record(op, 0, 0, None, 0, None)
    BY DEF Record
  <2>4. [Record(op, 0, 0, None, 0, None) EXCEPT !.depth = Depth]
          = Record(op, Depth, 0, None, 0, None)
    BY DEF Record
  <2> QED
    BY <2>1, <2>2, <2>3, <2>4 DEF EntryOf
<1> QED
  BY <1>1 DEF EntryOf, Record

\* Every entry has a stack whose top is what the last opcode left there.
LEMMA LogScans ==
  ASSUME TypeInv, NEW op \in Ops, NEW second \in Addresses,
         NEW expected \in Results, NEW hash \in Names \cup {None},
         Log(EntryOf(op, 0, second, expected, hash))
  PROVE  \E e \in EntryType : /\ Scanning(e)
                              /\ e.op = op /\ e.second = second
                              /\ e.expected = expected /\ e.hash = hash
<1> DEFINE d == EntryOf(op, 0, second, expected, hash)
<1>1. PICK t \in IF pushed = None THEN 0 .. Word - 1 ELSE {pushed} :
        Scan([d EXCEPT !.top = t])
  BY DEF Log
<1>2. t \in 0 .. Word - 1 /\ (pushed # None => t = pushed)
  BY <1>1 DEF TypeInv, TypeOK
<1> DEFINE e == EntryOf(op, t, second, expected, hash)
<1>3. [d EXCEPT !.top = t] = e
  BY DEF EntryOf, Record
<1>4. Depth \in 1 .. MaxDepth
  BY Running DEF Log
<1>5. e \in EntryType
  BY <1>2, <1>4 DEF EntryOf, Record, EntryType
<1>6. /\ e.top = t /\ e.depth = Depth /\ e.op = op /\ e.second = second
      /\ e.expected = expected /\ e.hash = hash
  BY DEF EntryOf, Record
<1>7. Scan(e)
  BY <1>1, <1>3
<1> HIDE DEF e
<1>8. Scanning(e)
  BY <1>2, <1>6, <1>7 DEF Log, Scanning
<1> QED
  BY <1>5, <1>6, <1>8
-------------------------------------------------------------------------------
(* The actions *)

LEMMA ConstantsTyped ==
  /\ None \in Addresses /\ Offset \in Addresses /\ NewAddress \in Addresses
  /\ Inner \in Addresses /\ Accounts \subseteq Addresses
  /\ 0 \in Results /\ None \notin 0 .. Word - 1
BY TraceAssumption DEF Addresses, Results

LEMMA MathStep ==
  ASSUME ScanInv, NEW r \in Results, Math(r)
  PROVE  \E e \in EntryType : StepOf(e)
<1>1. Log(EntryOf("math", 0, None, r, None)) /\ Stay(r % Word) /\ outcome = "running"
  BY EntryForms DEF Math, Log
<1>2. PICK e \in EntryType : Scanning(e) /\ e.op = "math" /\ e.expected = r
  BY <1>1, LogScans, ConstantsTyped DEF Ops, ScanInv
<1>3. FramesMove(e) /\ outcome' = "running" /\ pushed' = r % Word
  BY <1>1, StayMoves DEF ScanInv
<1>4. r \in Int /\ Word \in Nat \ {0}
  BY TraceAssumption DEF Results
<1>5. r % Word \in 0 .. Word - 1 /\ (r \notin 0 .. Word - 1 => r % Word # r)
  BY <1>4
<1>6. /\ truth' \in [asserted : BOOLEAN, overflowed : BOOLEAN]
      /\ truth'.asserted = truth.asserted
      /\ truth'.overflowed => truth.overflowed \/ r \notin 0 .. Word - 1
  BY DEF Math, ScanInv, TypeInv, TypeOK
<1> QED
  BY <1>2, <1>3, <1>5, <1>6, ConstantsTyped DEF StepOf, Outcomes

LEMMA OtherStep ==
  ASSUME ScanInv, Other
  PROVE  \E e \in EntryType : StepOf(e)
<1>1. Log(EntryOf("other", 0, None, 0, None)) /\ Stay(None) /\ outcome = "running"
  BY EntryForms DEF Other, Log
<1>2. PICK e \in EntryType : Scanning(e) /\ e.op = "other"
  BY <1>1, LogScans, ConstantsTyped DEF Ops, ScanInv
<1>3. FramesMove(e) /\ outcome' = "running" /\ pushed' = None
  BY <1>1, StayMoves DEF ScanInv
<1>4. truth' = truth /\ truth \in [asserted : BOOLEAN, overflowed : BOOLEAN]
  BY DEF Other, ScanInv, TypeInv, TypeOK
<1> QED
  BY <1>2, <1>3, <1>4 DEF StepOf, Outcomes

\* The record of a running call.
LEMMA FrameTyped ==
  ASSUME NEW a \in Addresses, NEW k \in Kinds, NEW n \in Names \cup {None}
  PROVE  /\ Frame(a, k, n) \in FrameType
         /\ Frame(a, k, n).address = a /\ Frame(a, k, n).kind = k /\ Frame(a, k, n).name = n
BY DEF Frame, FrameType

LEMMA CallStep ==
  ASSUME ScanInv, Call
  PROVE  \E e \in EntryType : StepOf(e)
<1>1. PICK a \in Accounts : /\ Log([Entry("CALL") EXCEPT !.second = a])
                            /\ Depth < MaxDepth
                            /\ frames' = Append(frames, Frame(a, "call", None))
                            /\ pushed' = None
                            /\ UNCHANGED <<outcome, truth>>
  BY DEF Call
<1>2. Log(EntryOf("CALL", 0, a, 0, None)) /\ a \in Addresses /\ outcome = "running"
  BY <1>1, EntryForms, ConstantsTyped DEF Log
<1>3. PICK e \in EntryType : Scanning(e) /\ e.op = "CALL" /\ e.second = a
  BY <1>2, LogScans, ConstantsTyped DEF Ops, ScanInv
<1> DEFINE f == Frame(a, "call", None)
<1>4. f \in FrameType /\ f.address = a /\ f.kind = "call"
  BY <1>2, FrameTyped DEF Kinds
<1>5. frames \in Seq(FrameType) /\ Len(frames) = Depth
  BY <1>2, Running DEF ScanInv, Depth
<1> HIDE DEF f
<1>6. FramesMove(e)
  <2>1. frames' = Append(frames, f) /\ outcome' = outcome /\ f.kind # "create"
        /\ (f.kind = "call" => f.address = e.second)
    BY <1>1, <1>3, <1>4 DEF f
  <2> QED
    BY <1>1, <1>2, <1>4, <1>5, <2>1, EnterMoves DEF ScanInv
<1>7. truth' = truth /\ truth \in [asserted : BOOLEAN, overflowed : BOOLEAN]
  BY <1>1 DEF ScanInv, TypeInv, TypeOK
<1> QED
  BY <1>1, <1>2, <1>3, <1>6, <1>7 DEF StepOf, Outcomes

LEMMA CreateStep ==
  ASSUME ScanInv, Create
  PROVE  \E e \in EntryType : StepOf(e)
<1>1. PICK n \in Names : /\ Log([Entry("CREATE") EXCEPT !.second = Offset])
                         /\ Depth < MaxDepth
                         /\ frames' = Append([frames EXCEPT ![Depth].made = @ \cup {n}],
                                             Frame(Inner, "create", n))
                         /\ pushed' = None
                         /\ UNCHANGED <<outcome, truth>>
  BY DEF Create
<1>2. Log(EntryOf("CREATE", 0, Offset, 0, None)) /\ outcome = "running"
  BY <1>1, EntryForms DEF Log
<1>3. PICK e \in EntryType : Scanning(e) /\ e.op = "CREATE"
  BY <1>2, LogScans, ConstantsTyped DEF Ops, ScanInv
<1> DEFINE f == Frame(Inner, "create", n)
           s == [frames EXCEPT ![Depth].made = @ \cup {n}]
<1>4. f \in FrameType /\ f.kind = "create" /\ f.name = n
  BY ConstantsTyped, FrameTyped DEF Kinds
<1>5. /\ frames \in Seq(FrameType) /\ Len(frames) = Depth /\ Depth \in 1 .. Len(frames)
      /\ \A i \in 1 .. Depth : frames[i] \in FrameType
      /\ DOMAIN frames = 1 .. Len(frames)
  BY <1>2, Running, SequenceFacts DEF ScanInv, Depth
<1>6. /\ s \in Seq(FrameType) /\ Len(s) = Depth
      /\ \A i \in 1 .. Depth : /\ s[i].address = frames[i].address
                               /\ s[i].kind = frames[i].kind /\ s[i].name = frames[i].name
  <2> DEFINE g == [frames[Depth] EXCEPT !.made = @ \cup {n}]
  <2>1. s = [frames EXCEPT ![Depth] = g]
    OBVIOUS
  <2>2. /\ g \in FrameType /\ g.address = frames[Depth].address
        /\ g.kind = frames[Depth].kind /\ g.name = frames[Depth].name
    BY <1>5 DEF FrameType
  <2> HIDE DEF g, s
  <2>3. /\ s \in Seq(FrameType) /\ Len(s) = Len(frames)
        /\ \A i \in 1 .. Len(frames) : s[i] = IF i = Depth THEN g ELSE frames[i]
    BY <1>5, <2>1, <2>2, ExceptSeq
  <2> QED
    BY <1>5, <2>2, <2>3
<1> HIDE DEF f, s
<1>7. FramesMove(e)
  <2>1. frames' = Append(s, f) /\ outcome' = outcome /\ f.kind # "call"
        /\ (f.kind = "create" => f.name \in Names)
    BY <1>1, <1>4 DEF f, s
  <2> QED
    BY <1>1, <1>2, <1>4, <1>6, <2>1, EnterMoves DEF ScanInv
<1>8. truth' = truth /\ truth \in [asserted : BOOLEAN, overflowed : BOOLEAN]
  BY <1>1 DEF ScanInv, TypeInv, TypeOK
<1> QED
  BY <1>1, <1>2, <1>3, <1>7, <1>8 DEF StepOf, Outcomes

LEMMA RevertStep ==
  ASSUME ScanInv, Revert
  PROVE  \E e \in EntryType : StepOf(e)
<1>1. Log(EntryOf("REVERT", 0, None, 0, None)) /\ Leave("reverted") /\ outcome = "running"
  BY EntryForms DEF Revert, Log
<1>2. PICK e \in EntryType : Scanning(e) /\ e.op = "REVERT"
  BY <1>1, LogScans, ConstantsTyped DEF Ops, ScanInv
<1>3. /\ FramesMove(e) /\ pushed' \in 0 .. Word - 1 \cup {None}
      /\ outcome' = IF Depth = 1 THEN "reverted" ELSE "running"
  BY <1>1, LeaveMoves DEF ScanInv
<1>4. truth' = truth /\ truth \in [asserted : BOOLEAN, overflowed : BOOLEAN]
  BY DEF Revert, ScanInv, TypeInv, TypeOK
<1> QED
  BY <1>2, <1>3, <1>4 DEF StepOf, Outcomes

LEMMA InvalidStep ==
  ASSUME ScanInv, Invalid
  PROVE  \E e \in EntryType : StepOf(e)
<1>1. Log(EntryOf("0xfe", 0, None, 0, None)) /\ Leave("failed") /\ outcome = "running"
  BY EntryForms DEF Invalid, Log
<1>2. PICK e \in EntryType : Scanning(e) /\ e.op = "0xfe"
  BY <1>1, LogScans, ConstantsTyped DEF Ops, ScanInv
<1>3. /\ FramesMove(e) /\ pushed' \in 0 .. Word - 1 \cup {None}
      /\ outcome' = IF Depth = 1 THEN "failed" ELSE "running"
  BY <1>1, LeaveMoves DEF ScanInv
<1>4. /\ truth' = [truth EXCEPT !.asserted = TRUE]
      /\ truth \in [asserted : BOOLEAN, overflowed : BOOLEAN]
  BY DEF Invalid, ScanInv, TypeInv, TypeOK
<1>5. /\ truth' \in [asserted : BOOLEAN, overflowed : BOOLEAN]
      /\ truth'.asserted = TRUE /\ truth'.overflowed = truth.overflowed
  BY <1>4
<1> QED
  BY <1>2, <1>3, <1>5 DEF StepOf, Outcomes

\* What a RETURN finds in memory is a name, or none; for a contract that created
\* nothing it is the name of the contract that is being created.
LEMMA ReturnLogs ==
  ASSUME TypeInv, NEW d \in ReturnEntries, Log(d)
  PROVE  \E e \in EntryType : /\ Scanning(e) /\ e.op = "RETURN"
                              /\ e.hash \in HashesInMemory(Executing)
<1>1. PICK h \in HashesInMemory(Executing) : d = [Entry("RETURN") EXCEPT !.hash = h]
  BY DEF ReturnEntries
<1>2. Executing \in FrameType
  BY Running DEF Log
<1>3. h \in Names \cup {None}
  BY <1>1, <1>2 DEF HashesInMemory, FrameType
<1>4. Log(EntryOf("RETURN", 0, None, 0, h))
  BY <1>1, EntryForms
<1> QED
  BY <1>1, <1>3, <1>4, LogScans, ConstantsTyped DEF Ops

LEMMA ReturnStep ==
  ASSUME ScanInv, Return
  PROVE  \E e \in EntryType : StepOf(e)
<1>1. PICK e \in EntryType : /\ Scanning(e) /\ e.op = "RETURN"
                             /\ e.hash \in HashesInMemory(Executing)
  BY ReturnLogs DEF Return, ScanInv
<1>2. /\ FramesMove(e) /\ pushed' \in 0 .. Word - 1 \cup {None}
      /\ outcome' = IF Depth = 1 THEN "success" ELSE "running"
  BY LeaveMoves DEF Return, ScanInv
<1>3. truth' = truth /\ truth \in [asserted : BOOLEAN, overflowed : BOOLEAN]
  BY DEF Return, ScanInv, TypeInv, TypeOK
<1>4. StepOf(e)
  BY <1>1, <1>2, <1>3 DEF StepOf, Outcomes
<1> QED
  BY <1>1, <1>4

LEMMA OutOfGasStep ==
  ASSUME ScanInv, OutOfGas
  PROVE  \E e \in EntryType : StepOf(e)
<1>1. /\ outcome = "running" /\ Leave("failed") /\ UNCHANGED truth
      /\ \E d \in MathEntries \cup ReturnEntries \cup {Entry("other"), Entry("REVERT")} :
           Log(d)
  BY DEF OutOfGas
<1>2. \E e \in EntryType : /\ Scanning(e) /\ e.op # "0xfe"
                           /\ e.op = "RETURN" => e.hash \in HashesInMemory(Executing)
  <2>1. PICK d \in MathEntries \cup ReturnEntries \cup {Entry("other"), Entry("REVERT")} :
          Log(d)
    BY <1>1
  <2>2. CASE d \in MathEntries
    <3>1. PICK r \in Results : d = [Entry("math") EXCEPT !.expected = r]
      BY <2>2 DEF MathEntries
    <3>2. Log(EntryOf("math", 0, None, r, None))
      BY <2>1, <3>1, EntryForms
    <3>3. \E e \in EntryType : Scanning(e) /\ e.op = "math"
      BY <3>2, LogScans, ConstantsTyped DEF Ops, ScanInv
    <3> QED
      BY <3>3
  <2>3. CASE d \in ReturnEntries
    <3>1. \E e \in EntryType : /\ Scanning(e) /\ e.op = "RETURN"
                               /\ e.hash \in HashesInMemory(Executing)
      BY <2>1, <2>3, ReturnLogs DEF ScanInv
    <3> QED
      BY <3>1
  <2>4. CASE d = Entry("other")
    <3>1. Log(EntryOf("other", 0, None, 0, None))
      BY <2>1, <2>4, EntryForms
    <3>2. \E e \in EntryType : Scanning(e) /\ e.op = "other"
      BY <3>1, LogScans, ConstantsTyped DEF Ops, ScanInv
    <3> QED
      BY <3>2
  <2>5. CASE d = Entry("REVERT")
    <3>1. Log(EntryOf("REVERT", 0, None, 0, None))
      BY <2>1, <2>5, EntryForms
    <3>2. \E e \in EntryType : Scanning(e) /\ e.op = "REVERT"
      BY <3>1, LogScans, ConstantsTyped DEF Ops, ScanInv
    <3> QED
      BY <3>2
  <2> QED
    BY <2>1, <2>2, <2>3, <2>4, <2>5
<1>3. PICK e \in EntryType : /\ Scanning(e) /\ e.op # "0xfe"
                             /\ e.op = "RETURN" => e.hash \in HashesInMemory(Executing)
  BY <1>2
<1>4. /\ FramesMove(e) /\ pushed' \in 0 .. Word - 1 \cup {None}
      /\ outcome' = IF Depth = 1 THEN "failed" ELSE "running"
  BY <1>1, LeaveMoves DEF ScanInv
<1>5. truth' = truth /\ truth \in [asserted : BOOLEAN, overflowed : BOOLEAN]
  BY <1>1 DEF ScanInv, TypeInv, TypeOK
<1>6. StepOf(e)
  <2>1. outcome' \in {"running", "success"} => ~(e.op = "REVERT" /\ Depth = 1)
    BY <1>4
  <2>2. outcome' \in Outcomes /\ outcome' # "reverted"
    BY <1>4 DEF Outcomes
  <2>3. Scanning(e) /\ e.op # "0xfe"
    BY <1>3
  <2>4. e.op = "RETURN" => e.hash \in HashesInMemory(Executing)
    BY <1>3
  <2> QED
    BY <1>4, <1>5, <2>1, <2>2, <2>3, <2>4 DEF StepOf
<1> QED
  BY <1>6

\* The first entry of a transaction has nothing before it.
LEMMA BeginPreserves ==
  ASSUME ScanInv, NEW f \in FrameType, Begin(f),
         f.kind = "create" => check /\ f.name \in Names
  PROVE  ScanInv'
<1>1. /\ frames' = <<f>> /\ outcome' = "running" /\ verdict' = ResetVerdict
      /\ callSt' = IF f.kind = "create" THEN <<None>> ELSE <<f.address>>
      /\ UNCHANGED <<pushed, logs, prev, covered, deployed, check, truth>>
      /\ truth = NoTruth /\ prev = NoEntry
  BY DEF Begin, ScanInv, TypeInv, FrameInv
<1>2. MaxDepth \in Nat /\ MaxDepth >= 1
  BY TraceAssumption
<1>3. /\ frames' \in Seq(FrameType) /\ Len(frames') = 1 /\ frames'[1] = f
      /\ frames' # <<>> /\ Depth' = 1
  BY <1>1 DEF Depth
<1>4. f.address \in Addresses /\ f.kind \in Kinds
  BY DEF FrameType
<1>5. callSt' \in Seq(Addresses)
  BY <1>1, <1>4, ConstantsTyped
<1>6. TypeOK'
  <2>1. verdict' \in [assertionAtDepth : -1 .. MaxDepth, revertAtDepth : -1 .. MaxDepth,
                      overflow : BOOLEAN]
    BY <1>1, <1>2 DEF ResetVerdict
  <2>2. frames' \in Seq([address : Addresses, kind : {"call", "create"},
                         name : Names \cup {None}, made : SUBSET Names])
    BY <1>3 DEF FrameType, Kinds
  <2> QED
    BY <1>1, <1>3, <1>5, <2>1, <2>2 DEF TypeOK, ScanInv, TypeInv
<1>7. FrameInv'
  <2>1. \A i \in 1 .. Depth' : i = 1
    BY <1>3
  <2>2. prev'.op = "none" /\ prev'.depth = 0
    BY <1>1 DEF NoEntry
  <2> QED
    BY <1>1, <1>2, <1>3, <2>1, <2>2 DEF FrameInv
<1>8. StackInv'
  BY <1>1, <1>3 DEF StackInv, NoEntry, UpdateCoverage
<1>9. VerdictInv' /\ OverflowInv'
  BY <1>1 DEF VerdictInv, OverflowInv, ResetVerdict, NoTruth
<1>10. CallCoverageExact'
  BY <1>1 DEF CallCoverageExact, ScanInv
<1> QED
  BY <1>6, <1>7, <1>8, <1>9, <1>10 DEF ScanInv, TypeInv

\* The actions that log an entry.
Logging == \/ Other \/ OutOfGas \/ Call \/ Create \/ Revert \/ Invalid \/ Return
           \/ \E r \in Results : Math(r)

LEMMA LoggingSteps ==
  ASSUME ScanInv, Logging
  PROVE  \E e \in EntryType : StepOf(e)
BY OtherStep, OutOfGasStep, CallStep, CreateStep, RevertStep, InvalidStep, ReturnStep, MathStep
DEF Logging

\* The scan reads the trace one entry behind the execution, and reads it right.
THEOREM ScanInvariant == Spec => []ScanInv
<1>1. Init => ScanInv
  <2> SUFFICES ASSUME Init PROVE ScanInv
    OBVIOUS
  <2>1. Depth = 0 /\ MaxDepth \in Nat
    BY TraceAssumption DEF Init, Depth
  <2>2. TypeOK
    <3>1. prev \in [op : Ops \cup {"none"}, depth : 0 .. MaxDepth, top : 0 .. Word - 1,
                    second : Addresses, expected : Results, hash : Names \cup {None}]
      BY TraceAssumption, ConstantsTyped DEF Init, NoEntry
    <3>2. verdict \in [assertionAtDepth : -1 .. MaxDepth, revertAtDepth : -1 .. MaxDepth,
                       overflow : BOOLEAN]
      <4>1. -1 \in -1 .. MaxDepth /\ 1 \in -1 .. MaxDepth
        BY TraceAssumption
      <4> QED
        BY <4>1 DEF Init
    <3>3. 0 \in 0 .. MaxLogs
      BY TraceAssumption
    <3> QED
      BY <3>1, <3>2, <3>3 DEF Init, TypeOK, NoTruth
  <2>3. FrameInv
    BY <2>1 DEF Init, FrameInv, NoEntry
  <2>4. StackInv /\ VerdictInv /\ OverflowInv /\ CallCoverageExact
    BY DEF Init, StackInv, VerdictInv, OverflowInv, CallCoverageExact, NoTruth
  <2> QED
    BY <2>2, <2>3, <2>4 DEF ScanInv, TypeInv
<1>2. ScanInv /\ [Next]_vars => ScanInv'
  <2> SUFFICES ASSUME ScanInv, [Next]_vars
               PROVE  ScanInv'
    OBVIOUS
  <2>1. CASE BeginCall
    <3>1. PICK a \in Accounts : Begin(Frame(a, "call", None))
      BY <2>1 DEF BeginCall
    <3> DEFINE f == Frame(a, "call", None)
    <3>2. f \in FrameType /\ f.kind = "call" /\ Begin(f)
      BY <3>1, FrameTyped, ConstantsTyped DEF Kinds
    <3> HIDE DEF f
    <3> QED
      BY <3>2, BeginPreserves
  <2>2. CASE BeginCreate
    <3>1. PICK n \in Names : check /\ Begin(Frame(NewAddress, "create", n))
      BY <2>2 DEF BeginCreate
    <3> DEFINE f == Frame(NewAddress, "create", n)
    <3>2. f \in FrameType /\ f.name = n /\ Begin(f)
      BY <3>1, FrameTyped, ConstantsTyped DEF Kinds
    <3> HIDE DEF f
    <3> QED
      BY <3>1, <3>2, BeginPreserves
  <2>3. CASE Logging
    BY <2>3, LoggingSteps, StepPreserves
  <2>4. CASE UNCHANGED vars
    <3>1. UNCHANGED <<frames, pushed, outcome, logs, prev, callSt, verdict, covered, deployed,
                      check, truth>>
      BY <2>4 DEF vars, evmVars, scanVars
    <3>2. TypeInv'
      BY <3>1 DEF ScanInv, TypeInv, TypeOK, FrameInv, Depth
    <3>3. StackInv'
      BY <3>1 DEF ScanInv, StackInv, Expected, UpdateCoverage, Depth
    <3>4. VerdictInv' /\ OverflowInv' /\ CallCoverageExact'
      BY <3>1 DEF ScanInv, VerdictInv, OverflowInv, CallCoverageExact
    <3> QED
      BY <3>2, <3>3, <3>4 DEF ScanInv
  <2> QED
    BY <2>1, <2>2, <2>3, <2>4 DEF Next, Logging, Finished, OutOfBound
<1> QED
  BY <1>1, <1>2, PTL DEF Spec

THEOREM ScanTypeCorrect == Spec => []TypeOK
<1>1. ScanInv => TypeOK
  BY DEF ScanInv, TypeInv
<1> QED
  BY <1>1, ScanInvariant, PTL

\* Rec acts on the verdict of this transaction: reverts of the outermost call and
\* assertion failures at any depth (processLogs, the reset at its head).
THEOREM VerdictsAreExact == Spec => []VerdictExact
<1>1. ScanInv => VerdictExact
  BY DEF ScanInv, VerdictInv, VerdictExact, Done
<1> QED
  BY <1>1, ScanInvariant, PTL

\* However calls, creations and failures nest, the coverage of called code is kept
\* under its own address (callStack).
THEOREM CoverageIsExact == Spec => []CallCoverageExact
<1>1. ScanInv => CallCoverageExact
  BY DEF ScanInv
<1> QED
  BY <1>1, ScanInvariant, PTL

\* No result above a word or below 0 of a transaction that has ended went unseen,
\* for any word size (the operators and their comparison in processLogs).
THEOREM OverflowsAreSeen == Spec => []NoOverflowMissed
<1>1. ScanInv => NoOverflowMissed
  BY DEF ScanInv, OverflowInv, NoOverflowMissed, Done
<1> QED
  BY <1>1, ScanInvariant, PTL
-------------------------------------------------------------------------------
\* The name of a contract the transaction creates is registered when its
\* constructor returns, unless it created contracts (the RETURN branch).
THEOREM CreatedContractsAreRegistered == Spec => CreatedIsRegistered
<1> DEFINE Registered ==
      (Returned /\ Depth = 1 /\ Executing.kind = "create" /\ Executing.made = {})
        => <<Executing.name, NewAddress>> \in deployed'
<1>1. ScanInv /\ [Next]_vars => [Registered]_vars
  <2> SUFFICES ASSUME ScanInv, Next, Returned, Depth = 1,
                      Executing.kind = "create", Executing.made = {}
               PROVE  <<Executing.name, NewAddress>> \in deployed'
    OBVIOUS
  <2>1. outcome = "running" /\ logs' # logs /\ prev'.op = "RETURN"
    BY DEF Returned
  <2>2. Logging
    <3>1. ~BeginCall /\ ~BeginCreate
      BY <2>1 DEF BeginCall, BeginCreate, Begin
    <3>2. ~Finished /\ ~OutOfBound
      BY <2>1 DEF Finished, OutOfBound, vars, evmVars
    <3> QED
      BY <3>1, <3>2 DEF Next, Logging
  <2>3. PICK e \in EntryType : StepOf(e)
    BY <2>2, LoggingSteps
  <2>4. Scan(e) /\ prev' = e
    BY <2>3 DEF StepOf, Scanning, Scan
  <2>5. HashesInMemory(Executing) = {Executing.name}
    BY DEF HashesInMemory
  <2>6. e.op = "RETURN" /\ e.hash = Executing.name
    BY <2>1, <2>3, <2>4, <2>5 DEF StepOf
  <2>7. Executing.name \in Names /\ check
    <3>1. frames # <<>> /\ Executing = frames[1] /\ 1 \in 1 .. Depth
      BY <2>1, Running DEF Executing, ScanInv
    <3> QED
      BY <3>1 DEF ScanInv, TypeInv, FrameInv
  <2>8. Executing.name # None
    BY <2>7, TraceAssumption
  <2> QED
    BY <2>4, <2>6, <2>7, <2>8 DEF Scan
<1> QED
  BY <1>1, ScanInvariant, PTL DEF Spec, CreatedIsRegistered
===============================================================================
