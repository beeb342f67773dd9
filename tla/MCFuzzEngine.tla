----------------------------- MODULE MCFuzzEngine -----------------------------
(* Instances of FuzzEngine for TLC. *)
EXTENDS FuzzEngine, TLC

CONSTANTS alice, bob, token, pay, nop, fuzz_always_true_cap, list1, list2

\* One contract with a payable method, a method that takes no ether and a
\* custom property; its fallback is not payable.
OneContract == {token}
ThreeMethods == {pay, nop, fuzz_always_true_cap}
MethodsOfToken == [c \in OneContract |-> ThreeMethods]
PayableInToken == {<<token, pay>>}
PayableProperty == {<<token, pay>>, <<token, fuzz_always_true_cap>>}
PayableFallback == {<<token, pay>>, <<token, Fallback>>}
Properties == {fuzz_always_true_cap}

\* Alice can afford the larger amounts, Bob one ether, which is a power of two:
\* only her ether is an element of the pool of its own.
Ether == (alice :> 3) @@ (bob :> 1)

NoTimestamps == {<<>>}
UpToTwoTimestamps == {<<>>, <<30>>, <<30, 60>>}

Verdict(r, f, a, v, o) == [reverted |-> r, failed |-> f, asserted |-> a,
                           overflow |-> v, output |-> o]
Success  == Verdict(FALSE, FALSE, FALSE, FALSE, "one")
Reverts  == Verdict(TRUE, FALSE, FALSE, FALSE, "none")
Asserts  == Verdict(FALSE, TRUE, TRUE, FALSE, "none")
Refutes  == Verdict(FALSE, FALSE, FALSE, FALSE, "otherWord")
PlainVerdicts == {Success, Reverts, Refutes}
Overflows == Verdict(FALSE, FALSE, FALSE, TRUE, "one")
RetryVerdicts == PlainVerdicts \cup {Asserts}
StaleVerdicts == {Success, Reverts, Overflows}
===============================================================================
