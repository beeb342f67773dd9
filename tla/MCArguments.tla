----------------------------- MODULE MCArguments -----------------------------
(* Integers of 1, 2 and 3 bits for Arguments. *)
EXTENDS Arguments, TLC

SmallWidths == {1, 2, 3}
HalfOf == [w \in SmallWidths |-> 2^(w-1)]
===============================================================================
