------------------------------- MODULE FairPool -------------------------------
(***************************************************************************)
(* What a value pool of argpool/ promises to its clients, whatever data     *)
(* structure keeps it: a set of members, handed out in rounds.  Within a    *)
(* round every member is delivered exactly once; a member offered during a  *)
(* round is delivered in that same round.  The circular buffer of           *)
(* argpool/pool.go (module RingPool) implements this specification.         *)
(***************************************************************************)
EXTENDS Integers

CONSTANTS Items,   \* the values a pool can hold
          NoItem   \* the nil an empty pool hands out

VARIABLES members,  \* the values offered so far
          pending,  \* the members not yet delivered in the current round
          out       \* the value delivered last
vars == <<members, pending, out>>

Init == /\ members = {}
        /\ pending = {}
        /\ out = NoItem

Offer(item) == /\ item \notin members
               /\ members' = members \cup {item}
               /\ pending' = pending \cup {item}
               /\ UNCHANGED out

Deliver == \E item \in pending :
             /\ out' = item
             /\ pending' = IF pending = {item} THEN members ELSE pending \ {item}
             /\ UNCHANGED members

Next == Deliver \/ \E item \in Items : Offer(item)

Spec == Init /\ [][Next]_vars /\ WF_vars(Deliver)
===============================================================================
