------------------------------ MODULE BigIntPool ------------------------------
(***************************************************************************)
(* The pool of *big.Int values together with its two unusual clients:       *)
(*                                                                          *)
(*  - getRandomAmountFromAddress (utils/generator.go) draws from the pool   *)
(*    until a value does not exceed the sender's balance: a loop with no    *)
(*    exit of its own;                                                      *)
(*  - the half-ether heuristic of Rec (utils/heuristics.go:162) shifts the  *)
(*    drawn amount right IN PLACE.  The amount is the pointer the pool      *)
(*    handed out, so the pool's own element is halved, while its key in     *)
(*    storageMap stays.                                                     *)
(*                                                                          *)
(* The program has one thread: nothing else runs while the loop draws.      *)
(***************************************************************************)
EXTENDS RingPool

CONSTANTS Balances   \* the balances a sender can have

ASSUME ValuesAssumption == /\ Items \subseteq Nat
                           /\ 0 \in Items
                           /\ Balances \subseteq Nat

VARIABLES searching,  \* the loop of getRandomAmountFromAddress is running
          balance,    \* the sender's balance it compares with
          amount,     \* the cell whose pointer is hint.Amount; 0: none
          start,      \* history: the cursor when the loop started
          tries       \* history: values drawn by the loop, up to one more than
                      \* the pool holds
loopVars == <<searching, balance, amount, start, tries>>
bigVars == <<vars, loopVars>>

\* Slip: the pool starts with the powers of two only.
InitArgPoolNoZero == /\ storage = <<1>>
                     /\ storageMap = {1}
                     /\ idx = 0
                     /\ out = NoItem

\* InitArgPool puts 0 in first.  The powers of two and the account balances
\* follow, in an order that does not matter here: they come through AddItem.
InitArgPool == /\ storage = <<0>>
               /\ storageMap = {0}
               /\ idx = 0
               /\ out = NoItem

BigInit == /\ InitArgPool
           /\ searching = FALSE
           /\ balance = 0
           /\ amount = 0
           /\ start = 0
           /\ tries = 0

\* GenTransaction for a payable method without an amount hint.
BeginSearch(bal) == /\ ~searching
                    /\ searching' = TRUE
                    /\ balance' = bal
                    /\ amount' = 0
                    /\ start' = idx
                    /\ tries' = 0
                    /\ UNCHANGED vars

OneMoreTry == IF tries <= Len(storage) THEN tries + 1 ELSE tries

\* Slip: Cmp(balance) >= 0 instead of >= 1.
DrawStrict == /\ searching
              /\ NextItem
              /\ amount' = idx + 1
              /\ tries' = OneMoreTry
              /\ searching' = (Current >= balance)
              /\ UNCHANGED <<balance, start>>

\* Slip: the element the cursor moved on to is taken for the drawn one.
DrawFollowing == /\ searching
                 /\ NextItem
                 /\ amount' = idx' + 1
                 /\ tries' = OneMoreTry
                 /\ searching' = (Current > balance)
                 /\ UNCHANGED <<balance, start>>

\* Slip: off by one, past the end of the buffer.
DrawPastEnd == /\ searching
               /\ NextItem
               /\ amount' = idx + 2
               /\ tries' = OneMoreTry
               /\ searching' = (Current > balance)
               /\ UNCHANGED <<balance, start>>

\* One NextBigInt of the loop and the comparison that follows it.
Draw == /\ searching
        /\ NextItem
        /\ amount' = idx + 1
        /\ tries' = OneMoreTry
        /\ searching' = (Current > balance)
        /\ UNCHANGED <<balance, start>>

\* An argument of a call takes a value (fillRecursively).
DrawArgument == /\ ~searching
                /\ NextItem
                /\ UNCHANGED loopVars

\* UpdatePool adds a value a transaction returned.
AddReturned(item) == /\ ~searching
                     /\ AddItem(item)
                     /\ UNCHANGED loopVars

\* hint.Amount.Rsh(hint.Amount, 1), for a transaction that carried ether.
HalveAmount == /\ ~searching
               /\ amount # 0
               /\ storage[amount] > 0
               /\ storage' = [storage EXCEPT ![amount] = @ \div 2]
               /\ UNCHANGED <<storageMap, idx, out, loopVars>>

BigNext == \/ \E bal \in Balances : BeginSearch(bal)
           \/ Draw
           \/ DrawArgument
           \/ \E item \in Items : AddReturned(item)
           \/ HalveAmount

BigSpec == BigInit /\ [][BigNext]_bigVars /\ WF_bigVars(Draw)
-------------------------------------------------------------------------------
BigTypeOK == /\ storage \in Seq(Nat)
             /\ storageMap \subseteq Items
             /\ idx \in 0 .. Len(storage) - 1
             /\ out \in Nat \cup {NoItem}
             /\ searching \in BOOLEAN
             /\ balance \in Nat
             /\ amount \in 0 .. Len(storage)
             /\ start \in 0 .. Len(storage) - 1
             /\ tries \in Nat

\* The loop of getRandomAmountFromAddress never draws more values than the pool
\* holds: within one round it meets an affordable one, whatever was halved,
\* appended or drawn before it started.
SearchBounded == tries <= Len(storage)

\* The amount the loop settled on, also after any number of halvings, is one
\* the sender could pay when it was drawn.
AmountAffordable == (~searching /\ amount # 0) => storage[amount] <= balance

\* The loop of getRandomAmountFromAddress ends.
SearchTerminates == searching ~> ~searching
===============================================================================
