----------------------------- MODULE MCDeployment -----------------------------
(* Three projects for Deployment. *)
EXTENDS Deployment

Push(word) == <<"PUSH", word>>
Return(contract) == <<"RETURN", contract>>
Tx(from, n, value, trace) ==
  [from |-> from, nonce |-> n, value |-> value, trace |-> trace]
Code(methods) == [library |-> FALSE, methods |-> methods]
Library == [library |-> TRUE, methods |-> {"lib"}]
Setting(ignoreAll, ignored, stamps) ==
  [ignoreAll |-> ignoreAll, ignored |-> ignored, timestamps |-> stamps]

\* Lib is a library; one transaction creates two contracts; Bob's second
\* transaction is affordable only if his first one failed; Alice's transactions
\* after it depend on each other; an amount overflows an int64; the
\* configuration names a contract that is not deployed.
Crowdsale ==
  [contracts |-> ("Token" :> Code({"mint", "burn", "move"})) @@ ("Lib" :> Library) @@
                 ("Vault" :> Code({"take"})) @@ ("Migrations" :> Code({"upgrade"})),
   transactions |-> <<Tx("alice", 0, 0, <<Return("Migrations")>>),
                      Tx("alice", 1, 0, <<Push(3), Return("Lib"), Push(9)>>),
                      Tx("bob", 0, 1, <<Return("Vault")>>),
                      Tx("bob", 1, 2, <<Push(4), Return("Vault")>>),
                      Tx("alice", 2, 2, <<Return("Token"), Return("Vault")>>),
                      Tx("bob", 2, 20, <<Return("Token")>>)>>,
   accounts |-> ("alice" :> 2) @@ ("bob" :> 2),
   config |-> ("Token" :> Setting(FALSE, <<"burn", "none", "mint">>, {5})) @@
              ("Vault" :> Setting(TRUE, <<>>, {6})) @@
              ("Absent" :> Setting(TRUE, <<>>, {7}))]

\* Lib is a contract; one contract has no methods.
Wallet ==
  [contracts |-> ("Lib" :> Code({"lib"})) @@ ("Empty" :> Code({})) @@
                 ("Token" :> Code({"mint"})),
   transactions |-> <<Tx("alice", 0, 0, <<Return("Lib"), Push(5)>>),
                      Tx("alice", 1, 3, <<Return("Empty")>>),
                      Tx("alice", 2, 0, <<Return("Token")>>)>>,
   accounts |-> ("alice" :> 3) @@ ("carol" :> 1),
   config |-> ("Token" :> Setting(FALSE, <<"mint">>, {}))]

\* Carol's account is in the files of this project and the last one only; her
\* second transaction was not recorded; a contract is not among the compiled ones.
Auction ==
  [Wallet EXCEPT !.transactions = <<Tx("carol", 0, 1, <<Return("Lib"), Return("Alien")>>),
                                    Tx("carol", 2, 0, <<Return("Token")>>)>>]

ThreeProjects == ("Crowdsale" :> Crowdsale) @@ ("Wallet" :> Wallet) @@ ("Auction" :> Auction)
===============================================================================
