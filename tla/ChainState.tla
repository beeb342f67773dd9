------------------------------ MODULE ChainState ------------------------------
(***************************************************************************)
(* The blockchain state the fuzzer works on and the one snapshot it takes   *)
(* (utils/snapshots.go, commitTransaction of utils/backend.go).             *)
(*                                                                          *)
(* A world is what go-ethereum's StateDB holds, reduced to the ether of the *)
(* accounts and of the contracts.  SnapshotBackend copies it, except for    *)
(* the numbers its balances point to.  RevertBackend assigns the struct,    *)
(* "*backend.StateDB = *backendSnapshot", so from then on both StateDBs     *)
(* hold the same Go maps: they are shared.                                  *)
(*                                                                          *)
(* NewBackend sets a balance to the *big.Int of the configured account,     *)
(* which is also an element of the *big.Int pool (backend.go:170,           *)
(* args.go:198).  The balance is tied to that element until ether moves:    *)
(* go-ethereum then points the balance to a new number, and so does the     *)
(* journal when it takes the movement back.                                 *)
(***************************************************************************)
EXTENDS Integers

CONSTANTS
  Accounts,   \* the accounts transactions are sent from
  Pooled      \* those whose balance in the snapshot is an element of the pool

\* db.live is backend.StateDB, db.snap is backendSnapshot; db.shared tells
\* whether the two hold the same maps.  tied: the accounts with a tied balance.
Worlds == [balance : [Accounts -> Nat], tied : SUBSET Pooled, held : Nat]
StateDBs == [live : Worlds, snap : Worlds, shared : BOOLEAN]

\* SnapshotBackend: StateDB.Copy() makes new maps and new objects in them, and
\* leaves the balances of both pointing to the same numbers.
SnapshotBackend(world) == [live |-> world, snap |-> world, shared |-> FALSE]

\* RevertBackend: an assignment of the struct, shallow in its maps.
RevertBackend(db) == [db EXCEPT !.live = db.snap, !.shared = TRUE]

\* Slip: the snapshot was not a deep copy.
WriteThrough(db, world) == [db EXCEPT !.live = world, !.snap = world]

\* A write to the live StateDB goes to the maps, hence to every holder of them.
Write(db, world) ==
  [db EXCEPT !.live = world, !.snap = IF db.shared THEN world ELSE db.snap]

\* The element of account a is halved in place: so is every balance tied to it.
Halved(world, a) ==
  IF a \in world.tied THEN [world EXCEPT !.balance[a] = @ \div 2] ELSE world
HalveAmount(db, a) ==
  [db EXCEPT !.live = Halved(db.live, a), !.snap = Halved(db.snap, a)]

\* The EVM refuses to start a transaction whose sender cannot pay its value.
CanTransfer(world, sender, value) == value <= world.balance[sender]

\* AddBalance and SubBalance return early when there is nothing to move.
StillTied(world, a, value) == IF value = 0 THEN world.tied ELSE world.tied \ {a}

\* The worlds an executed transaction can leave: the value moves from the
\* sender to the contract, which may pay all it holds to some account.
Transferred(world, sender, value) ==
  [balance |-> [world.balance EXCEPT ![sender] = @ - value],
   tied    |-> StillTied(world, sender, value),
   held    |-> world.held + value]
PaidOut(world, payee) ==
  [balance |-> [world.balance EXCEPT ![payee] = @ + world.held],
   tied    |-> StillTied(world, payee, world.held),
   held    |-> 0]
Successors(world, sender, value) ==
  LET moved == Transferred(world, sender, value)
  IN  {moved} \cup {PaidOut(moved, payee) : payee \in Accounts}

\* A failed transaction gives the ether back, but not the tie to the pool.
RolledBack(world, reached) == [world EXCEPT !.tied = reached.tied]
===============================================================================
