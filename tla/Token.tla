-------------------------------- MODULE Token --------------------------------
(***************************************************************************)
(* The SEP-41 token contract (contracts/token-sep41/src/lib.rs) and the    *)
(* ledger it runs on.  A contract call is one step: an error or a panic    *)
(* reverts everything the call wrote, so a failing call is no step at all. *)
(* Only a User signs; a contract address authorises what its own code does.*)
(* The overflow checks of the release profile make an i128 addition that   *)
(* leaves 0..I128Max a panic.                                              *)
(***************************************************************************)
EXTENDS Integers, FiniteSets

CONSTANTS
  Address,     \* everything that can hold tokens
  User,        \* the addresses that sign for themselves
  Spender,     \* the addresses approve() names; they too sign for themselves
  Issuer,      \* the addresses that may call initialize() first
  NoAdmin,     \* before initialize()
  Amount,      \* the i128 amounts a caller may pass
  Expiration,  \* the expiration ledgers approve() may be given
  I128Max,     \* the largest i128
  Recipient,   \* bound: the addresses named as recipient of an escrow or a stream
  MaxTime,     \* bound: ledgers closed in a behaviour
  MaxFrozen    \* bound: addresses frozen at once

ASSUME TokenAssumption ==
  /\ IsFiniteSet(Address)
  /\ User \subseteq Address
  /\ NoAdmin \notin Issuer
  /\ Recipient \subseteq Address
  /\ Amount \subseteq (-I128Max - 1)..I128Max
  /\ Expiration \subseteq Nat
  /\ I128Max \in Nat
  /\ MaxTime \in Nat
  /\ MaxFrozen \in Nat

VARIABLES
  now,       \* the ledger's sequence number and its timestamp
  admin,     \* DataKey::Admin
  balance,   \* DataKey::Balance
  supply,    \* DataKey::TotalSupply
  frozen,    \* the addresses whose DataKey::Authorized is false
  allowance  \* DataKey::Allowance, by <<from, spender>>

tokenVars == <<admin, balance, supply, frozen, allowance>>

Allowance == [amount : 0..I128Max, expires : Expiration \cup {0}]
NoAllowance == [amount |-> 0, expires |-> 0]

TokenTypeOK ==
  /\ now \in 0..MaxTime
  /\ admin \in Issuer \cup {NoAdmin}
  /\ balance \in [Address -> Nat]
  /\ supply \in Int /\ supply <= I128Max
  /\ frozen \subseteq Address
  /\ allowance \in [User \X Spender -> Allowance]

TokenInit ==
  /\ now = 0
  /\ admin = NoAdmin
  /\ balance = [a \in Address |-> 0]
  /\ supply = 0
  /\ frozen = {}
  /\ allowance = [p \in User \X Spender |-> NoAllowance]

---------------------------------------------------------------------------
(* The internal helpers. *)

\* Mutants of CanTransfer and Moved: the sender's freeze is not looked at; the
\* receiver's balance is read before the sender's is written.
CanTransferFrozen(from, to, amount) ==
  /\ amount >= 0
  /\ to \notin frozen
  /\ balance[from] >= amount

MovedStale(bal, from, to, amount) ==
  [[bal EXCEPT ![from] = @ - amount] EXCEPT ![to] = bal[to] + amount]

\* do_transfer: when it does not panic, and the balances it leaves.  The
\* receiver's balance is read after the sender's was written.
CanTransfer(from, to, amount) ==
  /\ amount >= 0
  /\ from \notin frozen /\ to \notin frozen
  /\ balance[from] >= amount

Moved(bal, from, to, amount) ==
  [[bal EXCEPT ![from] = @ - amount] EXCEPT ![to] = @ + amount]

DoTransfer(from, to, amount) ==
  /\ CanTransfer(from, to, amount)
  /\ balance' = Moved(balance, from, to, amount)
  /\ UNCHANGED <<admin, supply, frozen>>

DoBurn(from, amount) ==
  /\ amount >= 0
  /\ from \notin frozen
  /\ balance[from] >= amount
  /\ balance' = [balance EXCEPT ![from] = @ - amount]
  /\ supply' = supply - amount
  /\ UNCHANGED <<admin, frozen>>

\* spend_allowance writes before do_transfer refuses a negative amount, and
\* the panic reverts the write.
SpendAllowance(from, spender, amount) ==
  LET a == allowance[<<from, spender>>]
  IN /\ a.expires >= now
     /\ a.amount >= amount
     /\ allowance' = [allowance EXCEPT ![<<from, spender>>] = [a EXCEPT !.amount = @ - amount]]

---------------------------------------------------------------------------
(* The contract's functions. *)

Initialize(a) ==
  /\ admin = NoAdmin
  /\ admin' = a
  /\ supply' = 0
  /\ UNCHANGED <<balance, frozen, allowance>>

Transfer(from, to, amount) ==
  /\ DoTransfer(from, to, amount)
  /\ UNCHANGED allowance

TransferFrom(spender, from, to, amount) ==
  /\ SpendAllowance(from, spender, amount)
  /\ DoTransfer(from, to, amount)

Burn(from, amount) ==
  /\ DoBurn(from, amount)
  /\ UNCHANGED allowance

BurnFrom(spender, from, amount) ==
  /\ SpendAllowance(from, spender, amount)
  /\ DoBurn(from, amount)

Approve(from, spender, amount, expires) ==
  /\ amount >= 0
  /\ expires >= now
  /\ allowance' = [allowance EXCEPT ![<<from, spender>>] = [amount |-> amount, expires |-> expires]]
  /\ UNCHANGED <<admin, balance, supply, frozen>>

Mint(to, amount) ==
  /\ admin # NoAdmin
  /\ amount >= 0
  /\ supply + amount <= I128Max
  /\ supply' = supply + amount
  /\ balance' = [balance EXCEPT ![to] = @ + amount]
  /\ UNCHANGED <<admin, frozen, allowance>>

SetAuthorized(a, authorize) ==
  /\ admin # NoAdmin
  /\ frozen' = IF authorize THEN frozen \ {a} ELSE frozen \cup {a}
  /\ Cardinality(frozen') <= MaxFrozen
  /\ UNCHANGED <<admin, balance, supply, allowance>>

TokenNext ==
  /\ UNCHANGED now
  /\ \/ \E a \in Issuer : Initialize(a)
     \/ \E a \in Address, authorize \in BOOLEAN : SetAuthorized(a, authorize)
     \/ \E u \in User, to \in Address, x \in Amount : Transfer(u, to, x)
     \/ \E s \in Spender, u \in User, to \in Address, x \in Amount : TransferFrom(s, u, to, x)
     \/ \E u \in User, x \in Amount : Burn(u, x)
     \/ \E s \in Spender, u \in User, x \in Amount : BurnFrom(s, u, x)
     \/ \E s \in Spender, u \in User, x \in Amount, e \in Expiration : Approve(u, s, x, e)
     \/ \E to \in Address, x \in Amount : Mint(to, x)

\* A ledger closes.
Tick == now < MaxTime /\ now' = now + 1

=============================================================================
