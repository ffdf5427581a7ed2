------------------------------ MODULE Paymaster ------------------------------
(***************************************************************************)
(* contracts/paymaster: deposits that pay the fees of users, for one token *)
(* whose balance of the contract is held.  A call that panics or answers   *)
(* an error is undone, so it is no step.                                   *)
(***************************************************************************)
EXTENDS LedgerClock, FiniteSets, FiniteSetsExt

CONSTANTS
  Sponsor, Sponsored,  \* who deposits, and the users they pay for
  EpochLength,         \* the epoch lengths, in ledgers, initialize() is given
  Fee,                 \* the amounts of all calls
  MaxHeld              \* bound: the tokens deposited in a behaviour

ASSUME PaymasterAssumption ==
  IsFiniteSet(Sponsor) /\ EpochLength \subseteq Nat /\ Fee \subseteq Int /\ MaxHeld \in Nat

VARIABLES
  epochLength,  \* DataKey::EpochLength; -1 before initialize()
  deposits,     \* DataKey::Deposit
  feeLimit,     \* DataKey::SpendLimit; 0 for none
  feeSpent,     \* DataKey::Spent, by <<user, epoch>>
  held,         \* the token's balance of the contract
  sponsoredFees, feesWithdrawn  \* history: sums of sponsor_invocation(), withdraw()

paymasterVars == <<epochLength, deposits, feeLimit, feeSpent, held, sponsoredFees, feesWithdrawn>>

PaymasterTypeOK ==
  /\ epochLength \in EpochLength \cup {-1}
  /\ deposits \in [Sponsor -> Nat]
  /\ feeLimit \in [Sponsored -> Nat]
  /\ feeSpent \in [Sponsored \X (0..LastNow) -> Nat]
  /\ held \in Nat /\ sponsoredFees \in Nat /\ feesWithdrawn \in Nat

PaymasterInit ==
  /\ epochLength = -1
  /\ deposits = [s \in Sponsor |-> 0]
  /\ feeLimit = [u \in Sponsored |-> 0]
  /\ feeSpent = [p \in Sponsored \X (0..LastNow) |-> 0]
  /\ held = 0 /\ sponsoredFees = 0 /\ feesWithdrawn = 0

HasOwner == epochLength >= 0

\* One ledger closes per unit of time: now stands for its sequence number.
CurrentEpoch == IF epochLength = 0 THEN 0 ELSE now \div epochLength

InitializePaymaster(length) ==
  /\ ~HasOwner
  /\ epochLength' = length
  /\ UNCHANGED <<deposits, feeLimit, feeSpent, held, sponsoredFees, feesWithdrawn>>

SetSpendLimit(u, limit) ==
  /\ HasOwner /\ limit >= 0
  /\ feeLimit' = [feeLimit EXCEPT ![u] = limit]
  /\ UNCHANGED <<epochLength, deposits, feeSpent, held, sponsoredFees, feesWithdrawn>>

\* deposit() does not ask for an owner.
Deposit(s, amount) ==
  /\ amount > 0 /\ held + feesWithdrawn + amount <= MaxHeld
  /\ held' = held + amount
  /\ deposits' = [deposits EXCEPT ![s] = @ + amount]
  /\ UNCHANGED <<epochLength, feeLimit, feeSpent, sponsoredFees, feesWithdrawn>>

\* A sponsorship that is counted for the user and not against the deposit.
SponsorInvocationFree(s, u, fee) ==
  /\ HasOwner /\ fee > 0 /\ deposits[s] >= fee
  /\ feeSpent' = [feeSpent EXCEPT ![<<u, CurrentEpoch>>] = @ + fee]
  /\ sponsoredFees' = sponsoredFees + fee
  /\ UNCHANGED <<epochLength, deposits, feeLimit, held, feesWithdrawn>>

SponsorInvocation(s, u, fee) ==
  LET p == <<u, CurrentEpoch>>
  IN /\ HasOwner /\ fee > 0
     /\ deposits[s] >= fee
     /\ feeLimit[u] > 0 => feeSpent[p] + fee <= feeLimit[u]
     /\ deposits' = [deposits EXCEPT ![s] = @ - fee]
     /\ feeSpent' = [feeSpent EXCEPT ![p] = @ + fee]
     /\ sponsoredFees' = sponsoredFees + fee
     /\ UNCHANGED <<epochLength, feeLimit, held, feesWithdrawn>>

WithdrawFees(amount) ==
  /\ HasOwner /\ amount > 0 /\ amount <= held
  /\ held' = held - amount
  /\ feesWithdrawn' = feesWithdrawn + amount
  /\ UNCHANGED <<epochLength, deposits, feeLimit, feeSpent, sponsoredFees>>

PaymasterNext ==
  \/ \E length \in EpochLength : InitializePaymaster(length)
  \/ \E amount \in Fee :
       \/ WithdrawFees(amount)
       \/ \E u \in Sponsored : SetSpendLimit(u, amount)
       \/ \E s \in Sponsor :
            \/ Deposit(s, amount)
            \/ \E u \in Sponsored : SponsorInvocation(s, u, amount)

---------------------------------------------------------------------------
(* Properties *)

\* withdraw() charges no deposit and looks at none: what the owner took beyond
\* the sponsored fees is missing from what the contract owes its sponsors.
Overdrawn == IF feesWithdrawn > sponsoredFees THEN feesWithdrawn - sponsoredFees ELSE 0

\* Nothing else is missing: no order of deposits, sponsorships of any sponsor for
\* any user, and withdrawals leaves the deposits uncovered by more than that.
DepositsCovered == held + Overdrawn >= MapThenSumSet(LAMBDA s : deposits[s], Sponsor)

=============================================================================
