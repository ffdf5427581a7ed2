----------------------------- MODULE TokenVaults -----------------------------
(***************************************************************************)
(* One token, and the two contracts that hold it for others: Escrow and    *)
(* PaymentStreaming.  They share nothing but the token's balances, the     *)
(* admin's freezes and the ledger's clock.                                 *)
(***************************************************************************)
EXTENDS Escrow, PaymentStreaming, FiniteSetsExt

ASSUME VaultAssumption == EscrowContract # StreamContract

vars == <<now, tokenVars, escrowVars, streamVars>>

VaultTypeOK == TokenTypeOK /\ EscrowTypeOK /\ StreamTypeOK

Init == TokenInit /\ EscrowInit /\ StreamInit

\* A call of one contract leaves the storage of the others alone.
Next ==
  \/ TokenNext /\ UNCHANGED <<escrowVars, streamVars>>
  \/ EscrowNext /\ UNCHANGED streamVars
  \/ StreamNext /\ UNCHANGED escrowVars
  \/ StreamTick /\ UNCHANGED escrowVars

Spec == Init /\ [][Next]_vars

---------------------------------------------------------------------------
(* Properties *)

\* mint, burn and every transfer of the three contracts, a transfer to oneself
\* included: the balances add up to total_supply().
SupplyIsBalances == MapThenSumSet(LAMBDA a : balance[a], Address) = supply

\* What each contract owes: the amounts of the open escrows, the deposits of
\* the streams.
EscrowHeld == [i \in EscrowId |-> IF Open(escrows[i]) THEN escrows[i].amount ELSE 0]
StreamHeld == [i \in StreamId |-> streams[i].deposit]

\* "deposit always equals the number of tokens held by the contract on behalf
\* of this stream" (payment-streaming/src/lib.rs:62-63), and the same of an
\* open escrow's amount: each contract owns what it owes.
Solvent ==
  /\ balance[EscrowContract] >= MapThenSumSet(LAMBDA i : EscrowHeld[i], EscrowId)
  /\ balance[StreamContract] >= MapThenSumSet(LAMBDA i : StreamHeld[i], StreamId)

\* An escrow pays its whole amount once, to the side its final state names.
EscrowPaidOnce ==
  \A i \in EscrowId :
    /\ toRecipient[i] = IF escrows[i].state = "released" THEN escrows[i].amount ELSE 0
    /\ toDepositor[i] = IF escrows[i].state = "refunded" THEN escrows[i].amount ELSE 0

\* A recipient is never sent more than the stream earned while it was active,
\* whatever was topped up, paused, resumed or withdrawn in between.
NeverOverAccrues == \A i \in StreamId : streamed[i] <= earned[i]

\* Tokens of a frozen address stay where they are: no function of the three
\* contracts takes from it until the admin authorises it again.
FrozenKeepsFunds ==
  [][\A a \in Address : a \in frozen => balance'[a] >= balance[a]]_vars

\* Each contract keeps custody of what it was sent.
EscrowHolds == INSTANCE Custody WITH
  Item <- EscrowId,
  Largest <- I128Max,
  held <- EscrowHeld,
  received <- [i \in EscrowId |-> escrows[i].amount],
  paid <- [i \in EscrowId |-> toRecipient[i] + toDepositor[i]]

StreamHolds == INSTANCE Custody WITH
  Item <- StreamId,
  Largest <- I128Max,
  held <- StreamHeld,
  received <- funded,
  paid <- [i \in StreamId |-> streamed[i] + refunded[i]]

EscrowKeepsCustody == EscrowHolds!CustodySpec
StreamKeepsCustody == StreamHolds!CustodySpec

\* "Settle any accrued tokens as of now so they are not lost on resume"
\* (payment-streaming/src/lib.rs:211): what a stream has earned, up to what was
\* put into it, has been sent to the recipient or can still be withdrawn.
EarnedIsNotLost ==
  \A i \in StreamId :
    streams[i].state # "none" =>
      streamed[i] + Accrued(streams[i]) >= Min({earned[i], funded[i]})

=============================================================================
