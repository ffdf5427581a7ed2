------------------------------- MODULE Escrow -------------------------------
(***************************************************************************)
(* The escrow contract (contracts/escrow/src/lib.rs) over the token it     *)
(* holds: deposit, release, refund, raise_dispute, arbitrate.              *)
(***************************************************************************)
EXTENDS Token

CONSTANTS
  EscrowContract,  \* the contract's own address
  Deadline,        \* the deadlines a depositor may ask for
  MaxEscrows       \* bound: escrows created in a behaviour

ASSUME EscrowAssumption ==
  /\ EscrowContract \in Address \ User
  /\ Deadline \subseteq Nat
  /\ MaxEscrows \in Nat

EscrowId == 0..(MaxEscrows - 1)

VARIABLES
  escrows,      \* DataKey::Escrow(id)
  nextEscrow,   \* DataKey::NextId
  toRecipient,  \* history: tokens sent to each escrow's recipient
  toDepositor   \* history: tokens sent back to its depositor

escrowVars == <<escrows, nextEscrow, toRecipient, toDepositor>>

EscrowRecord == [depositor : User, recipient : Address, arbiter : User, amount : 1..I128Max,
                 deadline : Nat, state : {"deposited", "released", "refunded", "disputed"}]
NoEscrow == [amount |-> 0, state |-> "none"]

Open(e) == e.state \in {"deposited", "disputed"}

EscrowTypeOK ==
  /\ escrows \in [EscrowId -> EscrowRecord \cup {NoEscrow}]
  /\ nextEscrow \in 0..MaxEscrows
  /\ toRecipient \in [EscrowId -> Nat]
  /\ toDepositor \in [EscrowId -> Nat]
  /\ \A i \in EscrowId : escrows[i] = NoEscrow <=> i >= nextEscrow

EscrowInit ==
  /\ escrows = [i \in EscrowId |-> NoEscrow]
  /\ nextEscrow = 0
  /\ toRecipient = [i \in EscrowId |-> 0]
  /\ toDepositor = [i \in EscrowId |-> 0]

EscrowDeposit(depositor, recipient, arbiter, amount, deadline) ==
  /\ nextEscrow < MaxEscrows
  /\ amount > 0
  /\ deadline > now
  /\ Transfer(depositor, EscrowContract, amount)
  /\ escrows' = [escrows EXCEPT ![nextEscrow] =
       [depositor |-> depositor, recipient |-> recipient, arbiter |-> arbiter,
        amount |-> amount, deadline |-> deadline, state |-> "deposited"]]
  /\ nextEscrow' = nextEscrow + 1
  /\ UNCHANGED <<toRecipient, toDepositor>>

\* The escrow ends as Released and its amount goes to the recipient.
PayRecipient(i) ==
  /\ escrows' = [escrows EXCEPT ![i].state = "released"]
  /\ Transfer(EscrowContract, escrows[i].recipient, escrows[i].amount)
  /\ toRecipient' = [toRecipient EXCEPT ![i] = @ + escrows[i].amount]
  /\ UNCHANGED <<nextEscrow, toDepositor>>

\* The escrow ends as Refunded and its amount goes back to the depositor.
PayDepositor(i) ==
  /\ escrows' = [escrows EXCEPT ![i].state = "refunded"]
  /\ Transfer(EscrowContract, escrows[i].depositor, escrows[i].amount)
  /\ toDepositor' = [toDepositor EXCEPT ![i] = @ + escrows[i].amount]
  /\ UNCHANGED <<nextEscrow, toRecipient>>

\* Mutants of Release and RaiseDispute: the state check is dropped.
ReleaseAgain(i, caller) ==
  /\ escrows[i].state # "none"
  /\ caller \in {escrows[i].recipient, escrows[i].arbiter}
  /\ PayRecipient(i)

RaiseDisputeAgain(i, caller) ==
  /\ escrows[i].state # "none"
  /\ caller \in {escrows[i].depositor, escrows[i].recipient}
  /\ escrows' = [escrows EXCEPT ![i].state = "disputed"]
  /\ UNCHANGED <<tokenVars, nextEscrow, toRecipient, toDepositor>>

Release(i, caller) ==
  /\ escrows[i].state = "deposited"
  /\ caller \in {escrows[i].recipient, escrows[i].arbiter}
  /\ PayRecipient(i)

Refund(i, caller) ==
  /\ Open(escrows[i])
  /\ caller = escrows[i].depositor \/ now >= escrows[i].deadline
  /\ PayDepositor(i)

RaiseDispute(i, caller) ==
  /\ escrows[i].state = "deposited"
  /\ caller \in {escrows[i].depositor, escrows[i].recipient}
  /\ escrows' = [escrows EXCEPT ![i].state = "disputed"]
  /\ UNCHANGED <<tokenVars, nextEscrow, toRecipient, toDepositor>>

Arbitrate(i, caller, releaseToRecipient) ==
  /\ escrows[i].state = "disputed"
  /\ caller = escrows[i].arbiter
  /\ IF releaseToRecipient THEN PayRecipient(i) ELSE PayDepositor(i)

EscrowNext ==
  /\ UNCHANGED now
  /\ \/ \E d, b \in User, r \in Recipient, x \in Amount, t \in Deadline : EscrowDeposit(d, r, b, x, t)
     \/ \E i \in EscrowId, u \in User :
          \/ Release(i, u) \/ Refund(i, u) \/ RaiseDispute(i, u)
          \/ \E toRec \in BOOLEAN : Arbitrate(i, u, toRec)

=============================================================================
