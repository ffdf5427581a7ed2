------------------------------ MODULE Inheritance ------------------------------
(***************************************************************************)
(* The inheritance vault (contracts/inheritance/src/lib.rs): a beneficiary *)
(* may take it over once its owner has been silent for longer than the     *)
(* dormancy period.                                                        *)
(***************************************************************************)
EXTENDS LedgerClock

CONSTANTS
  Heir,     \* owners and beneficiaries
  Dormancy, \* the dormancy periods an owner may ask for
  Nobody    \* an absent owner

ASSUME InheritanceAssumption == Nobody \notin Heir /\ Dormancy \subseteq Nat

VARIABLE vault  \* the contract's instance storage

Vault == [owner : Heir \cup {Nobody}, beneficiary : Heir \cup {Nobody}, dormancy : Nat,
          heartbeat : Nat, claimed : BOOLEAN]
EmptyVault == [owner |-> Nobody, beneficiary |-> Nobody, dormancy |-> 0,
               heartbeat |-> 0, claimed |-> FALSE]

Owned == vault.owner # Nobody

\* The dormancy period is never 0 and the beneficiary is set, so claim() never
\* falls back on the defaults it reads with; what was claimed stays with the
\* beneficiary who claimed it.
InheritanceTypeOK ==
  /\ vault \in Vault
  /\ Owned => vault.dormancy > 0 /\ vault.beneficiary # Nobody
  /\ vault.claimed => vault.owner = vault.beneficiary

InheritanceInit == vault = EmptyVault

InitVault(owner, beneficiary, dormancy) ==
  /\ ~Owned
  /\ dormancy # 0
  /\ vault' = [owner |-> owner, beneficiary |-> beneficiary, dormancy |-> dormancy,
               heartbeat |-> now, claimed |-> FALSE]

Heartbeat ==
  /\ Owned /\ ~vault.claimed
  /\ vault' = [vault EXCEPT !.heartbeat = now]

SetBeneficiary(b) ==
  /\ Owned /\ ~vault.claimed
  /\ vault' = [vault EXCEPT !.beneficiary = b]

\* The heartbeat is not refreshed: the new period counts from the old one.
SetDormancy(dormancy) ==
  /\ Owned /\ ~vault.claimed
  /\ dormancy # 0
  /\ vault' = [vault EXCEPT !.dormancy = dormancy]

Claim ==
  /\ Owned /\ ~vault.claimed
  /\ SaturatingSub(now, vault.heartbeat) > vault.dormancy
  /\ vault' = [vault EXCEPT !.owner = vault.beneficiary, !.claimed = TRUE]

InheritanceNext ==
  /\ UNCHANGED now
  /\ \/ \E o, b \in Heir, d \in Dormancy : InitVault(o, b, d)
     \/ Heartbeat
     \/ \E b \in Heir : SetBeneficiary(b)
     \/ \E d \in Dormancy : SetDormancy(d)
     \/ Claim

=============================================================================
