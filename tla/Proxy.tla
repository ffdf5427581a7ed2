--------------------------------- MODULE Proxy ---------------------------------
(***************************************************************************)
(* The upgradeable proxy (contracts/proxy/src/lib.rs): signers approve a   *)
(* WASM hash, the admin manages them and may cancel.  initialize() asks    *)
(* for nobody's authorisation, so anyone may be its first caller.          *)
(***************************************************************************)
EXTENDS LedgerClock, Sequences, SequencesExt

CONSTANTS
  Admin,        \* who may be named admin
  Signer,       \* the addresses a signer set may hold
  SignerList,   \* the Vecs of them that initialize and set_signers may pass
  UpgradeDelay, \* the timelocks initialize may be given
  WasmHash,
  NoValue,      \* an absent storage key; also no WASM hash
  MaxUpgrades   \* bound: upgrades of a behaviour

ASSUME ProxyAssumption ==
  /\ NoValue \notin Admin \cup WasmHash
  /\ SignerList \subseteq Seq(Signer)
  /\ UpgradeDelay \subseteq Nat
  /\ MaxUpgrades \in Nat

VARIABLES
  proxyAdmin,   \* DataKey::Admin
  signers,      \* DataKey::Signers
  threshold,    \* DataKey::Threshold
  timelock,     \* DataKey::Timelock
  pending,      \* DataKey::PendingUpgrade
  proposedAt,   \* history: when the pending upgrade was proposed
  deployed      \* history: the WASM hashes update_current_contract_wasm was given

proxyVars == <<proxyAdmin, signers, threshold, timelock, pending, proposedAt, deployed>>

PendingUpgrade == [hash : WasmHash, unlock : Nat, approvals : Seq(Signer)]

ASSUME AbsentIsNoUpgrade == NoValue \notin PendingUpgrade

Initialized == proxyAdmin # NoValue
HasPending == pending # NoValue

\* A signer approves once, and the unlock time is the proposal's plus the delay.
ProxyTypeOK ==
  /\ proxyAdmin \in Admin \cup {NoValue}
  /\ signers \in Seq(Signer)
  /\ threshold \in Nat /\ timelock \in Nat /\ proposedAt \in Nat
  /\ Initialized => threshold > 0 /\ threshold <= Len(signers)
  /\ HasPending => /\ Initialized
                   /\ pending \in PendingUpgrade
                   /\ IsInjective(pending.approvals)
                   /\ pending.unlock = SaturatingAdd(proposedAt, timelock)
  /\ deployed \in Seq(WasmHash)

ProxyInit ==
  /\ proxyAdmin = NoValue
  /\ signers = << >> /\ threshold = 0 /\ timelock = 0
  /\ pending = NoValue /\ proposedAt = 0
  /\ deployed = << >>

---------------------------------------------------------------------------

IsSigner(s) == Contains(signers, s)

Initialize(a, ss, m, t) ==
  /\ ~Initialized
  /\ m # 0 /\ m <= Len(ss)
  /\ proxyAdmin' = a
  /\ signers' = ss
  /\ threshold' = m
  /\ timelock' = t
  /\ UNCHANGED <<pending, proposedAt, deployed>>

SetSigners(a, ss, m) ==
  /\ Initialized /\ a = proxyAdmin
  /\ m # 0 /\ m <= Len(ss)
  /\ signers' = ss
  /\ threshold' = m
  /\ UNCHANGED <<proxyAdmin, timelock, pending, proposedAt, deployed>>

ProposeUpgrade(s, h) ==
  /\ Initialized
  /\ IsSigner(s)
  /\ ~HasPending
  /\ pending' = [hash |-> h, unlock |-> SaturatingAdd(now, timelock), approvals |-> <<s>>]
  /\ proposedAt' = now
  /\ UNCHANGED <<proxyAdmin, signers, threshold, timelock, deployed>>

\* Mutant of ApproveUpgrade: a signer may approve again.
ApproveUpgradeAgain(s) ==
  /\ Initialized
  /\ IsSigner(s)
  /\ HasPending
  /\ pending' = [pending EXCEPT !.approvals = Append(@, s)]
  /\ UNCHANGED <<proxyAdmin, signers, threshold, timelock, proposedAt, deployed>>

ApproveUpgrade(s) ==
  /\ Initialized
  /\ IsSigner(s)
  /\ HasPending
  /\ ~Contains(pending.approvals, s)
  /\ pending' = [pending EXCEPT !.approvals = Append(@, s)]
  /\ UNCHANGED <<proxyAdmin, signers, threshold, timelock, proposedAt, deployed>>

ExecuteUpgrade ==
  /\ Len(deployed) < MaxUpgrades
  /\ HasPending
  /\ Len(pending.approvals) >= threshold
  /\ now >= pending.unlock
  /\ pending' = NoValue
  /\ proposedAt' = 0
  /\ deployed' = Append(deployed, pending.hash)
  /\ UNCHANGED <<proxyAdmin, signers, threshold, timelock>>

CancelUpgrade(a) ==
  /\ Initialized /\ a = proxyAdmin
  /\ HasPending
  /\ pending' = NoValue
  /\ proposedAt' = 0
  /\ UNCHANGED <<proxyAdmin, signers, threshold, timelock, deployed>>

ProxyNext ==
  /\ UNCHANGED now
  /\ \/ \E a \in Admin, ss \in SignerList : \E m \in 1..Len(ss) :
          SetSigners(a, ss, m) \/ \E t \in UpgradeDelay : Initialize(a, ss, m, t)
     \/ \E a \in Admin : CancelUpgrade(a)
     \/ \E s \in Signer : ApproveUpgrade(s) \/ \E h \in WasmHash : ProposeUpgrade(s, h)
     \/ ExecuteUpgrade

=============================================================================
