------------------------------ MODULE Contracts ------------------------------
(***************************************************************************)
(* The contracts that hold no vault, on one ledger.  Three hand control    *)
(* over after a wait: SocialRecovery (an owner key), Proxy (a WASM hash)   *)
(* and Inheritance (a vault); three limit what others spend: SpendPolicy,  *)
(* SessionKeys and Paymaster.  They call nothing and share only the clock. *)
(***************************************************************************)
EXTENDS SocialRecovery, Proxy, Inheritance, SpendPolicy, SessionKeys, Paymaster, FiniteSets

CONSTANT MaxInUse  \* bound: how many of the contracts a behaviour sets up

governanceVars == <<recoveryVars, proxyVars, vault>>
spendingVars == <<policyVars, sessionVars, paymasterVars>>
vars == <<now, governanceVars>>

GovernanceTypeOK ==
  /\ now \in 0..LastNow
  /\ RecoveryTypeOK /\ ProxyTypeOK /\ InheritanceTypeOK

---------------------------------------------------------------------------
(* Those that hand control over. *)

Init == now = 0 /\ RecoveryInit /\ ProxyInit /\ InheritanceInit

InUse == {c \in {"recovery", "proxy", "inheritance"} :
            CASE c = "recovery" -> Registered
              [] c = "proxy" -> Initialized
              [] c = "inheritance" -> Owned}

Next ==
  /\ \/ RecoveryNext /\ UNCHANGED <<proxyVars, vault>>
     \/ ProxyNext /\ UNCHANGED <<recoveryVars, vault>>
     \/ InheritanceNext /\ UNCHANGED <<recoveryVars, proxyVars>>
     \/ LedgerCloses /\ UNCHANGED <<recoveryVars, proxyVars, vault>>
  /\ Cardinality(InUse') <= MaxInUse

Spec == Init /\ [][Next]_vars

---------------------------------------------------------------------------
(* All of them. *)

ContractsInit == Init /\ PolicyInit /\ SessionInit /\ PaymasterInit

SpendingInUse == {c \in {"policy", "sessions", "paymaster"} :
                    CASE c = "policy" -> HasMaster
                      [] c = "sessions" -> \E p \in Owner \X SessionKey : session[p] # NoSession
                      [] c = "paymaster" -> HasOwner \/ held > 0}

ContractsNext ==
  /\ \/ Next /\ UNCHANGED spendingVars
     \/ PolicyNext /\ UNCHANGED <<now, governanceVars, sessionVars, paymasterVars>>
     \/ SessionNext /\ UNCHANGED <<now, governanceVars, policyVars, paymasterVars>>
     \/ PaymasterNext /\ UNCHANGED <<now, governanceVars, policyVars, sessionVars>>
  /\ Cardinality(InUse') + Cardinality(SpendingInUse') <= MaxInUse

ContractsSpec == ContractsInit /\ [][ContractsNext]_<<vars, spendingVars>>

---------------------------------------------------------------------------
(* Properties *)

Recovering == Proposed /\ ~proposal.executed

\* A key rotates only by a proposal that as many different guardians signed as
\* the threshold in force asks for, and that is as old as the timelock in force;
\* a proposal that was cancelled or executed never rotates it again.
RecoveryVote == INSTANCE TimelockedQuorum WITH
  Signatory <- Guardian,
  Subject <- Key,
  Nothing <- NoProposal,
  quorum <- IF Registered THEN config.threshold ELSE 0,
  delay <- IF Registered THEN config.timelock ELSE 0,
  subject <- IF Recovering THEN proposal.newKey ELSE NoProposal,
  since <- IF Recovering THEN proposal.initiated ELSE 0,
  signed <- IF Recovering THEN ToSet(proposal.votes) ELSE {},
  enacted <- rotations

RecoveryIsQuorum == RecoveryVote!QuorumSpec

\* The same of an upgrade: approvals never carry over from one hash to another,
\* and the timelock counts from the proposal that is executed.
UpgradeVote == INSTANCE TimelockedQuorum WITH
  Signatory <- Signer,
  Subject <- WasmHash,
  Nothing <- NoValue,
  quorum <- threshold,
  delay <- timelock,
  subject <- IF HasPending THEN pending.hash ELSE NoValue,
  since <- proposedAt,
  signed <- IF HasPending THEN ToSet(pending.approvals) ELSE {},
  enacted <- deployed

UpgradeIsQuorum == UpgradeVote!QuorumSpec

=============================================================================
