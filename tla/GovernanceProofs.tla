--------------------------- MODULE GovernanceProofs ---------------------------
(***************************************************************************)
(* A rotation of an owner key and an upgrade of a proxy are timelocked     *)
(* quorum decisions, for every set of guardians and signers, every list of *)
(* them and every timelock; a session key leads to a live session that     *)
(* stays within its quota; the deposits of sponsors are covered, and no    *)
(* rolling window is overspent: among the contracts on one ledger.         *)
(***************************************************************************)
EXTENDS Contracts, FiniteSetTheorems, FoldTheorems, TLAPS

---------------------------------------------------------------------------
(* Vecs without repetition: Len, which the code compares, counts voters. *)

LEMMA CountsVoters ==
  ASSUME NEW S, NEW v \in Seq(S), IsInjective(v)
  PROVE  Cardinality(ToSet(v)) = Len(v)
<1>1. v \in Bijection(1..Len(v), ToSet(v))
  BY DEF Bijection, Injection, Surjection, IsInjective, ToSet
<1>2. ExistsBijection(1..Len(v), ToSet(v))
  BY <1>1 DEF ExistsBijection
<1> QED BY <1>2, FS_CountingElements

LEMMA AppendVoter ==
  ASSUME NEW S, NEW v \in Seq(S), IsInjective(v), NEW s \in S, ~Contains(v, s)
  PROVE  /\ Append(v, s) \in Seq(S)
         /\ IsInjective(Append(v, s))
         /\ ToSet(Append(v, s)) = ToSet(v) \cup {s}
         /\ s \notin ToSet(v)
<1>1. /\ Append(v, s) \in Seq(S)
      /\ DOMAIN Append(v, s) = 1..(Len(v) + 1)
      /\ \A n \in 1..Len(v) : Append(v, s)[n] = v[n]
      /\ Append(v, s)[Len(v) + 1] = s
  OBVIOUS
<1>2. s \notin ToSet(v)
  BY DEF Contains, ToSet
<1>3. IsInjective(Append(v, s))
  BY <1>1 DEF IsInjective, Contains
<1>4. ToSet(Append(v, s)) = ToSet(v) \cup {s}
  BY <1>1 DEF ToSet
<1> QED BY <1>1, <1>2, <1>3, <1>4

LEMMA SingleVoter ==
  ASSUME NEW S, NEW s \in S
  PROVE  <<s>> \in Seq(S) /\ IsInjective(<<s>>) /\ ToSet(<<s>>) = {s} /\ Len(<<s>>) = 1
BY DEF IsInjective, ToSet

LEMMA SaturatesUp ==
  ASSUME NEW x \in Nat, NEW d \in Nat
  PROVE  SaturatingAdd(x, d) \in Nat /\ (SaturatingAdd(x, d) <= LastNow => SaturatingAdd(x, d) = x + d)
BY ClockAssumption DEF SaturatingAdd

---------------------------------------------------------------------------
(* SocialRecovery *)

ClockOK == now \in 0..LastNow

LEMMA RecoveryStepType ==
  ASSUME ClockOK, RecoveryTypeOK, RecoveryNext
  PROVE  RecoveryTypeOK'
<1> USE RecoveryAssumption DEF Registered, Proposed
<1>1. ASSUME NEW gs \in GuardianList, NEW t \in Timelock, NEW k \in Key, NEW m \in 1..Len(gs),
             RegisterGuardians(gs, m, t, k)
      PROVE RecoveryTypeOK'
  <2>1. gs \in Seq(Guardian) /\ m \in Nat \ {0} /\ m <= Len(gs)
    OBVIOUS
  <2>2. config' \in AccountConfig /\ config'.threshold <= Len(config'.guardians)
    BY <1>1, <2>1 DEF RegisterGuardians, AccountConfig
  <2> QED BY <1>1, <2>2, AbsentIsNoRecord DEF RegisterGuardians, RecoveryTypeOK
<1>2. ASSUME NEW g \in Guardian, NEW k \in Key, InitiateRecovery(g, k) PROVE RecoveryTypeOK'
  BY <1>2, SingleVoter, ClockAssumption DEF InitiateRecovery, RecoveryTypeOK, RecoveryProposal, ClockOK
<1>3. ASSUME NEW g \in Guardian, VoteRecovery(g) PROVE RecoveryTypeOK'
  <2>1. proposal \in RecoveryProposal /\ IsInjective(proposal.votes) /\ ~Contains(proposal.votes, g)
    BY <1>3 DEF VoteRecovery, RecoveryTypeOK, HasVoted
  <2>2. Append(proposal.votes, g) \in Seq(Guardian) /\ IsInjective(Append(proposal.votes, g))
    BY <2>1, AppendVoter DEF RecoveryProposal
  <2> QED BY <1>3, <2>1, <2>2 DEF VoteRecovery, RecoveryTypeOK, RecoveryProposal
<1>4. CASE ExecuteRecovery
  <2>1. /\ config \in AccountConfig /\ config.threshold <= Len(config.guardians)
        /\ proposal \in RecoveryProposal /\ IsInjective(proposal.votes) /\ rotations \in Seq(Key)
    BY <1>4 DEF ExecuteRecovery, RecoveryTypeOK
  <2>2. /\ config' \in AccountConfig /\ config'.threshold <= Len(config'.guardians)
        /\ proposal' \in RecoveryProposal /\ IsInjective(proposal'.votes)
    BY <1>4, <2>1 DEF ExecuteRecovery, AccountConfig, RecoveryProposal
  <2>3. rotations' \in Seq(Key)
    BY <1>4, <2>1 DEF ExecuteRecovery, RecoveryProposal
  <2> QED BY <2>2, <2>3, AbsentIsNoRecord DEF RecoveryTypeOK
<1>5. CASE CancelRecovery
  BY <1>5 DEF CancelRecovery, RecoveryTypeOK, RecoveryProposal
<1> QED BY <1>1, <1>2, <1>3, <1>4, <1>5 DEF RecoveryNext

---------------------------------------------------------------------------
(* Proxy *)

LEMMA ProxyStepType ==
  ASSUME ClockOK, ProxyTypeOK, ProxyNext
  PROVE  ProxyTypeOK'
<1> USE ProxyAssumption DEF Initialized, HasPending
<1>1. ASSUME NEW a \in Admin, NEW ss \in SignerList, NEW m \in 1..Len(ss), SetSigners(a, ss, m)
      PROVE ProxyTypeOK'
  BY <1>1 DEF SetSigners, ProxyTypeOK, SaturatingAdd
<1>2. ASSUME NEW a \in Admin, NEW ss \in SignerList, NEW m \in 1..Len(ss), NEW t \in UpgradeDelay,
             Initialize(a, ss, m, t)
      PROVE ProxyTypeOK'
  BY <1>2 DEF Initialize, ProxyTypeOK
<1>3. ASSUME NEW a \in Admin, CancelUpgrade(a) PROVE ProxyTypeOK'
  BY <1>3 DEF CancelUpgrade, ProxyTypeOK
<1>4. ASSUME NEW s \in Signer, ApproveUpgrade(s) PROVE ProxyTypeOK'
  <2>1. /\ pending \in PendingUpgrade /\ IsInjective(pending.approvals)
        /\ ~Contains(pending.approvals, s)
    BY <1>4 DEF ApproveUpgrade, ProxyTypeOK
  <2>2. Append(pending.approvals, s) \in Seq(Signer) /\ IsInjective(Append(pending.approvals, s))
    BY <2>1, AppendVoter DEF PendingUpgrade
  <2> QED BY <1>4, <2>1, <2>2 DEF ApproveUpgrade, ProxyTypeOK, PendingUpgrade, SaturatingAdd
<1>5. ASSUME NEW s \in Signer, NEW h \in WasmHash, ProposeUpgrade(s, h) PROVE ProxyTypeOK'
  <2>1. now \in Nat /\ timelock \in Nat /\ SaturatingAdd(now, timelock) \in Nat
    BY ClockAssumption DEF ClockOK, ProxyTypeOK, SaturatingAdd
  <2>2. <<s>> \in Seq(Signer) /\ IsInjective(<<s>>)
    BY SingleVoter
  <2>3. /\ pending' \in PendingUpgrade /\ IsInjective(pending'.approvals)
        /\ pending'.unlock = SaturatingAdd(now, timelock)
    BY <1>5, <2>1, <2>2 DEF ProposeUpgrade, PendingUpgrade
  <2>4. (SaturatingAdd(proposedAt, timelock))' = SaturatingAdd(now, timelock)
    BY <1>5 DEF ProposeUpgrade, SaturatingAdd
  <2> QED BY <1>5, <2>1, <2>3, <2>4 DEF ProposeUpgrade, ProxyTypeOK
<1>6. CASE ExecuteUpgrade
  BY <1>6 DEF ExecuteUpgrade, ProxyTypeOK, PendingUpgrade
<1> QED BY <1>1, <1>2, <1>3, <1>4, <1>5, <1>6 DEF ProxyNext

---------------------------------------------------------------------------
(* Inheritance *)

LEMMA InheritanceStepType ==
  ASSUME ClockOK, InheritanceTypeOK, InheritanceNext
  PROVE  InheritanceTypeOK'
<1> USE InheritanceAssumption DEF Owned, Vault, InheritanceTypeOK
<1>1. ASSUME NEW o \in Heir, NEW b \in Heir, NEW d \in Dormancy, InitVault(o, b, d)
      PROVE InheritanceTypeOK'
  <2>1. now \in Nat /\ d \in Nat /\ d > 0
    BY <1>1 DEF ClockOK, InitVault
  <2> QED BY <1>1, <2>1 DEF InitVault
<1>2. CASE Heartbeat
  BY <1>2 DEF Heartbeat, ClockOK
<1>3. ASSUME NEW b \in Heir, SetBeneficiary(b) PROVE InheritanceTypeOK'
  BY <1>3 DEF SetBeneficiary
<1>4. ASSUME NEW d \in Dormancy, SetDormancy(d) PROVE InheritanceTypeOK'
  BY <1>4 DEF SetDormancy
<1>5. CASE Claim
  BY <1>5 DEF Claim
<1> QED BY <1>1, <1>2, <1>3, <1>4, <1>5 DEF InheritanceNext

\* No guardian or signer is on a list of votes twice, a threshold is at most the length
\* of its list of guardians or signers, which may repeat one, an upgrade unlocks at its
\* proposal plus the delay, and a claimed vault is its beneficiary's.
THEOREM GovernanceTypes == Spec => []GovernanceTypeOK
<1>1. Init => GovernanceTypeOK
  BY ClockAssumption, ProxyAssumption, InheritanceAssumption
     DEF Init, GovernanceTypeOK, RecoveryInit, ProxyInit, InheritanceInit, RecoveryTypeOK,
         ProxyTypeOK, InheritanceTypeOK, Registered, Proposed, Initialized, HasPending, Owned,
         Vault, EmptyVault
<1>2. GovernanceTypeOK /\ [Next]_vars => GovernanceTypeOK'
  <2> SUFFICES ASSUME GovernanceTypeOK, [Next]_vars PROVE GovernanceTypeOK'
    OBVIOUS
  <2> USE DEF GovernanceTypeOK
  <2>1. ASSUME UNCHANGED recoveryVars PROVE RecoveryTypeOK'
    BY <2>1 DEF recoveryVars, RecoveryTypeOK, Registered, Proposed
  <2>2. ASSUME UNCHANGED proxyVars PROVE ProxyTypeOK'
    BY <2>2 DEF proxyVars, ProxyTypeOK, Initialized, HasPending
  <2>3. ASSUME UNCHANGED vault PROVE InheritanceTypeOK'
    BY <2>3 DEF InheritanceTypeOK, Owned
  <2>4. CASE RecoveryNext /\ UNCHANGED <<proxyVars, vault>>
    BY <2>2, <2>3, <2>4, RecoveryStepType DEF ClockOK, RecoveryNext
  <2>5. CASE ProxyNext /\ UNCHANGED <<recoveryVars, vault>>
    BY <2>1, <2>3, <2>5, ProxyStepType DEF ClockOK, ProxyNext
  <2>6. CASE InheritanceNext /\ UNCHANGED <<recoveryVars, proxyVars>>
    BY <2>1, <2>2, <2>6, InheritanceStepType DEF ClockOK, InheritanceNext
  <2>7. CASE LedgerCloses /\ UNCHANGED <<recoveryVars, proxyVars, vault>>
    BY <2>1, <2>2, <2>3, <2>7, ClockAssumption DEF LedgerCloses
  <2>8. CASE UNCHANGED vars
    BY <2>1, <2>2, <2>3, <2>8 DEF vars, governanceVars
  <2> QED BY <2>4, <2>5, <2>6, <2>7, <2>8 DEF Next
<1> QED BY <1>1, <1>2, PTL DEF Spec

---------------------------------------------------------------------------
(* The recovery is a quorum decision. *)

LEMMA RecoveryStepIsQuorum ==
  ASSUME ClockOK, RecoveryTypeOK, RecoveryNext
  PROVE  [RecoveryVote!QuorumNext]_RecoveryVote!quorumVars
<1> USE DEF Registered, Proposed, Recovering
<1> USE DEF RecoveryVote!quorumVars
<1>0. UNCHANGED now
  BY DEF RecoveryNext
<1>1. ASSUME NEW gs \in GuardianList, NEW t \in Timelock, NEW k \in Key, NEW m \in 1..Len(gs),
             RegisterGuardians(gs, m, t, k)
      PROVE RecoveryVote!Configure
  <2>1. m \in Nat \ {0} /\ t \in Nat
    BY RecoveryAssumption
  <2>2. config' # NoConfig /\ config'.threshold = m /\ config'.timelock = t
    <3>1. gs \in Seq(Guardian)
      BY RecoveryAssumption
    <3>2. config' \in AccountConfig
      BY <1>1, <2>1, <3>1 DEF RegisterGuardians, AccountConfig
    <3> QED BY <1>1, <3>2, AbsentIsNoRecord DEF RegisterGuardians
  <2> QED BY <1>0, <1>1, <2>1, <2>2 DEF RegisterGuardians, RecoveryVote!Configure
<1>2. ASSUME NEW g \in Guardian, NEW k \in Key, InitiateRecovery(g, k)
      PROVE RecoveryVote!Propose(g, k)
  <2>1. proposal' \in RecoveryProposal /\ ToSet(<<g>>) = {g}
    BY <1>2, SingleVoter, ClockAssumption DEF InitiateRecovery, RecoveryProposal, ClockOK
  <2>2. proposal' # NoProposal /\ proposal'.newKey = k /\ proposal'.initiated = now
        /\ proposal'.votes = <<g>> /\ ~proposal'.executed /\ UNCHANGED <<config, rotations>>
    BY <1>2, <2>1, AbsentIsNoRecord DEF InitiateRecovery
  <2> QED BY <1>0, <1>2, <2>1, <2>2 DEF InitiateRecovery, RecoveryVote!Propose
<1>3. ASSUME NEW g \in Guardian, VoteRecovery(g) PROVE RecoveryVote!Sign(g)
  <2>1. /\ proposal \in RecoveryProposal /\ IsInjective(proposal.votes)
        /\ ~Contains(proposal.votes, g) /\ Recovering
    BY <1>3 DEF VoteRecovery, RecoveryTypeOK, HasVoted
  <2>2. /\ ToSet(Append(proposal.votes, g)) = ToSet(proposal.votes) \cup {g}
        /\ g \notin ToSet(proposal.votes)
        /\ Append(proposal.votes, g) \in Seq(Guardian)
    BY <2>1, AppendVoter DEF RecoveryProposal
  <2>3. /\ proposal' \in RecoveryProposal
        /\ proposal'.newKey = proposal.newKey /\ proposal'.initiated = proposal.initiated
        /\ proposal'.votes = Append(proposal.votes, g) /\ ~proposal'.executed
        /\ UNCHANGED <<config, rotations>>
    BY <1>3, <2>1, <2>2 DEF VoteRecovery, RecoveryProposal
  <2>4. proposal.newKey # NoProposal /\ proposal' # NoProposal
    BY <2>1, <2>3, AbsentIsNoRecord, RecoveryAssumption DEF RecoveryProposal
  <2> QED BY <1>0, <2>1, <2>2, <2>3, <2>4 DEF RecoveryVote!Sign
<1>4. ASSUME ExecuteRecovery PROVE RecoveryVote!Enact
  <2>1. /\ config \in AccountConfig /\ proposal \in RecoveryProposal
        /\ IsInjective(proposal.votes) /\ Recovering
    BY <1>4 DEF ExecuteRecovery, RecoveryTypeOK
  <2>2. Cardinality(ToSet(proposal.votes)) = Len(proposal.votes)
    BY <2>1, CountsVoters DEF RecoveryProposal
  <2>3. now >= proposal.initiated + config.timelock
    BY <1>4, <2>1, ClockAssumption, RecoveryAssumption
       DEF ExecuteRecovery, SaturatingAdd, ClockOK, RecoveryProposal, AccountConfig
  <2>4. /\ proposal' \in RecoveryProposal /\ proposal'.executed
        /\ config' \in AccountConfig
        /\ config'.threshold = config.threshold /\ config'.timelock = config.timelock
    BY <1>4, <2>1 DEF ExecuteRecovery, RecoveryProposal, AccountConfig
  <2>5. proposal.newKey # NoProposal /\ config' # NoConfig /\ config.threshold > 0
    BY <2>1, <2>4, AbsentIsNoRecord, RecoveryAssumption DEF RecoveryProposal, AccountConfig
  <2>6. RecoveryVote!Close
    BY <2>1, <2>4, <2>5 DEF RecoveryVote!Close
  <2>7. /\ config # NoConfig /\ proposal # NoProposal /\ ~proposal.executed
        /\ Len(proposal.votes) >= config.threshold
        /\ rotations' = Append(rotations, proposal.newKey)
    BY <1>4 DEF ExecuteRecovery
  <2>8. RecoveryVote!Cardinality(ToSet(proposal.votes)) = Cardinality(ToSet(proposal.votes))
    BY Zenon DEF RecoveryVote!Cardinality, Cardinality
  <2>9. RecoveryVote!Cardinality(ToSet(proposal.votes)) >= config.threshold
    BY <2>2, <2>7, <2>8
  <2> QED BY <1>0, <2>3, <2>4, <2>5, <2>6, <2>7, <2>9 DEF RecoveryVote!Enact
<1>5. ASSUME CancelRecovery PROVE RecoveryVote!Drop
  <2>1. proposal \in RecoveryProposal /\ Recovering
    BY <1>5 DEF CancelRecovery, RecoveryTypeOK
  <2>2. proposal'.executed /\ proposal.newKey # NoProposal /\ UNCHANGED <<config, rotations>>
    BY <1>5, <2>1, RecoveryAssumption DEF CancelRecovery, RecoveryProposal
  <2> QED BY <1>0, <2>1, <2>2 DEF RecoveryVote!Drop, RecoveryVote!Close
<1> QED BY <1>1, <1>2, <1>3, <1>4, <1>5 DEF RecoveryNext, RecoveryVote!QuorumNext

\* The owner key rotates as TimelockedQuorum lets a subject be enacted.
THEOREM RecoveryImplementsQuorum == Spec => RecoveryIsQuorum
<1>1. Init => RecoveryVote!QuorumInit
  BY DEF Init, RecoveryInit, RecoveryVote!QuorumInit, Registered, Proposed, Recovering
<1>2. GovernanceTypeOK /\ [Next]_vars => [RecoveryVote!QuorumNext]_RecoveryVote!quorumVars
  <2> SUFFICES ASSUME GovernanceTypeOK, [Next]_vars
               PROVE  [RecoveryVote!QuorumNext]_RecoveryVote!quorumVars
    OBVIOUS
  <2>1. CASE RecoveryNext
    BY <2>1, RecoveryStepIsQuorum DEF GovernanceTypeOK, ClockOK
  <2>2. CASE LedgerCloses /\ UNCHANGED recoveryVars
    BY <2>2 DEF LedgerCloses, recoveryVars, RecoveryVote!QuorumNext, RecoveryVote!Wait,
       Registered, Proposed, Recovering
  <2>3. CASE UNCHANGED <<now, recoveryVars>>
    BY <2>3 DEF recoveryVars, RecoveryVote!quorumVars, Registered, Proposed, Recovering
  <2> QED BY <2>1, <2>2, <2>3 DEF Next, vars, governanceVars, ProxyNext, InheritanceNext
<1> QED BY <1>1, <1>2, GovernanceTypes, PTL DEF Spec, RecoveryIsQuorum, RecoveryVote!QuorumSpec

---------------------------------------------------------------------------
(* The upgrade is a quorum decision. *)

LEMMA ProxyStepIsQuorum ==
  ASSUME ClockOK, ProxyTypeOK, ProxyNext
  PROVE  [UpgradeVote!QuorumNext]_UpgradeVote!quorumVars
<1> USE DEF Initialized, HasPending
<1>0. UNCHANGED now
  BY DEF ProxyNext
<1>1. ASSUME NEW a \in Admin, NEW ss \in SignerList, NEW m \in 1..Len(ss), SetSigners(a, ss, m)
      PROVE UpgradeVote!Configure
  BY <1>0, <1>1 DEF SetSigners, UpgradeVote!Configure, ProxyTypeOK
<1>2. ASSUME NEW a \in Admin, NEW ss \in SignerList, NEW m \in 1..Len(ss), NEW t \in UpgradeDelay,
             Initialize(a, ss, m, t)
      PROVE UpgradeVote!Configure
  BY <1>0, <1>2, ProxyAssumption DEF Initialize, UpgradeVote!Configure
<1>3. ASSUME NEW a \in Admin, CancelUpgrade(a) PROVE UpgradeVote!Drop
  <2>1. pending.hash # NoValue
    BY <1>3, ProxyAssumption DEF CancelUpgrade, ProxyTypeOK, PendingUpgrade
  <2> QED BY <1>0, <1>3, <2>1 DEF CancelUpgrade, UpgradeVote!Drop, UpgradeVote!Close
<1>4. ASSUME NEW s \in Signer, ApproveUpgrade(s) PROVE UpgradeVote!Sign(s)
  <2>1. /\ pending \in PendingUpgrade /\ IsInjective(pending.approvals)
        /\ ~Contains(pending.approvals, s)
    BY <1>4 DEF ApproveUpgrade, ProxyTypeOK
  <2>2. /\ ToSet(Append(pending.approvals, s)) = ToSet(pending.approvals) \cup {s}
        /\ s \notin ToSet(pending.approvals)
        /\ Append(pending.approvals, s) \in Seq(Signer)
    BY <2>1, AppendVoter DEF PendingUpgrade
  <2>3. /\ pending' \in PendingUpgrade /\ pending'.hash = pending.hash
        /\ pending'.approvals = Append(pending.approvals, s)
        /\ UNCHANGED <<threshold, timelock, proposedAt, deployed>>
    BY <1>4, <2>1, <2>2 DEF ApproveUpgrade, PendingUpgrade
  <2>4. pending.hash # NoValue /\ pending' # NoValue /\ pending # NoValue
    BY <2>1, <2>3, AbsentIsNoUpgrade, ProxyAssumption DEF PendingUpgrade
  <2> QED BY <1>0, <2>2, <2>3, <2>4 DEF UpgradeVote!Sign
<1>5. ASSUME NEW s \in Signer, NEW h \in WasmHash, ProposeUpgrade(s, h)
      PROVE UpgradeVote!Propose(s, h)
  <2>1. now \in Nat /\ SaturatingAdd(now, timelock) \in Nat
    BY ClockAssumption DEF ClockOK, ProxyTypeOK, SaturatingAdd
  <2>2. <<s>> \in Seq(Signer) /\ ToSet(<<s>>) = {s}
    BY SingleVoter
  <2>3. /\ pending' \in PendingUpgrade /\ pending'.hash = h /\ pending'.approvals = <<s>>
    BY <1>5, <2>1, <2>2 DEF ProposeUpgrade, PendingUpgrade
  <2>4. pending' # NoValue
    BY <2>3, AbsentIsNoUpgrade
  <2> QED BY <1>0, <1>5, <2>2, <2>3, <2>4 DEF ProposeUpgrade, UpgradeVote!Propose
<1>6. ASSUME ExecuteUpgrade PROVE UpgradeVote!Enact
  <2>1. /\ pending \in PendingUpgrade /\ IsInjective(pending.approvals)
        /\ threshold > 0 /\ pending.unlock = SaturatingAdd(proposedAt, timelock)
    BY <1>6 DEF ExecuteUpgrade, ProxyTypeOK
  <2>2. Cardinality(ToSet(pending.approvals)) = Len(pending.approvals)
    BY <2>1, CountsVoters DEF PendingUpgrade
  <2>3. now >= proposedAt + timelock
    BY <1>6, <2>1, ClockAssumption DEF ExecuteUpgrade, SaturatingAdd, ClockOK, ProxyTypeOK
  <2>4. pending.hash # NoValue
    BY <2>1, ProxyAssumption DEF PendingUpgrade
  <2>5. UpgradeVote!Close
    BY <1>6, <2>4 DEF ExecuteUpgrade, UpgradeVote!Close
  <2>6. /\ pending # NoValue
        /\ Len(pending.approvals) >= threshold
        /\ deployed' = Append(deployed, pending.hash)
        /\ UNCHANGED <<threshold, timelock>>
    BY <1>6 DEF ExecuteUpgrade
  <2>7. UpgradeVote!Cardinality(ToSet(pending.approvals)) = Cardinality(ToSet(pending.approvals))
    BY Zenon DEF UpgradeVote!Cardinality, Cardinality
  <2>8. UpgradeVote!Cardinality(ToSet(pending.approvals)) >= threshold
    BY <2>2, <2>6, <2>7
  <2> QED BY <1>0, <2>1, <2>3, <2>5, <2>6, <2>8 DEF UpgradeVote!Enact
<1> QED BY <1>1, <1>2, <1>3, <1>4, <1>5, <1>6 DEF ProxyNext, UpgradeVote!QuorumNext

\* The proxy upgrades as TimelockedQuorum lets a subject be enacted.
THEOREM UpgradeImplementsQuorum == Spec => UpgradeIsQuorum
<1>1. Init => UpgradeVote!QuorumInit
  BY DEF Init, ProxyInit, UpgradeVote!QuorumInit, Initialized, HasPending
<1>2. GovernanceTypeOK /\ [Next]_vars => [UpgradeVote!QuorumNext]_UpgradeVote!quorumVars
  <2> SUFFICES ASSUME GovernanceTypeOK, [Next]_vars
               PROVE  [UpgradeVote!QuorumNext]_UpgradeVote!quorumVars
    OBVIOUS
  <2>1. CASE ProxyNext
    BY <2>1, ProxyStepIsQuorum DEF GovernanceTypeOK, ClockOK
  <2>2. CASE LedgerCloses /\ UNCHANGED proxyVars
    BY <2>2 DEF LedgerCloses, proxyVars, UpgradeVote!QuorumNext, UpgradeVote!Wait, HasPending
  <2>3. CASE UNCHANGED <<now, proxyVars>>
    BY <2>3 DEF proxyVars, UpgradeVote!quorumVars, HasPending
  <2> QED BY <2>1, <2>2, <2>3 DEF Next, vars, governanceVars, RecoveryNext, InheritanceNext
<1> QED BY <1>1, <1>2, GovernanceTypes, PTL DEF Spec, UpgradeIsQuorum, UpgradeVote!QuorumSpec

---------------------------------------------------------------------------
(* All contracts on one ledger. *)

\* The contracts that limit spending leave the other three alone.
LEMMA ContractsGovern == ContractsSpec => Spec
<1>1. ContractsInit => Init
  BY DEF ContractsInit
<1>2. [ContractsNext]_<<vars, spendingVars>> => [Next]_vars
  <2> SUFFICES ASSUME ContractsNext PROVE [Next]_vars
    BY DEF vars, governanceVars, spendingVars
  <2>1. CASE Next /\ UNCHANGED spendingVars
    BY <2>1
  <2>2. CASE UNCHANGED <<now, governanceVars>>
    BY <2>2 DEF vars, governanceVars
  <2> QED BY <2>1, <2>2 DEF ContractsNext, governanceVars
<1> QED BY <1>1, <1>2, PTL DEF ContractsSpec, Spec

\* Beside wallets, session keys and sponsors, a key rotates by quorum and delay.
THEOREM RecoveriesByQuorum == ContractsSpec => RecoveryIsQuorum
BY ContractsGovern, RecoveryImplementsQuorum

\* Beside wallets, session keys and sponsors, code is upgraded by quorum and delay.
THEOREM UpgradesByQuorum == ContractsSpec => UpgradeIsQuorum
BY ContractsGovern, UpgradeImplementsQuorum

---------------------------------------------------------------------------
(* SessionKeys *)

\* What was charged to a session is not more than it knows of, unless the sum
\* saturated, which only a quota of the largest i128 lets happen; a key that is
\* registered starts from nothing.
SessionInv ==
  /\ SessionTypeOK
  /\ \A k \in SessionKey : ownerIndex[k] # NoOwner => session[<<ownerIndex[k], k>>] # NoSession
  /\ \A p \in Owner \X SessionKey :
       /\ session[p] = NoSession => charged[p] = 0
       /\ session[p] # NoSession =>
            /\ session[p].spent <= session[p].quota
            /\ session[p].quota = I128Max \/ charged[p] <= session[p].spent

LEMMA RegisterKeepsSessions ==
  ASSUME SessionInv, NEW o \in Owner, NEW k \in SessionKey, NEW until \in ValidUntil,
         NEW calls \in SUBSET SessionCall, NEW quota \in Quota,
         RegisterSessionKey(o, k, until, calls, quota)
  PROVE  SessionInv'
<1> DEFINE q == <<o, k>>
           new == [validUntil |-> until, allowed |-> calls, quota |-> quota, spent |-> 0]
<1>1. q \in Owner \X SessionKey /\ charged' = charged /\ charged[q] = 0
  BY DEF RegisterSessionKey, SessionInv
<1>2. new \in Session /\ new # NoSession /\ new.spent = 0 /\ new.quota = quota /\ quota >= 0
  BY AbsentIsNoSession, SessionAssumption DEF Session
<1>3. session' = [session EXCEPT ![q] = new] /\ ownerIndex' = [ownerIndex EXCEPT ![k] = o]
  BY DEF RegisterSessionKey
<1> HIDE DEF q, new
<1>4. SessionTypeOK'
  BY <1>1, <1>2, <1>3 DEF SessionInv, SessionTypeOK
<1>5. /\ session'[q] = new
      /\ \A p \in Owner \X SessionKey : p # q => session'[p] = session[p]
  BY <1>1, <1>3 DEF SessionInv, SessionTypeOK
<1>6. ASSUME NEW j \in SessionKey, ownerIndex'[j] # NoOwner
      PROVE  session'[<<ownerIndex'[j], j>>] # NoSession
  <2>1. CASE j = k
    <3>1. ownerIndex'[j] = o
      BY <1>3, <2>1 DEF SessionInv, SessionTypeOK
    <3> QED BY <1>2, <1>5, <2>1, <3>1 DEF q
  <2>2. CASE j # k
    <3>1. ownerIndex'[j] = ownerIndex[j] /\ ownerIndex[j] \in Owner
      BY <1>3, <1>6, <2>2 DEF SessionInv, SessionTypeOK
    <3>2. <<ownerIndex[j], j>> # q /\ <<ownerIndex[j], j>> \in Owner \X SessionKey
      BY <2>2, <3>1 DEF q
    <3> QED BY <1>5, <1>6, <3>1, <3>2 DEF SessionInv
  <2> QED BY <2>1, <2>2
<1>7. ASSUME NEW p \in Owner \X SessionKey
      PROVE  /\ session'[p] = NoSession => charged'[p] = 0
             /\ session'[p] # NoSession =>
                  /\ session'[p].spent <= session'[p].quota
                  /\ session'[p].quota = I128Max \/ charged'[p] <= session'[p].spent
  BY <1>1, <1>2, <1>5 DEF SessionInv
<1> QED BY <1>4, <1>6, <1>7 DEF SessionInv

LEMMA RevokeKeepsSessions ==
  ASSUME SessionInv, NEW o \in Owner, NEW k \in SessionKey, RevokeSessionKey(o, k)
  PROVE  SessionInv'
<1>1. SessionTypeOK'
  BY DEF RevokeSessionKey, SessionInv, SessionTypeOK
<1>2. ASSUME NEW j \in SessionKey, ownerIndex'[j] # NoOwner
      PROVE  session'[<<ownerIndex'[j], j>>] # NoSession
  <2>1. j # k /\ ownerIndex'[j] = ownerIndex[j] /\ ownerIndex[j] \in Owner
    BY <1>2 DEF RevokeSessionKey, SessionInv, SessionTypeOK
  <2>2. session'[<<ownerIndex[j], j>>] = session[<<ownerIndex[j], j>>]
    BY <2>1 DEF RevokeSessionKey, SessionInv, SessionTypeOK
  <2> QED BY <1>2, <2>1, <2>2 DEF SessionInv
<1>3. ASSUME NEW p \in Owner \X SessionKey
      PROVE  /\ session'[p] = NoSession => charged'[p] = 0
             /\ session'[p] # NoSession =>
                  /\ session'[p].spent <= session'[p].quota
                  /\ session'[p].quota = I128Max \/ charged'[p] <= session'[p].spent
  BY DEF RevokeSessionKey, SessionInv, SessionTypeOK
<1> QED BY <1>1, <1>2, <1>3 DEF SessionInv

LEMMA CallKeepsSessions ==
  ASSUME SessionInv, NEW k \in SessionKey, NEW call \in SessionCall, NEW amount \in CallAmount,
         ValidateSessionCall(k, call, amount)
  PROVE  SessionInv'
<1> DEFINE q == <<ownerIndex[k], k>>
           sum == Saturated(session[q].spent + amount)
<1>1. /\ ownerIndex' = ownerIndex
      /\ session[q] # NoSession /\ sum <= session[q].quota
      /\ session' = [session EXCEPT ![q].spent = sum]
      /\ charged' = [charged EXCEPT ![q] = @ + amount]
      /\ ownerIndex[k] # NoOwner
  BY DEF ValidateSessionCall
<1>2. q \in Owner \X SessionKey /\ session[q] \in Session /\ charged[q] \in Int /\ amount \in Int
  BY <1>1, SessionAssumption DEF SessionInv, SessionTypeOK
<1>3. /\ session[q].spent \in Int /\ session[q].quota \in 0..I128Max
      /\ session[q].quota = I128Max \/ charged[q] <= session[q].spent
  BY <1>1, <1>2, SessionAssumption DEF Session, SessionInv
<1>4. sum \in Int /\ (session[q].quota = I128Max \/ charged[q] + amount <= sum)
  BY <1>1, <1>2, <1>3, SessionAssumption DEF Saturated
<1> HIDE DEF q, sum
<1>5. /\ session'[q] = [session[q] EXCEPT !.spent = sum] /\ charged'[q] = charged[q] + amount
      /\ \A p \in Owner \X SessionKey : p # q => session'[p] = session[p] /\ charged'[p] = charged[p]
  BY <1>1, <1>2 DEF SessionInv, SessionTypeOK
<1>6. session'[q] \in Session /\ session'[q].spent = sum /\ session'[q].quota = session[q].quota
  BY <1>2, <1>4, <1>5 DEF Session
<1>7. session'[q] # NoSession
  BY <1>6, AbsentIsNoSession
<1>8. SessionTypeOK'
  BY <1>1, <1>2, <1>6, <1>5 DEF SessionInv, SessionTypeOK
<1>9. ASSUME NEW j \in SessionKey, ownerIndex'[j] # NoOwner
      PROVE  session'[<<ownerIndex'[j], j>>] # NoSession
  <2>1. ownerIndex'[j] = ownerIndex[j] /\ ownerIndex[j] \in Owner
    BY <1>1, <1>9 DEF SessionInv, SessionTypeOK
  <2>2. <<ownerIndex[j], j>> \in Owner \X SessionKey /\ session[<<ownerIndex[j], j>>] # NoSession
    BY <1>9, <2>1 DEF SessionInv
  <2> QED BY <1>5, <1>7, <2>1, <2>2
<1>10. ASSUME NEW p \in Owner \X SessionKey
       PROVE  /\ session'[p] = NoSession => charged'[p] = 0
              /\ session'[p] # NoSession =>
                   /\ session'[p].spent <= session'[p].quota
                   /\ session'[p].quota = I128Max \/ charged'[p] <= session'[p].spent
  <2>1. CASE p = q
    BY <1>1, <1>4, <1>5, <1>6, <1>7, <2>1
  <2>2. CASE p # q
    BY <1>5, <2>2 DEF SessionInv
  <2> QED BY <2>1, <2>2
<1> QED BY <1>8, <1>9, <1>10 DEF SessionInv

\* However many owners register and revoke a key, it leads to a live session
\* within its quota, for any quotas, amounts and expiries.
THEOREM SessionsWithinQuota == ContractsSpec => []SessionOfItsOwner
<1>1. ContractsInit => SessionInv
  BY DEF ContractsInit, SessionInit, SessionInv, SessionTypeOK
<1>2. SessionInv /\ [ContractsNext]_<<vars, spendingVars>> => SessionInv'
  <2> SUFFICES ASSUME SessionInv, [ContractsNext]_<<vars, spendingVars>> PROVE SessionInv'
    OBVIOUS
  <2>1. CASE SessionNext
    BY <2>1, RegisterKeepsSessions, RevokeKeepsSessions, CallKeepsSessions DEF SessionNext
  <2>2. CASE UNCHANGED sessionVars
    BY <2>2 DEF sessionVars, SessionInv, SessionTypeOK
  <2> QED BY <2>1, <2>2 DEF ContractsNext, spendingVars
<1>3. SessionInv => SessionOfItsOwner
  <2> SUFFICES ASSUME SessionInv, NEW p \in Owner \X SessionKey, session[p] # NoSession
               PROVE  session[p].quota = I128Max \/ charged[p] <= session[p].quota
    BY DEF SessionInv, SessionOfItsOwner
  <2>1. session[p] \in Session /\ charged[p] \in Int
    BY DEF SessionInv, SessionTypeOK
  <2>2. session[p].spent \in Int /\ session[p].quota \in 0..I128Max
    BY <2>1, SessionAssumption DEF Session
  <2>3. /\ session[p].spent <= session[p].quota
        /\ session[p].quota = I128Max \/ charged[p] <= session[p].spent
    BY DEF SessionInv
  <2> QED BY <2>1, <2>2, <2>3
<1> QED BY <1>1, <1>2, <1>3, PTL DEF ContractsSpec

---------------------------------------------------------------------------
(* Paymaster *)

LEMMA PaymasterStepType ==
  ASSUME now \in 0..LastNow, PaymasterTypeOK, PaymasterNext
  PROVE  PaymasterTypeOK'
<1> USE PaymasterAssumption, ClockAssumption DEF PaymasterTypeOK
<1>1. ASSUME NEW length \in EpochLength, InitializePaymaster(length) PROVE PaymasterTypeOK'
  BY <1>1 DEF InitializePaymaster
<1>2. ASSUME NEW amount \in Fee, WithdrawFees(amount) PROVE PaymasterTypeOK'
  BY <1>2 DEF WithdrawFees
<1>3. ASSUME NEW u \in Sponsored, NEW limit \in Fee, SetSpendLimit(u, limit) PROVE PaymasterTypeOK'
  BY <1>3 DEF SetSpendLimit
<1>4. ASSUME NEW s \in Sponsor, NEW amount \in Fee, Deposit(s, amount) PROVE PaymasterTypeOK'
  BY <1>4 DEF Deposit
<1>5. ASSUME NEW s \in Sponsor, NEW u \in Sponsored, NEW fee \in Fee, SponsorInvocation(s, u, fee)
      PROVE PaymasterTypeOK'
  <2>1. epochLength \in Nat
    BY <1>5 DEF SponsorInvocation, HasOwner
  <2>2. CurrentEpoch \in 0..LastNow
    BY <2>1, SMT DEF CurrentEpoch
  <2>3. <<u, CurrentEpoch>> \in Sponsored \X (0..LastNow)
    BY <2>2
  <2> HIDE DEF CurrentEpoch
  <2>4. /\ deposits' \in [Sponsor -> Nat]
        /\ feeSpent' \in [Sponsored \X (0..LastNow) -> Nat]
        /\ sponsoredFees' \in Nat
    BY <1>5, <2>3 DEF SponsorInvocation
  <2> QED BY <1>5, <2>4 DEF SponsorInvocation
<1> QED BY <1>1, <1>2, <1>3, <1>4, <1>5 DEF PaymasterNext

\* Nobody's deposit, limit or spending is ever negative, and an epoch that is counted
\* is one that has begun, whatever amounts and epoch lengths are asked for.
THEOREM PaymasterTypes == ContractsSpec => []PaymasterTypeOK
<1>1. ContractsInit => PaymasterTypeOK
  BY DEF ContractsInit, PaymasterInit, PaymasterTypeOK
<1>2. GovernanceTypeOK /\ PaymasterTypeOK /\ [ContractsNext]_<<vars, spendingVars>>
        => PaymasterTypeOK'
  <2> SUFFICES ASSUME GovernanceTypeOK, PaymasterTypeOK, [ContractsNext]_<<vars, spendingVars>>
               PROVE  PaymasterTypeOK'
    OBVIOUS
  <2>1. CASE PaymasterNext
    BY <2>1, PaymasterStepType DEF GovernanceTypeOK
  <2>2. CASE UNCHANGED paymasterVars
    BY <2>2 DEF paymasterVars, PaymasterTypeOK
  <2> QED BY <2>1, <2>2 DEF ContractsNext, spendingVars
<1> QED BY <1>1, <1>2, ContractsGovern, GovernanceTypes, PTL DEF ContractsSpec

\* What came in is still held for a sponsor, was sponsored, or is what a
\* withdrawal took that no deposit was charged for.
DepositsInv == Sum(deposits, Sponsor) + sponsoredFees = held + feesWithdrawn

LEMMA DepositsChange ==
  ASSUME PaymasterTypeOK, NEW s \in Sponsor, deposits' \in [Sponsor -> Nat],
         \A r \in Sponsor \ {s} : deposits'[r] = deposits[r]
  PROVE  /\ Sum(deposits, Sponsor) \in Nat
         /\ Sum(deposits', Sponsor) = Sum(deposits, Sponsor) - deposits[s] + deposits'[s]
<1>1. IsFiniteSet(Sponsor) /\ deposits \in [Sponsor -> Nat]
  BY PaymasterAssumption DEF PaymasterTypeOK
<1>2. Sum(deposits, Sponsor) \in Nat
  BY <1>1, SumNat
<1>3. IntOn(deposits, Sponsor) /\ deposits'[s] \in Int
  BY <1>1 DEF IntOn
<1> QED BY <1>1, <1>2, <1>3, SumChange

LEMMA DepositsStep ==
  ASSUME PaymasterTypeOK, PaymasterTypeOK', DepositsInv, PaymasterNext
  PROVE  DepositsInv'
<1> USE DEF DepositsInv
<1>1. deposits \in [Sponsor -> Nat] /\ deposits' \in [Sponsor -> Nat] /\ Fee \subseteq Int
  BY PaymasterAssumption DEF PaymasterTypeOK
<1>2. /\ held \in Int /\ sponsoredFees \in Int /\ feesWithdrawn \in Int
      /\ Sum(deposits, Sponsor) \in Int
  BY <1>1, SumNat, PaymasterAssumption DEF PaymasterTypeOK
<1>3. ASSUME NEW length \in EpochLength, InitializePaymaster(length) PROVE DepositsInv'
  BY <1>3 DEF InitializePaymaster
<1>4. ASSUME NEW amount \in Fee, WithdrawFees(amount) PROVE DepositsInv'
  BY <1>1, <1>2, <1>4 DEF WithdrawFees
<1>5. ASSUME NEW u \in Sponsored, NEW limit \in Fee, SetSpendLimit(u, limit) PROVE DepositsInv'
  BY <1>5 DEF SetSpendLimit
<1>6. ASSUME NEW s \in Sponsor, NEW amount \in Fee, Deposit(s, amount) PROVE DepositsInv'
  <2>1. /\ deposits'[s] = deposits[s] + amount /\ deposits[s] \in Int /\ amount \in Int
        /\ \A r \in Sponsor \ {s} : deposits'[r] = deposits[r]
    BY <1>1, <1>6 DEF Deposit
  <2>2. Sum(deposits', Sponsor) = Sum(deposits, Sponsor) + amount
    BY <1>1, <1>2, <2>1, DepositsChange
  <2> QED BY <1>2, <1>6, <2>1, <2>2 DEF Deposit
<1>7. ASSUME NEW s \in Sponsor, NEW u \in Sponsored, NEW fee \in Fee, SponsorInvocation(s, u, fee)
      PROVE DepositsInv'
  <2>1. /\ deposits'[s] = deposits[s] - fee /\ deposits[s] \in Int /\ fee \in Int
        /\ \A r \in Sponsor \ {s} : deposits'[r] = deposits[r]
    BY <1>1, <1>7 DEF SponsorInvocation
  <2>2. Sum(deposits', Sponsor) = Sum(deposits, Sponsor) - fee
    BY <1>1, <1>2, <2>1, DepositsChange
  <2> QED BY <1>2, <1>7, <2>1, <2>2 DEF SponsorInvocation
<1> QED BY <1>3, <1>4, <1>5, <1>6, <1>7 DEF PaymasterNext

\* The contract owns every deposit, but for what the owner took beyond the fees
\* sponsored: no call of a sponsor or a user uncovers one, however many there are.
THEOREM DepositsAreCovered == ContractsSpec => []DepositsCovered
<1>1. ContractsInit => DepositsInv
  <2> SUFFICES ASSUME ContractsInit PROVE DepositsInv
    OBVIOUS
  <2>1. \A s \in Sponsor : deposits[s] = 0
    BY DEF ContractsInit, PaymasterInit
  <2>2. Sum(deposits, Sponsor) = 0
    BY <2>1, SumZero, PaymasterAssumption
  <2> QED BY <2>2 DEF ContractsInit, PaymasterInit, DepositsInv
<1>2. PaymasterTypeOK /\ PaymasterTypeOK' /\ DepositsInv /\ [ContractsNext]_<<vars, spendingVars>>
        => DepositsInv'
  <2> SUFFICES ASSUME PaymasterTypeOK, PaymasterTypeOK', DepositsInv,
                      [ContractsNext]_<<vars, spendingVars>>
               PROVE  DepositsInv'
    OBVIOUS
  <2>1. CASE PaymasterNext
    BY <2>1, DepositsStep
  <2>2. CASE UNCHANGED paymasterVars
    BY <2>2 DEF paymasterVars, DepositsInv
  <2> QED BY <2>1, <2>2 DEF ContractsNext, spendingVars
<1>3. PaymasterTypeOK /\ DepositsInv => DepositsCovered
  <2> SUFFICES ASSUME PaymasterTypeOK, DepositsInv
               PROVE  held + Overdrawn >= Sum(deposits, Sponsor)
    BY DEF DepositsCovered, Sum
  <2>1. Sum(deposits, Sponsor) \in Int
    BY SumNat, PaymasterAssumption DEF PaymasterTypeOK
  <2> QED BY <2>1 DEF DepositsInv, PaymasterTypeOK, Overdrawn
<1> QED BY <1>1, <1>2, <1>3, PaymasterTypes, PTL DEF ContractsSpec

---------------------------------------------------------------------------
(* SpendPolicy *)

\* Kept is the loop of pruned_entries(), and a loop has its values.
LEMMA KeptIsLoop ==
  ASSUME spends \in Seq(SpendEntry)
  PROVE  \A i \in 0..Len(spends) :
           Kept[i] = IF i = 0 THEN <<>>
                     ELSE IF spends[i].timestamp > SaturatingSub(now, Window)
                          THEN Append(Kept[i - 1], spends[i])
                          ELSE Kept[i - 1]
<1> DEFINE n == Len(spends)
           cutoff == SaturatingSub(now, Window)
           V == Seq(SpendEntry)
           step == [p \in (1..n) \X V |->
                     IF spends[p[1]].timestamp > cutoff THEN Append(p[2], spends[p[1]]) ELSE p[2]]
           Is(k) == k = [i \in 0..n |-> IF i = 0 THEN <<>>
                                        ELSE IF spends[i].timestamp > cutoff
                                             THEN Append(k[i - 1], spends[i])
                                             ELSE k[i - 1]]
<1>1. n \in Nat /\ <<>> \in V
  OBVIOUS
<1>2. step \in [(1..n) \X V -> V]
  <2>1. ASSUME NEW p \in (1..n) \X V
        PROVE  (IF spends[p[1]].timestamp > cutoff THEN Append(p[2], spends[p[1]]) ELSE p[2]) \in V
    <3> HIDE DEF cutoff, SpendEntry
    <3>1. p[1] \in 1..n /\ p[2] \in V /\ spends[p[1]] \in SpendEntry
      OBVIOUS
    <3> QED BY <3>1
  <2> QED BY <2>1
<1> HIDE DEF n, cutoff, V
<1>3. PICK g \in [0..n -> V] : IsLoop(g, <<>>, step, n)
  <2> HIDE DEF step
  <2> QED BY <1>1, <1>2, LoopExists
<1>4. Is(g)
  <2>1. ASSUME NEW i \in 0..n
        PROVE  g[i] = IF i = 0 THEN <<>>
                      ELSE IF spends[i].timestamp > cutoff
                           THEN Append(g[i - 1], spends[i])
                           ELSE g[i - 1]
    <3>1. CASE i = 0
      BY <1>3, <3>1 DEF IsLoop
    <3>2. CASE i # 0
      <4>1. g[i] = step[<<i, g[i - 1]>>]
        <5> HIDE DEF step
        <5> QED BY <1>3, <3>2 DEF IsLoop
      <4>2. <<i, g[i - 1]>> \in (1..n) \X V
        BY <1>1, <1>3, <3>2
      <4> QED BY <3>2, <4>1, <4>2
    <3> QED BY <3>1, <3>2
  <2> HIDE DEF step
  <2> QED BY <1>3, <2>1
<1>5. Is(Kept)
  <2>1. Kept = CHOOSE k : Is(k)
    BY DEF Kept, n, cutoff
  <2> HIDE DEF Is
  <2> QED BY <1>4, <2>1
<1> QED BY <1>5 DEF n, cutoff

Newer(q, c) == [i \in DOMAIN q |-> IF q[i].timestamp > c THEN q[i].amount ELSE 0]

SpentSince(q, c) == Sum(Newer(q, c), DOMAIN q)

LEMMA NewerNat ==
  ASSUME NEW q \in Seq(SpendEntry), NEW c
  PROVE  /\ \A i \in 1..Len(q) : Newer(q, c)[i] \in Nat
         /\ DOMAIN q = 1..Len(q) /\ Len(q) \in Nat /\ IsFiniteSet(1..Len(q))
<1>1. DOMAIN q = 1..Len(q) /\ Len(q) \in Nat
  OBVIOUS
<1>2. \A i \in 1..Len(q) : q[i] \in SpendEntry
  OBVIOUS
<1>3. \A i \in 1..Len(q) : q[i].amount \in Nat
  BY <1>2 DEF SpendEntry
<1>4. IsFiniteSet(1..Len(q))
  BY <1>1, FS_Interval
<1> QED BY <1>1, <1>3, <1>4 DEF Newer

LEMMA SpentSinceAppend ==
  ASSUME NEW q \in Seq(SpendEntry), NEW e \in SpendEntry, NEW c
  PROVE  /\ SpentSince(q, c) \in Nat
         /\ SpentSince(Append(q, e), c) =
              SpentSince(q, c) + (IF e.timestamp > c THEN e.amount ELSE 0)
<1> DEFINE r == Append(q, e)
           n == Len(q)
<1>1. /\ r \in Seq(SpendEntry) /\ Len(r) = n + 1 /\ n \in Nat
      /\ r[n + 1] = e /\ \A i \in 1..n : r[i] = q[i]
  BY DEF SpendEntry
<1>2. /\ \A i \in 1..n : Newer(q, c)[i] \in Nat
      /\ \A i \in 1..(n + 1) : Newer(r, c)[i] \in Nat
      /\ DOMAIN q = 1..n /\ DOMAIN r = 1..(n + 1)
      /\ IsFiniteSet(1..n) /\ IsFiniteSet(1..(n + 1))
  <2> HIDE DEF r
  <2> QED BY <1>1, NewerNat
<1> HIDE DEF r, n
<1>3. SpentSince(q, c) \in Nat
  BY <1>2, SumNat DEF SpentSince
<1>4. n + 1 \in 1..(n + 1) /\ (1..(n + 1)) \ {n + 1} = 1..n
  BY <1>1
<1>5. Sum(Newer(r, c), 1..(n + 1)) = Newer(r, c)[n + 1] + Sum(Newer(r, c), 1..n)
  <2>1. IntOn(Newer(r, c), 1..(n + 1))
    BY <1>2 DEF IntOn
  <2>2. Sum(Newer(r, c), 1..(n + 1)) = Newer(r, c)[n + 1] + Sum(Newer(r, c), (1..(n + 1)) \ {n + 1})
    BY <1>2, <1>4, <2>1, SumRemove
  <2> QED BY <1>4, <2>2
<1>6. \A i \in 1..n : Newer(r, c)[i] = Newer(q, c)[i]
  BY <1>1, <1>2 DEF Newer
<1>7. Sum(Newer(r, c), 1..n) = Sum(Newer(q, c), 1..n)
  BY <1>2, <1>6, SumAgree
<1>8. Newer(r, c)[n + 1] = IF e.timestamp > c THEN e.amount ELSE 0
  BY <1>1, <1>2, <1>4 DEF Newer
<1>9. Newer(r, c)[n + 1] \in Nat /\ Sum(Newer(q, c), 1..n) \in Nat
  BY <1>2, <1>3, <1>4 DEF SpentSince
<1>10. SpentSince(r, c) = Sum(Newer(r, c), 1..(n + 1)) /\ SpentSince(q, c) = Sum(Newer(q, c), 1..n)
  BY <1>2 DEF SpentSince
<1> QED BY <1>3, <1>5, <1>7, <1>8, <1>9, <1>10 DEF r

\* Pruning drops what is not newer than the cutoff and nothing else: since any
\* later moment, the entries that are left have spent what all of them have.
LEMMA PrunedSpent ==
  ASSUME spends \in Seq(SpendEntry), now \in Nat, NEW c \in Nat, c >= SaturatingSub(now, Window)
  PROVE  /\ PrunedEntries \in Seq(SpendEntry)
         /\ \A i \in 1..Len(PrunedEntries) :
              PrunedEntries[i].timestamp > SaturatingSub(now, Window)
         /\ SpentSince(PrunedEntries, c) = SpentSince(spends, c)
<1> DEFINE n == Len(spends)
           cutoff == SaturatingSub(now, Window)
           Good(i) == /\ Kept[i] \in Seq(SpendEntry)
                      /\ \A j \in 1..Len(Kept[i]) : Kept[i][j].timestamp > cutoff
                      /\ SpentSince(Kept[i], c) = Sum(Newer(spends, c), 1..i)
           B == {i \in 0..n : ~Good(i)}
<1>1. /\ \A i \in 1..n : Newer(spends, c)[i] \in Nat
      /\ DOMAIN spends = 1..n /\ n \in Nat /\ cutoff \in Nat
  BY NewerNat, PolicyAssumption DEF SaturatingSub
<1>2. \A i \in 0..n :
        Kept[i] = IF i = 0 THEN <<>>
                  ELSE IF spends[i].timestamp > cutoff THEN Append(Kept[i - 1], spends[i]) ELSE Kept[i - 1]
  BY KeptIsLoop
<1>3. SUFFICES ASSUME B # {} PROVE FALSE
  <2>1. Good(n)
    BY <1>1, <1>3
  <2> QED BY <1>1, <2>1 DEF PrunedEntries, SpentSince
<1>4. B \subseteq Nat
  OBVIOUS
<1> HIDE DEF B
<1>5. PICK i \in B : \A k \in 0..(i - 1) : k \notin B
  BY <1>3, <1>4, LeastNat
<1> USE DEF B
<1>6. i \in 0..n /\ ~Good(i)
  BY <1>5
<1>7. i # 0
  <2> SUFFICES ASSUME i = 0 PROVE FALSE
    OBVIOUS
  <2>1. Kept[0] = <<>>
    BY <1>1, <1>2
  <2>2. Kept[0] \in Seq(SpendEntry) /\ Len(Kept[0]) = 0
    BY <2>1
  <2>3. SpentSince(Kept[0], c) = Sum(Newer(spends, c), 1..0)
    <3>1. DOMAIN Kept[0] = {} /\ 1..0 = {}
      BY <2>1
    <3> QED BY <3>1, SumEmpty DEF SpentSince
  <2> QED BY <1>6, <2>2, <2>3
<1>8. i \in 1..n /\ i - 1 \in 0..n /\ Good(i - 1)
  <2>1. i \in 1..n /\ i - 1 \in 0..n /\ i - 1 \in 0..(i - 1)
    BY <1>1, <1>6, <1>7
  <2> QED BY <1>5, <2>1
<1> DEFINE k == Kept[i - 1]
           e == spends[i]
<1>9. e \in SpendEntry /\ e.timestamp \in Nat /\ e.amount \in Nat
  <2>1. e \in SpendEntry
    BY <1>1, <1>8
  <2> QED BY <2>1 DEF SpendEntry
<1>10. Newer(spends, c)[i] = IF e.timestamp > c THEN e.amount ELSE 0
  BY <1>1, <1>8 DEF Newer
<1>11. /\ Sum(Newer(spends, c), 1..i) = Newer(spends, c)[i] + Sum(Newer(spends, c), 1..(i - 1))
       /\ Sum(Newer(spends, c), 1..(i - 1)) \in Nat
  <2>1. i \in 1..i /\ (1..i) \ {i} = 1..(i - 1) /\ 1..i \subseteq 1..n /\ i \in Nat /\ i - 1 \in Nat
    BY <1>1, <1>8
  <2>2. IsFiniteSet(1..i) /\ IsFiniteSet(1..(i - 1))
    BY <2>1, FS_Interval
  <2>3. \A j \in 1..i : Newer(spends, c)[j] \in Nat
    BY <1>1, <2>1
  <2>4. IntOn(Newer(spends, c), 1..i) /\ \A j \in 1..(i - 1) : Newer(spends, c)[j] \in Nat
    BY <2>1, <2>3 DEF IntOn
  <2>5. Sum(Newer(spends, c), 1..i) = Newer(spends, c)[i] + Sum(Newer(spends, c), (1..i) \ {i})
    BY <2>1, <2>2, <2>4, SumRemove
  <2>6. Sum(Newer(spends, c), 1..(i - 1)) \in Nat
    BY <2>2, <2>4, SumNat
  <2> QED BY <2>1, <2>5, <2>6
<1>12. Kept[i] = IF e.timestamp > cutoff THEN Append(k, e) ELSE k
  BY <1>2, <1>8
<1>13. /\ k \in Seq(SpendEntry) /\ \A j \in 1..Len(k) : k[j].timestamp > cutoff
       /\ SpentSince(k, c) = Sum(Newer(spends, c), 1..(i - 1))
  BY <1>8
<1> HIDE DEF k, e
<1>14. CASE e.timestamp > cutoff
  <2>1. /\ Append(k, e) \in Seq(SpendEntry)
        /\ \A j \in 1..Len(Append(k, e)) : Append(k, e)[j].timestamp > cutoff
    <3>1. /\ Append(k, e) \in Seq(SpendEntry) /\ Len(Append(k, e)) = Len(k) + 1 /\ Len(k) \in Nat
          /\ \A j \in 1..Len(k) : Append(k, e)[j] = k[j]
          /\ Append(k, e)[Len(k) + 1] = e
      BY <1>9, <1>13
    <3>2. \A j \in 1..(Len(k) + 1) : j \in 1..Len(k) \/ j = Len(k) + 1
      BY <3>1
    <3> QED BY <1>13, <1>14, <3>1, <3>2
  <2>2. SpentSince(Append(k, e), c) = SpentSince(k, c) + (IF e.timestamp > c THEN e.amount ELSE 0)
    BY <1>9, <1>13, SpentSinceAppend
  <2>3. SpentSince(Append(k, e), c) = Sum(Newer(spends, c), 1..i)
    BY <1>9, <1>10, <1>11, <1>13, <2>2
  <2> QED BY <1>6, <1>12, <1>14, <2>1, <2>3
<1>15. CASE ~(e.timestamp > cutoff)
  <2>1. ~(e.timestamp > c)
    BY <1>1, <1>9, <1>15
  <2>2. SpentSince(k, c) = Sum(Newer(spends, c), 1..i)
    BY <1>10, <1>11, <1>13, <2>1
  <2> QED BY <1>6, <1>12, <1>13, <1>15, <2>2
<1> QED BY <1>14, <1>15

LEMMA PolicyStepType ==
  ASSUME ClockOK, PolicyTypeOK, PolicyNext
  PROVE  PolicyTypeOK'
<1> USE PolicyAssumption, ClockAssumption DEF PolicyTypeOK, ClockOK
<1>1. CASE SetMaster
  BY <1>1 DEF SetMaster
<1>2. ASSUME NEW l \in DailyLimit, SetLimit(l) \/ ScheduleLimit(l) PROVE PolicyTypeOK'
  <2>1. CASE SetLimit(l)
    BY <2>1 DEF SetLimit
  <2>2. CASE ScheduleLimit(l)
    <3>1. [limit |-> l, effective |-> now + Window] \in [limit : Nat, effective : Nat]
      BY <2>2 DEF ScheduleLimit
    <3> QED BY <2>2, <3>1 DEF ScheduleLimit
  <2> QED BY <1>2, <2>1, <2>2
<1>3. CASE ApplyPendingLimit
  BY <1>3 DEF ApplyPendingLimit
<1>4. ASSUME NEW amount \in Spending, Spend(amount) PROVE PolicyTypeOK'
  <2>1. /\ amount \in Nat \ {0} /\ [timestamp |-> now, amount |-> amount] \in SpendEntry
    BY <1>4 DEF Spend, SpendEntry
  <2>2. PrunedEntries \in Seq(SpendEntry)
    <3>1. now \in Nat /\ SaturatingSub(now, Window) \in Nat
      BY DEF SaturatingSub
    <3> QED BY <3>1, PrunedSpent
  <2> DEFINE e == [timestamp |-> now, amount |-> amount]
             p == PrunedEntries
  <2>3. p \in Seq(SpendEntry) /\ e \in SpendEntry /\ Len(p) < MaxEntries /\ spends' = Append(p, e)
    BY <1>4, <2>1, <2>2 DEF Spend
  <2> HIDE DEF p, e
  <2>4. spends' \in Seq(SpendEntry) /\ Len(spends') <= MaxEntries
    BY <2>3
  <2>5. spentAt' \in [0..LastNow -> Nat]
    BY <1>4, <2>1 DEF Spend
  <2> QED BY <1>4, <2>4, <2>5 DEF Spend
<1> QED BY <1>1, <1>2, <1>3, <1>4 DEF PolicyNext

\* What the entries on record say was spent since any moment of the window is
\* what was: pruning has dropped nothing that the window still holds.
After(t) == {u \in 0..LastNow : u > t}

PolicyInv ==
  /\ HasMaster \/ pendingLimit # NoLimit => now > 0
  /\ \A t \in 0..LastNow : t = 0 \/ t > now => spentAt[t] = 0
  /\ \A t \in Nat : t >= SaturatingSub(now, Window) =>
       Sum(spentAt, After(t)) = SpentSince(spends, t)

LEMMA SpentSums ==
  ASSUME NEW f \in [0..LastNow -> Nat], NEW T \in SUBSET (0..LastNow)
  PROVE  IsFiniteSet(T) /\ IntOn(f, T) /\ Sum(f, T) \in Nat
<1>1. IsFiniteSet(0..LastNow)
  BY ClockAssumption, FS_Interval
<1>2. IsFiniteSet(T)
  BY <1>1, FS_Subset
<1>3. \A t \in T : f[t] \in Nat
  OBVIOUS
<1>4. Sum(f, T) \in Nat
  BY <1>2, <1>3, SumNat
<1> QED BY <1>2, <1>3, <1>4 DEF IntOn

\* Consumed is what the window holds: every entry that is left is in it.
LEMMA ConsumedIsSpent ==
  ASSUME PolicyTypeOK, ClockOK, PolicyInv
  PROVE  /\ Consumed \in Nat
         /\ Consumed = Sum(spentAt, After(SaturatingSub(now, Window)))
<1> DEFINE cutoff == SaturatingSub(now, Window)
           p == PrunedEntries
<1>1. spends \in Seq(SpendEntry) /\ now \in Nat /\ cutoff \in Nat
  BY PolicyAssumption, ClockAssumption DEF PolicyTypeOK, ClockOK, SaturatingSub
<1>2. cutoff >= cutoff
  BY <1>1
<1> HIDE DEF cutoff
<1>3. /\ p \in Seq(SpendEntry)
      /\ \A i \in 1..Len(p) : p[i].timestamp > cutoff
      /\ SpentSince(p, cutoff) = SpentSince(spends, cutoff)
  BY <1>1, <1>2, PrunedSpent DEF cutoff
<1>4. Consumed = Sum([i \in DOMAIN p |-> p[i].amount], DOMAIN p)
  BY DEF Consumed, Sum, SumFunction, SumFunctionOnSet, FoldFunctionOnSet, MapThenSumSet
<1> HIDE DEF p
<1>5. IsFiniteSet(DOMAIN p) /\ DOMAIN p = 1..Len(p) /\ \A i \in DOMAIN p : Newer(p, cutoff)[i] \in Nat
  BY <1>3, NewerNat
<1>6. \A i \in DOMAIN p : [j \in DOMAIN p |-> p[j].amount][i] = Newer(p, cutoff)[i]
  BY <1>3, <1>5 DEF Newer
<1>7. Consumed = SpentSince(p, cutoff)
  BY <1>4, <1>5, <1>6, SumAgree DEF SpentSince
<1>8. SpentSince(p, cutoff) \in Nat
  BY <1>5, SumNat DEF SpentSince
<1> QED BY <1>1, <1>2, <1>3, <1>7, <1>8 DEF PolicyInv, cutoff

LEMMA SpendKeepsRecord ==
  ASSUME ClockOK, now' = now, PolicyTypeOK, PolicyTypeOK', PolicyInv,
         NEW amount \in Spending, Spend(amount)
  PROVE  PolicyInv'
<1>1. /\ now > 0 /\ now \in 0..LastNow /\ spends \in Seq(SpendEntry)
      /\ spentAt \in [0..LastNow -> Nat] /\ spentAt' \in [0..LastNow -> Nat]
  BY DEF Spend, PolicyInv, PolicyTypeOK, ClockOK
<1>2. /\ amount \in Nat \ {0}
      /\ spentAt'[now] = spentAt[now] + amount
      /\ \A t \in (0..LastNow) \ {now} : spentAt'[t] = spentAt[t]
  BY <1>1, PolicyAssumption DEF Spend, HasMaster
<1>3. ASSUME NEW t \in Nat, t >= SaturatingSub(now, Window)
      PROVE  Sum(spentAt', After(t)) = SpentSince(spends', t)
  <2> DEFINE e == [timestamp |-> now, amount |-> amount]
             p == PrunedEntries
  <2>1. e \in SpendEntry /\ e.timestamp = now /\ e.amount = amount
    BY <1>1, <1>2, ClockAssumption DEF SpendEntry
  <2>2. p \in Seq(SpendEntry) /\ SpentSince(p, t) = SpentSince(spends, t)
    BY <1>1, <1>3, PrunedSpent
  <2>3. spends' = Append(p, e)
    BY DEF Spend
  <2> HIDE DEF e, p
  <2>4. /\ SpentSince(p, t) \in Nat
        /\ SpentSince(spends', t) = SpentSince(p, t) + (IF e.timestamp > t THEN e.amount ELSE 0)
    BY <2>1, <2>2, <2>3, SpentSinceAppend
  <2>5. Sum(spentAt, After(t)) = SpentSince(spends, t)
    BY <1>3 DEF PolicyInv
  <2>6. After(t) \in SUBSET (0..LastNow)
    BY DEF After
  <2>7. /\ IsFiniteSet(After(t)) /\ IntOn(spentAt, After(t)) /\ IntOn(spentAt', After(t))
        /\ Sum(spentAt, After(t)) \in Nat
    BY <1>1, <2>6, SpentSums
  <2>8. CASE now > t
    <3>1. now \in After(t) /\ \A u \in After(t) \ {now} : spentAt'[u] = spentAt[u]
      BY <1>1, <1>2, <2>8 DEF After
    <3>2. spentAt[now] \in Int /\ spentAt'[now] \in Int
      BY <1>1
    <3>3. Sum(spentAt', After(t)) = Sum(spentAt, After(t)) - spentAt[now] + spentAt'[now]
      BY <2>7, <3>1, <3>2, SumChange
    <3>4. SpentSince(spends', t) = SpentSince(p, t) + amount
      BY <2>1, <2>4, <2>8
    <3> QED BY <1>2, <2>2, <2>5, <2>7, <3>2, <3>3, <3>4
  <2>9. CASE ~(now > t)
    <3>1. \A u \in After(t) : spentAt'[u] = spentAt[u]
      BY <1>1, <1>2, <2>9 DEF After
    <3>2. Sum(spentAt', After(t)) = Sum(spentAt, After(t))
      BY <2>7, <3>1, SumAgree
    <3>3. SpentSince(spends', t) = SpentSince(p, t)
      BY <2>1, <2>4, <2>9
    <3> QED BY <2>2, <2>5, <3>2, <3>3
  <2> QED BY <2>8, <2>9
<1>4. \A t \in 0..LastNow : t = 0 \/ t > now => spentAt'[t] = 0
  BY <1>1, <1>2 DEF PolicyInv
<1>5. now' > 0
  BY <1>1
<1> QED BY <1>3, <1>4, <1>5 DEF PolicyInv

LEMMA PolicyStepKeepsRecord ==
  ASSUME ClockOK, now' = now, PolicyTypeOK, PolicyTypeOK', PolicyInv, PolicyNext
  PROVE  PolicyInv'
<1>1. CASE UNCHANGED <<spends, spentAt>> /\ now > 0
  BY <1>1 DEF PolicyInv
<1>2. CASE SetMaster
  BY <1>1, <1>2 DEF SetMaster
<1>3. ASSUME NEW l \in DailyLimit, SetLimit(l) \/ ScheduleLimit(l) PROVE PolicyInv'
  BY <1>1, <1>3 DEF SetLimit, ScheduleLimit, PolicyInv
<1>4. CASE ApplyPendingLimit
  BY <1>1, <1>4 DEF ApplyPendingLimit, PolicyInv
<1>5. ASSUME NEW amount \in Spending, Spend(amount) PROVE PolicyInv'
  BY <1>5, SpendKeepsRecord
<1> QED BY <1>2, <1>3, <1>4, <1>5 DEF PolicyNext

LEMMA ClockKeepsRecord ==
  ASSUME ClockOK, PolicyInv, LedgerCloses, UNCHANGED policyVars
  PROVE  PolicyInv'
<1>1. now \in Nat /\ now' = now + 1 /\ Window \in Nat
  BY ClockAssumption, PolicyAssumption DEF LedgerCloses, ClockOK
<1>2. \A t \in Nat : t >= SaturatingSub(now', Window) => t >= SaturatingSub(now, Window)
  BY <1>1 DEF SaturatingSub
<1>3. /\ HasMaster' = HasMaster /\ pendingLimit' = pendingLimit
      /\ spends' = spends /\ spentAt' = spentAt
  BY DEF policyVars, HasMaster
<1>4. \A t \in Nat : t >= SaturatingSub(now', Window) =>
        Sum(spentAt', After(t)) = SpentSince(spends', t)
  BY <1>2, <1>3 DEF PolicyInv
<1>5. \A t \in 0..LastNow : t > now' => t > now
  BY <1>1, ClockAssumption
<1> QED BY <1>1, <1>3, <1>4, <1>5 DEF PolicyInv

\* A step of another contract or of the clock leaves the policy alone, and a
\* step of the policy leaves the clock.
LEMMA PolicySteps ==
  ASSUME [ContractsNext]_<<vars, spendingVars>>
  PROVE  \/ PolicyNext /\ now' = now
         \/ UNCHANGED policyVars /\ (LedgerCloses \/ now' = now)
<1>1. CASE Next /\ UNCHANGED spendingVars
  BY <1>1 DEF Next, spendingVars, RecoveryNext, ProxyNext, InheritanceNext
<1> QED BY <1>1 DEF ContractsNext, spendingVars, vars

\* A limit and a spend on record are never negative, and the record holds no
\* more than MAX_ENTRIES spends.
THEOREM PolicyTypes == ContractsSpec => []PolicyTypeOK
<1>1. ContractsInit => PolicyTypeOK
  BY PolicyAssumption, ClockAssumption DEF ContractsInit, PolicyInit, PolicyTypeOK
<1>2. GovernanceTypeOK /\ PolicyTypeOK /\ [ContractsNext]_<<vars, spendingVars>> => PolicyTypeOK'
  <2> SUFFICES ASSUME GovernanceTypeOK, PolicyTypeOK, [ContractsNext]_<<vars, spendingVars>>
               PROVE  PolicyTypeOK'
    OBVIOUS
  <2>1. CASE PolicyNext
    BY <2>1, PolicyStepType DEF GovernanceTypeOK, ClockOK
  <2>2. CASE UNCHANGED policyVars
    BY <2>2 DEF policyVars, PolicyTypeOK
  <2> QED BY <2>1, <2>2, PolicySteps
<1> QED BY <1>1, <1>2, ContractsGovern, GovernanceTypes, PTL DEF ContractsSpec

LEMMA PolicyInvariant == ContractsSpec => []PolicyInv
<1>1. ContractsInit => PolicyInv
  <2> SUFFICES ASSUME ContractsInit PROVE PolicyInv
    OBVIOUS
  <2>1. /\ ~HasMaster /\ pendingLimit = NoLimit /\ spends = <<>>
        /\ \A t \in 0..LastNow : spentAt[t] = 0
    BY DEF ContractsInit, PolicyInit, HasMaster
  <2>2. ASSUME NEW t \in Nat PROVE Sum(spentAt, After(t)) = SpentSince(spends, t)
    <3>0. IsFiniteSet(0..LastNow) /\ After(t) \subseteq 0..LastNow
      BY ClockAssumption, FS_Interval DEF After
    <3>1. IsFiniteSet(After(t)) /\ \A u \in After(t) : spentAt[u] = 0
      BY <2>1, <3>0, FS_Subset
    <3>2. Sum(spentAt, After(t)) = 0
      BY <3>1, SumZero
    <3>3. DOMAIN spends = {}
      BY <2>1
    <3>4. SpentSince(spends, t) = 0
      BY <3>3, SumEmpty DEF SpentSince
    <3> QED BY <3>2, <3>4
  <2> QED BY <2>1, <2>2 DEF PolicyInv
<1>2. GovernanceTypeOK /\ PolicyTypeOK /\ PolicyTypeOK' /\ PolicyInv
      /\ [ContractsNext]_<<vars, spendingVars>>
        => PolicyInv'
  <2> SUFFICES ASSUME GovernanceTypeOK, PolicyTypeOK, PolicyTypeOK', PolicyInv,
                      [ContractsNext]_<<vars, spendingVars>>
               PROVE  PolicyInv'
    OBVIOUS
  <2>1. ClockOK
    BY DEF GovernanceTypeOK, ClockOK
  <2>2. CASE PolicyNext /\ now' = now
    BY <2>1, <2>2, PolicyStepKeepsRecord
  <2>3. CASE UNCHANGED policyVars /\ LedgerCloses
    BY <2>1, <2>3, ClockKeepsRecord
  <2>4. CASE UNCHANGED policyVars /\ now' = now
    BY <2>4 DEF PolicyInv, policyVars, HasMaster
  <2> QED BY <2>2, <2>3, <2>4, PolicySteps
<1> QED BY <1>1, <1>2, PolicyTypes, ContractsGovern, GovernanceTypes, PTL DEF ContractsSpec

\* For every window, every limit and every number of entries: with each spend
\* the account has spent, in the window that ends now, at most the limit in
\* force, whatever was pruned, scheduled and applied before.
THEOREM NeverOverspends == ContractsSpec => WindowNotOverspent
<1> DEFINE W == {t \in 0..now : t + Window > now}
<1>1. ASSUME ClockOK, PolicyTypeOK, PolicyInv, now' = now, PolicyTypeOK',
             NEW amount \in Spending, Spend(amount)
      PROVE  SpentInWindow' <= dailyLimit
  <2>1. /\ now > 0 /\ now \in 0..LastNow /\ LastNow \in Nat /\ Window \in Nat \ {0}
        /\ spentAt \in [0..LastNow -> Nat] /\ spentAt' \in [0..LastNow -> Nat]
        /\ dailyLimit \in Nat /\ amount \in Nat
    BY <1>1, ClockAssumption, PolicyAssumption DEF Spend, PolicyInv, PolicyTypeOK, ClockOK, HasMaster
  <2>2. amount <= dailyLimit - Consumed
    BY <1>1 DEF Spend
  <2> DEFINE c == SaturatingSub(now, Window)
             I == After(c) \cap W
  <2>3. /\ After(c) \in SUBSET (0..LastNow) /\ W \in SUBSET (0..LastNow)
        /\ I \subseteq After(c) /\ I \subseteq W
    BY <2>1 DEF After
  <2>4. /\ now \in W
        /\ \A t \in After(c) \ I : spentAt[t] = 0
        /\ \A t \in W \ I : spentAt[t] = 0
    BY <1>1, <2>1 DEF PolicyInv, After, SaturatingSub
  <2>5. SpentInWindow' = Sum(spentAt', W)
    <3> DEFINE V == {t \in 0..now' : t + Window > now'}
    <3>1. SpentInWindow' = Sum(spentAt', V)
      <4>1. \A f, S : SumFunctionOnSet(f, S) = Sum(f, S)
        BY DEF Sum, SumFunctionOnSet, FoldFunctionOnSet, MapThenSumSet
      <4> QED BY <4>1 DEF SpentInWindow
    <3>2. V = W
      BY <1>1
    <3> HIDE DEF V, W
    <3> QED BY <3>1, <3>2
  <2>6. Consumed \in Nat /\ Consumed = Sum(spentAt, After(c))
    BY <1>1, ConsumedIsSpent
  <2> HIDE DEF c, I, W
  <2>7. /\ IsFiniteSet(W) /\ IntOn(spentAt, W) /\ IsFiniteSet(After(c)) /\ IntOn(spentAt, After(c))
        /\ Sum(spentAt, W) \in Nat
    BY <2>1, <2>3, SpentSums
  <2>8. Sum(spentAt, After(c)) = Sum(spentAt, I) /\ Sum(spentAt, W) = Sum(spentAt, I)
    <3>0. ASSUME NEW S, NEW T, IsFiniteSet(S), IntOn(spentAt, S), T \subseteq S,
                 \A t \in S \ T : spentAt[t] = 0
          PROVE  Sum(spentAt, S) = Sum(spentAt, T)
      BY <3>0, SumSupport
    <3>1. Sum(spentAt, After(c)) = Sum(spentAt, I)
      <4> DEFINE A == After(c)
      <4>1. IsFiniteSet(A) /\ IntOn(spentAt, A) /\ I \subseteq A /\ \A t \in A \ I : spentAt[t] = 0
        BY <2>3, <2>4, <2>7
      <4> HIDE DEF A
      <4>2. Sum(spentAt, A) = Sum(spentAt, I)
        BY <4>1, <3>0
      <4> QED BY <4>2 DEF A
    <3>2. Sum(spentAt, W) = Sum(spentAt, I)
      BY <2>3, <2>4, <2>7, <3>0
    <3> QED BY <3>1, <3>2
  <2>9. /\ spentAt'[now] = spentAt[now] + amount /\ spentAt[now] \in Int /\ spentAt'[now] \in Int
        /\ \A t \in W \ {now} : spentAt'[t] = spentAt[t]
    BY <1>1, <2>1, <2>3 DEF Spend
  <2>10. Sum(spentAt', W) = Sum(spentAt, W) - spentAt[now] + spentAt'[now]
    BY <2>4, <2>7, <2>9, SumChange
  <2>11. Sum(spentAt, W) = Consumed
    BY <2>6, <2>8
  <2>12. SpentInWindow' = Consumed + amount
    <3>1. \A s \in Nat, x, y \in Int : y = x + amount => s - x + y = s + amount
      BY <2>1
    <3> QED BY <2>5, <2>6, <2>9, <2>10, <2>11, <3>1
  <2> QED BY <2>1, <2>2, <2>6, <2>12
<1>2. GovernanceTypeOK /\ PolicyTypeOK /\ PolicyTypeOK' /\ PolicyInv
      /\ [ContractsNext]_<<vars, spendingVars>>
        => [spentAt' # spentAt => SpentInWindow' <= dailyLimit]_<<now, policyVars>>
  <2> SUFFICES ASSUME GovernanceTypeOK, PolicyTypeOK, PolicyTypeOK', PolicyInv,
                      [ContractsNext]_<<vars, spendingVars>>, spentAt' # spentAt
               PROVE  SpentInWindow' <= dailyLimit
    OBVIOUS
  <2>1. PolicyNext /\ now' = now
    BY PolicySteps DEF policyVars
  <2>2. PICK amount \in Spending : Spend(amount)
    BY <2>1 DEF PolicyNext, SetMaster, SetLimit, ScheduleLimit, ApplyPendingLimit
  <2> QED BY <1>1, <2>1, <2>2 DEF GovernanceTypeOK, ClockOK
<1> QED
  BY <1>2, PolicyInvariant, PolicyTypes, ContractsGovern, GovernanceTypes, PTL
     DEF ContractsSpec, WindowNotOverspent
=============================================================================
