---------------------------- MODULE SocialRecovery ----------------------------
(***************************************************************************)
(* The social recovery contract (contracts/social-recovery/src/lib.rs) for *)
(* one account: its keys are Config(owner) and Proposal(owner), and calls  *)
(* for different owners touch different keys.  The owner's, a guardian's   *)
(* and nobody's authorisation are needed where the code asks for them, so  *)
(* any guardian, and for execute_recovery anyone, may call at any time.    *)
(***************************************************************************)
EXTENDS LedgerClock, Sequences, SequencesExt

CONSTANTS
  Guardian,      \* the addresses an owner may register
  GuardianList,  \* the Vecs of them a register_guardians call may pass
  Key,           \* owner keys
  Timelock,      \* the timelocks an owner or a proxy may ask for
  NoConfig,      \* Config(owner) is absent
  NoProposal     \* Proposal(owner) is absent; also no key

ASSUME RecoveryAssumption ==
  /\ GuardianList \subseteq Seq(Guardian)
  /\ Timelock \subseteq Nat
  /\ NoProposal \notin Key

VARIABLES
  config,     \* DataKey::Config(owner)
  proposal,   \* DataKey::Proposal(owner)
  rotations   \* history: the keys execute_recovery() put in place

recoveryVars == <<config, proposal, rotations>>

AccountConfig == [guardians : Seq(Guardian), threshold : Nat \ {0}, timelock : Timelock, key : Key]
RecoveryProposal == [newKey : Key, votes : Seq(Guardian), initiated : Nat, executed : BOOLEAN]

ASSUME AbsentIsNoRecord == NoConfig \notin AccountConfig /\ NoProposal \notin RecoveryProposal

Registered == config # NoConfig
Proposed == proposal # NoProposal

\* The Vecs hold what they should, and a guardian votes once.
RecoveryTypeOK ==
  /\ Registered => config \in AccountConfig /\ config.threshold <= Len(config.guardians)
  /\ Proposed => proposal \in RecoveryProposal /\ IsInjective(proposal.votes)
  /\ Proposed => Registered
  /\ rotations \in Seq(Key)

RecoveryInit ==
  /\ config = NoConfig
  /\ proposal = NoProposal
  /\ rotations = << >>

---------------------------------------------------------------------------

IsGuardian(g) == Contains(config.guardians, g)
HasVoted(g) == Contains(proposal.votes, g)

RegisterGuardians(gs, threshold, timelock, key) ==
  /\ Len(gs) # 0
  /\ threshold # 0 /\ threshold <= Len(gs)
  /\ config' = [guardians |-> gs, threshold |-> threshold, timelock |-> timelock, key |-> key]
  /\ UNCHANGED <<proposal, rotations>>

InitiateRecovery(g, newKey) ==
  /\ Registered
  /\ IsGuardian(g)
  /\ newKey # config.key
  /\ ~Proposed
  /\ proposal' = [newKey |-> newKey, votes |-> <<g>>, initiated |-> now, executed |-> FALSE]
  /\ UNCHANGED <<config, rotations>>

\* Mutant of VoteRecovery: a guardian may vote again.
VoteRecoveryAgain(g) ==
  /\ Registered
  /\ IsGuardian(g)
  /\ Proposed
  /\ ~proposal.executed
  /\ proposal' = [proposal EXCEPT !.votes = Append(@, g)]
  /\ UNCHANGED <<config, rotations>>

VoteRecovery(g) ==
  /\ Registered
  /\ IsGuardian(g)
  /\ Proposed
  /\ ~proposal.executed
  /\ ~HasVoted(g)
  /\ proposal' = [proposal EXCEPT !.votes = Append(@, g)]
  /\ UNCHANGED <<config, rotations>>

\* Mutant of ExecuteRecovery: the unlock time wraps around.
ExecuteRecoveryWrapping ==
  /\ Registered /\ Proposed
  /\ ~proposal.executed
  /\ Len(proposal.votes) >= config.threshold
  /\ now >= (proposal.initiated + config.timelock) % (U64Max + 1)
  /\ config' = [config EXCEPT !.key = proposal.newKey]
  /\ proposal' = [proposal EXCEPT !.executed = TRUE]
  /\ rotations' = Append(rotations, proposal.newKey)

ExecuteRecovery ==
  /\ Registered /\ Proposed
  /\ ~proposal.executed
  /\ Len(proposal.votes) >= config.threshold
  /\ now >= SaturatingAdd(proposal.initiated, config.timelock)
  /\ config' = [config EXCEPT !.key = proposal.newKey]
  /\ proposal' = [proposal EXCEPT !.executed = TRUE]
  /\ rotations' = Append(rotations, proposal.newKey)

CancelRecovery ==
  /\ Proposed
  /\ ~proposal.executed
  /\ proposal' = [proposal EXCEPT !.executed = TRUE]
  /\ UNCHANGED <<config, rotations>>

RecoveryNext ==
  /\ UNCHANGED now
  /\ \/ \E gs \in GuardianList, t \in Timelock, k \in Key :
          \E m \in 1..Len(gs) : RegisterGuardians(gs, m, t, k)
     \/ \E g \in Guardian : VoteRecovery(g) \/ \E k \in Key : InitiateRecovery(g, k)
     \/ ExecuteRecovery
     \/ CancelRecovery

=============================================================================
