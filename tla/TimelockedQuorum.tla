--------------------------- MODULE TimelockedQuorum ---------------------------
(***************************************************************************)
(* What a guarded change promises, whoever implements it: it was proposed, *)
(* as many different signatories as the quorum in force signed that very   *)
(* proposal, and the delay in force has passed since it was made.          *)
(* SocialRecovery (an owner key) and Proxy (a WASM hash) implement it.     *)
(***************************************************************************)
EXTENDS Integers, Sequences, FiniteSets

CONSTANTS
  Signatory,  \* everyone who may ever sign
  Subject,    \* what may be proposed
  Nothing     \* no open proposal

VARIABLES
  now,      \* the ledger's clock
  quorum,   \* signatures needed
  delay,    \* seconds between the proposal and its enactment
  subject,  \* the open proposal
  since,    \* when it was made
  signed,   \* who signed it
  enacted   \* every subject enacted so far

quorumVars == <<now, quorum, delay, subject, since, signed, enacted>>

QuorumInit ==
  /\ now = 0
  /\ quorum = 0 /\ delay = 0
  /\ subject = Nothing /\ since = 0 /\ signed = {}
  /\ enacted = << >>

Configure ==
  /\ quorum' \in Nat \ {0} /\ delay' \in Nat
  /\ UNCHANGED <<now, subject, since, signed, enacted>>

Propose(s, x) ==
  /\ subject = Nothing
  /\ subject' = x
  /\ since' = now
  /\ signed' = {s}
  /\ UNCHANGED <<now, quorum, delay, enacted>>

Sign(s) ==
  /\ subject # Nothing
  /\ s \notin signed
  /\ signed' = signed \cup {s}
  /\ UNCHANGED <<now, quorum, delay, subject, since, enacted>>

Close ==
  /\ subject # Nothing
  /\ subject' = Nothing /\ since' = 0 /\ signed' = {}

Enact ==
  /\ Close
  /\ quorum > 0
  /\ Cardinality(signed) >= quorum
  /\ now >= since + delay
  /\ enacted' = Append(enacted, subject)
  /\ UNCHANGED <<now, quorum, delay>>

Drop ==
  /\ Close
  /\ UNCHANGED <<now, quorum, delay, enacted>>

Wait ==
  /\ now' = now + 1
  /\ UNCHANGED <<quorum, delay, subject, since, signed, enacted>>

QuorumNext ==
  \/ Configure \/ Enact \/ Drop \/ Wait
  \/ \E s \in Signatory : Sign(s) \/ \E x \in Subject : Propose(s, x)

QuorumSpec == QuorumInit /\ [][QuorumNext]_quorumVars

=============================================================================
