---------------------------- MODULE PolicyEngine ----------------------------
(***************************************************************************)
(* policy/engine.ts and the /policy routes of server.ts: the policy of one *)
(* wallet, the times its velocity rules count, and the two ways a          *)
(* transaction is put to the rules: evaluateWithAudit(), which counts it,  *)
(* and evaluateWithDetails(), the dry run.  Rules that fail their schema,  *)
(* which reject everything, are left out.                                  *)
(***************************************************************************)
EXTENDS Integers, Sequences, FiniteSetsExt

CONSTANTS
  Rule, RuleList,  \* the rules and the lists of them that admins ask for
  Operation, Transaction,  \* records [operations, fee, validFor], validFor = 0 for no bounds
  DefaultAllows,  \* defaultPolicy = "allow"
  LastTime,
  MaxVersion,   \* bound: the updates of one policy
  NoPolicy, NoAddress

ASSUME EngineAssumption ==
  /\ LastTime \in Nat /\ MaxVersion \in Nat \ {0} /\ DefaultAllows \in BOOLEAN
  /\ RuleList \subseteq Seq(Rule)
  /\ \A rule \in Rule :
       /\ rule.type = "velocity" => rule.window \in Nat /\ rule.maxTransactions \in Nat
       /\ rule.type = "timebounds" => rule.allowUnbounded \in BOOLEAN

VARIABLES
  clock,
  policy,            \* policies.get(walletId)
  velocityTracking,  \* how many times of each moment the list holds
  cutoff,  \* history: the latest cutoff by which the list was pruned
  passed   \* history: like velocityTracking, what was approved under a velocity
           \* rule since the list was last dropped

engineVars == <<clock, policy, velocityTracking, cutoff, passed>>

Time == 0..LastTime
NoTimes == [t \in Time |-> 0]

EngineTypeOK ==
  /\ clock \in Time
  /\ policy \in [rules : RuleList, version : 1..MaxVersion] \cup {NoPolicy}
  /\ velocityTracking \in [Time -> Nat] /\ passed \in [Time -> Nat]
  /\ cutoff \in Int

EngineInit ==
  /\ clock = 0
  /\ policy = NoPolicy
  /\ velocityTracking = NoTimes /\ passed = NoTimes /\ cutoff = -1

---------------------------------------------------------------------------
(* The rules that count nothing *)

Operations(tx) == {tx.operations[i] : i \in 1..Len(tx.operations)}
Destinations(tx) == {op.destination : op \in Operations(tx)} \ {NoAddress}
Assets(tx) == UNION {op.assets : op \in Operations(tx)}  \* sent and received
Invocations(tx) == {op.invokes : op \in Operations(tx)} \ {NoAddress}

Allowlist(rule, tx) == Destinations(tx) \subseteq rule.destinations
Blocklist(rule, tx) == Destinations(tx) \cap rule.destinations = {}
AssetAllowlist(rule, tx) == Assets(tx) \subseteq rule.assets
TimeBounds(rule, tx) == IF tx.validFor = 0 THEN rule.allowUnbounded ELSE tx.validFor <= rule.maxWindow
MaxOperations(rule, tx) == Len(tx.operations) <= rule.maxOperations
FeeLimit(rule, tx) == tx.fee <= rule.maxFee
ContractAllowlist(rule, tx) == Invocations(tx) \subseteq rule.allowedContracts

\* Both call parseAmount(), which no class defines, before they look at any total:
\* evaluateRule() rejects for a rule that throws, and nothing is ever charged.
SpendLimit == FALSE
SessionKey == FALSE

Permits(rule, tx) ==
  CASE rule.type = "allowlist" -> Allowlist(rule, tx)
    [] rule.type = "blocklist" -> Blocklist(rule, tx)
    [] rule.type = "asset_allowlist" -> AssetAllowlist(rule, tx)
    [] rule.type = "timebounds" -> TimeBounds(rule, tx)
    [] rule.type = "max_operations" -> MaxOperations(rule, tx)
    [] rule.type = "fee_limit" -> FeeLimit(rule, tx)
    [] rule.type = "contract_allowlist" -> ContractAllowlist(rule, tx)
    [] rule.type = "spend_limit" -> SpendLimit
    [] rule.type = "session_key" -> SessionKey
    [] OTHER -> FALSE

---------------------------------------------------------------------------
(* Velocity rules.  All those of a wallet share one list of times. *)

Within(rule) == {t \in Time : t > clock - rule.window}
Count(times, moments) == MapThenSumSet(LAMBDA t : times[t], moments)

\* The list without what the window of the rule has left behind.
Recent(rule, times) == [t \in Time |-> IF t \in Within(rule) THEN times[t] ELSE 0]
Push(times) == [times EXCEPT ![clock] = @ + 1]

\* What a rule leaves of the evaluation so far: it counts what it rejects.
Counted(rule, was, verdict) ==
  [approved |-> verdict,
   times |-> Push(Recent(rule, was.times)),
   cutoff |-> IF was.cutoff > clock - rule.window THEN was.cutoff ELSE clock - rule.window]

\* Mutant of Velocity: the transaction at hand is not in what is compared.
VelocityBehind(rule, was) ==
  Counted(rule, was, Count(Recent(rule, was.times), Time) <= rule.maxTransactions)

Velocity(rule, was) ==
  Counted(rule, was, Count(Push(Recent(rule, was.times)), Time) <= rule.maxTransactions)

EvaluateRule(rule, tx, was) ==
  IF rule.type = "velocity" THEN Velocity(rule, was)
  ELSE [was EXCEPT !.approved = Permits(rule, tx)]

\* evaluateWithAudit(): in the order of the list, up to the first that rejects.
EvaluateWithAudit(tx) ==
  LET rules == IF policy = NoPolicy THEN <<>> ELSE policy.rules
      after[i \in 0..Len(rules)] ==
        IF i = 0 THEN [approved |-> policy # NoPolicy \/ DefaultAllows,
                       times |-> velocityTracking, cutoff |-> cutoff]
        ELSE IF after[i - 1].approved THEN EvaluateRule(rules[i], tx, after[i - 1])
        ELSE after[i - 1]
  IN after[Len(rules)]

---------------------------------------------------------------------------
(* The dry run, a second implementation of the rules with a total, which parses *)
(* amounts.  Of what spend limits and session keys charge it reads nothing but 0. *)

\* Invocations and operations without an amount send no asset.
Amount(asset, tx) ==
  LET sum[i \in 0..Len(tx.operations)] ==
        IF i = 0 THEN 0
        ELSE sum[i - 1] + IF tx.operations[i].sends = asset THEN tx.operations[i].amount ELSE 0
  IN sum[Len(tx.operations)]

Matches(asset, tx) == \E op \in Operations(tx) : op.sends = asset

\* A session key is held to the first payment only.
FirstPayment(tx) ==
  LET payments == {i \in 1..Len(tx.operations) :
                     tx.operations[i].sends # NoAddress /\ tx.operations[i].destination # NoAddress}
  IN IF payments = {} THEN 0 ELSE tx.operations[Min(payments)].amount

SpendLimitDryRun(rule, tx) ==
  Matches(rule.asset, tx) =>
    Amount(rule.asset, tx) <= rule.maxPerTx /\ Amount(rule.asset, tx) <= rule.maxDaily

VelocityDryRunOld(rule) == Count(velocityTracking, Time) + 1 <= rule.maxTransactions

VelocityDryRun(rule) == Count(velocityTracking, Within(rule)) + 1 <= rule.maxTransactions

SessionKeyDryRun(rule, tx) == clock <= rule.expiresAt /\ FirstPayment(tx) <= rule.maxSpend

EvaluateRuleDryRun(rule, tx) ==
  CASE rule.type = "spend_limit" -> SpendLimitDryRun(rule, tx)
    [] rule.type = "velocity" -> VelocityDryRun(rule)
    [] rule.type = "session_key" -> SessionKeyDryRun(rule, tx)
    [] OTHER -> Permits(rule, tx)

EvaluateWithDetails(tx) ==
  IF policy = NoPolicy THEN DefaultAllows
  ELSE \A i \in 1..Len(policy.rules) : EvaluateRuleDryRun(policy.rules[i], tx)

---------------------------------------------------------------------------
(* Actions *)

\* The velocity rules of the policy.
Paced ==
  IF policy = NoPolicy THEN {}
  ELSE {i \in DOMAIN policy.rules : policy.rules[i].type = "velocity"}

\* One evaluation: the list it leaves.
Evaluate(tx) ==
  LET after == EvaluateWithAudit(tx)
  IN /\ velocityTracking' = after.times /\ cutoff' = after.cutoff
     /\ passed' = IF after.approved /\ Paced # {} THEN Push(passed) ELSE passed
     /\ UNCHANGED <<clock, policy>>

\* POST /policy answers 409 when there is one.
CreatePolicy(rules) ==
  /\ policy = NoPolicy
  /\ policy' = [rules |-> rules, version |-> 1]
  /\ UNCHANGED <<clock, velocityTracking, cutoff, passed>>

\* PUT /policy with the version of the policy in If-Match; 412 otherwise.
UpdatePolicy(rules, ifMatch) ==
  /\ policy # NoPolicy /\ policy.version = ifMatch /\ ifMatch < MaxVersion
  /\ policy' = [rules |-> rules, version |-> ifMatch + 1]
  /\ UNCHANGED <<clock, velocityTracking, cutoff, passed>>

ForgetTimes == velocityTracking' = NoTimes /\ passed' = NoTimes /\ cutoff' = -1

\* removePolicy(), for DELETE /policy and for an invalidation from Redis, which
\* may also find no policy; invalidateAllPolicies() does the same to every wallet.
RemovePolicy ==
  /\ policy' = NoPolicy
  /\ ForgetTimes
  /\ UNCHANGED clock

TimePasses ==
  /\ clock < LastTime
  /\ clock' = clock + 1
  /\ UNCHANGED <<policy, velocityTracking, cutoff, passed>>

EngineNext ==
  \/ \E rules \in RuleList :
       CreatePolicy(rules) \/ \E v \in 1..MaxVersion : UpdatePolicy(rules, v)
  \/ RemovePolicy
  \/ TimePasses

---------------------------------------------------------------------------
(* Properties *)

\* Under any sequence of policies, interleaved with evaluations that other rules
\* reject, a velocity rule of the policy in force is exceeded by nothing that was
\* approved, unless the list was pruned of moments in its window for a shorter one.
VelocityHolds ==
  [][passed'[clock] > passed[clock] =>
       \A i \in Paced :
         LET rule == policy.rules[i]
         IN (\A t \in Within(rule) : t > cutoff')
              => Count(passed', Within(rule)) <= rule.maxTransactions]_engineVars

Throwing == {"spend_limit", "session_key"}

\* "so it can be safely used for simulation" (engine.ts:223): in every state, and
\* under every policy whose rules do not throw, the dry run approves a transaction
\* exactly when evaluation would, unless a second velocity rule counts it again.
DryRunAgrees ==
  \A tx \in Transaction :
    /\ \A i, j \in Paced : i = j
    /\ policy # NoPolicy => \A i \in DOMAIN policy.rules : policy.rules[i].type \notin Throwing
    => EvaluateWithDetails(tx) = EvaluateWithAudit(tx).approved

\* The same comment, of policies with one rule of any kind: what the dry run
\* approves, evaluation approves.
DryRunForetells ==
  \A tx \in Transaction :
    policy # NoPolicy /\ Len(policy.rules) = 1 /\ EvaluateWithDetails(tx)
      => EvaluateWithAudit(tx).approved

=============================================================================
