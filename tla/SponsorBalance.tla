---------------------------- MODULE SponsorBalance ----------------------------
(***************************************************************************)
(* The balance of the sponsor account: the polls of fee-sponsor/monitor.ts *)
(* and the refills of fee-sponsor/refill.ts that server.ts has a poll ask  *)
(* for, in replicas that share the account and nothing else.  Polls start  *)
(* on a timer, whether or not earlier ones have ended; Horizon may answer  *)
(* late, and a transfer that failed may have been applied, or be yet.      *)
(***************************************************************************)
EXTENDS Integers

CONSTANTS
  Replica,
  Poll,           \* calls of checkBalance()
  MinBalance,     \* minBalanceXlm
  TargetBalance,  \* targetBalanceXlm
  Cooldown,       \* cooldownMs
  LastPoll,       \* bound: where the clock stops
  MaxExcess       \* bound: nobody refills after that much

ASSUME BalanceAssumption ==
  /\ MinBalance \in Nat /\ TargetBalance \in Nat /\ Cooldown \in Nat /\ LastPoll \in Nat

VARIABLES
  elapsed,          \* Date.now()
  balance,          \* external: the account's, in units of the fees paid between polls
  polls,            \* per poll: where it is, whose, the balance it loaded and when
  refillInProgress, lastRefillAt,  \* per replica; lastRefillAt long ago at first
  unsettled,        \* external, per poll: a transfer that threw and will be applied
  excess            \* history: what was refilled by transfers applied after they
                    \* threw, and for balances that had been refilled or may have

balanceVars ==
  <<elapsed, balance, polls, refillInProgress, lastRefillAt, unsettled, excess>>

NotPolling == [stage |-> "none"]

\* "sure", a history: what the poll saw has not been refilled, but for what its own
\* replica knows of.
Polling ==
  [stage : {"loading", "transferring", "applied"}, of : Replica,
   seen : Nat, asked : 0..LastPoll, sure : {"yes", "no"}]

Alerting == [stage : {"alerting"}, of : Replica]

BalanceTypeOK ==
  /\ elapsed \in 0..LastPoll /\ balance \in Nat
  /\ refillInProgress \in [Replica -> BOOLEAN]
  /\ lastRefillAt \in [Replica -> (-Cooldown)..LastPoll]
  /\ polls \in [Poll -> {NotPolling} \cup Polling \cup Alerting]
  /\ unsettled \in [Poll -> Nat] /\ excess \in Nat

BalanceInit ==
  /\ elapsed = 0
  /\ balance = TargetBalance
  /\ polls = [p \in Poll |-> NotPolling]
  /\ refillInProgress = [r \in Replica |-> FALSE]
  /\ lastRefillAt = [r \in Replica |-> -Cooldown]
  /\ unsettled = [p \in Poll |-> 0] /\ excess = 0

refillVars == <<refillInProgress, lastRefillAt>>

TimeGoesOn ==
  /\ elapsed < LastPoll
  /\ elapsed' = elapsed + 1
  /\ UNCHANGED <<balance, polls, refillVars, unsettled, excess>>

\* The sponsor pays a fee.
PayFee ==
  /\ balance > 0
  /\ balance' = balance - 1
  /\ UNCHANGED <<elapsed, polls, refillVars, unsettled, excess>>

\* checkBalance(), for start(), for its timer or for GET /sponsor/status: Horizon reads
\* the account, and will answer in its time.
CheckBalance(p, r) ==
  /\ polls[p] = NotPolling /\ unsettled[p] = 0
  /\ polls' = [polls EXCEPT ![p] = [stage |-> "loading", of |-> r, seen |-> balance,
                                    asked |-> elapsed, sure |-> "yes"]]
  /\ UNCHANGED <<elapsed, balance, refillVars, unsettled, excess>>

At(p, stage) == polls[p].stage = stage

Goes(p, to) == [polls EXCEPT ![p].stage = to]

Alerts(p) == [polls EXCEPT ![p] = [stage |-> "alerting", of |-> polls[p].of]]

\* Horizon fails, or there is balance enough.
NothingToDo(p) ==
  /\ At(p, "loading")
  /\ polls' = [polls EXCEPT ![p] = NotPolling]
  /\ UNCHANGED <<elapsed, balance, refillVars, unsettled, excess>>

IsLow(p) == polls[p].seen < MinBalance

\* refillIfLow()
Refillable(p) ==
  /\ ~refillInProgress[polls[p].of]
  /\ elapsed - lastRefillAt[polls[p].of] >= Cooldown
  /\ TargetBalance > polls[p].seen

LowWithoutRefill(p) ==
  /\ At(p, "loading") /\ IsLow(p) /\ ~Refillable(p)
  /\ polls' = Alerts(p)
  /\ UNCHANGED <<elapsed, balance, refillVars, unsettled, excess>>

\* A balance as old as the cooldown may have been refilled before it, and beside
\* another replica's transfer it is as good as refilled.
Doubtful(p) ==
  \/ elapsed - polls[p].asked >= Cooldown
  \/ \E q \in Poll : At(q, "transferring")

BeginRefill(p) ==
  /\ At(p, "loading") /\ IsLow(p) /\ Refillable(p) /\ excess < MaxExcess
  /\ polls' = [polls EXCEPT ![p].stage = "transferring",
                            ![p].sure = IF Doubtful(p) THEN "no" ELSE @]
  /\ refillInProgress' = [refillInProgress EXCEPT ![polls[p].of] = TRUE]
  /\ UNCHANGED <<elapsed, balance, lastRefillAt, unsettled, excess>>

Amount(p) == TargetBalance - polls[p].seen

\* Those of the replicas that loaded what has been refilled by now.
Unsure(moved, replicas) ==
  [q \in Poll |-> IF moved[q].stage = "loading" /\ moved[q].of \in replicas
                  THEN [moved[q] EXCEPT !.sure = "no"]
                  ELSE moved[q]]

\* The network applies the transfer before transfer() returns or throws.
TransferApplied(p) ==
  /\ At(p, "transferring")
  /\ polls' = Unsure(Goes(p, "applied"), Replica \ {polls[p].of})
  /\ balance' = balance + Amount(p)
  /\ excess' = IF polls[p].sure = "yes" THEN excess ELSE excess + Amount(p)
  /\ UNCHANGED <<elapsed, refillVars, unsettled>>

\* Mutant of TransferReturned: the cooldown is not begun.
TransferReturnedForgotten(p) ==
  /\ At(p, "applied")
  /\ polls' = Alerts(p)
  /\ refillInProgress' = [refillInProgress EXCEPT ![polls[p].of] = FALSE]
  /\ UNCHANGED <<elapsed, balance, lastRefillAt, unsettled, excess>>

TransferReturned(p) ==
  /\ At(p, "applied")
  /\ polls' = Alerts(p)
  /\ lastRefillAt' = [lastRefillAt EXCEPT ![polls[p].of] = elapsed]
  /\ refillInProgress' = [refillInProgress EXCEPT ![polls[p].of] = FALSE]
  /\ UNCHANGED <<elapsed, balance, unsettled, excess>>

\* checkBalance() logs it and alerts all the same; no cooldown begins.  A transfer
\* that timed out may be applied yet.
TransferThrew(p) ==
  /\ \/ /\ At(p, "transferring")
        /\ polls' = Alerts(p)
        /\ \E amount \in {0, Amount(p)} : unsettled' = [unsettled EXCEPT ![p] = amount]
     \/ /\ At(p, "applied")
        /\ polls' = Unsure(Alerts(p), {polls[p].of})
        /\ UNCHANGED unsettled
  /\ refillInProgress' = [refillInProgress EXCEPT ![polls[p].of] = FALSE]
  /\ UNCHANGED <<elapsed, balance, lastRefillAt, excess>>

AppliedLate(p) ==
  /\ unsettled[p] > 0
  /\ balance' = balance + unsettled[p] /\ excess' = excess + unsettled[p]
  /\ unsettled' = [unsettled EXCEPT ![p] = 0]
  /\ UNCHANGED <<elapsed, polls, refillVars>>

\* The webhook and the dispatcher were told, or could not be.
Alerted(p) ==
  /\ At(p, "alerting")
  /\ polls' = [polls EXCEPT ![p] = NotPolling]
  /\ UNCHANGED <<elapsed, balance, refillVars, unsettled, excess>>

\* A replica dies and starts again; what it had sent may be applied yet.
Restart(r) ==
  LET lost == {p \in Poll : polls[p] # NotPolling /\ polls[p].of = r}
  IN /\ polls' = [p \in Poll |-> IF p \in lost THEN NotPolling ELSE polls[p]]
     /\ unsettled' = [p \in Poll |-> IF p \in lost /\ At(p, "transferring") THEN Amount(p) ELSE unsettled[p]]
     /\ refillInProgress' = [refillInProgress EXCEPT ![r] = FALSE]
     /\ lastRefillAt' = [lastRefillAt EXCEPT ![r] = -Cooldown]
     /\ UNCHANGED <<elapsed, balance, excess>>

BalanceNext ==
  \/ TimeGoesOn \/ PayFee
  \/ \E p \in Poll :
       \/ \E r \in Replica : CheckBalance(p, r)
       \/ NothingToDo(p) \/ LowWithoutRefill(p)
       \/ BeginRefill(p) \/ TransferApplied(p) \/ TransferReturned(p) \/ TransferThrew(p)
       \/ AppliedLate(p) \/ Alerted(p)
  \/ \E r \in Replica : Restart(r)

BalanceSpec == BalanceInit /\ [][BalanceNext]_balanceVars

---------------------------------------------------------------------------

\* One shortage is refilled once, however many polls saw it.  The account goes past
\* its target only by transfers that threw and were applied afterwards, and by those
\* for a balance that another replica's refill, one that threw, or any in a poll as
\* long as the cooldown may have overtaken.
RefilledOnce == balance <= TargetBalance + excess

=============================================================================
