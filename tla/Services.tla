------------------------------- MODULE Services -------------------------------
(***************************************************************************)
(* Services that share nothing with each other, one of them at work in a   *)
(* behaviour: the others wait in their initial states.                     *)
(***************************************************************************)
EXTENDS TransactionSequence, Sep10, PolicyFile, Webhooks, LedgerIngestion, StreamClient,
        RateLimiter, SponsorBalance, RecoveryHook, ApprovalHooks, TLC

VARIABLE service  \* bound: the one at work

Service == {"sequence", "sep10", "file", "webhooks", "ingestion", "stream", "limiter",
            "balance", "hook", "approvals"}

allVars ==
  <<sequenceVars, sep10Vars, fileVars, webhookVars, ingestionVars, streamVars, limiterVars,
    balanceVars, hookVars, approvalVars, service>>

ServicesInit ==
  /\ service \in Service
  /\ SequenceInit /\ Sep10Init /\ FileInit /\ WebhooksInit /\ IngestionInit /\ StreamInit
  /\ LimiterInit /\ BalanceInit /\ HookInit /\ ApprovalInit
  \* Who waits, waits in one state.
  /\ service # "webhooks" => ~persistent
  /\ service # "approvals" => ~upgrade

ServicesNext ==
  /\ \/ service = "sequence" /\ SequenceNext
        /\ UNCHANGED <<sep10Vars, fileVars, webhookVars, ingestionVars, streamVars,
                       limiterVars, balanceVars, hookVars, approvalVars>>
     \/ service = "sep10" /\ Sep10Next
        /\ UNCHANGED <<sequenceVars, fileVars, webhookVars, ingestionVars, streamVars,
                       limiterVars, balanceVars, hookVars, approvalVars>>
     \/ service = "file" /\ FileNext
        /\ UNCHANGED <<sequenceVars, sep10Vars, webhookVars, ingestionVars, streamVars,
                       limiterVars, balanceVars, hookVars, approvalVars>>
     \/ service = "webhooks" /\ WebhooksNext
        /\ UNCHANGED <<sequenceVars, sep10Vars, fileVars, ingestionVars, streamVars,
                       limiterVars, balanceVars, hookVars, approvalVars>>
     \/ service = "ingestion" /\ IngestionNext
        /\ UNCHANGED <<sequenceVars, sep10Vars, fileVars, webhookVars, streamVars,
                       limiterVars, balanceVars, hookVars, approvalVars>>
     \/ service = "stream" /\ StreamNext
        /\ UNCHANGED <<sequenceVars, sep10Vars, fileVars, webhookVars, ingestionVars,
                       limiterVars, balanceVars, hookVars, approvalVars>>
     \/ service = "limiter" /\ LimiterNext
        /\ UNCHANGED <<sequenceVars, sep10Vars, fileVars, webhookVars, ingestionVars,
                       streamVars, balanceVars, hookVars, approvalVars>>
     \/ service = "balance" /\ BalanceNext
        /\ UNCHANGED <<sequenceVars, sep10Vars, fileVars, webhookVars, ingestionVars,
                       streamVars, limiterVars, hookVars, approvalVars>>
     \/ service = "hook" /\ HookNext
        /\ UNCHANGED <<sequenceVars, sep10Vars, fileVars, webhookVars, ingestionVars,
                       streamVars, limiterVars, balanceVars, approvalVars>>
     \/ service = "approvals" /\ ApprovalNext
        /\ UNCHANGED <<sequenceVars, sep10Vars, fileVars, webhookVars, ingestionVars,
                       streamVars, limiterVars, balanceVars, hookVars>>
  /\ UNCHANGED service

ServicesSpec == ServicesInit /\ [][ServicesNext]_allVars

\* Calls of the dispatcher are alike, and so are webhooks.  Whatever else of two kinds a
\* service does not tell apart is given the same values: wallets, policies and saves,
\* subscriptions, polls and replicas, and what the hooks' calls, timers and items are.
Alike == Permutations(Hook) \cup Permutations(Call) \cup Permutations(RecoveryId)

---------------------------------------------------------------------------

\* The hooks lose sight of nothing they show: RecoveryWatched of the recovery hook, and
\* ApprovalWatched of the approval and the upgrade hook.
HooksWatch == RecoveryWatched /\ ApprovalWatched

=============================================================================
