----------------------------- MODULE SpendPolicy -----------------------------
(***************************************************************************)
(* contracts/spend-policy: the rolling 24-hour limit of one account in one *)
(* asset.  A call that answers an error is undone, so it is no step.       *)
(***************************************************************************)
EXTENDS LedgerClock, Sequences, Functions

CONSTANTS
  Window,      \* WINDOW_SECONDS and LIMIT_CHANGE_DELAY
  MaxEntries,  \* MAX_ENTRIES
  DailyLimit,  \* the limits the master key asks for
  Spending,    \* the amounts the account asks for
  NoLimit      \* "not initialized", and "no limit is pending"

ASSUME PolicyAssumption ==
  Window \in Nat \ {0} /\ MaxEntries \in Nat \ {0} /\ DailyLimit \subseteq Int /\ Spending \subseteq Int

VARIABLES
  dailyLimit,    \* DataKey::Limit; NoLimit before initialize()
  pendingLimit,  \* DataKey::Pending
  spends,        \* DataKey::Spends
  spentAt        \* history: the tokens spent at each timestamp

policyVars == <<dailyLimit, pendingLimit, spends, spentAt>>

SpendEntry == [timestamp : Nat, amount : Nat \ {0}]

PolicyTypeOK ==
  /\ dailyLimit \in Nat \cup {NoLimit}
  /\ pendingLimit \in [limit : Nat, effective : Nat] \cup {NoLimit}
  /\ spends \in Seq(SpendEntry) /\ Len(spends) <= MaxEntries
  /\ spentAt \in [0..LastNow -> Nat]

PolicyInit ==
  /\ dailyLimit = NoLimit
  /\ pendingLimit = NoLimit
  /\ spends = <<>>
  /\ spentAt = [t \in 0..LastNow |-> 0]

HasMaster == dailyLimit # NoLimit

\* initialize(): an account whose limit was never set has the limit 0.  Ledgers
\* close at timestamps after 0.
SetMaster ==
  /\ ~HasMaster /\ now > 0
  /\ dailyLimit' = 0
  /\ UNCHANGED <<pendingLimit, spends, spentAt>>

SetLimit(l) ==
  /\ HasMaster /\ l >= 0
  /\ dailyLimit' = l
  /\ UNCHANGED <<pendingLimit, spends, spentAt>>

ScheduleLimit(l) ==
  /\ HasMaster /\ l >= 0
  /\ pendingLimit' = [limit |-> l, effective |-> now + Window]
  /\ UNCHANGED <<dailyLimit, spends, spentAt>>

ApplyPendingLimit ==
  /\ pendingLimit # NoLimit
  /\ now >= pendingLimit.effective
  /\ dailyLimit' = pendingLimit.limit
  /\ pendingLimit' = NoLimit
  /\ UNCHANGED <<spends, spentAt>>

\* pruned_entries(): of the first i entries, those strictly newer than the cutoff.
Kept[i \in 0..Len(spends)] ==
  IF i = 0 THEN <<>>
  ELSE IF spends[i].timestamp > SaturatingSub(now, Window)
       THEN Append(Kept[i - 1], spends[i])
       ELSE Kept[i - 1]

PrunedEntries == Kept[Len(spends)]

Consumed == SumFunction([i \in DOMAIN PrunedEntries |-> PrunedEntries[i].amount])

\* What a full window could do instead of refusing: forget its oldest entry.
SpendForgetting(amount) ==
  /\ HasMaster /\ amount > 0
  /\ amount <= dailyLimit - Consumed
  /\ spends' = Append(IF Len(PrunedEntries) < MaxEntries THEN PrunedEntries ELSE Tail(PrunedEntries),
                      [timestamp |-> now, amount |-> amount])
  /\ spentAt' = [spentAt EXCEPT ![now] = @ + amount]
  /\ UNCHANGED <<dailyLimit, pendingLimit>>

Spend(amount) ==
  /\ HasMaster /\ amount > 0
  /\ amount <= dailyLimit - Consumed
  /\ Len(PrunedEntries) < MaxEntries
  /\ spends' = Append(PrunedEntries, [timestamp |-> now, amount |-> amount])
  /\ spentAt' = [spentAt EXCEPT ![now] = @ + amount]
  /\ UNCHANGED <<dailyLimit, pendingLimit>>

PolicyNext ==
  \/ SetMaster
  \/ \E l \in DailyLimit : SetLimit(l) \/ ScheduleLimit(l)
  \/ ApplyPendingLimit
  \/ \E amount \in Spending : Spend(amount)

---------------------------------------------------------------------------
(* Properties *)

\* Whatever was spent, pruned, set and scheduled before: with each spend the
\* account has spent, in the Window that ends now, at most the limit in force.
SpentInWindow ==
  SumFunctionOnSet(spentAt, {t \in 0..now : t + Window > now})

WindowNotOverspent ==
  [][spentAt' # spentAt => SpentInWindow' <= dailyLimit]_<<now, policyVars>>

=============================================================================
