---------------------------- MODULE ServiceProofs ----------------------------
(***************************************************************************)
(* Each of the services keeps its promise, for any number of callers,      *)
(* wallets, webhooks, streams and subscriptions.                           *)
(***************************************************************************)
EXTENDS Services, FoldTheorems, SequenceTheorems

---------------------------------------------------------------------------
(* The composition moves one service at a time. *)

LEMMA Projections ==
  ServicesSpec =>
    /\ SequenceSpec /\ Sep10Spec /\ FileSpec /\ WebhooksSpec /\ IngestionSpec /\ StreamSpec
    /\ LimiterSpec /\ BalanceSpec /\ HookSpec /\ ApprovalSpec
<1>1. ServicesInit =>
        /\ SequenceInit /\ Sep10Init /\ FileInit
        /\ WebhooksInit /\ IngestionInit /\ StreamInit /\ LimiterInit /\ BalanceInit /\ HookInit
        /\ ApprovalInit
  BY DEF ServicesInit
<1>2. [ServicesNext]_allVars =>
        /\ [SequenceNext]_sequenceVars /\ [Sep10Next]_sep10Vars /\ [FileNext]_fileVars
        /\ [WebhooksNext]_webhookVars /\ [IngestionNext]_ingestionVars /\ [StreamNext]_streamVars
        /\ [LimiterNext]_limiterVars /\ [BalanceNext]_balanceVars /\ [HookNext]_hookVars
        /\ [ApprovalNext]_approvalVars
  BY Zenon DEF ServicesNext, allVars
<1> QED
  BY <1>1, <1>2, PTL DEF ServicesSpec, SequenceSpec, Sep10Spec, FileSpec, WebhooksSpec,
     IngestionSpec, StreamSpec, LimiterSpec, BalanceSpec, HookSpec, ApprovalSpec

---------------------------------------------------------------------------
(* Sequence numbers *)

\* The counter is past every number that is held or was used.
CounterAhead ==
  /\ \A n \in used : n <= counter
  /\ \A c \in Caller : at[c] \in Holding => sequence[c] \in 1..counter

\* A rollback gives back the caller's own number, or none.
OwnKey ==
  \A c \in Caller : at[c] \in {"working", "rollingBack", "retrying"} =>
    reservation[c] \in {0, sequence[c]}

\* A call that will try again has a retry left.
RetryLeft == \A c \in Caller : at[c] = "retrying" => retries[c] < SeqRetries

SequenceInv == SequenceTypeOK /\ CounterAhead /\ OwnKey /\ RetryLeft /\ OneReservationPerSequence

LEMMA SequenceInvInit == SequenceInit => SequenceInv
  BY SequenceAssumption
     DEF SequenceInit, SequenceInv, SequenceTypeOK, CounterAhead, OwnKey, RetryLeft,
         OneReservationPerSequence, Holding

LEMMA SequenceInvNext == SequenceInv /\ [SequenceNext]_sequenceVars => SequenceInv'
<1> SUFFICES ASSUME SequenceInv, [SequenceNext]_sequenceVars PROVE SequenceInv'
  OBVIOUS
<1> USE SequenceAssumption
<1>1. CASE UNCHANGED sequenceVars
  BY <1>1 DEF sequenceVars, SequenceInv, SequenceTypeOK, CounterAhead, OwnKey, RetryLeft,
     OneReservationPerSequence
<1>2. ASSUME NEW c \in Caller, SequenceStep(c) PROVE SequenceInv'
  <2> USE DEF SequenceInv, SequenceTypeOK, CounterAhead, OwnKey, RetryLeft, OneReservationPerSequence,
              Holding, Go, Leave
  <2>1. CASE Incr(c)
    <3>1. /\ counter' = counter + 1 /\ counter' \in Nat
          /\ at' = [at EXCEPT ![c] = "reserving"]
          /\ sequence' = [sequence EXCEPT ![c] = counter + 1]
          /\ UNCHANGED <<reservation, retries, used>>
      BY <2>1 DEF Incr
    <3>2. \A d \in Caller : at'[d] \in Holding =>
            sequence'[d] \in 1..counter' /\ (d # c => at[d] \in Holding /\ sequence'[d] <= counter)
      BY <3>1
    <3>3. \A n \in used : n <= counter /\ n < counter'
      BY <3>1
    <3>4. SequenceTypeOK'
      BY <3>1
    <3>5. OneReservationPerSequence'
      BY <3>1, <3>2, <3>3
    <3> QED BY <3>1, <3>2, <3>3, <3>4, <3>5
  <2>2. CASE IncrThrows(c) BY <2>2 DEF IncrThrows
  <2>3. CASE SetReservation(c) BY <2>3 DEF SetReservation
  <2>4. CASE SetThrows(c) BY <2>4 DEF SetThrows
  <2>5. CASE FnReturns(c)
    <3>1. /\ at[c] = "working" /\ at' = [at EXCEPT ![c] = "committing"]
          /\ used' = used \cup {sequence[c]}
          /\ UNCHANGED <<counter, reservation, sequence, retries>>
      BY <2>5 DEF FnReturns
    <3>2. sequence[c] \in 1..counter
      BY <3>1
    <3>3. SequenceTypeOK'
      <4>1. sequence[c] \in Nat
        OBVIOUS
      <4>2. used' \subseteq Nat
        BY <4>1, <3>1
      <4>3. at' \in [Caller -> Holding \cup {"idle"}]
        BY <3>1
      <4> QED BY <3>1, <4>2, <4>3
    <3>4. \A n \in used' : n <= counter'
      BY <3>1, <3>2
    <3>5. \A d \in Caller : at'[d] \in Holding => at[d] \in Holding
      BY <3>1
    <3>6. OneReservationPerSequence'
      BY <3>1, <3>5
    <3>7. OwnKey' /\ RetryLeft'
      BY <3>1
    <3> QED BY <3>1, <3>3, <3>4, <3>5, <3>6, <3>7
  <2>6. CASE FnThrows(c)
    <3>1. /\ at' \in {[at EXCEPT ![c] = "rollingBack"], [at EXCEPT ![c] = "retrying"]}
          /\ at'[c] = "retrying" => retries[c] < SeqRetries
          /\ UNCHANGED <<counter, reservation, sequence, retries, used>>
          /\ at[c] = "working"
      BY <2>6 DEF FnThrows
    <3> QED BY <3>1
  <2>7. CASE Commit(c) BY <2>7 DEF Commit
  <2>8. CASE Rollback(c)
    <3>1. /\ at[c] \in Holding /\ at[c] # "committing"
          /\ sequence[c] \in 1..counter /\ sequence[c] \notin used
          /\ \A d \in Caller \ {c} : at[d] \in Holding => sequence[d] # sequence[c]
      BY <2>8 DEF Rollback
    <3>2. \/ counter' = counter
          \/ counter = sequence[c] /\ counter' = counter - 1
      BY <2>8 DEF Rollback, Release
    <3>3. /\ reservation' \in [Caller -> Nat]
          /\ \A d \in Caller \ {c} : reservation'[d] = reservation[d]
      BY <2>8 DEF Rollback, Release
    <3>4. /\ used' = used
          /\ at' = [at EXCEPT ![c] = "idle"]
          /\ sequence' = [sequence EXCEPT ![c] = 0]
          /\ retries' \in [Caller -> 0..SeqRetries]
      <4>1. CASE at[c] = "retrying"
        <5>1. retries[c] + 1 \in 0..SeqRetries
          BY <4>1
        <5> QED BY <4>1, <5>1, <2>8 DEF Rollback
      <4>2. CASE at[c] = "rollingBack"
        BY <4>2, <2>8 DEF Rollback
      <4> QED BY <4>1, <4>2, <2>8 DEF Rollback
    <3>5. \A d \in Caller : at'[d] \in Holding => d # c /\ at[d] \in Holding /\ at'[d] = at[d]
                                                 /\ sequence'[d] = sequence[d]
      BY <3>4
    <3>6. counter' \in Nat
      BY <3>1, <3>2
    <3>7. SequenceTypeOK'
      BY <3>3, <3>4, <3>6
    <3>8. CounterAhead'
      <4>1. CASE counter' = counter
        BY <4>1, <3>4, <3>5
      <4>2. CASE counter = sequence[c] /\ counter' = counter - 1
        <5>1. \A n \in used : n \in Nat /\ n <= counter /\ n # counter
          BY <4>2, <3>1
        <5>2. \A d \in Caller : at'[d] \in Holding => sequence[d] \in 1..counter /\ sequence[d] # counter
          BY <4>2, <3>1, <3>5
        <5> QED BY <4>2, <5>1, <5>2, <3>4, <3>5
      <4> QED BY <4>1, <4>2, <3>2
    <3>9. OneReservationPerSequence'
      BY <3>4, <3>5
    <3>10. \A d \in Caller \ {c} : at'[d] = at[d] /\ retries'[d] = retries[d]
      BY <2>8 DEF Rollback
    <3>11. OwnKey' /\ RetryLeft'
      BY <3>3, <3>4, <3>5, <3>10
    <3> QED BY <3>7, <3>8, <3>9, <3>11
  <2>9. CASE Expire(c) BY <2>9 DEF Expire
  <2>10. CASE Die(c) BY <2>10 DEF Die
  <2> QED
    BY <1>2, <2>1, <2>2, <2>3, <2>4, <2>5, <2>6, <2>7, <2>8, <2>9, <2>10 DEF SequenceStep
<1> QED BY <1>1, <1>2 DEF SequenceNext

\* However calls of withSequence() overlap, fail, expire and die: no two of them
\* hold one sequence number, and none that was used is handed out again.
THEOREM SequenceNumbersApart == ServicesSpec => []OneReservationPerSequence
<1>1. SequenceSpec => []OneReservationPerSequence
  <2>1. SequenceInv => OneReservationPerSequence
    BY DEF SequenceInv
  <2> QED BY <2>1, SequenceInvInit, SequenceInvNext, PTL DEF SequenceSpec
<1> QED BY <1>1, Projections

---------------------------------------------------------------------------
(* Policy files *)

\* What a call writes the wallets have had since it began, and what any call
\* writes the file may hold.
FileInv ==
  /\ FileTypeOK
  /\ FileNotBehind
  /\ \A w \in Wallet : policies[w] \in admissible[w]
  /\ \A s \in Pending : \A w \in Wallet : policies[w] \in known[s][w]
  /\ \A s \in Writing : \A w \in Wallet :
       snapshot[s][w] \in known[s][w] /\ snapshot[s][w] \in admissible[w]

LEMMA FileInvInit == FileInit => FileInv
<1> SUFFICES ASSUME FileInit PROVE FileInv
  OBVIOUS
<1> USE DEF FileInit, Contents, Nothing
<1>1. admissible \in Histories
  BY DEF Only, Histories
<1>2. known \in [Persist -> Histories]
  BY DEF None, Histories
<1>3. FileTypeOK
  BY <1>1, <1>2 DEF FileTypeOK
<1>4. \A w \in Wallet : policies[w] \in admissible[w] /\ file[w] \in admissible[w]
  BY DEF Only
<1> QED BY <1>3, <1>4 DEF FileInv, FileNotBehind, Pending, Writing

LEMMA FileInvNext == FileInv /\ [FileNext]_fileVars => FileInv'
<1> SUFFICES ASSUME FileInv, [FileNext]_fileVars PROVE FileInv'
  OBVIOUS
<1> USE DEF FileInv, FileTypeOK, FileNotBehind, Contents, Pending, Writing
<1>1. ASSUME NEW s \in Persist, NEW w \in Wallet, NEW p \in Stored \cup {NotStored}, Change(s, w, p)
      PROVE  FileInv'
  <2>1. /\ policies' = [policies EXCEPT ![w] = p] /\ policies' \in Contents
        /\ persisting' = [persisting EXCEPT ![s] = "mkdir"] /\ persisting[s] = "no"
        /\ admissible' = [admissible EXCEPT ![w] = @ \cup {p}]
        /\ UNCHANGED <<file, snapshot>>
    BY <1>1 DEF Change
  <2>2. /\ admissible' \in Histories
        /\ \A x \in Wallet : admissible[x] \subseteq admissible'[x] /\ policies'[x] \in admissible'[x]
    BY <2>1 DEF Histories
  <2>3. /\ known'[s] = [x \in Wallet |-> {policies'[x]}]
        /\ \A t \in Pending : known'[t] = [known[t] EXCEPT ![w] = @ \cup {p}]
        /\ \A t \in Persist \ (Pending \cup {s}) : known'[t] = known[t]
    BY <1>1, <2>1 DEF Change, Only
  <2>4. ASSUME NEW t \in Persist
        PROVE  /\ known'[t] \in Histories
               /\ t \in Pending => \A x \in Wallet : /\ known[t][x] \subseteq known'[t][x]
                                                     /\ policies'[x] \in known'[t][x]
    <3>1. CASE t = s
      BY <2>1, <2>3, <3>1 DEF Histories
    <3>2. CASE t # s /\ t \in Pending
      <4>1. /\ known'[t] = [known[t] EXCEPT ![w] = known[t][w] \cup {p}]
            /\ known[t] \in Histories /\ \A x \in Wallet : policies[x] \in known[t][x]
        BY <2>3, <3>2
      <4>2. known'[t] \in Histories
        BY <4>1 DEF Histories
      <4>3. ASSUME NEW x \in Wallet
            PROVE  known[t][x] \subseteq known'[t][x] /\ policies'[x] \in known'[t][x]
        <5>1. CASE x = w
          BY <2>1, <4>1, <5>1 DEF Histories
        <5>2. CASE x # w
          BY <2>1, <4>1, <5>2 DEF Histories
        <5> QED BY <5>1, <5>2
      <4> QED BY <4>2, <4>3
    <3>3. CASE t # s /\ t \notin Pending
      BY <2>3, <3>3
    <3> QED BY <3>1, <3>2, <3>3
  <2>5. known' \in [Persist -> Histories]
    BY <1>1, <2>4 DEF Change
  <2>6. /\ persisting' \in [Persist -> {"no", "mkdir", "writing"}]
        /\ Pending' = Pending \cup {s} /\ Writing' = Writing /\ Writing \subseteq Pending
    BY <2>1
  <2>7. \A t \in Pending' : \A x \in Wallet : policies'[x] \in known'[t][x]
    BY <2>3, <2>4, <2>6
  <2>8. \A t \in Writing' : \A x \in Wallet :
          snapshot'[t][x] \in known'[t][x] /\ snapshot'[t][x] \in admissible'[x]
    BY <2>1, <2>2, <2>4, <2>6
  <2>9. \A x \in Wallet : file'[x] \in admissible'[x]
    BY <2>1, <2>2
  <2> QED BY <2>1, <2>2, <2>5, <2>6, <2>7, <2>8, <2>9
<1>2. ASSUME NEW s \in Persist, Snapshot(s) PROVE FileInv'
  <2>1. /\ UNCHANGED <<policies, file, known, admissible>> /\ s \in Pending
        /\ persisting' = [persisting EXCEPT ![s] = "writing"]
        /\ snapshot' = [snapshot EXCEPT ![s] = policies]
    BY <1>2 DEF Snapshot
  <2>2. Pending' = Pending /\ Writing' = Writing \cup {s}
    BY <2>1
  <2>3. persisting' \in [Persist -> {"no", "mkdir", "writing"}] /\ snapshot' \in [Persist -> Contents]
    BY <2>1
  <2>4. \A t \in Writing' : \A x \in Wallet :
          snapshot'[t][x] \in known'[t][x] /\ snapshot'[t][x] \in admissible'[x]
    <3> SUFFICES ASSUME NEW t \in Writing', NEW x \in Wallet
                 PROVE  snapshot'[t][x] \in known'[t][x] /\ snapshot'[t][x] \in admissible'[x]
      OBVIOUS
    <3>1. CASE t = s
      BY <2>1, <3>1
    <3>2. CASE t # s
      BY <2>1, <2>2, <3>2
    <3> QED BY <3>1, <3>2
  <2> QED BY <2>1, <2>2, <2>3, <2>4
\* A call that ends leaves what the others have seen.
<1>3. ASSUME NEW s \in Persist, End(s)
      PROVE  /\ policies' \in Contents
             /\ persisting' \in [Persist -> {"no", "mkdir", "writing"}]
             /\ snapshot' \in [Persist -> Contents]
             /\ known' \in [Persist -> Histories]
             /\ Pending' = Pending \ {s} /\ Writing' = Writing \ {s}
             /\ \A t \in Persist \ {s} : known'[t] = known[t] /\ snapshot'[t] = snapshot[t]
  <2>1. Nothing \in Contents /\ None \in Histories
    BY DEF Nothing, None, Histories
  <2>2. /\ UNCHANGED policies
        /\ persisting' = [persisting EXCEPT ![s] = "no"]
        /\ snapshot' = [snapshot EXCEPT ![s] = Nothing]
        /\ known' = [known EXCEPT ![s] = None]
    BY <1>3 DEF End
  <2>3. Pending' = Pending \ {s} /\ Writing' = Writing \ {s}
    BY <2>2
  <2> QED BY <2>1, <2>2, <2>3
<1>4. ASSUME NEW s \in Persist, Rename(s) PROVE FileInv'
  <2>1. /\ s \in Writing /\ End(s) /\ file' = snapshot[s] /\ UNCHANGED policies
        /\ admissible' = IF Writing = {s} THEN known[s] ELSE admissible
    BY <1>4 DEF Rename, End
  <2>2. admissible' \in Histories /\ file' \in Contents
    BY <2>1
  <2>3. \A x \in Wallet : policies'[x] \in admissible'[x] /\ file'[x] \in admissible'[x]
    BY <2>1
  <2>4. \A t \in Writing' : admissible' = admissible
    BY <1>3, <2>1
  <2> QED BY <1>3, <2>1, <2>2, <2>3, <2>4
<1>5. ASSUME NEW s \in Persist, PersistThrows(s) PROVE FileInv'
  <2>1. End(s) /\ UNCHANGED <<file, admissible, policies>>
    BY <1>5 DEF PersistThrows, End
  <2> QED BY <1>3, <2>1
<1>6. ASSUME LoadFromFile PROVE FileInv'
  <2>1. Nothing \in Contents /\ None \in Histories
    BY DEF Nothing, None, Histories
  <2>2. /\ policies' \in Contents /\ file' = file
        /\ persisting' = [s \in Persist |-> "no"]
        /\ snapshot' = [s \in Persist |-> Nothing]
        /\ known' = [s \in Persist |-> None]
        /\ admissible' = [w \in Wallet |-> {file[w], policies'[w]}]
    BY <1>6, <2>1 DEF LoadFromFile
  <2>3. admissible' \in Histories
    BY <2>2 DEF Histories
  <2>4. Pending' = {} /\ Writing' = {}
    BY <2>2
  <2> QED BY <2>1, <2>2, <2>3, <2>4
<1>7. ASSUME UNCHANGED fileVars PROVE FileInv'
  BY <1>7 DEF fileVars
<1> QED BY <1>1, <1>2, <1>4, <1>5, <1>6, <1>7 DEF FileNext, SavePolicy, DeletePolicy

\* Whatever overlapped, failed or crashed: no policy a restart finds is older than
\* the last save that replaced the file with no other snapshot waiting.
THEOREM FilesNotBehind == ServicesSpec => []FileNotBehind
<1>1. FileInv => FileNotBehind
  BY DEF FileInv
<1> QED BY <1>1, FileInvInit, FileInvNext, Projections, PTL DEF FileSpec

---------------------------------------------------------------------------
(* The delivery log *)

\* Only the first of the writers reads, and nobody writes before it has.
LogInv ==
  /\ writers \in Seq(Call)
  /\ contents \in [Call -> {Unread} \cup {<<log>>}]
  /\ \A c \in Call : contents[c] # Unread => Turn(c)
  /\ log = written

LEMMA LogInvInit == WebhooksInit => LogInv
  BY DEF WebhooksInit, LogInv, Turn

LEMMA LogInvNext == LogInv /\ [WebhooksNext]_webhookVars => LogInv'
<1> SUFFICES ASSUME LogInv, [WebhooksNext]_webhookVars PROVE LogInv'
  OBVIOUS
<1> USE DEF LogInv, Turn
<1>1. ASSUME UNCHANGED <<contents, log, written>>,
             \/ UNCHANGED writers
             \/ \E c \in Call : writers' = Append(writers, c)
      PROVE  LogInv'
  BY <1>1
<1>2. ASSUME NEW c \in Call, ReadLog(c) PROVE LogInv'
  BY <1>2 DEF ReadLog
<1>3. ASSUME NEW c \in Call, Turn(c), Written(c), \/ UNCHANGED <<log, written>>
                                                  \/ log' = written'
      PROVE  LogInv'
  <2>1. contents' = [x \in Call |-> Unread]
    BY <1>3 DEF Written
  <2> QED BY <1>3, <2>1 DEF Written
<1>4. ASSUME NEW c \in Call, WriteLog(c) PROVE LogInv'
  <2>1. contents[c] = <<log>>
    BY <1>4 DEF WriteLog
  <2>2. log' = written'
    BY <1>4, <2>1 DEF WriteLog
  <2> QED BY <1>3, <1>4, <2>2 DEF WriteLog
<1>5. ASSUME NEW c \in Call, WriteThrows(c) PROVE LogInv'
  BY <1>3, <1>5 DEF WriteThrows
<1>6. ASSUME NEW h \in Hook, NEW mode, Configure(h, mode) PROVE LogInv'
  BY <1>1, <1>6 DEF Configure
<1>7. ASSUME NEW c \in Call, Dispatch(c) PROVE LogInv'
  BY <1>1, <1>7 DEF Dispatch
<1>8. ASSUME NEW c \in Call, NEW d, RetryDelivery(c, d) PROVE LogInv'
  BY <1>1, <1>8 DEF RetryDelivery
<1>9. ASSUME NEW c \in Call, NEW job, ProcessQueueJob(c, job) PROVE LogInv'
  BY <1>1, <1>9 DEF ProcessQueueJob
<1>10. ASSUME NEW c \in Call, NEW h \in Hook, Attempt(c, h) PROVE LogInv'
  BY <1>1, <1>10 DEF Attempt, Settle
<1>11. ASSUME NEW c \in Call, NEW h \in Hook, EnqueueAttempt(c, h) PROVE LogInv'
  BY <1>1, <1>11 DEF EnqueueAttempt, Settle
<1>12. ASSUME NEW c \in Call, Finish(c) PROVE LogInv'
  BY <1>1, <1>12 DEF Finish
<1>13. ASSUME UNCHANGED webhookVars PROVE LogInv'
  BY <1>1, <1>13 DEF webhookVars
<1> QED
  BY <1>2, <1>4, <1>5, <1>6, <1>7, <1>8, <1>9, <1>10, <1>11, <1>12, <1>13 DEF WebhooksNext

\* No entry of the delivery log is lost to a writer that had read it before.
THEOREM DeliveryLogKept == ServicesSpec => []DeliveryLogWhole
<1>1. LogInv => DeliveryLogWhole
  BY DEF LogInv, DeliveryLogWhole
<1> QED BY <1>1, LogInvInit, LogInvNext, Projections, PTL DEF WebhooksSpec

---------------------------------------------------------------------------
(* Ledger streams *)

IngestionInv == IngestionTypeOK /\ OneStreamPerWallet

LEMMA IngestionInvInit == IngestionInit => IngestionInv
  BY DEF IngestionInit, IngestionInv, IngestionTypeOK, OneStreamPerWallet, Watched

\* Opening streams for addresses that have none.
LEMMA OpensApart ==
  ASSUME IngestionInv, NEW added \in SUBSET (Address \ Watched), OpenAll(added)
  PROVE  /\ opened' \in Nat /\ opened <= opened'
         /\ streams' \in [Address -> 0..opened']
         /\ open' = {<<streams'[a], a>> : a \in {a \in Address : streams'[a] # 0}}
         /\ open' \subseteq (1..opened') \X Address
<1>1. Cardinality(added) \in Nat
  <2>1. IsFiniteSet(added)
    BY IngestionAssumption, FS_Subset
  <2> QED BY <2>1, FS_CardinalityType
<1>2. /\ opened \in Nat /\ streams \in [Address -> 0..opened]
      /\ open = {<<streams[a], a>> : a \in Watched}
  BY DEF IngestionInv, IngestionTypeOK, OneStreamPerWallet
<1> DEFINE n == Cardinality(added)
<1>3. /\ opened' = opened + n
      /\ \E number \in [added -> (opened + 1)..(opened + n)] :
           /\ streams' = [a \in Address |-> IF a \in added THEN number[a] ELSE streams[a]]
           /\ open' = open \cup {<<number[a], a>> : a \in added}
  BY DEF OpenAll
<1> HIDE DEF n
<1>4. opened' \in Nat /\ opened <= opened' /\ (opened + 1)..(opened + n) \subseteq 1..opened'
  BY <1>1, <1>2, <1>3 DEF n
<1>5. PICK number \in [added -> 1..opened'] :
        /\ streams' = [a \in Address |-> IF a \in added THEN number[a] ELSE streams[a]]
        /\ open' = open \cup {<<number[a], a>> : a \in added}
  BY <1>3, <1>4
<1>6. streams' \in [Address -> 0..opened']
  BY <1>2, <1>4, <1>5
<1>12. \A a \in added : number[a] # 0
  BY <1>4, <1>5
<1>7. \A a \in Address : streams'[a] # 0 <=> a \in added \/ a \in Watched
  BY <1>5, <1>12 DEF Watched
<1>8. \A a \in Address : a \in added => streams'[a] = number[a]
  BY <1>5
<1>9. \A a \in Address : a \notin added => streams'[a] = streams[a]
  BY <1>5
<1>10. open' = {<<streams'[a], a>> : a \in {a \in Address : streams'[a] # 0}}
  BY <1>2, <1>5, <1>7, <1>8, <1>9 DEF Watched
<1>11. open' \subseteq (1..opened') \X Address
  BY <1>4, <1>6, <1>10
<1> QED BY <1>4, <1>6, <1>10, <1>11

LEMMA IngestionInvNext == IngestionInv /\ [IngestionNext]_ingestionVars => IngestionInv'
<1> SUFFICES ASSUME IngestionInv, [IngestionNext]_ingestionVars PROVE IngestionInv'
  OBVIOUS
<1> USE DEF IngestionInv, IngestionTypeOK, OneStreamPerWallet, Watched
<1>1. ASSUME UNCHANGED <<streams, open, opened>>, registered' \subseteq Address,
             refreshing' \subseteq Refresh, stopped' \in BOOLEAN, stopped' => stopped
      PROVE  IngestionInv'
  BY <1>1
<1>2. ASSUME NEW a \in Address, RegisterWallet(a) PROVE IngestionInv'
  BY <1>1, <1>2 DEF RegisterWallet
<1>3. ASSUME NEW r \in Refresh, StartIngestion(r) PROVE IngestionInv'
  BY <1>1, <1>3 DEF StartIngestion
<1>4. ASSUME NEW r \in Refresh, RefreshTick(r) PROVE IngestionInv'
  BY <1>1, <1>4 DEF RefreshTick
<1>5. ASSUME NEW r \in Refresh, ListThrows(r) PROVE IngestionInv'
  BY <1>1, <1>5 DEF ListThrows
<1>6. ASSUME NEW r \in Refresh, Listed(r) PROVE IngestionInv'
  <2>1. CASE stopped
    BY <1>1, <1>6, <2>1 DEF Listed
  <2>2. CASE ~stopped
    <3>1. PICK added \in SUBSET (registered \ Watched) : OpenAll(added)
      BY <1>6, <2>2 DEF Listed
    <3>2. added \in SUBSET (Address \ Watched)
      BY <3>1
    <3>3. /\ opened' \in Nat /\ streams' \in [Address -> 0..opened']
          /\ open' = {<<streams'[a], a>> : a \in {a \in Address : streams'[a] # 0}}
          /\ open' \subseteq (1..opened') \X Address
      BY <3>1, <3>2, OpensApart
    <3>4. ~stopped' /\ stopped' \in BOOLEAN /\ registered' = registered /\ refreshing' \subseteq Refresh
      BY <1>6, <2>2 DEF Listed
    <3> QED BY <3>3, <3>4
  <2> QED BY <2>1, <2>2
<1>7. ASSUME NEW s \in open, StreamFails(s) PROVE IngestionInv'
  <2>1. PICK a \in Address : streams[a] # 0 /\ s = <<streams[a], a>>
    OBVIOUS
  <2>2. streams' = [streams EXCEPT ![a] = 0] /\ open' = open \ {s}
    BY <1>7, <2>1 DEF StreamFails
  <2>3. UNCHANGED <<stopped, registered, refreshing, opened>>
    BY <1>7 DEF StreamFails
  <2>4. open' = {<<streams[b], b>> : b \in {b \in Address : b # a /\ streams[b] # 0}}
    BY <2>1, <2>2
  <2>5. open' = {<<streams'[b], b>> : b \in {b \in Address : streams'[b] # 0}}
    BY <2>2, <2>4
  <2>6. streams' \in [Address -> 0..opened]
    BY <2>2
  <2> QED BY <2>2, <2>3, <2>5, <2>6
<1>8. ASSUME StopIngestion PROVE IngestionInv'
  <2>1. open' = {}
    BY <1>8 DEF StopIngestion
  <2> QED BY <1>8, <2>1 DEF StopIngestion
<1>9. ASSUME UNCHANGED ingestionVars PROVE IngestionInv'
  BY <1>1, <1>9 DEF ingestionVars
<1> QED BY <1>2, <1>3, <1>4, <1>5, <1>6, <1>7, <1>8, <1>9 DEF IngestionNext

\* However refreshes, failures, stops and starts overlap, the streams that deliver
\* are exactly those the worker knows.
THEOREM NoStreamLeaks == ServicesSpec => []OneStreamPerWallet
<1>1. IngestionInv => OneStreamPerWallet
  BY DEF IngestionInv
<1> QED BY <1>1, IngestionInvInit, IngestionInvNext, Projections, PTL DEF IngestionSpec

---------------------------------------------------------------------------
(* Event streams of a client *)

\* Where a subscription stands in its feed.
InPlace(s) ==
  /\ received[s] # <<>> =>
       /\ cursor[s] = received[s][Len(received[s])]
       /\ sent[s] # Nowhere => sent[s] = received[s][Len(received[s])]
  /\ phaseOf[s] = "none" => socket[s] = "none" /\ sent[s] = Nowhere

\* The timer in reconnectTimer will fire.
Awaited == ReconnectPending /\ (timer => armed > 0)

ClientInv ==
  StreamTypeOK /\ Awaited /\ EventsContiguous /\ \A s \in Subscription : InPlace(s)

LEMMA ClientInvInit == StreamInit => ClientInv
<1> SUFFICES ASSUME StreamInit PROVE ClientInv
  OBVIOUS
<1>1. StreamTypeOK
  <2>1. <<>> \in Seq(0..LastEvent) /\ 0 \in 0..LastEvent
    BY LiveAssumption
  <2>2. received \in [Subscription -> Seq(0..LastEvent)]
    BY <2>1 DEF StreamInit
  <2> QED BY <2>1, <2>2 DEF StreamInit, StreamTypeOK, Nowhere
<1>2. Awaited
  BY DEF StreamInit, Awaited, ReconnectPending, Lost, Active
<1>3. EventsContiguous /\ \A s \in Subscription : InPlace(s)
  BY DEF StreamInit, EventsContiguous, InPlace
<1> QED BY <1>1, <1>2, <1>3 DEF ClientInv

\* What scheduleReconnect() does to the timers, whether or not one is set.
LEMMA Scheduled ==
  ASSUME StreamTypeOK, NEW scheduled \in BOOLEAN, NEW pending \in Nat,
         scheduled => pending > 0 /\ pending = armed, Schedule(scheduled, pending)
  PROVE  /\ connection' \in {"idle", "connecting", "open", "reconnecting", "closed"}
         /\ timer' \in BOOLEAN /\ attempted' \in BOOLEAN /\ armed' \in Nat /\ notifying' \in Nat
         /\ armed' > 0 \/ notifying' > 0
         /\ armed' > 0 \/ ~timer'
<1>1. CASE scheduled
  <2>1. UNCHANGED <<connection, timer, armed, attempted, notifying>> /\ armed > 0
    BY <1>1 DEF Schedule, timerVars
  <2> QED BY <2>1 DEF StreamTypeOK
<1>2. CASE ~scheduled /\ connection = "reconnecting"
  <2>1. /\ timer' = TRUE /\ attempted' = TRUE /\ armed' = pending + 1
        /\ connection' = "reconnecting" /\ notifying' = notifying
    BY <1>2 DEF Schedule, SetTimer
  <2>2. armed' \in Nat /\ armed' > 0 /\ notifying' \in Nat
    BY <2>1 DEF StreamTypeOK
  <2> QED BY <2>1, <2>2
<1>3. CASE ~scheduled /\ connection # "reconnecting"
  <2>1. /\ timer' = FALSE /\ attempted' = attempted /\ armed' = pending
        /\ connection' = "reconnecting" /\ notifying' = notifying + 1
    BY <1>3 DEF Schedule
  <2>2. notifying' \in Nat /\ notifying' > 0 /\ armed' \in Nat
    BY <2>1 DEF StreamTypeOK
  <2> QED BY <2>1, <2>2 DEF StreamTypeOK
<1> QED BY <1>1, <1>2, <1>3

LEMMA ClientInvNext == ClientInv /\ [StreamNext]_streamVars => ClientInv'
<1> SUFFICES ASSUME ClientInv, [StreamNext]_streamVars PROVE ClientInv'
  OBVIOUS
<1> USE LiveAssumption DEF Nowhere
<1> USE DEF Awaited, Returned, Lost
<1> DEFINE Place == EventsContiguous /\ \A s \in Subscription : InPlace(s)
<1>1. ASSUME UNCHANGED <<cursor, received>>,
             \A s \in Subscription : sent'[s] \in {sent[s], Nowhere},
             \A s \in Subscription : phaseOf'[s] = "none" =>
               phaseOf[s] = "none" /\ socket'[s] = socket[s]
      PROVE  Place'
  BY <1>1 DEF ClientInv, EventsContiguous, InPlace
<1> DEFINE Timers == /\ connection \in {"idle", "connecting", "open", "reconnecting", "closed"}
                     /\ timer \in BOOLEAN /\ attempted \in BOOLEAN
                     /\ armed \in Nat /\ notifying \in Nat
<1>0. ASSUME ScheduleReconnect
      PROVE  Timers' /\ (armed' > 0 \/ ~Returned') /\ (armed' > 0 \/ ~timer')
  BY <1>0, Scheduled DEF ScheduleReconnect, ClientInv, StreamTypeOK
<1>2. ASSUME NEW s \in Subscription, NEW from \in {Live} \cup 0..feed, Subscribe(s, from)
      PROVE  ClientInv'
  <2> USE <1>2 DEF ClientInv, Subscribe
  <2>1. StreamTypeOK'
    <3>1. from \in {Live} \cup 0..LastEvent
      BY DEF StreamTypeOK
    <3>2. received' \in [Subscription -> Seq(0..LastEvent)]
      <4>1. <<>> \in Seq(0..LastEvent) /\ (from # Live => <<from>> \in Seq(0..LastEvent))
        BY <3>1
      <4> QED BY <4>1 DEF StreamTypeOK
    <3>3. ASSUME ScheduleReconnect, UNCHANGED socket
          PROVE  Timers'
      BY <3>3, <1>0
    <3>4. ASSUME Connecting, UNCHANGED timerVars
          PROVE  Timers'
      BY <3>4 DEF StreamTypeOK, Connecting, timerVars
    <3>5. Timers'
      BY <3>3, <3>4
    <3>6. /\ phaseOf' \in [Subscription -> {"none", "active", "ended"}]
          /\ cursor' \in [Subscription -> {Live} \cup 0..LastEvent]
          /\ socket' \in [Subscription -> {"none", "opening", "open"}]
      BY <3>1 DEF StreamTypeOK
    <3> QED BY <3>2, <3>5, <3>6 DEF StreamTypeOK
  <2>2. Awaited'
    <3>1. CASE ScheduleReconnect
      BY <3>1, <1>0 DEF ReconnectPending, Active
    <3>2. CASE UNCHANGED timerVars /\ socket' = [socket EXCEPT ![s] = "opening"]
      BY <3>2 DEF StreamTypeOK, ReconnectPending, Active, timerVars
    <3> QED BY <3>1, <3>2
  <2>3. Place'
    <3>1. received'[s] \in {<<>>, <<from>>} /\ sent'[s] = Nowhere /\ phaseOf'[s] = "active"
      BY DEF StreamTypeOK, InPlace
    <3>2. received'[s] # <<>> => received'[s] = <<from>> /\ cursor'[s] = from
      BY <3>1 DEF StreamTypeOK
    <3>3. InPlace(s)' /\ Len(received'[s]) <= 1
      BY <3>1, <3>2 DEF InPlace
    <3>4. ASSUME NEW x \in Subscription \ {s}
          PROVE  /\ received'[x] = received[x] /\ sent'[x] = sent[x] /\ cursor'[x] = cursor[x]
                 /\ phaseOf'[x] = phaseOf[x] /\ socket'[x] = socket[x]
      BY DEF StreamTypeOK
    <3>5. \A x \in Subscription \ {s} : InPlace(x)'
      BY <3>4 DEF InPlace
    <3>6. EventsContiguous'
      BY <3>1, <3>3, <3>4 DEF EventsContiguous
    <3> QED BY <3>3, <3>5, <3>6
  <2> QED BY <2>1, <2>2, <2>3
<1>3. ASSUME NEW s \in Subscription, OnOpen(s) PROVE ClientInv'
  <2> USE <1>3 DEF ClientInv, OnOpen
  <2>1. StreamTypeOK'
    <3>1. socket' \in [Subscription -> {"none", "opening", "open"}]
      BY DEF StreamTypeOK
    <3>2. sent' \in [Subscription -> {Nowhere} \cup 0..LastEvent]
      BY DEF StreamTypeOK
    <3> QED BY <3>1, <3>2 DEF StreamTypeOK
  <2>2. Awaited'
    BY DEF StreamTypeOK, ReconnectPending, Active
  <2>3. \A x \in Subscription : x # s => sent'[x] = sent[x] /\ socket'[x] = socket[x]
    BY DEF StreamTypeOK
  <2>4. received[s] # <<>> => cursor[s] # Live
    <3>1. received[s] \in Seq(0..LastEvent) /\ cursor[s] \in {Live} \cup 0..LastEvent
      BY DEF StreamTypeOK
    <3>2. received[s] # <<>> => received[s][Len(received[s])] \in 0..LastEvent
      BY <3>1
    <3> QED BY <3>2 DEF InPlace
  <2>5. sent'[s] \in {IF cursor[s] = Live THEN feed ELSE cursor[s], Nowhere}
    BY DEF StreamTypeOK
  <2>6. InPlace(s)'
    BY <2>4, <2>5 DEF InPlace
  <2>7. \A x \in Subscription \ {s} : InPlace(x)'
    BY <2>3 DEF InPlace
  <2>8. EventsContiguous'
    BY DEF EventsContiguous
  <2> QED BY <2>1, <2>2, <2>6, <2>7, <2>8
<1>4. ASSUME NEW s \in Subscription, OnMessage(s) PROVE ClientInv'
  <2> USE <1>4 DEF ClientInv, OnMessage, timerVars
  <2>1. sent[s] \in Nat /\ sent[s] + 1 \in 0..LastEvent /\ received[s] \in Seq(0..LastEvent)
    BY DEF StreamTypeOK
  <2>2. /\ received'[s] = Append(received[s], sent[s] + 1)
        /\ sent'[s] = sent[s] + 1 /\ cursor'[s] = sent[s] + 1
    BY DEF StreamTypeOK
  <2>3. StreamTypeOK'
    <3>1. received' \in [Subscription -> Seq(0..LastEvent)]
      BY <2>1, <2>2 DEF StreamTypeOK
    <3> QED BY <2>1, <3>1 DEF StreamTypeOK
  <2>4. Awaited'
    BY DEF ReconnectPending, Active
  <2>5. /\ received'[s] # <<>> /\ Len(received'[s]) = Len(received[s]) + 1
        /\ received'[s][Len(received'[s])] = sent[s] + 1
        /\ \A i \in 1..Len(received[s]) : received'[s][i] = received[s][i]
    <3>1. ASSUME NEW q \in Seq(0..LastEvent), NEW x \in 0..LastEvent
          PROVE  /\ Append(q, x) # <<>> /\ Len(Append(q, x)) = Len(q) + 1
                 /\ Append(q, x)[Len(q) + 1] = x
                 /\ \A i \in 1..Len(q) : Append(q, x)[i] = q[i]
      OBVIOUS
    <3> QED BY ONLY <3>1, <2>1, <2>2
  <2>6. InPlace(s)'
    BY <2>2, <2>5 DEF InPlace
  <2>7. \A x \in Subscription \ {s} :
          received'[x] = received[x] /\ sent'[x] = sent[x] /\ cursor'[x] = cursor[x]
    BY DEF StreamTypeOK
  <2>8. \A x \in Subscription \ {s} : InPlace(x)'
    BY <2>7 DEF InPlace
  <2>9. ASSUME NEW i \in 1..(Len(received'[s]) - 1)
        PROVE  received'[s][i + 1] = received'[s][i] + 1
    <3>1. Len(received[s]) \in Nat
      BY <2>1
    <3>2. CASE i + 1 <= Len(received[s])
      BY <3>1, <3>2, <2>5 DEF EventsContiguous
    <3>3. CASE i = Len(received[s])
      <4>1. received[s] # <<>>
        BY <3>1, <3>3, <2>1
      <4>2. received[s][i] = sent[s]
        BY <3>3, <4>1, <2>1 DEF InPlace
      <4> QED BY <3>1, <3>3, <4>2, <2>5
    <3> QED BY <3>1, <3>2, <3>3, <2>5
  <2>10. EventsContiguous'
    BY <2>7, <2>9 DEF EventsContiguous
  <2> QED BY <2>3, <2>4, <2>6, <2>8, <2>10
<1>5. ASSUME NEW s \in Subscription, OnClose(s) PROVE ClientInv'
  <2> USE <1>5 DEF ClientInv, OnClose
  <2>1. StreamTypeOK'
    BY <1>0 DEF StreamTypeOK
  <2>2. Awaited'
    BY <1>0 DEF ReconnectPending, Active
  <2>3. Place'
    BY <1>1 DEF StreamTypeOK, InPlace
  <2> QED BY <2>1, <2>2, <2>3
<1>6. ASSUME NEW s \in Subscription, Unsubscribe(s) PROVE ClientInv'
  <2> USE <1>6 DEF ClientInv, Unsubscribe, timerVars
  <2>1. StreamTypeOK'
    BY DEF StreamTypeOK
  <2>2. Awaited'
    BY DEF StreamTypeOK, ReconnectPending, Active
  <2>3. Place'
    BY <1>1 DEF StreamTypeOK
  <2> QED BY <2>1, <2>2, <2>3
<1>7. ASSUME UNCHANGED <<phaseOf, cursor, closed, feed, sent, received>>,
             \/ socket' = socket
             \/ ~closed /\ \E found \in SUBSET Lost : Opening(found),
             connection' \in {"idle", "connecting", "open", "reconnecting", "closed"},
             timer' \in BOOLEAN, attempted' \in BOOLEAN, armed' \in Nat, notifying' \in Nat,
             timer' => armed' > 0,
             Lost' = {} \/ armed' > 0 \/ notifying' > 0
      PROVE  ClientInv'
  <2> USE <1>7 DEF ClientInv, Opening
  <2>1. StreamTypeOK'
    <3>1. socket' \in [Subscription -> {"none", "opening", "open"}]
      BY DEF StreamTypeOK
    <3> QED BY <3>1 DEF StreamTypeOK
  <2>2. Awaited'
    BY DEF StreamTypeOK, ReconnectPending, Active
  <2>3. Place'
    BY <1>1 DEF StreamTypeOK, Active
  <2> QED BY <2>1, <2>2, <2>3
<1>10. ASSUME Notified PROVE ClientInv'
  <2>1. notifying \in Nat /\ notifying > 0 /\ armed \in Nat
    BY <1>10 DEF ClientInv, StreamTypeOK, Notified
  <2> QED BY <1>7, <1>10, <2>1 DEF ClientInv, StreamTypeOK, Notified, SetTimer
<1>11. ASSUME FiresInVain PROVE ClientInv'
  <2>1. armed \in Nat /\ armed > 0 /\ Active = {}
    BY <1>11 DEF ClientInv, StreamTypeOK, FiresInVain, Fires, ReconnectPending
  <2>2. Lost' = {}
    BY <1>11, <2>1 DEF FiresInVain, Fires, Active
  <2>3. /\ UNCHANGED <<phaseOf, cursor, closed, feed, sent, received>>
        /\ UNCHANGED <<socket, connection, attempted, notifying>>
        /\ timer' = FALSE /\ armed' \in Nat
    BY <1>11, <2>1 DEF FiresInVain, Fires
  <2> QED BY <1>7, <2>2, <2>3 DEF ClientInv, StreamTypeOK
<1>12. ASSUME ReconnectAll PROVE ClientInv'
  <2>1. armed \in Nat /\ armed > 0 /\ ~closed /\ Opening(Lost)
    BY <1>12 DEF ClientInv, StreamTypeOK, ReconnectAll, Fires
  <2>2. Lost' = {}
    BY <1>12, <2>1 DEF ReconnectAll, Fires, Opening, Active, ClientInv, StreamTypeOK
  <2>3. connection' \in {"idle", "connecting", "open", "reconnecting", "closed"}
    BY <1>12 DEF ReconnectAll, Connecting, ClientInv, StreamTypeOK
  <2>4. /\ UNCHANGED <<phaseOf, cursor, closed, feed, sent, received>>
        /\ UNCHANGED <<attempted, notifying>>
        /\ timer' = FALSE /\ armed' \in Nat
    BY <1>12, <2>1 DEF ReconnectAll, Fires
  <2>5. ~closed /\ \E found \in SUBSET Lost : Opening(found)
    BY <2>1
  <2>6. timer' \in BOOLEAN /\ attempted' \in BOOLEAN /\ notifying' \in Nat /\ (timer' => armed' > 0)
    BY <2>4 DEF ClientInv, StreamTypeOK
  <2> HIDE DEF Lost
  <2> QED BY <1>7, <2>2, <2>3, <2>4, <2>5, <2>6
<1>13. ASSUME ReconnectSome PROVE ClientInv'
  <2>1. armed - 1 \in Nat /\ ~closed
    BY <1>13 DEF ClientInv, StreamTypeOK, ReconnectSome, Fires
  <2>2. ~closed /\ \E found \in SUBSET Lost : Opening(found)
    BY <1>13, <2>1 DEF ReconnectSome
  <2>3. Timers' /\ (armed' > 0 \/ notifying' > 0) /\ (armed' > 0 \/ ~timer')
    <3>1. Schedule(FALSE, armed - 1)
      BY <1>13 DEF ReconnectSome
    <3> QED BY <2>1, <3>1, Scheduled DEF ClientInv
  <2>4. UNCHANGED <<phaseOf, cursor, closed, feed, sent, received>>
    BY <1>13 DEF ReconnectSome, Fires
  <2>5. /\ connection' \in {"idle", "connecting", "open", "reconnecting", "closed"}
        /\ timer' \in BOOLEAN /\ attempted' \in BOOLEAN /\ armed' \in Nat /\ notifying' \in Nat
        /\ timer' => armed' > 0
    BY <2>3
  <2>6. Lost' = {} \/ armed' > 0 \/ notifying' > 0
    BY <2>3
  <2> HIDE DEF Lost
  <2> QED BY <1>7, <2>2, <2>4, <2>5, <2>6
<1>8. ASSUME CloseClient PROVE ClientInv'
  <2> USE <1>8 DEF ClientInv, CloseClient
  <2>1. StreamTypeOK'
    <3>1. CASE timer
      <4>1. armed \in Nat /\ armed > 0 /\ armed' = armed - 1
        BY <3>1 DEF StreamTypeOK
      <4>2. armed' \in Nat
        BY <4>1
      <4> QED BY <3>1, <4>2 DEF StreamTypeOK
    <3>2. CASE ~timer
      <4>1. armed' = armed
        BY <3>2
      <4> QED BY <3>2, <4>1 DEF StreamTypeOK
    <3> QED BY <3>1, <3>2
  <2>2. Awaited'
    BY DEF ReconnectPending, Active
  <2>3. Place'
    BY <1>1 DEF StreamTypeOK, InPlace
  <2> QED BY <2>1, <2>2, <2>3
<1>9. ASSUME NewEvent \/ UNCHANGED streamVars PROVE ClientInv'
  <2> USE <1>9 DEF ClientInv, NewEvent, streamVars, clientVars, timerVars
  <2>1. StreamTypeOK'
    BY DEF StreamTypeOK
  <2>2. Awaited'
    BY DEF ReconnectPending, Active
  <2>3. Place'
    BY <1>1
  <2> QED BY <2>1, <2>2, <2>3
<1> QED BY <1>2, <1>3, <1>4, <1>5, <1>6, <1>8, <1>9, <1>10, <1>11, <1>12, <1>13 DEF StreamNext

\* Whatever closes, fails and opens again, a subscription emits the events after
\* its first one, each once and in order.
THEOREM NoEventDropped == ServicesSpec => []EventsContiguous
<1>1. ClientInv => EventsContiguous
  BY DEF ClientInv
<1> QED BY <1>1, ClientInvInit, ClientInvNext, Projections, PTL DEF StreamSpec

\* An active subscription has a socket, or a timer that will bring it one, or a
\* caller that will set one, whatever the listeners called back.
THEOREM NoneGivenUp == ServicesSpec => []ReconnectPending
<1>1. ClientInv => ReconnectPending
  BY DEF ClientInv, Awaited
<1> QED BY <1>1, ClientInvInit, ClientInvNext, Projections, PTL DEF StreamSpec

---------------------------------------------------------------------------
(* Challenges *)

LEMMA SecondBounds ==
  \A t \in Nat : Second(t) \in Nat /\ 2 * Second(t) <= t /\ t <= 2 * Second(t) + 1
  BY DEF Second

\* A request was accepted after its challenge was built, and its nonce is kept
\* until the clock has passed its time to live.
NonceKept(p) ==
  LET ch == presented[p].challenge
  IN /\ presented[p].time \in Nat
     /\ 2 * minTime[ch] <= presented[p].time /\ presented[p].time <= tick
     /\ \/ presented[p].time + 2 * ChallengeTtl <= nonces[ch]
        \/ presented[p].time + 2 * ChallengeTtl <= tick

\* Those it looked behind were accepted in the first second of the challenge, at
\* least its time to live ago.
BehindLate(p, now) ==
  LET ch == presented[p].challenge
  IN \A q \in presented[p].behind :
       /\ q \in Accepted(ch)
       /\ presented[q].time <= 2 * minTime[ch] + 1
       /\ 2 * (minTime[ch] + ChallengeTtl) <= now

ChallengeTypes ==
  /\ tick \in Nat
  /\ minTime \in [Challenge -> Nat \cup {Never}]
  /\ nonces \in [Challenge -> Nat \cup {Never}]
  /\ presented = [p \in Presentation |-> presented[p]]
  /\ \A ch \in Built : 2 * minTime[ch] <= tick
  /\ \A p \in Presentation : presented[p].outcome \in {"adding", "accepted"} =>
       presented[p].challenge \in Built

ChallengeInv ==
  /\ ChallengeTypes
  /\ \A p \in Presentation : presented[p].outcome = "accepted" =>
       NonceKept(p) /\ BehindLate(p, presented[p].time)
  /\ \A p \in Presentation : presented[p].outcome = "adding" => BehindLate(p, tick)

LEMMA ChallengeInvInit == Sep10Init => ChallengeInv
  BY DEF Sep10Init, ChallengeInv, ChallengeTypes, Fresh, Built, Never

LEMMA ChallengeInvOnce == ChallengeInv => ChallengeOnce
<1> SUFFICES ASSUME ChallengeInv,
                    NEW p \in Presentation, presented[p].outcome = "accepted",
                    NEW q \in presented[p].behind
             PROVE  /\ Second(presented[q].time) = minTime[presented[p].challenge]
                    /\ Second(presented[p].time) >= minTime[presented[p].challenge] + ChallengeTtl
  BY DEF ChallengeOnce
<1> DEFINE m == minTime[presented[p].challenge]
           tp == presented[p].time
           tq == presented[q].time
<1>1. m \in Nat
  BY DEF ChallengeInv, ChallengeTypes, Built
<1>2. q \in Presentation /\ presented[q].outcome = "accepted"
      /\ presented[q].challenge = presented[p].challenge
  BY DEF ChallengeInv, BehindLate, Accepted
<1>3. tp \in Nat /\ tq \in Nat /\ 2 * m <= tq
  BY <1>2 DEF ChallengeInv, NonceKept
<1>4. tq <= 2 * m + 1 /\ 2 * (m + ChallengeTtl) <= tp
  BY DEF ChallengeInv, BehindLate
<1>5. Second(tp) \in Nat /\ tp <= 2 * Second(tp) + 1
      /\ Second(tq) \in Nat /\ 2 * Second(tq) <= tq /\ tq <= 2 * Second(tq) + 1
  BY <1>3, SecondBounds
<1> HIDE DEF m, tp, tq
<1>6. Second(tq) = m /\ Second(tp) >= m + ChallengeTtl
  BY <1>1, <1>3, <1>4, <1>5, ChallengeAssumption
<1> QED BY <1>6 DEF m, tp, tq

LEMMA ChallengeInvNext == ChallengeInv /\ [Sep10Next]_sep10Vars => ChallengeInv'
<1> SUFFICES ASSUME ChallengeInv, [Sep10Next]_sep10Vars PROVE ChallengeInv'
  OBVIOUS
<1> USE ChallengeAssumption
<1>1. CASE ClockTicks
  <2> USE <1>1 DEF ClockTicks
  <2>1. tick \in Nat /\ tick' = tick + 1 /\ UNCHANGED <<minTime, nonces, presented>>
    BY DEF ChallengeInv, ChallengeTypes
  <2>2. ChallengeTypes'
    BY <2>1 DEF ChallengeInv, ChallengeTypes, Built
  <2>3. ASSUME NEW p \in Presentation, presented[p].outcome = "accepted"
        PROVE  NonceKept(p)' /\ BehindLate(p, presented[p].time)'
    BY <2>1, <2>3 DEF ChallengeInv, NonceKept, BehindLate, Accepted, ChallengeTypes
  <2>4. ASSUME NEW p \in Presentation, presented[p].outcome = "adding"
        PROVE  BehindLate(p, tick)'
    <3>1. minTime[presented[p].challenge] \in Nat
      BY <2>4 DEF ChallengeInv, ChallengeTypes, Built
    <3> QED BY <2>1, <2>4, <3>1 DEF ChallengeInv, BehindLate, Accepted
  <2> QED BY <2>1, <2>2, <2>3, <2>4 DEF ChallengeInv
<1>2. ASSUME NEW ch \in Challenge, BuildChallenge(ch) PROVE ChallengeInv'
  <2> USE <1>2 DEF BuildChallenge
  <2>1. tick \in Nat /\ Second(tick) \in Nat /\ 2 * Second(tick) <= tick
    BY SecondBounds DEF ChallengeInv, ChallengeTypes
  <2>2. /\ minTime'[ch] = Second(tick) /\ minTime' \in [Challenge -> Nat \cup {Never}]
        /\ \A x \in Challenge \ {ch} : minTime'[x] = minTime[x]
        /\ UNCHANGED <<tick, nonces, presented>>
    BY <2>1 DEF ChallengeInv, ChallengeTypes
  <2>3. Built' = Built \cup {ch} /\ ch \notin Built
    BY <2>1, <2>2 DEF Built, Never
  <2>4. ChallengeTypes'
    BY <2>1, <2>2, <2>3 DEF ChallengeInv, ChallengeTypes, Built
  <2>5. ASSUME NEW p \in Presentation, presented[p].outcome \in {"adding", "accepted"}
        PROVE  minTime'[presented[p].challenge] = minTime[presented[p].challenge]
    BY <2>2, <2>3, <2>5 DEF ChallengeInv, ChallengeTypes, Built
  <2> QED BY <2>2, <2>4, <2>5 DEF ChallengeInv, NonceKept, BehindLate, Accepted
\* Dropping nonces that have expired loses nothing.
<1>3. /\ Pruned(nonces) \in [Challenge -> Nat \cup {Never}]
      /\ \A ch \in Challenge : Pruned(nonces)[ch] = Never \/ Pruned(nonces)[ch] = nonces[ch]
      /\ \A ch \in Challenge : Pruned(nonces)[ch] = Never => nonces[ch] <= tick
  BY DEF ChallengeInv, ChallengeTypes, Pruned, Never
<1>4. ASSUME NEW p \in Presentation, presented[p].outcome = "accepted",
             nonces'[presented[p].challenge] = Pruned(nonces)[presented[p].challenge],
             presented'[p] = presented[p], UNCHANGED <<tick, minTime>>
      PROVE  NonceKept(p)'
  <2>1. presented[p].challenge \in Challenge /\ tick \in Nat
    BY <1>4 DEF ChallengeInv, ChallengeTypes, Built
  <2>2. NonceKept(p) /\ nonces[presented[p].challenge] \in Nat \cup {Never}
    BY <1>4, <2>1 DEF ChallengeInv, ChallengeTypes
  <2> QED BY <1>3, <1>4, <2>1, <2>2 DEF NonceKept, Never
\* What was accepted stays accepted when another request moves.
<1>5. ASSUME NEW p \in Presentation, presented[p].outcome # "accepted", UNCHANGED minTime,
             \A q \in Presentation \ {p} : presented'[q] = presented[q]
      PROVE  \A now : \A q \in Presentation \ {p} : BehindLate(q, now) => BehindLate(q, now)'
  BY <1>5 DEF BehindLate, Accepted
<1>6. ASSUME NEW p \in Presentation, NEW ch \in Challenge, Present(p, ch) PROVE ChallengeInv'
  <2> USE <1>6
  <2>1. /\ presented[p].outcome = "none" /\ ch \in Built /\ InTimebounds(ch)
        /\ nonces' = Pruned(nonces) /\ UNCHANGED <<tick, minTime>>
        /\ \A q \in Presentation \ {p} : presented'[q] = presented[q]
        /\ presented' = [q \in Presentation |-> presented'[q]]
    BY DEF Present, ChallengeInv, ChallengeTypes
  <2>2. \/ presented'[p] = [outcome |-> "refused"]
        \/ /\ Pruned(nonces)[ch] = Never
           /\ presented'[p] = [outcome |-> "adding", challenge |-> ch, behind |-> Accepted(ch)]
    BY <2>1 DEF Present, ChallengeInv, ChallengeTypes
  <2>3. ChallengeTypes'
    <3>1. \A q \in Presentation : presented'[q].outcome \in {"adding", "accepted"} =>
            presented'[q].challenge \in Built
      BY <2>1, <2>2 DEF ChallengeInv, ChallengeTypes
    <3> QED BY <1>3, <2>1, <3>1 DEF ChallengeInv, ChallengeTypes, Built
  <2>4. ASSUME presented'[p].outcome = "adding" PROVE BehindLate(p, tick)'
    <3>1. presented'[p].challenge = ch /\ presented'[p].behind = Accepted(ch)
          /\ nonces[ch] <= tick
      BY <1>3, <2>1, <2>2, <2>4
    <3>2. tick \in Nat /\ minTime[ch] \in Nat /\ nonces[ch] \in Nat \cup {Never}
      BY <2>1 DEF ChallengeInv, ChallengeTypes, Built
    <3>3. tick <= 2 * (minTime[ch] + ChallengeTtl) + 1
      <4>1. Second(tick) \in Nat /\ tick <= 2 * Second(tick) + 1
            /\ Second(tick) <= minTime[ch] + ChallengeTtl
        BY <2>1, <3>2, SecondBounds DEF InTimebounds
      <4> QED BY <4>1, <3>2
    <3>4. ASSUME NEW q \in Accepted(ch)
          PROVE  /\ q \in Accepted(ch)'
                 /\ presented'[q] = presented[q]
                 /\ presented[q].time <= 2 * minTime[ch] + 1
                 /\ 2 * (minTime[ch] + ChallengeTtl) <= tick
      <4>1. q \in Presentation \ {p} /\ presented[q].outcome = "accepted"
            /\ presented[q].challenge = ch
        BY <2>1 DEF Accepted
      <4>2. NonceKept(q) /\ presented'[q] = presented[q]
        BY <2>1, <4>1 DEF ChallengeInv
      <4>3. /\ presented[q].time \in Nat /\ 2 * minTime[ch] <= presented[q].time
            /\ presented[q].time + 2 * ChallengeTtl <= tick
        BY <3>1, <3>2, <4>1, <4>2 DEF NonceKept, Never
      <4>4. q \in Accepted(ch)'
        BY <4>1, <4>2 DEF Accepted
      <4> QED BY <3>2, <3>3, <4>2, <4>3, <4>4
    <3> QED BY <2>1, <3>1, <3>4 DEF BehindLate
  <2>5. ASSUME NEW q \in Presentation \ {p}
        PROVE  /\ presented'[q].outcome = "accepted" =>
                    NonceKept(q)' /\ BehindLate(q, presented[q].time)'
               /\ presented'[q].outcome = "adding" => BehindLate(q, tick)'
    BY <1>4, <1>5, <2>1, <2>5 DEF ChallengeInv, ChallengeTypes, Built
  <2> QED BY <2>1, <2>2, <2>3, <2>4, <2>5 DEF ChallengeInv
<1>7. ASSUME NEW p \in Presentation, Refuse(p) PROVE ChallengeInv'
  <2> USE <1>7 DEF Refuse
  <2>1. /\ presented[p].outcome = "none" /\ UNCHANGED <<tick, minTime, nonces>>
        /\ \A q \in Presentation \ {p} : presented'[q] = presented[q]
        /\ presented' = [q \in Presentation |-> presented'[q]]
        /\ presented'[p].outcome = "refused"
    BY DEF ChallengeInv, ChallengeTypes
  <2>2. ChallengeTypes'
    BY <2>1 DEF ChallengeInv, ChallengeTypes, Built
  <2>3. ASSUME NEW q \in Presentation \ {p}
        PROVE  /\ presented'[q].outcome = "accepted" =>
                    NonceKept(q)' /\ BehindLate(q, presented[q].time)'
               /\ presented'[q].outcome = "adding" => BehindLate(q, tick)'
    BY <1>5, <2>1 DEF ChallengeInv, NonceKept
  <2> QED BY <2>1, <2>2, <2>3 DEF ChallengeInv
<1>8. ASSUME NEW p \in Presentation, Add(p) PROVE ChallengeInv'
  <2> USE <1>8
  <2> DEFINE ch == presented[p].challenge
  <2>1. presented[p].outcome = "adding" /\ ch \in Challenge /\ ch \in Built
    BY DEF Add, ChallengeInv, ChallengeTypes, Built
  <2>2. /\ UNCHANGED <<tick, minTime>> /\ tick \in Nat /\ minTime[ch] \in Nat
        /\ \A q \in Presentation \ {p} : presented'[q] = presented[q]
        /\ presented' = [q \in Presentation |-> presented'[q]]
        /\ presented'[p] = [outcome |-> "accepted", challenge |-> ch,
                            behind |-> presented[p].behind, time |-> tick]
    BY <2>1 DEF Add, ChallengeInv, ChallengeTypes, Built
  <2>3. /\ nonces' \in [Challenge -> Nat \cup {Never}]
        /\ nonces'[ch] = tick + 2 * ChallengeTtl
        /\ \A x \in Challenge \ {ch} : nonces'[x] = Pruned(nonces)[x]
    BY <1>3, <2>1, <2>2 DEF Add
  <2> HIDE DEF ch
  <2>4. ChallengeTypes'
    BY <2>1, <2>2, <2>3 DEF ChallengeInv, ChallengeTypes, Built
  <2>5. NonceKept(p)'
    <3>1. 2 * minTime[ch] <= tick
      BY <2>1 DEF ChallengeInv, ChallengeTypes
    <3> QED BY <2>2, <2>3, <3>1 DEF NonceKept
  <2>6. BehindLate(p, presented[p].time)'
    <3>1. BehindLate(p, tick)
      BY <2>1 DEF ChallengeInv
    <3> QED BY <2>1, <2>2, <3>1 DEF BehindLate, Accepted, ch
  <2>7. ASSUME NEW q \in Presentation \ {p}, presented[q].outcome = "accepted"
        PROVE  NonceKept(q)'
    <3>1. CASE presented[q].challenge = ch
      BY <2>2, <2>3, <2>7, <3>1 DEF ChallengeInv, NonceKept
    <3>2. CASE presented[q].challenge # ch
      <4>1. presented[q].challenge \in Challenge
        BY <2>7 DEF ChallengeInv, ChallengeTypes, Built
      <4> QED BY <1>4, <2>2, <2>3, <2>7, <3>2, <4>1
    <3> QED BY <3>1, <3>2
  <2>8. ASSUME NEW q \in Presentation \ {p}
        PROVE  /\ presented'[q].outcome = "accepted" =>
                    NonceKept(q)' /\ BehindLate(q, presented[q].time)'
               /\ presented'[q].outcome = "adding" => BehindLate(q, tick)'
    BY <1>5, <2>1, <2>2, <2>7 DEF ChallengeInv
  <2> QED BY <2>2, <2>4, <2>5, <2>6, <2>8 DEF ChallengeInv
<1>9. CASE Reboot
  <2>1. /\ UNCHANGED <<tick, minTime>>
        /\ nonces' = [ch \in Challenge |-> Never]
        /\ presented' = [p \in Presentation |-> presented'[p]]
        /\ \A p \in Presentation : presented'[p].outcome \in {"none", "refused"}
    BY <1>9 DEF Reboot, Fresh
  <2> QED BY <2>1 DEF ChallengeInv, ChallengeTypes, Built
<1>10. CASE UNCHANGED sep10Vars
  <2>1. tick' = tick /\ minTime' = minTime /\ nonces' = nonces /\ presented' = presented
    BY <1>10 DEF sep10Vars
  <2>2. ChallengeTypes'
    BY <2>1 DEF ChallengeInv, ChallengeTypes, Built
  <2> QED BY <2>1, <2>2 DEF ChallengeInv, NonceKept, BehindLate, Accepted
<1> QED BY <1>1, <1>2, <1>6, <1>7, <1>8, <1>9, <1>10 DEF Sep10Next

\* A challenge is accepted again only from a request that looked before the first
\* was recorded, or in its last second after a first in its first.
THEOREM ChallengesOnce == ServicesSpec => []ChallengeOnce
  BY ChallengeInvInit, ChallengeInvNext, ChallengeInvOnce, Projections, PTL DEF Sep10Spec

---------------------------------------------------------------------------
(* The rate limiter *)

Command == [ran : Nat, late : Nat, allowed : BOOLEAN]

Given(e) == IF e.allowed THEN 1 ELSE 0

LateOf(s) == [n \in DOMAIN s |-> s[n].late]

\* The tokens that commands first to last took, and how late these were together.
Took(s, first, last) == Cardinality({n \in first..last : s[n].allowed})
Lateness(s, first, last) == Sum(LateOf(s), first..last)

LEMMA TookStep ==
  ASSUME NEW s \in Seq(Command), NEW first \in 1..Len(s), NEW last \in first..Len(s)
  PROVE  /\ Took(s, first, last) \in Nat /\ Took(s, first, last - 1) \in Nat
         /\ Took(s, first, last) = Took(s, first, last - 1) + Given(s[last])
<1> DEFINE A(l) == {n \in first..l : s[n].allowed}
<1>1. IsFiniteSet(A(last)) /\ IsFiniteSet(A(last - 1)) /\ last \notin A(last - 1)
  <2>1. IsFiniteSet(first..last) /\ IsFiniteSet(first..(last - 1))
    BY FS_Interval
  <2> QED BY <2>1, FS_Subset
<1>2. A(last) = IF s[last].allowed THEN A(last - 1) \cup {last} ELSE A(last - 1)
  BY SMT
<1>7. Given(s[last]) = IF s[last].allowed THEN 1 ELSE 0
  BY DEF Given
<1>3. Cardinality(A(last)) \in Nat /\ Cardinality(A(last - 1)) \in Nat
  BY <1>1, FS_CardinalityType
<1>4. s[last].allowed => Cardinality(A(last)) = Cardinality(A(last - 1)) + 1
  BY <1>1, <1>2, FS_AddElement
<1>5. ~s[last].allowed => A(last) = A(last - 1)
  BY <1>2
<1>6. Took(s, first, last) = Cardinality(A(last)) /\ Took(s, first, last - 1) = Cardinality(A(last - 1))
  BY DEF Took
<1> HIDE DEF A
<1> QED BY <1>3, <1>4, <1>5, <1>6, <1>7

LEMMA LatenessStep ==
  ASSUME NEW s \in Seq(Command), NEW first \in 1..Len(s), NEW last \in first..Len(s)
  PROVE  /\ Lateness(s, first, last) \in Nat /\ Lateness(s, first, last - 1) \in Nat
         /\ Lateness(s, first, last) = Lateness(s, first, last - 1) + s[last].late
<1>1. \A n \in first..last : LateOf(s)[n] \in Nat /\ LateOf(s)[n] = s[n].late
  <2>1. \A n \in first..last : n \in DOMAIN s /\ s[n] \in Command
    OBVIOUS
  <2> QED BY <2>1 DEF LateOf, Command
<1>2. IsFiniteSet(first..last) /\ IsFiniteSet(first..(last - 1)) /\ IntOn(LateOf(s), first..last)
  BY <1>1, FS_Interval DEF IntOn
<1>3. (first..last) \ {last} = first..(last - 1) /\ last \in first..last
  OBVIOUS
<1>4. Sum(LateOf(s), first..last) = LateOf(s)[last] + Sum(LateOf(s), first..(last - 1))
  BY <1>2, <1>3, SumRemove
<1>5. Lateness(s, first, last) \in Nat /\ Lateness(s, first, last - 1) \in Nat
  BY <1>1, <1>2, <1>3, SumNat DEF Lateness
<1> QED BY <1>1, <1>3, <1>4, <1>5 DEF Lateness

LEMMA NoneBetween ==
  ASSUME NEW s, NEW n \in Nat
  PROVE  Took(s, n + 1, n) = 0 /\ Lateness(s, n + 1, n) = 0
<1>1. (n + 1)..n = {}
  OBVIOUS
<1> QED BY <1>1, SumEmpty, FS_EmptySet DEF Took, Lateness

\* A command that is added changes nothing about those before it.
LEMMA EarlierCommands ==
  ASSUME NEW s \in Seq(Command), NEW e \in Command,
         NEW first \in 1..Len(s), NEW last \in 0..Len(s)
  PROVE  /\ Took(Append(s, e), first, last) = Took(s, first, last)
         /\ Lateness(Append(s, e), first, last) = Lateness(s, first, last)
<1> DEFINE t == Append(s, e)
<1>1. \A n \in first..last : n \in DOMAIN s /\ n \in DOMAIN t /\ t[n] = s[n]
  OBVIOUS
<1> HIDE DEF t
<1>2. \A n \in first..last : LateOf(t)[n] = LateOf(s)[n]
  BY <1>1 DEF LateOf
<1>3. Lateness(t, first, last) = Lateness(s, first, last)
  <2>1. IsFiniteSet(first..last)
    BY FS_Interval
  <2>2. Sum(LateOf(t), first..last) = Sum(LateOf(s), first..last)
    BY <1>2, <2>1, SumAgree
  <2> QED BY <2>2 DEF Lateness
<1>4. {n \in first..last : t[n].allowed} = {n \in first..last : s[n].allowed}
  BY <1>1
<1>5. Took(t, first, last) = Took(s, first, last)
  BY <1>4 DEF Took
<1> QED BY <1>3, <1>5 DEF t

\* What a bucket of `size` with `tokens` left may still give, after the commands `s`.
WithinBudget(s, tokens, size, rate) ==
  \A first \in 1..Len(s) :
    Took(s, first, Len(s)) + tokens
      <= size + rate * (s[Len(s)].ran - s[first].ran + Lateness(s, first, Len(s) - 1))

NeverOver(s, size, rate) ==
  \A last \in DOMAIN s : \A first \in 1..last :
    Took(s, first, last) <= size + rate * (s[last].ran - s[first].ran + Lateness(s, first, last))

LEMMA Distribute ==
  ASSUME NEW r \in Nat, NEW x \in Int, NEW y \in Int
  PROVE  /\ r * (x + y) = r * x + r * y /\ r * x \in Int
         /\ x <= y => r * x <= r * y
<1>1. r * (x + y) = r * x + r * y /\ r * x \in Int
  BY SMT
<1>2. x <= y => r * x <= r * y
  BY SMT
<1> QED BY <1>1, <1>2

\* What the time since the last command, and how late that was, add for the next one.
Refilled(s, e, rate) == rate * (e.ran - s[Len(s)].ran + s[Len(s)].late)

\* The arithmetic of one command: it ran at `u`, the last one at `v` and `d` late, the first
\* at `w`, and those from the first to before the last were `l` late together.
LEMMA BudgetGrows ==
  ASSUME NEW u \in Nat, NEW v \in Nat, NEW w \in Nat, NEW d \in Nat, NEW l \in Nat,
         NEW took \in Nat, NEW one \in Nat, NEW tokens \in Nat, NEW left \in Nat,
         NEW size \in Nat, NEW rate \in Nat,
         took + tokens <= size + rate * (v - w + l),
         left + one <= tokens + rate * (u - v + d)
  PROVE  took + one + left <= size + rate * (u - w + (l + d))
<1>1. PICK x \in Int, y \in Int : x = v - w + l /\ y = u - v + d /\ u - w + (l + d) = x + y
  OBVIOUS
<1>2. PICK p \in Int, q \in Int : p = rate * x /\ q = rate * y /\ rate * (x + y) = p + q
  BY <1>1, Distribute
<1>3. took + tokens <= size + p /\ left + one <= tokens + q
  BY <1>1, <1>2, Zenon
<1>4. took + one + left <= size + (p + q)
  BY <1>2, <1>3
<1> QED BY <1>1, <1>2, <1>4, Zenon

\* Later commands are late as well: that only adds.
LEMMA BudgetWidens ==
  ASSUME NEW u \in Nat, NEW w \in Nat, NEW d \in Nat, NEW l \in Nat,
         NEW took \in Nat, NEW left \in Nat, NEW size \in Nat, NEW rate \in Nat,
         took + left <= size + rate * (u - w + l)
  PROVE  took <= size + rate * (u - w + (l + d))
<1>1. PICK x \in Int, y \in Int : x = u - w + l /\ y = u - w + (l + d) /\ x <= y
  OBVIOUS
<1>2. PICK p \in Int, q \in Int : p = rate * x /\ q = rate * y /\ p <= q
  BY <1>1, Distribute
<1>3. took + left <= size + p
  BY <1>1, <1>2, Zenon
<1>4. took <= size + q
  BY <1>2, <1>3
<1> QED BY <1>1, <1>2, <1>4, Zenon

\* A command that finds `found` tokens keeps the bucket within its budget, if they are no
\* more than the last command left and what was added since.
LEMMA CommandWithinBudget ==
  ASSUME NEW s \in Seq(Command), NEW e \in Command, NEW size \in Nat, NEW rate \in Nat,
         NEW tokens \in Nat, NEW found \in 0..size, NEW left \in Nat,
         left = found - Given(e),
         s # <<>> => found <= tokens + Refilled(s, e, rate),
         WithinBudget(s, tokens, size, rate), NeverOver(s, size, rate)
  PROVE  /\ WithinBudget(Append(s, e), left, size, rate)
         /\ NeverOver(Append(s, e), size, rate)
<1> DEFINE t == Append(s, e)
<1>0. PICK n \in Nat : n = Len(s)
  OBVIOUS
<1>1. /\ t \in Seq(Command) /\ Len(t) = n + 1 /\ t[n + 1] = e /\ n \in Nat
      /\ \A i \in 1..n : t[i] = s[i] /\ s[i] \in Command
  BY <1>0
<1>2. \A i \in 1..(n + 1) : t[i].ran \in Nat /\ t[i].late \in Nat
  <2> HIDE DEF t
  <2>1. \A i \in 1..(n + 1) : t[i] \in Command
    BY <1>1
  <2> QED BY <2>1 DEF Command
<1>3. ASSUME NEW first \in 1..n, NEW last \in 0..n
      PROVE  /\ Took(t, first, last) = Took(s, first, last)
             /\ Lateness(t, first, last) = Lateness(s, first, last)
  BY <1>0, EarlierCommands
<1>4. ASSUME NEW first \in 1..(n + 1), NEW last \in first..(n + 1)
      PROVE  /\ Took(t, first, last) \in Nat /\ Took(t, first, last - 1) \in Nat
             /\ Took(t, first, last)
                  = Took(t, first, last - 1) + Given(t[last])
             /\ Lateness(t, first, last) \in Nat /\ Lateness(t, first, last - 1) \in Nat
             /\ Lateness(t, first, last) = Lateness(t, first, last - 1) + t[last].late
  <2> HIDE DEF t
  <2> QED BY <1>1, TookStep, LatenessStep
<1>5. Given(e) \in 0..1 /\ Given(e) <= found /\ left + Given(e) = found
  BY DEF Given
<1> HIDE DEF t
<1>6. ASSUME NEW first \in 1..(n + 1)
      PROVE  Took(t, first, n + 1) + left
               <= size + rate * (t[n + 1].ran - t[first].ran + Lateness(t, first, n))
  <2>1. Took(t, first, n + 1) = Took(t, first, n) + Given(e)
    <3>1. n + 1 \in first..(n + 1) /\ (n + 1) - 1 = n
      BY <1>1
    <3> QED BY <1>1, <1>4, <3>1
  <2>2. CASE first = n + 1
    <3>1. Took(t, first, n) = 0 /\ Lateness(t, first, n) = 0
      BY <1>1, <2>2, NoneBetween
    <3>2. t[n + 1].ran - t[first].ran + Lateness(t, first, n) = 0
      BY <1>1, <1>2, <2>2, <3>1
    <3> QED BY <1>5, <2>1, <3>1, <3>2
  <2>3. CASE first # n + 1
    <3>1. first \in 1..n /\ n \in first..(n + 1) /\ n # 0 /\ s # <<>>
      BY <1>0, <1>1, <2>3
    <3>2. Took(t, first, n) = Took(s, first, n)
          /\ Lateness(t, first, n - 1) = Lateness(s, first, n - 1)
      <4>1. n \in 0..n /\ n - 1 \in 0..n
        BY <1>0, <3>1
      <4> QED BY <1>3, <3>1, <4>1
    <3>3. /\ Took(t, first, n) \in Nat /\ Lateness(t, first, n - 1) \in Nat
          /\ Lateness(t, first, n) = Lateness(t, first, n - 1) + t[n].late
      BY <1>4, <3>1
    <3>4. t[n + 1].ran \in Nat /\ t[n].ran \in Nat /\ t[n].late \in Nat /\ t[first].ran \in Nat
      BY <1>1, <1>2, <3>1
    <3>5. Took(t, first, n) + tokens
            <= size + rate * (t[n].ran - t[first].ran + Lateness(t, first, n - 1))
      BY <1>0, <1>1, <3>1, <3>2 DEF WithinBudget
    <3>6. Given(e) \in Nat
      BY <1>5
    <3>7. left + Given(e) <= tokens + rate * (t[n + 1].ran - t[n].ran + t[n].late)
      <4>1. Refilled(s, e, rate) = rate * (t[n + 1].ran - t[n].ran + t[n].late)
        BY <1>0, <1>1, <3>1 DEF Refilled
      <4> QED BY <1>5, <3>1, <4>1
    <3>8. Took(t, first, n) + Given(e) + left
            <= size + rate * (t[n + 1].ran - t[first].ran + (Lateness(t, first, n - 1) + t[n].late))
      BY <3>3, <3>4, <3>5, <3>6, <3>7, BudgetGrows, Zenon
    <3> QED BY <2>1, <3>3, <3>8, Zenon
  <2> QED BY <2>2, <2>3
<1>7. WithinBudget(t, left, size, rate)
  BY <1>1, <1>6 DEF WithinBudget
<1>8. ASSUME NEW last \in DOMAIN t, NEW first \in 1..last
      PROVE  Took(t, first, last)
               <= size + rate * (t[last].ran - t[first].ran + Lateness(t, first, last))
  <2>0. last \in 1..(n + 1) /\ first \in 1..(n + 1) /\ last \in first..(n + 1)
    BY <1>1
  <2>1. CASE last # n + 1
    <3>1. last \in DOMAIN s /\ first \in 1..n /\ last \in 0..n
      BY <1>0, <2>0, <2>1
    <3>2. /\ Took(t, first, last) = Took(s, first, last) /\ t[last] = s[last]
          /\ Lateness(t, first, last) = Lateness(s, first, last) /\ t[first] = s[first]
      BY <1>1, <1>3, <3>1
    <3> QED BY <3>1, <3>2 DEF NeverOver
  <2>2. CASE last = n + 1
    <3>1. t[n + 1].ran \in Nat /\ t[n + 1].late \in Nat /\ t[first].ran \in Nat
      BY <1>1, <1>2, <2>0
    <3>2. /\ Took(t, first, n + 1) \in Nat /\ Lateness(t, first, n) \in Nat
          /\ Lateness(t, first, n + 1) = Lateness(t, first, n) + t[n + 1].late
      <4>1. n + 1 \in first..(n + 1) /\ (n + 1) - 1 = n
        BY <1>1, <2>0
      <4> QED BY <1>4, <2>0, <4>1
    <3>3. Took(t, first, n + 1) + left
            <= size + rate * (t[n + 1].ran - t[first].ran + Lateness(t, first, n))
      BY <1>6, <2>0
    <3>4. Took(t, first, n + 1)
            <= size + rate * (t[n + 1].ran - t[first].ran + (Lateness(t, first, n) + t[n + 1].late))
      BY <3>1, <3>2, <3>3, BudgetWidens, Zenon
    <3> QED BY <2>2, <3>2, <3>4, Zenon
  <2> QED BY <2>1, <2>2
<1>9. NeverOver(t, size, rate)
  BY <1>8 DEF NeverOver
<1> QED BY <1>7, <1>9 DEF t
\* What a request holds while it waits for a bucket.
Queued(v) ==
  /\ visit[v].stage \in {"none", "ip", "allowed", "payer", "passed", "refused"}
  /\ visit[v].stage \in {"ip", "allowed", "payer"} =>
       visit[v].ip \in Ip /\ visit[v].payer \in Payer \cup {NoPayer} /\ visit[v].read \in 0..moment
  /\ visit[v].stage = "payer" => visit[v].payer \in Payer

\* A bucket is as its last command left it, and no commands took more than they might.
Accounted(b) ==
  LET s == taken[b]
      last == s[Len(s)]
  IN /\ s \in Seq(Command)
     /\ IF s = <<>>
        THEN bucket[b] = Full
        ELSE /\ bucket[b].tokens \in 0..Capacity(b)
             /\ bucket[b].stamp = last.ran - last.late
             /\ bucket[b].expires = last.ran + Kept(b)
             /\ last.ran <= moment
     /\ Rate(b) > 0 =>
          /\ s # <<>> => WithinBudget(s, bucket[b].tokens, Capacity(b), Rate(b))
          /\ NeverOver(s, Capacity(b), Rate(b))

LimiterInv ==
  /\ moment \in Nat
  /\ visit = [v \in Visit |-> visit[v]] /\ \A v \in Visit : Queued(v)
  /\ bucket = [b \in Bucket |-> bucket[b]] /\ taken = [b \in Bucket |-> taken[b]]
  /\ \A b \in Bucket : Accounted(b)

LEMMA SizeType ==
  ASSUME NEW b \in Bucket
  PROVE  Capacity(b) \in Nat /\ Rate(b) \in Nat /\ Kept(b) \in Nat
<1>1. Capacity(b) \in Nat /\ Rate(b) \in Nat
  BY RateAssumption DEF Capacity, Rate
<1>2. \A c \in Nat, r \in Nat \ {0} : (c + r - 1) \div r \in Nat
  BY SMT
<1>3. Rate(b) # 0 => (Capacity(b) + Rate(b) - 1) \div Rate(b) \in Nat
  BY <1>1, <1>2
<1> QED BY <1>1, <1>3, RateAssumption DEF Kept

\* A bucket that nobody used for as long as it is kept is full.
LEMMA KeptRefills ==
  ASSUME NEW b \in Bucket, Rate(b) > 0, NEW since \in Nat, Kept(b) <= since
  PROVE  Capacity(b) <= Rate(b) * since
<1>1. PICK c \in Nat, r \in Nat \ {0} : c = Capacity(b) /\ r = Rate(b)
  BY SizeType
<1> DEFINE q == (c + r - 1) \div r
<1>2. q \in Nat /\ c <= r * q
  BY <1>1, SMT
<1>3. q <= Kept(b)
  BY <1>1, RateAssumption DEF Kept
<1> HIDE DEF q
<1>4. q <= since
  BY <1>2, <1>3, SizeType
<1>5. r * q <= r * since /\ r * q \in Int /\ r * since \in Int
  BY <1>2, <1>4, Distribute
<1> QED BY <1>1, <1>2, <1>5

LEMMA LeastOf ==
  ASSUME NEW x \in Int, NEW y \in Int
  PROVE  Min({x, y}) \in {x, y} /\ Min({x, y}) <= x /\ Min({x, y}) <= y
<1>1. \E m \in {x, y} : \A z \in {x, y} : m <= z
  OBVIOUS
<1> QED BY <1>1 DEF Min

\* What a command finds is no more than what was left and what was added since.
LEMMA Found ==
  ASSUME LimiterInv, NEW b \in Bucket, NEW time \in 0..moment
  PROVE  /\ TokensAt(b, time) \in 0..Capacity(b)
         /\ \A e \in Command :
              e.ran = moment /\ Rate(b) > 0 /\ taken[b] # <<>> =>
                TokensAt(b, time) <= bucket[b].tokens + Refilled(taken[b], e, Rate(b))
<1>1. PICK c \in Nat, r \in Nat : c = Capacity(b) /\ r = Rate(b)
  BY SizeType
<1>2. moment \in Nat /\ Accounted(b)
  BY DEF LimiterInv
<1>3. CASE taken[b] = <<>>
  <2>1. bucket[b] = Full
    BY <1>2, <1>3 DEF Accounted
  <2>2. TokensAt(b, time) = Capacity(b)
    BY <1>2, <2>1 DEF TokensAt, Full
  <2> QED BY <1>1, <1>3, <2>2
<1>4. CASE taken[b] # <<>>
  <2>1. PICK ran \in Nat, late \in Nat, left \in 0..c :
          /\ ran = taken[b][Len(taken[b])].ran /\ late = taken[b][Len(taken[b])].late
          /\ left = bucket[b].tokens /\ bucket[b].stamp = ran - late
          /\ bucket[b].expires = ran + Kept(b) /\ ran <= moment
    <3>1. taken[b][Len(taken[b])] \in Command
      BY <1>2, <1>4 DEF Accounted
    <3> QED BY <1>1, <1>2, <1>4, <3>1 DEF Accounted, Command
  <2>0. ran <= moment /\ moment \in Nat
    BY <1>2, <2>1, Zenon
  <2>2. PICK since \in Nat, gap \in Nat, gone \in Nat :
          /\ since = moment - ran /\ gap = moment - ran + late /\ since <= gap /\ gone <= gap
          /\ gone = IF time < ran - late THEN 0 ELSE time - (ran - late)
    <3> DEFINE el == IF time < ran - late THEN 0 ELSE time - (ran - late)
    <3>1. moment - ran \in Nat /\ moment - ran + late \in Nat /\ moment - ran <= moment - ran + late
      BY <2>0
    <3>2. el \in Nat /\ el <= moment - ran + late
      BY <2>0
    <3> QED BY <3>1, <3>2, Zenon
  <2>3. PICK p \in Nat, q \in Nat, f \in Nat : /\ p = r * gone /\ q = r * gap /\ f = r * since
                                              /\ p <= q /\ f <= q
    <3>1. \A x \in Nat : r * x \in Nat
      OBVIOUS
    <3>2. r * gone <= r * gap
      BY <2>2, Distribute
    <3>3. r * since <= r * gap
      BY <2>2, Distribute
    <3> QED BY <3>1, <3>2, <3>3, Zenon
  <2>7. p <= q /\ f <= q
    BY <2>3
  <2>4. ASSUME NEW e \in Command, e.ran = moment
        PROVE  Refilled(taken[b], e, Rate(b)) = q
    BY <1>1, <2>1, <2>2, <2>3, <2>4 DEF Refilled
  <2>5. CASE bucket[b].expires <= moment
    <3>1. TokensAt(b, time) = c
      BY <1>1, <2>5 DEF TokensAt
    <3>2. r > 0 => c <= f
      <4>1. PICK k \in Nat : k = Kept(b)
        BY SizeType
      <4>2. ran + k <= moment
        BY <2>1, <2>5, <4>1, Zenon
      <4>3. k <= since
        BY <2>0, <2>2, <4>2
      <4> QED BY <1>1, <2>3, <4>1, <4>3, KeptRefills
    <3>3. r > 0 => c <= left + q
      BY <2>7, <3>2
    <3> QED BY <1>1, <2>1, <2>4, <3>1, <3>3
  <2>6. CASE ~(bucket[b].expires <= moment)
    <3>1. TokensAt(b, time) = Min({c, left + p})
      <4>1. gone * r = p
        BY <2>2, <2>3
      <4> QED BY <1>1, <2>1, <2>2, <2>6, <4>1 DEF TokensAt
    <3>2. left + p \in Int /\ c \in Int
      OBVIOUS
    <3>3. PICK m \in Int : m = TokensAt(b, time) /\ m \in {c, left + p} /\ m <= c /\ m <= left + p
      <4>1. /\ Min({c, left + p}) \in {c, left + p}
            /\ Min({c, left + p}) <= c /\ Min({c, left + p}) <= left + p
        BY <3>2, LeastOf
      <4> QED BY <3>1, <3>2, <4>1, Zenon
    <3>4. m \in 0..c /\ m <= left + q
      BY <2>7, <3>3
    <3> QED BY <1>1, <2>1, <2>4, <3>3, <3>4, Zenon
  <2> QED BY <2>5, <2>6
<1> QED BY <1>3, <1>4

\* A command keeps the account of every bucket.
LEMMA CommandStep ==
  ASSUME LimiterInv, moment' = moment, NEW v \in Visit, Consuming(v), NEW allowed \in BOOLEAN,
         TokenBucket(v, KeyOf(v), allowed)
  PROVE  /\ bucket' = [b \in Bucket |-> bucket'[b]] /\ taken' = [b \in Bucket |-> taken'[b]]
         /\ \A b \in Bucket : Accounted(b)'
<1>1. PICK k \in Bucket, time \in 0..moment : k = KeyOf(v) /\ time = visit[v].read
  BY DEF LimiterInv, Queued, Consuming, KeyOf, Bucket
<1>2. moment \in Nat /\ \A b \in Bucket : Accounted(b)
  BY DEF LimiterInv
<1> DEFINE found == TokensAt(k, time)
           left == IF allowed THEN found - 1 ELSE found
           e == [ran |-> moment, late |-> moment - time, allowed |-> allowed]
           now == [tokens |-> left, stamp |-> time, expires |-> moment + Kept(k)]
<1>3. /\ allowed <=> found >= 1
      /\ bucket' = [bucket EXCEPT ![k] = now] /\ taken' = [taken EXCEPT ![k] = Append(@, e)]
  BY <1>1, Zenon DEF TokenBucket
<1>4. e \in Command /\ e.ran = moment /\ e.allowed = allowed /\ e.late = moment - time
  BY <1>2 DEF Command
<1>5. PICK size \in Nat, rate \in Nat : size = Capacity(k) /\ rate = Rate(k)
  BY <1>1, SizeType
<1>6. found \in 0..size
  BY <1>1, <1>5, Found
<1> HIDE DEF found
<1>7. left \in 0..size /\ left = found - Given(e)
  BY <1>3, <1>4, <1>6 DEF Given
<1>8. now.tokens = left /\ now.stamp = time /\ now.expires = moment + Kept(k)
  OBVIOUS
<1> HIDE DEF e, now, left
<1>9. /\ bucket' = [b \in Bucket |-> bucket'[b]] /\ taken' = [b \in Bucket |-> taken'[b]]
      /\ bucket'[k] = now /\ taken'[k] = Append(taken[k], e)
      /\ \A b \in Bucket \ {k} : bucket'[b] = bucket[b] /\ taken'[b] = taken[b]
  BY <1>3 DEF LimiterInv
<1>10. ASSUME NEW b \in Bucket \ {k} PROVE Accounted(b)'
  BY <1>2, <1>9, <1>10 DEF Accounted, Capacity, Rate, Kept
<1>11. Accounted(k)'
  <2> DEFINE s == taken[k]
             t == Append(s, e)
  <2>1. s \in Seq(Command)
    BY <1>2 DEF Accounted
  <2>2. t \in Seq(Command) /\ t # <<>> /\ t[Len(t)] = e
    BY <1>4, <2>1
  <2>3. rate > 0 => WithinBudget(t, left, size, rate) /\ NeverOver(t, size, rate)
    <3> SUFFICES ASSUME rate > 0
                 PROVE  WithinBudget(t, left, size, rate) /\ NeverOver(t, size, rate)
      OBVIOUS
    <3>1. NeverOver(s, size, rate)
      BY <1>2, <1>5 DEF Accounted
    <3>2. PICK tokens \in Nat :
            /\ s # <<>> => found <= tokens + Refilled(s, e, rate)
            /\ WithinBudget(s, tokens, size, rate)
      <4>1. CASE s = <<>>
        <5>1. WithinBudget(s, 0, size, rate)
          BY <4>1 DEF WithinBudget
        <5> QED BY <4>1, <5>1
      <4>2. CASE s # <<>>
        <5>1. bucket[k].tokens \in Nat /\ WithinBudget(s, bucket[k].tokens, size, rate)
          BY <1>2, <1>5, <4>2 DEF Accounted
        <5>2. found <= bucket[k].tokens + Refilled(s, e, rate)
          BY <1>1, <1>4, <1>5, <4>2, Found DEF found
        <5> QED BY <5>1, <5>2
      <4> QED BY <4>1, <4>2
    <3> HIDE DEF t, s
    <3>3. left \in Nat /\ found \in 0..size
      BY <1>6, <1>7
    <3> QED BY <1>4, <1>7, <2>1, <3>1, <3>2, <3>3, CommandWithinBudget DEF t
  <2>4. /\ now.tokens \in 0..size /\ now.stamp = e.ran - e.late
        /\ now.expires = e.ran + Kept(k) /\ e.ran <= moment
    BY <1>2, <1>4, <1>7, <1>8
  <2>5. taken'[k] = t /\ bucket'[k] = now
    BY <1>9
  <2>6. rate > 0 => WithinBudget(t, now.tokens, size, rate)
    BY <1>8, <2>3
  <2> HIDE DEF s, t
  <2>7. Capacity(k)' = size /\ Rate(k)' = rate /\ Kept(k)' = Kept(k)
    BY <1>5 DEF Capacity, Rate, Kept
  <2> QED BY <1>5, <2>2, <2>3, <2>4, <2>5, <2>6, <2>7, Zenon DEF Accounted
<1> QED BY <1>9, <1>10, <1>11

\* A request that moves on leaves the others waiting as they were.
LEMMA RequestStep ==
  ASSUME LimiterInv, NEW v \in Visit, moment' = moment, NEW r, visit' = [visit EXCEPT ![v] = r],
         r.stage \in {"ip", "allowed", "payer", "passed", "refused"},
         r.stage \in {"ip", "allowed", "payer"} =>
           r.ip \in Ip /\ r.payer \in Payer \cup {NoPayer} /\ r.read \in 0..moment,
         r.stage = "payer" => r.payer \in Payer
  PROVE  visit' = [w \in Visit |-> visit'[w]] /\ \A w \in Visit : Queued(w)'
<1>1. /\ visit' = [w \in Visit |-> visit'[w]]
      /\ visit'[v] = r /\ \A w \in Visit \ {v} : visit'[w] = visit[w]
  BY DEF LimiterInv
<1>2. \A w \in Visit : Queued(w)
  BY DEF LimiterInv
<1>3. Queued(v)'
  BY <1>1, Zenon DEF Queued
<1>4. ASSUME NEW w \in Visit \ {v} PROVE Queued(w)'
  BY <1>1, <1>2 DEF Queued
<1> QED BY <1>1, <1>3, <1>4

LEMMA LimiterStep == LimiterInv /\ [LimiterNext]_limiterVars => LimiterInv'
<1> SUFFICES ASSUME LimiterInv, [LimiterNext]_limiterVars PROVE LimiterInv'
  OBVIOUS
<1> DEFINE Requests == visit' = [v \in Visit |-> visit'[v]] /\ \A v \in Visit : Queued(v)'
           Accounts == /\ bucket' = [b \in Bucket |-> bucket'[b]]
                       /\ taken' = [b \in Bucket |-> taken'[b]]
                       /\ \A b \in Bucket : Accounted(b)'
<1>1. moment \in Nat /\ moment' \in Nat /\ moment \in 0..moment
  <2>1. moment' \in {moment, moment + 1}
    BY Zenon DEF LimiterNext, limiterVars, MomentPasses, Arrive, Allowed, TooMany, NextBucket,
       FailsOpen
  <2> QED BY <2>1 DEF LimiterInv
<1>2. ASSUME UNCHANGED <<bucket, taken>>, moment <= moment' PROVE Accounts
  <2>1. ASSUME NEW b \in Bucket PROVE Accounted(b)'
    <3>1. Accounted(b)
      BY DEF LimiterInv
    <3>2. taken[b] # <<>> => taken[b][Len(taken[b])].ran <= moment'
      <4> SUFFICES ASSUME taken[b] # <<>> PROVE taken[b][Len(taken[b])].ran <= moment'
        OBVIOUS
      <4>1. PICK c \in Command : c = taken[b][Len(taken[b])] /\ c.ran <= moment
        BY <3>1 DEF Accounted
      <4>2. c.ran \in Nat
        BY DEF Command
      <4>3. c.ran <= moment'
        BY <1>1, <1>2, <4>1, <4>2
      <4> QED BY <4>1, <4>3
    <3> QED BY <1>2, <3>1, <3>2 DEF Accounted, Capacity, Rate, Kept
  <2> QED BY <1>2, <2>1 DEF LimiterInv
<1>3. Requests /\ Accounts => LimiterInv'
  BY <1>1 DEF LimiterInv
<1>4. CASE UNCHANGED limiterVars
  BY <1>4 DEF limiterVars, LimiterInv, Queued, Accounted, Capacity, Rate, Kept
<1>5. CASE MomentPasses
  <2>1. Requests
    BY <1>1, <1>5 DEF MomentPasses, LimiterInv, Queued
  <2>2. UNCHANGED <<bucket, taken>> /\ moment <= moment'
    BY <1>1, <1>5 DEF MomentPasses
  <2> QED BY <1>2, <1>3, <2>1, <2>2
<1> HIDE DEF Accounts
<1>6. ASSUME NEW v \in Visit, NEW ip \in Ip, NEW payer \in Payer \cup {NoPayer}, Arrive(v, ip, payer)
      PROVE LimiterInv'
  <2> DEFINE r == [stage |-> "ip", ip |-> ip, payer |-> payer, read |-> moment]
  <2>1. r.stage = "ip" /\ r.ip = ip /\ r.payer = payer /\ r.read = moment
    OBVIOUS
  <2>2. visit' = [visit EXCEPT ![v] = r] /\ UNCHANGED <<moment, bucket, taken>>
    BY <1>6, Zenon DEF Arrive
  <2> HIDE DEF r
  <2>3. /\ moment' = moment /\ r.stage \in {"ip", "allowed", "payer", "passed", "refused"}
        /\ r.ip \in Ip /\ r.payer \in Payer \cup {NoPayer} /\ r.read \in 0..moment
        /\ r.stage # "payer"
    BY <1>1, <2>1, <2>2
  <2>4. Requests
    BY <2>2, <2>3, RequestStep
  <2>5. moment <= moment'
    BY <1>1, <2>3
  <2> QED BY <1>2, <1>3, <2>2, <2>4, <2>5
<1>7. ASSUME NEW v \in Visit, NEW outcome \in {"passed", "refused"}, Ends(v, outcome),
             moment' = moment
      PROVE Requests
  <2> DEFINE r == [stage |-> outcome]
  <2>1. r.stage = outcome
    OBVIOUS
  <2>2. visit' = [visit EXCEPT ![v] = r]
    BY <1>7 DEF Ends
  <2> HIDE DEF r
  <2> QED BY <1>7, <2>1, <2>2, RequestStep
<1>8. ASSUME NEW v \in Visit, Allowed(v) PROVE LimiterInv'
  <2>1. Accounts /\ moment' = moment
    BY <1>8, CommandStep DEF Allowed, Accounts
  <2>2. Requests
    <3>1. CASE visit[v].stage = "ip"
      <4> DEFINE r == [visit[v] EXCEPT !.stage = "allowed"]
      <4>1. visit' = [visit EXCEPT ![v] = r]
        BY <1>8, <3>1 DEF Allowed
      <4>2. Queued(v)
        BY DEF LimiterInv
      <4>3. r.stage = "allowed" /\ r.ip = visit[v].ip /\ r.payer = visit[v].payer /\ r.read = visit[v].read
        BY <4>2 DEF Queued
      <4> HIDE DEF r
      <4> QED BY <2>1, <3>1, <4>1, <4>2, <4>3, RequestStep DEF Queued
    <3>2. CASE visit[v].stage # "ip"
      BY <1>7, <1>8, <2>1, <3>2 DEF Allowed
    <3> QED BY <3>1, <3>2
  <2> QED BY <1>3, <2>1, <2>2
<1>9. ASSUME NEW v \in Visit, TooMany(v) PROVE LimiterInv'
  <2>1. Accounts /\ moment' = moment
    <3>1. moment' = moment /\ Consuming(v)
      BY <1>9 DEF TooMany
    <3>2. CASE TokenBucket(v, KeyOf(v), FALSE)
      BY <3>1, <3>2, CommandStep DEF Accounts
    <3>3. CASE UNCHANGED <<bucket, taken>>
      <4>1. moment <= moment'
        BY <1>1, <3>1
      <4> QED BY <1>2, <3>1, <3>3, <4>1
    <3> QED BY <1>9, <3>1, <3>2, <3>3 DEF TooMany
  <2>2. Requests
    BY <1>7, <1>9, <2>1 DEF TooMany
  <2> QED BY <1>3, <2>1, <2>2
<1>10. ASSUME NEW v \in Visit, NextBucket(v) PROVE LimiterInv'
  <2>0. Queued(v) /\ visit[v].stage = "allowed" /\ UNCHANGED <<moment, bucket, taken>>
    BY <1>10 DEF LimiterInv, NextBucket
  <2>1. Requests
    <3>1. CASE visit[v].payer = NoPayer
      BY <1>7, <1>10, <2>0, <3>1 DEF NextBucket
    <3>2. CASE visit[v].payer # NoPayer
      <4> DEFINE r == [visit[v] EXCEPT !.stage = "payer", !.read = moment]
      <4>1. visit' = [visit EXCEPT ![v] = r]
        BY <1>10, <3>2 DEF NextBucket
      <4>2. r.stage = "payer" /\ r.ip = visit[v].ip /\ r.payer = visit[v].payer /\ r.read = moment
        BY <2>0 DEF Queued
      <4> HIDE DEF r
      <4>3. r.ip \in Ip /\ r.payer \in Payer /\ r.read \in 0..moment /\ moment' = moment
        BY <1>1, <2>0, <3>2, <4>2 DEF Queued
      <4> QED BY <4>1, <4>2, <4>3, RequestStep
    <3> QED BY <3>1, <3>2
  <2>2. moment <= moment'
    BY <1>1, <2>0
  <2> QED BY <1>2, <1>3, <2>0, <2>1, <2>2
<1>11. ASSUME NEW v \in Visit, FailsOpen(v) PROVE LimiterInv'
  <2>1. Accounts /\ moment' = moment
    <3>1. moment' = moment /\ Consuming(v)
      BY <1>11 DEF FailsOpen
    <3>2. ASSUME NEW allowed \in BOOLEAN, TokenBucket(v, KeyOf(v), allowed) PROVE Accounts
      BY <3>1, <3>2, CommandStep DEF Accounts
    <3>3. CASE UNCHANGED <<bucket, taken>>
      <4>1. moment <= moment'
        BY <1>1, <3>1
      <4> QED BY <1>2, <3>1, <3>3, <4>1
    <3> QED BY <1>11, <3>1, <3>2, <3>3 DEF FailsOpen
  <2>2. Requests
    BY <1>7, <1>11, <2>1 DEF FailsOpen
  <2> QED BY <1>3, <2>1, <2>2
<1> QED BY <1>4, <1>5, <1>6, <1>8, <1>9, <1>10, <1>11 DEF LimiterNext

\* The bound of Throttled is the one the account is kept by.
LEMMA ThrottledAccount ==
  ASSUME LimiterInv
  PROVE  Throttled
<1> SUFFICES ASSUME NEW b \in Bucket, Rate(b) > 0, NEW last \in DOMAIN taken[b],
                    NEW first \in 1..last
             PROVE  Cardinality({n \in first..last : taken[b][n].allowed})
                      <= Capacity(b) + Rate(b) *
                           (taken[b][last].ran - taken[b][first].ran
                              + SumFunction([n \in first..last |-> taken[b][n].late]))
  BY DEF Throttled
<1> DEFINE f == [n \in first..last |-> taken[b][n].late]
<1>1. taken[b] \in Seq(Command) /\ NeverOver(taken[b], Capacity(b), Rate(b))
  BY DEF LimiterInv, Accounted
<1>2. SumFunction(f) = Sum(f, first..last)
  <2>1. DOMAIN f = first..last
    OBVIOUS
  <2> HIDE DEF f
  <2> QED BY <2>1, Zenon DEF Sum, SumFunction, SumFunctionOnSet, FoldFunctionOnSet, MapThenSumSet
<1>3. Sum(f, first..last) = Lateness(taken[b], first, last)
  <2>1. \A n \in first..last : f[n] = LateOf(taken[b])[n]
    BY <1>1 DEF LateOf
  <2>2. IsFiniteSet(first..last)
    BY <1>1, FS_Interval
  <2> HIDE DEF f
  <2> QED BY <2>1, <2>2, SumAgree DEF Lateness
<1>4. Took(taken[b], first, last)
        <= Capacity(b) + Rate(b) *
             (taken[b][last].ran - taken[b][first].ran + Lateness(taken[b], first, last))
  BY <1>1, Zenon DEF NeverOver
<1> HIDE DEF f
<1>5. Cardinality({n \in first..last : taken[b][n].allowed}) = Took(taken[b], first, last)
  BY DEF Took
<1> QED BY <1>2, <1>3, <1>4, <1>5, Zenon DEF f

\* Whenever requests arrive and however late their commands run, for any capacities and rates:
\* between two commands a bucket allows what it holds and what it is given meanwhile, and as
\* much again for the time each command took to get to Redis.
THEOREM BucketsThrottle == ServicesSpec => []Throttled
<1>1. LimiterInit => LimiterInv
  <2> SUFFICES ASSUME LimiterInit PROVE LimiterInv
    OBVIOUS
  <2>1. \A v \in Visit : Queued(v)
    BY DEF LimiterInit, Queued
  <2>2. ASSUME NEW b \in Bucket PROVE Accounted(b)
    <3>1. taken[b] = <<>> /\ bucket[b] = Full
      BY DEF LimiterInit
    <3>2. NeverOver(<<>>, Capacity(b), Rate(b))
      BY DEF NeverOver
    <3> QED BY <3>1, <3>2 DEF Accounted
  <2> QED BY <2>1, <2>2 DEF LimiterInit, LimiterInv
<1> QED BY <1>1, LimiterStep, ThrottledAccount, Projections, PTL DEF LimiterSpec

---------------------------------------------------------------------------
(* The balance of the sponsor *)

\* One transfer at a time of a replica, of a poll that saw the account below its target;
\* and one at a time of those that are sure.
OneTransfer ==
  \A p \in Poll : polls[p].stage \in {"transferring", "applied"} =>
    /\ refillInProgress[polls[p].of]
    /\ polls[p].seen < TargetBalance
    /\ \A q \in Poll :
         polls[q].stage \in {"transferring", "applied"} /\ polls[q].of = polls[p].of => q = p

OneSure ==
  \A p, q \in Poll :
    polls[p].stage = "transferring" /\ polls[p].sure = "yes" /\
    polls[q].stage = "transferring" /\ polls[q].sure = "yes" => q = p

\* What a sure poll saw is what the account holds or more, but for the excess, unless its
\* own replica has refilled it since.
Knows(p) == balance <= polls[p].seen + excess

OwnRefill(p) ==
  \/ lastRefillAt[polls[p].of] >= polls[p].asked
  \/ \E q \in Poll : polls[q].stage = "applied" /\ polls[q].of = polls[p].of

SeenEnough ==
  \A p \in Poll :
    /\ polls[p].stage = "transferring" /\ polls[p].sure = "yes" => Knows(p)
    /\ polls[p].stage = "loading" /\ polls[p].sure = "yes" => Knows(p) \/ OwnRefill(p)

BalanceInv ==
  /\ BalanceTypeOK
  /\ \A p \in Poll : polls[p].stage = "loading" => polls[p].asked <= elapsed
  /\ OneTransfer /\ OneSure /\ SeenEnough /\ RefilledOnce

LEMMA PollType ==
  ASSUME BalanceTypeOK, NEW p \in Poll, polls[p].stage \in {"loading", "transferring", "applied"}
  PROVE  /\ polls[p] \in Polling /\ polls[p] # NotPolling
         /\ polls[p].of \in Replica /\ polls[p].seen \in Nat /\ polls[p].asked \in 0..LastPoll
         /\ polls[p].sure \in {"yes", "no"}
<1>1. polls[p] \in {NotPolling} \cup Polling \cup Alerting
  BY DEF BalanceTypeOK
<1>2. polls[p] \in Polling
  BY <1>1 DEF NotPolling, Alerting
<1> QED BY <1>2 DEF Polling, NotPolling

LEMMA AlertType ==
  ASSUME BalanceTypeOK, NEW p \in Poll, polls[p].stage = "alerting"
  PROVE  polls[p].of \in Replica
<1>1. polls[p] \in {NotPolling} \cup Polling \cup Alerting
  BY DEF BalanceTypeOK
<1> QED BY <1>1 DEF NotPolling, Polling, Alerting

LEMMA BalanceInvInit == BalanceInit => BalanceInv
<1> SUFFICES ASSUME BalanceInit PROVE BalanceInv
  OBVIOUS
<1> USE BalanceAssumption
<1>1. BalanceTypeOK
  <2>1. -Cooldown \in (-Cooldown)..LastPoll /\ 0 \in 0..LastPoll
    OBVIOUS
  <2>2. polls \in [Poll -> {NotPolling}]
    BY DEF BalanceInit
  <2> QED BY <2>1, <2>2 DEF BalanceInit, BalanceTypeOK
<1>2. \A p \in Poll : polls[p].stage = "none"
  BY DEF BalanceInit, NotPolling
<1>3. RefilledOnce
  BY DEF BalanceInit, RefilledOnce
<1> QED BY <1>1, <1>2, <1>3 DEF BalanceInv, OneTransfer, OneSure, SeenEnough

\* A step after which no poll loads, is sure, transfers or has had its transfer applied that
\* did not before, and that changes neither the account nor what a loading poll relies on.
LEMMA QuietStep ==
  ASSUME BalanceInv, BalanceTypeOK', UNCHANGED <<balance, excess>>, elapsed <= elapsed',
         \A p \in Poll : polls'[p].stage \in {"loading", "transferring", "applied"} =>
           /\ polls'[p] = polls[p] /\ refillInProgress'[polls[p].of] = refillInProgress[polls[p].of]
           /\ lastRefillAt'[polls[p].of] = lastRefillAt[polls[p].of]
           /\ \A q \in Poll : polls[q].stage = "applied" /\ polls[q].of = polls[p].of =>
                polls'[q] = polls[q]
  PROVE  BalanceInv'
<1>1. OneTransfer'
  BY DEF BalanceInv, OneTransfer
<1>2. OneSure'
  BY DEF BalanceInv, OneSure
<1>3. SeenEnough'
  <2> SUFFICES ASSUME NEW p \in Poll, polls'[p].stage \in {"loading", "transferring"},
                      polls'[p].sure = "yes"
               PROVE  /\ polls'[p].stage = "transferring" => Knows(p)'
                      /\ polls'[p].stage = "loading" => Knows(p)' \/ OwnRefill(p)'
    BY DEF SeenEnough
  <2>1. polls'[p] = polls[p] /\ lastRefillAt'[polls[p].of] = lastRefillAt[polls[p].of]
    OBVIOUS
  <2>2. Knows(p) => Knows(p)'
    BY <2>1 DEF Knows
  <2>3. OwnRefill(p) => OwnRefill(p)'
    BY <2>1 DEF OwnRefill
  <2> QED BY <2>1, <2>2, <2>3 DEF BalanceInv, SeenEnough
<1>4. RefilledOnce'
  BY DEF BalanceInv, RefilledOnce
<1>5. \A p \in Poll : polls'[p].stage = "loading" => polls'[p].asked <= elapsed'
  <2> SUFFICES ASSUME NEW p \in Poll, polls'[p].stage = "loading" PROVE polls'[p].asked <= elapsed'
    OBVIOUS
  <2>1. polls'[p] = polls[p] /\ polls[p].asked <= elapsed
    BY DEF BalanceInv
  <2>2. polls[p].asked \in Int /\ elapsed \in Int /\ elapsed' \in Int
    BY <2>1, PollType DEF BalanceInv, BalanceTypeOK
  <2> QED BY <2>1, <2>2
<1> QED BY <1>1, <1>2, <1>3, <1>4, <1>5 DEF BalanceInv

\* The account is given what the excess is, or pays a fee.
LEMMA AccountStep ==
  ASSUME BalanceInv, BalanceTypeOK', NEW more \in Int, NEW even \in Int, more <= even,
         balance' = balance + more, excess' = excess + even,
         UNCHANGED <<elapsed, polls, refillVars>>
  PROVE  BalanceInv'
<1>1. balance \in Nat /\ excess \in Nat /\ TargetBalance \in Nat
  BY BalanceAssumption DEF BalanceInv, BalanceTypeOK
<1>2. RefilledOnce'
  BY <1>1 DEF BalanceInv, RefilledOnce
<1>3. ASSUME NEW p \in Poll, polls[p].stage \in {"loading", "transferring"}, Knows(p)
      PROVE  Knows(p)'
  <2>1. polls[p].seen \in Nat
    BY <1>3, PollType DEF BalanceInv
  <2> QED BY <1>1, <1>3, <2>1 DEF Knows
<1>4. \A p \in Poll : OwnRefill(p)' = OwnRefill(p)
  BY DEF OwnRefill, refillVars
<1>5. SeenEnough'
  BY <1>3, <1>4 DEF BalanceInv, SeenEnough
<1> QED BY <1>2, <1>5 DEF BalanceInv, OneTransfer, OneSure, refillVars

LEMMA BalanceInvNext == BalanceInv /\ [BalanceNext]_balanceVars => BalanceInv'
<1> SUFFICES ASSUME BalanceInv, [BalanceNext]_balanceVars PROVE BalanceInv'
  OBVIOUS
<1> USE BalanceAssumption
<1>t. BalanceTypeOK
  BY DEF BalanceInv
<1>1. CASE TimeGoesOn
  <2>1. BalanceTypeOK' /\ elapsed <= elapsed'
    BY <1>1, <1>t DEF TimeGoesOn, refillVars, BalanceTypeOK
  <2> QED BY <1>1, <2>1, QuietStep DEF TimeGoesOn, refillVars
<1>2. CASE PayFee
  <2>1. BalanceTypeOK' /\ balance' = balance + (-1) /\ excess' = excess + 0
    BY <1>2, <1>t DEF PayFee, refillVars, BalanceTypeOK
  <2> QED BY <1>2, <2>1, AccountStep DEF PayFee
<1>3. ASSUME NEW p \in Poll, AppliedLate(p) PROVE BalanceInv'
  <2>1. unsettled[p] \in Nat /\ BalanceTypeOK'
    BY <1>3, <1>t DEF AppliedLate, refillVars, BalanceTypeOK
  <2> QED BY <1>3, <2>1, AccountStep DEF AppliedLate
<1>4. ASSUME NEW p \in Poll, NEW r \in Replica, CheckBalance(p, r) PROVE BalanceInv'
  <2> DEFINE new == [stage |-> "loading", of |-> r, seen |-> balance, asked |-> elapsed, sure |-> "yes"]
  <2>1. /\ polls' = [polls EXCEPT ![p] = new] /\ polls[p].stage = "none"
        /\ UNCHANGED <<elapsed, balance, refillInProgress, lastRefillAt, unsettled, excess>>
    BY <1>4 DEF CheckBalance, refillVars, NotPolling
  <2>2. new \in Polling
    BY <1>t DEF Polling, BalanceTypeOK
  <2>3. BalanceTypeOK'
    BY <1>t, <2>1, <2>2 DEF BalanceTypeOK
  <2>4. polls'[p] = new /\ \A q \in Poll \ {p} : polls'[q] = polls[q]
    BY <1>t, <2>1 DEF BalanceTypeOK
  <2>5. OneTransfer' /\ OneSure'
    BY <2>1, <2>4 DEF BalanceInv, OneTransfer, OneSure
  <2>6. SeenEnough'
    <3>1. Knows(p)'
      BY <1>t, <2>1, <2>4 DEF Knows, BalanceTypeOK
    <3>2. ASSUME NEW q \in Poll \ {p}
          PROVE  /\ polls'[q] = polls[q] /\ Knows(q)' = Knows(q) /\ (OwnRefill(q) => OwnRefill(q)')
      BY <2>1, <2>4 DEF Knows, OwnRefill
    <3> QED BY <2>4, <3>1, <3>2 DEF BalanceInv, SeenEnough
  <2>7. \A q \in Poll : polls'[q].stage = "loading" => polls'[q].asked <= elapsed'
    BY <1>t, <2>1, <2>4 DEF BalanceInv, BalanceTypeOK
  <2>8. RefilledOnce'
    BY <2>1 DEF BalanceInv, RefilledOnce
  <2> QED BY <2>3, <2>5, <2>6, <2>7, <2>8 DEF BalanceInv
<1>5. ASSUME NEW p \in Poll, polls[p].stage \in {"loading", "alerting"},
             NEW to \in {NotPolling} \cup Alerting, polls' = [polls EXCEPT ![p] = to],
             UNCHANGED <<elapsed, balance, refillVars, unsettled, excess>>
      PROVE  BalanceInv'
  <2>1. BalanceTypeOK'
    BY <1>5, <1>t DEF BalanceTypeOK, refillVars
  <2>2. to.stage \notin {"loading", "transferring", "applied"}
    BY DEF NotPolling, Alerting
  <2>3. polls'[p] = to /\ \A q \in Poll \ {p} : polls'[q] = polls[q]
    BY <1>5, <1>t DEF BalanceTypeOK
  <2>4. elapsed <= elapsed'
    BY <1>5, <1>t DEF BalanceTypeOK
  <2> QED BY <1>5, <2>1, <2>2, <2>3, <2>4, QuietStep DEF refillVars
<1>6. ASSUME NEW p \in Poll, NothingToDo(p) \/ LowWithoutRefill(p) \/ Alerted(p) PROVE BalanceInv'
  <2>1. polls[p].of \in Replica \/ ~LowWithoutRefill(p)
    BY <1>t, PollType DEF LowWithoutRefill, At
  <2>2. CASE LowWithoutRefill(p)
    <3>1. [stage |-> "alerting", of |-> polls[p].of] \in Alerting
      BY <2>1, <2>2 DEF Alerting
    <3> QED BY <1>5, <2>2, <3>1 DEF LowWithoutRefill, At, Alerts
  <2>3. CASE NothingToDo(p) \/ Alerted(p)
    BY <1>5, <2>3 DEF NothingToDo, Alerted, At
  <2> QED BY <1>6, <2>2, <2>3
<1>7. ASSUME NEW p \in Poll, BeginRefill(p) PROVE BalanceInv'
  <2>1. /\ polls[p].stage = "loading"
        /\ ~refillInProgress[polls[p].of]
        /\ elapsed - lastRefillAt[polls[p].of] >= Cooldown
        /\ TargetBalance > polls[p].seen
        /\ UNCHANGED <<elapsed, balance, lastRefillAt, unsettled, excess>>
        /\ refillInProgress' = [refillInProgress EXCEPT ![polls[p].of] = TRUE]
    BY <1>7 DEF BeginRefill, At, Refillable
  <2>2. /\ polls[p] \in Polling /\ polls[p].of \in Replica /\ polls[p].seen \in Nat
        /\ polls[p].asked \in 0..LastPoll /\ polls[p].sure \in {"yes", "no"}
    BY <1>t, <2>1, PollType
  <2>3. /\ polls'[p] = [polls[p] EXCEPT !.stage = "transferring",
                                        !.sure = IF Doubtful(p) THEN "no" ELSE @]
        /\ \A q \in Poll \ {p} : polls'[q] = polls[q]
        /\ polls' \in [Poll -> {NotPolling} \cup Polling \cup Alerting]
    <3>1. polls' = [polls EXCEPT ![p] = [polls[p] EXCEPT !.stage = "transferring",
                                           !.sure = IF Doubtful(p) THEN "no" ELSE polls[p].sure]]
      BY <1>7, <1>t DEF BeginRefill, BalanceTypeOK
    <3>2. [polls[p] EXCEPT !.stage = "transferring",
                           !.sure = IF Doubtful(p) THEN "no" ELSE polls[p].sure] \in Polling
      BY <2>2 DEF Polling
    <3> QED BY <1>t, <3>1, <3>2 DEF BalanceTypeOK
  <2>4. /\ polls'[p].stage = "transferring" /\ polls'[p].of = polls[p].of
        /\ polls'[p].seen = polls[p].seen
        /\ polls'[p].sure = "yes" => polls[p].sure = "yes" /\ ~Doubtful(p)
    BY <2>2, <2>3 DEF Polling
  <2>5. BalanceTypeOK'
    BY <1>t, <2>1, <2>2, <2>3 DEF BalanceTypeOK
  <2>6. \A q \in Poll : polls[q].stage \in {"transferring", "applied"} => polls[q].of # polls[p].of
    BY <2>1 DEF BalanceInv, OneTransfer
  <2>7. OneTransfer'
    <3> SUFFICES ASSUME NEW q \in Poll, polls'[q].stage \in {"transferring", "applied"}
                 PROVE  /\ refillInProgress'[polls'[q].of] /\ polls'[q].seen < TargetBalance
                        /\ \A x \in Poll : polls'[x].stage \in {"transferring", "applied"}
                                           /\ polls'[x].of = polls'[q].of => x = q
      BY DEF OneTransfer
    <3>1. CASE q = p
      BY <1>t, <2>1, <2>2, <2>3, <2>4, <2>6, <3>1 DEF BalanceTypeOK
    <3>2. CASE q # p
      <4>1. polls'[q] = polls[q] /\ polls[q].of # polls[p].of /\ polls[q].of \in Replica
        BY <1>t, <2>3, <2>6, <3>2, PollType
      <4>2. refillInProgress'[polls[q].of] = refillInProgress[polls[q].of]
        BY <1>t, <2>1, <2>2, <4>1 DEF BalanceTypeOK
      <4>3. refillInProgress[polls[q].of] /\ polls[q].seen < TargetBalance
        BY <4>1 DEF BalanceInv, OneTransfer
      <4>4. ASSUME NEW x \in Poll, polls'[x].stage \in {"transferring", "applied"},
                   polls'[x].of = polls'[q].of
            PROVE  x = q
        <5>1. x # p
          BY <2>4, <4>1, <4>4
        <5>2. polls'[x] = polls[x]
          BY <2>3, <5>1
        <5> QED BY <4>1, <4>4, <5>2 DEF BalanceInv, OneTransfer
      <4> QED BY <4>1, <4>2, <4>3, <4>4
    <3> QED BY <3>1, <3>2
  <2>8. OneSure'
    <3>1. polls'[p].sure = "yes" => \A q \in Poll : polls[q].stage # "transferring"
      BY <2>4 DEF Doubtful, At
    <3> QED BY <2>3, <3>1 DEF BalanceInv, OneSure
  <2>9. SeenEnough'
    <3>1. ASSUME polls'[p].sure = "yes" PROVE Knows(p)'
      <4>1. polls[p].sure = "yes" /\ ~Doubtful(p)
        BY <2>4, <3>1
      <4>2. ~(elapsed - polls[p].asked >= Cooldown)
        BY <4>1 DEF Doubtful
      <4>3. elapsed \in Int /\ lastRefillAt[polls[p].of] \in Int /\ Cooldown \in Int
        BY <1>t, <2>2 DEF BalanceTypeOK
      <4>4. ~(lastRefillAt[polls[p].of] >= polls[p].asked)
        BY <2>1, <2>2, <4>2, <4>3
      <4>5. ~OwnRefill(p)
        BY <2>6, <4>4 DEF OwnRefill
      <4>6. Knows(p)
        BY <2>1, <4>1, <4>5 DEF BalanceInv, SeenEnough
      <4> QED BY <2>1, <2>4, <4>6 DEF Knows
    <3>2. ASSUME NEW q \in Poll \ {p}
          PROVE  /\ polls'[q] = polls[q] /\ Knows(q)' = Knows(q) /\ (OwnRefill(q) => OwnRefill(q)')
      <4>1. polls'[q] = polls[q] /\ Knows(q)' = Knows(q)
        BY <2>1, <2>3 DEF Knows
      <4>2. \A x \in Poll : polls[x].stage = "applied" => x # p
        BY <2>1
      <4> QED BY <2>1, <2>3, <4>1, <4>2 DEF OwnRefill
    <3> QED BY <2>4, <3>1, <3>2 DEF BalanceInv, SeenEnough
  <2>10. \A q \in Poll : polls'[q].stage = "loading" => polls'[q].asked <= elapsed'
    BY <2>1, <2>3, <2>4 DEF BalanceInv
  <2>11. RefilledOnce'
    BY <2>1 DEF BalanceInv, RefilledOnce
  <2> QED BY <2>5, <2>7, <2>8, <2>9, <2>10, <2>11 DEF BalanceInv
\* What becomes of the polls when one goes on and others are no longer sure.
<1>8. ASSUME NEW p \in Poll, NEW to \in Polling \cup Alerting, to.stage \in {"applied", "alerting"},
             NEW moved \in [Poll -> {NotPolling} \cup Polling \cup Alerting],
             moved[p] = to, \A q \in Poll \ {p} : moved[q] = polls[q],
             NEW replicas, polls' = Unsure(moved, replicas)
      PROVE  /\ polls' \in [Poll -> {NotPolling} \cup Polling \cup Alerting]
             /\ polls'[p] = to
             /\ \A q \in Poll \ {p} :
                  /\ polls[q].stage = "loading" /\ polls[q].of \in replicas =>
                       /\ polls'[q].stage = "loading" /\ polls'[q].sure = "no"
                       /\ polls'[q].asked = polls[q].asked
                  /\ ~(polls[q].stage = "loading" /\ polls[q].of \in replicas) => polls'[q] = polls[q]
  <2>3. ASSUME NEW q \in Poll, moved[q].stage = "loading"
        PROVE  /\ [moved[q] EXCEPT !.sure = "no"] \in Polling
               /\ [moved[q] EXCEPT !.sure = "no"].stage = "loading"
               /\ [moved[q] EXCEPT !.sure = "no"].sure = "no"
               /\ [moved[q] EXCEPT !.sure = "no"].asked = moved[q].asked
    <3>1. q # p /\ moved[q] = polls[q]
      BY <1>8, <2>3
    <3>2. moved[q] \in Polling
      BY <1>t, <2>3, <3>1, PollType
    <3> QED BY <2>3, <3>2 DEF Polling
  <2>4. polls' \in [Poll -> {NotPolling} \cup Polling \cup Alerting]
    BY <1>8, <2>3 DEF Unsure
  <2>5. polls'[p] = to
    BY <1>8 DEF Unsure
  <2>6. ASSUME NEW q \in Poll \ {p}
        PROVE  /\ polls[q].stage = "loading" /\ polls[q].of \in replicas =>
                    /\ polls'[q].stage = "loading" /\ polls'[q].sure = "no"
                    /\ polls'[q].asked = polls[q].asked
               /\ ~(polls[q].stage = "loading" /\ polls[q].of \in replicas) => polls'[q] = polls[q]
    BY <1>8, <2>3 DEF Unsure
  <2> QED BY <2>4, <2>5, <2>6
<1>9. ASSUME NEW p \in Poll, TransferApplied(p) PROVE BalanceInv'
  <2> DEFINE r == polls[p].of
             a == TargetBalance - polls[p].seen
             to == [polls[p] EXCEPT !.stage = "applied"]
             others == Replica \ {r}
  <2>1. polls[p].stage = "transferring" /\ polls[p] \in Polling /\ r \in Replica /\ polls[p].seen \in Nat
        /\ polls[p].sure \in {"yes", "no"}
    BY <1>9, <1>t, PollType DEF TransferApplied, At
  <2>2. polls[p].seen < TargetBalance /\ refillInProgress[r]
        /\ \A q \in Poll \ {p} : polls[q].stage \in {"transferring", "applied"} => polls[q].of # r
    BY <2>1 DEF BalanceInv, OneTransfer
  <2>3. /\ polls' = Unsure([polls EXCEPT ![p] = to], others)
        /\ balance' = balance + a /\ excess' = IF polls[p].sure = "yes" THEN excess ELSE excess + a
        /\ UNCHANGED <<elapsed, refillInProgress, lastRefillAt, unsettled>>
    BY <1>9 DEF TransferApplied, Goes, Amount, refillVars
  <2>4. to \in Polling /\ to.stage = "applied" /\ to.of = r /\ to.seen = polls[p].seen
    BY <2>1 DEF Polling
  <2>5. a \in Nat
    BY <2>1, <2>2
  <2>6. /\ polls' \in [Poll -> {NotPolling} \cup Polling \cup Alerting]
        /\ polls'[p] = to
        /\ \A q \in Poll \ {p} :
             /\ polls[q].stage = "loading" /\ polls[q].of \in others =>
                  /\ polls'[q].stage = "loading" /\ polls'[q].sure = "no"
                  /\ polls'[q].asked = polls[q].asked
             /\ ~(polls[q].stage = "loading" /\ polls[q].of \in others) => polls'[q] = polls[q]
    <3> DEFINE moved == [polls EXCEPT ![p] = to]
    <3>1. /\ moved \in [Poll -> {NotPolling} \cup Polling \cup Alerting]
          /\ moved[p] = to /\ \A q \in Poll \ {p} : moved[q] = polls[q]
      BY <1>t, <2>4 DEF BalanceTypeOK
    <3>2. polls' = Unsure(moved, others)
      BY <2>3
    <3> HIDE DEF others, to, moved
    <3> QED BY <1>8, <2>4, <3>1, <3>2
  <2> HIDE DEF to, a
  <2>7. BalanceTypeOK'
    <3>1. balance' \in Nat /\ excess' \in Nat
      BY <1>t, <2>3, <2>5 DEF BalanceTypeOK
    <3> QED BY <1>t, <2>3, <2>6, <3>1 DEF BalanceTypeOK
  <2>8. OneTransfer'
    <3>1. \A q \in Poll \ {p} : polls'[q].stage \in {"transferring", "applied"} => polls'[q] = polls[q]
      BY <2>6
    <3>2. polls'[p].of = r /\ polls'[p].seen < TargetBalance /\ refillInProgress' = refillInProgress
      BY <2>2, <2>3, <2>4, <2>6
    <3> QED BY <2>2, <3>1, <3>2 DEF BalanceInv, OneTransfer
  <2>9. OneSure'
    BY <2>4, <2>6 DEF BalanceInv, OneSure
  <2>10. \A q \in Poll : polls'[q].stage = "loading" => polls'[q].asked <= elapsed'
    BY <2>3, <2>4, <2>6 DEF BalanceInv
  <2>11. balance \in Nat /\ excess \in Nat
    BY <1>t DEF BalanceTypeOK
  <2>12. RefilledOnce'
    <3>1. CASE polls[p].sure = "yes"
      <4>1. Knows(p)
        BY <2>1, <3>1 DEF BalanceInv, SeenEnough
      <4> QED BY <2>1, <2>3, <2>11, <3>1, <4>1 DEF a, Knows, RefilledOnce
    <3>2. CASE polls[p].sure # "yes"
      BY <2>3, <2>5, <2>11, <3>2 DEF BalanceInv, RefilledOnce
    <3> QED BY <3>1, <3>2
  <2>13. SeenEnough'
    <3> SUFFICES ASSUME NEW q \in Poll, polls'[q].stage \in {"loading", "transferring"},
                        polls'[q].sure = "yes"
                 PROVE  /\ polls'[q].stage = "transferring" => Knows(q)'
                        /\ polls'[q].stage = "loading" => Knows(q)' \/ OwnRefill(q)'
      BY DEF SeenEnough
    <3>1. q # p /\ polls'[q] = polls[q]
      BY <2>4, <2>6
    <3>2. CASE polls'[q].stage = "loading"
      <4>1. polls[q].of = r
        <5>1. polls[q].of \in Replica
          BY <1>t, <3>1, <3>2, PollType
        <5> QED BY <2>6, <3>1, <3>2, <5>1
      <4> QED BY <2>4, <2>6, <3>1, <3>2, <4>1 DEF OwnRefill
    <3>3. CASE polls'[q].stage = "transferring"
      <4>1. polls[p].sure # "yes"
        BY <2>1, <3>1, <3>3 DEF BalanceInv, OneSure
      <4>2. Knows(q) /\ polls[q].seen \in Nat
        BY <1>t, <3>1, <3>3, PollType DEF BalanceInv, SeenEnough
      <4> QED BY <2>3, <2>5, <2>11, <3>1, <3>3, <4>1, <4>2 DEF Knows
    <3> QED BY <3>2, <3>3
  <2> QED BY <2>7, <2>8, <2>9, <2>10, <2>12, <2>13 DEF BalanceInv
\* A transfer ends: those who loaded before it in the same replica know, or are unsure.
<1>10. ASSUME NEW p \in Poll, polls[p].stage \in {"transferring", "applied"},
              BalanceTypeOK', UNCHANGED <<elapsed, balance, excess>>,
              refillInProgress' = [refillInProgress EXCEPT ![polls[p].of] = FALSE],
              \A r \in Replica : r # polls[p].of => lastRefillAt'[r] = lastRefillAt[r],
              polls'[p].stage = "alerting",
              \A q \in Poll \ {p} :
                \/ polls'[q] = polls[q]
                \/ /\ polls[q].stage = "loading" /\ polls'[q].stage = "loading"
                   /\ polls'[q].sure = "no" /\ polls'[q].asked = polls[q].asked,
              \A q \in Poll : polls'[q].stage = "loading" /\ polls'[q] = polls[q]
                              /\ polls[q].of = polls[p].of /\ polls[q].sure = "yes" =>
                \/ lastRefillAt'[polls[p].of] = elapsed
                \/ polls[p].stage = "transferring" /\ UNCHANGED lastRefillAt
       PROVE  BalanceInv'
  <2>1. polls[p].of \in Replica
        /\ \A q \in Poll \ {p} : polls[q].stage \in {"transferring", "applied"} =>
             polls[q].of # polls[p].of /\ polls[q].of \in Replica
    BY <1>10, <1>t, PollType DEF BalanceInv, OneTransfer
  <2>2. \A q \in Poll : polls'[q].stage \in {"transferring", "applied"} => q # p /\ polls'[q] = polls[q]
    BY <1>10
  <2>3. OneTransfer'
    <3> SUFFICES ASSUME NEW q \in Poll, polls'[q].stage \in {"transferring", "applied"}
                 PROVE  /\ refillInProgress'[polls'[q].of] /\ polls'[q].seen < TargetBalance
                        /\ \A x \in Poll : polls'[x].stage \in {"transferring", "applied"}
                                           /\ polls'[x].of = polls'[q].of => x = q
      BY DEF OneTransfer
    <3>1. polls'[q] = polls[q] /\ polls[q].of # polls[p].of /\ polls[q].of \in Replica
      BY <2>1, <2>2
    <3>2. refillInProgress'[polls[q].of] = refillInProgress[polls[q].of]
      BY <1>10, <1>t, <2>1, <3>1 DEF BalanceTypeOK
    <3> QED BY <2>2, <3>1, <3>2 DEF BalanceInv, OneTransfer
  <2>4. OneSure'
    BY <2>2 DEF BalanceInv, OneSure
  <2>5. \A q \in Poll : polls'[q].stage = "loading" => polls'[q].asked <= elapsed'
    BY <1>10 DEF BalanceInv
  <2>6. RefilledOnce'
    BY <1>10 DEF BalanceInv, RefilledOnce
  <2>7. SeenEnough'
    <3> SUFFICES ASSUME NEW q \in Poll, polls'[q].stage \in {"loading", "transferring"},
                        polls'[q].sure = "yes"
                 PROVE  /\ polls'[q].stage = "transferring" => Knows(q)'
                        /\ polls'[q].stage = "loading" => Knows(q)' \/ OwnRefill(q)'
      BY DEF SeenEnough
    <3>1. q # p /\ polls'[q] = polls[q] /\ Knows(q)' = Knows(q)
      BY <1>10 DEF Knows
    <3>2. CASE polls'[q].stage = "transferring"
      BY <3>1, <3>2 DEF BalanceInv, SeenEnough
    <3>3. CASE polls'[q].stage = "loading"
      <4>1. polls[q].of \in Replica /\ polls[q].asked <= elapsed /\ (Knows(q) \/ OwnRefill(q))
        BY <1>t, <3>1, <3>3, PollType DEF BalanceInv, SeenEnough
      <4>2. CASE polls[q].of = polls[p].of /\ lastRefillAt'[polls[p].of] = elapsed
        <5>1. polls[q].asked \in Int /\ elapsed \in Int
          BY <1>t, <3>1, <3>3, PollType DEF BalanceTypeOK
        <5>2. lastRefillAt'[polls'[q].of] >= polls'[q].asked
          BY <3>1, <4>1, <4>2, <5>1
        <5> QED BY <3>3, <5>2 DEF OwnRefill
      <4>3. CASE polls[q].of = polls[p].of /\ polls[p].stage = "transferring" /\ UNCHANGED lastRefillAt
        <5>1. \A x \in Poll : polls[x].stage = "applied" => polls[x].of # polls[q].of
          BY <2>1, <4>3
        <5>2. OwnRefill(q) => OwnRefill(q)'
          BY <3>1, <4>3, <5>1 DEF OwnRefill
        <5> QED BY <3>1, <3>3, <4>1, <5>2
      <4>4. CASE polls[q].of # polls[p].of
        <5>1. lastRefillAt'[polls[q].of] = lastRefillAt[polls[q].of]
          BY <1>10, <4>1, <4>4
        <5>2. \A x \in Poll : polls[x].stage = "applied" /\ polls[x].of = polls[q].of =>
                x # p /\ polls'[x] = polls[x]
          BY <1>10, <4>4
        <5>3. OwnRefill(q) => OwnRefill(q)'
          BY <3>1, <5>1, <5>2 DEF OwnRefill
        <5> QED BY <3>1, <3>3, <4>1, <5>3
      <4> QED BY <1>10, <3>1, <3>3, <4>2, <4>3, <4>4
    <3> QED BY <3>2, <3>3
  <2> QED BY <1>10, <2>3, <2>4, <2>5, <2>6, <2>7 DEF BalanceInv
<1>11. ASSUME NEW p \in Poll, TransferReturned(p) PROVE BalanceInv'
  <2> DEFINE to == [stage |-> "alerting", of |-> polls[p].of]
  <2>1. polls[p].stage = "applied" /\ polls[p].of \in Replica
    BY <1>11, <1>t, PollType DEF TransferReturned, At
  <2>2. /\ polls' = [polls EXCEPT ![p] = to] /\ to \in Alerting /\ to.stage = "alerting"
        /\ lastRefillAt' = [lastRefillAt EXCEPT ![polls[p].of] = elapsed]
        /\ refillInProgress' = [refillInProgress EXCEPT ![polls[p].of] = FALSE]
        /\ UNCHANGED <<elapsed, balance, unsettled, excess>>
    BY <1>11, <2>1 DEF TransferReturned, Alerts, Alerting
  <2> HIDE DEF to
  <2>3. /\ polls'[p] = to /\ \A q \in Poll \ {p} : polls'[q] = polls[q]
        /\ lastRefillAt'[polls[p].of] = elapsed
        /\ \A r \in Replica : r # polls[p].of => lastRefillAt'[r] = lastRefillAt[r]
    BY <1>t, <2>1, <2>2 DEF BalanceTypeOK
  <2>4. BalanceTypeOK'
    BY <1>t, <2>1, <2>2 DEF BalanceTypeOK
  <2> QED BY <1>10, <2>1, <2>2, <2>3, <2>4
<1>12. ASSUME NEW p \in Poll, TransferThrew(p) PROVE BalanceInv'
  <2> DEFINE to == [stage |-> "alerting", of |-> polls[p].of]
  <2>1. /\ polls[p].stage \in {"transferring", "applied"} /\ polls[p].of \in Replica
        /\ polls[p].seen \in Nat
    BY <1>12, <1>t, PollType DEF TransferThrew, At
  <2>2. /\ refillInProgress' = [refillInProgress EXCEPT ![polls[p].of] = FALSE]
        /\ UNCHANGED <<elapsed, balance, lastRefillAt, excess>>
        /\ to \in Alerting /\ to.stage = "alerting"
    BY <1>12, <2>1 DEF TransferThrew, Alerting
  <2>3. TargetBalance - polls[p].seen \in Nat
    BY <2>1 DEF BalanceInv, OneTransfer
  <2>4. unsettled' \in [Poll -> Nat]
    BY <1>12, <1>t, <2>3 DEF TransferThrew, Amount, BalanceTypeOK
  <2>5. CASE polls[p].stage = "transferring"
    <3>1. polls' = [polls EXCEPT ![p] = to]
      BY <1>12, <2>5 DEF TransferThrew, At, Alerts
    <3> HIDE DEF to
    <3>2. polls'[p] = to /\ \A q \in Poll \ {p} : polls'[q] = polls[q]
      BY <1>t, <3>1 DEF BalanceTypeOK
    <3>3. BalanceTypeOK'
      BY <1>t, <2>1, <2>2, <2>4, <3>1 DEF BalanceTypeOK
    <3> QED BY <1>10, <2>2, <2>5, <3>2, <3>3
  <2>6. CASE polls[p].stage = "applied"
    <3> DEFINE moved == [polls EXCEPT ![p] = to]
               its == {polls[p].of}
    <3>1. /\ polls' = Unsure(moved, its)
          /\ moved \in [Poll -> {NotPolling} \cup Polling \cup Alerting]
          /\ moved[p] = to /\ \A q \in Poll \ {p} : moved[q] = polls[q]
      BY <1>12, <1>t, <2>2, <2>6 DEF TransferThrew, At, Alerts, BalanceTypeOK
    <3> HIDE DEF to, moved, its
    <3>2. /\ polls' \in [Poll -> {NotPolling} \cup Polling \cup Alerting]
          /\ polls'[p] = to
          /\ \A q \in Poll \ {p} :
               /\ polls[q].stage = "loading" /\ polls[q].of \in its =>
                    /\ polls'[q].stage = "loading" /\ polls'[q].sure = "no"
                    /\ polls'[q].asked = polls[q].asked
               /\ ~(polls[q].stage = "loading" /\ polls[q].of \in its) => polls'[q] = polls[q]
      BY <1>8, <2>2, <3>1
    <3>3. BalanceTypeOK'
      BY <1>t, <2>1, <2>2, <2>4, <3>2 DEF BalanceTypeOK
    <3>4. \A q \in Poll : polls'[q].stage = "loading" /\ polls'[q] = polls[q] /\ polls[q].of = polls[p].of
            => polls[q].sure = "no"
      BY <2>2, <3>2 DEF its
    <3> QED BY <2>1, <2>2, <2>6, <3>2, <3>3, <3>4, <1>10
  <2> QED BY <2>1, <2>5, <2>6
<1>13. ASSUME NEW r \in Replica, Restart(r) PROVE BalanceInv'
  <2>1. /\ \A p \in Poll : polls'[p] \in {polls[p], NotPolling}
        /\ \A p \in Poll : polls[p] # NotPolling /\ polls[p].of = r => polls'[p] = NotPolling
        /\ \A p \in Poll : polls[p] = NotPolling \/ polls[p].of # r => polls'[p] = polls[p]
        /\ polls' \in [Poll -> {NotPolling} \cup Polling \cup Alerting]
    BY <1>13, <1>t DEF Restart, BalanceTypeOK
  <2>2. /\ refillInProgress' = [refillInProgress EXCEPT ![r] = FALSE]
        /\ lastRefillAt' = [lastRefillAt EXCEPT ![r] = -Cooldown]
        /\ UNCHANGED <<elapsed, balance, excess>>
    BY <1>13 DEF Restart
  <2>3. unsettled' \in [Poll -> Nat]
    <3>1. \A p \in Poll : At(p, "transferring") => Amount(p) \in Nat
      <4> SUFFICES ASSUME NEW p \in Poll, At(p, "transferring") PROVE Amount(p) \in Nat
        OBVIOUS
      <4>1. polls[p].seen \in Nat /\ polls[p].seen < TargetBalance
        BY <1>t, PollType DEF At, BalanceInv, OneTransfer
      <4> QED BY <4>1 DEF Amount
    <3> QED BY <1>13, <1>t, <3>1 DEF Restart, BalanceTypeOK
  <2>4. BalanceTypeOK'
    <3>1. -Cooldown \in (-Cooldown)..LastPoll
      BY <1>t
    <3> QED BY <1>t, <2>1, <2>2, <2>3, <3>1 DEF BalanceTypeOK
  <2>5. ASSUME NEW p \in Poll, polls'[p].stage \in {"loading", "transferring", "applied"}
        PROVE  /\ polls'[p] = polls[p] /\ polls[p].of # r /\ polls[p].of \in Replica
               /\ refillInProgress'[polls[p].of] = refillInProgress[polls[p].of]
               /\ lastRefillAt'[polls[p].of] = lastRefillAt[polls[p].of]
    <3>1. polls'[p] # NotPolling
      BY <2>5 DEF NotPolling
    <3>2. polls'[p] = polls[p] /\ polls[p].of # r
      BY <2>1, <3>1
    <3>3. polls[p].of \in Replica
      BY <1>t, <2>5, <3>2, PollType
    <3> QED BY <1>t, <2>2, <3>2, <3>3 DEF BalanceTypeOK
  <2>6. \A p, q \in Poll : polls[q].of = polls[p].of /\ polls[p].of # r => polls'[q] = polls[q]
    BY <2>1
  <2>7. elapsed <= elapsed'
    BY <1>t, <2>2 DEF BalanceTypeOK
  <2> QED BY <2>2, <2>4, <2>5, <2>6, <2>7, QuietStep
<1>14. CASE UNCHANGED balanceVars
  <2>1. BalanceTypeOK' /\ elapsed <= elapsed'
    BY <1>14, <1>t DEF balanceVars, BalanceTypeOK
  <2> QED BY <1>14, <2>1, QuietStep DEF balanceVars
<1> QED
  BY <1>1, <1>2, <1>3, <1>4, <1>6, <1>7, <1>9, <1>11, <1>12, <1>13, <1>14 DEF BalanceNext

\* However many replicas and polls see one shortage: past its target the sponsor is
\* given no more than what transfers that threw brought afterwards, and those for
\* balances that another refill may have overtaken.
THEOREM ShortageRefilledOnce == ServicesSpec => []RefilledOnce
<1>1. BalanceInv => RefilledOnce
  BY DEF BalanceInv
<1> QED BY <1>1, BalanceInvInit, BalanceInvNext, Projections, PTL DEF BalanceSpec

---------------------------------------------------------------------------
(* The recovery hook *)

WatchInv == HookTypeOK /\ RecoveryWatched

\* With the timer that pollTimerRef names, stopPolling() stops them all.
LEMMA StopsAll ==
  ASSUME WatchInv
  PROVE  Stopped = [h \in Handle |-> NoTimer]
<1>1. \A h \in Handle : h # pollTimerRef => timers[h] = NoTimer
  BY DEF WatchInv, RecoveryWatched
<1> QED BY <1>1 DEF Stopped

\* stopPolling() with a stage in which nothing is polled.
LEMMA StopKeepsWatch ==
  ASSUME WatchInv, HookTypeOK', StopPolling, ~Polled(recoveryStatus'),
         recoveryStatus' # "initiating"
  PROVE  RecoveryWatched'
<1>1. \A h \in Handle : timers'[h] = NoTimer
  BY StopsAll DEF StopPolling
<1> QED BY <1>1 DEF RecoveryWatched

LEMMA TrackKeepsWatch ==
  ASSUME WatchInv, NEW data \in Datum, Track(data), mounted, UNCHANGED mounted
  PROVE  /\ timers' \in [Handle -> RecoveryId \cup {NoTimer}]
         /\ pollTimerRef' \in Handle \cup {NoTimer}
         /\ recovery' = data /\ recoveryStatus' \in Underway \cup Ended \cup {"executable"}
         /\ RecoveryWatched'
<1>1. data.id \in RecoveryId /\ data.stage \in Underway \cup Ended /\ data # NoRecovery
  BY HookAssumption DEF Datum
<1>2. /\ recovery' = data /\ recoveryStatus' = Derived(data)
      /\ Derived(data) \in Underway \cup Ended \cup {"executable"}
  BY <1>1 DEF Track, Derived
<1>3. Derived(data) # "initiating"
  BY <1>2 DEF Underway, Ended
<1>4. CASE ~Polled(Derived(data))
  <2>1. timers' = [h \in Handle |-> NoTimer] /\ pollTimerRef' = NoTimer
    BY <1>4, StopsAll DEF Track, StopPolling
  <2> QED BY <1>2, <1>3, <1>4, <2>1 DEF RecoveryWatched
<1>5. CASE Polled(Derived(data))
  <2>1. PICK h \in Handle : timers' = [Stopped EXCEPT ![h] = data.id] /\ pollTimerRef' = h
    BY <1>5 DEF Track
  <2>2. /\ timers' \in [Handle -> RecoveryId \cup {NoTimer}]
        /\ timers'[h] = data.id /\ data.id # NoTimer
        /\ \A g \in Handle : g # h => timers'[g] = NoTimer
    BY <1>1, <2>1, StopsAll, HookAssumption
  <2> QED BY <1>1, <1>2, <1>5, <2>1, <2>2 DEF RecoveryWatched
<1> QED BY <1>4, <1>5

LEMMA AskIsHeard ==
  ASSUME HookTypeOK, NEW x \in Request, NEW ask, ask # NotAsking, Ask(x, ask)
  PROVE  requests'[x] # NotAsking
BY DEF Ask, HookTypeOK

LEMMA WatchNext == WatchInv /\ [HookNext]_hookVars => WatchInv'
<1> SUFFICES ASSUME WatchInv, [HookNext]_hookVars PROVE WatchInv'
  OBVIOUS
<1> USE DEF WatchInv
<1>1. ASSUME NEW x \in Request, InitiateRecovery(x) PROVE WatchInv'
  <2>1. HookTypeOK'
    BY <1>1, StopsAll DEF InitiateRecovery, Ask, StopPolling, HookTypeOK, world
  <2>2. requests'[x] # NotAsking
    BY <1>1, AskIsHeard DEF InitiateRecovery, NotAsking
  <2>3. \A h \in Handle : timers'[h] = NoTimer
    BY <1>1, StopsAll DEF InitiateRecovery, StopPolling
  <2> QED BY <2>1, <2>2, <2>3 DEF RecoveryWatched
<1>2. ASSUME NEW x \in Request, ApproveRecovery(x) PROVE WatchInv'
  <2>1. HookTypeOK'
    BY <1>2 DEF ApproveRecovery, Ask, HookTypeOK, world
  <2>2. requests'[x] # NotAsking
    BY <1>2, AskIsHeard DEF ApproveRecovery, NotAsking
  <2> QED BY <1>2, <2>1, <2>2 DEF ApproveRecovery, RecoveryWatched
<1>3. ASSUME NEW x \in Request, CancelRecovery(x) PROVE WatchInv'
  <2>1. recovery \in Datum /\ recovery.id \in RecoveryId
    BY <1>3 DEF CancelRecovery, HookTypeOK, Datum
  <2>2. HookTypeOK'
    BY <1>3, <2>1, StopsAll DEF CancelRecovery, Ask, StopPolling, HookTypeOK, world
  <2>3. requests'[x] # NotAsking
    BY <1>3, AskIsHeard DEF CancelRecovery, NotAsking
  <2>4. \A h \in Handle : timers'[h] = NoTimer
    BY <1>3, StopsAll DEF CancelRecovery, StopPolling
  <2> QED BY <1>3, <2>2, <2>3, <2>4 DEF CancelRecovery, RecoveryWatched
<1>4. ASSUME NEW x \in Request, PollFires(x) PROVE WatchInv'
  <2>1. PICK h \in Handle :
          /\ timers[h] # NoTimer
          /\ Ask(x, [kind |-> "poll", id |-> timers[h]])
          /\ timers' = [timers EXCEPT ![h] = NoTimer]
          /\ UNCHANGED <<pollTimerRef, recovery, recoveryStatus, countdown, mounted, world>>
    BY <1>4 DEF PollFires
  <2>2. timers[h] \in RecoveryId
    BY <2>1 DEF HookTypeOK
  <2>3. HookTypeOK'
    BY <2>1, <2>2 DEF Ask, HookTypeOK, world
  <2>4. requests'[x] # NotAsking
    BY <2>1, AskIsHeard DEF NotAsking
  <2>5. \A g \in Handle : timers'[g] # NoTimer => timers'[g] = timers[g]
    BY <2>1 DEF HookTypeOK
  <2> QED BY <2>1, <2>3, <2>4, <2>5 DEF RecoveryWatched
<1>5. ASSUME NEW x \in Request, Serve(x) PROVE WatchInv'
  <2>1. PICK r \in RecoveryId, stage \in Underway \cup Ended :
          /\ server' = [server EXCEPT ![r] = stage]
          /\ requests' = [requests EXCEPT ![x] =
                            [kind |-> "answer", data |-> [id |-> r, stage |-> stage]]]
    BY <1>5 DEF Serve
  <2>2. UNCHANGED <<timers, pollTimerRef, recovery, recoveryStatus, countdown, mounted, unlocked>>
    BY <1>5 DEF Serve
  <2>3. [id |-> r, stage |-> stage] \in Datum
    BY DEF Datum
  <2>4. HookTypeOK'
    BY <2>1, <2>2, <2>3 DEF HookTypeOK
  <2>5. requests'[x] # NotAsking
    BY <2>1 DEF HookTypeOK, NotAsking
  <2> QED BY <2>2, <2>4, <2>5 DEF RecoveryWatched
<1>6. ASSUME NEW x \in Request, Answered(x) PROVE WatchInv'
  <2>1. requests[x].data \in Datum
    BY <1>6 DEF Answered, HookTypeOK, NotAsking
  <2>2. /\ requests' = [requests EXCEPT ![x] = NotAsking]
        /\ UNCHANGED <<countdown, mounted, server, unlocked>>
    BY <1>6 DEF Answered, world
  <2>3. CASE mounted
    <3>1. Track(requests[x].data)
      BY <1>6, <2>3 DEF Answered
    <3>2. /\ timers' \in [Handle -> RecoveryId \cup {NoTimer}]
          /\ pollTimerRef' \in Handle \cup {NoTimer}
          /\ recovery' \in Datum /\ recoveryStatus' \in Underway \cup Ended \cup {"executable"}
          /\ RecoveryWatched'
      BY <2>1, <2>2, <2>3, <3>1, TrackKeepsWatch
    <3>3. HookTypeOK'
      BY <2>2, <3>2 DEF HookTypeOK
    <3> QED BY <3>2, <3>3
  <2>4. CASE ~mounted
    <3>1. UNCHANGED <<timers, pollTimerRef, recovery, recoveryStatus>>
      BY <1>6, <2>4 DEF Answered
    <3> QED BY <2>2, <2>4, <3>1 DEF HookTypeOK, RecoveryWatched
  <2> QED BY <2>3, <2>4
<1>7. ASSUME NEW x \in Request, Failed(x) PROVE WatchInv'
  <2>1. /\ requests' = [requests EXCEPT ![x] = NotAsking]
        /\ UNCHANGED <<recovery, countdown, mounted, server, unlocked>>
    BY <1>7 DEF Failed, world
  <2>2. CASE mounted
    <3>1. StopPolling /\ recoveryStatus' = "error"
      BY <1>7, <2>2 DEF Failed
    <3>2. HookTypeOK'
      BY <2>1, <3>1, StopsAll DEF StopPolling, HookTypeOK
    <3> QED BY <3>1, <3>2, StopKeepsWatch DEF Polled, Underway
  <2>3. CASE ~mounted
    <3>1. UNCHANGED <<timers, pollTimerRef, recoveryStatus>>
      BY <1>7, <2>3 DEF Failed
    <3> QED BY <2>1, <2>3, <3>1 DEF HookTypeOK, RecoveryWatched
  <2> QED BY <2>2, <2>3
<1>8. ASSUME NEW r \in RecoveryId, ServerMoves(r) \/ TimelockEnds(r) PROVE WatchInv'
  <2>1. UNCHANGED <<requests, timers, pollTimerRef, recovery, recoveryStatus, countdown, mounted>>
    BY <1>8 DEF ServerMoves, TimelockEnds
  <2>2. server' \in [RecoveryId -> Underway \cup Ended \cup {"none"}] /\ unlocked' \subseteq RecoveryId
    BY <1>8 DEF ServerMoves, TimelockEnds, HookTypeOK, Later, Underway, Ended
  <2> QED BY <2>1, <2>2 DEF HookTypeOK, RecoveryWatched
<1>9. CASE Rendered
  BY <1>9 DEF Rendered, HookTypeOK, RecoveryWatched, world
<1>10. CASE CountedDown
  <2>1. HookTypeOK'
    BY <1>10, StopsAll DEF CountedDown, StopPolling, HookTypeOK, world
  <2> QED BY <1>10, <2>1, StopKeepsWatch DEF CountedDown, Polled, Underway
<1>11. CASE Unmounted
  <2>1. timers' = [h \in Handle |-> NoTimer] /\ mounted' = FALSE
    BY <1>11, StopsAll DEF Unmounted
  <2>2. HookTypeOK'
    BY <1>11, <2>1 DEF Unmounted, HookTypeOK, world
  <2> QED BY <2>1, <2>2 DEF RecoveryWatched
<1>12. CASE UNCHANGED hookVars
  BY <1>12 DEF hookVars, HookTypeOK, RecoveryWatched
<1> QED
  BY <1>1, <1>2, <1>3, <1>4, <1>5, <1>6, <1>7, <1>8, <1>9, <1>10, <1>11, <1>12 DEF HookNext

LEMMA RecoveryHookWatches == HookSpec => []RecoveryWatched
<1>1. HookInit => WatchInv
  BY HookAssumption DEF HookInit, WatchInv, HookTypeOK, RecoveryWatched, Polled, Underway
<1>2. WatchInv => RecoveryWatched
  BY DEF WatchInv
<1> QED BY <1>1, <1>2, WatchNext, PTL DEF HookSpec

---------------------------------------------------------------------------
(* The approval hook and the upgrade hook *)

ApprovalInv == ApprovalTypeOK /\ ApprovalWatched

Shapes ==
  {NotFetching} \cup [kind : Asks, id : Item \cup {NoItem}]
  \cup [kind : {"answer"}, to : Asks, id : Item, decision : Decision]

LEMMA TickLaterType ==
  ASSUME ApprovalTypeOK, NEW i \in Item, TickLater(i)
  PROVE  /\ tickers' \in [Timeout -> Item \cup {NoItem}] /\ tickRef' \in Timeout
         /\ tickers'[tickRef'] = i
         /\ \A h \in Timeout : tickers[h] # NoItem => tickers'[h] = tickers[h]
BY DEF TickLater, ApprovalTypeOK

LEMMA StopTickingType ==
  ASSUME ApprovalTypeOK, StopTicking
  PROVE  tickers' \in [Timeout -> Item \cup {NoItem}] /\ tickRef' = NoItem
BY DEF StopTicking, TickersLeft, ApprovalTypeOK

LEMMA SendType ==
  ASSUME ApprovalTypeOK, NEW x \in Fetch, NEW kind \in Asks, NEW i \in Item \cup {NoItem},
         Send(x, kind, i)
  PROVE  /\ fetches' \in [Fetch -> Shapes]
         /\ AskedBy(x)' = kind /\ fetches'[x].id = i
         /\ \A y \in Fetch : y # x => fetches'[y] = fetches[y]
<1>1. fetches \in [Fetch -> Shapes]
  BY DEF ApprovalTypeOK, Shapes
<1>2. [kind |-> kind, id |-> i] \in Shapes
  BY DEF Shapes
<1>3. fetches'[x] = [kind |-> kind, id |-> i]
  BY <1>1 DEF Send
<1> QED BY <1>1, <1>2, <1>3 DEF Send, AskedBy, Asks

LEMMA ReceiveType ==
  ASSUME ApprovalTypeOK, NEW x \in Fetch, Receive(x)
  PROVE  /\ fetches' \in [Fetch -> Shapes]
         /\ \A y \in Fetch : y # x => fetches'[y] = fetches[y]
<1>1. fetches \in [Fetch -> Shapes]
  BY DEF ApprovalTypeOK, Shapes
<1> QED BY <1>1 DEF Receive, Shapes

\* The item of an answer is one the server opened.
LEMMA AnswerType ==
  ASSUME ApprovalTypeOK, NEW x \in Fetch, NEW kind, AnswerTo(x, kind)
  PROVE  /\ fetches[x].id \in Item /\ fetches[x].decision \in Decision
         /\ AskedBy(x) = kind
<1>1. fetches[x] \in Shapes /\ fetches[x].kind = "answer" /\ fetches[x].to = kind
  BY DEF ApprovalTypeOK, Shapes, AnswerTo
<1>2. fetches[x] \in [kind : {"answer"}, to : Asks, id : Item, decision : Decision]
  BY <1>1 DEF Shapes, NotFetching, Asks
<1> QED BY <1>1, <1>2 DEF AskedBy

LEMMA ApprovalStep == ApprovalInv /\ [ApprovalNext]_approvalVars => ApprovalInv'
<1> SUFFICES ASSUME ApprovalInv, [ApprovalNext]_approvalVars PROVE ApprovalInv'
  OBVIOUS
<1> USE DEF ApprovalInv
<1>t. fetches' \in [Fetch -> Shapes] => fetches' \in [Fetch ->
       {NotFetching} \cup [kind : Asks, id : Item \cup {NoItem}]
       \cup [kind : {"answer"}, to : Asks, id : Item, decision : Decision]]
  BY DEF Shapes
<1>w. DOMAIN WaitsFor = {"creating", "proposing", "merging", "approving", "executing"}
  BY DEF WaitsFor
<1>1. ASSUME NEW x \in Fetch, CreateSession(x) \/ ProposeUpgrade(x) PROVE ApprovalInv'
  <2>1. Send(x, "create", NoItem) /\ StopTicking
    BY <1>1 DEF CreateSession, ProposeUpgrade
  <2>2. fetches' \in [Fetch -> Shapes] /\ AskedBy(x)' = "create"
    BY <2>1, SendType DEF Asks
  <2>3. approval' \in {"creating", "proposing"} /\ WaitsFor[approval'] = "create"
    BY <1>1 DEF CreateSession, ProposeUpgrade, Show, WaitsFor
  <2>4. ApprovalTypeOK'
    BY <1>1, <2>1, <2>2, <2>3, <1>t, <1>w, StopTickingType
       DEF CreateSession, ProposeUpgrade, Show, ApprovalTypeOK
  <2> QED BY <2>2, <2>3, <2>4 DEF ApprovalWatched
<1>2. ASSUME NEW x \in Fetch,
             ActOnUpgrade(x, "approve", "approving") \/ ActOnUpgrade(x, "execute", "executing")
      PROVE ApprovalInv'
  <2>1. PICK kind \in {"approve", "execute"} :
          /\ Send(x, kind, shown) /\ approval' \in {"approving", "executing"}
          /\ WaitsFor[approval'] = kind
    BY <1>2 DEF ActOnUpgrade, WaitsFor
  <2>2. fetches' \in [Fetch -> Shapes] /\ AskedBy(x)' = kind
    BY <2>1, SendType DEF Asks, ApprovalTypeOK
  <2>3. ApprovalTypeOK'
    BY <1>2, <2>1, <2>2, <1>t, <1>w DEF ActOnUpgrade, ApprovalTypeOK
  <2> QED BY <2>1, <2>2, <2>3 DEF ApprovalWatched
<1>3. ASSUME CancelSession \/ CancelUpgrade \/ ResetSession PROVE ApprovalInv'
  <2>1. ApprovalTypeOK'
    BY <1>3, StopTickingType
       DEF CancelSession, CancelUpgrade, ResetSession, Show, ApprovalTypeOK
  <2>2. approval' \in {"idle", "cancelled"}
    BY <1>3 DEF CancelSession, CancelUpgrade, ResetSession, Show
  <2> QED BY <2>1, <2>2, <1>w DEF ApprovalWatched
<1>4. ASSUME Detach PROVE ApprovalInv'
  BY <1>4 DEF Detach, TickersLeft, ApprovalTypeOK, ApprovalWatched
<1>5. ASSUME NEW h \in Timeout, NEW x \in Fetch, Tick(h, x) PROVE ApprovalInv'
  <2>1. tickers[h] \in Item /\ tickers' = [tickers EXCEPT ![h] = NoItem]
    BY <1>5 DEF Tick, ApprovalTypeOK
  <2>2. CASE ~attached
    BY <1>5, <2>1, <2>2 DEF Tick, ApprovalTypeOK, ApprovalWatched
  <2>3. CASE attached
    <3>1. fetches[x] = NotFetching /\ Send(x, "poll", tickers[h])
      BY <1>5, <2>3 DEF Tick
    <3>2. /\ fetches' \in [Fetch -> Shapes]
          /\ AskedBy(x)' = "poll" /\ fetches'[x].id = tickers[h]
          /\ \A y \in Fetch : y # x => fetches'[y] = fetches[y]
      BY <2>1, <3>1, SendType DEF Asks
    <3>3. ApprovalTypeOK'
      BY <1>5, <2>1, <3>2, <1>t DEF Tick, ApprovalTypeOK
    <3>4. \A y \in Fetch : AskedBy(y) # "none" => y # x
      BY <3>1 DEF AskedBy, NotFetching
    <3>5. UNCHANGED <<approval, shown, attached>>
      BY <1>5 DEF Tick
    <3>6. ASSUME approval \in DOMAIN WaitsFor
          PROVE  \E y \in Fetch : AskedBy(y)' = WaitsFor[approval]
      BY <2>3, <3>2, <3>4, <3>6 DEF ApprovalWatched, AskedBy, WaitsFor
    <3>7. ASSUME approval \in {"pending", "proposed"}
          PROVE  /\ shown # NoItem
                 /\ \/ \E g \in Timeout : tickers'[g] = shown
                    \/ \E y \in Fetch : AskedBy(y)' = "poll" /\ fetches'[y].id = shown
      <4>1. shown # NoItem
        BY <2>3, <3>7 DEF ApprovalWatched
      <4>2. CASE tickers[h] = shown
        BY <4>1, <4>2, <3>2
      <4>3. CASE \E g \in Timeout \ {h} : tickers[g] = shown
        BY <4>1, <4>3, <2>1 DEF ApprovalTypeOK
      <4>4. CASE \E y \in Fetch : AskedBy(y) = "poll" /\ fetches[y].id = shown
        BY <4>1, <4>4, <3>2, <3>4 DEF AskedBy
      <4> QED BY <4>1, <4>2, <4>3, <4>4, <2>3, <3>7 DEF ApprovalWatched
    <3> QED BY <3>3, <3>5, <3>6, <3>7 DEF ApprovalWatched
  <2> QED BY <2>2, <2>3
<1>6. ASSUME NEW x \in Fetch, NEW i \in Item, ServerAnswers(x, i) PROVE ApprovalInv'
  <2>1. /\ remote' \in [Item -> Decision]
        /\ fetches' = [fetches EXCEPT ![x] =
             [kind |-> "answer", to |-> fetches[x].kind, id |-> i, decision |-> remote'[i]]]
    BY <1>6 DEF ServerAnswers, ApprovalTypeOK, Decision
  <2>2. ApprovalTypeOK'
    BY <1>6, <2>1 DEF ServerAnswers, ApprovalTypeOK
  <2>3. /\ AskedBy(x)' = AskedBy(x)
        /\ AskedBy(x) = "poll" => fetches'[x].id = fetches[x].id
    BY <1>6, <2>1 DEF ServerAnswers, AskedBy, Asks, ApprovalTypeOK
  <2>4. \A y \in Fetch : y # x => fetches'[y] = fetches[y]
    BY <2>1 DEF ApprovalTypeOK
  <2>5. \A y \in Fetch :
          AskedBy(y)' = AskedBy(y) /\ (AskedBy(y) = "poll" => fetches'[y].id = fetches[y].id)
    BY <2>3, <2>4 DEF AskedBy
  <2>6. UNCHANGED <<approval, shown, attached, tickers>>
    BY <1>6 DEF ServerAnswers
  <2> QED BY <2>2, <2>5, <2>6 DEF ApprovalWatched
<1>7. ASSUME NEW i \in Item, ServerDecides(i) PROVE ApprovalInv'
  <2>1. ApprovalTypeOK'
    BY <1>7 DEF ServerDecides, ApprovalTypeOK, Decision
  <2> QED BY <1>7, <2>1 DEF ServerDecides, ApprovalWatched, AskedBy
<1>8. ASSUME NEW x \in Fetch, Created(x) PROVE ApprovalInv'
  <2>1. fetches[x].id \in Item
    BY <1>8, AnswerType DEF Created
  <2>2. /\ TickLater(fetches[x].id) /\ shown' = fetches[x].id
        /\ approval' \in {"pending", "proposed"}
    BY <1>8 DEF Created, Show
  <2>3. /\ tickers' \in [Timeout -> Item \cup {NoItem}] /\ tickRef' \in Timeout
        /\ tickers'[tickRef'] = shown'
    BY <2>1, <2>2, TickLaterType
  <2>4. ApprovalTypeOK'
    BY <1>8, <1>t, <2>1, <2>2, <2>3, ReceiveType DEF Created, AnswerTo, ApprovalTypeOK
  <2>5. shown' # NoItem
    BY <2>1, <2>2, ApprovalAssumption
  <2> QED BY <2>2, <2>3, <2>4, <2>5, <1>w DEF ApprovalWatched
<1>9. ASSUME NEW x \in Fetch, SessionPolled(x) PROVE ApprovalInv'
  <2>1. /\ fetches[x].id \in Item /\ AskedBy(x) = "poll" /\ attached
        /\ UNCHANGED <<upgrade, attached, captured, remote, shown, merged>>
    BY <1>9, AnswerType DEF SessionPolled, AnswerTo
  <2>2. CASE StopTicking /\ approval' = "merging" /\ Send(x, "merge", fetches[x].id)
    <3>1. fetches' \in [Fetch -> Shapes] /\ AskedBy(x)' = "merge"
      BY <2>1, <2>2, SendType DEF Asks
    <3>2. ApprovalTypeOK'
      BY <2>1, <2>2, <3>1, <1>t, <1>w, StopTickingType DEF ApprovalTypeOK
    <3>3. WaitsFor[approval'] = "merge"
      BY <2>2 DEF WaitsFor
    <3> QED BY <2>2, <3>1, <3>2, <3>3 DEF ApprovalWatched
  <2>3. CASE StopTicking /\ approval' \in {"rejected", "expired"} /\ Receive(x)
    <3>1. ApprovalTypeOK'
      BY <2>1, <2>3, <1>t, StopTickingType, ReceiveType DEF ApprovalTypeOK, Decided
    <3> QED BY <2>3, <3>1, <1>w DEF ApprovalWatched
  <2>4. CASE TickLater(fetches[x].id) /\ Receive(x) /\ UNCHANGED approval
    <3>1. /\ tickers' \in [Timeout -> Item \cup {NoItem}] /\ tickRef' \in Timeout
          /\ tickers'[tickRef'] = fetches[x].id
          /\ \A h \in Timeout : tickers[h] # NoItem => tickers'[h] = tickers[h]
      BY <2>1, <2>4, TickLaterType
    <3>2. /\ fetches' \in [Fetch -> Shapes]
          /\ \A y \in Fetch : y # x => fetches'[y] = fetches[y]
      BY <2>4, ReceiveType
    <3>3. ApprovalTypeOK'
      BY <2>1, <2>4, <3>1, <3>2, <1>t DEF ApprovalTypeOK
    <3>4. ASSUME approval \in DOMAIN WaitsFor
          PROVE  \E y \in Fetch : AskedBy(y)' = WaitsFor[approval]
      <4>1. PICK y \in Fetch : AskedBy(y) = WaitsFor[approval]
        BY <2>1, <3>4 DEF ApprovalWatched
      <4>2. y # x
        BY <2>1, <3>4, <4>1, <1>w DEF WaitsFor
      <4> QED BY <3>2, <4>1, <4>2 DEF AskedBy
    <3>5. ASSUME approval \in {"pending", "proposed"}
          PROVE  /\ shown # NoItem
                 /\ \/ \E h \in Timeout : tickers'[h] = shown
                    \/ \E y \in Fetch : AskedBy(y)' = "poll" /\ fetches'[y].id = shown
      <4>1. shown # NoItem
        BY <2>1, <3>5 DEF ApprovalWatched
      <4>2. CASE fetches[x].id = shown
        BY <3>1, <4>1, <4>2
      <4>3. CASE \E h \in Timeout : tickers[h] = shown
        BY <3>1, <4>1, <4>3
      <4>4. CASE \E y \in Fetch \ {x} : AskedBy(y) = "poll" /\ fetches[y].id = shown
        BY <3>2, <4>1, <4>4 DEF AskedBy
      <4> QED BY <2>1, <3>5, <4>1, <4>2, <4>3, <4>4 DEF ApprovalWatched
    <3> QED BY <2>1, <2>4, <3>3, <3>4, <3>5 DEF ApprovalWatched
  <2> QED BY <1>9, <2>2, <2>3, <2>4 DEF SessionPolled
<1>10. ASSUME NEW x \in Fetch, UpgradePolled(x) PROVE ApprovalInv'
  <2>1. fetches[x].id \in Item /\ AskedBy(x) = "poll" /\ attached
    BY <1>10, AnswerType DEF UpgradePolled, AnswerTo
  <2>2. /\ tickers' \in [Timeout -> Item \cup {NoItem}] /\ tickRef' \in Timeout
        /\ tickers'[tickRef'] = shown' /\ shown' = fetches[x].id
    BY <1>10, <2>1, TickLaterType DEF UpgradePolled, Show
  <2>3. /\ fetches' \in [Fetch -> Shapes]
        /\ \A y \in Fetch : y # x => fetches'[y] = fetches[y]
    BY <1>10, ReceiveType DEF UpgradePolled
  <2>4. ApprovalTypeOK' /\ approval' \in {approval, "approved"}
    BY <1>10, <2>1, <2>2, <2>3, <1>t DEF UpgradePolled, AnswerTo, Show, ApprovalTypeOK, Decided
  <2>5. ASSUME approval \in DOMAIN WaitsFor
        PROVE  \E y \in Fetch : AskedBy(y)' = WaitsFor[approval]
    <3>1. PICK y \in Fetch : AskedBy(y) = WaitsFor[approval]
      BY <2>1, <2>5 DEF ApprovalWatched
    <3>2. y # x
      BY <2>1, <2>5, <3>1, <1>w DEF WaitsFor
    <3> QED BY <2>3, <3>1, <3>2 DEF AskedBy
  <2>6. shown' # NoItem
    BY <2>1, <2>2, ApprovalAssumption
  <2> QED BY <2>2, <2>4, <2>5, <2>6, <1>w DEF ApprovalWatched
<1>11. ASSUME NEW x \in Fetch, Merged(x) \/ UpgradeApproved(x) \/ UpgradeExecuted(x)
       PROVE ApprovalInv'
  <2>1. fetches[x].id \in Item /\ Receive(x)
    BY <1>11, AnswerType DEF Merged, UpgradeApproved, UpgradeExecuted
  <2>2. approval' \in {"merged", "approved", "executed"}
    BY <1>11 DEF Merged, UpgradeApproved, UpgradeExecuted, Show
  <2>3. ApprovalTypeOK'
    BY <1>11, <1>t, <2>1, <2>2, ReceiveType, StopTickingType
       DEF Merged, UpgradeApproved, UpgradeExecuted, AnswerTo, Show, ApprovalTypeOK, Decided
  <2> QED BY <2>2, <2>3, <1>w DEF ApprovalWatched
<1>12. ASSUME NEW x \in Fetch, FetchFails(x) \/ Late(x) PROVE ApprovalInv'
  <2>1. ApprovalTypeOK'
    BY <1>12, <1>t, ReceiveType, StopTickingType DEF FetchFails, Late, ApprovalTypeOK
  <2>2. ~attached' \/ approval' = "error"
    BY <1>12 DEF FetchFails, Late
  <2> QED BY <2>1, <2>2, <1>w DEF ApprovalWatched
<1>13. CASE UNCHANGED approvalVars
  BY <1>13 DEF approvalVars, ApprovalTypeOK, ApprovalWatched, AskedBy
<1> QED
  BY <1>1, <1>2, <1>3, <1>4, <1>5, <1>6, <1>7, <1>8, <1>9, <1>10, <1>11, <1>12, <1>13
     DEF ApprovalNext

\* Whatever calls of the hooks overlap, fail or answer late, for any number of them: of a
\* recovery that goes on, and of a session or a proposal that is open, news will come.
THEOREM HookWatches == ServicesSpec => []HooksWatch
<1>1. ApprovalInit => ApprovalInv
  BY DEF ApprovalInit, ApprovalInv, ApprovalTypeOK, ApprovalWatched, WaitsFor, Decision
<1>2. ApprovalInv => ApprovalWatched
  BY DEF ApprovalInv
<1>3. ApprovalSpec => []ApprovalWatched
  BY <1>1, <1>2, ApprovalStep, PTL DEF ApprovalSpec
<1> QED BY <1>3, RecoveryHookWatches, Projections, PTL DEF HooksWatch

=============================================================================
