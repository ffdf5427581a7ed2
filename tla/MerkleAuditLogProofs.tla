------------------------- MODULE MerkleAuditLogProofs -------------------------
(***************************************************************************)
(* The audit log for any number of replicas, decisions and attempts.       *)
(*                                                                         *)
(* Equal hashes must mean equal logs: the invariant says that the chain    *)
(* holds, in closed form, the decisions before each record (Chained), and  *)
(* that every replica's records are a prefix of the list (Prefixes).  Then *)
(* the script's comparison succeeds only when the replica has the list.    *)
(*                                                                         *)
(* The order of a replica's decisions follows from that of its queue       *)
(* (OrderInv); that a root names one list, level by level of the tree:     *)
(* lists that differ have levels that differ (RootsDiffer).                *)
(***************************************************************************)
EXTENDS MerkleAuditLog, FoldTheorems, SequenceTheorems, TLAPS

\* The decisions of the first n records.
Prefix(rs, n) == [j \in 1..n |-> rs[j].data]

Chained(rs) == \A i \in 1..Len(rs) : rs[i].prevHash = Prefix(rs, i - 1)

Prefixes ==
  \A r \in Replica :
    /\ Len(records[r]) <= Len(stored)
    /\ \A i \in 1..Len(records[r]) : records[r][i] = stored[i]

\* A replica that won has its record right after the ones it knows.
WonNext ==
  \A r \in Replica :
    pc[r] = "won" => /\ Len(records[r]) < Len(stored)
                     /\ stored[Len(records[r]) + 1].data = Head(queue[r])

\* Logged and queued decisions were called; no decision is queued twice, and one
\* that is queued is not logged, but for the head of a replica that won.
CalledOnce ==
  /\ \A m \in 1..Len(stored) : \E i \in 1..Len(called) : called[i].data = stored[m].data
  /\ \A r \in Replica : \A k \in 1..Len(queue[r]) :
       \E i \in 1..Len(called) : called[i].data = queue[r][k]

QueuedOnce ==
  \A r, q \in Replica : \A k \in 1..Len(queue[r]), l \in 1..Len(queue[q]) :
    queue[r][k] = queue[q][l] => r = q /\ k = l

QueuedUnlogged ==
  \A r \in Replica : \A k \in 1..Len(queue[r]), m \in 1..Len(stored) :
    k > 1 \/ pc[r] # "won" => stored[m].data # queue[r][k]

Inv ==
  /\ AuditTypeOK
  /\ Chained(stored) /\ Prefixes /\ WonNext
  /\ CalledOnce /\ QueuedOnce /\ QueuedUnlogged

---------------------------------------------------------------------------
(* The hash chain *)

LEMMA HashIsPrefix ==
  ASSUME NEW rs \in Seq(Record), Chained(rs), NEW n \in 1..Len(rs)
  PROVE  hashRecord(rs[n]) = Prefix(rs, n) /\ Len(hashRecord(rs[n])) = n
<1>1. n \in Nat \ {0} /\ rs[n] \in Record
  OBVIOUS
<1>2. rs[n].prevHash = Prefix(rs, n - 1) /\ rs[n].data \in Decision
  BY <1>1 DEF Chained, Record
<1>3. \A i \in 1..n : rs[i].data \in Decision
  <2>1. \A i \in 1..n : rs[i] \in Record
    BY ElementOfSeq
  <2> QED BY <2>1 DEF Record
<1>4. Prefix(rs, n - 1) \in Seq(Decision) /\ Len(Prefix(rs, n - 1)) = n - 1
  BY <1>1, <1>3 DEF Prefix
<1>5. Append(Prefix(rs, n - 1), rs[n].data) = Prefix(rs, n)
  BY <1>1, <1>2, <1>3, <1>4 DEF Prefix
<1>6. Len(Prefix(rs, n)) = n
  <2>1. Prefix(rs, n) \in Seq(Decision)
    BY <1>1, <1>3 DEF Prefix
  <2> QED BY <1>1, <2>1 DEF Prefix
<1> QED BY <1>2, <1>5, <1>6 DEF hashRecord

LEMMA LastHashIsPrefix ==
  ASSUME NEW rs \in Seq(Record), Chained(rs)
  PROVE  LastHash(rs) = Prefix(rs, Len(rs))
<1>1. CASE rs = << >>
  BY <1>1 DEF LastHash, Prefix, NoHash
<1>2. CASE rs # << >>
  <2>1. Len(rs) \in 1..Len(rs)
    BY <1>2, EmptySeq
  <2> QED BY <1>2, <2>1, HashIsPrefix DEF LastHash
<1> QED BY <1>1, <1>2

LEMMA ChainedVerifies ==
  ASSUME NEW rs \in Seq(Record), Chained(rs)
  PROVE  Verify(rs)
<1> SUFFICES ASSUME NEW i \in 1..Len(rs)
             PROVE  rs[i].prevHash = LastHash(SubSeq(rs, 1, i - 1))
  BY DEF Verify
<1> DEFINE ps == SubSeq(rs, 1, i - 1)
<1>1. ps \in Seq(Record) /\ Len(ps) = i - 1 /\ \A j \in 1..(i - 1) : ps[j] = rs[j]
  OBVIOUS
<1>2. \A n \in 0..(i - 1) : Prefix(ps, n) = Prefix(rs, n)
  BY <1>1 DEF Prefix
<1>3. Chained(ps)
  BY <1>1, <1>2 DEF Chained
<1>4. LastHash(ps) = Prefix(ps, i - 1)
  BY <1>1, <1>3, LastHashIsPrefix
<1> QED BY <1>2, <1>4 DEF Chained

\* A replica whose last hash is the list's has the list.
LEMMA SameHashSameRecords ==
  ASSUME AuditTypeOK, Chained(stored), Prefixes, NEW r \in Replica
  PROVE  /\ Chained(records[r])
         /\ LastHash(records[r]) = Prefix(stored, Len(records[r]))
         /\ LastHash(stored) = Prefix(stored, Len(stored))
         /\ LastHash(stored) = LastHash(records[r]) => Len(records[r]) = Len(stored)
<1>1. records[r] \in Seq(Record) /\ stored \in Seq(Record)
  BY DEF AuditTypeOK
<1>2. /\ Len(records[r]) \in Nat /\ Len(stored) \in Nat
      /\ Len(records[r]) <= Len(stored)
      /\ \A i \in 1..Len(records[r]) : records[r][i] = stored[i]
  BY <1>1 DEF Prefixes
<1>3. \A n \in 0..Len(records[r]) : Prefix(records[r], n) = Prefix(stored, n)
  BY <1>2 DEF Prefix
<1>4. Chained(records[r])
  <2> SUFFICES ASSUME NEW i \in 1..Len(records[r])
               PROVE  records[r][i].prevHash = Prefix(records[r], i - 1)
    BY DEF Chained
  <2>1. i \in 1..Len(stored) /\ i - 1 \in 0..Len(records[r]) /\ records[r][i] = stored[i]
    BY <1>2
  <2>2. stored[i].prevHash = Prefix(stored, i - 1)
    BY <2>1 DEF Chained
  <2> QED BY <1>3, <2>1, <2>2
<1>5. LastHash(records[r]) = Prefix(stored, Len(records[r]))
  BY <1>1, <1>2, <1>3, <1>4, LastHashIsPrefix
<1>6. LastHash(stored) = Prefix(stored, Len(stored))
  BY <1>1, LastHashIsPrefix
<1>7. ASSUME Prefix(stored, Len(stored)) = Prefix(stored, Len(records[r]))
      PROVE  Len(records[r]) = Len(stored)
  <2>1. 1..Len(stored) = 1..Len(records[r])
    BY <1>7 DEF Prefix
  <2> QED BY <2>1, <1>2
<1> QED BY <1>4, <1>5, <1>6, <1>7

---------------------------------------------------------------------------
(* Types *)

LEMMA NewRecord ==
  ASSUME AuditTypeOK, Chained(stored), Prefixes, NEW r \in Replica, Pending(r)
  PROVE  /\ NextCall(r) = queue[r][1] /\ NextCall(r) \in Decision
         /\ LastHash(records[r]) \in Hash
         /\ [prevHash |-> LastHash(records[r]), data |-> NextCall(r)] \in Record
<1>1. queue[r] \in Seq(Decision) /\ Len(queue[r]) \in Nat \ {0}
  BY EmptySeq DEF AuditTypeOK, Pending
<1>2. NextCall(r) = queue[r][1] /\ queue[r][1] \in Decision
  BY <1>1 DEF NextCall
<1>3. LastHash(records[r]) = Prefix(stored, Len(records[r]))
  BY SameHashSameRecords
<1>4. stored \in Seq(Record) /\ Len(records[r]) \in Nat /\ Len(records[r]) <= Len(stored)
  BY DEF AuditTypeOK, Prefixes
<1>5. \A i \in 1..Len(stored) : stored[i].data \in Decision
  <2>1. \A i \in 1..Len(stored) : stored[i] \in Record
    BY <1>4, ElementOfSeq
  <2> QED BY <2>1 DEF Record
<1>6. Prefix(stored, Len(records[r])) \in Seq(Decision)
  BY <1>4, <1>5 DEF Prefix
<1> QED BY <1>2, <1>3, <1>6 DEF Record, Hash

\* What is left of a queue once its head is answered.
LEMMA AnsweredQueue ==
  ASSUME AuditTypeOK, NEW r \in Replica, Pending(r)
  PROVE  /\ Tail(queue[r]) \in Seq(Decision)
         /\ Len(Tail(queue[r])) = Len(queue[r]) - 1
         /\ \A k \in 1..Len(Tail(queue[r])) : Tail(queue[r])[k] = queue[r][k + 1]
<1>1. queue[r] \in Seq(Decision) /\ queue[r] # << >>
  BY DEF AuditTypeOK, Pending
<1> QED BY <1>1, HeadTailProperties

LEMMA TypeStep ==
  ASSUME AuditTypeOK, Chained(stored), Prefixes, [Next]_vars
  PROVE  AuditTypeOK'
<1> USE DEF AuditTypeOK, redisVars, replicaVars, history, Running
<1>1. ASSUME NEW r \in Replica, Load(r) PROVE AuditTypeOK'
  BY <1>1 DEF Load
<1>2. ASSUME NEW r \in Replica, LoadFails(r) PROVE AuditTypeOK'
  BY <1>2 DEF LoadFails, Goto
<1>3. ASSUME NEW r \in Replica, Crash(r) PROVE AuditTypeOK'
  BY <1>3, AuditAssumption DEF Crash
<1>4. ASSUME NEW r \in Replica, Start(r) PROVE AuditTypeOK'
  BY <1>4 DEF Start, Goto
<1>5. ASSUME NEW r \in Replica, NEW d \in Decision, AppendCall(r, d) PROVE AuditTypeOK'
  <2>1. [replica |-> r, data |-> d] \in Call
    BY DEF Call
  <2>2. called' \in Seq(Call)
    BY <2>1, <1>5 DEF AppendCall
  <2>3. queue' = [queue EXCEPT ![r] = Append(queue[r], d)]
    BY <1>5 DEF AppendCall
  <2>4. Append(queue[r], d) \in Seq(Decision) /\ Append(queue[r], d) # << >>
    <3>1. queue[r] \in Seq(Decision)
      OBVIOUS
    <3> HIDE DEF AuditTypeOK
    <3>2. \A s \in Seq(Decision) : Append(s, d) \in Seq(Decision) /\ Append(s, d) # << >>
      BY AppendProperties
    <3> QED BY <3>1, <3>2
  <2>5. queue' \in [Replica -> Seq(Decision)]
    BY <2>3, <2>4
  <2>6. \A q \in Replica : pc'[q] \in {"won", "lost"} => queue'[q] # << >>
    BY <2>3, <2>4, <1>5 DEF AppendCall
  <2> QED BY <2>2, <2>5, <2>6, <1>5 DEF AppendCall
<1>6. ASSUME NEW r \in Replica, RejectBroken(r) PROVE AuditTypeOK'
  BY <1>6, AnsweredQueue DEF RejectBroken
<1>7. ASSUME NEW r \in Replica, CompareAndPush(r) PROVE AuditTypeOK'
  <2> DEFINE record == [prevHash |-> LastHash(records[r]), data |-> NextCall(r)]
  <2>1. record \in Record
    BY <1>7, NewRecord DEF CompareAndPush
  <2>2. stored' = stored \/ stored' = Append(stored, record)
    BY <1>7 DEF CompareAndPush
  <2>3. stored' \in Seq(Record)
    <3>1. stored \in Seq(Record)
      OBVIOUS
    <3> HIDE DEF record, AuditTypeOK
    <3>2. \A x \in Record : Append(stored, x) \in Seq(Record)
      BY <3>1, AppendProperties
    <3> QED BY <2>1, <2>2, <3>1, <3>2
  <2>4. began' \in [Replica -> Nat]
    BY <1>7 DEF CompareAndPush
  <2>5. pc' \in [Replica -> {"down", "loading", "broken"} \cup Running]
    BY <1>7 DEF CompareAndPush
  <2>6. \A q \in Replica : pc'[q] \in {"won", "lost"} => queue'[q] # << >>
    BY <1>7 DEF CompareAndPush, Pending
  <2>7. \A q \in Replica : pc'[q] \notin Running => attempt'[q] = 0 /\ records'[q] = << >>
    BY <1>7 DEF CompareAndPush
  <2> QED BY <1>7, <2>3, <2>4, <2>5, <2>6, <2>7 DEF CompareAndPush
<1>8. ASSUME NEW r \in Replica, Resolve(r) PROVE AuditTypeOK'
  <2> DEFINE record == [prevHash |-> LastHash(records[r]), data |-> NextCall(r)]
  <2>1. Pending(r)
    BY <1>8 DEF Resolve, Pending
  <2>2. record \in Record /\ NextCall(r) \in Decision
    BY <2>1, NewRecord
  <2>3. records' = [records EXCEPT ![r] = Append(records[r], record)]
    BY <1>8 DEF Resolve
  <2>4. records' \in [Replica -> Seq(Record)] /\ acked' \subseteq Decision
    BY <2>2, <2>3, <1>8 DEF Resolve
  <2>5. queue' \in [Replica -> Seq(Decision)]
    <3>1. queue' = [queue EXCEPT ![r] = Tail(queue[r])]
      BY <1>8 DEF Resolve, Answer
    <3>2. Tail(queue[r]) \in Seq(Decision)
      BY <2>1, AnsweredQueue
    <3> QED BY <3>1, <3>2 DEF AuditTypeOK
  <2> QED BY <2>1, <2>3, <2>4, <2>5, <1>8, AuditAssumption DEF Resolve, Answer
<1>9. ASSUME NEW r \in Replica, Reload(r) PROVE AuditTypeOK'
  <2>1. Pending(r)
    BY <1>9 DEF Reload, Pending
  <2>2. /\ records' \in [Replica -> Seq(Record)]
        /\ pc' = [pc EXCEPT ![r] = "ready"]
        /\ \A q \in Replica : q # r => records'[q] = records[q]
    BY <1>9 DEF Reload, Answer
  <2>3. /\ attempt' \in [Replica -> 0..(MaxAttempts - 1)]
        /\ \A q \in Replica : q # r => attempt'[q] = attempt[q]
    <3>1. /\ attempt \in [Replica -> 0..(MaxAttempts - 1)]
          /\ 0 \in 0..(MaxAttempts - 1)
          /\ ~GivesUp(r) => attempt[r] + 1 \in 0..(MaxAttempts - 1)
      <4>1. MaxAttempts \in Nat /\ MaxAttempts # 0
        BY AuditAssumption
      <4>2. attempt \in [Replica -> 0..(MaxAttempts - 1)] /\ attempt[r] \in 0..(MaxAttempts - 1)
        OBVIOUS
      <4>3. ~GivesUp(r) => attempt[r] + 1 # MaxAttempts
        BY DEF GivesUp
      <4> HIDE DEF AuditTypeOK
      <4> QED BY <4>1, <4>2, <4>3
    <3>2. \/ ~GivesUp(r) /\ attempt' = [attempt EXCEPT ![r] = attempt[r] + 1]
          \/ attempt' = [attempt EXCEPT ![r] = 0]
      BY <1>9 DEF Reload, Answer
    <3> HIDE DEF AuditTypeOK
    <3> QED BY <3>1, <3>2
  <2>4. /\ queue' \in [Replica -> Seq(Decision)]
        /\ \A q \in Replica : q # r => queue'[q] = queue[q]
    BY <1>9, <2>1, AnsweredQueue DEF Reload, Answer
  <2>5. \A q \in Replica : pc'[q] \in {"won", "lost"} => queue'[q] # << >>
    BY <2>2, <2>4
  <2>6. \A q \in Replica : pc'[q] \notin Running => attempt'[q] = 0 /\ records'[q] = << >>
    BY <2>2, <2>3
  <2> QED BY <1>9, <2>2, <2>3, <2>4, <2>5, <2>6 DEF Reload
<1>10. ASSUME NEW r \in Replica, RedisFails(r) PROVE AuditTypeOK'
  BY <1>10, AnsweredQueue, AuditAssumption DEF RedisFails, Answer
<1>11. ASSUME NEW r \in Replica, Publish(r) PROVE AuditTypeOK'
  BY <1>11 DEF Publish
<1>12. CASE UNCHANGED vars
  BY <1>12 DEF vars
<1> QED BY <1>1, <1>2, <1>3, <1>4, <1>5, <1>6, <1>7, <1>8, <1>9, <1>10, <1>11, <1>12 DEF Next, Progress

---------------------------------------------------------------------------
(* The list, the records and the winners *)

\* What CompareAndPush does to the list.
LEMMA Pushed ==
  ASSUME Inv, NEW r \in Replica, CompareAndPush(r)
  PROVE  \/ UNCHANGED stored /\ pc' = [pc EXCEPT ![r] = "lost"]
         \/ /\ Len(records[r]) = Len(stored)
            /\ Len(stored') = Len(stored) + 1
            /\ \A i \in 1..Len(stored) : stored'[i] = stored[i]
            /\ stored'[Len(stored) + 1] =
                 [prevHash |-> Prefix(stored, Len(stored)), data |-> Head(queue[r])]
            /\ pc' = [pc EXCEPT ![r] = "won"]
<1> DEFINE record == [prevHash |-> LastHash(records[r]), data |-> NextCall(r)]
<1>1. record \in Record
  BY NewRecord DEF Inv, CompareAndPush
<1>2. CASE LastHash(stored) # LastHash(records[r])
  BY <1>2 DEF CompareAndPush
<1>3. CASE LastHash(stored) = LastHash(records[r])
  <2>1. Len(records[r]) = Len(stored) /\ LastHash(records[r]) = Prefix(stored, Len(stored))
    BY <1>3, SameHashSameRecords DEF Inv
  <2>2. stored' = Append(stored, record) /\ pc' = [pc EXCEPT ![r] = "won"]
    BY <1>3 DEF CompareAndPush
  <2>3. stored \in Seq(Record)
    BY DEF Inv, AuditTypeOK
  <2>4. /\ Len(stored') = Len(stored) + 1
        /\ \A i \in 1..Len(stored) : stored'[i] = stored[i]
        /\ stored'[Len(stored) + 1] = record
    <3> HIDE DEF record
    <3> QED BY <1>1, <2>2, <2>3, AppendProperties
  <2> QED BY <2>1, <2>2, <2>4 DEF NextCall
<1> QED BY <1>2, <1>3

\* What Resolve does to the replica's records: it takes over one more of the list.
LEMMA Resolved ==
  ASSUME Inv, NEW r \in Replica, Resolve(r)
  PROVE  /\ Len(records[r]) + 1 <= Len(stored)
         /\ Len(records'[r]) = Len(records[r]) + 1
         /\ \A i \in 1..Len(records'[r]) : records'[r][i] = stored[i]
         /\ \A q \in Replica : q # r => records'[q] = records[q]
         /\ stored[Len(records[r]) + 1].data = Head(queue[r])
<1> DEFINE n == Len(records[r])
<1> DEFINE record == [prevHash |-> LastHash(records[r]), data |-> NextCall(r)]
<1>1. /\ stored \in Seq(Record) /\ records \in [Replica -> Seq(Record)] /\ records[r] \in Seq(Record)
      /\ n \in Nat /\ Len(stored) \in Nat
  BY DEF Inv, AuditTypeOK
<1>2. n < Len(stored) /\ stored[n + 1].data = Head(queue[r])
  BY DEF Inv, WonNext, Resolve
<1>3. record \in Record
  BY NewRecord DEF Inv, AuditTypeOK, Resolve, Pending
<1>4. stored[n + 1] \in Record
  BY <1>1, <1>2
<1>5. stored[n + 1].prevHash = Prefix(stored, n)
  BY <1>1, <1>2 DEF Inv, Chained
<1>6. LastHash(records[r]) = Prefix(stored, n)
  BY SameHashSameRecords DEF Inv
<1>7. record = stored[n + 1]
  BY <1>2, <1>3, <1>4, <1>5, <1>6 DEF Record, NextCall
<1>8. records' = [records EXCEPT ![r] = Append(records[r], record)]
  BY DEF Resolve
<1> HIDE DEF record
<1>9. records'[r] = Append(records[r], record) /\ \A q \in Replica : q # r => records'[q] = records[q]
  BY <1>1, <1>8
<1>10. /\ Len(records'[r]) = n + 1
       /\ \A i \in 1..n : records'[r][i] = records[r][i]
       /\ records'[r][n + 1] = stored[n + 1]
  BY <1>1, <1>3, <1>7, <1>9, AppendProperties
<1>11. \A i \in 1..n : records[r][i] = stored[i]
  BY DEF Inv, Prefixes
<1>12. \A i \in 1..(n + 1) : records'[r][i] = stored[i]
  BY <1>1, <1>10, <1>11
<1> QED BY <1>1, <1>2, <1>9, <1>10, <1>12

\* Every other step leaves the list alone, and a replica's records as they were,
\* empty, or the whole list.
Views(r) ==
  /\ UNCHANGED stored
  /\ records'[r] \in {records[r], << >>, stored}
  /\ \A q \in Replica : q # r => records'[q] = records[q]
  /\ pc'[r] # "won"
  /\ \A q \in Replica : q # r => pc'[q] = pc[q] /\ queue'[q] = queue[q]

LEMMA OtherSteps ==
  ASSUME Inv, NEW r \in Replica,
         \/ Load(r) \/ LoadFails(r) \/ Crash(r) \/ Start(r) \/ RejectBroken(r)
         \/ Reload(r) \/ RedisFails(r)
  PROVE  Views(r) /\ UNCHANGED called
<1> USE DEF Inv, AuditTypeOK, Views, redisVars, history
<1>1. CASE Load(r)
  BY <1>1 DEF Load
<1>2. CASE LoadFails(r) \/ Start(r)
  BY <1>2 DEF LoadFails, Start, Goto
<1>3. CASE Crash(r)
  BY <1>3 DEF Crash
<1>4. CASE RejectBroken(r)
  BY <1>4 DEF RejectBroken
<1>5. CASE Reload(r)
  BY <1>5 DEF Reload, Answer
<1>6. CASE RedisFails(r)
  BY <1>6 DEF RedisFails, Answer
<1> QED BY <1>1, <1>2, <1>3, <1>4, <1>5, <1>6

LEMMA ChainStep ==
  ASSUME Inv, AuditTypeOK', [Next]_vars
  PROVE  Chained(stored)' /\ Prefixes' /\ WonNext'
<1>0. /\ stored \in Seq(Record) /\ stored' \in Seq(Record)
      /\ records \in [Replica -> Seq(Record)] /\ records' \in [Replica -> Seq(Record)]
      /\ queue \in [Replica -> Seq(Decision)]
      /\ DOMAIN pc = Replica
  BY DEF Inv, AuditTypeOK
<1>1. ASSUME NEW r \in Replica, CompareAndPush(r)
      PROVE  Chained(stored)' /\ Prefixes' /\ WonNext'
  <2>0. UNCHANGED <<records, queue>>
    BY <1>1 DEF CompareAndPush
  <2>1. CASE UNCHANGED stored /\ pc' = [pc EXCEPT ![r] = "lost"]
    BY <2>0, <2>1, <1>0 DEF Inv, Chained, Prefix, Prefixes, WonNext
  <2>2. CASE ~(UNCHANGED stored /\ pc' = [pc EXCEPT ![r] = "lost"])
    <3>1. /\ Len(records[r]) = Len(stored)
          /\ Len(stored') = Len(stored) + 1
          /\ \A i \in 1..Len(stored) : stored'[i] = stored[i]
          /\ stored'[Len(stored) + 1] =
               [prevHash |-> Prefix(stored, Len(stored)), data |-> Head(queue[r])]
          /\ pc' = [pc EXCEPT ![r] = "won"]
      BY <1>1, <2>2, Pushed
    <3>2. \A n \in 0..Len(stored) : Prefix(stored, n)' = Prefix(stored, n)
      BY <3>1, <1>0 DEF Prefix
    <3>3. Chained(stored)'
      <4> SUFFICES ASSUME NEW i \in 1..Len(stored')
                   PROVE  stored'[i].prevHash = Prefix(stored', i - 1)
        BY DEF Chained
      <4>1. CASE i = Len(stored) + 1
        BY <4>1, <3>1, <3>2, <1>0 DEF Prefix
      <4>2. CASE i # Len(stored) + 1
        <5>1. i \in 1..Len(stored) /\ i - 1 \in 0..Len(stored)
          BY <4>2, <3>1, <1>0
        <5>2. stored[i].prevHash = Prefix(stored, i - 1)
          BY <5>1 DEF Inv, Chained
        <5> QED BY <5>1, <5>2, <3>1, <3>2 DEF Prefix
      <4> QED BY <4>1, <4>2
    <3>4. Prefixes'
      BY <3>1, <2>0, <1>0 DEF Inv, Prefixes
    <3>5. WonNext'
      <4> SUFFICES ASSUME NEW q \in Replica, pc'[q] = "won"
                   PROVE  /\ Len(records[q]) < Len(stored')
                          /\ stored'[Len(records[q]) + 1].data = Head(queue[q])
        BY <2>0 DEF WonNext
      <4>1. CASE q = r
        BY <4>1, <3>1, <1>0
      <4>2. CASE q # r
        <5>1. pc[q] = "won"
          BY <4>2, <3>1, <1>0
        <5>2. /\ Len(records[q]) < Len(stored)
              /\ stored[Len(records[q]) + 1].data = Head(queue[q])
          BY <5>1 DEF Inv, WonNext
        <5>3. Len(records[q]) \in Nat /\ Len(stored) \in Nat
          BY <1>0
        <5>4. Len(records[q]) + 1 \in 1..Len(stored)
          BY <5>2, <5>3
        <5> QED BY <5>2, <5>3, <5>4, <3>1
      <4> QED BY <4>1, <4>2
    <3> QED BY <3>3, <3>4, <3>5
  <2> QED BY <2>1, <2>2
<1>2. ASSUME NEW r \in Replica, Resolve(r)
      PROVE  Chained(stored)' /\ Prefixes' /\ WonNext'
  <2>1. UNCHANGED stored
    BY <1>2 DEF Resolve, redisVars
  <2>2. Chained(stored)'
    BY <2>1 DEF Inv, Chained, Prefix
  <2>3. Prefixes'
    <3> SUFFICES ASSUME NEW q \in Replica
                 PROVE  /\ Len(records'[q]) <= Len(stored)
                        /\ \A i \in 1..Len(records'[q]) : records'[q][i] = stored[i]
      BY <2>1 DEF Prefixes
    <3>1. CASE q = r
      BY <3>1, <1>2, Resolved
    <3>2. CASE q # r
      BY <3>2, <1>2, Resolved DEF Inv, Prefixes
    <3> QED BY <3>1, <3>2
  <2>4. /\ pc'[r] # "won"
        /\ \A q \in Replica : q # r => pc'[q] = pc[q] /\ queue'[q] = queue[q]
    BY <1>2, <1>0 DEF Resolve, Answer
  <2>5. WonNext'
    BY <1>2, <2>1, <2>4, Resolved DEF Inv, WonNext
  <2> QED BY <2>2, <2>3, <2>5
<1>3. ASSUME NEW r \in Replica, Views(r)
      PROVE  Chained(stored)' /\ Prefixes' /\ WonNext'
  <2>1. Chained(stored)'
    BY <1>3 DEF Views, Inv, Chained, Prefix
  <2>2. Prefixes'
    BY <1>3, <1>0, EmptySeq DEF Views, Inv, Prefixes
  <2>3. WonNext'
    BY <1>3 DEF Views, Inv, WonNext
  <2> QED BY <2>1, <2>2, <2>3
<1>4. ASSUME NEW r \in Replica, NEW d \in Decision, AppendCall(r, d)
      PROVE  Chained(stored)' /\ Prefixes' /\ WonNext'
  <2>1. UNCHANGED <<stored, records, pc>>
    BY <1>4 DEF AppendCall, redisVars
  <2>2. \A q \in Replica : pc[q] = "won" => Head(queue'[q]) = Head(queue[q])
    <3> SUFFICES ASSUME NEW q \in Replica, pc[q] = "won" PROVE Head(queue'[q]) = Head(queue[q])
      OBVIOUS
    <3>1. queue[q] \in Seq(Decision) /\ queue[q] # << >>
      BY DEF Inv, AuditTypeOK
    <3>2. queue'[q] = queue[q] \/ queue'[q] = Append(queue[q], d)
      BY <1>4, <1>0 DEF AppendCall
    <3>3. Len(queue[q]) \in Nat \ {0} /\ Append(queue[q], d)[1] = queue[q][1]
      BY <3>1, EmptySeq, AppendProperties
    <3> QED BY <3>2, <3>3
  <2> QED BY <2>1, <2>2 DEF Inv, Chained, Prefix, Prefixes, WonNext
<1>5. CASE UNCHANGED <<stored, records, pc, queue>>
  BY <1>5 DEF Inv, Chained, Prefix, Prefixes, WonNext
<1>6. ASSUME NEW r \in Replica, Publish(r) PROVE UNCHANGED <<stored, records, pc, queue>>
  BY <1>6 DEF Publish, replicaVars
<1>7. ASSUME UNCHANGED vars PROVE UNCHANGED <<stored, records, pc, queue>>
  BY <1>7 DEF vars, redisVars, replicaVars
<1> QED BY <1>1, <1>2, <1>3, <1>4, <1>5, <1>6, <1>7, OtherSteps DEF Next, Progress

---------------------------------------------------------------------------
(* The queues *)

\* A step that calls nothing and pushes nothing drops c calls from one queue, or
\* all of them; a replica that won drops its head.
Shrinks(r, c) ==
  /\ \A k \in 1..Len(queue'[r]) : k + c \in 1..Len(queue[r]) /\ queue'[r][k] = queue[r][k + c]
  /\ c = 0 => pc[r] # "won"
  /\ \A q \in Replica : q # r => queue'[q] = queue[q] /\ pc'[q] = pc[q]
  /\ UNCHANGED <<stored, called>>

LEMMA QueueShrinks ==
  ASSUME Inv, NEW r \in Replica,
         \/ Load(r) \/ LoadFails(r) \/ Crash(r) \/ Start(r) \/ RejectBroken(r)
         \/ Reload(r) \/ RedisFails(r) \/ Resolve(r)
  PROVE  \E c \in {0, 1} : Shrinks(r, c)
<1>0. /\ queue \in [Replica -> Seq(Decision)] /\ DOMAIN pc = Replica
      /\ \A k \in 1..Len(queue[r]) : k + 0 = k
  BY DEF Inv, AuditTypeOK
<1>1. CASE Load(r) \/ LoadFails(r) \/ Start(r)
  <2>1. UNCHANGED <<stored, called, queue>> /\ pc[r] # "won"
    BY <1>1 DEF Load, LoadFails, Start, Goto, redisVars, history
  <2>2. \A q \in Replica : q # r => pc'[q] = pc[q]
    BY <1>1, <1>0 DEF Load, LoadFails, Start, Goto
  <2>3. Shrinks(r, 0)
    BY <1>0, <2>1, <2>2 DEF Shrinks
  <2> QED BY <2>3
<1>2. CASE Crash(r)
  <2>1. queue'[r] = << >> /\ \A q \in Replica : q # r => queue'[q] = queue[q] /\ pc'[q] = pc[q]
    BY <1>2, <1>0 DEF Crash
  <2>2. UNCHANGED <<stored, called>>
    BY <1>2 DEF Crash, redisVars, history
  <2>3. Shrinks(r, 1)
    BY <2>1, <2>2, EmptySeq DEF Shrinks
  <2> QED BY <2>3
<1>3. ASSUME Pending(r), queue' = [queue EXCEPT ![r] = Tail(@)], UNCHANGED <<stored, called>>,
             \A q \in Replica : q # r => pc'[q] = pc[q]
      PROVE  Shrinks(r, 1)
  <2>1. queue'[r] = Tail(queue[r]) /\ \A q \in Replica : q # r => queue'[q] = queue[q]
    BY <1>3, <1>0
  <2>2. Len(queue[r]) \in Nat
    BY <1>0
  <2>3. /\ Len(Tail(queue[r])) = Len(queue[r]) - 1
        /\ \A k \in 1..Len(Tail(queue[r])) : Tail(queue[r])[k] = queue[r][k + 1]
    BY <1>3, AnsweredQueue DEF Inv
  <2>4. \A k \in 1..Len(queue'[r]) : k + 1 \in 1..Len(queue[r]) /\ queue'[r][k] = queue[r][k + 1]
    BY <2>1, <2>2, <2>3
  <2> QED BY <1>3, <2>1, <2>4 DEF Shrinks
<1>4. CASE RejectBroken(r)
  BY <1>3, <1>4 DEF RejectBroken, redisVars, history
<1>5. CASE RedisFails(r)
  BY <1>0, <1>3, <1>5 DEF RedisFails, Answer, redisVars, history
<1>6. CASE Resolve(r)
  <2>1. Pending(r)
    BY <1>6 DEF Inv, AuditTypeOK, Resolve, Pending
  <2> QED BY <1>0, <1>3, <1>6, <2>1 DEF Resolve, Answer, redisVars
<1>7. CASE Reload(r)
  <2>1. Pending(r) /\ pc[r] # "won" /\ UNCHANGED <<stored, called>>
    BY <1>7 DEF Inv, AuditTypeOK, Reload, Pending, redisVars, history
  <2>2. \A q \in Replica : q # r => pc'[q] = pc[q]
    BY <1>7, <1>0 DEF Reload, Answer
  <2>3. CASE UNCHANGED queue
    <3>1. Shrinks(r, 0)
      BY <1>0, <2>1, <2>2, <2>3 DEF Shrinks
    <3> QED BY <3>1
  <2>4. CASE queue' = [queue EXCEPT ![r] = Tail(@)]
    BY <1>3, <2>1, <2>2, <2>4
  <2> QED BY <1>7, <2>3, <2>4 DEF Reload, Answer
<1> QED BY <1>1, <1>2, <1>4, <1>5, <1>6, <1>7

\* A call is put last, in the history and in the queue.
LEMMA CallAdds ==
  ASSUME AuditTypeOK, NEW r \in Replica, NEW d \in Decision, AppendCall(r, d)
  PROVE  /\ Len(called') = Len(called) + 1
         /\ \A i \in 1..Len(called) : called'[i] = called[i]
         /\ called'[Len(called) + 1].data = d /\ called'[Len(called) + 1].replica = r
         /\ \A q \in Replica : \A k \in 1..Len(queue'[q]) :
              \/ k \in 1..Len(queue[q]) /\ queue'[q][k] = queue[q][k]
              \/ q = r /\ k = Len(queue[r]) + 1 /\ queue'[q][k] = d
<1>1. /\ called \in Seq(Call) /\ queue \in [Replica -> Seq(Decision)]
  BY DEF AuditTypeOK
<1>2. /\ queue'[r] = Append(queue[r], d)
      /\ \A q \in Replica : q # r => queue'[q] = queue[q]
      /\ queue[r] \in Seq(Decision)
  BY <1>1 DEF AppendCall
<1>3. /\ Len(queue'[r]) = Len(queue[r]) + 1
      /\ \A k \in 1..Len(queue[r]) : queue'[r][k] = queue[r][k]
      /\ queue'[r][Len(queue[r]) + 1] = d
  BY <1>2, AppendProperties
<1>4. /\ Len(called') = Len(called) + 1
      /\ \A i \in 1..Len(called) : called'[i] = called[i]
      /\ called'[Len(called) + 1].data = d /\ called'[Len(called) + 1].replica = r
  <2> DEFINE call == [replica |-> r, data |-> d]
  <2>1. called' = Append(called, call) /\ call \in Call /\ call.data = d /\ call.replica = r
    BY DEF AppendCall, Call
  <2> HIDE DEF call
  <2> QED BY <1>1, <2>1, AppendProperties
<1>5. \A q \in Replica : \A k \in 1..Len(queue'[q]) :
        \/ k \in 1..Len(queue[q]) /\ queue'[q][k] = queue[q][k]
        \/ q = r /\ k = Len(queue[r]) + 1 /\ queue'[q][k] = d
  <2>1. \A k \in 1..(Len(queue[r]) + 1) : k \in 1..Len(queue[r]) \/ k = Len(queue[r]) + 1
    BY <1>2
  <2> QED BY <1>2, <1>3, <2>1
<1> QED BY <1>4, <1>5

LEMMA QueueStep ==
  ASSUME Inv, AuditTypeOK', [Next]_vars
  PROVE  CalledOnce' /\ QueuedOnce' /\ QueuedUnlogged'
<1>0. /\ stored \in Seq(Record) /\ stored' \in Seq(Record)
      /\ queue \in [Replica -> Seq(Decision)] /\ queue' \in [Replica -> Seq(Decision)]
      /\ called \in Seq(Call) /\ called' \in Seq(Call)
      /\ DOMAIN pc = Replica
  BY DEF Inv, AuditTypeOK
<1>1. ASSUME NEW r \in Replica, NEW c \in {0, 1}, Shrinks(r, c)
      PROVE  CalledOnce' /\ QueuedOnce' /\ QueuedUnlogged'
  <2>1. ASSUME NEW q \in Replica, NEW k \in 1..Len(queue'[q])
        PROVE  LET b == IF q = r THEN c ELSE 0
               IN /\ k + b \in 1..Len(queue[q])
                  /\ queue'[q][k] = queue[q][k + b]
                  /\ k > 1 \/ pc'[q] # "won" => k + b > 1 \/ pc[q] # "won"
    <3>1. CASE q = r
      BY <1>0, <1>1, <3>1 DEF Shrinks
    <3>2. CASE q # r
      BY <1>0, <1>1, <3>2 DEF Shrinks
    <3> QED BY <3>1, <3>2
  <2>2. UNCHANGED <<stored, called>>
    BY <1>1 DEF Shrinks
  <2>3. CalledOnce'
    <3>1. \A q \in Replica : \A k \in 1..Len(queue'[q]) :
            \E l \in 1..Len(queue[q]) : queue'[q][k] = queue[q][l]
      BY <2>1
    <3>2. \A q \in Replica : \A k \in 1..Len(queue'[q]) :
            \E i \in 1..Len(called) : called[i].data = queue'[q][k]
      BY <3>1 DEF Inv, CalledOnce
    <3> QED BY <2>2, <3>2 DEF Inv, CalledOnce
  <2>4. QueuedOnce'
    <3> SUFFICES ASSUME NEW p \in Replica, NEW q \in Replica,
                        NEW k \in 1..Len(queue'[p]), NEW l \in 1..Len(queue'[q]),
                        queue'[p][k] = queue'[q][l]
                 PROVE  p = q /\ k = l
      BY DEF QueuedOnce
    <3> DEFINE b == IF p = r THEN c ELSE 0
    <3> DEFINE e == IF q = r THEN c ELSE 0
    <3>1. /\ k + b \in 1..Len(queue[p]) /\ queue'[p][k] = queue[p][k + b]
          /\ l + e \in 1..Len(queue[q]) /\ queue'[q][l] = queue[q][l + e]
      BY <2>1
    <3>2. queue[p][k + b] = queue[q][l + e]
      BY <3>1
    <3> HIDE DEF b, e
    <3>3. p = q /\ k + b = l + e
      BY <3>1, <3>2 DEF Inv, QueuedOnce
    <3> USE DEF b, e
    <3> QED BY <3>3
  <2>5. QueuedUnlogged'
    <3> SUFFICES ASSUME NEW q \in Replica, NEW k \in 1..Len(queue'[q]), NEW m \in 1..Len(stored),
                        k > 1 \/ pc'[q] # "won"
                 PROVE  stored[m].data # queue'[q][k]
      BY <2>2 DEF QueuedUnlogged
    <3> QED BY <2>1 DEF Inv, QueuedUnlogged
  <2> QED BY <2>3, <2>4, <2>5
<1>2. ASSUME NEW r \in Replica, CompareAndPush(r)
      PROVE  CalledOnce' /\ QueuedOnce' /\ QueuedUnlogged'
  <2>1. UNCHANGED <<queue, called>> /\ pc[r] = "ready"
    BY <1>2 DEF CompareAndPush
  <2>2. QueuedOnce'
    BY <2>1 DEF Inv, QueuedOnce
  <2>3. CASE UNCHANGED stored /\ pc' = [pc EXCEPT ![r] = "lost"]
    <3>1. CalledOnce'
      BY <2>1, <2>3, Zenon DEF Inv, CalledOnce
    <3>2. \A q \in Replica : pc'[q] # "won" => pc[q] # "won"
      BY <1>0, <2>1, <2>3
    <3>3. QueuedUnlogged'
      BY <2>1, <2>3, <3>2 DEF Inv, QueuedUnlogged
    <3> QED BY <2>2, <3>1, <3>3
  <2>4. CASE ~(UNCHANGED stored /\ pc' = [pc EXCEPT ![r] = "lost"])
    <3>1. /\ Len(stored') = Len(stored) + 1
          /\ \A i \in 1..Len(stored) : stored'[i] = stored[i]
          /\ stored'[Len(stored) + 1].data = Head(queue[r])
          /\ pc' = [pc EXCEPT ![r] = "won"]
      <4>1. stored'[Len(stored) + 1] = [prevHash |-> Prefix(stored, Len(stored)), data |-> Head(queue[r])]
        BY <1>2, <2>4, Pushed
      <4>2. stored'[Len(stored) + 1].data = Head(queue[r])
        BY <4>1
      <4> QED BY <1>2, <2>4, <4>2, Pushed
    <3>2. 1 \in 1..Len(queue[r]) /\ Head(queue[r]) = queue[r][1]
      BY <1>2, <1>0, EmptySeq DEF CompareAndPush, Pending
    <3>3. CalledOnce'
      <4>1. \A q \in Replica : \A k \in 1..Len(queue[q]) :
              \E i \in 1..Len(called) : called[i].data = queue[q][k]
        BY DEF Inv, CalledOnce
      <4>2. \A m \in 1..Len(stored') : m \in 1..Len(stored) \/ m = Len(stored) + 1
        BY <1>0, <3>1
      <4>3. \A m \in 1..Len(stored) : \E i \in 1..Len(called) : called[i].data = stored[m].data
        BY DEF Inv, CalledOnce
      <4>4. ASSUME NEW m \in 1..Len(stored')
            PROVE  \E i \in 1..Len(called) : called[i].data = stored'[m].data
        <5>1. CASE m \in 1..Len(stored)
          BY <5>1, <3>1, <4>3
        <5>2. CASE m = Len(stored) + 1
          <6>1. PICK i \in 1..Len(called) : called[i].data = queue[r][1]
            BY <3>2, <4>1
          <6> QED BY <5>2, <6>1, <3>1, <3>2
        <5> QED BY <4>2, <5>1, <5>2
      <4> QED BY <2>1, <4>1, <4>4 DEF CalledOnce
    <3>4. QueuedUnlogged'
      <4> SUFFICES ASSUME NEW q \in Replica, NEW k \in 1..Len(queue[q]), NEW m \in 1..Len(stored'),
                          k > 1 \/ pc'[q] # "won"
                   PROVE  stored'[m].data # queue[q][k]
        BY <2>1 DEF QueuedUnlogged
      <4>1. CASE m = Len(stored) + 1
        <5>1. q # r \/ k # 1
          BY <1>0, <3>1
        <5> QED BY <4>1, <5>1, <3>1, <3>2 DEF Inv, QueuedOnce
      <4>2. CASE m # Len(stored) + 1
        <5>1. m \in 1..Len(stored) /\ stored'[m] = stored[m]
          BY <4>2, <3>1, <1>0
        <5>2. k > 1 \/ pc[q] # "won"
          BY <1>0, <2>1, <3>1
        <5> QED BY <5>1, <5>2 DEF Inv, QueuedUnlogged
      <4> QED BY <4>1, <4>2
    <3> QED BY <2>2, <3>3, <3>4
  <2> QED BY <2>3, <2>4
<1>3. ASSUME NEW r \in Replica, NEW d \in Decision, AppendCall(r, d)
      PROVE  CalledOnce' /\ QueuedOnce' /\ QueuedUnlogged'
  <2>1. UNCHANGED <<stored, pc>> /\ \A i \in 1..Len(called) : called[i].data # d
    BY <1>3 DEF AppendCall, redisVars
  <2>4. /\ Len(called') = Len(called) + 1
        /\ \A i \in 1..Len(called) : called'[i] = called[i]
        /\ called'[Len(called) + 1].data = d
    BY <1>3, CallAdds DEF Inv
  <2>5. \A q \in Replica : \A k \in 1..Len(queue'[q]) :
          \/ k \in 1..Len(queue[q]) /\ queue'[q][k] = queue[q][k]
          \/ q = r /\ k = Len(queue[r]) + 1 /\ queue'[q][k] = d
    BY <1>3, CallAdds DEF Inv
  <2>6. \A q \in Replica : \A k \in 1..Len(queue[q]) : queue[q][k] # d
    BY <2>1 DEF Inv, CalledOnce
  <2>7. \A m \in 1..Len(stored) : stored[m].data # d
    BY <2>1 DEF Inv, CalledOnce
  <2>8. CalledOnce'
    <3>1. Len(called) \in Nat /\ Len(called) + 1 \in 1..Len(called')
      BY <1>0, <2>4
    <3>2. \A x : (\E i \in 1..Len(called) : called[i].data = x)
                   => \E i \in 1..Len(called') : called'[i].data = x
      BY <2>4, <3>1
    <3>3. \A m \in 1..Len(stored) : \E i \in 1..Len(called') : called'[i].data = stored[m].data
      BY <3>2 DEF Inv, CalledOnce
    <3>4. \A q \in Replica : \A k \in 1..Len(queue[q]) :
            \E i \in 1..Len(called') : called'[i].data = queue[q][k]
      BY <3>2 DEF Inv, CalledOnce
    <3>5. \A q \in Replica : \A k \in 1..Len(queue'[q]) :
            \E i \in 1..Len(called') : called'[i].data = queue'[q][k]
      <4> SUFFICES ASSUME NEW q \in Replica, NEW k \in 1..Len(queue'[q])
                   PROVE  \E i \in 1..Len(called') : called'[i].data = queue'[q][k]
        OBVIOUS
      <4>1. CASE k \in 1..Len(queue[q]) /\ queue'[q][k] = queue[q][k]
        BY <4>1, <3>4
      <4>2. CASE queue'[q][k] = d
        BY <4>2, <2>4, <3>1
      <4> QED BY <4>1, <4>2, <2>5
    <3> QED BY <2>1, <3>3, <3>5 DEF CalledOnce
  <2>9. QueuedOnce'
    <3> SUFFICES ASSUME NEW p \in Replica, NEW q \in Replica,
                        NEW k \in 1..Len(queue'[p]), NEW l \in 1..Len(queue'[q]),
                        queue'[p][k] = queue'[q][l]
                 PROVE  p = q /\ k = l
      BY DEF QueuedOnce
    <3>1. QueuedOnce
      BY DEF Inv
    <3>2. CASE k \in 1..Len(queue[p]) /\ queue'[p][k] = queue[p][k]
      <4>1. l \in 1..Len(queue[q]) /\ queue'[q][l] = queue[q][l]
        BY <2>5, <2>6, <3>2
      <4>2. queue[p][k] = queue[q][l]
        BY <3>2, <4>1
      <4>3. \A x, y \in Replica : \A u \in 1..Len(queue[x]), v \in 1..Len(queue[y]) :
              queue[x][u] = queue[y][v] => x = y /\ u = v
        BY <3>1 DEF QueuedOnce
      <4> QED BY <3>2, <4>1, <4>2, <4>3
    <3>3. CASE p = r /\ k = Len(queue[r]) + 1 /\ queue'[p][k] = d
      <4>1. q = r /\ l = Len(queue[r]) + 1
        BY <2>5, <2>6, <3>3
      <4> QED BY <3>3, <4>1
    <3> QED BY <2>5, <3>2, <3>3
  <2>10. QueuedUnlogged'
    <3> SUFFICES ASSUME NEW p \in Replica, NEW k \in 1..Len(queue'[p]), NEW m \in 1..Len(stored),
                        k > 1 \/ pc[p] # "won"
                 PROVE  stored[m].data # queue'[p][k]
      BY <2>1 DEF QueuedUnlogged
    <3>1. QueuedUnlogged
      BY DEF Inv
    <3>2. CASE k \in 1..Len(queue[p]) /\ queue'[p][k] = queue[p][k]
      BY <3>1, <3>2 DEF QueuedUnlogged
    <3>3. CASE queue'[p][k] = d
      BY <2>7, <3>3
    <3> QED BY <2>5, <3>2, <3>3
  <2> QED BY <2>8, <2>9, <2>10
<1>4. CASE UNCHANGED <<stored, queue, called, pc>>
  <2>1. CalledOnce'
    BY <1>4, Zenon DEF Inv, CalledOnce
  <2>2. QueuedOnce' /\ QueuedUnlogged'
    BY <1>4 DEF Inv, QueuedOnce, QueuedUnlogged
  <2> QED BY <2>1, <2>2
<1>5. ASSUME NEW r \in Replica, Publish(r) PROVE UNCHANGED <<stored, queue, called, pc>>
  BY <1>5 DEF Publish, replicaVars, history
<1>6. ASSUME UNCHANGED vars PROVE UNCHANGED <<stored, queue, called, pc>>
  BY <1>6 DEF vars, redisVars, replicaVars, history
<1> QED BY <1>1, <1>2, <1>3, <1>4, <1>5, <1>6, QueueShrinks DEF Next, Progress

---------------------------------------------------------------------------
(* Theorems *)

LEMMA InitInv == Init => Inv
<1> SUFFICES ASSUME Init PROVE Inv
  OBVIOUS
<1>1. AuditTypeOK
  BY AuditAssumption, EmptySeq DEF Init, AuditTypeOK, Running
<1>2. Chained(stored) /\ Prefixes /\ WonNext
  BY EmptySeq DEF Init, Chained, Prefixes, WonNext
<1>3. CalledOnce /\ QueuedOnce /\ QueuedUnlogged
  BY EmptySeq DEF Init, CalledOnce, QueuedOnce, QueuedUnlogged
<1> QED BY <1>1, <1>2, <1>3 DEF Inv

LEMMA InvStep == Inv /\ [Next]_vars => Inv'
<1> SUFFICES ASSUME Inv, [Next]_vars PROVE Inv'
  OBVIOUS
<1>1. AuditTypeOK'
  BY TypeStep DEF Inv
<1>2. Chained(stored)' /\ Prefixes' /\ WonNext'
  BY <1>1, ChainStep
<1>3. CalledOnce' /\ QueuedOnce' /\ QueuedUnlogged'
  BY <1>1, QueueStep
<1> QED BY <1>1, <1>2, <1>3 DEF Inv

\* The list, the replicas' records, queues and counters stay well formed.
THEOREM AuditTypes == Spec => []AuditTypeOK
<1>1. Inv => AuditTypeOK
  BY DEF Inv
<1> QED BY <1>1, InitInv, InvStep, PTL DEF Spec

\* The stored chain passes verify() whoever appends, fails or restarts: no
\* replica ever refuses it.
THEOREM StoredChainVerifies == Spec => []ChainVerifies
<1>1. Inv => ChainVerifies
  BY ChainedVerifies DEF Inv, AuditTypeOK, ChainVerifies
<1> QED BY <1>1, InitInv, InvStep, PTL DEF Spec

---------------------------------------------------------------------------
(* append() gives up only under contention. *)

\* After a lost attempt the records are the list of that time.
Behind ==
  \A r \in Replica :
    pc[r] = "ready" /\ attempt[r] > 0 => Len(records[r]) + 1 >= began[r] + attempt[r]

LEMMA ContentionStep ==
  ASSUME Inv, Inv', LostToOthers, Behind, [Next]_vars
  PROVE  LostToOthers' /\ Behind'
<1>0. /\ stored \in Seq(Record) /\ DOMAIN pc = Replica
      /\ records \in [Replica -> Seq(Record)]
      /\ attempt \in [Replica -> Nat] /\ began \in [Replica -> Nat]
  BY AuditAssumption DEF Inv, AuditTypeOK
<1>n. /\ Len(stored) \in Nat
      /\ \A q \in Replica : /\ Len(records[q]) \in Nat
                             /\ attempt[q] \in Nat /\ began[q] \in Nat
  BY <1>0
<1>1. ASSUME NEW r \in Replica, CompareAndPush(r) PROVE LostToOthers' /\ Behind'
  <2>0. UNCHANGED <<records, attempt>> /\ pc[r] = "ready"
    BY <1>1 DEF CompareAndPush
  <2>1. Len(stored') \in Nat /\ Len(stored') >= Len(stored)
    <3>1. CASE UNCHANGED stored
      BY <3>1, <1>n
    <3>2. CASE ~UNCHANGED stored
      <4> DEFINE rec == [prevHash |-> LastHash(records[r]), data |-> NextCall(r)]
      <4>1. stored' = Append(stored, rec)
        BY <1>1, <3>2 DEF CompareAndPush
      <4>2. Len(stored') = Len(stored) + 1
        <5>1. rec \in Record
          BY <1>1, NewRecord DEF Inv, CompareAndPush
        <5> HIDE DEF rec
        <5> QED BY <1>0, <4>1, <5>1
      <4> QED BY <1>n, <4>2
    <3> QED BY <3>1, <3>2
  <2>2. /\ \A q \in Replica : q # r => pc'[q] = pc[q] /\ began'[q] = began[q]
        /\ pc'[r] \in {"won", "lost"}
        /\ began'[r] = IF attempt[r] = 0 THEN Len(stored) ELSE began[r]
    BY <1>0, <1>1 DEF CompareAndPush
  <2>3. Behind'
    BY <2>0, <2>2 DEF Behind
  <2>4. ASSUME pc'[r] = "lost" PROVE Len(stored') >= began'[r] + attempt[r]
    <3>1. LastHash(stored) # LastHash(records[r])
      BY <2>4, <1>0, <1>1 DEF CompareAndPush
    <3>2. Len(records[r]) # Len(stored)
      <4> SUFFICES ASSUME Len(records[r]) = Len(stored) PROVE FALSE
        OBVIOUS
      <4>1. LastHash(records[r]) = Prefix(stored, Len(records[r]))
        BY SameHashSameRecords DEF Inv
      <4>2. LastHash(stored) = Prefix(stored, Len(stored))
        BY SameHashSameRecords DEF Inv
      <4> QED BY <3>1, <4>1, <4>2
    <3>3. Len(records[r]) <= Len(stored)
      BY DEF Inv, Prefixes
    <3>4. CASE attempt[r] = 0
      BY <3>4, <1>n, <2>1, <2>2
    <3>5. CASE attempt[r] > 0
      <4>1. Len(records[r]) + 1 >= began[r] + attempt[r]
        BY <3>5, <2>0 DEF Behind
      <4>2. began'[r] = began[r]
        BY <3>5, <2>2
      <4> QED BY <4>1, <4>2, <3>2, <3>3, <1>n, <2>1
    <3> QED BY <3>4, <3>5, <1>n
  <2>5. LostToOthers'
    <3> SUFFICES ASSUME NEW q \in Replica, pc'[q] = "lost"
                 PROVE  Len(stored') >= began'[q] + attempt'[q]
      BY DEF LostToOthers
    <3>1. CASE q = r
      BY <3>1, <2>0, <2>4
    <3>2. CASE q # r
      <4>1. Len(stored) >= began[q] + attempt[q]
        BY <3>2, <2>2 DEF LostToOthers
      <4> QED BY <3>2, <4>1, <2>0, <2>1, <2>2, <1>n
    <3> QED BY <3>1, <3>2
  <2> QED BY <2>3, <2>5
<1>2. ASSUME NEW r \in Replica, Reload(r) PROVE LostToOthers' /\ Behind'
  <2>1. UNCHANGED <<stored, began>> /\ pc[r] = "lost"
    BY <1>2 DEF Reload, redisVars, history
  <2>2. pc' = [pc EXCEPT ![r] = "ready"]
    BY <1>2 DEF Reload, Answer
  <2>3. \A q \in Replica : q # r => records'[q] = records[q] /\ attempt'[q] = attempt[q]
    BY <1>0, <1>2 DEF Reload, Answer
  <2>4. attempt'[r] = 0 \/ (attempt'[r] = attempt[r] + 1 /\ records'[r] = stored)
    <3>1. CASE Verify(stored) /\ ~GivesUp(r)
      <4>1. attempt' = [attempt EXCEPT ![r] = @ + 1]
        BY <1>2, <3>1 DEF Reload
      <4>2. records' = [records EXCEPT ![r] = stored]
        BY <1>2, <3>1 DEF Reload
      <4> QED BY <1>0, <4>1, <4>2
    <3>2. CASE ~(Verify(stored) /\ ~GivesUp(r))
      <4>1. Answer(r)
        BY <1>2, <3>2, Zenon DEF Reload
      <4>2. attempt' = [attempt EXCEPT ![r] = 0]
        BY <4>1 DEF Answer
      <4> QED BY <1>0, <4>2
    <3> QED BY <3>1, <3>2
  <2>5. Len(stored) >= began[r] + attempt[r]
    BY <2>1 DEF LostToOthers
  <2>6. Behind'
    <3> SUFFICES ASSUME NEW q \in Replica, pc'[q] = "ready", attempt'[q] > 0
                 PROVE  Len(records'[q]) + 1 >= began'[q] + attempt'[q]
      BY DEF Behind
    <3>1. CASE q = r
      <4>1. attempt'[r] = attempt[r] + 1 /\ records'[r] = stored
        BY <3>1, <2>4
      <4> QED BY <3>1, <4>1, <2>1, <2>5, <1>n
    <3>2. CASE q # r
      <4>1. pc[q] = "ready" /\ attempt[q] > 0
        BY <3>2, <1>0, <2>2, <2>3
      <4> QED BY <3>2, <4>1, <2>1, <2>3 DEF Behind
    <3> QED BY <3>1, <3>2
  <2>7. LostToOthers'
    <3> SUFFICES ASSUME NEW q \in Replica, pc'[q] = "lost"
                 PROVE  Len(stored') >= began'[q] + attempt'[q]
      BY DEF LostToOthers
    <3>1. q # r /\ pc[q] = "lost"
      BY <1>0, <2>2
    <3> QED BY <3>1, <2>1, <2>3 DEF LostToOthers
  <2> QED BY <2>6, <2>7
<1>3. ASSUME NEW r \in Replica, UNCHANGED <<stored, began>>,
             \A q \in Replica : q # r => /\ pc'[q] = pc[q] /\ records'[q] = records[q]
                                         /\ attempt'[q] = attempt[q],
             pc'[r] # "lost", attempt'[r] = 0
      PROVE  LostToOthers' /\ Behind'
  <2>1. LostToOthers'
    <3> SUFFICES ASSUME NEW q \in Replica, pc'[q] = "lost"
                 PROVE  Len(stored') >= began'[q] + attempt'[q]
      BY DEF LostToOthers
    <3>1. q # r /\ pc[q] = "lost" /\ attempt'[q] = attempt[q]
      BY <1>3
    <3> QED BY <3>1, <1>3 DEF LostToOthers
  <2>2. Behind'
    <3> SUFFICES ASSUME NEW q \in Replica, pc'[q] = "ready", attempt'[q] > 0
                 PROVE  Len(records'[q]) + 1 >= began'[q] + attempt'[q]
      BY DEF Behind
    <3>1. q # r
      BY <1>3
    <3> QED BY <3>1, <1>3 DEF Behind
  <2> QED BY <2>1, <2>2
<1>4. ASSUME NEW r \in Replica, Load(r) \/ LoadFails(r) \/ Start(r) \/ Crash(r)
      PROVE LostToOthers' /\ Behind'
  <2>1. CASE Crash(r)
    BY <1>0, <1>3, <2>1 DEF Crash, redisVars, history
  <2>2. CASE Load(r) \/ LoadFails(r) \/ Start(r)
    <3>1. attempt[r] = 0
      BY <2>2 DEF Inv, AuditTypeOK, Running, Load, LoadFails, Start, Goto
    <3> QED BY <1>0, <1>3, <2>2, <3>1 DEF Load, LoadFails, Start, Goto, redisVars, history
  <2> QED BY <1>4, <2>1, <2>2
<1>5. ASSUME NEW r \in Replica, Resolve(r) \/ RedisFails(r) PROVE LostToOthers' /\ Behind'
  BY <1>0, <1>3, <1>5 DEF Resolve, RedisFails, Answer, redisVars, history
<1>6. CASE UNCHANGED <<stored, began, pc, records, attempt>>
  BY <1>6 DEF LostToOthers, Behind
<1>7. ASSUME NEW r \in Replica,
             RejectBroken(r) \/ Publish(r) \/ \E d \in Decision : AppendCall(r, d)
      PROVE  UNCHANGED <<stored, began, pc, records, attempt>>
  BY <1>7 DEF RejectBroken, Publish, AppendCall, redisVars, replicaVars, history
<1>8. ASSUME UNCHANGED vars PROVE UNCHANGED <<stored, began, pc, records, attempt>>
  BY <1>8 DEF vars, redisVars, replicaVars, history
<1> QED BY <1>1, <1>2, <1>4, <1>5, <1>6, <1>7, <1>8 DEF Next, Progress

\* Every attempt append() loses, but its first, was lost to a record pushed since
\* the call began: running out of attempts takes as many appends of others.
THEOREM GivesUpUnderContention == Spec => []LostToOthers
<1>1. Init => LostToOthers /\ Behind
  BY DEF Init, LostToOthers, Behind
<1>2. Inv /\ LostToOthers /\ Behind /\ [Next]_vars => LostToOthers' /\ Behind'
  BY InvStep, ContentionStep
<1> QED BY <1>1, <1>2, InitInv, InvStep, PTL DEF Spec

---------------------------------------------------------------------------
(* The log is in the order of the calls. *)

\* No decision is called twice, the ones a queue holds are its replica's in the
\* order of the calls, and what is logged of a replica was called no later than
\* what it still has queued.
CalledApart == \A i, j \in 1..Len(called) : called[i].data = called[j].data => i = j

QueuedAsCalled ==
  \A r \in Replica : \A k \in 1..Len(queue[r]), i \in 1..Len(called) :
    called[i].data = queue[r][k] =>
      /\ called[i].replica = r
      /\ \A l \in 1..Len(queue[r]), j \in 1..Len(called) :
           k < l /\ called[j].data = queue[r][l] => i < j
      /\ \A m \in 1..Len(stored), j \in 1..Len(called) :
           called[j].replica = r /\ called[j].data = stored[m].data => j <= i

LoggedAsCalled ==
  \A m, n \in 1..Len(stored), i, j \in 1..Len(called) :
    /\ m < n /\ called[i].replica = called[j].replica
    /\ called[i].data = stored[m].data /\ called[j].data = stored[n].data
    => i < j

OrderInv == CalledApart /\ QueuedAsCalled /\ LoggedAsCalled

LEMMA OrderStep ==
  ASSUME Inv, Inv', OrderInv, [Next]_vars
  PROVE  OrderInv'
<1>0. /\ Len(stored) \in Nat /\ Len(called) \in Nat /\ Len(called') \in Nat
      /\ \A q \in Replica : Len(queue[q]) \in Nat
      /\ DOMAIN pc = Replica
  BY DEF Inv, AuditTypeOK
\* A queue of which some calls were answered, first of all the first.
<1>1. ASSUME NEW r \in Replica, NEW c \in {0, 1}, Shrinks(r, c)
      PROVE  OrderInv'
  <2>1. UNCHANGED <<stored, called>>
    BY <1>1 DEF Shrinks
  <2>2. CalledApart' /\ LoggedAsCalled'
    BY <2>1 DEF OrderInv, CalledApart, LoggedAsCalled
  <2>3. ASSUME NEW q \in Replica
        PROVE  \E b \in {0, 1} : \A k \in 1..Len(queue'[q]) :
                 k + b \in 1..Len(queue[q]) /\ queue'[q][k] = queue[q][k + b]
    <3>1. CASE q = r
      BY <1>1, <3>1 DEF Shrinks
    <3>2. CASE q # r
      <4>1. queue'[q] = queue[q]
        BY <1>1, <3>2 DEF Shrinks
      <4>2. \A k \in 1..Len(queue[q]) : k + 0 = k
        BY <1>0
      <4> QED BY <4>1, <4>2
    <3> QED BY <3>1, <3>2
  <2>4. QueuedAsCalled'
    <3> SUFFICES ASSUME NEW q \in Replica, NEW k \in 1..Len(queue'[q]), NEW i \in 1..Len(called),
                        called[i].data = queue'[q][k]
                 PROVE  /\ called[i].replica = q
                        /\ \A l \in 1..Len(queue'[q]), j \in 1..Len(called) :
                             k < l /\ called[j].data = queue'[q][l] => i < j
                        /\ \A m \in 1..Len(stored), j \in 1..Len(called) :
                             called[j].replica = q /\ called[j].data = stored[m].data => j <= i
      BY <2>1 DEF QueuedAsCalled
    <3>1. PICK b \in {0, 1} : \A l \in 1..Len(queue'[q]) :
            l + b \in 1..Len(queue[q]) /\ queue'[q][l] = queue[q][l + b]
      BY <2>3
    <3>2. k + b \in 1..Len(queue[q]) /\ called[i].data = queue[q][k + b]
      BY <3>1
    <3>3. /\ called[i].replica = q
          /\ \A l \in 1..Len(queue[q]), j \in 1..Len(called) :
               k + b < l /\ called[j].data = queue[q][l] => i < j
          /\ \A m \in 1..Len(stored), j \in 1..Len(called) :
               called[j].replica = q /\ called[j].data = stored[m].data => j <= i
      BY <3>2 DEF OrderInv, QueuedAsCalled
    <3>4. ASSUME NEW l \in 1..Len(queue'[q]), NEW j \in 1..Len(called), k < l, called[j].data = queue'[q][l]
          PROVE  i < j
      <4>1. l + b \in 1..Len(queue[q]) /\ queue'[q][l] = queue[q][l + b]
        BY <3>1
      <4>2. \A x \in Int, y \in Int, z \in {0, 1} : x < y => x + z < y + z
        OBVIOUS
      <4>3. k \in Int /\ l \in Int
        OBVIOUS
      <4>4. k + b < l + b
        BY <3>4, <4>2, <4>3, Zenon
      <4>5. called[j].data = queue[q][l + b]
        BY <3>4, <4>1, Zenon
      <4> QED BY <3>3, <4>1, <4>4, <4>5, Zenon
    <3> QED BY <3>3, <3>4
  <2> QED BY <2>2, <2>4 DEF OrderInv
<1>2. ASSUME NEW r \in Replica, CompareAndPush(r)
      PROVE  OrderInv'
  <2>1. UNCHANGED <<queue, called>> /\ pc[r] = "ready"
    BY <1>2 DEF CompareAndPush
  <2>2. CalledApart'
    BY <2>1 DEF OrderInv, CalledApart
  <2>3. CASE UNCHANGED stored
    <3>1. QueuedAsCalled' /\ LoggedAsCalled'
      <4>1. queue' = queue /\ called' = called /\ stored' = stored
        BY <2>1, <2>3
      <4>2. QueuedAsCalled'
        BY <4>1 DEF OrderInv, QueuedAsCalled
      <4>3. LoggedAsCalled'
        BY <4>1 DEF OrderInv, LoggedAsCalled
      <4> QED BY <4>2, <4>3
    <3> QED BY <2>2, <3>1 DEF OrderInv
  <2>4. CASE ~UNCHANGED stored
    <3> DEFINE d == queue[r][1]
    <3>1. /\ Len(stored') = Len(stored) + 1
          /\ \A m \in 1..Len(stored) : stored'[m] = stored[m]
          /\ stored'[Len(stored) + 1].data = d
          /\ 1 \in 1..Len(queue[r])
      <4>1. stored'[Len(stored) + 1] = [prevHash |-> Prefix(stored, Len(stored)), data |-> Head(queue[r])]
        BY <1>2, <2>4, Pushed
      <4>2. stored'[Len(stored) + 1].data = Head(queue[r])
        BY <4>1
      <4>3. 1 \in 1..Len(queue[r]) /\ Head(queue[r]) = queue[r][1]
        BY <1>2, EmptySeq DEF CompareAndPush, Pending, Inv, AuditTypeOK
      <4> QED BY <1>2, <2>4, <4>2, <4>3, Pushed
    <3>2. \A m \in 1..Len(stored') : m \in 1..Len(stored) \/ m = Len(stored) + 1
      BY <1>0, <3>1
    <3>3. \A i \in 1..Len(called) : called[i].data = d =>
            /\ called[i].replica = r
            /\ \A l \in 2..Len(queue[r]), j \in 1..Len(called) : called[j].data = queue[r][l] => i < j
            /\ \A m \in 1..Len(stored), j \in 1..Len(called) :
                 called[j].replica = r /\ called[j].data = stored[m].data => j <= i
      <4>1. \A n \in Int : \A l \in 2..n : 1 < l /\ l \in 1..n
        OBVIOUS
      <4>2. \A l \in 2..Len(queue[r]) : 1 < l /\ l \in 1..Len(queue[r])
        BY <1>0, <4>1
      <4>3. QueuedAsCalled
        BY DEF OrderInv
      <4>4. \A i \in 1..Len(called) : called[i].data = queue[r][1] =>
              /\ called[i].replica = r
              /\ \A l \in 1..Len(queue[r]), j \in 1..Len(called) :
                   1 < l /\ called[j].data = queue[r][l] => i < j
              /\ \A m \in 1..Len(stored), j \in 1..Len(called) :
                   called[j].replica = r /\ called[j].data = stored[m].data => j <= i
        BY <3>1, <4>3 DEF QueuedAsCalled
      <4> QED BY <4>2, <4>4
    <3>4. \A m \in 1..Len(stored) : stored[m].data # d
      BY <2>1, <3>1 DEF Inv, QueuedUnlogged
    <3> HIDE DEF d
    <3>5. QueuedAsCalled'
      <4> SUFFICES ASSUME NEW q \in Replica, NEW k \in 1..Len(queue[q]), NEW i \in 1..Len(called),
                          called[i].data = queue[q][k], NEW m \in 1..Len(stored'), NEW j \in 1..Len(called),
                          called[j].replica = q, called[j].data = stored'[m].data
                   PROVE  j <= i
        <5>1. QueuedAsCalled
          BY DEF OrderInv
        <5>2. queue' = queue /\ called' = called
          BY <2>1
        <5> QED BY <5>1, <5>2 DEF QueuedAsCalled
      <4>1. CASE m \in 1..Len(stored)
        <5>1. called[j].data = stored[m].data
          BY <3>1, <4>1
        <5>2. QueuedAsCalled
          BY DEF OrderInv
        <5> QED BY <4>1, <5>1, <5>2 DEF QueuedAsCalled
      <4>2. CASE m = Len(stored) + 1
        <5>1. called[j].data = d /\ q = r
          BY <3>1, <3>3, <4>2
        <5>2. CASE k = 1
          <6>1. i = j
            BY <5>1, <5>2 DEF d, OrderInv, CalledApart
          <6> QED BY <6>1
        <5>3. CASE k # 1
          <6>1. k \in 2..Len(queue[r])
            BY <1>0, <5>1, <5>3
          <6>2. j < i
            BY <3>3, <5>1, <6>1
          <6> QED BY <6>2
        <5> QED BY <5>2, <5>3
      <4> QED BY <3>2, <4>1, <4>2
    <3>6. LoggedAsCalled'
      <4> SUFFICES ASSUME NEW m \in 1..Len(stored'), NEW n \in 1..Len(stored'),
                          NEW i \in 1..Len(called), NEW j \in 1..Len(called),
                          m < n, called[i].replica = called[j].replica,
                          called[i].data = stored'[m].data, called[j].data = stored'[n].data
                   PROVE  i < j
        BY <2>1 DEF LoggedAsCalled
      <4>1. m \in 1..Len(stored)
        BY <1>0, <3>1
      <4>2. CASE n \in 1..Len(stored)
        BY <3>1, <4>1, <4>2 DEF OrderInv, LoggedAsCalled
      <4>3. CASE n = Len(stored) + 1
        <5>1. called[j].data = d /\ called[i].data = stored[m].data
          BY <3>1, <4>1, <4>3
        <5>2. i <= j /\ i # j
          BY <3>3, <3>4, <4>1, <5>1
        <5> QED BY <5>2
      <4> QED BY <3>2, <4>2, <4>3
    <3> QED BY <2>2, <3>5, <3>6 DEF OrderInv
  <2> QED BY <2>3, <2>4
<1>3. ASSUME NEW r \in Replica, NEW d \in Decision, AppendCall(r, d)
      PROVE  OrderInv'
  <2>1. UNCHANGED stored /\ \A i \in 1..Len(called) : called[i].data # d
    BY <1>3 DEF AppendCall, redisVars
  <2>2. /\ Len(called') = Len(called) + 1
        /\ \A i \in 1..Len(called) : called'[i] = called[i]
        /\ called'[Len(called) + 1].data = d /\ called'[Len(called) + 1].replica = r
        /\ \A q \in Replica : \A k \in 1..Len(queue'[q]) :
             \/ k \in 1..Len(queue[q]) /\ queue'[q][k] = queue[q][k]
             \/ q = r /\ k = Len(queue[r]) + 1 /\ queue'[q][k] = d
    BY <1>3, CallAdds DEF Inv
  <2>3. \A i \in 1..Len(called') :
          \/ i \in 1..Len(called) /\ called'[i] = called[i] /\ called'[i].data # d
          \/ i = Len(called) + 1 /\ called'[i].data = d /\ called'[i].replica = r
    BY <1>0, <2>1, <2>2
  <2>4. /\ \A m \in 1..Len(stored) : stored[m].data # d
        /\ \A q \in Replica : \A k \in 1..Len(queue[q]) : queue[q][k] # d
    <3>0. CalledOnce
      BY DEF Inv
    <3>1. \A m \in 1..Len(stored) : stored[m].data # d
      BY <2>1, <3>0 DEF CalledOnce
    <3>2. \A q \in Replica : \A k \in 1..Len(queue[q]) : queue[q][k] # d
      BY <2>1, <3>0 DEF CalledOnce
    <3> QED BY <3>1, <3>2
  <2>5. CalledApart'
    BY <2>3 DEF OrderInv, CalledApart
  <2>6. LoggedAsCalled'
    <3> SUFFICES ASSUME NEW m \in 1..Len(stored), NEW n \in 1..Len(stored),
                        NEW i \in 1..Len(called'), NEW j \in 1..Len(called'),
                        m < n, called'[i].replica = called'[j].replica,
                        called'[i].data = stored[m].data, called'[j].data = stored[n].data
                 PROVE  i < j
      BY <2>1 DEF LoggedAsCalled
    <3>1. i \in 1..Len(called) /\ called'[i] = called[i]
      BY <2>3, <2>4
    <3>2. j \in 1..Len(called) /\ called'[j] = called[j]
      BY <2>3, <2>4
    <3>3. LoggedAsCalled
      BY DEF OrderInv
    <3>4. /\ called[i].replica = called[j].replica
          /\ called[i].data = stored[m].data /\ called[j].data = stored[n].data
      BY <3>1, <3>2
    <3> QED BY <3>1, <3>2, <3>3, <3>4 DEF LoggedAsCalled
  <2>7. QueuedAsCalled'
    <3> SUFFICES ASSUME NEW q \in Replica, NEW k \in 1..Len(queue'[q]), NEW i \in 1..Len(called'),
                        called'[i].data = queue'[q][k]
                 PROVE  /\ called'[i].replica = q
                        /\ \A l \in 1..Len(queue'[q]), j \in 1..Len(called') :
                             k < l /\ called'[j].data = queue'[q][l] => i < j
                        /\ \A m \in 1..Len(stored), j \in 1..Len(called') :
                             called'[j].replica = q /\ called'[j].data = stored[m].data => j <= i
      <4>1. stored' = stored
        BY <2>1
      <4> QED BY <4>1 DEF QueuedAsCalled
    <3>1. CASE queue'[q][k] = d
      <4>1. q = r /\ k = Len(queue[r]) + 1 /\ i = Len(called) + 1
        <5>1. ~(k \in 1..Len(queue[q]) /\ queue'[q][k] = queue[q][k])
          BY <2>4, <3>1
        <5>2. q = r /\ k = Len(queue[r]) + 1
          BY <2>2, <5>1
        <5>3. i = Len(called) + 1
          BY <2>3, <3>1
        <5> QED BY <5>2, <5>3
      <4>2. \A l \in 1..Len(queue'[q]) : ~(k < l)
        <5>1. \A l \in 1..Len(queue'[q]) : l \in 1..Len(queue[r]) \/ l = Len(queue[r]) + 1
          BY <2>2, <4>1
        <5> QED BY <1>0, <4>1, <5>1
      <4>3. \A j \in 1..Len(called') : j <= i
        BY <1>0, <2>2, <4>1
      <4> QED BY <2>2, <4>1, <4>2, <4>3
    <3>2. CASE queue'[q][k] # d
      <4>1. /\ k \in 1..Len(queue[q]) /\ queue'[q][k] = queue[q][k]
            /\ i \in 1..Len(called) /\ called'[i] = called[i]
        BY <2>2, <2>3, <3>2
      <4>2. called[i].data = queue[q][k]
        BY <4>1
      <4>3. ASSUME NEW l \in 1..Len(queue'[q]), NEW j \in 1..Len(called'),
                   k < l, called'[j].data = queue'[q][l]
            PROVE  i < j
        <5>1. CASE j = Len(called) + 1
          BY <1>0, <4>1, <5>1
        <5>2. CASE j \in 1..Len(called) /\ called'[j] = called[j] /\ called'[j].data # d
          <6>1. l \in 1..Len(queue[q]) /\ queue'[q][l] = queue[q][l]
            BY <2>2, <4>3, <5>2
          <6>2. QueuedAsCalled /\ called[j].data = queue[q][l]
            BY <4>3, <5>2, <6>1 DEF OrderInv
          <6> QED BY <4>1, <4>2, <4>3, <5>2, <6>1, <6>2, Zenon DEF QueuedAsCalled
        <5> QED BY <2>3, <5>1, <5>2
      <4>4. ASSUME NEW m \in 1..Len(stored), NEW j \in 1..Len(called'),
                   called'[j].replica = q, called'[j].data = stored[m].data
            PROVE  j <= i
        <5>1. j \in 1..Len(called) /\ called'[j] = called[j]
          BY <2>3, <2>4, <4>4
        <5> QED BY <4>1, <4>2, <4>4, <5>1 DEF OrderInv, QueuedAsCalled
      <4>5. called'[i].replica = q
        BY <4>1, <4>2 DEF OrderInv, QueuedAsCalled
      <4> QED BY <4>3, <4>4, <4>5
    <3> QED BY <3>1, <3>2
  <2> QED BY <2>5, <2>6, <2>7 DEF OrderInv
<1>4. CASE UNCHANGED <<stored, queue, called>>
  BY <1>4 DEF OrderInv, CalledApart, QueuedAsCalled, LoggedAsCalled
<1>5. ASSUME NEW r \in Replica, Publish(r) PROVE UNCHANGED <<stored, queue, called>>
  BY <1>5 DEF Publish, replicaVars, history
<1>6. ASSUME UNCHANGED vars PROVE UNCHANGED <<stored, queue, called>>
  BY <1>6 DEF vars, redisVars, replicaVars, history
<1> QED BY <1>1, <1>2, <1>3, <1>4, <1>5, <1>6, QueueShrinks DEF Next, Progress

\* Whatever is lost, retried or rejected in between, the records of one replica
\* are in the order in which its append() calls came.
THEOREM LoggedInCallOrder == Spec => []InCallOrder
<1>1. Init => OrderInv
  BY EmptySeq DEF Init, OrderInv, CalledApart, QueuedAsCalled, LoggedAsCalled
<1>2. Inv /\ Inv' /\ OrderInv /\ [Next]_vars => OrderInv'
  BY OrderStep
<1>3. Inv /\ OrderInv => InCallOrder
  <2> SUFFICES ASSUME Inv, OrderInv, NEW m \in 1..Len(stored), NEW n \in 1..Len(stored),
                      NEW i \in 1..Len(called), NEW j \in 1..Len(called),
                      stored[m].data = called[i].data, stored[n].data = called[j].data,
                      called[i].replica = called[j].replica
               PROVE  m < n <=> i < j
    BY DEF InCallOrder
  <2>1. m < n => i < j
    BY DEF OrderInv, LoggedAsCalled
  <2>2. n < m => j < i
    BY DEF OrderInv, LoggedAsCalled
  <2>3. m = n => i = j
    BY DEF OrderInv, CalledApart
  <2> QED BY <2>1, <2>2, <2>3
<1> QED BY <1>1, <1>2, <1>3, InitInv, InvStep, PTL DEF Spec

---------------------------------------------------------------------------
(* A published root names one prefix of the list.  The levels of a tree are  *)
(* taken up to the first that has one hash.                                  *)

\* A level has no hash twice.
Level(l) ==
  /\ Len(l) \in Nat \ {0} /\ l = [i \in 1..Len(l) |-> l[i]]
  /\ \A i, j \in 1..Len(l) : l[i] = l[j] => i = j

Differ(a, b) ==
  \/ Len(a) < Len(b)
  \/ Len(a) = Len(b) /\ \E i \in 1..Len(a) : a[i] # b[i]

\* The levels of a tree, from the hashes of its records to its root.
Tree(levels, top, hashes, root) ==
  /\ top \in Nat /\ levels[0] = hashes
  /\ \A k \in 0..top : Level(levels[k])
  /\ \A k \in 1..top : Len(levels[k - 1]) > 1 /\ levels[k] = NextLevel(levels[k - 1])
  /\ Len(levels[top]) = 1 /\ levels[top][1] = root

LEMMA HalfUp ==
  ASSUME NEW n \in Nat
  PROVE  (n + 1) \div 2 \in Nat /\ (2 * ((n + 1) \div 2) = n \/ 2 * ((n + 1) \div 2) = n + 1)
OBVIOUS

LEMMA LenOfFunction ==
  ASSUME NEW n \in Nat, NEW f, f = [i \in 1..n |-> f[i]]
  PROVE  Len(f) = n
<1>1. f \in Seq({f[i] : i \in 1..n})
  OBVIOUS
<1> QED BY <1>1

LEMMA NextLevelIs ==
  ASSUME NEW l, Level(l), Len(l) > 1
  PROVE  /\ Level(NextLevel(l))
         /\ Len(NextLevel(l)) = (Len(l) + 1) \div 2
         /\ \A k \in 1..Len(NextLevel(l)) :
              /\ 2 * k - 1 \in 1..Len(l) /\ (2 * k <= Len(l) => 2 * k \in 1..Len(l))
              /\ NextLevel(l)[k] = <<l[2 * k - 1], IF 2 * k <= Len(l) THEN l[2 * k] ELSE l[2 * k - 1]>>
<1> DEFINE h == (Len(l) + 1) \div 2
           node(k) == <<l[2 * k - 1], IF 2 * k <= Len(l) THEN l[2 * k] ELSE l[2 * k - 1]>>
           up == NextLevel(l)
<1>1. /\ Len(l) \in Nat /\ h \in Nat \ {0}
      /\ \A k \in 1..h : 2 * k - 1 \in 1..Len(l) /\ (2 * k <= Len(l) => 2 * k \in 1..Len(l))
  BY DEF Level
<1>2. up = [k \in 1..h |-> node(k)]
  BY DEF NextLevel
<1> HIDE DEF up, h, node
<1>3. Len(up) = h
  <2>1. up = [k \in 1..h |-> up[k]]
    BY <1>2
  <2> QED BY <1>1, <2>1, LenOfFunction
<1>4. \A k \in 1..h : up[k] = node(k)
  BY <1>2
<1>5. \A j, k \in 1..h : up[j] = up[k] => j = k
  <2> SUFFICES ASSUME NEW j \in 1..h, NEW k \in 1..h, up[j] = up[k] PROVE j = k
    OBVIOUS
  <2>1. l[2 * j - 1] = l[2 * k - 1]
    BY <1>4 DEF node
  <2>2. 2 * j - 1 = 2 * k - 1
    BY <1>1, <2>1 DEF Level
  <2> QED BY <1>1, <2>2
<1>6. Level(up)
  BY <1>1, <1>2, <1>3, <1>5 DEF Level
<1> QED BY <1>1, <1>3, <1>4, <1>6 DEF up, h, node

\* Two levels that differ still do one level up.
LEMMA NextLevelsDiffer ==
  ASSUME NEW a, NEW b, Level(a), Level(b), Differ(a, b), Len(a) > 1
  PROVE  Differ(NextLevel(a), NextLevel(b))
<1> DEFINE x == NextLevel(a)
           y == NextLevel(b)
<1>1. Len(a) \in Nat /\ Len(b) \in Nat /\ Len(b) > 1
  <2>1. Len(a) \in Nat /\ Len(b) \in Nat
    BY DEF Level
  <2> QED BY <2>1 DEF Differ
<1>2. /\ Len(x) = (Len(a) + 1) \div 2
      /\ \A k \in 1..Len(x) :
           /\ 2 * k - 1 \in 1..Len(a) /\ (2 * k <= Len(a) => 2 * k \in 1..Len(a))
           /\ x[k] = <<a[2 * k - 1], IF 2 * k <= Len(a) THEN a[2 * k] ELSE a[2 * k - 1]>>
  BY NextLevelIs
<1>3. /\ Len(y) = (Len(b) + 1) \div 2
      /\ \A k \in 1..Len(y) :
           /\ 2 * k - 1 \in 1..Len(b) /\ (2 * k <= Len(b) => 2 * k \in 1..Len(b))
           /\ y[k] = <<b[2 * k - 1], IF 2 * k <= Len(b) THEN b[2 * k] ELSE b[2 * k - 1]>>
  BY <1>1, NextLevelIs
<1> HIDE DEF x, y
<1>h. /\ Len(x) \in Nat /\ (2 * Len(x) = Len(a) \/ 2 * Len(x) = Len(a) + 1)
      /\ Len(y) \in Nat /\ (2 * Len(y) = Len(b) \/ 2 * Len(y) = Len(b) + 1)
  BY <1>1, <1>2, <1>3, HalfUp
<1>4. CASE Len(a) < Len(b)
  <2>1. \/ Len(x) < Len(y)
        \/ Len(x) = Len(y) /\ Len(b) = 2 * Len(x) /\ Len(a) = 2 * Len(x) - 1
    BY <1>1, <1>h, <1>4
  <2>2. CASE Len(x) = Len(y) /\ Len(b) = 2 * Len(x) /\ Len(a) = 2 * Len(x) - 1
    <3> DEFINE k == Len(x)
    <3>1. k \in Nat \ {0}
      BY <1>1, <2>2
    <3>2. x[k] = <<a[2 * k - 1], a[2 * k - 1]>>
      BY <1>2, <2>2, <3>1
    <3>3. y[k] = <<b[2 * k - 1], b[2 * k]>>
      BY <1>3, <2>2, <3>1
    <3>4. b[2 * k - 1] # b[2 * k]
      BY <1>1, <2>2, <3>1 DEF Level
    <3>5. x[k] # y[k]
      BY <3>2, <3>3, <3>4
    <3>6. k \in 1..Len(x)
      BY <3>1
    <3> HIDE DEF k
    <3>7. Differ(x, y)
      BY <2>2, <3>5, <3>6 DEF Differ
    <3> QED BY <3>7 DEF x, y
  <2>3. CASE Len(x) < Len(y)
    <3>1. Differ(x, y)
      BY <2>3 DEF Differ
    <3> QED BY <3>1 DEF x, y
  <2> QED BY <2>1, <2>2, <2>3
<1>5. CASE Len(a) = Len(b)
  <2>1. PICK i \in 1..Len(a) : a[i] # b[i]
    BY <1>1, <1>5 DEF Differ
  <2>2. Len(x) = Len(y)
    BY <1>2, <1>3, <1>5
  <2>3. PICK k \in 1..Len(x) : i = 2 * k - 1 \/ i = 2 * k
    <3>1. i \in Nat
      BY <1>1, <2>1
    <3>2. PICK k \in Nat : 2 * k = i \/ 2 * k = i + 1
      BY <3>1, HalfUp
    <3>3. k \in 1..Len(x)
      BY <1>1, <1>h, <2>1, <3>2
    <3> QED BY <3>2, <3>3
  <2>4. x[k] = <<a[2 * k - 1], IF 2 * k <= Len(a) THEN a[2 * k] ELSE a[2 * k - 1]>>
    BY <1>2, <2>3
  <2>5. y[k] = <<b[2 * k - 1], IF 2 * k <= Len(a) THEN b[2 * k] ELSE b[2 * k - 1]>>
    BY <1>3, <1>5, <2>2, <2>3
  <2>6. x[k] # y[k]
    <3>1. CASE i = 2 * k - 1
      BY <2>1, <2>4, <2>5, <3>1
    <3>2. CASE i = 2 * k
      <4>1. 2 * k <= Len(a)
        BY <2>1, <3>2
      <4> QED BY <2>1, <2>4, <2>5, <3>2, <4>1
    <3> QED BY <2>3, <3>1, <3>2
  <2>7. Differ(x, y)
    BY <2>2, <2>3, <2>6 DEF Differ
  <2> QED BY <2>7 DEF x, y
<1> QED BY <1>4, <1>5 DEF Differ

Hashes(rs) == [i \in 1..Len(rs) |-> hashRecord(rs[i])]

Up(l) == IF Len(l) > 1 THEN NextLevel(l) ELSE l

\* The recursion of merkleRoot() has the levels it says it has.
LEMMA RootIsLoop ==
  ASSUME NEW rs, Len(rs) \in Nat
  PROVE  \E levels :
           /\ merkleRoot(rs) = levels[Len(rs)][1]
           /\ levels[0] = Hashes(rs)
           /\ \A k \in 1..Len(rs) : levels[k] = Up(levels[k - 1])
<1> DEFINE n == Len(rs)
           Is(f, m) == f = [k \in 0..m |-> IF k = 0 THEN Hashes(rs) ELSE Up(f[k - 1])]
           P == {m \in 0..n : \E f : Is(f, m)}
<1>1. n \in Nat
  OBVIOUS
<1> HIDE DEF n
<1>2. 0 \in P
  <2> DEFINE f == [k \in 0..0 |-> Hashes(rs)]
  <2>1. Is(f, 0)
    OBVIOUS
  <2> HIDE DEF f, Is
  <2> QED BY <1>1, <2>1
<1>3. ASSUME NEW m \in 1..n, m - 1 \in P PROVE m \in P
  <2>1. PICK f : Is(f, m - 1)
    BY <1>3
  <2> DEFINE g == [k \in 0..m |-> IF k = m THEN Up(f[m - 1]) ELSE f[k]]
  <2>2. Is(g, m)
    <3>1. \A k \in 0..(m - 1) : g[k] = f[k]
      OBVIOUS
    <3>2. ASSUME NEW k \in 0..m PROVE g[k] = IF k = 0 THEN Hashes(rs) ELSE Up(g[k - 1])
      <4>1. CASE k = m
        <5>1. g[k] = Up(f[m - 1]) /\ k # 0 /\ m - 1 \in 0..(m - 1)
          BY <4>1
        <5>2. g[m - 1] = f[m - 1]
          BY <3>1, <5>1
        <5> HIDE DEF g
        <5> QED BY <4>1, <5>1, <5>2
      <4>2. CASE k # m
        <5>1. k \in 0..(m - 1) /\ (k # 0 => k - 1 \in 0..(m - 1))
          BY <4>2
        <5>2. f[k] = IF k = 0 THEN Hashes(rs) ELSE Up(f[k - 1])
          BY <2>1, <5>1
        <5> HIDE DEF g
        <5> QED BY <3>1, <5>1, <5>2
      <4> QED BY <4>1, <4>2
    <3>3. g = [k \in 0..m |-> g[k]]
      OBVIOUS
    <3> HIDE DEF g
    <3> QED BY <3>2, <3>3
  <2> HIDE DEF g, Is
  <2> QED BY <1>3, <2>2
<1>4. \E f : Is(f, n)
  <2>1. \A m \in 0..n : m \in P
    <3> HIDE DEF P
    <3> QED BY <1>1, <1>2, <1>3, UpTo
  <2>2. n \in P
    BY <1>1, <2>1
  <2> HIDE DEF Is
  <2> QED BY <2>2
<1> DEFINE c == CHOOSE f : Is(f, n)
<1>5. Is(c, n)
  <2> HIDE DEF Is
  <2> QED BY <1>4
<1>6. merkleRoot(rs) = c[n][1]
  BY DEF merkleRoot, Hashes, Up, n
<1> HIDE DEF c
<1>7. c[0] = Hashes(rs) /\ \A k \in 1..n : c[k] = Up(c[k - 1])
  BY <1>1, <1>5
<1> QED BY <1>6, <1>7 DEF n

LEMMA TreeExists ==
  ASSUME NEW rs, Len(rs) \in Nat \ {0}, Level(Hashes(rs)), Len(Hashes(rs)) = Len(rs)
  PROVE  \E levels : \E top \in Nat : Tree(levels, top, Hashes(rs), merkleRoot(rs))
<1> DEFINE n == Len(rs)
<1>1. PICK v : /\ merkleRoot(rs) = v[n][1] /\ v[0] = Hashes(rs)
               /\ \A k \in 1..n : v[k] = Up(v[k - 1])
  BY RootIsLoop
<1>2. n \in Nat \ {0} /\ Level(v[0]) /\ Len(v[0]) = n
  BY <1>1
<1> HIDE DEF n
<1> DEFINE Good(k) == Level(v[k]) /\ (Len(v[k]) = 1 \/ Len(v[k]) + k <= n)
           P == {k \in 0..n : Good(k)}
<1>3. ASSUME NEW k \in 1..n, Good(k - 1) PROVE Good(k)
  <2> DEFINE l == v[k - 1]
  <2>1. v[k] = Up(l) /\ Level(l) /\ Len(l) \in Nat \ {0}
    BY <1>1, <1>3 DEF Level
  <2> HIDE DEF l
  <2>2. CASE Len(l) > 1
    <3>1. v[k] = NextLevel(l)
      BY <2>1, <2>2 DEF Up
    <3>2. Level(v[k]) /\ Len(v[k]) = (Len(l) + 1) \div 2
      BY <2>1, <2>2, <3>1, NextLevelIs
    <3>3. (Len(l) + 1) \div 2 \in Nat /\ (2 * Len(v[k]) = Len(l) \/ 2 * Len(v[k]) = Len(l) + 1)
      BY <2>1, <3>2, HalfUp
    <3>4. Len(l) + (k - 1) <= n
      <4>1. Len(l) = 1 \/ Len(l) + (k - 1) <= n
        BY <1>3 DEF l
      <4>2. Len(l) # 1
        <5>1. \A h \in Nat \ {0} : h > 1 => h # 1
          OBVIOUS
        <5> QED BY <2>1, <2>2, <5>1, Zenon
      <4> QED BY <4>1, <4>2
    <3>5. Len(v[k]) + k <= n
      BY <1>2, <2>1, <2>2, <3>2, <3>3, <3>4
    <3> QED BY <3>2, <3>5
  <2>3. CASE ~(Len(l) > 1)
    <3>1. v[k] = l
      BY <2>1, <2>3, Zenon DEF Up
    <3>2. Len(l) = 1
      <4>1. \A h \in Nat \ {0} : ~(h > 1) => h = 1
        OBVIOUS
      <4> QED BY <2>1, <2>3, <4>1, Zenon
    <3> QED BY <2>1, <3>1, <3>2
  <2> QED BY <2>2, <2>3
<1>4. \A k \in 0..n : Good(k)
  <2>1. 0 \in P /\ \A k \in 1..n : k - 1 \in P => k \in P
    <3>1. Good(0)
      BY <1>2
    <3> HIDE DEF Good
    <3> QED BY <1>2, <1>3, <3>1
  <2>2. \A k \in 0..n : k \in P
    <3> HIDE DEF P
    <3> QED BY <1>2, <2>1, UpTo
  <2> HIDE DEF Good
  <2> QED BY <2>2
<1> DEFINE B == {k \in 0..n : Len(v[k]) = 1}
<1>5. PICK top \in B : \A k \in 0..(top - 1) : k \notin B
  <2>1. Len(v[n]) = 1
    <3>1. Len(v[n]) \in Nat \ {0} /\ (Len(v[n]) = 1 \/ Len(v[n]) + n <= n)
      <4>1. n \in 0..n
        BY <1>2
      <4>2. Good(n)
        BY <1>4, <4>1
      <4> QED BY <4>2 DEF Level
    <3>2. ~(Len(v[n]) + n <= n)
      BY <1>2, <3>1
    <3> QED BY <3>1, <3>2
  <2>2. B # {} /\ B \subseteq Nat
    BY <1>2, <2>1
  <2> HIDE DEF B
  <2> QED BY <2>2, LeastNat
<1>6. top \in 0..n /\ Len(v[top]) = 1
  OBVIOUS
<1>7. \A k \in 0..(top - 1) : Len(v[k]) \in Nat /\ Len(v[k]) > 1
  <2>1. \A k \in 0..(top - 1) : k \in 0..n
    BY <1>2, <1>6
  <2>2. \A k \in 0..(top - 1) : Len(v[k]) \in Nat \ {0} /\ Len(v[k]) # 1
    <3> SUFFICES ASSUME NEW k \in 0..(top - 1) PROVE Len(v[k]) \in Nat \ {0} /\ Len(v[k]) # 1
      OBVIOUS
    <3>1. Good(k) /\ k \in 0..n
      BY <1>4, <2>1
    <3>2. Len(v[k]) # 1
      BY <1>5, <3>1
    <3> QED BY <3>1, <3>2 DEF Level
  <2>3. \A h \in Nat \ {0} : h # 1 => h > 1
    OBVIOUS
  <2> QED BY <2>2, <2>3
<1> HIDE DEF B
<1>8. \A k \in 1..top : Len(v[k - 1]) > 1 /\ v[k] = NextLevel(v[k - 1])
  <2> SUFFICES ASSUME NEW k \in 1..top PROVE Len(v[k - 1]) > 1 /\ v[k] = NextLevel(v[k - 1])
    OBVIOUS
  <2>1. k - 1 \in 0..(top - 1) /\ k \in 1..n
    BY <1>2, <1>6
  <2> QED BY <1>1, <1>7, <2>1 DEF Up
\* Above the top nothing changes.
<1>9. v[n] = v[top]
  <2> DEFINE Q == {i \in 0..(n - top) : v[top + i] = v[top]}
  <2>1. n - top \in Nat /\ top \in Nat
    BY <1>2, <1>6
  <2>2. 0 \in Q
    BY <2>1
  <2>3. ASSUME NEW i \in 1..(n - top), i - 1 \in Q PROVE i \in Q
    <3>1. top + i \in 1..n /\ (top + i) - 1 = top + (i - 1)
      BY <1>2, <2>1
    <3>2. v[top + i] = Up(v[top + (i - 1)]) /\ v[top + (i - 1)] = v[top]
      BY <1>1, <2>3, <3>1
    <3>3. Up(v[top]) = v[top]
      BY <1>6 DEF Up
    <3> QED BY <3>2, <3>3
  <2>4. n - top \in Q
    <3> HIDE DEF Q
    <3>1. \A i \in 0..(n - top) : i \in Q
      BY <2>1, <2>2, <2>3, UpTo
    <3> QED BY <2>1, <3>1
  <2>5. top + (n - top) = n
    BY <1>2, <2>1
  <2> QED BY <2>4, <2>5
<1>10. Tree(v, top, Hashes(rs), merkleRoot(rs))
  <2>1. \A k \in 0..top : Level(v[k])
    <3>1. \A k \in 0..top : k \in 0..n
      BY <1>2, <1>6
    <3> QED BY <1>4, <3>1
  <2>2. top \in Nat
    BY <1>6
  <2> QED BY <1>1, <1>6, <1>8, <1>9, <2>1, <2>2 DEF Tree
<1>11. top \in Nat
  BY <1>6
<1> QED BY <1>10, <1>11

\* The hashes of records are no pairs, and the trees of two lists that differ,
\* even in nothing but their length, have different roots.
LEMMA RootsDiffer ==
  ASSUME NEW a, NEW m, NEW x, NEW p, Tree(a, m, x, p),
         NEW b, NEW n, NEW y, NEW q, Tree(b, n, y, q),
         Differ(x, y), Len(x[1]) = 1
  PROVE  p # q
<1>1. /\ m \in Nat /\ n \in Nat /\ a[0] = x /\ b[0] = y /\ p = a[m][1] /\ q = b[n][1]
      /\ \A k \in 0..m : Level(a[k])
      /\ \A k \in 0..n : Level(b[k])
      /\ \A k \in 1..m : Len(a[k - 1]) > 1 /\ a[k] = NextLevel(a[k - 1])
      /\ \A k \in 1..n : Len(b[k - 1]) > 1 /\ b[k] = NextLevel(b[k - 1])
      /\ Len(a[m]) = 1 /\ Len(b[n]) = 1
  BY DEF Tree
\* A tree as high as the other differs from it on every level.
<1>2. \A k \in 0..m : k <= n /\ Differ(a[k], b[k])
  <2> DEFINE P == {k \in 0..m : k <= n /\ Differ(a[k], b[k])}
  <2>1. 0 \in P
    BY <1>1
  <2>2. ASSUME NEW k \in 1..m, k - 1 \in P PROVE k \in P
    <3>1. /\ k - 1 \in 0..m /\ k - 1 \in 0..n /\ Differ(a[k - 1], b[k - 1])
          /\ Len(a[k - 1]) > 1 /\ a[k] = NextLevel(a[k - 1])
          /\ Level(a[k - 1]) /\ Level(b[k - 1])
      BY <1>1, <2>2
    <3>2. Len(b[k - 1]) > 1
      <4>1. Len(a[k - 1]) \in Nat /\ Len(b[k - 1]) \in Nat
        BY <3>1 DEF Level
      <4> QED BY <3>1, <4>1 DEF Differ
    <3>3. k - 1 # n
      <4> SUFFICES ASSUME k - 1 = n PROVE FALSE
        OBVIOUS
      <4>1. Len(b[k - 1]) = 1
        BY <1>1, Zenon
      <4> QED BY <3>2, <4>1
    <3>4. k \in 1..n /\ k <= n /\ k \in 0..m
      BY <1>1, <3>1, <3>3
    <3>5. b[k] = NextLevel(b[k - 1])
      BY <1>1, <3>4
    <3>6. Differ(a[k], b[k])
      BY <3>1, <3>5, NextLevelsDiffer
    <3> QED BY <3>4, <3>6
  <2>3. \A k \in 0..m : k \in P
    <3> HIDE DEF P
    <3> QED BY <1>1, <2>1, <2>2, UpTo
  <2> QED BY <2>3
\* The first hash of a level is a pair of which the first is the first below.
<1>3. /\ \A k \in 1..m : \E z : a[k][1] = <<a[k - 1][1], z>>
      /\ \A k \in 1..n : \E z : b[k][1] = <<b[k - 1][1], z>>
  <2>1. ASSUME NEW l, Level(l), Len(l) > 1 PROVE \E z : NextLevel(l)[1] = <<l[1], z>>
    <3>1. 1 \in 1..Len(NextLevel(l)) /\ 2 * 1 - 1 = 1
      <4>1. Len(NextLevel(l)) \in Nat \ {0}
        BY <2>1, NextLevelIs DEF Level
      <4> QED BY <4>1
    <3>2. NextLevel(l)[1] = <<l[2 * 1 - 1], IF 2 * 1 <= Len(l) THEN l[2 * 1] ELSE l[2 * 1 - 1]>>
      BY <2>1, <3>1, NextLevelIs
    <3> QED BY <3>1, <3>2
  <2>2. \A k \in 1..m : k - 1 \in 0..m
    BY <1>1
  <2>3. \A k \in 1..n : k - 1 \in 0..n
    BY <1>1
  <2> QED BY <1>1, <2>1, <2>2, <2>3
<1>4. CASE m = n
  <2>1. Differ(a[m], b[m]) /\ Len(a[m]) = 1 /\ Len(b[m]) = 1
    BY <1>1, <1>2, <1>4
  <2>2. PICK i \in 1..1 : a[m][i] # b[m][i]
    BY <2>1 DEF Differ
  <2>3. i = 1
    OBVIOUS
  <2> QED BY <1>1, <1>4, <2>2, <2>3
<1>5. CASE m # n
  <2> DEFINE P == {k \in 0..m : a[k][1] # b[(n - m) + k][1]}
  <2>1. n - m \in Nat \ {0}
    BY <1>1, <1>2, <1>5
  <2>2. 0 \in P
    <3>1. n - m \in 1..n /\ (n - m) + 0 = n - m
      BY <1>1, <2>1
    <3>2. PICK z : b[n - m][1] = <<b[(n - m) - 1][1], z>>
      BY <1>3, <3>1
    <3>3. Len(b[n - m][1]) = 2
      BY <3>2
    <3>4. a[0][1] # b[n - m][1]
      <4> SUFFICES ASSUME a[0][1] = b[n - m][1] PROVE FALSE
        OBVIOUS
      <4>1. Len(b[n - m][1]) = 1
        BY <1>1, Zenon
      <4> QED BY <3>3, <4>1
    <3>5. 0 \in 0..m
      BY <1>1
    <3> QED BY <3>1, <3>4, <3>5
  <2>3. ASSUME NEW k \in 1..m, k - 1 \in P PROVE k \in P
    <3>1. k \in 0..m /\ (n - m) + k \in 1..n /\ ((n - m) + k) - 1 = (n - m) + (k - 1)
      BY <1>1, <2>1
    <3>2. PICK z : a[k][1] = <<a[k - 1][1], z>>
      BY <1>3
    <3>3. PICK w : b[(n - m) + k][1] = <<b[(n - m) + (k - 1)][1], w>>
      BY <1>3, <3>1
    <3>4. a[k - 1][1] # b[(n - m) + (k - 1)][1]
      BY <2>3
    <3> QED BY <3>1, <3>2, <3>3, <3>4
  <2>4. m \in P
    <3> HIDE DEF P
    <3>1. \A k \in 0..m : k \in P
      BY <1>1, <2>2, <2>3, UpTo
    <3> QED BY <1>1, <3>1
  <2>5. (n - m) + m = n
    BY <1>1
  <2> QED BY <1>1, <2>4, <2>5
<1> QED BY <1>4, <1>5

LEMMA PrefixHashes ==
  ASSUME NEW rs \in Seq(Record), Chained(rs), NEW n \in 1..Len(rs)
  PROVE  LET s == SubSeq(rs, 1, n)
         IN /\ Len(s) = n /\ Len(Hashes(s)) = n /\ Level(Hashes(s))
            /\ Len(Hashes(s)[1]) = 1
<1> DEFINE s == SubSeq(rs, 1, n)
           h == Hashes(s)
<1>1. n \in Nat \ {0} /\ Len(s) = n /\ \A i \in 1..n : s[i] = rs[i] /\ i \in 1..Len(rs)
  OBVIOUS
<1>2. h = [i \in 1..n |-> hashRecord(rs[i])]
  BY <1>1 DEF Hashes
<1> HIDE DEF s, h
<1>3. \A i \in 1..n : h[i] = hashRecord(rs[i]) /\ Len(h[i]) = i
  BY <1>1, <1>2, HashIsPrefix
<1>4. h = [i \in 1..n |-> h[i]]
  BY <1>2
<1>5. Len(h) = n
  BY <1>1, <1>4, LenOfFunction
<1>6. \A i, j \in 1..n : h[i] = h[j] => i = j
  BY <1>3
<1>7. Level(h)
  BY <1>1, <1>4, <1>5, <1>6 DEF Level
<1>8. Len(h[1]) = 1
  <2>1. 1 \in 1..n
    BY <1>1
  <2> QED BY <1>3, <2>1
<1>9. Len(s) = n /\ Len(h) = n /\ Level(h) /\ Len(h[1]) = 1
  BY <1>1, <1>5, <1>7, <1>8
<1> QED BY <1>9 DEF s, h

LEMMA PrefixesApart ==
  ASSUME NEW rs \in Seq(Record), Chained(rs), NEW m \in 1..Len(rs), NEW n \in 1..Len(rs), m < n
  PROVE  merkleRoot(SubSeq(rs, 1, m)) # merkleRoot(SubSeq(rs, 1, n))
<1> DEFINE s == SubSeq(rs, 1, m)
           t == SubSeq(rs, 1, n)
<1>1. /\ Len(s) = m /\ Len(Hashes(s)) = m /\ Level(Hashes(s)) /\ Len(Hashes(s)[1]) = 1
      /\ Len(t) = n /\ Len(Hashes(t)) = n /\ Level(Hashes(t))
      /\ m \in Nat \ {0} /\ n \in Nat \ {0}
  BY PrefixHashes
<1> HIDE DEF s, t
<1>2. PICK a : \E top \in Nat : Tree(a, top, Hashes(s), merkleRoot(s))
  BY <1>1, TreeExists
<1>3. PICK b : \E top \in Nat : Tree(b, top, Hashes(t), merkleRoot(t))
  BY <1>1, TreeExists
<1>4. Differ(Hashes(s), Hashes(t))
  BY <1>1 DEF Differ
<1>5. merkleRoot(s) # merkleRoot(t)
  BY <1>1, <1>2, <1>3, <1>4, RootsDiffer
<1> QED BY <1>5 DEF s, t

\* What was published is the root of a prefix of the list.
RootKnown ==
  published # NoRoot => \E n \in 1..Len(stored) : published = merkleRoot(SubSeq(stored, 1, n))

LEMMA RootStep ==
  ASSUME Inv, Inv', RootKnown, [Next]_vars
  PROVE  RootKnown'
<1>1. stored \in Seq(Record) /\ stored' \in Seq(Record) /\ Len(stored) \in Nat /\ Len(stored') \in Nat
  BY DEF Inv, AuditTypeOK
<1>2. ASSUME UNCHANGED published, Len(stored) <= Len(stored'),
             \A i \in 1..Len(stored) : stored'[i] = stored[i]
      PROVE  RootKnown'
  <2>1. \A n \in 1..Len(stored) : n \in 1..Len(stored') /\ SubSeq(stored', 1, n) = SubSeq(stored, 1, n)
    BY <1>1, <1>2
  <2> QED BY <1>2, <2>1 DEF RootKnown
<1>3. ASSUME NEW r \in Replica, CompareAndPush(r) PROVE RootKnown'
  <2>1. UNCHANGED published
    BY <1>3 DEF CompareAndPush
  <2>2. Len(stored) <= Len(stored') /\ \A i \in 1..Len(stored) : stored'[i] = stored[i]
    <3>1. \/ UNCHANGED stored
          \/ Len(stored') = Len(stored) + 1 /\ \A i \in 1..Len(stored) : stored'[i] = stored[i]
      BY <1>3, Pushed
    <3> QED BY <1>1, <3>1
  <2> QED BY <1>2, <2>1, <2>2
<1>4. ASSUME NEW r \in Replica, Publish(r) PROVE RootKnown'
  <2> DEFINE n == Len(records[r])
  <2>1. published' = merkleRoot(records[r]) /\ UNCHANGED stored /\ records[r] # << >>
    BY <1>4 DEF Publish
  <2>2. /\ records[r] \in Seq(Record) /\ n <= Len(stored)
        /\ \A i \in 1..n : records[r][i] = stored[i]
    BY DEF Inv, AuditTypeOK, Prefixes
  <2>3. n \in 1..Len(stored)
    BY <1>1, <2>1, <2>2, EmptySeq
  <2>4. records[r] = SubSeq(stored, 1, n)
    <3>1. SubSeq(stored, 1, n) \in Seq(Record) /\ Len(SubSeq(stored, 1, n)) = n
          /\ \A i \in 1..n : SubSeq(stored, 1, n)[i] = stored[i]
      BY <1>1, <2>3
    <3> QED BY <2>2, <3>1, SeqEqual
  <2> QED BY <2>1, <2>3, <2>4 DEF RootKnown
<1>5. CASE UNCHANGED <<stored, published>>
  BY <1>5 DEF RootKnown
<1>6. ASSUME NEW r \in Replica,
             \/ Load(r) \/ LoadFails(r) \/ Crash(r) \/ Start(r) \/ RejectBroken(r)
             \/ Reload(r) \/ RedisFails(r) \/ Resolve(r) \/ \E d \in Decision : AppendCall(r, d)
      PROVE  UNCHANGED <<stored, published>>
  BY <1>6 DEF Load, LoadFails, Crash, Start, RejectBroken, Reload, RedisFails, Resolve, AppendCall, redisVars
<1>7. ASSUME UNCHANGED vars PROVE UNCHANGED <<stored, published>>
  BY <1>7 DEF vars, redisVars
<1> QED BY <1>3, <1>4, <1>5, <1>6, <1>7 DEF Next, Progress

\* A root that publishAuditRoot() ever wrote stands for one state of the list: no
\* two lengths of it have the same root, however the tree pads its levels.
THEOREM RootsAreUnambiguous == Spec => []RootNamesOnePrefix
<1>1. Init => RootKnown
  BY DEF Init, RootKnown
<1>2. Inv /\ Inv' /\ RootKnown /\ [Next]_vars => RootKnown'
  BY RootStep
<1>3. Inv /\ RootKnown => RootNamesOnePrefix
  <2> SUFFICES ASSUME Inv, RootKnown, published # NoRoot
               PROVE  Cardinality({n \in 1..Len(stored) : merkleRoot(SubSeq(stored, 1, n)) = published}) = 1
    BY DEF RootNamesOnePrefix
  <2>1. PICK m \in 1..Len(stored) : published = merkleRoot(SubSeq(stored, 1, m))
    BY DEF RootKnown
  <2>2. stored \in Seq(Record) /\ Chained(stored)
    BY DEF Inv, AuditTypeOK
  <2>3. \A n \in 1..Len(stored) : merkleRoot(SubSeq(stored, 1, n)) = published => n = m
    <3> SUFFICES ASSUME NEW n \in 1..Len(stored), n # m
                 PROVE  merkleRoot(SubSeq(stored, 1, n)) # merkleRoot(SubSeq(stored, 1, m))
      BY <2>1
    <3>1. n < m \/ m < n
      OBVIOUS
    <3> QED BY <2>2, <3>1, PrefixesApart
  <2>4. {n \in 1..Len(stored) : merkleRoot(SubSeq(stored, 1, n)) = published} = {m}
    BY <2>1, <2>3
  <2> QED BY <2>4, FS_Singleton
<1> QED BY <1>1, <1>2, <1>3, InitInv, InvStep, PTL DEF Spec


---------------------------------------------------------------------------
(* The log implements what SharedLog promises. *)

LEMMA DataOf ==
  ASSUME NEW rs \in Seq(Record)
  PROVE  /\ Data(rs) \in Seq(Decision) /\ Len(Data(rs)) = Len(rs) /\ Len(rs) \in Nat
         /\ \A i \in 1..Len(rs) : Data(rs)[i] = rs[i].data
<1>1. \A i \in 1..Len(rs) : rs[i] \in Record
  BY ElementOfSeq
<1> QED BY <1>1 DEF Data, Record

LEMMA DataOfPrefix ==
  ASSUME NEW rs \in Seq(Record), NEW st \in Seq(Record), Len(rs) <= Len(st),
         \A i \in 1..Len(rs) : rs[i] = st[i]
  PROVE  Len(rs) \in 0..Len(Data(st)) /\ Data(rs) = SubSeq(Data(st), 1, Len(rs))
<1>1. Len(rs) \in 0..Len(Data(st))
  BY DataOf
<1>2. Data(st) \in Seq(Decision) /\ \A i \in 1..Len(rs) : Data(st)[i] = rs[i].data
  BY DataOf
<1>3. SubSeq(Data(st), 1, Len(rs)) = [i \in 1..Len(rs) |-> Data(st)[i]]
  BY <1>1, <1>2
<1> QED BY <1>1, <1>2, <1>3 DEF Data

LEMMA DataOfPush ==
  ASSUME NEW rs \in Seq(Record), NEW new \in Seq(Record), Len(new) = Len(rs) + 1,
         \A i \in 1..Len(rs) : new[i] = rs[i]
  PROVE  Data(new) = Append(Data(rs), new[Len(new)].data)
<1> DEFINE d == new[Len(new)].data
<1>1. /\ Data(rs) \in Seq(Decision) /\ Len(Data(rs)) = Len(rs) /\ Len(rs) \in Nat
      /\ \A i \in 1..Len(rs) : Data(rs)[i] = rs[i].data
  BY DataOf
<1>2. /\ Data(new) \in Seq(Decision) /\ Len(Data(new)) = Len(rs) + 1
      /\ \A i \in 1..Len(new) : Data(new)[i] = new[i].data
  BY DataOf
<1>3. d \in Decision
  <2>1. Len(new) \in 1..Len(new)
    BY <1>1
  <2>2. new[Len(new)] \in Record
    BY <2>1, ElementOfSeq
  <2> QED BY <2>2 DEF Record
<1> HIDE DEF d
<1>4. /\ Append(Data(rs), d) \in Seq(Decision) /\ Len(Append(Data(rs), d)) = Len(rs) + 1
      /\ \A i \in 1..Len(rs) : Append(Data(rs), d)[i] = rs[i].data
      /\ Append(Data(rs), d)[Len(rs) + 1] = d
  BY <1>1, <1>3, AppendProperties
<1>5. \A i \in 1..(Len(rs) + 1) : Data(new)[i] = Append(Data(rs), d)[i]
  BY <1>1, <1>2, <1>4 DEF d
<1> QED BY <1>2, <1>4, <1>5, SeqEqual DEF d

\* Every replica sees a prefix of the log.
LEMMA ViewsArePrefixes ==
  ASSUME Inv, NEW r \in Replica
  PROVE  /\ Len(records[r]) \in 0..Len(Data(stored))
         /\ Data(records[r]) = SubSeq(Data(stored), 1, Len(records[r]))
<1>1. records[r] \in Seq(Record) /\ stored \in Seq(Record)
  BY DEF Inv, AuditTypeOK
<1>2. Len(records[r]) <= Len(stored) /\ \A i \in 1..Len(records[r]) : records[r][i] = stored[i]
  BY DEF Inv, Prefixes
<1> QED BY <1>1, <1>2, DataOfPrefix

LEMMA PushIsAdd ==
  ASSUME Inv, Inv', NEW r \in Replica, CompareAndPush(r)
  PROVE  UNCHANGED <<stored, records, acked>> \/ \E e \in Decision : Shared!Add(e)
<1>0. UNCHANGED <<records, acked>> /\ pc[r] = "ready" /\ Pending(r)
  BY DEF CompareAndPush
<1>1. CASE UNCHANGED stored
  BY <1>0, <1>1
<1>2. CASE /\ Len(stored') = Len(stored) + 1
           /\ \A i \in 1..Len(stored) : stored'[i] = stored[i]
           /\ stored'[Len(stored) + 1] =
                [prevHash |-> Prefix(stored, Len(stored)), data |-> Head(queue[r])]
  <2> DEFINE e == Head(queue[r])
  <2>0. stored \in Seq(Record) /\ stored' \in Seq(Record)
    BY DEF Inv, AuditTypeOK
  <2>1. e \in Decision /\ e = queue[r][1] /\ 1 \in 1..Len(queue[r])
    <3>1. queue[r] \in Seq(Decision) /\ queue[r] # << >>
      BY <1>0 DEF Inv, AuditTypeOK, Pending
    <3> QED BY <3>1
  <2>2. \A m \in 1..Len(stored) : stored[m].data # e
    BY <1>0, <2>1 DEF Inv, QueuedUnlogged
  <2>3. ~Shared!Logged(e)
    BY <2>0, <2>2, DataOf DEF Shared!Logged
  <2>4. Data(stored') = Append(Data(stored), e)
    <3>1. stored'[Len(stored')].data = e
      BY <1>2
    <3> QED BY <1>2, <2>0, <3>1, DataOfPush
  <2>5. Data(stored)' = Data(stored')
    BY DEF Data
  <2>6. [q \in Replica |-> Data(records[q])]' = [q \in Replica |-> Data(records[q])]
    BY <1>0 DEF Data
  <2>7. Shared!Add(e)
    BY <1>0, <2>3, <2>4, <2>5, <2>6 DEF Shared!Add
  <2> QED BY <2>1, <2>7
<1> QED BY <1>1, <1>2, Pushed

LEMMA StepOfReplica ==
  ASSUME Inv, Inv', UNCHANGED stored, NEW r \in Replica,
         \A q \in Replica : q # r => records'[q] = records[q]
  PROVE  /\ Data(stored)' = Data(stored)
         /\ Len(records'[r]) \in 0..Len(Data(stored))
         /\ [q \in Replica |-> Data(records[q])]' =
              [[q \in Replica |-> Data(records[q])] EXCEPT ![r] =
                 SubSeq(Data(stored), 1, Len(records'[r]))]
<1>1. Data(stored)' = Data(stored)
  BY DEF Data
<1>2. /\ Len(records'[r]) \in 0..Len(Data(stored'))
      /\ Data(records'[r]) = SubSeq(Data(stored'), 1, Len(records'[r]))
  <2>1. records'[r] \in Seq(Record) /\ stored' \in Seq(Record)
    BY DEF Inv, AuditTypeOK
  <2>2. /\ Len(records'[r]) <= Len(stored')
        /\ \A i \in 1..Len(records'[r]) : records'[r][i] = stored'[i]
    BY DEF Inv, Prefixes
  <2> QED BY <2>1, <2>2, DataOfPrefix
<1>3. Data(stored') = Data(stored)
  BY DEF Data
<1>4. [q \in Replica |-> Data(records[q])]' = [q \in Replica |-> Data(records'[q])]
  BY DEF Data
<1>5. \A q \in Replica : q # r => Data(records'[q]) = Data(records[q])
  BY DEF Data
<1> QED BY <1>1, <1>2, <1>3, <1>4, <1>5

LEMMA ResolveIsAcknowledge ==
  ASSUME Inv, Inv', NEW r \in Replica, Resolve(r)
  PROVE  \E e \in Decision : Shared!Acknowledge(r, e)
<1> DEFINE e == Head(queue[r])
<1> DEFINE n == Len(records'[r])
<1>1. /\ Len(records[r]) + 1 <= Len(stored)
      /\ n = Len(records[r]) + 1
      /\ \A q \in Replica : q # r => records'[q] = records[q]
      /\ stored[Len(records[r]) + 1].data = e
  BY Resolved
<1>2. UNCHANGED stored /\ acked' = acked \cup {e}
  BY DEF Resolve, redisVars, NextCall
<1>3. /\ Data(stored)' = Data(stored)
      /\ n \in 0..Len(Data(stored))
      /\ [q \in Replica |-> Data(records[q])]' =
           [[q \in Replica |-> Data(records[q])] EXCEPT ![r] = SubSeq(Data(stored), 1, n)]
  BY <1>1, <1>2, StepOfReplica
<1>4. stored \in Seq(Record) /\ Len(records[r]) \in Nat
  BY DEF Inv, AuditTypeOK
<1>5. n \in 1..Len(Data(stored)) /\ Data(stored)[n] = e /\ e \in Decision
  <2>1. n \in 1..Len(stored) /\ stored[n].data = e
    BY <1>1, <1>4
  <2>2. stored[n] \in Record
    BY <1>4, <2>1, ElementOfSeq
  <2> QED BY <1>4, <2>1, <2>2, DataOf DEF Record
<1> HIDE DEF e, n
<1>6. Shared!Acknowledge(r, e)
  BY <1>2, <1>3, <1>5 DEF Shared!Acknowledge
<1> QED BY <1>5, <1>6

LEMMA OtherIsLook ==
  ASSUME Inv, Inv', NEW r \in Replica, Views(r), UNCHANGED acked
  PROVE  Shared!Look(r)
<1> DEFINE n == Len(records'[r])
<1>1. /\ Data(stored)' = Data(stored)
      /\ n \in 0..Len(Data(stored))
      /\ [q \in Replica |-> Data(records[q])]' =
           [[q \in Replica |-> Data(records[q])] EXCEPT ![r] = SubSeq(Data(stored), 1, n)]
  BY StepOfReplica DEF Views
<1> HIDE DEF n
<1> QED BY <1>1 DEF Shared!Look

\* Appends from many replicas, with attempts lost, calls failing and processes
\* restarting, amount to one log to which each decision is added once, of which
\* every replica sees a prefix, and in which an acknowledged decision stays.
THEOREM ImplementsSharedLog == Spec => IsSharedLog
<1>1. Init => Shared!LogInit
  <2> SUFFICES ASSUME Init PROVE Shared!LogInit
    OBVIOUS
  <2>1. Data(<< >>) = << >>
    BY DEF Data
  <2> QED BY <2>1 DEF Init, Shared!LogInit
<1>2. Inv /\ Inv' /\ [Next]_vars => [Shared!LogNext]_Shared!logVars
  <2> SUFFICES ASSUME Inv, Inv', [Next]_vars PROVE [Shared!LogNext]_Shared!logVars
    OBVIOUS
  <2>1. ASSUME UNCHANGED <<stored, records, acked>> PROVE UNCHANGED Shared!logVars
    BY <2>1 DEF Shared!logVars, Data
  <2>2. ASSUME NEW r \in Replica, CompareAndPush(r)
        PROVE  [Shared!LogNext]_Shared!logVars
    BY <2>1, <2>2, PushIsAdd DEF Shared!LogNext
  <2>3. ASSUME NEW r \in Replica, Resolve(r) PROVE Shared!LogNext
    BY <2>3, ResolveIsAcknowledge DEF Shared!LogNext
  <2>4. ASSUME NEW r \in Replica,
               \/ Load(r) \/ LoadFails(r) \/ Crash(r) \/ Start(r) \/ RejectBroken(r)
               \/ Reload(r) \/ RedisFails(r)
        PROVE  Shared!LogNext
    <3>1. UNCHANGED acked
      BY <2>4 DEF Load, LoadFails, Crash, Start, RejectBroken, Reload, RedisFails, history
    <3>2. Shared!Look(r)
      BY <2>4, <3>1, OtherSteps, OtherIsLook
    <3> QED BY <3>2 DEF Shared!LogNext
  <2>5. ASSUME NEW r \in Replica, Publish(r) \/ \E d \in Decision : AppendCall(r, d)
        PROVE  UNCHANGED <<stored, records, acked>>
    BY <2>5 DEF Publish, AppendCall, redisVars, replicaVars, history
  <2>6. ASSUME UNCHANGED vars PROVE UNCHANGED <<stored, records, acked>>
    BY <2>6 DEF vars, redisVars, replicaVars, history
  <2> QED BY <2>1, <2>2, <2>3, <2>4, <2>5, <2>6 DEF Next, Progress
<1> QED BY <1>1, <1>2, InitInv, InvStep, PTL DEF Spec, IsSharedLog, Shared!LogSpec

=============================================================================
