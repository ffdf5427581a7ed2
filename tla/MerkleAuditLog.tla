---------------------------- MODULE MerkleAuditLog ----------------------------
(***************************************************************************)
(* The hash-chained audit log (packages/server/src/audit/merkle-log.ts)    *)
(* that the server's replicas share through one Redis list, as             *)
(* packages/server/src/server.ts sets it up.                               *)
(*                                                                         *)
(* SHA-256 is taken to be free of collisions: the hash of a record stands  *)
(* for the decisions the chain holds up to that record.  A Redis command   *)
(* is one step; its reply reaches the replica in a later one, or never.    *)
(***************************************************************************)
EXTENDS Integers, Sequences, FiniteSets

CONSTANTS
  Replica,     \* server processes
  Decision,    \* the AuditDecisions append() is called with, all different
  MaxAttempts  \* attempts of one append(): 10

ASSUME AuditAssumption == MaxAttempts \in Nat \ {0}

VARIABLES
  stored,     \* the Redis list lumen:audit:records
  published,  \* the root last published for the hour
  records,    \* this.records of each replica
  queue,      \* the append() calls its writeQueue has not answered
  pc,         \* where the head of the queue is, or the replica itself
  attempt,    \* the loop counter of the head of the queue
  called,     \* history: the append() calls, in order
  acked,      \* history: the decisions whose append() resolved
  began       \* history: length of the list at the head's first attempt

redisVars == <<stored, published>>
replicaVars == <<records, queue, pc, attempt>>
history == <<called, acked, began>>
vars == <<redisVars, replicaVars, history>>

NoHash == << >>
NoRoot == << >>
Hash == Seq(Decision)
Record == [prevHash : Hash, data : Decision]
Call == [replica : Replica, data : Decision]

hashRecord(record) == Append(record.prevHash, record.data)

\* records.at(-1)?.hash ?? ""
LastHash(rs) == IF rs = << >> THEN NoHash ELSE hashRecord(rs[Len(rs)])

\* verify(): every record carries the hash of the one before it.
Verify(rs) ==
  \A i \in 1..Len(rs) : rs[i].prevHash = LastHash(SubSeq(rs, 1, i - 1))

\* Mutant of NextLevel: an unpaired last hash is left out.
NextLevelEven(level) ==
  [k \in 1..(Len(level) \div 2) |-> <<level[2 * k - 1], level[2 * k]>>]

\* One level of the Merkle tree; an unpaired last hash is paired with itself.
NextLevel(level) ==
  [k \in 1..((Len(level) + 1) \div 2) |->
     <<level[2 * k - 1], IF 2 * k <= Len(level) THEN level[2 * k] ELSE level[2 * k - 1]>>]

merkleRoot(rs) ==
  LET level[n \in 0..Len(rs)] ==
        IF n = 0 THEN [i \in 1..Len(rs) |-> hashRecord(rs[i])]
        ELSE IF Len(level[n - 1]) > 1 THEN NextLevel(level[n - 1])
        ELSE level[n - 1]
  IN level[Len(rs)][1]

Running == {"ready", "won", "lost"}

AuditTypeOK ==
  /\ stored \in Seq(Record)
  /\ records \in [Replica -> Seq(Record)]
  /\ queue \in [Replica -> Seq(Decision)]
  /\ pc \in [Replica -> {"down", "loading", "broken"} \cup Running]
  /\ attempt \in [Replica -> 0..(MaxAttempts - 1)]
  /\ called \in Seq(Call)
  /\ acked \subseteq Decision
  /\ began \in [Replica -> Nat]
  /\ \A r \in Replica : pc[r] \in {"won", "lost"} => queue[r] # << >>
  /\ \A r \in Replica : pc[r] \notin Running => attempt[r] = 0 /\ records[r] = << >>

Init ==
  /\ stored = << >> /\ published = NoRoot
  /\ records = [r \in Replica |-> << >>]
  /\ queue = [r \in Replica |-> << >>]
  /\ pc = [r \in Replica |-> "loading"]
  /\ attempt = [r \in Replica |-> 0]
  /\ called = << >> /\ acked = {} /\ began = [r \in Replica |-> 0]

Goto(r, from, to) == pc[r] = from /\ pc' = [pc EXCEPT ![r] = to]

---------------------------------------------------------------------------
(* The process and its first load(). *)

\* The constructor's load() answers: the records are taken once they verify.
Load(r) ==
  /\ pc[r] = "loading"
  /\ IF Verify(stored)
     THEN /\ records' = [records EXCEPT ![r] = stored]
          /\ pc' = [pc EXCEPT ![r] = "ready"]
     ELSE /\ pc' = [pc EXCEPT ![r] = "broken"]
          /\ UNCHANGED records
  /\ UNCHANGED <<redisVars, queue, attempt, history>>

\* It throws: `loading` stays rejected for the life of the process.
LoadFails(r) ==
  /\ Goto(r, "loading", "broken")
  /\ UNCHANGED <<redisVars, records, queue, attempt, history>>

Crash(r) ==
  /\ pc[r] # "down"
  /\ pc' = [pc EXCEPT ![r] = "down"]
  /\ records' = [records EXCEPT ![r] = << >>]
  /\ queue' = [queue EXCEPT ![r] = << >>]
  /\ attempt' = [attempt EXCEPT ![r] = 0]
  /\ UNCHANGED <<redisVars, history>>

Start(r) ==
  /\ Goto(r, "down", "loading")
  /\ UNCHANGED <<redisVars, records, queue, attempt, history>>

---------------------------------------------------------------------------
(* append(): calls queue up, and the head runs alone. *)

Pending(r) == queue[r] # << >>

AppendCall(r, d) ==
  /\ pc[r] # "down"
  /\ \A i \in 1..Len(called) : called[i].data # d
  /\ queue' = [queue EXCEPT ![r] = Append(@, d)]
  /\ called' = Append(called, [replica |-> r, data |-> d])
  /\ UNCHANGED <<redisVars, records, pc, attempt, acked, began>>

\* Mutant of NextCall: the last append() called goes first.
NextCallLast(r) == queue[r][Len(queue[r])]

NextCall(r) == Head(queue[r])

\* append() is answered, and writeQueue goes on to the next call.
Answer(r) ==
  /\ queue' = [queue EXCEPT ![r] = Tail(@)]
  /\ pc' = [pc EXCEPT ![r] = "ready"]
  /\ attempt' = [attempt EXCEPT ![r] = 0]

\* Mutant of RejectBroken: the failed load() is tried again, for ever.
RejectBrokenReloading(r) ==
  /\ Pending(r)
  /\ Goto(r, "broken", "loading")
  /\ UNCHANGED <<redisVars, records, queue, attempt, history>>

\* `await this.loading` throws in every append().
RejectBroken(r) ==
  /\ Pending(r)
  /\ pc[r] = "broken"
  /\ queue' = [queue EXCEPT ![r] = Tail(@)]
  /\ UNCHANGED <<redisVars, records, pc, attempt, history>>

\* Mutant of CompareAndPush: RPUSH without looking at the last record.
CompareAndPushBlind(r) ==
  /\ Pending(r)
  /\ Goto(r, "ready", "won")
  /\ stored' = Append(stored, [prevHash |-> LastHash(records[r]), data |-> NextCall(r)])
  /\ began' = IF attempt[r] = 0 THEN [began EXCEPT ![r] = Len(stored)] ELSE began
  /\ UNCHANGED <<published, records, queue, attempt, called, acked>>

\* appendAuditRecordScript: the record is pushed if the last one has its prevHash.
CompareAndPush(r) ==
  /\ Pending(r)
  /\ pc[r] = "ready"
  /\ IF LastHash(stored) = LastHash(records[r])
     THEN /\ stored' = Append(stored, [prevHash |-> LastHash(records[r]), data |-> NextCall(r)])
          /\ pc' = [pc EXCEPT ![r] = "won"]
     ELSE /\ pc' = [pc EXCEPT ![r] = "lost"]
          /\ UNCHANGED stored
  /\ began' = IF attempt[r] = 0 THEN [began EXCEPT ![r] = Len(stored)] ELSE began
  /\ UNCHANGED <<published, records, queue, attempt, called, acked>>

\* Mutant of Resolve: the record is not added to this.records.
ResolveUnrecorded(r) ==
  /\ pc[r] = "won"
  /\ acked' = acked \cup {NextCall(r)}
  /\ Answer(r)
  /\ UNCHANGED <<redisVars, records, called, began>>

Resolve(r) ==
  /\ pc[r] = "won"
  /\ records' = [records EXCEPT ![r] =
       Append(@, [prevHash |-> LastHash(@), data |-> NextCall(r)])]
  /\ acked' = acked \cup {NextCall(r)}
  /\ Answer(r)
  /\ UNCHANGED <<redisVars, called, began>>

GivesUp(r) == attempt[r] + 1 = MaxAttempts

\* load() after a lost race: throw if it does not verify; else take it over and
\* try again, or throw after the last attempt.
Reload(r) ==
  /\ pc[r] = "lost"
  /\ records' = IF Verify(stored) THEN [records EXCEPT ![r] = stored] ELSE records
  /\ IF Verify(stored) /\ ~GivesUp(r)
     THEN /\ attempt' = [attempt EXCEPT ![r] = @ + 1]
          /\ pc' = [pc EXCEPT ![r] = "ready"]
          /\ UNCHANGED queue
     ELSE Answer(r)
  /\ UNCHANGED <<redisVars, history>>

\* eval() or load() throws, before or after Redis has run the command: append()
\* rejects, and its record may be in the list.
RedisFails(r) ==
  /\ Pending(r)
  /\ pc[r] \in Running
  /\ Answer(r)
  /\ UNCHANGED <<redisVars, records, history>>

\* publishAuditRoot(), on every replica's own interval.
Publish(r) ==
  /\ pc[r] \in Running
  /\ records[r] # << >>
  /\ published' = merkleRoot(records[r])
  /\ UNCHANGED <<stored, replicaVars, history>>

Progress(r) ==
  Load(r) \/ RejectBroken(r) \/ CompareAndPush(r) \/ Resolve(r) \/ Reload(r)

Next ==
  \E r \in Replica :
    \/ Progress(r)
    \/ \E d \in Decision : AppendCall(r, d)
    \/ LoadFails(r) \/ RedisFails(r) \/ Crash(r) \/ Start(r)
    \/ Publish(r)

Spec == Init /\ [][Next]_vars

\* The event loop runs what is ready to run, and Redis answers or throws.
Fairness == \A r \in Replica : WF_vars(Progress(r))

FairSpec == Spec /\ Fairness

---------------------------------------------------------------------------
(* Properties *)

Data(rs) == [i \in 1..Len(rs) |-> rs[i].data]

\* Replicas racing, failing and restarting only ever add to one log, each
\* decision once; every replica's records are a prefix of it, and an append()
\* that resolved is in it.
Shared == INSTANCE SharedLog WITH
  Reader <- Replica,
  Entry <- Decision,
  log <- Data(stored),
  view <- [r \in Replica |-> Data(records[r])]

IsSharedLog == Shared!LogSpec

\* The stored chain passes verify(), so no replica ever refuses to load it.
ChainVerifies == Verify(stored)

\* The decisions of one replica are logged in the order append() was called.
InCallOrder ==
  \A m, n \in 1..Len(stored), i, j \in 1..Len(called) :
    /\ stored[m].data = called[i].data
    /\ stored[n].data = called[j].data
    /\ called[i].replica = called[j].replica
    => (m < n <=> i < j)

\* append() gives up only under contention: every attempt it lost, but the
\* first, which may use old records, was lost to an append made meanwhile.
LostToOthers ==
  \A r \in Replica : pc[r] = "lost" => Len(stored) >= began[r] + attempt[r]

\* A published root names one state of the log, past or present.
RootNamesOnePrefix ==
  published # NoRoot =>
    Cardinality({n \in 1..Len(stored) : merkleRoot(SubSeq(stored, 1, n)) = published}) = 1

\* Every append() is answered, or its process dies.
Waiting(d) == \E r \in Replica, i \in 1..Len(called) :
  /\ called[i] = [replica |-> r, data |-> d]
  /\ \E k \in 1..Len(queue[r]) : queue[r][k] = d

EveryCallAnswered == \A d \in Decision : Waiting(d) ~> ~Waiting(d)

=============================================================================
