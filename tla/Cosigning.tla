------------------------------ MODULE Cosigning ------------------------------
(***************************************************************************)
(* POST /cosign and /cosign/batch on one process: cosigner/service.ts over *)
(* PolicyEngine, the audit record server.ts appends, and Lifecycle.  A     *)
(* step is what runs between two awaits.                                   *)
(***************************************************************************)
EXTENDS PolicyEngine, Lifecycle, FiniteSetsExt

CONSTANTS
  BatchRequest,    \* those sent to /cosign/batch
  TransactionsOf,  \* the transactions of a request; one, unless it is a batch
  MaxTrouble       \* bound: changes of the policy and requests in which an await throws

ASSUME CosigningAssumption ==
  /\ BatchRequest \subseteq Request /\ MaxTrouble \in Nat
  /\ TransactionsOf \in [Request -> Seq(Transaction) \ {<<>>}]
  /\ \A r \in Request : Len(TransactionsOf[r]) = 1 \/ r \in BatchRequest

VARIABLES
  stage,    \* where the handler of a request is
  verdicts, \* per transaction: approved, so far
  next,     \* the transaction that is assessed or signed
  answer,   \* what the client received
  audited,  \* the records appended to the audit log
  faulty,   \* history: the requests during which an await threw
  edits     \* bound: the changes of the policy

handlerVars == <<stage, verdicts, next, answer, audited, faulty>>
vars == <<engineVars, lifecycleVars, handlerVars, edits>>

Active == {"entering", "assessing", "signing", "recording"}

Init ==
  /\ EngineInit /\ LifecycleInit
  /\ stage = [r \in Request |-> "idle"]
  /\ verdicts = [r \in Request |-> <<>>] /\ next = [r \in Request |-> 1]
  /\ answer = [r \in Request |-> "none"]
  /\ audited = {} /\ faulty = {} /\ edits = 0

---------------------------------------------------------------------------
(* The handlers *)

Size(r) == Len(TransactionsOf[r])
Throws(r) ==
  /\ edits + Cardinality(faulty) < MaxTrouble
  /\ faulty' = faulty \cup {r}
Goto(r, s) == stage' = [stage EXCEPT ![r] = s]

\* The response ends the connection, if the client is still there.
Reply(r, a) ==
  /\ Goto(r, "done")
  /\ answer' = IF r \in connections THEN [answer EXCEPT ![r] = a] ELSE answer
  /\ connections' = connections \ {r}
  /\ verdicts' = [verdicts EXCEPT ![r] = <<>>] /\ next' = [next EXCEPT ![r] = 1]

\* Past here the guards of the request pipeline run, which await Redis.
Receive(r) ==
  /\ stage[r] = "idle" /\ phase = "running"
  /\ Goto(r, "entering")
  /\ connections' = connections \cup {r}
  /\ UNCHANGED <<engineVars, inFlight, shutdownVars, verdicts, next, answer, audited, faulty, edits>>

HangUp(r) ==
  /\ r \in connections
  /\ connections' = connections \ {r}
  /\ UNCHANGED <<engineVars, inFlight, shutdownVars, handlerVars, edits>>

\* cosign() is tracked, cosignBatch() is not.
Enter(r) ==
  /\ stage[r] = "entering"
  /\ Goto(r, "assessing")
  /\ inFlight' = IF r \in BatchRequest THEN inFlight ELSE inFlight \cup {r}
  /\ UNCHANGED <<engineVars, connections, shutdownVars, verdicts, next, answer, audited, faulty, edits>>

\* Where a request goes with its verdicts: past the last transaction, to sign
\* those that were approved from index i on, one after another, if there are any.
Proceed(r, vs, i) ==
  LET toSign == {j \in i..Size(r) : vs[j]}
  IN /\ verdicts' = [verdicts EXCEPT ![r] = vs]
     /\ IF Len(vs) < Size(r)
        THEN stage' = stage /\ next' = [next EXCEPT ![r] = Len(vs) + 1] /\ inFlight' = inFlight
        ELSE IF toSign # {}
        THEN Goto(r, "signing") /\ next' = [next EXCEPT ![r] = Min(toSign)] /\ inFlight' = inFlight
        ELSE Goto(r, "recording") /\ next' = [next EXCEPT ![r] = 1] /\ inFlight' = inFlight \ {r}

\* The fraud detector has answered: evaluation follows in the same step.
Assess(r) ==
  LET tx == TransactionsOf[r][next[r]]
  IN /\ stage[r] = "assessing"
     /\ Evaluate(tx)
     /\ Proceed(r, Append(verdicts[r], EvaluateWithAudit(tx).approved), 1)
     /\ UNCHANGED <<connections, shutdownVars, answer, audited, faulty, edits>>

\* The transaction is not the owner's, not in its time bounds, or the detector
\* rejects it.
Decline(r) ==
  /\ stage[r] = "assessing"
  /\ Proceed(r, Append(verdicts[r], FALSE), 1)
  /\ UNCHANGED <<engineVars, connections, shutdownVars, answer, audited, faulty, edits>>

Sign(r) ==
  /\ stage[r] = "signing"
  /\ Proceed(r, verdicts[r], next[r] + 1)
  /\ UNCHANGED <<engineVars, connections, shutdownVars, answer, audited, faulty, edits>>

\* A signer that throws ends cosign(); in a batch its transaction is refused.
SignThrows(r) ==
  /\ stage[r] = "signing"
  /\ Throws(r)
  /\ IF r \in BatchRequest
     THEN /\ Proceed(r, [verdicts[r] EXCEPT ![next[r]] = FALSE], next[r] + 1)
          /\ UNCHANGED <<connections, answer>>
     ELSE Reply(r, "error") /\ inFlight' = inFlight \ {r}
  /\ UNCHANGED <<engineVars, shutdownVars, audited, edits>>

\* The detector, or the XDR of a single transaction, throws.
AssessThrows(r) ==
  /\ stage[r] = "assessing"
  /\ Reply(r, "error")
  /\ inFlight' = inFlight \ {r}
  /\ Throws(r)
  /\ UNCHANGED <<engineVars, shutdownVars, audited, edits>>

SingleEntry(r) == [request |-> r, index |-> 1, approved |-> verdicts[r][1]]

\* Answering beside an append() that is not awaited.
RecordUnawaited(r) ==
  /\ stage[r] = "recording" /\ r \notin BatchRequest
  /\ \E kept \in {{}, {SingleEntry(r)}} : audited' = audited \cup kept
  /\ Reply(r, IF verdicts[r][1] THEN "signed" ELSE "refused")
  /\ UNCHANGED <<engineVars, inFlight, shutdownVars, faulty, edits>>

Record(r) ==
  /\ stage[r] = "recording" /\ r \notin BatchRequest
  /\ audited' = audited \cup {SingleEntry(r)}
  /\ Reply(r, IF verdicts[r][1] THEN "signed" ELSE "refused")
  /\ UNCHANGED <<engineVars, inFlight, shutdownVars, faulty, edits>>

\* append() threw, before or after the record was stored.
RecordThrows(r) ==
  /\ stage[r] = "recording" /\ r \notin BatchRequest
  /\ \E kept \in {{}, {SingleEntry(r)}} : audited' = audited \cup kept
  /\ Reply(r, "error")
  /\ Throws(r)
  /\ UNCHANGED <<engineVars, inFlight, shutdownVars, edits>>

\* cosignBatch() returns an object with the results, which the handler indexes
\* as if it were the results: no item is approved, and every() is not a function.
RecordBatch(r) ==
  /\ stage[r] = "recording" /\ r \in BatchRequest
  /\ \E stored \in SUBSET (1..Size(r)) :
       /\ audited' = audited \cup {[request |-> r, index |-> i, approved |-> FALSE] : i \in stored}
       /\ IF stored = 1..Size(r) THEN UNCHANGED faulty ELSE Throws(r)
  /\ Reply(r, "error")
  /\ UNCHANGED <<engineVars, inFlight, shutdownVars, edits>>

Handler(r) ==
  \/ Receive(r) \/ Enter(r)
  \/ Assess(r) \/ Decline(r) \/ AssessThrows(r)
  \/ Sign(r) \/ SignThrows(r)
  \/ Record(r) \/ RecordThrows(r) \/ RecordBatch(r)

Edit ==
  /\ EngineNext
  /\ edits' = IF clock' = clock THEN edits + 1 ELSE edits
  /\ edits' + Cardinality(faulty) <= MaxTrouble
  /\ UNCHANGED <<lifecycleVars, handlerVars>>

Stop == Sigterm /\ UNCHANGED <<engineVars, handlerVars, edits>>
Shutdown == LifecycleNext /\ UNCHANGED <<engineVars, handlerVars, edits>>

\* Nothing runs in a process that has exited.
Next ==
  /\ phase # "exited"
  /\ \/ \E r \in Request : Handler(r) \/ HangUp(r)
     \/ Edit
     \/ Stop
     \/ Shutdown

Spec == Init /\ [][Next]_vars

\* The steps of shutdown() up to quit() are callbacks and timers of the event loop;
\* nothing is assumed of the detector, the signer, Redis and the clients.
Fairness == WF_lifecycleVars(Drain)
FairSpec == Spec /\ Fairness

---------------------------------------------------------------------------
(* Properties *)

\* Whatever fails, hangs up or shuts down in between: a client that received a
\* signature finds the approval in the audit log.
ReturnedIsRecorded ==
  \A r \in Request :
    answer[r] = "signed" => [request |-> r, index |-> 1, approved |-> TRUE] \in audited

\* A process that has exited cut off only requests whose client had gone, and
\* with code 0 none that was being cosigned when the last connection ended.
DrainedBeforeExit ==
  phase = "exited" =>
    \A r \in Request :
      /\ stage[r] \in Active => r \notin connections
      /\ r \in drainSet /\ exitCode = 0 => stage[r] \notin {"assessing", "signing"}

\* After SIGTERM no operation, however it hangs, keeps a process whose clients
\* have gone: all it can still wait for is an answer of Redis to quit().
ShutdownDrains == (phase = "closing" /\ connections = {}) ~> (phase \in {"quitting", "exited"})

\* "the response reports per-item results" (openapi.ts:187): a batch during which
\* nothing threw, and whose client waits, is answered with them.
BatchReportsResults ==
  \A r \in BatchRequest : r \notin faulty => answer[r] # "error"

=============================================================================
