------------------------------ MODULE Idempotency ------------------------------
(***************************************************************************)
(* The idempotency middleware (packages/server/src/middleware/             *)
(* idempotency.ts) for the requests that carry one Idempotency-Key, on     *)
(* every process of the server, within the 24 hours a record is kept.      *)
(*                                                                         *)
(* A Redis command and the code that its reply runs are one step: the      *)
(* replies of one connection arrive in the order of its commands.          *)
(***************************************************************************)
EXTENDS Integers, FiniteSets

CONSTANTS
  Request,      \* requests with the key
  Process,      \* server processes
  Fingerprint,  \* computeFingerprint(): method, path and body
  NoRecord      \* the key is not in Redis; no entry in a map

VARIABLES
  record,    \* the record under idempotency:<key>
  inFlight,  \* the map of each process: the request whose execution it holds
  from,      \* the process and the fingerprint of each request
  pc,        \* where each request is
  awaited,   \* the execution a request awaits through inFlight
  outcome,   \* what the promise of an execution resolved to
  got,       \* the response each client has had
  executed,  \* history: requests whose handler was run
  gaveUp,    \* history: those whose handler was run without the lock
  unheard,   \* history: those whose lock no event of the response releases
  trouble    \* history: "redis" once a command threw, "crash" once a process died

idemVars == <<record, inFlight, from, pc, awaited, outcome, got, executed, gaveUp, unheard, trouble>>

\* Captured response: of which execution, and whether its handler wrote all of it.
Answer == [by : Request, whole : BOOLEAN]
NoAnswer == NoRecord
Marker(q) == [state |-> "in-progress", fingerprint |-> from[q].fingerprint, answer |-> NoAnswer]
Completed(q, a) == [state |-> "completed", fingerprint |-> from[q].fingerprint, answer |-> a]
Record == [state : {"in-progress", "completed"}, fingerprint : Fingerprint,
           answer : Answer \cup {NoAnswer}]
\* What a client is sent: a handler's response, or a refusal by its kind.
Refusal(kind) == [kind |-> kind, answer |-> NoAnswer]
Response(a) == [kind |-> "response", answer |-> a]
Reply == [kind : {"none", "response", "conflict", "replay", "error"},
          answer : Answer \cup {NoAnswer}]

Origin == [process : Process, fingerprint : Fingerprint]

ASSUME NoRecordAssumption ==
  NoRecord \notin Request /\ NoRecord \notin Answer /\ NoRecord \notin Record /\ NoRecord \notin Origin

Waiting == {"get", "lock", "pending", "poll"}
Holding == {"running", "storing", "clearing"}
Active  == Waiting \cup Holding \cup {"unlocked", "failing"}

IdemTypeOK ==
  /\ record \in Record \cup {NoRecord}
  /\ record # NoRecord => (record.state = "completed" <=> record.answer # NoAnswer)
  /\ inFlight \in [Process -> Request \cup {NoRecord}]
  /\ from \in [Request -> Origin \cup {NoRecord}]
  /\ pc \in [Request -> Active \cup {"new", "done", "dead"}]
  /\ awaited \in [Request -> Request \cup {NoRecord}]
  /\ outcome \in [Request -> Answer \cup {NoAnswer}]
  /\ got \in [Request -> Reply]
  /\ executed \subseteq Request /\ gaveUp \subseteq executed /\ unheard \subseteq executed
  /\ trouble \subseteq {"redis", "crash"}
  /\ \A q \in Request :
       /\ from[q] = NoRecord <=> pc[q] = "new"
       /\ got[q].kind = "response" <=> got[q].answer # NoAnswer
       /\ pc[q] = "pending" => awaited[q] # NoRecord
       /\ pc[q] \in Holding \cup {"unlocked"} => q \in executed

IdemInit ==
  /\ record = NoRecord
  /\ inFlight = [p \in Process |-> NoRecord]
  /\ from = [q \in Request |-> NoRecord]
  /\ pc = [q \in Request |-> "new"]
  /\ awaited = [q \in Request |-> NoRecord]
  /\ outcome = [q \in Request |-> NoAnswer]
  /\ got = [q \in Request |-> Refusal("none")]
  /\ executed = {} /\ gaveUp = {} /\ unheard = {} /\ trouble = {}

Goto(q, to) == pc' = [pc EXCEPT ![q] = to]
Matches(q) == record.fingerprint = from[q].fingerprint
Respond(q, reply) == got' = [got EXCEPT ![q] = reply]
Answered(q) == got[q].answer # NoAnswer

---------------------------------------------------------------------------
(* The fast path, the lock, and the wait for who holds it. *)

\* A mutating request with the key reaches the middleware.
Arrive(q, p, f) ==
  /\ pc[q] = "new"
  /\ from' = [from EXCEPT ![q] = [process |-> p, fingerprint |-> f]]
  /\ Goto(q, "get")
  /\ UNCHANGED <<record, inFlight, awaited, outcome, got, executed, gaveUp, unheard, trouble>>

\* Mutant of AnswerFrom: the fingerprint of the record is not looked at.
AnswerFromAny(q) ==
  /\ Respond(q, IF record.state = "completed" THEN Response(record.answer)
                                               ELSE Refusal("conflict"))
  /\ Goto(q, "done")

\* The response to a record that is not in progress with q's fingerprint.
AnswerFrom(q) ==
  /\ Respond(q, IF Matches(q) THEN Response(record.answer) ELSE Refusal("conflict"))
  /\ Goto(q, "done")

InProgress(q) == record # NoRecord /\ Matches(q) /\ record.state = "in-progress"

\* GET before the lock.
Get(q) ==
  /\ pc[q] = "get"
  /\ IF record = NoRecord \/ InProgress(q)
     THEN Goto(q, "lock") /\ UNCHANGED got
     ELSE AnswerFrom(q)
  /\ UNCHANGED <<record, inFlight, from, awaited, outcome, executed, gaveUp, unheard, trouble>>

\* Mutant of Lock: SET without NX.
LockAlways(q) ==
  /\ pc[q] = "lock"
  /\ record' = Marker(q)
  /\ inFlight' = [inFlight EXCEPT ![from[q].process] = q]
  /\ executed' = executed \cup {q}
  /\ Goto(q, "running")
  /\ UNCHANGED <<from, awaited, outcome, got, gaveUp, unheard, trouble>>

\* SET NX took the lock: next() runs the handler.
Lock(q) ==
  /\ pc[q] = "lock"
  /\ record = NoRecord
  /\ record' = Marker(q)
  /\ inFlight' = [inFlight EXCEPT ![from[q].process] = q]
  /\ executed' = executed \cup {q}
  /\ Goto(q, "running")
  /\ UNCHANGED <<from, awaited, outcome, got, gaveUp, unheard, trouble>>

\* It did not: await the execution of this process, or poll.
Locked(q) ==
  /\ pc[q] = "lock"
  /\ record # NoRecord
  /\ LET holder == inFlight[from[q].process] IN
       /\ awaited' = [awaited EXCEPT ![q] = holder]
       /\ Goto(q, IF holder = NoRecord THEN "poll" ELSE "pending")
  /\ UNCHANGED <<record, inFlight, from, outcome, got, executed, gaveUp, unheard, trouble>>

\* `await pending`: its response, without a look at the fingerprint.
Awaited(q) ==
  /\ pc[q] = "pending"
  /\ outcome[awaited[q]] # NoAnswer
  /\ Respond(q, Response(outcome[awaited[q]]))
  /\ Goto(q, "done")
  /\ UNCHANGED <<record, inFlight, from, awaited, outcome, executed, gaveUp, unheard, trouble>>

\* One poll that ends the wait with a response.
Poll(q) ==
  /\ pc[q] = "poll"
  /\ record # NoRecord /\ ~InProgress(q)
  /\ AnswerFrom(q)
  /\ UNCHANGED <<record, inFlight, from, awaited, outcome, executed, gaveUp, unheard, trouble>>

\* The record is gone, or maxWaitMs has passed: the handler runs without the lock.
GiveUp(q) ==
  /\ pc[q] = "poll"
  /\ record = NoRecord \/ InProgress(q)
  /\ executed' = executed \cup {q}
  /\ gaveUp' = gaveUp \cup {q}
  /\ Goto(q, "unlocked")
  /\ UNCHANGED <<record, inFlight, from, awaited, outcome, got, unheard, trouble>>

---------------------------------------------------------------------------
(* The handler, and finalize(). *)

\* The handler ends its response; `finish` starts finalize() under the lock.
Finish(q) ==
  /\ pc[q] \in {"running", "unlocked"}
  /\ Respond(q, Response([by |-> q, whole |-> TRUE]))
  /\ Goto(q, IF pc[q] = "running" THEN "storing" ELSE "done")
  /\ UNCHANGED <<record, inFlight, from, awaited, outcome, executed, gaveUp, unheard, trouble>>

\* The client goes away first: `close` starts finalize() on what was written.
Disconnect(q) ==
  /\ pc[q] = "running"
  /\ Goto(q, "storing")
  /\ UNCHANGED <<record, inFlight, from, awaited, outcome, got, executed, gaveUp, unheard, trouble>>

\* The client went away before the handler was run, when nobody listened for
\* `close`, or goes away between end() and `finish`, when writableEnded is true.
HangUp(q) ==
  /\ pc[q] = "running"
  /\ unheard' = unheard \cup {q}
  /\ Goto(q, "done")
  /\ UNCHANGED <<record, inFlight, from, awaited, outcome, got, executed, gaveUp, trouble>>

Captured(q) == [by |-> q, whole |-> got[q].kind = "response"]

\* finalize() ends: inFlight.delete(key), resolve(captured).
Resolve(q) ==
  /\ inFlight' = [inFlight EXCEPT ![from[q].process] = NoRecord]
  /\ outcome' = [outcome EXCEPT ![q] = Captured(q)]
  /\ Goto(q, "done")

\* Mutant of Store: the record is removed once the response is sent.
StoreNothing(q) ==
  /\ pc[q] = "storing"
  /\ record' = NoRecord
  /\ Resolve(q)
  /\ UNCHANGED <<from, awaited, got, executed, gaveUp, unheard, trouble>>

Store(q) ==
  /\ pc[q] = "storing"
  /\ record' = Completed(q, Captured(q))
  /\ Resolve(q)
  /\ UNCHANGED <<from, awaited, got, executed, gaveUp, unheard, trouble>>

\* The SET throws, having run or not.
StoreFails(q) ==
  /\ pc[q] = "storing"
  /\ record' \in {record, Completed(q, Captured(q))}
  /\ trouble' = trouble \cup {"redis"}
  /\ Goto(q, "clearing")
  /\ UNCHANGED <<inFlight, from, awaited, outcome, got, executed, gaveUp, unheard>>

\* Mutant of Clear: the promise is left pending.
ClearUnresolved(q) ==
  /\ pc[q] = "clearing"
  /\ record' \in {record, NoRecord}
  /\ Goto(q, "done")
  /\ UNCHANGED <<inFlight, from, awaited, outcome, got, executed, gaveUp, unheard, trouble>>

\* DEL after a failed SET; its own failure is ignored.
Clear(q) ==
  /\ pc[q] = "clearing"
  /\ record' \in {record, NoRecord}
  /\ Resolve(q)
  /\ UNCHANGED <<from, awaited, got, executed, gaveUp, unheard, trouble>>

---------------------------------------------------------------------------
(* Failures. *)

\* GET or SET NX throws, having run or not: handle().catch removes whatever
\* execution is in the map, deletes the key, and answers with an error.
RedisThrows(q) ==
  /\ pc[q] \in {"get", "lock", "poll"}
  /\ record' \in {record} \cup (IF pc[q] = "lock" /\ record = NoRecord THEN {Marker(q)} ELSE {})
  /\ inFlight' = [inFlight EXCEPT ![from[q].process] = NoRecord]
  /\ trouble' = trouble \cup {"redis"}
  /\ Respond(q, Refusal("error"))
  /\ Goto(q, "failing")
  /\ UNCHANGED <<from, awaited, outcome, executed, gaveUp, unheard>>

\* The DEL of handle().catch; its own failure is ignored.
DeleteAfterError(q) ==
  /\ pc[q] = "failing"
  /\ record' \in {record, NoRecord}
  /\ Goto(q, "done")
  /\ UNCHANGED <<inFlight, from, awaited, outcome, got, executed, gaveUp, unheard, trouble>>

\* A process dies with its requests; another takes its place.
Crash(p) ==
  /\ \E q \in Request : pc[q] \in Active /\ from[q].process = p
  /\ pc' = [q \in Request |->
       IF pc[q] \in Active /\ from[q].process = p THEN "dead" ELSE pc[q]]
  /\ inFlight' = [inFlight EXCEPT ![p] = NoRecord]
  /\ trouble' = trouble \cup {"crash"}
  /\ UNCHANGED <<record, from, awaited, outcome, got, executed, gaveUp, unheard>>

\* What the middleware does for a request by itself; the polls give up in the end.
Serve(q) ==
  \/ Get(q) \/ Lock(q) \/ Locked(q) \/ Awaited(q) \/ Poll(q) \/ GiveUp(q)
  \/ Finish(q) \/ Store(q) \/ Clear(q) \/ DeleteAfterError(q)

IdemNext ==
  \/ \E q \in Request : Serve(q) \/ Disconnect(q) \/ HangUp(q) \/ StoreFails(q) \/ RedisThrows(q)
  \/ \E p \in Process : Crash(p)

=============================================================================
