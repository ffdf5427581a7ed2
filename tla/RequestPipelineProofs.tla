------------------------- MODULE RequestPipelineProofs -------------------------
(***************************************************************************)
(* What holds of the request pipeline for any requests, processes,         *)
(* payloads and envelopes.                                                 *)
(***************************************************************************)
EXTENDS RequestPipeline, FiniteSetTheorems, TLAPS

LEMMA MarkerType ==
  ASSUME NEW q \in Request, from[q] \in Origin
  PROVE  Marker(q) \in Record /\ Marker(q).state = "in-progress" /\ Marker(q).answer = NoAnswer
BY DEF Marker, Record, Origin

LEMMA CompletedType ==
  ASSUME NEW q \in Request, from[q] \in Origin, NEW a \in Answer
  PROVE  Completed(q, a) \in Record /\ Completed(q, a).state = "completed"
         /\ Completed(q, a).answer = a
BY DEF Completed, Record, Origin

LEMMA CapturedType ==
  ASSUME NEW q \in Request
  PROVE  Captured(q) \in Answer /\ Captured(q) # NoAnswer
<1> DEFINE w == got[q].kind = "response"
<1>1. w \in BOOLEAN
  OBVIOUS
<1>2. [by |-> q, whole |-> w] \in Answer
  <2> HIDE DEF w
  <2> QED  BY <1>1 DEF Answer
<1> QED  BY <1>2, NoRecordAssumption, Zenon DEF Captured, NoAnswer

LEMMA ReplyTypes ==
  /\ \A kind \in {"none", "conflict", "replay", "error"} :
       /\ Refusal(kind) \in Reply
       /\ Refusal(kind).kind # "response" /\ Refusal(kind).answer = NoAnswer
  /\ \A a \in Answer :
       /\ Response(a) \in Reply
       /\ Response(a).kind = "response" /\ Response(a).answer = a /\ a # NoAnswer
BY NoRecordAssumption DEF Refusal, Response, Reply, NoAnswer

---------------------------------------------------------------------------
\* What every action on requests needs of the state it starts from.
LEMMA TypesOf ==
  ASSUME IdemTypeOK, NEW q \in Request
  PROVE  /\ pc[q] \in Active \cup {"new", "done", "dead"}
         /\ pc[q] # "new" => from[q] \in Origin /\ from[q].process \in Process
         /\ got[q] \in Reply
         /\ pc[q] = "pending" => awaited[q] \in Request
         /\ outcome[q] # NoAnswer => outcome[q] \in Answer
         /\ record # NoRecord => record \in Record
         /\ record # NoRecord /\ record.state # "in-progress" => record.answer \in Answer
BY DEF IdemTypeOK, Origin, Record

LEMMA AnswerFromTypes ==
  ASSUME IdemTypeOK, NEW q \in Request, record # NoRecord, ~InProgress(q), AnswerFrom(q)
  PROVE  \E reply \in Reply :
           /\ reply.kind = "response" <=> reply.answer # NoAnswer
           /\ Respond(q, reply)
           /\ Goto(q, "done")
<1>1. CASE Matches(q)
  <2>1. record.answer \in Answer
    BY <1>1, TypesOf DEF InProgress
  <2> QED  BY <1>1, <2>1, ReplyTypes DEF AnswerFrom
<1>2. CASE ~Matches(q)
  BY <1>2, ReplyTypes DEF AnswerFrom
<1> QED  BY <1>1, <1>2

\* A request moves, and is sent something or not.
LEMMA MoveTypes ==
  ASSUME IdemTypeOK, NEW q \in Request, pc[q] # "new",
         NEW to \in Active \cup {"done", "dead"}, Goto(q, to),
         NEW reply \in Reply, reply.kind = "response" <=> reply.answer # NoAnswer,
         Respond(q, reply) \/ UNCHANGED got,
         executed' \in {executed, executed \cup {q}},
         gaveUp' \subseteq executed', unheard' \subseteq executed',
         to \in Holding \cup {"unlocked"} => q \in executed',
         record' \in Record \cup {NoRecord},
         record' # NoRecord => (record'.state = "completed" <=> record'.answer # NoAnswer),
         inFlight' \in [Process -> Request \cup {NoRecord}],
         awaited' \in [Request -> Request \cup {NoRecord}],
         outcome' \in [Request -> Answer \cup {NoAnswer}],
         trouble' \subseteq {"redis", "crash"},
         UNCHANGED from,
         \A r \in Request \ {q} : awaited'[r] = awaited[r],
         to = "pending" => awaited'[q] # NoRecord
  PROVE  IdemTypeOK'
<1>1. pc' \in [Request -> Active \cup {"new", "done", "dead"}]
      /\ pc'[q] = to /\ \A r \in Request \ {q} : pc'[r] = pc[r]
  BY DEF Goto, IdemTypeOK
<1>2. got' \in [Request -> Reply]
      /\ \A r \in Request : got'[r].kind = "response" <=> got'[r].answer # NoAnswer
  BY DEF Respond, IdemTypeOK
<1>3. ASSUME NEW r \in Request
      PROVE  /\ from'[r] = NoRecord <=> pc'[r] = "new"
             /\ got'[r].kind = "response" <=> got'[r].answer # NoAnswer
             /\ pc'[r] = "pending" => awaited'[r] # NoRecord
             /\ pc'[r] \in Holding \cup {"unlocked"} => r \in executed'
  <2>1. from'[r] = NoRecord <=> pc'[r] = "new"
    BY <1>1 DEF IdemTypeOK, Active, Waiting, Holding
  <2> QED  BY <1>1, <1>2, <2>1 DEF IdemTypeOK
<1>4. executed' \subseteq Request
  BY DEF IdemTypeOK
<1>5. from' \in [Request -> Origin \cup {NoRecord}]
  BY DEF IdemTypeOK
<1> QED  BY <1>1, <1>2, <1>3, <1>4, <1>5 DEF IdemTypeOK
LEMMA ServeTypes ==
  ASSUME IdemTypeOK, NEW q \in Request, Serve(q)
  PROVE  IdemTypeOK'
<1> USE NoRecordAssumption
<1>r. got[q] \in Reply /\ (got[q].kind = "response" <=> got[q].answer # NoAnswer)
  BY DEF IdemTypeOK
<1>u. /\ record \in Record \cup {NoRecord}
      /\ record # NoRecord => (record.state = "completed" <=> record.answer # NoAnswer)
      /\ inFlight \in [Process -> Request \cup {NoRecord}]
      /\ awaited \in [Request -> Request \cup {NoRecord}]
      /\ outcome \in [Request -> Answer \cup {NoAnswer}]
      /\ executed \subseteq Request /\ gaveUp \subseteq executed /\ unheard \subseteq executed
      /\ trouble \subseteq {"redis", "crash"}
  BY DEF IdemTypeOK
<1>a. Active \cup {"done", "dead"} = {"get", "lock", "pending", "poll", "running", "storing",
                                      "clearing", "unlocked", "failing", "done", "dead"}
  BY DEF Active, Waiting, Holding
<1>h. Holding = {"running", "storing", "clearing"}
  BY DEF Holding
<1>1. CASE Get(q)
  <2>1. CASE record = NoRecord \/ InProgress(q)
    <3>1. Goto(q, "lock") /\ UNCHANGED got
      BY <1>1, <2>1 DEF Get
    <3> QED  BY <1>1, <1>r, <1>u, <1>a, <1>h, <3>1, MoveTypes DEF Get
  <2>2. CASE record # NoRecord /\ ~InProgress(q)
    <3>1. PICK reply \in Reply :
            /\ reply.kind = "response" <=> reply.answer # NoAnswer
            /\ Respond(q, reply) /\ Goto(q, "done")
      BY <1>1, <2>2, AnswerFromTypes DEF Get
    <3> QED  BY <1>1, <1>u, <1>a, <1>h, <3>1, MoveTypes DEF Get
  <2> QED  BY <2>1, <2>2
<1>2. CASE Lock(q)
  <2>1. from[q] \in Origin /\ from[q].process \in Process
    BY <1>2, TypesOf DEF Lock
  <2>2. record' \in Record /\ (record'.state = "completed" <=> record'.answer # NoAnswer)
    BY <1>2, <2>1, MarkerType DEF Lock
  <2>3. inFlight' \in [Process -> Request \cup {NoRecord}]
    BY <1>2, <1>u DEF Lock
  <2>4. Goto(q, "running") /\ executed' = executed \cup {q} /\ pc[q] # "new"
    BY <1>2 DEF Lock
  <2> QED  BY <1>2, <1>r, <1>u, <1>a, <1>h, <2>2, <2>3, <2>4, MoveTypes DEF Lock
<1>3. CASE Locked(q)
  <2> DEFINE holder == inFlight[from[q].process]
  <2>1. holder \in Request \cup {NoRecord}
    BY <1>3, <1>u, TypesOf DEF Locked
  <2>2. /\ awaited' = [awaited EXCEPT ![q] = holder]
        /\ Goto(q, IF holder = NoRecord THEN "poll" ELSE "pending")
    BY <1>3 DEF Locked
  <2> HIDE DEF holder
  <2>3. /\ awaited' \in [Request -> Request \cup {NoRecord}]
        /\ awaited'[q] = holder /\ \A r \in Request \ {q} : awaited'[r] = awaited[r]
    BY <1>u, <2>1, <2>2
  <2>4. CASE holder = NoRecord
    BY <1>3, <1>r, <1>u, <1>a, <1>h, <2>2, <2>3, <2>4, MoveTypes DEF Locked
  <2>5. CASE holder # NoRecord
    BY <1>3, <1>r, <1>u, <1>a, <1>h, <2>2, <2>3, <2>5, MoveTypes DEF Locked
  <2> QED  BY <2>4, <2>5
<1>4. CASE Awaited(q)
  <2>1. outcome[awaited[q]] \in Answer
    BY <1>4, <1>u, TypesOf DEF Awaited
  <2>2. /\ Respond(q, Response(outcome[awaited[q]])) /\ Goto(q, "done")
        /\ Response(outcome[awaited[q]]) \in Reply
        /\ Response(outcome[awaited[q]]).kind = "response"
        /\ Response(outcome[awaited[q]]).answer # NoAnswer
    BY <1>4, <2>1, ReplyTypes DEF Awaited
  <2> QED  BY <1>4, <1>u, <1>a, <1>h, <2>2, MoveTypes DEF Awaited
<1>5. CASE Poll(q)
  <2>1. PICK reply \in Reply :
          /\ reply.kind = "response" <=> reply.answer # NoAnswer
          /\ Respond(q, reply) /\ Goto(q, "done")
    BY <1>5, AnswerFromTypes DEF Poll
  <2> QED  BY <1>5, <1>u, <1>a, <1>h, <2>1, MoveTypes DEF Poll
<1>6. CASE GiveUp(q)
  BY <1>6, <1>r, <1>u, <1>a, <1>h, MoveTypes DEF GiveUp
<1>7. CASE Finish(q)
  <2> DEFINE answer == [by |-> q, whole |-> TRUE]
  <2>1. answer \in Answer
    BY DEF Answer
  <2>2. /\ Response(answer) \in Reply
        /\ Response(answer).kind = "response" /\ Response(answer).answer # NoAnswer
    BY <2>1, ReplyTypes
  <2>3. Respond(q, Response(answer)) /\ q \in executed
    BY <1>7, <1>h DEF Finish, IdemTypeOK
  <2> HIDE DEF answer
  <2>4. CASE Goto(q, "storing")
    BY <1>7, <1>u, <1>a, <1>h, <2>2, <2>3, <2>4, MoveTypes DEF Finish
  <2>5. CASE Goto(q, "done")
    BY <1>7, <1>u, <1>a, <1>h, <2>2, <2>3, <2>5, MoveTypes DEF Finish
  <2> QED  BY <1>7, <2>4, <2>5 DEF Finish
<1>8. CASE Store(q) \/ Clear(q)
  <2>1. from[q] \in Origin /\ from[q].process \in Process /\ pc[q] # "new"
    BY <1>8, TypesOf DEF Store, Clear
  <2>2. record' \in Record \cup {NoRecord}
        /\ (record' # NoRecord => (record'.state = "completed" <=> record'.answer # NoAnswer))
    BY <1>8, <1>u, <2>1, CompletedType, CapturedType DEF Store, Clear
  <2>3. inFlight' \in [Process -> Request \cup {NoRecord}] /\ Goto(q, "done")
    BY <1>8, <1>u, <2>1 DEF Store, Clear, Resolve
  <2>4. outcome' \in [Request -> Answer \cup {NoAnswer}]
    BY <1>8, <1>u, CapturedType DEF Store, Clear, Resolve
  <2>5. UNCHANGED <<from, awaited, got, executed, gaveUp, unheard, trouble>>
    BY <1>8 DEF Store, Clear
  <2> QED  BY <1>r, <1>u, <1>a, <1>h, <2>1, <2>2, <2>3, <2>4, <2>5, MoveTypes
<1>9. CASE DeleteAfterError(q)
  BY <1>9, <1>r, <1>u, <1>a, <1>h, MoveTypes DEF DeleteAfterError
<1> QED  BY <1>1, <1>2, <1>3, <1>4, <1>5, <1>6, <1>7, <1>8, <1>9 DEF Serve

LEMMA FailureTypes ==
  ASSUME IdemTypeOK, NEW q \in Request,
         Disconnect(q) \/ HangUp(q) \/ StoreFails(q) \/ RedisThrows(q)
  PROVE  IdemTypeOK'
<1>r. got[q] \in Reply /\ (got[q].kind = "response" <=> got[q].answer # NoAnswer)
  BY DEF IdemTypeOK
<1>u. /\ record \in Record \cup {NoRecord}
      /\ record # NoRecord => (record.state = "completed" <=> record.answer # NoAnswer)
      /\ inFlight \in [Process -> Request \cup {NoRecord}]
      /\ awaited \in [Request -> Request \cup {NoRecord}]
      /\ outcome \in [Request -> Answer \cup {NoAnswer}]
      /\ executed \subseteq Request /\ gaveUp \subseteq executed /\ unheard \subseteq executed
      /\ trouble \subseteq {"redis", "crash"}
  BY DEF IdemTypeOK
<1>a. Active \cup {"done", "dead"} = {"get", "lock", "pending", "poll", "running", "storing",
                                      "clearing", "unlocked", "failing", "done", "dead"}
  BY DEF Active, Waiting, Holding
<1>h. Holding = {"running", "storing", "clearing"}
  BY DEF Holding
<1>e. pc[q] \in Holding => q \in executed
  BY DEF IdemTypeOK
<1>1. CASE Disconnect(q)
  BY <1>1, <1>r, <1>u, <1>a, <1>h, <1>e, MoveTypes DEF Disconnect
<1>2. CASE HangUp(q)
  BY <1>2, <1>r, <1>u, <1>a, <1>h, <1>e, MoveTypes DEF HangUp
<1>3. CASE StoreFails(q)
  <2>1. from[q] \in Origin /\ pc[q] # "new" /\ Goto(q, "clearing") /\ q \in executed
    BY <1>3, <1>e, <1>h, TypesOf DEF StoreFails
  <2>2. record' \in Record \cup {NoRecord}
        /\ (record' # NoRecord => (record'.state = "completed" <=> record'.answer # NoAnswer))
    BY <1>3, <1>u, <2>1, CompletedType, CapturedType DEF StoreFails
  <2>3. /\ UNCHANGED <<inFlight, from, awaited, outcome, got, executed, gaveUp, unheard>>
        /\ trouble' \subseteq {"redis", "crash"}
    BY <1>3, <1>u DEF StoreFails
  <2> QED  BY <1>r, <1>u, <1>a, <1>h, <2>1, <2>2, <2>3, MoveTypes
<1>4. CASE RedisThrows(q)
  <2>1. from[q] \in Origin /\ from[q].process \in Process /\ pc[q] # "new"
    BY <1>4, TypesOf DEF RedisThrows
  <2>2. record' \in Record \cup {NoRecord}
        /\ (record' # NoRecord => (record'.state = "completed" <=> record'.answer # NoAnswer))
    BY <1>4, <1>u, <2>1, MarkerType DEF RedisThrows
  <2>3. /\ UNCHANGED <<from, awaited, outcome, executed, gaveUp, unheard>>
        /\ trouble' \subseteq {"redis", "crash"}
        /\ inFlight' \in [Process -> Request \cup {NoRecord}]
        /\ Goto(q, "failing") /\ Respond(q, Refusal("error"))
    BY <1>4, <1>u, <2>1 DEF RedisThrows
  <2>4. /\ Refusal("error") \in Reply
        /\ Refusal("error").kind = "response" <=> Refusal("error").answer # NoAnswer
    BY ReplyTypes
  <2> QED  BY <1>u, <1>a, <1>h, <2>1, <2>2, <2>3, <2>4, MoveTypes
<1> QED  BY <1>1, <1>2, <1>3, <1>4

LEMMA CrashTypes ==
  ASSUME IdemTypeOK, NEW p \in Process, Crash(p)
  PROVE  IdemTypeOK'
<1>1. \A q \in Request : pc'[q] = pc[q] \/ (pc[q] \in Active /\ pc'[q] = "dead")
  BY DEF Crash
<1>2. pc' \in [Request -> Active \cup {"new", "done", "dead"}]
  BY DEF Crash, IdemTypeOK
<1>3. inFlight' \in [Process -> Request \cup {NoRecord}]
  BY DEF Crash, IdemTypeOK
<1>4. UNCHANGED <<record, from, awaited, outcome, got, executed, gaveUp, unheard>>
      /\ trouble' \subseteq {"redis", "crash"}
  BY DEF Crash, IdemTypeOK
<1>5. "new" \notin Active /\ "dead" \notin Holding
  BY DEF Active, Waiting, Holding
<1>6. ASSUME NEW q \in Request
      PROVE  /\ from'[q] = NoRecord <=> pc'[q] = "new"
             /\ got'[q].kind = "response" <=> got'[q].answer # NoAnswer
             /\ pc'[q] = "pending" => awaited'[q] # NoRecord
             /\ pc'[q] \in Holding \cup {"unlocked"} => q \in executed'
  BY <1>1, <1>4, <1>5 DEF IdemTypeOK
<1> QED  BY <1>2, <1>3, <1>4, <1>6 DEF IdemTypeOK

LEMMA ArrivalTypes ==
  ASSUME IdemTypeOK, NEW q \in Request, NEW p \in Process, NEW f \in Fingerprint,
         NEW to \in {"get", "done"}, Goto(q, to), pc[q] = "new",
         from' = [from EXCEPT ![q] = [process |-> p, fingerprint |-> f]],
         \/ UNCHANGED got
         \/ \E kind \in {"replay", "error"} : Respond(q, Refusal(kind)),
         trouble' \subseteq {"redis", "crash"},
         UNCHANGED <<record, inFlight, awaited, outcome, executed, gaveUp, unheard>>
  PROVE  IdemTypeOK'
<1>1. from' \in [Request -> Origin \cup {NoRecord}] /\ from'[q] # NoRecord
      /\ \A r \in Request \ {q} : from'[r] = from[r]
  BY NoRecordAssumption DEF IdemTypeOK, Origin
<1>2. pc' \in [Request -> Active \cup {"new", "done", "dead"}]
      /\ pc'[q] = to /\ \A r \in Request \ {q} : pc'[r] = pc[r]
  BY DEF Goto, IdemTypeOK, Active, Waiting
<1>3. got' \in [Request -> Reply]
      /\ \A r \in Request : got'[r].kind = "response" <=> got'[r].answer # NoAnswer
  <2>1. CASE UNCHANGED got
    BY <2>1 DEF IdemTypeOK
  <2>2. ASSUME NEW kind \in {"replay", "error"}, Respond(q, Refusal(kind))
        PROVE  got' \in [Request -> Reply]
               /\ \A r \in Request : got'[r].kind = "response" <=> got'[r].answer # NoAnswer
    <3>1. Refusal(kind) \in Reply /\ Refusal(kind).kind # "response"
          /\ Refusal(kind).answer = NoAnswer
      BY ReplyTypes
    <3> QED  BY <2>2, <3>1 DEF Respond, IdemTypeOK
  <2> QED  BY <2>1, <2>2
<1>4. ASSUME NEW r \in Request
      PROVE  /\ from'[r] = NoRecord <=> pc'[r] = "new"
             /\ pc'[r] = "pending" => awaited'[r] # NoRecord
             /\ pc'[r] \in Holding \cup {"unlocked"} => r \in executed'
  BY <1>1, <1>2 DEF IdemTypeOK, Holding
<1> QED  BY <1>1, <1>2, <1>3, <1>4 DEF IdemTypeOK

\* TypeOK holds of every reachable state.
THEOREM PipelineTypes == Spec => []TypeOK
<1>1. Init => TypeOK
  <2> SUFFICES ASSUME Init PROVE TypeOK
    OBVIOUS
  <2>1. Refusal("none") \in Reply /\ Refusal("none").kind # "response"
        /\ Refusal("none").answer = NoAnswer
    BY ReplyTypes
  <2>2. IdemTypeOK
    BY <2>1 DEF Init, IdemInit, IdemTypeOK, Holding
  <2> QED  BY <2>2 DEF Init, ReplayInit, TypeOK, ReplayTypeOK
<1>2. TypeOK /\ [Next]_vars => TypeOK'
  <2> SUFFICES ASSUME TypeOK, [Next]_vars PROVE TypeOK'
    OBVIOUS
  <2>i. IdemTypeOK /\ ReplayTypeOK
    BY DEF TypeOK
  <2>1. ASSUME NEW q \in Request, NEW p \in Process, NEW f \in Fingerprint,
               Enter(q, p, f) \/ Refuse(q, p, f) \/ GuardFails(q, p, f)
        PROVE  TypeOK'
    <3>1. /\ pc[q] = "new" /\ (\E to \in {"get", "done"} : Goto(q, to))
          /\ from' = [from EXCEPT ![q] = [process |-> p, fingerprint |-> f]]
          /\ \/ UNCHANGED got
             \/ \E kind \in {"replay", "error"} : Respond(q, Refusal(kind))
          /\ UNCHANGED <<record, inFlight, awaited, outcome, executed, gaveUp, unheard>>
      BY <2>1 DEF Enter, Refuse, GuardFails, Arrive, TurnAway
    <3>2. trouble' \subseteq {"redis", "crash"}
      BY <2>1, <2>i DEF Enter, Refuse, GuardFails, Arrive, IdemTypeOK
    <3>3. IdemTypeOK'
      BY <3>1, <3>2, <2>i, ArrivalTypes
    <3>4. EnvelopesOf[f] \subseteq Envelope
      BY EnvelopesAssumption
    <3>5. ReplayTypeOK'
      BY <2>1, <2>i, <3>4
      DEF Enter, Refuse, GuardFails, ReserveEnvelopes, RefuseReplay, replayVars, ReplayTypeOK
    <3> QED  BY <3>3, <3>5 DEF TypeOK
  <2>2. ASSUME NEW e \in Envelope, Expire(e)
        PROVE  TypeOK'
    <3>1. ReplayTypeOK'
      BY <2>2, <2>i DEF Expire, Forget, ReplayTypeOK
    <3>2. IdemTypeOK'
      BY <2>2, <2>i DEF Expire, idemVars, IdemTypeOK
    <3> QED  BY <3>1, <3>2 DEF TypeOK
  <2>3. CASE IdemNext /\ UNCHANGED replayVars
    <3>1. IdemTypeOK'
      BY <2>3, <2>i, ServeTypes, FailureTypes, CrashTypes DEF IdemNext
    <3> QED  BY <2>3, <2>i, <3>1 DEF TypeOK, ReplayTypeOK, replayVars
  <2>4. CASE UNCHANGED vars
    BY <2>4, <2>i DEF vars, idemVars, replayVars, TypeOK, IdemTypeOK, ReplayTypeOK
  <2> QED  BY <2>1, <2>2, <2>3, <2>4 DEF Next
<1> QED  BY <1>1, <1>2, PTL DEF Spec

---------------------------------------------------------------------------
(* Where the requests are that ran their handler. *)

PhaseInv ==
  \A q \in Request :
    /\ q \in executed => pc[q] \in Holding \cup {"unlocked", "done", "dead"}
    /\ q \in gaveUp => pc[q] \in {"unlocked", "done", "dead"}
    /\ pc[q] = "unlocked" => q \in gaveUp

\* Only a Redis error makes a request delete a record, and until then the record
\* stands for the one request that took the lock.
HolderInv ==
  RedisWorked =>
    /\ record = NoRecord => Holders = {}
    /\ \A q, r \in Holders : q = r
    /\ \A q \in Request : pc[q] \notin {"clearing", "failing"}

LEMMA PhaseStep ==
  ASSUME IdemTypeOK, PhaseInv, Next
  PROVE  PhaseInv'
<1> USE DEF Holding
<1>p. pc \in [Request -> Active \cup {"new", "done", "dead"}]
      /\ executed \subseteq Request /\ gaveUp \subseteq executed
      /\ \A q \in Request : pc[q] \in Holding => q \in executed
  BY DEF IdemTypeOK
<1>1. ASSUME NEW q \in Request, NEW p \in Process, NEW f \in Fingerprint,
             Enter(q, p, f) \/ Refuse(q, p, f) \/ GuardFails(q, p, f)
      PROVE  PhaseInv'
  <2>1. /\ pc[q] = "new" /\ (\E to \in {"get", "done"} : pc' = [pc EXCEPT ![q] = to])
        /\ UNCHANGED <<executed, gaveUp>>
    BY <1>1 DEF Enter, Refuse, GuardFails, Arrive, TurnAway, Goto
  <2> QED  BY <2>1, <1>p DEF PhaseInv
<1>2. ASSUME NEW e \in Envelope, Expire(e)
      PROVE  PhaseInv'
  BY <1>2 DEF Expire, idemVars, PhaseInv
<1>3. ASSUME NEW q \in Request, Serve(q) \/ Disconnect(q) \/ HangUp(q) \/ StoreFails(q) \/ RedisThrows(q)
      PROVE  PhaseInv'
  <2>1. CASE Get(q) \/ Locked(q) \/ Awaited(q) \/ Poll(q) \/ RedisThrows(q) \/ DeleteAfterError(q)
    <3>1. /\ pc[q] \in {"get", "lock", "pending", "poll", "failing"}
          /\ \E to \in {"lock", "pending", "poll", "failing", "done"} : pc' = [pc EXCEPT ![q] = to]
          /\ UNCHANGED <<executed, gaveUp>>
      BY <2>1 DEF Get, Locked, Awaited, Poll, RedisThrows, DeleteAfterError, AnswerFrom, Goto
    <3> QED  BY <3>1, <1>p DEF PhaseInv
  <2>2. CASE Lock(q)
    BY <2>2, <1>p DEF Lock, Goto, PhaseInv
  <2>3. CASE GiveUp(q)
    BY <2>3, <1>p DEF GiveUp, Goto, PhaseInv
  <2>4. CASE Finish(q)
    BY <2>4, <1>p DEF Finish, Goto, PhaseInv
  <2>5. CASE Store(q) \/ Clear(q) \/ Disconnect(q) \/ HangUp(q) \/ StoreFails(q)
    <3>1. /\ pc[q] \in {"running", "storing", "clearing"}
          /\ \E to \in {"storing", "clearing", "done"} : pc' = [pc EXCEPT ![q] = to]
          /\ UNCHANGED <<executed, gaveUp>>
      BY <2>5 DEF Store, Clear, Resolve, Disconnect, HangUp, StoreFails, Goto
    <3> QED  BY <3>1, <1>p DEF PhaseInv
  <2> QED  BY <1>3, <2>1, <2>2, <2>3, <2>4, <2>5 DEF Serve
<1>4. ASSUME NEW p \in Process, Crash(p)
      PROVE  PhaseInv'
  BY <1>4 DEF Crash, PhaseInv
<1> QED  BY <1>1, <1>2, <1>3, <1>4 DEF Next, IdemNext

LEMMA HolderStep ==
  ASSUME IdemTypeOK, PhaseInv, HolderInv, Next
  PROVE  HolderInv'
<1> SUFFICES ASSUME RedisWorked'
             PROVE  /\ record' = NoRecord => Holders' = {}
                    /\ \A q, r \in Holders' : q = r
                    /\ \A q \in Request : pc'[q] \notin {"clearing", "failing"}
  BY DEF HolderInv
<1>t. RedisWorked
  BY DEF RedisWorked, Next, IdemNext, Enter, Refuse, GuardFails, Arrive, TurnAway, Expire, idemVars,
         Serve, Get, Lock, Locked, Awaited, Poll, GiveUp, Finish, Store, Clear, DeleteAfterError,
         Disconnect, HangUp, StoreFails, RedisThrows, Crash, IdemTypeOK
<1>h. /\ record = NoRecord => Holders = {}
      /\ \A q, r \in Holders : q = r
      /\ \A q \in Request : pc[q] \notin {"clearing", "failing"}
  BY <1>t DEF HolderInv
<1>p. pc \in [Request -> Active \cup {"new", "done", "dead"}] /\ executed \subseteq Request
      /\ \A q \in Request : pc[q] \in Holding => q \in executed
  BY DEF IdemTypeOK
<1>1. ASSUME NEW q \in Request, NEW p \in Process, NEW f \in Fingerprint,
             Enter(q, p, f) \/ Refuse(q, p, f) \/ GuardFails(q, p, f)
      PROVE  /\ UNCHANGED <<record, executed, gaveUp>>
             /\ \A r \in Request : pc'[r] \notin {"clearing", "failing"}
  BY <1>1, <1>h, <1>p DEF Enter, Refuse, GuardFails, Arrive, TurnAway, Goto
<1>2. ASSUME NEW e \in Envelope, Expire(e)
      PROVE  /\ UNCHANGED <<record, executed, gaveUp>>
             /\ \A r \in Request : pc'[r] \notin {"clearing", "failing"}
  BY <1>2, <1>h DEF Expire, idemVars
<1>3. ASSUME NEW q \in Request,
             \/ Get(q) \/ Locked(q) \/ Awaited(q) \/ Poll(q) \/ Finish(q)
             \/ Disconnect(q) \/ HangUp(q)
      PROVE  /\ UNCHANGED <<record, executed, gaveUp>>
             /\ \A r \in Request : pc'[r] \notin {"clearing", "failing"}
  BY <1>3, <1>h, <1>p
  DEF Get, Locked, Awaited, Poll, Finish, Disconnect, HangUp, AnswerFrom, Goto
<1>4. ASSUME NEW q \in Request, Lock(q)
      PROVE  /\ record' # NoRecord /\ Holders' \subseteq {q}
             /\ \A r \in Request : pc'[r] \notin {"clearing", "failing"}
  <2>1. record' # NoRecord
    BY <1>4, TypesOf, MarkerType, NoRecordAssumption DEF Lock
  <2>2. Holders' \subseteq {q}
    BY <1>4, <1>h DEF Lock, Holders
  <2> QED  BY <1>4, <1>h, <1>p, <2>1, <2>2 DEF Lock, Goto
<1>5. ASSUME NEW q \in Request, GiveUp(q)
      PROVE  /\ UNCHANGED record /\ Holders' \subseteq Holders
             /\ \A r \in Request : pc'[r] \notin {"clearing", "failing"}
  <2>1. Holders' \subseteq Holders
    BY <1>5 DEF GiveUp, Holders
  <2> QED  BY <1>5, <1>h, <1>p, <2>1 DEF GiveUp, Goto
<1>6. ASSUME NEW q \in Request, Store(q)
      PROVE  /\ record' # NoRecord /\ UNCHANGED <<executed, gaveUp>>
             /\ \A r \in Request : pc'[r] \notin {"clearing", "failing"}
  <2>1. record' # NoRecord
    BY <1>6, TypesOf, CompletedType, CapturedType, NoRecordAssumption DEF Store
  <2> QED  BY <1>6, <1>h, <1>p, <2>1 DEF Store, Resolve, Goto
<1>7. ASSUME NEW q \in Request,
             Clear(q) \/ DeleteAfterError(q) \/ StoreFails(q) \/ RedisThrows(q)
      PROVE  FALSE
  BY <1>7, <1>h DEF Clear, DeleteAfterError, StoreFails, RedisThrows, RedisWorked
<1>8. ASSUME NEW p \in Process, Crash(p)
      PROVE  /\ UNCHANGED <<record, executed, gaveUp>>
             /\ \A r \in Request : pc'[r] \notin {"clearing", "failing"}
  BY <1>8, <1>h DEF Crash
<1> QED  BY <1>h, <1>1, <1>2, <1>3, <1>4, <1>5, <1>6, <1>7, <1>8 DEF Next, IdemNext, Serve, Holders

\* OneHolder: until Redis fails at most one request has run its handler under the
\* lock, whatever processes die and clients leave.
THEOREM LockExcludes == Spec => []OneHolder
<1>1. Init => PhaseInv /\ HolderInv
  BY DEF Init, IdemInit, PhaseInv, HolderInv, Holders
<1>2. TypeOK /\ PhaseInv /\ HolderInv /\ [Next]_vars => (PhaseInv /\ HolderInv)'
  <2>1. CASE Next
    BY <2>1, PhaseStep, HolderStep DEF TypeOK
  <2>2. CASE UNCHANGED vars
    BY <2>2 DEF vars, idemVars, PhaseInv, HolderInv, Holders, RedisWorked
  <2> QED  BY <2>1, <2>2
<1>3. HolderInv => OneHolder
  <2> SUFFICES ASSUME HolderInv, RedisWorked PROVE Cardinality(Holders) <= 1
    BY DEF OneHolder
  <2>1. CASE Holders = {}
    BY <2>1, FS_EmptySet
  <2>2. ASSUME NEW h \in Holders
        PROVE  Cardinality(Holders) <= 1
    <3>1. Holders = {h}
      BY DEF HolderInv
    <3> QED  BY <3>1, FS_Singleton
  <2> QED  BY <2>1, <2>2
<1> QED  BY <1>1, <1>2, <1>3, PipelineTypes, PTL DEF Spec

---------------------------------------------------------------------------
(* Whose response a record, a promise and a client have. *)

Settled(h) == h \in Holders /\ pc[h] \in {"storing", "done", "dead"}
Final(a) == Settled(a.by) /\ a = Captured(a.by)

AnswerInv ==
  RedisWorked =>
    /\ record # NoRecord /\ record.state = "completed" =>
         Final(record.answer) /\ pc[record.answer.by] = "done"
    /\ \A q \in Request : outcome[q] # NoAnswer => Final(outcome[q])
    /\ \A q \in Request \ gaveUp : Answered(q) => Final(got[q].answer)

\* No step changes what a settled request has written, nor makes it run again.
LEMMA FinalStays ==
  ASSUME IdemTypeOK, PhaseInv, HolderInv, Next, RedisWorked, RedisWorked',
         NEW a \in Answer, Final(a)
  PROVE  Final(a)' /\ (pc[a.by] = "done" => pc'[a.by] = "done")
<1> DEFINE h == a.by
<1>1. h \in Request /\ h \in Holders /\ pc[h] \in {"storing", "done", "dead"}
  BY DEF Final, Settled, Answer
<1> HIDE DEF h
<1> DEFINE Kept == /\ got'[h] = got[h] /\ h \in Holders'
                   /\ pc'[h] \in {"storing", "done", "dead"}
                   /\ pc[h] = "done" => pc'[h] = "done"
<1>2. Kept
  <2>p. pc \in [Request -> Active \cup {"new", "done", "dead"}] /\ got \in [Request -> Reply]
        /\ executed \subseteq Request
    BY DEF IdemTypeOK
  <2>1. ASSUME NEW q \in Request, NEW p \in Process, NEW f \in Fingerprint,
               Enter(q, p, f) \/ Refuse(q, p, f) \/ GuardFails(q, p, f)
        PROVE  Kept
    BY <2>1, <2>p, <1>1
    DEF Enter, Refuse, GuardFails, Arrive, TurnAway, Goto, Respond, Holders
  <2>2. ASSUME NEW e \in Envelope, Expire(e)
        PROVE  Kept
    BY <2>2, <1>1 DEF Expire, idemVars, Holders
  <2>3. ASSUME NEW q \in Request,
               Get(q) \/ Poll(q) \/ Awaited(q) \/ Finish(q) \/ Disconnect(q) \/ HangUp(q)
        PROVE  Kept
    BY <2>3, <2>p, <1>1
    DEF Get, Poll, Awaited, Finish, Disconnect, HangUp, AnswerFrom, Goto, Respond, Holders
  <2>4. ASSUME NEW q \in Request, Lock(q) \/ Locked(q) \/ GiveUp(q) \/ Store(q)
        PROVE  Kept
    BY <2>4, <2>p, <1>1 DEF Lock, Locked, GiveUp, Store, Resolve, Goto, Holders
  <2>5. ASSUME NEW q \in Request,
               Clear(q) \/ DeleteAfterError(q) \/ StoreFails(q) \/ RedisThrows(q)
        PROVE  FALSE
    BY <2>5 DEF HolderInv, Clear, DeleteAfterError, StoreFails, RedisThrows, RedisWorked
  <2>6. ASSUME NEW p \in Process, Crash(p)
        PROVE  Kept
    BY <2>6, <2>p, <1>1 DEF Crash, Holders, Active, Waiting, Holding
  <2> QED  BY <2>1, <2>2, <2>3, <2>4, <2>5, <2>6 DEF Next, IdemNext, Serve
<1>3. Captured(h)' = Captured(h)
  BY <1>2 DEF Captured
<1> QED  BY <1>2, <1>3 DEF Final, Settled, h

LEMMA AnswerStep ==
  ASSUME IdemTypeOK, PhaseInv, HolderInv, AnswerInv, Next
  PROVE  AnswerInv'
<1> SUFFICES ASSUME RedisWorked'
             PROVE  /\ record' # NoRecord /\ record'.state = "completed" =>
                         Final(record.answer)' /\ pc'[record'.answer.by] = "done"
                    /\ \A q \in Request : outcome'[q] # NoAnswer => Final(outcome[q])'
                    /\ \A q \in Request \ gaveUp' : Answered(q)' => Final(got[q].answer)'
  BY DEF AnswerInv
<1>t. RedisWorked
  BY DEF RedisWorked, Next, IdemNext, Enter, Refuse, GuardFails, Arrive, TurnAway, Expire, idemVars,
         Serve, Get, Lock, Locked, Awaited, Poll, GiveUp, Finish, Store, Clear, DeleteAfterError,
         Disconnect, HangUp, StoreFails, RedisThrows, Crash, IdemTypeOK
<1>a. /\ record # NoRecord /\ record.state = "completed" =>
           Final(record.answer) /\ pc[record.answer.by] = "done" /\ record.answer \in Answer
      /\ \A q \in Request : outcome[q] # NoAnswer => Final(outcome[q]) /\ outcome[q] \in Answer
      /\ \A q \in Request \ gaveUp : Answered(q) => Final(got[q].answer) /\ got[q].answer \in Answer
  <2>1. record # NoRecord /\ record.state = "completed" => record.answer \in Answer
    BY DEF IdemTypeOK, Record
  <2>2. \A q \in Request : outcome[q] # NoAnswer => outcome[q] \in Answer
    BY TypesOf
  <2>3. \A q \in Request : Answered(q) => got[q].answer \in Answer
    BY TypesOf DEF Answered, Reply
  <2> QED  BY <1>t, <2>1, <2>2, <2>3 DEF AnswerInv
<1>f. \A a \in Answer : Final(a) => Final(a)' /\ (pc[a.by] = "done" => pc'[a.by] = "done")
  BY <1>t, FinalStays
\* The three parts, for a step that leaves their variables alone.
<1>r. UNCHANGED record /\ record # NoRecord /\ record.state = "completed" =>
        Final(record.answer)' /\ pc'[record'.answer.by] = "done"
  <2> SUFFICES ASSUME UNCHANGED record, record # NoRecord, record.state = "completed"
               PROVE  Final(record.answer)' /\ pc'[record'.answer.by] = "done"
    OBVIOUS
  <2> DEFINE a == record.answer
  <2>1. Final(a)' /\ pc'[a.by] = "done"
    BY <1>a, <1>f
  <2> QED  BY <2>1
<1>o. ASSUME NEW q \in Request, outcome'[q] = outcome[q], outcome'[q] # NoAnswer
      PROVE  Final(outcome[q])'
  <2> DEFINE a == outcome[q]
  <2>1. Final(a)'
    BY <1>a, <1>f, <1>o
  <2> QED  BY <2>1, <1>o
<1>g. ASSUME NEW q \in Request \ gaveUp', q \notin gaveUp, got'[q] = got[q], Answered(q)'
      PROVE  Final(got[q].answer)'
  <2> DEFINE a == got[q].answer
  <2>1. Final(a)'
    BY <1>a, <1>f, <1>g DEF Answered
  <2> QED  BY <2>1, <1>g
<1>p. /\ pc \in [Request -> Active \cup {"new", "done", "dead"}] /\ got \in [Request -> Reply]
      /\ outcome \in [Request -> Answer \cup {NoAnswer}]
      /\ \A q \in Request : pc[q] \in Holding => q \in executed
  BY DEF IdemTypeOK
\* A holder that ends is settled with what it has captured.
<1>s. ASSUME NEW q \in Request, Store(q)
      PROVE  /\ Final(Captured(q))' /\ Captured(q)' = Captured(q) /\ Captured(q).by = q
             /\ pc'[q] = "done"
             /\ record'.answer = Captured(q) /\ outcome' = [outcome EXCEPT ![q] = Captured(q)]
             /\ UNCHANGED <<got, gaveUp>>
  <2>1. Captured(q)' = Captured(q) /\ Captured(q).by = q /\ UNCHANGED <<got, gaveUp>>
    BY <1>s DEF Store, Captured
  <2>2. q \in Holders' /\ pc'[q] = "done"
    BY <1>s, <1>p DEF Store, Resolve, Goto, Holders, Holding, PhaseInv
  <2>3. record'.answer = Captured(q) /\ outcome' = [outcome EXCEPT ![q] = Captured(q)]
    BY <1>s, CompletedType, CapturedType, TypesOf DEF Store, Resolve
  <2> QED  BY <2>1, <2>2, <2>3 DEF Final, Settled
<1>n. ASSUME NEW q \in Request,
             Clear(q) \/ DeleteAfterError(q) \/ StoreFails(q) \/ RedisThrows(q)
      PROVE  FALSE
  BY <1>t, <1>n DEF HolderInv, Clear, DeleteAfterError, StoreFails, RedisThrows, RedisWorked
<1>1. record' # NoRecord /\ record'.state = "completed" =>
        Final(record.answer)' /\ pc'[record'.answer.by] = "done"
  <2>1. ASSUME NEW q \in Request, Store(q), record'.state = "completed"
        PROVE  Final(record.answer)' /\ pc'[record'.answer.by] = "done"
    BY <1>s, <2>1 DEF Final, Settled
  <2>2. ASSUME NEW q \in Request, Lock(q)
        PROVE  record'.state # "completed"
    BY <2>2, TypesOf, MarkerType DEF Lock
  <2>3. \/ UNCHANGED record
        \/ \E q \in Request : Store(q) \/ Lock(q)
    BY <1>n DEF Next, IdemNext, Enter, Refuse, GuardFails, Arrive, TurnAway, Expire, idemVars,
         Serve, Get, Locked, Awaited, Poll, GiveUp, Finish, Disconnect, HangUp, Crash
  <2> QED  BY <1>r, <2>1, <2>2, <2>3
<1>2. ASSUME NEW r \in Request, outcome'[r] # NoAnswer
      PROVE  Final(outcome[r])'
  <2>1. ASSUME NEW q \in Request, Store(q)
        PROVE  Final(outcome[r])'
    <3>1. CASE r = q
      BY <1>s, <1>p, <2>1, <3>1 DEF Final, Settled
    <3>2. CASE r # q
      BY <1>s, <1>p, <1>o, <1>2, <2>1, <3>2
    <3> QED  BY <3>1, <3>2
  <2>2. UNCHANGED outcome \/ \E q \in Request : Store(q)
    BY <1>n DEF Next, IdemNext, Enter, Refuse, GuardFails, Arrive, TurnAway, Expire, idemVars,
         Serve, Get, Lock, Locked, Awaited, Poll, GiveUp, Finish, Disconnect, HangUp, Crash
  <2> QED  BY <1>o, <1>2, <2>1, <2>2
<1>3. ASSUME NEW r \in Request \ gaveUp', Answered(r)'
      PROVE  Final(got[r].answer)'
  <2>0. r \notin gaveUp
    BY DEF Next, IdemNext, Enter, Refuse, GuardFails, Arrive, TurnAway, Expire, idemVars,
         Serve, Get, Lock, Locked, Awaited, Poll, GiveUp, Finish, Store, Clear, DeleteAfterError,
         Disconnect, HangUp, StoreFails, RedisThrows, Crash
  <2>1. ASSUME NEW q \in Request, NEW reply \in Reply, Respond(q, reply), r # q
        PROVE  Final(got[r].answer)'
    BY <1>3, <1>g, <1>p, <2>0, <2>1 DEF Respond
  <2>2. ASSUME NEW q \in Request, NEW a \in Answer, Final(a)', Respond(q, Response(a))
        PROVE  Final(got[r].answer)'
    <3>1. Response(a) \in Reply /\ Response(a).answer = a
      BY ReplyTypes
    <3>2. CASE r = q
      <4>1. got'[r].answer = a
        BY <1>p, <2>2, <3>1, <3>2 DEF Respond
      <4> QED  BY <2>2, <4>1 DEF Final, Settled
    <3> QED  BY <2>1, <2>2, <3>1, <3>2
  <2>3. ASSUME NEW q \in Request, NEW kind \in {"conflict", "replay", "error"},
               Respond(q, Refusal(kind))
        PROVE  Final(got[r].answer)'
    <3>1. Refusal(kind) \in Reply /\ Refusal(kind).answer = NoAnswer
      BY ReplyTypes
    <3>2. r # q
      BY <1>3, <1>p, <2>3, <3>1 DEF Respond, Answered
    <3> QED  BY <2>1, <2>3, <3>1, <3>2
  <2>4. ASSUME NEW q \in Request, AnswerFrom(q), record # NoRecord, ~InProgress(q)
        PROVE  Final(got[r].answer)'
    <3>1. CASE Matches(q)
      <4>1. record.state = "completed"
        BY <2>4, <3>1 DEF InProgress, IdemTypeOK, Record
      <4> DEFINE a == record.answer
      <4>2. a \in Answer /\ Final(a) /\ Respond(q, Response(a))
        BY <1>a, <2>4, <3>1, <4>1 DEF AnswerFrom
      <4> HIDE DEF a
      <4> QED  BY <1>f, <2>2, <4>2
    <3>2. CASE ~Matches(q)
      BY <2>3, <2>4, <3>2 DEF AnswerFrom
    <3> QED  BY <3>1, <3>2
  <2>5. ASSUME NEW q \in Request, Awaited(q)
        PROVE  Final(got[r].answer)'
    <3>1. awaited[q] \in Request
      BY <2>5, TypesOf DEF Awaited
    <3>2. PICK a \in Answer : a = outcome[awaited[q]] /\ Final(a)
      BY <1>a, <2>5, <3>1 DEF Awaited
    <3> QED  BY <1>f, <2>2, <2>5, <3>2 DEF Awaited
  <2>6. ASSUME NEW q \in Request, Finish(q)
        PROVE  Final(got[r].answer)'
    <3> DEFINE a == [by |-> q, whole |-> TRUE]
    <3>1. a \in Answer /\ a.by = q /\ Respond(q, Response(a))
      BY <2>6 DEF Answer, Finish
    <3>2. CASE pc[q] = "running"
      <4>1. q \in Holders' /\ pc'[q] = "storing"
        BY <1>p, <2>6, <3>2 DEF Finish, Goto, Holders, Holding, PhaseInv
      <4>2. got'[q].kind = "response"
        BY <1>p, <3>1, ReplyTypes DEF Respond
      <4>3. a = Captured(q)'
        BY <4>2 DEF Captured
      <4>4. Final(a)'
        BY <3>1, <4>1, <4>3 DEF Final, Settled
      <4> HIDE DEF a
      <4> QED  BY <2>2, <3>1, <4>4
    <3>3. CASE pc[q] = "unlocked"
      <4>1. r # q
        BY <2>0, <3>3 DEF PhaseInv
      <4> HIDE DEF a
      <4> QED  BY <2>1, <3>1, <4>1, ReplyTypes
    <3> QED  BY <2>6, <3>2, <3>3 DEF Finish
  <2>7. ASSUME UNCHANGED got
        PROVE  Final(got[r].answer)'
    BY <1>3, <1>g, <2>0, <2>7
  <2>8. \/ UNCHANGED got
        \/ \E q \in Request :
             \/ \E kind \in {"conflict", "replay", "error"} : Respond(q, Refusal(kind))
             \/ AnswerFrom(q) /\ record # NoRecord /\ ~InProgress(q)
             \/ Awaited(q) \/ Finish(q)
    BY <1>n DEF Next, IdemNext, Enter, Refuse, GuardFails, Arrive, TurnAway, Expire, idemVars,
         Serve, Get, Lock, Locked, Poll, GiveUp, Store, Disconnect, HangUp, Crash
  <2> QED  BY <2>3, <2>4, <2>5, <2>6, <2>7, <2>8
<1> QED  BY <1>1, <1>2, <1>3

\* The invariant that the next two theorems rest on.
LEMMA AnswersInvariant == Spec => [](TypeOK /\ PhaseInv /\ HolderInv /\ AnswerInv)
<1>1. Init => PhaseInv /\ HolderInv /\ AnswerInv
  BY DEF Init, IdemInit, PhaseInv, HolderInv, AnswerInv, Holders, Answered, Refusal
<1>2. TypeOK /\ PhaseInv /\ HolderInv /\ AnswerInv /\ [Next]_vars
        => (PhaseInv /\ HolderInv /\ AnswerInv)'
  <2>1. CASE Next
    BY <2>1, PhaseStep, HolderStep, AnswerStep DEF TypeOK
  <2>2. CASE UNCHANGED vars
    BY <2>2 DEF vars, idemVars, PhaseInv, HolderInv, AnswerInv, Holders, RedisWorked, Final,
                Settled, Captured, Answered
  <2> QED  BY <2>1, <2>2
<1> QED  BY <1>1, <1>2, PipelineTypes, PTL DEF Spec

\* SameAnswer: until Redis fails, everybody who did not run the handler without the
\* lock is sent the same response.
THEOREM OneResponse == Spec => []SameAnswer
<1>1. TypeOK /\ HolderInv /\ AnswerInv => SameAnswer
  <2> SUFFICES ASSUME TypeOK, HolderInv, AnswerInv, RedisWorked,
                      NEW q \in Request \ gaveUp, NEW r \in Request \ gaveUp,
                      Answered(q), Answered(r)
               PROVE  got[q] = got[r]
    BY DEF SameAnswer
  <2>1. got[q].answer = got[r].answer
    BY DEF HolderInv, AnswerInv, Final, Settled
  <2>2. got[q] \in Reply /\ got[r] \in Reply /\ got[q].kind = got[r].kind
    BY DEF TypeOK, IdemTypeOK, Answered
  <2> QED  BY <2>1, <2>2 DEF Reply
<1> QED  BY <1>1, AnswersInvariant, PTL

\* CompletedStays: until Redis fails, a stored response is neither replaced nor
\* removed.
THEOREM CompletedIsFinal == Spec => CompletedStays
<1>1. TypeOK /\ PhaseInv /\ HolderInv /\ AnswerInv /\ [Next]_vars
        => [record # NoRecord /\ record.state = "completed" /\ "redis" \notin trouble'
              => record' = record]_vars
  <2> SUFFICES ASSUME TypeOK, PhaseInv, HolderInv, AnswerInv, Next,
                      record # NoRecord, record.state = "completed", "redis" \notin trouble'
               PROVE  record' = record
    OBVIOUS
  <2>t. RedisWorked
    BY DEF RedisWorked, Next, IdemNext, Enter, Refuse, GuardFails, Arrive, TurnAway, Expire,
           idemVars, Serve, Get, Lock, Locked, Awaited, Poll, GiveUp, Finish, Store, Clear,
           DeleteAfterError, Disconnect, HangUp, StoreFails, RedisThrows, Crash, TypeOK, IdemTypeOK
  <2>h. record.answer.by \in Holders /\ pc[record.answer.by] = "done"
    BY <2>t DEF AnswerInv, Final, Settled
  <2>1. ASSUME NEW q \in Request, Store(q)
        PROVE  FALSE
    <3>1. pc[q] = "storing" /\ q \in Holders
      BY <2>1 DEF Store, Holders, Holding, TypeOK, IdemTypeOK, PhaseInv
    <3> QED  BY <2>t, <2>h, <3>1 DEF HolderInv
  <2>2. ASSUME NEW q \in Request, Lock(q)
        PROVE  FALSE
    BY <2>2 DEF Lock
  <2>3. ASSUME NEW q \in Request,
               Clear(q) \/ DeleteAfterError(q) \/ StoreFails(q) \/ RedisThrows(q)
        PROVE  FALSE
    BY <2>t, <2>3 DEF HolderInv, Clear, DeleteAfterError, StoreFails, RedisThrows, RedisWorked
  <2> QED  BY <2>1, <2>2, <2>3
      DEF Next, IdemNext, Enter, Refuse, GuardFails, Arrive, TurnAway, Expire, idemVars,
          Serve, Get, Locked, Awaited, Poll, GiveUp, Finish, Disconnect, HangUp, Crash
<1> QED  BY <1>1, AnswersInvariant, PTL DEF Spec, CompletedStays

---------------------------------------------------------------------------
(* Which payload a response was written for. *)

\* Without this, what inFlight and a promise hold could be of any request.
PayloadInv ==
  /\ \A p \in Process : inFlight[p] # NoRecord =>
       from[inFlight[p]] # NoRecord /\ from[inFlight[p]].process = p
  /\ \A q \in Request : outcome[q] # NoAnswer => outcome[q].by = q
  /\ \A q \in Request : awaited[q] # NoRecord =>
       /\ from[q] # NoRecord /\ from[awaited[q]] # NoRecord
       /\ from[q].process = from[awaited[q]].process
  /\ record # NoRecord /\ record.state = "completed" =>
       /\ from[record.answer.by] # NoRecord
       /\ from[record.answer.by].fingerprint = record.fingerprint
  /\ \A q \in Request : Answered(q) => from[q] # NoRecord /\ from[got[q].answer.by] # NoRecord

\* Who was sent a response waits for nothing any more.
AnsweredInv ==
  \A q \in Request : Answered(q) => pc[q] \in {"storing", "clearing", "done", "dead"}

LEMMA AnsweredStep ==
  ASSUME IdemTypeOK, AnsweredInv, Next
  PROVE  AnsweredInv'
<1> SUFFICES ASSUME NEW r \in Request, Answered(r)'
             PROVE  pc'[r] \in {"storing", "clearing", "done", "dead"}
  BY DEF AnsweredInv
<1>p. /\ pc \in [Request -> Active \cup {"new", "done", "dead"}] /\ got \in [Request -> Reply]
      /\ (got[r].answer # NoAnswer => pc[r] \in {"storing", "clearing", "done", "dead"})
      /\ \A kind \in {"replay", "error"} : Refusal(kind).answer = NoAnswer
  BY ReplyTypes DEF IdemTypeOK, AnsweredInv, Answered
<1>1. ASSUME NEW q \in Request, NEW p \in Process, NEW f \in Fingerprint,
             Enter(q, p, f) \/ Refuse(q, p, f) \/ GuardFails(q, p, f)
      PROVE  pc'[r] \in {"storing", "clearing", "done", "dead"}
  BY <1>1, <1>p DEF Enter, Refuse, GuardFails, Arrive, TurnAway, Goto, Respond, Answered
<1>2. ASSUME NEW e \in Envelope, Expire(e)
      PROVE  pc'[r] \in {"storing", "clearing", "done", "dead"}
  BY <1>2, <1>p DEF Expire, idemVars, Answered
<1>3. ASSUME NEW q \in Request,
             Get(q) \/ Poll(q) \/ Awaited(q) \/ Finish(q) \/ Disconnect(q) \/ HangUp(q)
      PROVE  pc'[r] \in {"storing", "clearing", "done", "dead"}
  BY <1>3, <1>p
  DEF Get, Poll, Awaited, Finish, Disconnect, HangUp, AnswerFrom, Goto, Respond, Answered
<1>4. ASSUME NEW q \in Request,
             \/ Lock(q) \/ Locked(q) \/ GiveUp(q) \/ Store(q) \/ Clear(q) \/ DeleteAfterError(q)
             \/ StoreFails(q) \/ RedisThrows(q)
      PROVE  pc'[r] \in {"storing", "clearing", "done", "dead"}
  BY <1>4, <1>p
  DEF Lock, Locked, GiveUp, Store, Clear, DeleteAfterError, StoreFails, RedisThrows, Resolve,
      Goto, Respond, Answered
<1>5. ASSUME NEW p \in Process, Crash(p)
      PROVE  pc'[r] \in {"storing", "clearing", "done", "dead"}
  BY <1>5, <1>p DEF Crash, Answered
<1> QED  BY <1>1, <1>2, <1>3, <1>4, <1>5 DEF Next, IdemNext, Serve

\* No step changes where a request came from.
LEMMA FromStays ==
  ASSUME IdemTypeOK, Next, NEW q \in Request, from[q] # NoRecord
  PROVE  from'[q] = from[q]
BY DEF Next, IdemNext, Enter, Refuse, GuardFails, Arrive, TurnAway, Expire, idemVars,
       Serve, Get, Lock, Locked, Awaited, Poll, GiveUp, Finish, Store, Clear, DeleteAfterError,
       Disconnect, HangUp, StoreFails, RedisThrows, Crash, IdemTypeOK

\* Where the response a that q is sent comes from.
Source(q, a) ==
  \/ a.by = q
  \/ record # NoRecord /\ record.state = "completed" /\ a = record.answer /\ Matches(q)
  \/ awaited[q] \in Request /\ outcome[awaited[q]] # NoAnswer /\ a = outcome[awaited[q]]

SendsAtMostOne ==
  \/ \A r \in Request : Answered(r)' => got'[r] = got[r]
  \/ \E q \in Request, a \in Answer :
       /\ from[q] # NoRecord /\ got'[q].answer = a
       /\ \A r \in Request \ {q} : got'[r] = got[r]
       /\ Source(q, a)

LEMMA Sent ==
  ASSUME IdemTypeOK, Next
  PROVE  SendsAtMostOne
<1>p. got \in [Request -> Reply]
  BY DEF IdemTypeOK
<1>1. ASSUME NEW q \in Request, NEW kind \in {"conflict", "replay", "error"},
             Respond(q, Refusal(kind))
      PROVE  SendsAtMostOne
  <2>1. Refusal(kind).answer = NoAnswer
    BY ReplyTypes
  <2> QED  BY <1>p, <1>1, <2>1 DEF Respond, Answered, SendsAtMostOne
<1>2. ASSUME NEW q \in Request, NEW a \in Answer, Respond(q, Response(a))
      PROVE  got'[q].answer = a /\ \A r \in Request \ {q} : got'[r] = got[r]
  <2>1. Response(a).answer = a
    BY ReplyTypes
  <2> QED  BY <1>p, <1>2, <2>1 DEF Respond
<1>3. ASSUME NEW q \in Request, pc[q] # "new", AnswerFrom(q), record # NoRecord, ~InProgress(q)
      PROVE  SendsAtMostOne
  <2>1. CASE Matches(q)
    <3>1. record.state = "completed" /\ record.answer \in Answer
      BY <1>3, <2>1 DEF InProgress, IdemTypeOK, Record
    <3>2. Respond(q, Response(record.answer)) /\ from[q] # NoRecord
      BY <1>3, <2>1 DEF AnswerFrom, IdemTypeOK
    <3> QED  BY <1>2, <1>3, <2>1, <3>1, <3>2 DEF SendsAtMostOne, Source
  <2>2. CASE ~Matches(q)
    BY <1>1, <1>3, <2>2 DEF AnswerFrom
  <2> QED  BY <2>1, <2>2
<1>4. ASSUME NEW q \in Request, Awaited(q)
      PROVE  SendsAtMostOne
  <2>1. awaited[q] \in Request /\ outcome[awaited[q]] # NoAnswer
        /\ outcome[awaited[q]] \in Answer
    BY <1>4, TypesOf DEF Awaited
  <2>2. Respond(q, Response(outcome[awaited[q]])) /\ from[q] # NoRecord
    BY <1>4 DEF Awaited, IdemTypeOK
  <2> QED  BY <1>2, <2>1, <2>2 DEF SendsAtMostOne, Source
<1>5. ASSUME NEW q \in Request, Finish(q)
      PROVE  SendsAtMostOne
  <2> DEFINE a == [by |-> q, whole |-> TRUE]
  <2>1. a \in Answer /\ a.by = q
    BY DEF Answer
  <2>2. Respond(q, Response(a)) /\ from[q] # NoRecord
    BY <1>5 DEF Finish, IdemTypeOK
  <2> HIDE DEF a
  <2> QED  BY <1>2, <2>1, <2>2 DEF SendsAtMostOne, Source
<1>6. \/ UNCHANGED got
      \/ \E q \in Request :
           \/ \E kind \in {"conflict", "replay", "error"} : Respond(q, Refusal(kind))
           \/ pc[q] # "new" /\ AnswerFrom(q) /\ record # NoRecord /\ ~InProgress(q)
           \/ Awaited(q) \/ Finish(q)
  BY DEF Next, IdemNext, Enter, Refuse, GuardFails, Arrive, TurnAway, Expire, idemVars, Serve, Get,
         Lock, Locked, Poll, GiveUp, Store, Clear, DeleteAfterError, Disconnect, HangUp,
         StoreFails, RedisThrows, Crash
<1>7. UNCHANGED got => SendsAtMostOne
  BY DEF SendsAtMostOne
<1> QED  BY <1>1, <1>3, <1>4, <1>5, <1>6, <1>7

LEMMA PayloadStep ==
  ASSUME IdemTypeOK, AnsweredInv, RecordsMatchPayload, PayloadInv, Next
  PROVE  PayloadInv' /\ RecordsMatchPayload'
<1>k. \A q \in Request : from[q] # NoRecord => from'[q] = from[q]
  BY FromStays
<1>p. /\ inFlight \in [Process -> Request \cup {NoRecord}]
      /\ awaited \in [Request -> Request \cup {NoRecord}]
      /\ outcome \in [Request -> Answer \cup {NoAnswer}]
      /\ record # NoRecord /\ record.state = "completed" => record.answer \in Answer
      /\ \A q \in Request : /\ pc[q] # "new" => from[q] # NoRecord /\ from[q].process \in Process
                            /\ got[q].answer # NoAnswer => got[q].answer \in Answer
  BY NoRecordAssumption DEF IdemTypeOK, Record, Reply, Origin
<1>a. \A a \in Answer : a.by \in Request
  BY DEF Answer
<1>1. \A p \in Process : inFlight'[p] # NoRecord =>
        from'[inFlight'[p]] # NoRecord /\ from'[inFlight'[p]].process = p
  <2>1. \/ \A p \in Process : inFlight'[p] # NoRecord => inFlight'[p] = inFlight[p]
        \/ \E q \in Request : /\ pc[q] # "new"
                              /\ inFlight' = [inFlight EXCEPT ![from[q].process] = q]
    <3>1. ASSUME NEW q \in Request, pc[q] # "new",
                 inFlight' = [inFlight EXCEPT ![from[q].process] = NoRecord]
          PROVE  \A p \in Process : inFlight'[p] # NoRecord => inFlight'[p] = inFlight[p]
      BY <1>p, <3>1
    <3>2. ASSUME NEW p \in Process, inFlight' = [inFlight EXCEPT ![p] = NoRecord]
          PROVE  \A r \in Process : inFlight'[r] # NoRecord => inFlight'[r] = inFlight[r]
      BY <1>p, <3>2
    <3>3. \/ UNCHANGED inFlight
          \/ \E q \in Request : pc[q] # "new" /\
               inFlight' \in {[inFlight EXCEPT ![from[q].process] = q],
                              [inFlight EXCEPT ![from[q].process] = NoRecord]}
          \/ \E p \in Process : inFlight' = [inFlight EXCEPT ![p] = NoRecord]
      BY DEF Next, IdemNext, Enter, Refuse, GuardFails, Arrive, TurnAway, Expire, idemVars, Serve,
             Get, Lock, Locked, Awaited, Poll, GiveUp, Finish, Store, Clear, Resolve,
             DeleteAfterError, Disconnect, HangUp, StoreFails, RedisThrows, Crash
    <3> QED  BY <3>1, <3>2, <3>3
  <2>2. ASSUME NEW q \in Request, pc[q] # "new",
               inFlight' = [inFlight EXCEPT ![from[q].process] = q],
               NEW p \in Process, inFlight'[p] # NoRecord
        PROVE  from'[inFlight'[p]] # NoRecord /\ from'[inFlight'[p]].process = p
    <3>1. CASE p = from[q].process
      BY <1>k, <1>p, <2>2, <3>1
    <3>2. CASE p # from[q].process
      BY <1>k, <1>p, <2>2, <3>2 DEF PayloadInv
    <3> QED  BY <3>1, <3>2
  <2>3. ASSUME NEW p \in Process, inFlight'[p] # NoRecord, inFlight'[p] = inFlight[p]
        PROVE  from'[inFlight'[p]] # NoRecord /\ from'[inFlight'[p]].process = p
    BY <1>k, <1>p, <2>3 DEF PayloadInv
  <2> QED  BY <2>1, <2>2, <2>3
<1>2. ASSUME NEW r \in Request, outcome'[r] # NoAnswer
      PROVE  outcome'[r].by = r
  <2>1. UNCHANGED outcome \/ \E q \in Request : outcome' = [outcome EXCEPT ![q] = Captured(q)]
    BY DEF Next, IdemNext, Enter, Refuse, GuardFails, Arrive, TurnAway, Expire, idemVars, Serve,
           Get, Lock, Locked, Awaited, Poll, GiveUp, Finish, Store, Clear, Resolve,
           DeleteAfterError, Disconnect, HangUp, StoreFails, RedisThrows, Crash
  <2>2. \A q \in Request : Captured(q).by = q
    BY DEF Captured
  <2> QED  BY <1>2, <1>p, <2>1, <2>2 DEF PayloadInv
<1>w. UNCHANGED awaited \/ \E q \in Request : Locked(q)
  BY DEF Next, IdemNext, Enter, Refuse, GuardFails, Arrive, TurnAway, Expire, idemVars, Serve,
         Get, Lock, Awaited, Poll, GiveUp, Finish, Store, Clear,
         DeleteAfterError, Disconnect, HangUp, StoreFails, RedisThrows, Crash
<1>3. ASSUME NEW r \in Request, awaited'[r] # NoRecord
      PROVE  /\ from'[r] # NoRecord /\ from'[awaited'[r]] # NoRecord
             /\ from'[r].process = from'[awaited'[r]].process
  <2>1. awaited'[r] = awaited[r] \/ (pc[r] = "lock" /\ awaited'[r] = inFlight[from[r].process])
    BY <1>p, <1>w DEF Locked
  <2>2. CASE awaited'[r] = awaited[r]
    BY <1>3, <1>k, <1>p, <2>2 DEF PayloadInv
  <2>3. CASE pc[r] = "lock" /\ awaited'[r] = inFlight[from[r].process]
    BY <1>3, <1>k, <1>p, <2>3 DEF PayloadInv
  <2> QED  BY <2>1, <2>2, <2>3
<1>4. record' # NoRecord /\ record'.state = "completed" =>
        /\ from'[record'.answer.by] # NoRecord
        /\ from'[record'.answer.by].fingerprint = record'.fingerprint
  <2>1. ASSUME NEW q \in Request, pc[q] # "new", record' = Completed(q, Captured(q))
        PROVE  /\ from'[record'.answer.by] # NoRecord
               /\ from'[record'.answer.by].fingerprint = record'.fingerprint
    <3>1. record'.answer.by = q /\ record'.fingerprint = from[q].fingerprint
      BY <2>1 DEF Completed, Captured
    <3> QED  BY <1>k, <1>p, <2>1, <3>1
  <2>2. ASSUME NEW q \in Request, record' = Marker(q)
        PROVE  record'.state # "completed"
    BY <2>2 DEF Marker
  <2>3. \/ UNCHANGED record
        \/ record' = NoRecord
        \/ \E q \in Request : record' = Marker(q)
        \/ \E q \in Request : pc[q] # "new" /\ record' = Completed(q, Captured(q))
    BY DEF Next, IdemNext, Enter, Refuse, GuardFails, Arrive, TurnAway, Expire, idemVars, Serve,
           Get, Lock, Locked, Awaited, Poll, GiveUp, Finish, Store, Clear,
           DeleteAfterError, Disconnect, HangUp, StoreFails, RedisThrows, Crash
  <2>4. CASE UNCHANGED record
    BY <1>a, <1>k, <1>p, <2>4 DEF PayloadInv
  <2> QED  BY <2>1, <2>2, <2>3, <2>4
<1>5. ASSUME NEW r \in Request, Answered(r)'
      PROVE  /\ from'[r] # NoRecord /\ from'[got'[r].answer.by] # NoRecord
             /\ \/ from'[r].fingerprint = from'[got'[r].answer.by].fingerprint
                \/ /\ awaited'[r] = got'[r].answer.by
                   /\ from'[r].process = from'[got'[r].answer.by].process
  <2>w. awaited'[r] = awaited[r] \/ (pc[r] = "lock" /\ UNCHANGED got)
    BY <1>p, <1>w DEF Locked
  <2>1. CASE got'[r] = got[r]
    <3>1. Answered(r) /\ awaited'[r] = awaited[r]
      BY <1>5, <2>w, <2>1 DEF Answered, AnsweredInv
    <3>2. got[r].answer \in Answer
      BY <1>p, <3>1 DEF Answered
    <3>3. from'[r] = from[r] /\ from'[got[r].answer.by] = from[got[r].answer.by]
      BY <1>a, <1>k, <3>1, <3>2 DEF PayloadInv
    <3> QED  BY <2>1, <3>1, <3>3 DEF PayloadInv, RecordsMatchPayload
  <2>2. ASSUME NEW a \in Answer, from[r] # NoRecord, got'[r].answer = a, Source(r, a),
               got'[r] # got[r]
        PROVE  /\ from'[r] # NoRecord /\ from'[a.by] # NoRecord
               /\ \/ from'[r].fingerprint = from'[a.by].fingerprint
                  \/ awaited'[r] = a.by /\ from'[r].process = from'[a.by].process
    <3>1. from'[r] = from[r] /\ awaited'[r] = awaited[r]
      BY <1>k, <2>w, <2>2
    <3>2. CASE a.by = r
      BY <2>2, <3>1, <3>2
    <3>3. CASE record # NoRecord /\ record.state = "completed" /\ a = record.answer /\ Matches(r)
      BY <1>a, <1>k, <2>2, <3>1, <3>3 DEF PayloadInv, Matches
    <3>4. CASE awaited[r] \in Request /\ outcome[awaited[r]] # NoAnswer /\ a = outcome[awaited[r]]
      BY <1>k, <2>2, <3>1, <3>4, NoRecordAssumption DEF PayloadInv
    <3> QED  BY <2>2, <3>2, <3>3, <3>4 DEF Source
  <2> QED  BY <1>5, <2>1, <2>2, Sent DEF SendsAtMostOne
<1> QED  BY <1>1, <1>2, <1>3, <1>4, <1>5 DEF PayloadInv, RecordsMatchPayload, Answered

\* RecordsMatchPayload: whatever fails, a response to another payload reaches a
\* request only through a promise of its own process.
THEOREM PayloadsKeptApart == Spec => []RecordsMatchPayload
<1>1. Init => AnsweredInv /\ PayloadInv /\ RecordsMatchPayload
  BY DEF Init, IdemInit, AnsweredInv, PayloadInv, RecordsMatchPayload, Answered, Refusal
<1>2. TypeOK /\ AnsweredInv /\ PayloadInv /\ RecordsMatchPayload /\ [Next]_vars
        => (AnsweredInv /\ PayloadInv /\ RecordsMatchPayload)'
  <2>1. CASE Next
    BY <2>1, AnsweredStep, PayloadStep DEF TypeOK
  <2>2. CASE UNCHANGED vars
    BY <2>2 DEF vars, idemVars, AnsweredInv, PayloadInv, RecordsMatchPayload, Answered
  <2> QED  BY <2>1, <2>2
<1> QED  BY <1>1, <1>2, PipelineTypes, PTL DEF Spec

---------------------------------------------------------------------------
\* MarkerHasHolder: with no failure, an in-progress marker has a request that will
\* replace it, or the one whose client left unnoticed.
THEOREM MarkersHaveHolders == Spec => []MarkerHasHolder
<1>1. Init => PhaseInv /\ HolderInv /\ MarkerHasHolder
  BY DEF Init, IdemInit, PhaseInv, HolderInv, Holders, MarkerHasHolder
<1>2. TypeOK /\ PhaseInv /\ HolderInv /\ MarkerHasHolder /\ [Next]_vars
        => (PhaseInv /\ HolderInv /\ MarkerHasHolder)'
  <2> SUFFICES ASSUME TypeOK, PhaseInv, HolderInv, MarkerHasHolder, [Next]_vars
               PROVE  PhaseInv' /\ HolderInv' /\ MarkerHasHolder'
    OBVIOUS
  <2>1. CASE UNCHANGED vars
    BY <2>1 DEF vars, idemVars, PhaseInv, HolderInv, RedisWorked, MarkerHasHolder, Holders
  <2>2. CASE Next
    <3> USE <2>2 DEF TypeOK
    <3>1. PhaseInv' /\ HolderInv'
      BY PhaseStep, HolderStep
    <3> SUFFICES ASSUME trouble' = {}, record' # NoRecord, record'.state = "in-progress"
                 PROVE  \E q \in Holders' : /\ pc'[q] \in Holding \/ q \in unheard'
                                            /\ from'[q].fingerprint = record'.fingerprint
      BY <3>1 DEF MarkerHasHolder
    <3>t. trouble = {}
      BY DEF Next, IdemNext, Enter, Refuse, GuardFails, Arrive, TurnAway, Expire, idemVars, Serve,
             Get, Lock, Locked, Awaited, Poll, GiveUp, Finish, Store, Clear, DeleteAfterError,
             Disconnect, HangUp, StoreFails, RedisThrows, Crash
    <3>p. /\ pc \in [Request -> Active \cup {"new", "done", "dead"}]
          /\ executed \subseteq Request /\ unheard \subseteq executed
          /\ \A q \in Request : pc[q] \in Holding => q \in executed
      BY DEF IdemTypeOK
    <3>2. ASSUME NEW q \in Request, Lock(q)
          PROVE  \E r \in Holders' : /\ pc'[r] \in Holding \/ r \in unheard'
                                     /\ from'[r].fingerprint = record'.fingerprint
      <4>1. q \in Holders' /\ pc'[q] \in Holding
        BY <3>2, <3>p DEF Lock, Goto, Holders, Holding, PhaseInv
      <4>2. from'[q].fingerprint = record'.fingerprint
        BY <3>2 DEF Lock, Marker
      <4> QED  BY <4>1, <4>2
    <3>3. ASSUME NEW q \in Request,
                 record' = Completed(q, Captured(q)) \/ record' = NoRecord
          PROVE  FALSE
      BY <3>3 DEF Completed
    <3>4. ASSUME UNCHANGED record
          PROVE  \E r \in Holders' : /\ pc'[r] \in Holding \/ r \in unheard'
                                     /\ from'[r].fingerprint = record'.fingerprint
      <4>1. PICK h \in Holders : /\ pc[h] \in Holding \/ h \in unheard
                                 /\ from[h].fingerprint = record.fingerprint
        BY <3>4, <3>t DEF MarkerHasHolder
      <4>2. h \in Request /\ from[h] # NoRecord /\ from'[h] = from[h]
        <5>1. h \in Request /\ pc[h] # "new"
          BY <3>p DEF Holders, PhaseInv, Holding
        <5> QED  BY <5>1, FromStays DEF IdemTypeOK
      <4>3. h \in Holders'
        BY <3>p, <4>1, <4>2
        DEF Next, IdemNext, Enter, Refuse, GuardFails, Arrive, TurnAway, Expire, idemVars, Serve,
            Get, Lock, Locked, Awaited, Poll, GiveUp, Finish, Store, Clear, DeleteAfterError,
            Disconnect, HangUp, StoreFails, RedisThrows, Crash, Holders, Holding, PhaseInv
      <4>4. pc'[h] \in Holding \/ h \in unheard'
        <5> DEFINE Kept == pc'[h] \in Holding \/ h \in unheard'
        <5>0. \A q \in Request : pc[q] # "clearing"
          BY <3>t DEF HolderInv, RedisWorked
        <5>1. ASSUME NEW q \in Request, NEW p \in Process, NEW f \in Fingerprint,
                     Enter(q, p, f) \/ Refuse(q, p, f) \/ GuardFails(q, p, f)
              PROVE  Kept
          BY <3>p, <4>1, <4>2, <5>1
          DEF Enter, Refuse, GuardFails, Arrive, TurnAway, Goto, Holding
        <5>2. ASSUME NEW e \in Envelope, Expire(e)
              PROVE  Kept
          BY <4>1, <5>2 DEF Expire, idemVars
        <5>3. ASSUME NEW q \in Request,
                     \/ Get(q) \/ Lock(q) \/ Locked(q) \/ Awaited(q) \/ Poll(q) \/ GiveUp(q)
                     \/ DeleteAfterError(q) \/ StoreFails(q) \/ RedisThrows(q) \/ Clear(q)
              PROVE  Kept
          BY <3>p, <4>1, <4>2, <5>0, <5>3
          DEF Get, Lock, Locked, Awaited, Poll, GiveUp, DeleteAfterError, StoreFails, RedisThrows,
              Clear, AnswerFrom, Goto, Holding
        <5>4. ASSUME NEW q \in Request, Finish(q) \/ Disconnect(q) \/ HangUp(q)
              PROVE  Kept
          BY <3>p, <4>1, <4>2, <5>4 DEF Finish, Disconnect, HangUp, Goto, Holding
        <5>5. ASSUME NEW q \in Request, Store(q)
              PROVE  Kept
          BY <3>3, <5>5 DEF Store
        <5>6. ASSUME NEW p \in Process, Crash(p)
              PROVE  FALSE
          BY <5>6 DEF Crash
        <5> QED  BY <5>1, <5>2, <5>3, <5>4, <5>5, <5>6 DEF Next, IdemNext, Serve
      <4> QED  BY <3>4, <4>1, <4>2, <4>3, <4>4
    <3>5. \/ UNCHANGED record
          \/ \E q \in Request : \/ Lock(q) \/ record' = NoRecord
                                \/ record' = Completed(q, Captured(q))
      BY <3>t
      DEF Next, IdemNext, Enter, Refuse, GuardFails, Arrive, TurnAway, Expire, idemVars, Serve,
          Get, Locked, Awaited, Poll, GiveUp, Finish, Store, Clear, DeleteAfterError,
          Disconnect, HangUp, StoreFails, RedisThrows, Crash
    <3> QED  BY <3>2, <3>3, <3>4, <3>5
  <2> QED  BY <2>1, <2>2
<1> QED  BY <1>1, <1>2, PipelineTypes, PTL DEF Spec

---------------------------------------------------------------------------
(* How often an envelope passes the guard. *)

Passed(e) ==
  {q \in Request : (pc[q] \in Active \/ q \in executed) /\ e \in EnvelopesOf[from[q].fingerprint]}

\* EnvelopeOnce does not say that a request which has not run its handler yet has
\* taken the place of another.
EnvelopeInv ==
  \A e \in Envelope :
    /\ Cardinality(Passed(e)) <= 1 + forgotten[e]
    /\ e \notin seen => Cardinality(Passed(e)) <= forgotten[e]

LEMMA PassedFinite == \A e \in Envelope : IsFiniteSet(Passed(e)) /\ Cardinality(Passed(e)) \in Nat
BY RequestAssumption, FS_Subset, FS_CardinalityType DEF Passed

\* Only the guard lets a request pass.
LEMMA PassedByGuard ==
  ASSUME IdemTypeOK, PhaseInv, Next, NEW e \in Envelope
  PROVE  \/ Passed(e)' \subseteq Passed(e)
         \/ \E q \in Request, p \in Process, f \in Fingerprint :
              /\ Enter(q, p, f) /\ e \in EnvelopesOf[f] /\ Passed(e)' \subseteq Passed(e) \cup {q}
<1>p. /\ pc \in [Request -> Active \cup {"new", "done", "dead"}] /\ executed \subseteq Request
      /\ \A q \in Request : /\ q \in executed => pc[q] # "new"
                            /\ pc[q] # "new" => from[q] # NoRecord
                            /\ from[q] # NoRecord => from'[q] = from[q]
  BY FromStays DEF IdemTypeOK, PhaseInv, Holding
<1>1. ASSUME NEW q \in Request, NEW p \in Process, NEW f \in Fingerprint, Enter(q, p, f)
      PROVE  /\ Passed(e)' \subseteq Passed(e) \cup {q}
             /\ q \in Passed(e)' => e \in EnvelopesOf[f]
  <2>1. /\ pc[q] = "new" /\ pc' = [pc EXCEPT ![q] = "get"] /\ UNCHANGED executed
        /\ from' = [from EXCEPT ![q] = [process |-> p, fingerprint |-> f]]
    BY <1>1 DEF Enter, Arrive, Goto
  <2>2. from'[q].fingerprint = f /\ \A r \in Request \ {q} : from'[r] = from[r]
    BY <2>1 DEF IdemTypeOK
  <2> QED  BY <1>p, <2>1, <2>2 DEF Passed
<1>2. ASSUME NEW q \in Request, NEW p \in Process, NEW f \in Fingerprint,
             Refuse(q, p, f) \/ GuardFails(q, p, f)
      PROVE  Passed(e)' \subseteq Passed(e)
  <2>1. /\ pc[q] = "new" /\ pc' = [pc EXCEPT ![q] = "done"] /\ UNCHANGED executed
    BY <1>2 DEF Refuse, GuardFails, TurnAway, Goto
  <2>2. q \notin Passed(e)' /\ \A r \in Request \ {q} : from'[r] = from[r]
    BY <1>p, <1>2, <2>1
    DEF Refuse, GuardFails, TurnAway, Passed, Active, Waiting, Holding, IdemTypeOK
  <2> QED  BY <1>p, <2>1, <2>2 DEF Passed
<1>3. ASSUME UNCHANGED from,
             \A r \in Request : pc'[r] \in Active \/ r \in executed' => pc[r] \in Active \/ r \in executed
      PROVE  Passed(e)' \subseteq Passed(e)
  BY <1>3 DEF Passed
<1>4. ASSUME NEW q \in Request, Serve(q) \/ Disconnect(q) \/ HangUp(q) \/ StoreFails(q) \/ RedisThrows(q)
      PROVE  Passed(e)' \subseteq Passed(e)
  <2>1. /\ pc[q] \in Active /\ (\E to : pc' = [pc EXCEPT ![q] = to])
        /\ executed' \in {executed, executed \cup {q}} /\ UNCHANGED from
    BY <1>4
    DEF Serve, Get, Lock, Locked, Awaited, Poll, GiveUp, Finish, Store, Clear, DeleteAfterError,
        Disconnect, HangUp, StoreFails, RedisThrows, Goto, AnswerFrom, Resolve,
        Active, Waiting, Holding
  <2> QED  BY <1>3, <1>p, <2>1
<1>5. ASSUME NEW p \in Process, Crash(p)
      PROVE  Passed(e)' \subseteq Passed(e)
  <2>1. \A r \in Request : pc'[r] = pc[r] \/ pc'[r] = "dead"
    BY <1>5 DEF Crash
  <2>2. "dead" \notin Active
    BY DEF Active, Waiting, Holding
  <2> QED  BY <1>3, <1>5, <2>1, <2>2 DEF Crash
<1>6. ASSUME NEW d \in Envelope, Expire(d)
      PROVE  Passed(e)' \subseteq Passed(e)
  BY <1>3, <1>6 DEF Expire, idemVars
<1> QED  BY <1>1, <1>2, <1>4, <1>5, <1>6 DEF Next, IdemNext

LEMMA EnvelopeStep ==
  ASSUME TypeOK, PhaseInv, EnvelopeInv, Next
  PROVE  EnvelopeInv'
<1> SUFFICES ASSUME NEW e \in Envelope
             PROVE  /\ Cardinality(Passed(e)') <= 1 + forgotten'[e]
                    /\ e \notin seen' => Cardinality(Passed(e)') <= forgotten'[e]
  BY DEF EnvelopeInv
<1> USE DEF TypeOK
<1>p. /\ seen \subseteq Envelope /\ forgotten \in [Envelope -> Nat]
      /\ Cardinality(Passed(e)) <= 1 + forgotten[e]
      /\ e \notin seen => Cardinality(Passed(e)) <= forgotten[e]
      /\ Cardinality(Passed(e)) \in Nat /\ IsFiniteSet(Passed(e))
  BY PassedFinite DEF ReplayTypeOK, EnvelopeInv
<1>1. ASSUME NEW q \in Request, NEW p \in Process, NEW f \in Fingerprint, Enter(q, p, f),
             e \in EnvelopesOf[f], Passed(e)' \subseteq Passed(e) \cup {q}
      PROVE  /\ Cardinality(Passed(e)') <= 1 + forgotten'[e]
             /\ e \notin seen' => Cardinality(Passed(e)') <= forgotten'[e]
  <2>1. e \notin seen /\ e \in seen' /\ UNCHANGED forgotten
    BY <1>1 DEF Enter, ReserveEnvelopes
  <2>2. /\ IsFiniteSet(Passed(e) \cup {q})
        /\ Cardinality(Passed(e) \cup {q}) <= Cardinality(Passed(e)) + 1
        /\ Cardinality(Passed(e) \cup {q}) \in Nat
    <3> DEFINE S == Passed(e)
    <3>1. IsFiniteSet(S) /\ Cardinality(S) \in Nat
      BY <1>p
    <3> HIDE DEF S
    <3>2. IsFiniteSet(S \cup {q})
          /\ Cardinality(S \cup {q}) = IF q \in S THEN Cardinality(S) ELSE Cardinality(S) + 1
      BY <3>1, FS_AddElement, Zenon
    <3>3. /\ IsFiniteSet(S \cup {q}) /\ Cardinality(S \cup {q}) <= Cardinality(S) + 1
          /\ Cardinality(S \cup {q}) \in Nat
      BY <3>1, <3>2
    <3> QED  BY <3>3 DEF S
  <2>3. Cardinality(Passed(e)') <= Cardinality(Passed(e) \cup {q}) /\ Cardinality(Passed(e)') \in Nat
    BY <1>1, <2>2, FS_Subset, FS_CardinalityType
  <2> QED  BY <1>p, <2>1, <2>2, <2>3
<1>2. ASSUME Passed(e)' \subseteq Passed(e)
      PROVE  /\ Cardinality(Passed(e)') <= 1 + forgotten'[e]
             /\ e \notin seen' => Cardinality(Passed(e)') <= forgotten'[e]
  <2>1. Cardinality(Passed(e)') <= Cardinality(Passed(e)) /\ Cardinality(Passed(e)') \in Nat
    BY <1>p, <1>2, FS_Subset, FS_CardinalityType
  <2>2. \/ (e \notin seen' => e \notin seen) /\ forgotten'[e] = forgotten[e]
        \/ forgotten'[e] = 1 + forgotten[e]
    <3>1. ASSUME NEW d \in Envelope, Expire(d)
          PROVE  \/ (e \notin seen' => e \notin seen) /\ forgotten'[e] = forgotten[e]
                 \/ forgotten'[e] = 1 + forgotten[e]
      BY <1>p, <3>1 DEF Expire, Forget
    <3>2. UNCHANGED replayVars \/ (seen \subseteq seen' /\ UNCHANGED forgotten)
          \/ \E d \in Envelope : Expire(d)
      BY DEF Next, Enter, Refuse, GuardFails, ReserveEnvelopes, RefuseReplay
    <3> QED  BY <1>p, <3>1, <3>2 DEF replayVars
  <2> QED  BY <1>p, <2>1, <2>2
<1> QED  BY <1>1, <1>2, PassedByGuard

\* EnvelopeOnce: whatever fails and whatever keys the requests carry, an envelope
\* reaches a handler once, and once more after each expiry of its key.
THEOREM EnvelopesPassOnce == Spec => []EnvelopeOnce
<1>1. Init => PhaseInv /\ EnvelopeInv
  <2> SUFFICES ASSUME Init PROVE PhaseInv /\ EnvelopeInv
    OBVIOUS
  <2>1. PhaseInv
    BY DEF Init, IdemInit, PhaseInv
  <2>2. \A e \in Envelope : Passed(e) = {}
    BY DEF Init, IdemInit, Passed, Active, Waiting, Holding
  <2> QED  BY <2>1, <2>2, FS_EmptySet DEF EnvelopeInv, Init, ReplayInit
<1>2. TypeOK /\ PhaseInv /\ EnvelopeInv /\ [Next]_vars => (PhaseInv /\ EnvelopeInv)'
  <2>1. CASE Next
    BY <2>1, PhaseStep, EnvelopeStep DEF TypeOK
  <2>2. CASE UNCHANGED vars
    BY <2>2 DEF vars, idemVars, replayVars, PhaseInv, EnvelopeInv, Passed
  <2> QED  BY <2>1, <2>2
<1>3. TypeOK /\ EnvelopeInv => EnvelopeOnce
  <2> SUFFICES ASSUME TypeOK, EnvelopeInv, NEW e \in Envelope
               PROVE  Cardinality({q \in executed : e \in EnvelopesOf[from[q].fingerprint]})
                        <= 1 + forgotten[e]
    BY DEF EnvelopeOnce
  <2> DEFINE run == {q \in executed : e \in EnvelopesOf[from[q].fingerprint]}
  <2>1. run \subseteq Passed(e)
    BY DEF Passed, TypeOK, IdemTypeOK
  <2> HIDE DEF run
  <2>2. /\ Cardinality(run) <= Cardinality(Passed(e))
        /\ Cardinality(run) \in Nat /\ Cardinality(Passed(e)) \in Nat
    BY <2>1, PassedFinite, FS_Subset, FS_CardinalityType
  <2>3. Cardinality(Passed(e)) <= 1 + forgotten[e] /\ forgotten[e] \in Nat
    BY DEF EnvelopeInv, TypeOK, ReplayTypeOK
  <2>4. Cardinality(run) <= 1 + forgotten[e]
    BY <2>2, <2>3
  <2> QED  BY <2>4 DEF run
<1> QED  BY <1>1, <1>2, <1>3, PipelineTypes, PTL DEF Spec


=============================================================================
