---------------------------- MODULE RequestPipeline ----------------------------
(***************************************************************************)
(* A mutating request with an Idempotency-Key on its way to its handler:   *)
(* the anti-replay guard of /cosign and then the idempotency middleware    *)
(* (the order of packages/server/src/server.ts).  Other routes mount only  *)
(* the second: their fingerprints, which hold the path, have no envelope.  *)
(* The guard (middleware/anti-replay.ts) reserves the envelopes of a       *)
(* request, all or none, in a script that runs as one Redis command.       *)
(***************************************************************************)
EXTENDS Idempotency

CONSTANTS
  Envelope,     \* transaction envelopes (source, sequence and XDR)
  EnvelopesOf,  \* the envelopes the guard finds in a body with a fingerprint
  MaxForget     \* bound: how often the key of an envelope expires

ASSUME EnvelopesAssumption == EnvelopesOf \in [Fingerprint -> SUBSET Envelope]

ASSUME RequestAssumption == IsFiniteSet(Request)

VARIABLES
  seen,       \* the envelopes whose lumen:anti-replay key exists
  forgotten   \* history: how often the key of each envelope expired

replayVars == <<seen, forgotten>>
vars == <<idemVars, replayVars>>

ReplayTypeOK ==
  /\ seen \subseteq Envelope
  /\ forgotten \in [Envelope -> Nat]

TypeOK == IdemTypeOK /\ ReplayTypeOK

ReplayInit == seen = {} /\ forgotten = [e \in Envelope |-> 0]

Init == IdemInit /\ ReplayInit

---------------------------------------------------------------------------
\* Mutant of ReserveEnvelopes: a request passes with one envelope that is new.
ReserveEnvelopesAny(es) ==
  /\ es = {} \/ es \ seen # {}
  /\ seen' = seen \cup es
  /\ UNCHANGED forgotten

\* A request without an envelope passes too.
ReserveEnvelopes(es) ==
  /\ es \cap seen = {}
  /\ seen' = seen \cup es
  /\ UNCHANGED forgotten

RefuseReplay(es) ==
  /\ es \cap seen # {}
  /\ UNCHANGED replayVars

\* The EX of a key elapses.
Forget(e) ==
  /\ e \in seen
  /\ seen' = seen \ {e}
  /\ forgotten' = [forgotten EXCEPT ![e] = @ + 1]

\* The guard lets the request on.
Enter(q, p, f) == ReserveEnvelopes(EnvelopesOf[f]) /\ Arrive(q, p, f)

\* The guard answers instead of the middleware and the handler.
TurnAway(q, p, f, kind) ==
  /\ pc[q] = "new"
  /\ from' = [from EXCEPT ![q] = [process |-> p, fingerprint |-> f]]
  /\ Respond(q, Refusal(kind))
  /\ Goto(q, "done")
  /\ UNCHANGED <<record, inFlight, awaited, outcome, executed, gaveUp, unheard>>

Refuse(q, p, f) ==
  /\ RefuseReplay(EnvelopesOf[f])
  /\ TurnAway(q, p, f, "replay")
  /\ UNCHANGED trouble

\* EVAL throws, having run or not: next(err).
GuardFails(q, p, f) ==
  /\ EnvelopesOf[f] # {}
  /\ ReserveEnvelopes(EnvelopesOf[f]) \/ UNCHANGED replayVars
  /\ TurnAway(q, p, f, "error")
  /\ trouble' = trouble \cup {"redis"}

Expire(e) ==
  /\ forgotten[e] < MaxForget
  /\ Forget(e)
  /\ UNCHANGED idemVars

Next ==
  \/ \E q \in Request, p \in Process, f \in Fingerprint :
       Enter(q, p, f) \/ Refuse(q, p, f) \/ GuardFails(q, p, f)
  \/ \E e \in Envelope : Expire(e)
  \/ IdemNext /\ UNCHANGED replayVars

Spec == Init /\ [][Next]_vars

\* Redis answers, handlers end, and the polls run out of time.
FairSpec == Spec /\ \A q \in Request : WF_vars(Serve(q) /\ UNCHANGED replayVars)

---------------------------------------------------------------------------
(* Properties *)

Holders == executed \ gaveUp
RedisWorked == "redis" \notin trouble

\* While Redis does not fail, one request of a key at most has taken its lock and
\* run its handler, whatever clients hang up and processes die; the only other
\* executions are those of waiters that gave up (next() without the lock).
OneHolder == RedisWorked => Cardinality(Holders) <= 1

\* "Repeated requests with same idempotency key return identical response":
\* while Redis does not fail, all who got a response of a handler got the same
\* one, truncated or whole, except those who ran the handler themselves unlocked.
SameAnswer ==
  RedisWorked =>
    \A q, r \in Request \ gaveUp : Answered(q) /\ Answered(r) => got[q] = got[r]

\* A response is replayed to a request with another payload only through the
\* promise of their common process, never from Redis, also when Redis fails.
RecordsMatchPayload ==
  \A q \in Request :
    Answered(q) => LET by == got[q].answer.by IN
      \/ from[q].fingerprint = from[by].fingerprint
      \/ awaited[q] = by /\ from[q].process = from[by].process

\* While Redis does not fail, a completed record is never replaced or removed: not
\* by a waiter that gave up, nor by a handler that ends late.
CompletedStays ==
  [][ (record # NoRecord /\ record.state = "completed" /\ "redis" \notin trouble')
        => record' = record ]_vars

\* With no failure, an in-progress marker belongs to a request that will store its
\* response, or to one whose client left unnoticed: no other path leaves a marker.
MarkerHasHolder ==
  trouble = {} /\ record # NoRecord /\ record.state = "in-progress" =>
    \E q \in Holders :
      /\ pc[q] \in Holding \/ q \in unheard
      /\ from[q].fingerprint = record.fingerprint

\* An envelope reaches a handler once, and once more each time its key has expired,
\* whatever keys the requests carry and however Redis fails.
EnvelopeOnce ==
  \A e \in Envelope :
    Cardinality({q \in executed : e \in EnvelopesOf[from[q].fingerprint]}) <= 1 + forgotten[e]

\* A request is answered, or its process dies, or it awaits an execution whose
\* client left unnoticed: that promise is never resolved.
EveryRequestAnswered ==
  \A q \in Request :
    pc[q] \in Active ~> (pc[q] \in {"done", "dead"} \/ awaited[q] \in unheard)

\* "Mismatched fingerprints for the same key return HTTP 422" (idempotency.ts:211):
\* no request is answered with the response to another payload.
MismatchIsRefused ==
  \A q \in Request :
    Answered(q) => from[q].fingerprint = from[got[q].answer.by].fingerprint

=============================================================================
