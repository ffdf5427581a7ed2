------------------------------ MODULE FeeSponsor ------------------------------
(***************************************************************************)
(* FeeSponsorService.submit (packages/server/src/fee-sponsor/service.ts),  *)
(* the caller of the slot allocator.  A worker is one submit() call of one *)
(* server replica; all replicas sponsor from the same account.             *)
(*                                                                         *)
(* Horizon is outside the repository: it may accept the envelope, refuse   *)
(* it with txBAD_SEQ, fail without applying it, or time out after applying *)
(* it.                                                                     *)
(***************************************************************************)
EXTENDS SequenceAllocator, TLC

CONSTANT MaxSubmitAttempts  \* opts.maxSubmitAttempts

ASSUME SubmitAssumption == MaxSubmitAttempts \in Nat \ {0}

VARIABLES
  phase,    \* where each submit() call is
  attempt,  \* its loop counter
  applied   \* history: how often the ledger applied this call's transaction

sponsorVars == <<phase, attempt, applied>>
vars == <<allocVars, sponsorVars>>

\* "none": no call.  "reserving" .. "submitting": inside an attempt.
\* "retrying": rolling back before the next attempt.  "settling": committing.
Phase == {"none", "reserving", "submitting", "retrying", "settling"}

SponsorTypeOK ==
  /\ TypeOK
  /\ phase \in [Worker -> Phase]
  /\ attempt \in [Worker -> 0..(MaxSubmitAttempts - 1)]
  /\ applied \in [Worker -> Nat]
  /\ \A w \in Worker : phase[w] = "none" => pc[w] = "idle"
  /\ \A w \in Worker : phase[w] = "submitting" => pc[w] = "held"

Init ==
  /\ AllocInit
  /\ phase = [w \in Worker |-> "none"]
  /\ attempt = [w \in Worker |-> 0]
  /\ applied = [w \in Worker |-> 0]

Phased(w, from, to) ==
  /\ phase[w] = from
  /\ phase' = [phase EXCEPT ![w] = to]

Submit(w) ==
  /\ Phased(w, "none", "reserving")
  /\ Reserve(w)
  /\ attempt' = [attempt EXCEPT ![w] = 0]
  /\ applied' = [applied EXCEPT ![w] = 0]

\* The commands of reserve(), one at a time.
Reserving(w) ==
  /\ phase[w] = "reserving"
  /\ ReserveStep(w)
  /\ UNCHANGED sponsorVars

\* reserve() threw: every candidate slot was held, or Redis failed.
ReserveThrew(w) ==
  /\ pc[w] = "idle"
  /\ Phased(w, "reserving", "none")
  /\ UNCHANGED <<allocVars, attempt, applied>>

\* wrapFeeBump signs under the reserved sequence; submitTransaction starts.
Send(w) ==
  /\ pc[w] = "held"
  /\ Phased(w, "reserving", "submitting")
  /\ UNCHANGED <<allocVars, attempt, applied>>

Accepted(w) ==
  /\ Phased(w, "submitting", "settling")
  /\ Commit(w)
  /\ applied' = [applied EXCEPT ![w] = @ + 1]
  /\ UNCHANGED attempt

\* txBAD_SEQ with attempts left: roll back, and reserve again after the backoff.
BadSeqRetry(w) ==
  /\ attempt[w] < MaxSubmitAttempts - 1
  /\ Phased(w, "submitting", "retrying")
  /\ GiveBack(w)
  /\ UNCHANGED <<attempt, applied>>

\* txBAD_SEQ on the last attempt, another error, or result.successful = false:
\* submit() throws and leaves its reservation to the TTL.
SubmitThrew(w) ==
  /\ Phased(w, "submitting", "none")
  /\ Abandon(w)
  /\ UNCHANGED <<attempt, applied>>

\* Mutant of TimedOutApplied: a timeout is retried like txBAD_SEQ.
TimedOutRetried(w) ==
  /\ attempt[w] < MaxSubmitAttempts - 1
  /\ Phased(w, "submitting", "retrying")
  /\ GiveBack(w)
  /\ applied' = [applied EXCEPT ![w] = @ + 1]
  /\ UNCHANGED attempt

\* Horizon times out after the ledger applied the transaction.
TimedOutApplied(w) ==
  /\ Phased(w, "submitting", "none")
  /\ Abandon(w)
  /\ applied' = [applied EXCEPT ![w] = @ + 1]
  /\ UNCHANGED attempt

\* The commands of rollback() and commit(), one at a time.
Settling(w) ==
  /\ phase[w] \in {"retrying", "settling"}
  /\ SettleStep(w)
  /\ UNCHANGED sponsorVars

\* A Redis error inside an operation: reserve() rethrows it to submit(),
\* rollback() and commit() are called with .catch(() => {}).
RedisFails(w) ==
  /\ pc[w] \in ReservePC \cup DropPC \cup RetirePC
  /\ Abandon(w)
  /\ UNCHANGED sponsorVars

Backoff(w) ==
  /\ Phased(w, "retrying", "reserving")
  /\ Reserve(w)
  /\ attempt' = [attempt EXCEPT ![w] = @ + 1]
  /\ UNCHANGED applied

\* commit() is over: submit() dispatches its webhooks and returns.
Return(w) ==
  /\ pc[w] = "idle"
  /\ Phased(w, "settling", "none")
  /\ UNCHANGED <<allocVars, attempt, applied>>

\* The replica dies with the call in flight.
Crash(w) ==
  /\ phase[w] # "none"
  /\ phase' = [phase EXCEPT ![w] = "none"]
  /\ Finish(w)
  /\ UNCHANGED <<redisVars, rc, history, attempt, applied>>

CallStep(w) ==
  \/ Reserving(w) \/ ReserveThrew(w) \/ Send(w)
  \/ Accepted(w) \/ BadSeqRetry(w) \/ SubmitThrew(w) \/ TimedOutApplied(w)
  \/ Settling(w) \/ Backoff(w) \/ Return(w)

Next ==
  \/ \E w \in Worker : Submit(w) \/ CallStep(w) \/ RedisFails(w) \/ Crash(w)
  \/ (Reclaimer \/ Gauge \/ \E s \in Slot : Expire(s)) /\ UNCHANGED sponsorVars

Spec == Init /\ [][Next]_vars

---------------------------------------------------------------------------
(* Properties *)

\* Only txBAD_SEQ, which consumes nothing, is retried: no submit() call gets
\* its transaction applied twice, not even when Horizon times out after
\* applying it.
AppliedAtMostOnce == \A w \in Worker : applied[w] <= 1

---------------------------------------------------------------------------
(* Model values *)

OneAccount == [w \in Worker |-> "sponsor"]
Replicas == Permutations(Worker)

=============================================================================
