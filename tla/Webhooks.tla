------------------------------- MODULE Webhooks -------------------------------
(***************************************************************************)
(* WebhookDispatcher of webhook/dispatcher.ts: deliveries retried by the   *)
(* dispatch that began them, or by the jobs of a persistent queue, and the *)
(* delivery log every one is written to.  The queue and the receivers are  *)
(* external; a step is what runs between two awaits.                       *)
(***************************************************************************)
EXTENDS Integers, Sequences

CONSTANTS
  Hook,         \* webhooks, by their id
  Call,         \* calls of dispatch(), retryDelivery() and processQueueJob() that overlap
  MaxAttempts,  \* maxRetries + 1, and retryDelaysMs.length + 1
  MaxLog,       \* maxDeliveryLogSize
  LastDelivery  \* bound: the deliveries dispatched

ASSUME WebhooksAssumption ==
  MaxAttempts \in Nat \ {0} /\ MaxLog \in Nat \ {0} /\ LastDelivery \in Nat

VARIABLES
  persistent,  \* a queue is configured
  hooks,       \* per webhook: absent, or whether it wants the events
  deliveries,  \* the payloads created
  calls,       \* the calls that run
  queue,       \* external: jobs that wait
  deadLetters, \* external: the deliveries in the dead-letter queue
  writers,     \* deliveryLogWrite: the calls whose entries are to be written
  contents,    \* per call: what it has read of the log
  log,         \* the delivery log
  written      \* history: the entries whose write was acknowledged

webhookVars ==
  <<persistent, hooks, deliveries, calls, queue, deadLetters, writers, contents, log, written>>

Unread == <<>>
Idle == [kind |-> "idle"]
Result(d, h, n, outcome) == [delivery |-> d, hook |-> h, attempt |-> n, outcome |-> outcome]

WebhooksInit ==
  /\ persistent \in BOOLEAN
  /\ hooks = [h \in Hook |-> "on"]
  /\ deliveries = 0
  /\ calls = [c \in Call |-> Idle]
  /\ queue = {} /\ deadLetters = {}
  /\ writers = <<>> /\ contents = [c \in Call |-> Unread] /\ log = <<>> /\ written = <<>>

\* register(), unregister() and update() of a webhook.
Configure(h, mode) ==
  /\ hooks[h] # mode
  /\ hooks' = [hooks EXCEPT ![h] = mode]
  /\ UNCHANGED <<persistent, deliveries, calls, queue, deadLetters, writers, contents, log, written>>

---------------------------------------------------------------------------
(* The calls: each tries a delivery to some webhooks, and then writes the   *)
(* results to the log.                                                      *)

Calling(kind, d, tried) == [kind |-> kind, delivery |-> d, tried |-> tried, results |-> <<>>]

Dispatch(c) ==
  LET wanting == {h \in Hook : hooks[h] = "on"}
  IN /\ calls[c] = Idle /\ deliveries < LastDelivery /\ wanting # {}
     /\ deliveries' = deliveries + 1
     /\ calls' = [calls EXCEPT ![c] =
          Calling(IF persistent THEN "enqueue" ELSE "dispatch", deliveries + 1, [h \in wanting |-> 0])]
     /\ UNCHANGED <<persistent, hooks, queue, deadLetters, writers, contents, log, written>>

\* The latest entry of a delivery, read without waiting for the writers.
RetryDelivery(c, d) ==
  LET matching == SelectSeq(log, LAMBDA e : e.delivery = d)
      latest == matching[Len(matching)].hook
  IN /\ calls[c] = Idle
     /\ matching # <<>> /\ hooks[latest] # "absent"
     /\ calls' = [calls EXCEPT ![c] = Calling("retry", d, [h \in {latest} |-> 0])]
     /\ UNCHANGED <<persistent, hooks, deliveries, queue, deadLetters, writers, contents, log, written>>

\* A worker takes a job; a webhook that is gone is not tried.
ProcessQueueJob(c, job) ==
  /\ calls[c] = Idle
  /\ queue' = queue \ {job}
  /\ IF hooks[job.hook] = "absent"
     THEN /\ calls' = [calls EXCEPT ![c] =
               [Calling("job", job.delivery, <<>>)
                  EXCEPT !.results = <<Result(job.delivery, job.hook, job.attempt, "gone")>>]]
          /\ writers' = Append(writers, c)
     ELSE /\ calls' = [calls EXCEPT ![c] =
               Calling("job", job.delivery, [h \in {job.hook} |-> job.attempt - 1])]
          /\ UNCHANGED writers
  /\ UNCHANGED <<persistent, hooks, deliveries, deadLetters, contents, log, written>>

\* The outcome of a delivery to a webhook; with the last one the results are to
\* be written, after those that wait already.
Settle(c, h, n, outcome) ==
  LET left == DOMAIN calls[c].tried \ {h}
  IN /\ calls' = [calls EXCEPT
          ![c].tried = [x \in left |-> @[x]],
          ![c].results = Append(@, Result(calls[c].delivery, h, n, outcome))]
     /\ writers' = IF left = {} THEN Append(writers, c) ELSE writers

\* A receiver answers, or does not in time.  The loop of a dispatch goes on.
Attempt(c, h) ==
  /\ calls[c].kind \in {"dispatch", "retry", "job"} /\ h \in DOMAIN calls[c].tried
  /\ \E outcome \in {"ok", "clientError", "retryable"} :
       LET n == calls[c].tried[h] + 1
       IN IF calls[c].kind = "dispatch" /\ outcome = "retryable" /\ n < MaxAttempts
          THEN calls' = [calls EXCEPT ![c].tried[h] = n] /\ UNCHANGED writers
          ELSE Settle(c, h, n, outcome)
  /\ UNCHANGED <<persistent, hooks, deliveries, queue, deadLetters, contents, log, written>>

\* The job id names the delivery and the attempt, not the webhook: the queue may
\* ignore a job because of another one.
QueueAdd(d, h, n) ==
  \/ queue' = queue \cup {[delivery |-> d, hook |-> h, attempt |-> n]}
  \/ /\ \E job \in queue : job.delivery = d /\ job.attempt = n
     /\ UNCHANGED queue

EnqueueAttempt(c, h) ==
  /\ calls[c].kind = "enqueue" /\ h \in DOMAIN calls[c].tried
  /\ \/ QueueAdd(calls[c].delivery, h, 1) /\ Settle(c, h, 1, "ok")
     \/ UNCHANGED queue /\ Settle(c, h, 0, "retryable")
  /\ UNCHANGED <<persistent, hooks, deliveries, deadLetters, contents, log, written>>

---------------------------------------------------------------------------
(* persistDeliveryLog() *)

LastOf(entries) ==
  LET extra == Len(entries) - MaxLog IN SubSeq(entries, IF extra > 0 THEN extra + 1 ELSE 1, Len(entries))

\* What tells the entries of a call apart.
Entries(c) ==
  [i \in DOMAIN calls[c].results |->
     LET e == calls[c].results[i] IN [delivery |-> e.delivery, hook |-> e.hook, attempt |-> e.attempt]]

Waiting(c) == \E i \in 1..Len(writers) : writers[i] = c

Turn(c) == writers # <<>> /\ c = Head(writers)

\* Mutant of ReadLog: the log is read before the writes ahead have ended.
ReadLogEarly(c) ==
  /\ Waiting(c) /\ contents[c] = Unread
  /\ contents' = [contents EXCEPT ![c] = <<log>>]
  /\ UNCHANGED <<persistent, hooks, deliveries, calls, queue, deadLetters, writers, log, written>>

ReadLog(c) ==
  /\ Turn(c) /\ contents[c] = Unread
  /\ contents' = [contents EXCEPT ![c] = <<log>>]
  /\ UNCHANGED <<persistent, hooks, deliveries, calls, queue, deadLetters, writers, log, written>>

\* The promise of c's write settles, and the next writer's turn comes.
Written(c) ==
  /\ writers' = Tail(writers)
  /\ contents' = [contents EXCEPT ![c] = Unread]

\* The temporary file is written and renamed.
WriteLog(c) ==
  /\ Turn(c) /\ contents[c] # Unread
  /\ log' = LastOf(contents[c][1] \o Entries(c))
  /\ written' = LastOf(written \o Entries(c))
  /\ Written(c)
  /\ UNCHANGED <<persistent, hooks, deliveries, calls, queue, deadLetters>>

\* The call rejects, and the next writer goes on.
WriteThrows(c) ==
  /\ Turn(c)
  /\ Written(c)
  /\ calls' = [calls EXCEPT ![c] = Idle]
  /\ UNCHANGED <<persistent, hooks, deliveries, queue, deadLetters, log, written>>

---------------------------------------------------------------------------
(* After its entries are written, a call ends, and a job or a retry that    *)
(* failed goes to the next attempt or to the dead letters.                  *)

DeadLetter(e) ==
  \/ deadLetters' = deadLetters \cup {e.delivery}
  \/ UNCHANGED deadLetters  \* there is no such queue, or it throws

Finish(c) ==
  /\ calls[c] # Idle
  /\ DOMAIN calls[c].tried = {} /\ ~Waiting(c)
  /\ calls' = [calls EXCEPT ![c] = Idle]
  /\ LET e == calls[c].results[1]
     IN CASE calls[c].kind \in {"dispatch", "enqueue"} \/ e.outcome = "ok" ->
               UNCHANGED <<queue, deadLetters>>
          [] calls[c].kind = "job" /\ e.outcome = "retryable" /\ e.attempt < MaxAttempts ->
               /\ QueueAdd(e.delivery, e.hook, e.attempt + 1) \/ UNCHANGED queue
               /\ UNCHANGED deadLetters
          [] OTHER -> DeadLetter(e) /\ UNCHANGED queue
  /\ UNCHANGED <<persistent, hooks, deliveries, writers, contents, log, written>>

WebhooksNext ==
  \/ \E h \in Hook, mode \in {"absent", "off", "on"} : Configure(h, mode)
  \/ \E c \in Call :
       \/ Dispatch(c)
       \/ \E d \in 1..deliveries : RetryDelivery(c, d)
       \/ \E job \in queue : ProcessQueueJob(c, job)
       \/ \E h \in Hook : Attempt(c, h) \/ EnqueueAttempt(c, h)
       \/ ReadLog(c) \/ WriteLog(c) \/ WriteThrows(c)
       \/ Finish(c)

WebhooksSpec == WebhooksInit /\ [][WebhooksNext]_webhookVars

\* However dispatches, jobs and retries overlap and fail: the log holds the last
\* entries whose write was acknowledged, none lost to another writer, in order.
DeliveryLogWhole == log = written

=============================================================================
