# Lumena: a TLA+ verification project

Lumena is a Stellar wallet stack: Soroban contracts (Rust, `contracts/`), a
server that sponsors fees, cosigns, audits and notifies (TypeScript,
`packages/server`), a client core with web, React, React Native and CLI
packages on top, and documentation. This directory models the parts whose
correctness depends on an order of steps nobody wrote a test for, checks small
instances with TLC, and proves the most important properties for every instance
with TLAPS. Paths below are relative to the repository root; `packages/server`
is meant where a path names no package.

`PROJECT.json` holds the component list, the runs, the mutants each property is
tested with, the map from definitions to source lines, the findings, the hazards
and the theorems.

## 1. Inventory

### Server (`packages/server/src`)

| Component | State | Operations | What makes it correct |
|---|---|---|---|
| Fee-sponsor slot allocator (`fee-sponsor/sequence-allocator.ts`) | Redis keys `seq`, `res:<slot>` with a TTL, `claimed:<slot>`, `used:<slot>`, the counters `reserved`, `released` | `reserve`, `rollback`, `release`, `commit`, `rollbackExpired`, `pendingReservations` | one slot, one transaction; a committed slot is never used again; the backlog gauge hides no more than what was counted or reclaimed while it is read |
| Submission service (`fee-sponsor/service.ts`) | locals of `submit()` | reserve, wrap, send, retry on `txBAD_SEQ`, commit or roll back | a transaction is applied at most once |
| Balance monitor and refill (`fee-sponsor/monitor.ts`, `refill.ts`) | a refill in progress and the time of the last, in each replica | `checkBalance`, `refillIfLow` | one refill per shortage |
| Merkle audit log (`audit/merkle-log.ts`, set up in `server.ts`) | a Redis list shared by the replicas; `records` and `writeQueue` of each | `load`, `append`, `verify`, `merkleRoot`, publishing the root | one hash chain whatever replicas race, fail and restart |
| Sequence allocator (`sequence/allocator.ts`) | Redis counter, reservations, lock | reserve, release, rollback by script, `withSequence` | no two calls hold one number |
| Cosigner (`cosigner/service.ts`) | none of its own | evaluate a policy, sign, batch | every signature a client receives is recorded |
| Policy engine (`policy/engine.ts`) | the policies, a list of times per wallet, totals of spend limits and session keys | evaluate, dry run, set, remove, invalidate | no limit is passed; the dry run tells the truth |
| Policy store (`policy/store.ts`) | a map and a file; Redis and a subscriber | save, delete, load | the file never falls behind what was saved |
| Request pipeline (`middleware/`, `auth/sep10.ts`) | idempotency keys, replay keys, token buckets, nonces | lock, wait, store, forget, take | a request takes effect once, a challenge is accepted once, nobody passes the rate |
| Webhook dispatcher (`webhook/dispatcher.ts`) | webhooks, queue jobs, delivery log, dead letters | dispatch, process a job, retry, log | the log loses and reorders nothing |
| Lifecycle (`lifecycle.ts`) | in-flight operations | track, close, drain, exit | nothing cut off within the time limit; no operation keeps the process |
| Ledger ingestion (`ledger/ingest.ts`) | a stream per wallet | start, refresh, stop | no stream leaks, none is opened twice |
| Horizon router, fraud detector, canary | endpoint health, scores, counters | fail over, score, probe | |
| HTTP, GraphQL, WebSocket surface (`server.ts`) | clients | route, validate, broadcast | order of the middleware |
| Signers, database repositories, roles, start-up, observation | | one call each | |

### Contracts (`contracts`)

| Contract | State | Operations | What makes it correct |
|---|---|---|---|
| `token-sep41` | balances, allowances with an expiration, freezes, admin, supply | `initialize`, `mint`, `burn`, `burn_from`, `transfer`, `transfer_from`, `approve`, `set_authorized` | supply is the sum of balances; a freeze stops every way out |
| `escrow` | escrows with a state | `deposit`, `release`, `refund`, `raise_dispute`, `arbitrate` | each pays once, to the right side, and is covered by tokens |
| `payment-streaming` | streams: deposit, rate, start, accrual, pause | `create_stream`, `top_up`, `pause`, `resume`, `cancel`, `withdraw` | a recipient gets what was earned, no more and no less |
| `social-recovery` | guardians, threshold, timelock, proposal | register, initiate, vote, execute, cancel | a key rotates by quorum and delay |
| `proxy` | signers, threshold, timelock, pending upgrade | propose, approve, cancel, execute | code changes by quorum and delay |
| `inheritance` | owner, beneficiary, dormancy, last heartbeat | configure, heartbeat, claim | only a dormant vault is claimed |
| `spend-policy` | a limit, a scheduled one, up to 64 spends | set, schedule, apply, spend | no rolling day is overspent |
| `session-keys` | sessions by owner and key, an index by key | register, revoke, validate a call | a key leads to a live session within its quota |
| `paymaster` | deposits, limits, spending by epoch | deposit, sponsor, withdraw | deposits are covered |
| `oracle-spend-limit`, `smart-account`, `policy-guard` | lists, limits, prices | configure, check | |
| `ttl-manager`, `sbt-identity`, `mpc-verifier`, `security-utils` | registered entries, badges | extend, issue, revoke, verify | |

### Clients and the rest

`packages/core` has a stream client that resumes from cursors
(`stellar/stream.ts`), a sequence-number cache, key management and format
builders; `packages/web-sdk` sends one HTTP request per method; in
`packages/react` the recovery hook and the approval hook poll on timers beside
the calls of their user. `react-native`, `cli`, types, event schema, benchmarks,
examples and deployment keep no state worth a model.

### How components interact

* Server replicas share one Redis. An `await` is a point where other replicas,
  other requests of the same replica and the expiry of keys may run, so every
  Redis command is one step in the models, and what runs between two awaits is
  one step. A command may fail before or after it took effect, and a process may
  die between any two.
* `service.ts` calls the allocator and Horizon; Horizon's answer may be late.
* `/cosign` passes the guards of the pipeline, then calls the cosigner, which
  calls the policy engine and the signer; then it appends to the audit log. The
  lifecycle tracks it and closes connections around it.
* A low balance seen by the monitor asks for a refill.
* The contracts run one call at a time, and a call that fails leaves no trace.
  What is hard is the order of calls by different parties, ledger time, and
  arithmetic at the limits of `i128` and `u64`. `escrow` and
  `payment-streaming` call the token; its freezes make their transfers fail.

## 2. Modules

| Module | Models | Notes |
|---|---|---|
| `SequenceAllocator` | the slot allocator | any caller that commits, gives back or disappears |
| `FeeSponsor` | `FeeSponsorService.submit` | extends the allocator, as one of its callers |
| `MerkleAuditLog` | the audit log on every replica, its Redis list and roots | |
| `SharedLog` | abstract: an append-only log with readers | implemented by `MerkleAuditLog` |
| `Idempotency` | the idempotency middleware on every process, for one key | |
| `RequestPipeline` | the anti-replay guard and its Redis keys, then middleware, then handler | extends `Idempotency` |
| `PolicyEngine` | evaluation, dry run and the policy routes, for one wallet | |
| `Lifecycle` | SIGTERM to exit | |
| `Cosigning` | `/cosign`, `/cosign/batch` and their audit records | extends both |
| `TransactionSequence` | `sequence/allocator.ts`, for one account | |
| `Sep10` | challenges and nonces of one process | |
| `PolicyFile` | `FilePolicyStore` | |
| `Webhooks` | dispatches, jobs, retries and the delivery log | |
| `LedgerIngestion` | `LedgerIngestionWorker` | |
| `StreamClient` | `packages/core/src/stellar/stream.ts` | |
| `RateLimiter` | `middleware/rate-limiter.ts` with Redis | |
| `SponsorBalance` | the balance monitor and the refill | |
| `RecoveryHook` | `packages/react/src/use-social-recovery.ts` | |
| `ApprovalHooks` | `packages/react/src/use-multisig-approval.ts` | |
| `Services` | the ten above, one of them at work in a behaviour | |
| `Token` | `token-sep41` | |
| `Escrow`, `PaymentStreaming` | the contracts of that name | extend `Token`, whose `Transfer` they call |
| `Custody` | abstract: holding others' tokens | implemented by each of the two |
| `TokenVaults` | the token and both contracts on one ledger | |
| `LedgerClock` | time and saturating arithmetic | |
| `SocialRecovery`, `Proxy`, `Inheritance` | the contracts of that name | |
| `SpendPolicy`, `SessionKeys`, `Paymaster` | the contracts of that name | |
| `TimelockedQuorum` | abstract: quorum and delay | implemented by recovery and by proxy |
| `Contracts` | these six on one ledger | |
| `MCRequestPipeline`, `MCTokenVaults`, `MCContracts`, `MCCosigning` | symmetry sets, payloads, lists, policies and transactions for TLC | |
| `*Proofs` | theorems | |
| `FoldTheorems` | sums over finite sets and loops, for the proofs | |

A definition has the name of the function it stands for where TLA+ allows it;
`map` in `PROJECT.json` gives its lines. The definitions just above another one
whose comment says what they leave out or do wrong are plausible mistakes in the
latter ("Mutant of"). They occur in no next-state relation; each property is
shown to fail when one of them replaces the original.

### Correspondence

*Slot allocator.* `pc[w]` is the Redis command that a call is waiting for; `slot`,
`tries` and `rc` are its local variables. `res[s]` remembers which worker set
`res:<slot>`. The code stores the account there, the same string for every
replica, so the compare-and-delete compares `AccountOf` (`OwnReservation`).
`Expire` is the TTL; `Abandon` a dead process, a failed command or a caller that
never comes back. `rollbackExpired` reads three keys per slot in three steps.
`gauge` is
what the first of the two `GET`s of `pendingReservations()` read, until the second
is answered. `granted`, `regranted`, `reclaims`, `rewound` and `calls` are history.

*Submission.* `phase` is the place in `submit()`'s loop. `Send` covers wrapping
and sending. Horizon accepts, refuses with `txBAD_SEQ`, throws, or times out
with the transaction applied. Backoff delays are a step.

*Audit log.* `pc[r]` is where the replica or the head of its queue is: `loading`
(the constructor's `load()`), `broken` (that load rejected: every `append()`
rejects from then on), `ready`, `won` or `lost` (the script answered 1 or 0 and
the reply is on its way), `down`. The compare-and-push script is one step.
`RedisFails` covers an error before and after the command ran. SHA-256 is taken
to be free of collisions: the hash of a record is the sequence of decisions of
the chain up to it, which is all that two equal hashes could agree on. A node of
the Merkle tree is the pair of its children. Time stamps are left out, a
decision stands for one `AuditDecision` with its time. The log without Redis
(no `storage`) and `parseAuditRecord` are left out.

*Request pipeline.* `pc[q]` is where a request is: `get` and `lock` are the two
commands before the lock, `pending` the local promise, `poll` the wait on Redis,
`running` the handler under the lock and `unlocked` without it, `storing` and
`clearing` the commands of `finalize()`, `failing` the `DEL` of the outer catch.
`inFlight[p]` names the request whose promise the map of process `p` holds and
`outcome[q]` what that promise resolved to. An answer is the execution it comes
from and whether its handler had written all of it. `executed`, `gaveUp`,
`unheard` and `trouble` are history. One Idempotency-Key is enough, keys share
nothing; its 24 hours do not end in a run. A fingerprint covers method, path and
body, so it determines the route and the envelopes (`EnvelopesOf`). The catch
around `next()` (390-396) is left out: Express catches what a handler throws.
So are the guard's memory without Redis and a batch that repeats an envelope.

*Cosigning.* `stage[r]` is the await the handler of a request is at: the guards,
the fraud detector (`assessing`), the signer, the audit log. `Assess` evaluates
the policy in the step in which the detector's answer arrives, as the code does.
`cosign()` is under `trackOperation()`, `cosignBatch()` is not. `audited` is what
`append()` made durable; an `append()` that threw may have done so or not. The
response of a batch is an error whatever happened (finding 4). Parsing of
envelopes is left out, and a signature is a step that succeeds or throws.
`HangUp` is a client that closes its connection.

*Policy engine.* A transaction is a record with what its rules look at.
`EvaluateWithAudit` goes through the rules in order, up to the first that rejects,
and `EvaluateWithDetails` is the dry run with its own code for each kind. All
velocity rules of a wallet share one list of times (`velocityTracking`); each of
them prunes it by its own window and counts the transaction, also one that it or a
later rule rejects. `spend_limit` and `session_key` call `this.parseAmount()`, which
no class defines: the rule throws, `evaluateRule()` rejects, and no total is ever
charged, so no total is a variable and the dry run, which does parse amounts, reads
every total as 0. Rules that their schema refuses reject everything and are left
out. `passed` counts what was approved since the list was last dropped and `cutoff` is
the latest moment up to which it was pruned; both are history.

*Lifecycle.* `phase` goes from `running` through `closing` (`closeServer()`),
`draining` and `quitting` (`closeRedis()`) to `exited`. `drainSet` is what
`drainInFlight()` saw when it began. `Exit` is the answer of Redis to `quit()`, which
nothing bounds, and the exit after it.

*Transaction sequence.* A step is one Redis command of `reserve`, `release` or
the script. The lock is optional, and the in-memory allocator takes the commands
of a call together, so both allow fewer behaviours. `used` is history.

*SEP-10.* Two ticks make a second: nonces expire by `Date.now()`, timebounds by
the second. `Present` is everything up to the await after the lookup, `Add` what
follows it. A reboot forgets the nonces, which live in memory.

*Policy file.* A step is what runs between two awaits of `persist()`; a save may
fail at any of them, which leaves the memory changed and the file as it was. A file
that cannot be read or parsed is not touched, and the memory begins empty. `known[s]`
is what each wallet's policy has been since save `s` began and `admissible` what the
file may hold for it; both are history.

*Webhooks.* A call is a `dispatch()`, a `retryDelivery()` or a `processQueueJob()`;
`tried` are the webhooks it still has to try, `writers` the chain
`deliveryLogWrite`. The queue and its dead letters are external: a job may be
handed out, lost or fail. Signatures and bodies of payloads are left out.

*Ledger ingestion.* A refresh awaits `listWalletAddresses()`; `Listed` is what
follows. A stream that fails is closed and forgotten for the next refresh.

*Stream client.* One socket per subscription and one timer for all; the backoff
is a step. `scheduleReconnect()` tells its listeners of the new state before it sets the
timer, and they may call the client back: between the two, `notifying` counts the
calls whose listeners have not returned. `timer` is whether `reconnectTimer` holds a
handle, `armed` counts the timers that will fire, one that was replaced or set after
`close()` included. The server side sends the events after the cursor, or from now on.

*Rate limiter.* A visit reads the clock, and then runs the script, first for its
IP address and then for its wallet. Redis failures let it pass. The replicas'
clocks are taken to agree, and a unit of time gives whole tokens.

*Sponsor balance.* Replicas share the account; `refillInProgress` and `lastRefillAt` are
each one's own, and a restart forgets them. A poll is a call of `checkBalance()` and
loads the balance when it asks Horizon. A transfer may throw before or after it was
applied, and one that threw may be applied later (`unsettled`, external). `excess` is
history: what was refilled by transfers applied after they threw, and by those of polls
that are not `sure`, because what they loaded may have been refilled in between.

*Recovery hook.* `requests` are the calls in flight, `timers` the armed timers,
`pollTimerRef` keeps the handle of a timer that fired, as the ref does.
`countdown` is the recovery that the once-per-second effect was rendered with:
`Rendered` may come after other callbacks. The server and the other devices are
external; a timelock that ends is seen through `unlocked`.

*Approval hooks.* `useMultiSigApproval`, or `useProxyUpgrade` when `upgrade` holds:
they share refs and polling. `fetches` are the calls in flight, a merge in the slot
of the poll that asked for it; `tickers` and `tickRef` are as in the recovery hook.
What a proposal says is left out but for its being executable. `captured` are the
calls and proposals whose polling closed over the status "approved": each of their
executable answers shows "approved", whatever the status is by then.

*Token, escrow, streaming.* A panic or an `Err` is a disabled action: Soroban
rolls the call back. `require_auth` says who may call; since any party may call
what it is entitled to, it shows as the quantifier over that party. `i128` is
`I128Max`; an operation that would leave the range panics (the
release profiles, `Cargo.toml:24` and `contracts/Cargo.toml:22`, keep overflow
checks on), hence the
guards on sums and products. `escrow/src/lib.rs` begins with a Cargo manifest in
a Markdown fence; the code after it is what is modelled. `deposit`, `withdraw`,
`cancel` and the payouts contain the token transfer they make.

*The other contracts.* One account, one proxy, one vault, one limited account in
one asset, one fee token: storage is keyed by owner or instance and no call
touches two. `u64` times end at `U64Max`; sums saturate where the code
saturates. `RegisterGuardians` and `SetSigners` keep a pending proposal and the
signatures on it, as the code does. `spentAt`, `charged`, `sponsoredFees` and
`feesWithdrawn` are history.

## 3. Runs

| Run | Expected | Instance | What it shows |
|---|---|---|---|
| `FeeSponsor` | pass | 2 replicas, 2 slots, 3 `reserve()` calls, 2 tries, 2 attempts | allocator, gauge and submission, with expiry, failures, crashes and the reclaimer |
| `RetiredSlots` | violation | the same | a committed sequence is handed out again (finding 1) |
| `TokenVaults` | pass | 2 users, 1 spender, 2 escrows or 2 streams, amounts -1 and 1, rates 0 to 2, time to 2, `I128Max` = 2, 1 freeze at a time | token, escrow and streams |
| `PausedStream` | violation | 1 stream | what was earned before a pause is lost (finding 2) |
| `Contracts` | pass | 3 guardians and signers, lists with repetitions, delays 0, 1 and `U64Max`, time to 3; a window of 2 with 2 entries; 2 owners of one session key, quotas 1 and 3; 2 sponsors, 2 tokens, epochs of 0 and 2 ledgers | quorum and delay, windows, sessions, deposits |
| `Cosigning` | pass | a single and a batch request, 4 lists of rules, 2 versions, time to 2, 2 troubles | velocity limits, dry run, records and shutdown |
| `SpendLimits` | violation | a batch, policies of one spend limit or one session key | the dry run approves what evaluation rejects (finding 5) |
| `BatchReports` | violation | a batch, no trouble | a batch is answered with an error (finding 4) |
| `AuditLog` | pass | 2 replicas, 3 decisions, 2 attempts | safety, refinement and liveness of the audit log |
| `RequestPipeline` | pass | 3 requests, 2 processes, a batch of 2 envelopes and one of them alone, each expiring twice | one lock holder, one response, one execution per envelope, an answer to every request |
| `MismatchedKey` | violation | 2 requests, 1 process, 2 payloads | a response is replayed to another payload (finding 3) |
| `Services` | pass | see below | one property or two of each of ten services |

Why these bounds are enough to meet the cases that matter:

* *FeeSponsor*: two slots let the counter be rewound over one and past another;
  three calls let a third one take what two left behind; with two tries and two
  attempts both loops go around and give up.
* *TokenVaults*: an amount of -1 tries the sign checks, `I128Max` = 2 the
  overflow of a third mint. Two escrows make one able to spend the other's
  tokens if the code let it; rate 2 for two seconds overflows, rate 1 drains one
  token per second, rate 0 is refused. The two contracts hold balances of their
  own and share no key, so a behaviour uses one of them (`OneVault`, a
  `CONSTRAINT`). Users are symmetric and the properties do not tell them apart.
* *Contracts*: the contracts call nothing and share only the clock, so a run in
  which one of them is in use at a time (`MaxInUse`) meets every order of the
  calls of each. A delay of `U64Max` needs the saturating sum. Three ticks and a
  window of two let an entry leave the window while another stays, and two
  entries fill it. A session call of -1 gives quota back.
* *Cosigning*: the lists are a velocity rule of two in two ticks, the same before one of
  one in one tick, which prunes what it counts, the latter behind every rule that
  counts nothing, and a velocity rule before a spend limit, which rejects what the first
  counted. Two versions, a removal and an invalidation fall between the transactions
  of a batch. `MaxTrouble` counts changes of the policy and requests in which an await
  throws; two let a change and a failure meet. Three moments let a window of two pass.
* *AuditLog*: three decisions on two replicas put two calls into one queue while
  the other replica appends between them. Two attempts lose, reload and lose
  again. Three records make an odd level of the tree.
* *RequestPipeline*: three requests are a holder, one that awaits it in its process
  and one that polls from the other, or a third that comes after a failure. The
  payloads are a batch of two envelopes and one of these alone. Requests and processes
  are alike, but liveness excludes `SYMMETRY`: `Named` gives two of three requests that
  reach one process their names instead. Each envelope's key may expire twice, once
  between any two of the three.
* *Services*: the ten share no variable, so a run in which one is at work meets every
  behaviour of each. Three callers of the sequence allocator are one that took a
  number, one above it and one that comes after a rollback. Two challenges and two
  presentations, in seven ticks, outlast a challenge of four. Two policy saves overlap
  over two wallets and two versions of a policy. Two webhooks and two calls write a
  log of two entries, which overflows, with two attempts per delivery. Two refreshes
  open up to four streams for two wallets. Two subscriptions see three events. Three
  visits to one address and one wallet meet buckets of two tokens and of one. Two
  polls of two replicas, with a cooldown of 2, a minimum of 1 and a target of 2, run
  until time 3 and refill until one unit went past the target. Two calls of a hook are
  in flight at a time over two recoveries, sessions or proposals, with two timers;
  each poll is a new one, so a behaviour has any number of them. Wallets, saves,
  subscriptions, polls, replicas and what the hooks call share model values, so that
  one symmetry set serves all of them.

Calls, slots, decisions, events and time are bounded, so nearly every model ends
by running out of them: the runs check no deadlock. Each bound is a named
constant.

### Fairness

`AuditLog`, `RequestPipeline` and `Cosigning` check liveness. `AuditLog` assumes weak
fairness of `Progress(r)` for each replica: the event loop runs a continuation
that is ready, and a Redis client answers or throws. Nothing is assumed of
`Crash`, `Start`, of failures or of the other replica. `EveryCallAnswered` then
says that an `append()` is answered or its process dies: neither a rejected first
load nor ten lost races nor a failed reload leave a caller waiting. It does not
hold that every `append()` succeeds, and the code does not promise it.

`RequestPipeline` assumes weak fairness of `Serve(q)` for each request: Redis answers
or throws, handlers end, and a poll that finds no result gives up after
`maxWaitMs`. Failures, clients that leave and crashes are never assumed. A
request that awaits the promise of an execution whose client left unnoticed is
excepted: it waits for ever (see below).

`Cosigning` assumes weak fairness of `Drain` alone: the steps of `shutdown()` up to
`closeRedis()` are callbacks and a timer of the event loop. Signers, detectors, Redis
and clients may hang for ever, and `Exit`, which waits for `redis.quit()` without a
timeout, is not assumed. `ShutdownDrains` says that once the clients have gone, all
the process can still wait for is that answer.

## 4. Findings

1. `RetiredSlots` (`sequence-allocator.ts:248`). `rollbackExpired()` reads a
   slot's keys in separate commands and rewinds the counter at the end from what
   it read at the start. A `commit()` in between is missed and its sequence is
   handed out again, which the comments at 152 and 228 exclude.
2. `PausedStream` (`payment-streaming/src/lib.rs:213`). `pause()` moves
   `start_time` to now without paying or recording what accrued. The comment
   above it says that accrued tokens "are not lost on resume".
3. `MismatchedKey` (`idempotency.ts:313`). A request that loses `SET NX` to one of
   its process replays that one's response without comparing fingerprints; line
   211 says a mismatch is answered 422.
4. `BatchReports` (`server.ts:652`). The batch handler treats what `cosignBatch()`
   returns as an array: it records every item as rejected and answers with an
   error, where `openapi.ts:187` and a test promise results per item.
5. `SpendLimits` (`engine.ts:425`). Spend limits and unexpired session keys call
   `this.parseAmount()`, which is defined nowhere, so that every evaluation rejects;
   the dry run, which line 223 says "can be safely used for simulation", approves the
   same transaction.

Met on the way, without a run of their own:

*Fee sponsor.*

* The value of a reservation is the account, which all calls of one sponsor share: a
  commit or rollback that comes after its reservation expired deletes that of the
  slot's next holder, which the comment at `sequence-allocator.ts:67` means to exclude.
* A `reserve()` and a release between the two `GET`s of `pendingReservations()` are
  seen by half, and the gauge is short of a reservation that was there all along;
  lines 20-22 call it "safe to call concurrently". `PendingNeverUnderReports` says by
  how much.
* A transfer that throws is followed by no cooldown, though it may have been applied or
  be yet, and replicas know of no refill but their own: `RefilledOnce` allows for both.

*Pipeline.*

* A client that left before `close` was listened for, or leaves between `end()`
  and `finish`, is not noticed: the marker and the local promise stay
  (`idempotency.ts:383`; lines 381-382 say the lock is released).
* A waiter whose `GET` throws deletes the marker and the map entry of the holder
  (`idempotency.ts:405`), and the next request runs the handler again; hence
  `OneHolder` and `SameAnswer` are stated for Redis calls that succeed.
* A client that disconnects early leaves a truncated response to be replayed
  (`whole` is false).
* `/cosign` mounts the guard before the idempotency middleware: a repetition with
  the same key is answered 409 and not with the stored response.
* `server.ts:36` imports `createIdempotencyMiddleware`, `index.ts:36`
  `idempotencyMiddleware`; `idempotency.ts` exports neither, but `idempotency`.
* A command on a token bucket that arrives late sets the time stamp back, and the
  same time is refilled twice (`Throttled` says by how much). A `refillRate` of 0
  does not mean no refill: the bucket is dropped after a second and starts full.
* Nonces live in one process: another accepts the challenge once more. They
  expire by the millisecond and timebounds by the second, so one accepted in its
  first second may pass again in its last; two presentations that look at once
  both pass. `ChallengeOnce` allows these and no more.

*Cosigning and policies.*

* The comment at `cosigner/service.ts:326` says "all-or-nothing signing"; the
  code signs the items that were approved.
* `cosigner/service.ts:168` and 478 read `rejected`, the detector returns
  `reject` (`fraud-detector.ts:77`): no score rejects a request.
* Velocity rules of one wallet share one list of times: two in one policy count a
  transaction twice, and the one with the shorter window prunes what the other still
  needs. `DELETE` and an invalidation drop the list. `VelocityHolds` and
  `DryRunAgrees` except these and no more.
* The dry run holds a session key to the first payment of a transaction only.
* A policy deleted and created again starts at version 1, which an `If-Match` of
  before matches.
* `main.ts:94` passes `gracePeriodMs`, `shutdown()` reads `drainTimeoutMs`
  (`lifecycle.ts:143`) and uses its default. A connection that stays open blocks
  `closeServer()`, which has no timeout, as does `redis.quit()` (121), and a batch is
  not tracked.
* `PolicyUpdateSubscriber.scheduleReconnect()` returns early while a timer is
  pending (`policy/store.ts:327`), which leaves `subscribed` TRUE for a connection
  that closed in between; nothing creates one.
* Saves of the policy file that overlap may rename in the other order, and the file
  then holds the older contents until the next save: also those of another wallet,
  whose own save had ended long before. After a file could not be read, the next
  save replaces it by what the memory has since (`policy/store.ts:111`).

*Other services.*

* `withSequence`'s retry after `txBAD_SEQ` gives its number back and, if nobody
  else reserved one, is handed the same.
* A queue job is named by its delivery and attempt, not by its webhook
  (`dispatcher.ts:564`): of two webhooks, one job remains. The chain of log
  writers is per process.
* `stream.ts:11` says "no events are dropped", which does not cover a subscription
  without a cursor before its first event, or a `send()` that throws in `onopen`.
* A listener that calls `close()` while `scheduleReconnect()` tells it of the new state
  (`stream.ts:471`) leaves a timer on a closed client, which fires in vain; one that
  subscribes may have a second timer set, which takes the place of the first handle.
* Ledger ingestion resumes at cursor `now`: payments while it was disconnected
  are not seen.

*React.* None of this is more than what a user sees.

* In the recovery hook, a late poll of an earlier recovery replaces the newer one
  shown and goes on polling the earlier. A countdown that was rendered before a
  newer answer may show "executable" over it and stop the polling; one needs the
  interval to fire between the answer and the next rendering.
* `useMultiSigApproval`'s `cancel()` "resets all state", but a poll in flight may
  still report "merged"; the answer that a session was rejected ends the polling of
  the one created since; creating a session during a poll leaves two chains of polls,
  of which `cancel()` clears one. Its header speaks of `POST`s that are `GET`s.
* In `useProxyUpgrade`, polling that began with a proposal made while "approved" was
  shown keeps that status in its closure: each executable poll shows "approved" again,
  also while the upgrade is executed and after it (`use-multisig-approval.ts:394`).
* `useGaslessTransaction` keeps its optimistic balance after a payment failed,
  which hides the balances confirmed later.

*Contracts.*

* An executed or cancelled recovery stays under the key of the active one, and
  `initiate_recovery` answers `ProposalExists` for ever
  (`social-recovery/src/lib.rs:139`).
* `docs/architecture/multisig.md` (39) counts the timelock from the moment the
  threshold is met; social-recovery (218) and proxy (117) count it from the
  proposal. The same page lets either signer veto; only the admin can cancel.
* A list of guardians or signers may name one twice: a repetition counts towards
  the length the threshold is compared with, but can vote only once, so a
  threshold may be out of reach.
* `inheritance`'s `is_claimable` (204-221) is true before `initialize`.
* The paymaster's `withdraw()` gives its owner whatever the contract holds, deposits
  included; `DepositsCovered` speaks of what everybody else may do.
* `set_signers` and `register_guardians` keep the signatures of removed members.
* A stream whose recipient is frozen cannot be cancelled, and one whose
  `elapsed * rate` overflows can be neither withdrawn nor cancelled until it is
  paused.

## 5. Proofs

All proofs are checked by tlapm 1.4.5 with Z3, Zenon and LS4. Assumptions are
the named `ASSUME`s of the modules, which TLC evaluates in the passing runs.

* **Slot allocator** (`FeeSponsorProofs`). `AllocatorTypeOK`, then `GrantedOnce`:
  until the first rewind the counter only grows, so a slot above it was never granted,
  and two workers in the middle of `reserve` hold different slots; that strengthening
  (`GrantInv`) is inductive, "no slot granted twice" is not. `PendingCovers`: the
  gauge, and what was counted since its first `GET` or reclaimed, are at least the
  number of reservations outstanding. `PendingInv` says so of the counters themselves,
  and counts a reclaim that is under way: only the reclaimer releases what is still
  outstanding.
* **Submission** (there too). `SubmitTypes`. The service is written as a caller of the
  allocator, whose theorems therefore hold of it (the lemma `ImplementsAllocator`, and
  `ServiceGrantedOnce`). `AppliedOnce`: a call that may still send has not been applied.
* **Audit log** (`MerkleAuditLogProofs`). The invariant (`Inv`) gives the hash
  chain in closed form (record `i` carries the decisions before it), says that
  every replica's records are a prefix of the list, that a replica which `won`
  finds its record right after them, and that queued decisions are different and
  not yet logged. Then equal last hashes mean equal lists, so a push only ever
  extends the list it was computed from. From it follow `StoredChainVerifies`,
  `GivesUpUnderContention` (with `Behind`: after a lost attempt the records are
  as long as the list was then) and the refinement `ImplementsSharedLog`: push is
  `Add`, a resolved `append()` is `Acknowledge`, loading and dying are `Look`.
  `LoggedInCallOrder` needs `OrderInv`: what a replica has queued was called in that
  order, and after everything of its own that is logged. `RootsAreUnambiguous`:
  `merkleRoot` goes up the tree by a recursive function; two lists whose hashes
  differ have, at every height, levels that differ in length or in a node
  (`NextLevelsDiffer`), though an odd level repeats its last node, so the single
  nodes they end in differ (`RootsDiffer`). The hashes of two prefixes of the list
  differ because the last of each is the whole prefix. `RootKnown` says that what
  is published is the root of a prefix.
* **Cosigning** (`CosigningProofs`). `CosigningInvariant` is `EngineInv` (types, and
  that the list counts what was approved since its last cutoff) with `HandlerInv`
  (what a handler has assessed, signed and audited so far; which requests are
  tracked, and that a drain waits for those it saw). The evaluation folds over the
  rules: `EvaluationIsLoop` gives it as a loop, and `EvaluationCounts` says, up to each
  rule, that the list has what it had after the latest cutoff and, once a velocity
  rule was met, the transaction at hand, within the limit of every velocity rule
  passed. From it follow `VelocityKept`, and `DryRunIsSafe`: with no rule that throws
  and one velocity rule at most, that rule finds the list as it was before the first.
  `SignaturesAreRecorded` and `ExitsAreDrained` follow from `HandlerInv`.
* **Request pipeline** (`RequestPipelineProofs`). `PipelineTypes`; then, until a
  Redis call fails, `LockExcludes`: `HolderInv` says that while there is no record
  nobody has held the lock, since only error paths delete. `OneResponse` and
  `CompletedIsFinal` need `AnswerInv`: what a record, a promise or a client has is
  what a settled holder captured (`Final`), and no step changes that
  (`FinalStays`); with one holder, all of them are equal. With failures:
  `PayloadsKeptApart` (`PayloadInv` ties promises to their process and records to
  the payload of the request they answer), `MarkersHaveHolders` and
  `EnvelopesPassOnce`, which counts the requests the guard let pass rather than
  those that have run (`EnvelopeInv`).
* **Services** (`ServiceProofs`). `Projections` takes what is proved of one service
  over to the services. Each has its strengthening, which is inductive where the
  property is not: `SequenceInv` (the counter is past every number held or used, and a
  reservation key is its caller's own) for `SequenceNumbersApart`, where a rollback
  may give back only the latest number; `FileInv` (a snapshot holds for each wallet a
  policy it has had since the save began, and memory, file and every snapshot waiting
  are admissible) for `FilesNotBehind`, as after a lone `Rename` only later saves can
  still write; `LogInv` (only the first of the writers reads the log, and nobody
  writes before it has read) for `DeliveryLogKept`; `IngestionInv` for
  `NoStreamLeaks`; `ClientInv` (the cursor, and what was last sent on a socket, are at
  the event last received; the timer in `reconnectTimer` is armed, and who lost a
  socket has a timer or a caller that will set one, `Scheduled`) for `NoEventDropped`
  and `NoneGivenUp`; `ChallengeInv` (a nonce is kept until its time has passed since
  the acceptance) for `ChallengesOnce`; `LimiterInv` for `BucketsThrottle`: by
  `WithinBudget`, what a bucket allowed since any command and what it has left are
  within its capacity, the refill of the time since, and that of the delays of all
  commands but the last, because a refill is counted from what the last command said
  the time was (`CommandWithinBudget`, `Found`); a bucket that expired would have been
  full again (`KeptRefills`); `BalanceInv` (each replica has one transfer at a time,
  of all that are transferring one at most is `sure`, and what a sure poll saw is at
  least the balance less the excess, unless its own replica refilled it since) for
  `ShortageRefilledOnce`. For `HookWatches` both halves of `HooksWatch` are inductive
  with the types: in the recovery hook `pollTimerRef` names the only timer there can
  be, so `stopPolling()` stops them all (`StopsAll`); in the approval hooks a timer
  that is set spares those that are set already (`TickLaterType`), and an answer takes
  away no call but its own.
* **Vaults** (`TokenVaultsProofs`). `VaultTypes` holds balances,
  supply and records in range: the guards against overflow are what makes it
  inductive. `PaidOnce`, `EscrowCustody`, `StreamCustody` (the two contracts
  implement `Custody`, whose `CustodyBalanced` then holds of them:
  `StreamBalanced`), `OverAccruesNever` (invariant `AccrualInv`: what an
  active stream was paid plus what it has accrued is at most what was earned) and
  `FrozenStays`. `SupplyBalances`: every change of balances moves an amount or comes
  with one of the supply (`SupplyInv`). `AlwaysSolvent`: each change of what a
  contract owes comes with the transfer that pays for it.
* **Other contracts** (`GovernanceProofs`). `GovernanceTypes` (a threshold is at most
  the length of its list, which may repeat a member), then `RecoveryImplementsQuorum`
  and `UpgradeImplementsQuorum`: votes are lists in the code and a set in
  `TimelockedQuorum`; that a list without repetitions is as long as its set is large
  (`CountsVoters`) carries the threshold over. `ContractsGovern` takes both over to
  the run in which all contracts act (`RecoveriesByQuorum`, `UpgradesByQuorum`).
  `SessionsWithinQuota` needs `SessionInv`: the index of a key leads to a session, and
  what was charged is at most what the session knows of, unless a sum saturated.
  `PaymasterTypes`: no deposit or spending is negative. `DepositsAreCovered`, but for
  what the owner withdraws beyond the fees sponsored, is by `DepositsInv`: what is
  still deposited and what was sponsored is what is held and what was withdrawn.
  `PolicyTypes` and `NeverOverspends` of the spending policy: `PolicyInv` says that
  from any moment the window still holds, the entries on record add up to what was
  spent; pruning drops older ones only.
* **Sums and loops** (`FoldTheorems`). No installed prover can instantiate an
  induction theorem, so induction is by a least counterexample in a set: of
  subsets for `MapThenSumSet`, of numbers for recursive functions, whose equation
  is first shown to have a solution.

The proofs need of the constants that addresses and sponsors are finite sets (a sum
over them must exist), that rules and operations have fields of the types their
schemas give them, that a request names at least one transaction, and that the
bounds are numbers.

The type invariants are proved, not run. Checked by TLC only: `EveryCallAnswered`,
`EveryRequestAnswered` and `ShutdownDrains`, which are liveness. Every other
property of a passing run is stated by a theorem.

## 6. Not modelled

Inside components that are modelled in part:

* *Policy store*: `RedisPolicyStore` is created by tests alone and
  `PolicyUpdateSubscriber` by nothing.
* *Request pipeline*: `middleware/rate-limit.ts`, and the memory that stands in
  for Redis in the guards and buckets.
* *Webhooks*: `sendTest` and `listDeliveries`, which leave no state, and the inside
  of the queue, a library.
* *Cosigner*: the parsing of envelopes and the making of a signature.
* *HTTP surface*: routing and validation of what is not named above, GraphQL and the
  WebSocket broadcast, which forward one call each.
* *Ledger and observation*: the Horizon router, through which the server sends no
  request; the fraud detector, which scores one request; the canary.
* *Client core*: the sequence-number cache, a map its callers invalidate.
* *React*: the other hooks make one call each, the rest is presentation.
* *Spending contracts*: `smart-account`, `oracle-spend-limit`, `policy-guard`, whose
  calls check what they are given against a list and a price.

Left out as a whole: key services, key derivation, storage encryption and
signatures (cryptography); format builders (transactions, SEPs, Soroban values);
database queries of one Prisma call each; checks of one request against its
token and role; start-up, logging, metrics and tracing; the web SDK and the CLI,
which send one request per command; `ttl-manager`, `sbt-identity`,
`mpc-verifier` and `security-utils`, in which no call depends on an order of
others; types, event schema, benchmarks, examples and deployment. None of them
keeps state that two actors change, which is what a model would be about.
