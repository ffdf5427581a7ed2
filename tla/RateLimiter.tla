----------------------------- MODULE RateLimiter -----------------------------
(***************************************************************************)
(* The token buckets of middleware/rate-limiter.ts in Redis: a request     *)
(* takes a token from the bucket of its IP address and then from that of   *)
(* its wallet.  The time it says it is, it read before the command ran.    *)
(* The clock counts a time in which a bucket is given whole tokens.        *)
(***************************************************************************)
EXTENDS Integers, Sequences, FiniteSetsExt

CONSTANTS
  LastVisit,    \* bound: the requests, in the order in which they arrive
  Ip, Payer,    \* client addresses, and the wallets that requests name
  NoPayer,      \* no wallet is named
  IpCapacity, IpRate, PayerCapacity, PayerRate,  \* the two BucketConfigs
  OneSecond,    \* the least time a bucket is kept
  LastMoment    \* bound: where the clock stops

ASSUME RateAssumption ==
  /\ NoPayer \notin Payer /\ LastVisit \in Nat
  /\ IpCapacity \in Nat /\ PayerCapacity \in Nat /\ IpRate \in Nat /\ PayerRate \in Nat
  /\ OneSecond \in Nat \ {0} /\ LastMoment \in Nat

VARIABLES
  moment,   \* Date.now(), the same for every replica
  bucket,   \* per key: tokens, time stamp and expiry, or Full if there is none
  visit,    \* per request: where it is, its addresses and the time it read
  taken     \* history, per key: the commands that ran

limiterVars == <<moment, bucket, visit, taken>>

Visit == 1..LastVisit
Bucket == Ip \cup Payer
Full == [expires |-> 0]
Capacity(b) == IF b \in Ip THEN IpCapacity ELSE PayerCapacity
Rate(b) == IF b \in Ip THEN IpRate ELSE PayerRate

\* Until the bucket would be full again, and for a second at least.
Kept(b) ==
  LET refilled == IF Rate(b) = 0 THEN 0 ELSE (Capacity(b) + Rate(b) - 1) \div Rate(b)
  IN IF refilled < OneSecond THEN OneSecond ELSE refilled

LimiterInit ==
  /\ moment = 0
  /\ bucket = [b \in Bucket |-> Full]
  /\ visit = [v \in Visit |-> [stage |-> "none"]]
  /\ taken = [b \in Bucket |-> <<>>]

MomentPasses ==
  /\ moment < LastMoment
  /\ moment' = moment + 1
  /\ UNCHANGED <<bucket, visit, taken>>

\* The handler runs, or the client gets a 429.
Ends(v, outcome) == visit' = [visit EXCEPT ![v] = [stage |-> outcome]]

Arrive(v, ip, payer) ==
  /\ visit[v].stage = "none" /\ \A w \in 1..(v - 1) : visit[w].stage # "none"
  /\ visit' = [visit EXCEPT ![v] =
       [stage |-> "ip", ip |-> ip, payer |-> payer, read |-> moment]]
  /\ UNCHANGED <<moment, bucket, taken>>

\* The key a request's command is about.
KeyOf(v) == IF visit[v].stage = "ip" THEN visit[v].ip ELSE visit[v].payer

\* What the bucket holds for a command that says it is `time`.
TokensAt(b, time) ==
  LET kept == bucket[b]
      elapsed == IF time < kept.stamp THEN 0 ELSE time - kept.stamp
  IN IF kept.expires <= moment
     THEN Capacity(b)
     ELSE Min({Capacity(b), kept.tokens + elapsed * Rate(b)})

\* Mutant of TokenBucket: only the tokens are written, not the time.
TokenBucketStale(v, b, allowed) ==
  LET tokens == TokensAt(b, visit[v].read)
  IN /\ Capacity(b) > 0
     /\ allowed <=> tokens >= 1
     /\ bucket' = [bucket EXCEPT ![b] =
          [tokens |-> IF allowed THEN tokens - 1 ELSE tokens,
           stamp |-> IF @.expires <= moment THEN visit[v].read ELSE @.stamp,
           expires |-> moment + Kept(b)]]
     /\ taken' = [taken EXCEPT ![b] =
          Append(@, [ran |-> moment, late |-> moment - visit[v].read, allowed |-> allowed])]

\* The script, which takes a token if there is one, keeps the rest and the time.
TokenBucket(v, b, allowed) ==
  LET tokens == TokensAt(b, visit[v].read)
  IN /\ Capacity(b) > 0
     /\ allowed <=> tokens >= 1
     /\ bucket' = [bucket EXCEPT ![b] =
          [tokens |-> IF allowed THEN tokens - 1 ELSE tokens,
           stamp |-> visit[v].read,
           expires |-> moment + Kept(b)]]
     /\ taken' = [taken EXCEPT ![b] =
          Append(@, [ran |-> moment, late |-> moment - visit[v].read, allowed |-> allowed])]

Consuming(v) == visit[v].stage \in {"ip", "payer"}

Allowed(v) ==
  /\ Consuming(v)
  /\ TokenBucket(v, KeyOf(v), TRUE)
  /\ IF visit[v].stage = "ip"
     THEN visit' = [visit EXCEPT ![v].stage = "allowed"]
     ELSE Ends(v, "passed")
  /\ UNCHANGED moment

\* 429, also if the bucket can hold nothing.
TooMany(v) ==
  /\ Consuming(v)
  /\ \/ TokenBucket(v, KeyOf(v), FALSE)
     \/ Capacity(KeyOf(v)) = 0 /\ UNCHANGED <<bucket, taken>>
  /\ Ends(v, "refused")
  /\ UNCHANGED moment

\* The reply about the address: the wallet, if there is one, is next.
NextBucket(v) ==
  /\ visit[v].stage = "allowed"
  /\ IF visit[v].payer = NoPayer
     THEN Ends(v, "passed")
     ELSE visit' = [visit EXCEPT ![v].stage = "payer", ![v].read = moment]
  /\ UNCHANGED <<moment, bucket, taken>>

\* Redis fails, before or after the script ran: the request passes.
FailsOpen(v) ==
  /\ Consuming(v)
  /\ \/ UNCHANGED <<bucket, taken>>
     \/ \E allowed \in BOOLEAN : TokenBucket(v, KeyOf(v), allowed)
  /\ Ends(v, "passed")
  /\ UNCHANGED moment

LimiterNext ==
  \/ MomentPasses
  \/ \E v \in Visit :
       \/ \E ip \in Ip, payer \in Payer \cup {NoPayer} : Arrive(v, ip, payer)
       \/ Allowed(v) \/ TooMany(v) \/ NextBucket(v) \/ FailsOpen(v)

LimiterSpec == LimiterInit /\ [][LimiterNext]_limiterVars

---------------------------------------------------------------------------

\* Between any two commands a bucket that is refilled at all allows its capacity and
\* what it was given in the time between them, and as much again for the time each
\* command took to get to Redis: a late one sets the time stamp back, and the next is
\* given the same time once more.
Throttled ==
  \A b \in Bucket : Rate(b) > 0 => \A last \in DOMAIN taken[b] : \A first \in 1..last :
    LET between == first..last
        late == SumFunction([n \in between |-> taken[b][n].late])
    IN Cardinality({n \in between : taken[b][n].allowed})
         <= Capacity(b) + Rate(b) * (taken[b][last].ran - taken[b][first].ran + late)

=============================================================================
