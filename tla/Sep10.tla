-------------------------------- MODULE Sep10 --------------------------------
(***************************************************************************)
(* The challenges of SEP-10 on one process: auth/sep10.ts with the nonces  *)
(* it keeps in memory.  Timebounds are in seconds, nonces expire by the    *)
(* clock, which is finer: it counts two ticks a second.                    *)
(***************************************************************************)
EXTENDS Integers

CONSTANTS
  Challenge, Presentation,  \* challenges, and the requests that present one
  ChallengeTtl,             \* CHALLENGE_TTL_SECONDS
  LastTick                  \* bound: where the clock stops

ASSUME ChallengeAssumption == ChallengeTtl \in Nat /\ LastTick \in Nat

Second(t) == t \div 2
Never == -1                 \* no challenge was built, no nonce is kept

VARIABLES
  tick,       \* Date.now()
  minTime,    \* per challenge: the lower of its timebounds
  nonces,     \* per challenge: when its nonce expires
  presented   \* per request: its challenge, its outcome, when it was accepted, and
              \* (history) the requests that had been accepted when it looked

sep10Vars == <<tick, minTime, nonces, presented>>

Fresh == [outcome |-> "none"]
Built == {ch \in Challenge : minTime[ch] # Never}

Sep10TypeOK ==
  /\ tick \in 0..LastTick
  /\ minTime \in [Challenge -> Nat \cup {Never}]
  /\ nonces \in [Challenge -> Nat \cup {Never}]
  /\ \A p \in Presentation :
       presented[p].outcome \in {"none", "adding", "accepted", "refused"}

Sep10Init ==
  /\ tick = 0
  /\ minTime = [ch \in Challenge |-> Never]
  /\ nonces = [ch \in Challenge |-> Never]
  /\ presented = [p \in Presentation |-> Fresh]

ClockTicks ==
  /\ tick < LastTick
  /\ tick' = tick + 1
  /\ UNCHANGED <<minTime, nonces, presented>>

BuildChallenge(ch) ==
  /\ ch \notin Built
  /\ minTime' = [minTime EXCEPT ![ch] = Second(tick)]
  /\ UNCHANGED <<tick, nonces, presented>>

\* Expired nonces, dropped by whoever looks.
Pruned(kept) == [ch \in Challenge |-> IF kept[ch] <= tick THEN Never ELSE kept[ch]]

InTimebounds(ch) ==
  /\ Second(tick) >= minTime[ch]
  /\ Second(tick) <= minTime[ch] + ChallengeTtl

Accepted(ch) ==
  {p \in Presentation : presented[p].outcome = "accepted" /\ presented[p].challenge = ch}

\* The checks, up to the await that follows the lookup of the nonce.
Present(p, ch) ==
  /\ presented[p].outcome = "none" /\ ch \in Built
  /\ InTimebounds(ch)
  /\ nonces' = Pruned(nonces)
  /\ presented' = [presented EXCEPT ![p] =
       IF nonces'[ch] # Never
       THEN [outcome |-> "refused"]
       ELSE [outcome |-> "adding", challenge |-> ch, behind |-> Accepted(ch)]]
  /\ UNCHANGED <<tick, minTime>>

\* Not signed by the server and the client, or not within the timebounds.
Refuse(p) ==
  /\ presented[p].outcome = "none"
  /\ presented' = [presented EXCEPT ![p] = [outcome |-> "refused"]]
  /\ UNCHANGED <<tick, minTime, nonces>>

\* The nonce, kept for half its time.
AddHalf(p) ==
  /\ presented[p].outcome = "adding"
  /\ nonces' = [Pruned(nonces) EXCEPT ![presented[p].challenge] = tick + ChallengeTtl]
  /\ presented' = [presented EXCEPT ![p] =
       [outcome |-> "accepted", challenge |-> @.challenge, behind |-> @.behind, time |-> tick]]
  /\ UNCHANGED <<tick, minTime>>

Add(p) ==
  /\ presented[p].outcome = "adding"
  /\ nonces' = [Pruned(nonces) EXCEPT ![presented[p].challenge] = tick + 2 * ChallengeTtl]
  /\ presented' = [presented EXCEPT ![p] =
       [outcome |-> "accepted", challenge |-> @.challenge, behind |-> @.behind, time |-> tick]]
  /\ UNCHANGED <<tick, minTime>>

\* A restart forgets the nonces, and what this process accepted.
Reboot ==
  /\ \E p \in Presentation : presented[p].outcome \in {"adding", "accepted"}
  /\ nonces' = [ch \in Challenge |-> Never]
  /\ presented' = [p \in Presentation |->
       IF presented[p].outcome = "none" THEN Fresh ELSE [outcome |-> "refused"]]
  /\ UNCHANGED <<tick, minTime>>

Sep10Next ==
  \/ ClockTicks
  \/ \E ch \in Challenge : BuildChallenge(ch)
  \/ \E p \in Presentation :
       \/ \E ch \in Challenge : Present(p, ch)
       \/ Refuse(p)
       \/ Add(p)
  \/ Reboot

Sep10Spec == Sep10Init /\ [][Sep10Next]_sep10Vars

\* A process accepts a challenge again only from a request that looked before the
\* first was recorded, or in the last second of a challenge that was accepted in
\* its first: the nonce expires with the tick, the timebounds with the second.
ChallengeOnce ==
  \A p \in Presentation : presented[p].outcome = "accepted" =>
    \A q \in presented[p].behind :
      /\ Second(presented[q].time) = minTime[presented[p].challenge]
      /\ Second(presented[p].time) >= minTime[presented[p].challenge] + ChallengeTtl

=============================================================================
