----------------------------- MODULE RecoveryHook -----------------------------
(***************************************************************************)
(* useSocialRecovery (use-social-recovery.ts) in one mounted component: the *)
(* recovery shown, the timer that polls it and the calls in flight, whose   *)
(* answers may be late, overtaken by another call's, or never come.  The   *)
(* server and its guardians are external.                                  *)
(***************************************************************************)
EXTENDS Integers

CONSTANTS
  RecoveryId,   \* recoveries the server may open
  Request,      \* calls to the server in flight at a time
  Handle,       \* handles of setTimeout()
  NoRecovery,   \* null
  NoTimer       \* null

VARIABLES
  requests,        \* per call: what it asks, or the answer on its way
  timers,          \* per handle: the recovery that the timer will poll
  pollTimerRef,    \* keeps the handle of a timer that fired
  recovery,        \* the data shown
  recoveryStatus,
  countdown,       \* the data that the once-per-second effect was rendered with
  mounted,
  server,          \* external: the stage of every recovery
  unlocked         \* external: those whose timelock has ended

hookVars ==
  <<requests, timers, pollTimerRef, recovery, recoveryStatus, countdown, mounted, server,
    unlocked>>
world == <<server, unlocked>>

NotAsking == [kind |-> "none"]

Underway == {"initiated", "guardian-approved", "timelocked"}
Ended == {"executed", "cancelled"}
Datum == [id : RecoveryId, stage : Underway \cup Ended]

ASSUME HookAssumption == NoTimer \notin RecoveryId \cup Handle /\ NoRecovery \notin Datum

\* The stages from which polling goes on.
Polled(status) == status \in Underway

HookTypeOK ==
  /\ requests \in [Request ->
       {NotAsking} \cup [kind : {"initiate"}] \cup [kind : {"approve", "cancel", "poll"}, id : RecoveryId]
       \cup [kind : {"answer"}, data : Datum]]
  /\ timers \in [Handle -> RecoveryId \cup {NoTimer}]
  /\ pollTimerRef \in Handle \cup {NoTimer}
  /\ recovery \in Datum \cup {NoRecovery} /\ countdown \in Datum \cup {NoRecovery}
  /\ recoveryStatus \in Underway \cup Ended \cup {"idle", "initiating", "executable", "error"}
  /\ mounted \in BOOLEAN
  /\ server \in [RecoveryId -> Underway \cup Ended \cup {"none"}]
  /\ unlocked \subseteq RecoveryId

HookInit ==
  /\ requests = [x \in Request |-> NotAsking]
  /\ timers = [h \in Handle |-> NoTimer]
  /\ pollTimerRef = NoTimer
  /\ recovery = NoRecovery /\ countdown = NoRecovery
  /\ recoveryStatus = "idle"
  /\ mounted = TRUE
  /\ server = [r \in RecoveryId |-> "none"]
  /\ unlocked = {}

\* deriveRecoveryStatus(): a timelock that ends is in the data as a time.
Derived(data) ==
  IF data.stage = "timelocked" /\ data.id \in unlocked THEN "executable" ELSE data.stage

\* The timers that stopPolling() leaves.
Stopped == [h \in Handle |-> IF h = pollTimerRef THEN NoTimer ELSE timers[h]]

StopPolling == timers' = Stopped /\ pollTimerRef' = NoTimer

Ask(x, request) ==
  /\ requests[x] = NotAsking
  /\ requests' = [requests EXCEPT ![x] = request]

InitiateRecovery(x) ==
  /\ mounted
  /\ Ask(x, [kind |-> "initiate"])
  /\ StopPolling
  /\ recoveryStatus' = "initiating"
  /\ recovery' = NoRecovery
  /\ UNCHANGED <<countdown, mounted, world>>

\* A guardian's device approves any recovery it knows of.
ApproveRecovery(x) ==
  /\ mounted
  /\ \E r \in RecoveryId :
       server[r] # "none" /\ Ask(x, [kind |-> "approve", id |-> r])
  /\ UNCHANGED <<timers, pollTimerRef, recovery, recoveryStatus, countdown, mounted, world>>

CancelRecovery(x) ==
  /\ mounted
  /\ recovery # NoRecovery
  /\ Ask(x, [kind |-> "cancel", id |-> recovery.id])
  /\ StopPolling
  /\ UNCHANGED <<recovery, recoveryStatus, countdown, mounted, world>>

\* The timer fires: its callback asks for the recovery it was set for.
PollFires(x) ==
  \E h \in Handle :
    /\ timers[h] # NoTimer
    /\ Ask(x, [kind |-> "poll", id |-> timers[h]])
    /\ timers' = [timers EXCEPT ![h] = NoTimer]
    /\ UNCHANGED <<pollTimerRef, recovery, recoveryStatus, countdown, mounted, world>>

\* What approvals and time make of a recovery.
Later(stage) ==
  CASE stage = "initiated" -> Underway
    [] stage = "guardian-approved" -> {"guardian-approved", "timelocked"}
    [] OTHER -> {stage}

\* The server does what a call asks and answers with the recovery.
Serve(x) ==
  /\ requests[x].kind \in {"initiate", "approve", "cancel", "poll"}
  /\ \E r \in RecoveryId, stage \in Underway \cup Ended :
       /\ CASE requests[x].kind = "initiate" -> server[r] = "none" /\ stage = "initiated"
            [] requests[x].kind = "approve" ->
                 r = requests[x].id /\ server[r] \in Underway /\ stage \in Later(server[r])
            [] requests[x].kind = "cancel" ->
                 r = requests[x].id /\ server[r] \in Underway /\ stage = "cancelled"
            [] requests[x].kind = "poll" -> r = requests[x].id /\ stage = server[r]
       /\ server' = [server EXCEPT ![r] = stage]
       /\ requests' = [requests EXCEPT ![x] =
                         [kind |-> "answer", data |-> [id |-> r, stage |-> stage]]]
  /\ UNCHANGED <<timers, pollTimerRef, recovery, recoveryStatus, countdown, mounted, unlocked>>

\* Other devices approve, cancel and execute too.
ServerMoves(r) ==
  /\ \/ server[r] \in Underway
        /\ \E stage \in Later(server[r]) \cup {"cancelled"} : server' = [server EXCEPT ![r] = stage]
     \/ server[r] = "timelocked" /\ r \in unlocked /\ server' = [server EXCEPT ![r] = "executed"]
  /\ UNCHANGED <<requests, timers, pollTimerRef, recovery, recoveryStatus, countdown, mounted,
                 unlocked>>

TimelockEnds(r) ==
  /\ server[r] = "timelocked"
  /\ unlocked' = unlocked \cup {r}
  /\ UNCHANGED <<requests, timers, pollTimerRef, recovery, recoveryStatus, countdown, mounted,
                 server>>

\* Mutant of Track: the timer of the answer before stays.
TrackBesides(data) ==
  /\ recovery' = data
  /\ recoveryStatus' = Derived(data)
  /\ IF Polled(Derived(data))
     THEN \E h \in Handle :
            /\ timers[h] = NoTimer
            /\ timers' = [timers EXCEPT ![h] = data.id]
            /\ pollTimerRef' = h
     ELSE StopPolling

\* track()
Track(data) ==
  /\ recovery' = data
  /\ recoveryStatus' = Derived(data)
  /\ IF Polled(Derived(data))
     THEN \E h \in Handle :
            /\ Stopped[h] = NoTimer
            /\ timers' = [Stopped EXCEPT ![h] = data.id]
            /\ pollTimerRef' = h
     ELSE StopPolling

Answered(x) ==
  /\ requests[x].kind = "answer"
  /\ requests' = [requests EXCEPT ![x] = NotAsking]
  /\ IF mounted
     THEN Track(requests[x].data)
     ELSE UNCHANGED <<timers, pollTimerRef, recovery, recoveryStatus>>
  /\ UNCHANGED <<countdown, mounted, world>>

\* The server refuses, or the network loses the call or its answer: fail().
Failed(x) ==
  /\ requests[x] # NotAsking
  /\ requests' = [requests EXCEPT ![x] = NotAsking]
  /\ IF mounted
     THEN StopPolling /\ recoveryStatus' = "error"
     ELSE UNCHANGED <<timers, pollTimerRef, recoveryStatus>>
  /\ UNCHANGED <<recovery, countdown, mounted, world>>

\* React runs the effect with what it rendered, which may be after other callbacks.
Rendered ==
  /\ mounted
  /\ countdown' = IF recoveryStatus = "timelocked" THEN recovery ELSE NoRecovery
  /\ UNCHANGED <<requests, timers, pollTimerRef, recovery, recoveryStatus, mounted, world>>

\* The interval that the effect set.
CountedDown ==
  /\ countdown # NoRecovery
  /\ Derived(countdown) = "executable"
  /\ StopPolling
  /\ recoveryStatus' = "executable"
  /\ UNCHANGED <<requests, recovery, countdown, mounted, world>>

Unmounted ==
  /\ mounted
  /\ mounted' = FALSE
  /\ timers' = Stopped
  /\ countdown' = NoRecovery
  /\ UNCHANGED <<requests, pollTimerRef, recovery, recoveryStatus, world>>

HookNext ==
  \/ \E x \in Request :
       \/ InitiateRecovery(x) \/ ApproveRecovery(x) \/ CancelRecovery(x) \/ PollFires(x)
       \/ Serve(x) \/ Answered(x) \/ Failed(x)
  \/ \E r \in RecoveryId : ServerMoves(r) \/ TimelockEnds(r)
  \/ Rendered \/ CountedDown \/ Unmounted

HookSpec == HookInit /\ [][HookNext]_hookVars

---------------------------------------------------------------------------

\* However answers overtake each other, fail or come after the component is gone: at
\* most one timer is set, it polls the recovery that is shown and goes on, and while
\* one that goes on is shown, a timer or a call will bring news of it.
RecoveryWatched ==
  /\ \A h \in Handle : timers[h] # NoTimer =>
       /\ mounted /\ h = pollTimerRef
       /\ recovery # NoRecovery /\ recovery.id = timers[h]
       /\ Polled(recoveryStatus)
  /\ mounted /\ (Polled(recoveryStatus) \/ recoveryStatus = "initiating") =>
       \/ \E h \in Handle : timers[h] # NoTimer
       \/ \E x \in Request : requests[x] # NotAsking

=============================================================================
