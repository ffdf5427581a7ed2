------------------------------ MODULE Lifecycle ------------------------------
(***************************************************************************)
(* lifecycle.ts: what a process does between SIGTERM and its exit.         *)
(***************************************************************************)
CONSTANT Request  \* one connection each

VARIABLES
  connections,  \* those the HTTP server has open
  inFlight,     \* the operations under trackOperation()
  phase, drainSet, exitCode

lifecycleVars == <<connections, inFlight, phase, drainSet, exitCode>>
\* What only shutdown() changes.
shutdownVars == <<phase, drainSet, exitCode>>

LifecycleInit ==
  /\ connections = {} /\ inFlight = {} /\ drainSet = {}
  /\ phase = "running" /\ exitCode = 0

\* server.close(): no connection is accepted from here on.
Sigterm ==
  /\ phase = "running"
  /\ phase' = "closing"
  /\ UNCHANGED <<connections, inFlight, drainSet, exitCode>>

\* shutdown() that does not await closeServer().
ServerClosedAtOnce ==
  /\ phase = "closing"
  /\ drainSet' = inFlight
  /\ phase' = IF inFlight = {} THEN "quitting" ELSE "draining"
  /\ UNCHANGED <<connections, inFlight, exitCode>>

\* closeServer() has no timeout; then drainInFlight() looks at inFlight once.
ServerClosed ==
  /\ phase = "closing" /\ connections = {}
  /\ drainSet' = inFlight
  /\ phase' = IF inFlight = {} THEN "quitting" ELSE "draining"
  /\ UNCHANGED <<connections, inFlight, exitCode>>

Drained ==
  /\ phase = "draining" /\ drainSet \cap inFlight = {}
  /\ phase' = "quitting"
  /\ UNCHANGED <<connections, inFlight, drainSet, exitCode>>

\* A timer that is set when the operations have settled.
DrainTimeoutLate ==
  /\ phase = "draining" /\ drainSet \cap inFlight = {}
  /\ phase' = "quitting" /\ exitCode' = 1
  /\ UNCHANGED <<connections, inFlight, drainSet>>

DrainTimeout ==
  /\ phase = "draining"
  /\ phase' = "quitting" /\ exitCode' = 1
  /\ UNCHANGED <<connections, inFlight, drainSet>>

\* closeRedis() and process.exit(): redis.quit() has answered or thrown.  It has no
\* timeout.
Exit ==
  /\ phase = "quitting"
  /\ phase' = "exited"
  /\ UNCHANGED <<connections, inFlight, drainSet, exitCode>>

\* What the event loop runs by itself, without an answer from Redis.
Drain == ServerClosed \/ Drained \/ DrainTimeout

LifecycleNext == Drain \/ Exit

=============================================================================
