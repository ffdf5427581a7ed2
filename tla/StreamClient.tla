----------------------------- MODULE StreamClient -----------------------------
(***************************************************************************)
(* The client's event streams: packages/core/src/stellar/stream.ts.  Each  *)
(* subscription has a socket; one timer reconnects all that lost theirs,   *)
(* from the cursor of the last event.  Listeners are called in the middle  *)
(* of scheduleReconnect() and may call the client back.  The server's side *)
(* of a socket is external: it sends the events after the cursor, or from  *)
(* now on.                                                                 *)
(***************************************************************************)
EXTENDS Integers, Sequences

CONSTANTS
  Subscription,
  Live,      \* no cursor
  LastEvent  \* bound: the events of a feed, numbered by their paging token

ASSUME LiveAssumption == LastEvent \in Nat /\ Live \notin 0..LastEvent

VARIABLES
  phaseOf,   \* per subscription: whether it was made, is active, has ended
  cursor,    \* the token it resumes from
  socket,    \* its socket
  connection, timer, attempted, closed,  \* state, reconnectTimer, reconnectAttempts > 0, closed
  armed,     \* timers that will fire, the one in reconnectTimer and any it replaced
  notifying, \* calls of scheduleReconnect() whose listeners have not returned
  feed,      \* external: the last event there is
  sent,      \* external: the last event sent on a socket
  received   \* history: the events a subscription emitted

timerVars == <<timer, armed, attempted, notifying>>
clientVars == <<phaseOf, cursor, socket, connection, closed, timerVars>>
streamVars == <<clientVars, feed, sent, received>>

Active == {s \in Subscription : phaseOf[s] = "active"}

Nowhere == -1   \* no socket, or one on which the subscription was not sent

StreamTypeOK ==
  /\ phaseOf \in [Subscription -> {"none", "active", "ended"}]
  /\ cursor \in [Subscription -> {Live} \cup 0..LastEvent]
  /\ socket \in [Subscription -> {"none", "opening", "open"}]
  /\ connection \in {"idle", "connecting", "open", "reconnecting", "closed"}
  /\ timer \in BOOLEAN /\ attempted \in BOOLEAN /\ closed \in BOOLEAN
  /\ armed \in Nat /\ notifying \in Nat
  /\ feed \in 0..LastEvent
  /\ sent \in [Subscription -> {Nowhere} \cup 0..LastEvent]
  /\ received \in [Subscription -> Seq(0..LastEvent)]

StreamInit ==
  /\ phaseOf = [s \in Subscription |-> "none"]
  /\ cursor = [s \in Subscription |-> Live]
  /\ socket = [s \in Subscription |-> "none"]
  /\ connection = "idle"
  /\ timer = FALSE /\ attempted = FALSE /\ closed = FALSE
  /\ armed = 0 /\ notifying = 0
  /\ feed = 0
  /\ sent = [s \in Subscription |-> Nowhere]
  /\ received = [s \in Subscription |-> <<>>]

\* No listener is on the stack: sockets and timers have their turn.  Elsewhere
\* listeners are called last, or what they may change is looked at after them; those
\* of a failed send() or factory are taken to call back afterwards.
Returned == notifying = 0

SetTimer(pending) ==
  /\ timer' = TRUE /\ attempted' = TRUE
  /\ armed' = pending + 1

\* scheduleReconnect(), with reconnectTimer as given: a change of state is told to
\* the listeners first.
Schedule(scheduled, pending) ==
  IF scheduled
  THEN UNCHANGED <<connection, timerVars>>
  ELSE /\ connection' = "reconnecting"
       /\ IF connection = "reconnecting"
          THEN SetTimer(pending) /\ UNCHANGED notifying
          ELSE /\ notifying' = notifying + 1
               /\ timer' = FALSE /\ armed' = pending
               /\ UNCHANGED attempted

ScheduleReconnect == Schedule(timer, armed)

\* The listeners have returned.  They may have closed the client, or had the timer
\* set already: nothing is looked at again.
Notified ==
  /\ ~Returned
  /\ notifying' = notifying - 1
  /\ SetTimer(armed)
  /\ UNCHANGED <<phaseOf, cursor, socket, connection, closed, feed, sent, received>>

\* A socket is being opened.
Connecting ==
  connection' = CASE connection = "open" -> "open"
                  [] connection # "open" /\ attempted -> "reconnecting"
                  [] connection # "open" /\ ~attempted -> "connecting"

\* With the cursor of an event the caller has, or without.
Subscribe(s, from) ==
  /\ phaseOf[s] = "none" /\ ~closed
  /\ phaseOf' = [phaseOf EXCEPT ![s] = "active"]
  /\ cursor' = [cursor EXCEPT ![s] = from]
  /\ received' = [received EXCEPT ![s] = IF from = Live THEN <<>> ELSE <<from>>]
  /\ \/ /\ socket' = [socket EXCEPT ![s] = "opening"]
        /\ Connecting
        /\ UNCHANGED timerVars
     \/ ScheduleReconnect /\ UNCHANGED socket
  /\ UNCHANGED <<closed, feed, sent>>

\* onopen: the subscription is sent, with its cursor, unless send() throws.
OnOpen(s) ==
  /\ Returned
  /\ socket[s] = "opening"
  /\ socket' = [socket EXCEPT ![s] = "open"]
  /\ \E from \in {IF cursor[s] = Live THEN feed ELSE cursor[s], Nowhere} :
       sent' = [sent EXCEPT ![s] = from]
  /\ connection' = "open" /\ attempted' = FALSE
  /\ UNCHANGED <<phaseOf, cursor, timer, armed, notifying, closed, feed, received>>

\* Without keeping its token.
OnMessageOnly(s) ==
  /\ Returned /\ socket[s] = "open" /\ sent[s] \in 0..(feed - 1)
  /\ sent' = [sent EXCEPT ![s] = @ + 1]
  /\ received' = [received EXCEPT ![s] = Append(@, sent[s] + 1)]
  /\ UNCHANGED <<clientVars, feed>>

OnMessage(s) ==
  /\ Returned /\ socket[s] = "open" /\ sent[s] \in 0..(feed - 1)
  /\ sent' = [sent EXCEPT ![s] = @ + 1]
  /\ cursor' = [cursor EXCEPT ![s] = sent[s] + 1]
  /\ received' = [received EXCEPT ![s] = Append(@, sent[s] + 1)]
  /\ UNCHANGED <<phaseOf, socket, connection, timerVars, closed, feed>>

\* The network, or the server, closes a socket.
OnClose(s) ==
  /\ Returned
  /\ socket[s] # "none"
  /\ socket' = [socket EXCEPT ![s] = "none"]
  /\ sent' = [sent EXCEPT ![s] = Nowhere]
  /\ ScheduleReconnect
  /\ UNCHANGED <<phaseOf, cursor, closed, feed, received>>

Lost == {s \in Active : socket[s] = "none"}

Opening(found) == socket' = [s \in Subscription |-> IF s \in found THEN "opening" ELSE socket[s]]

\* A timer fires, and reconnectTimer is null whichever it holds.
Fires == Returned /\ armed > 0 /\ UNCHANGED <<phaseOf, cursor, closed, feed, sent, received>>

FiresInVain ==
  /\ Fires /\ closed
  /\ timer' = FALSE /\ armed' = armed - 1
  /\ UNCHANGED <<socket, connection, attempted, notifying>>

\* A socket for each that has none.
ReconnectAll ==
  /\ Fires /\ ~closed
  /\ timer' = FALSE /\ armed' = armed - 1
  /\ Opening(Lost)
  /\ IF Lost = {} THEN UNCHANGED connection ELSE Connecting
  /\ UNCHANGED <<attempted, notifying>>

\* Mutant of ReconnectSome: the failure schedules no other.
ReconnectOnce ==
  /\ Fires /\ ~closed
  /\ \E failing \in (SUBSET Lost) \ {{}} : Opening(Lost \ failing)
  /\ timer' = FALSE /\ armed' = armed - 1
  /\ Connecting
  /\ UNCHANGED <<attempted, notifying>>

\* One whose factory throws is left to the next timer.
ReconnectSome ==
  /\ Fires /\ ~closed
  /\ \E failing \in (SUBSET Lost) \ {{}} : Opening(Lost \ failing)
  /\ Schedule(FALSE, armed - 1)

Unsubscribe(s) ==
  /\ s \in Active
  /\ phaseOf' = [phaseOf EXCEPT ![s] = "ended"]
  /\ socket' = [socket EXCEPT ![s] = "none"]
  /\ sent' = [sent EXCEPT ![s] = Nowhere]
  /\ UNCHANGED <<cursor, connection, timerVars, closed, feed, received>>

CloseClient ==
  /\ ~closed /\ closed' = TRUE
  /\ timer' = FALSE /\ armed' = IF timer THEN armed - 1 ELSE armed
  /\ connection' = "closed"
  /\ phaseOf' = [s \in Subscription |-> IF s \in Active THEN "ended" ELSE phaseOf[s]]
  /\ socket' = [s \in Subscription |-> "none"]
  /\ sent' = [s \in Subscription |-> Nowhere]
  /\ UNCHANGED <<cursor, attempted, notifying, feed, received>>

NewEvent ==
  /\ Returned /\ feed < LastEvent /\ feed' = feed + 1
  /\ UNCHANGED <<clientVars, sent, received>>

StreamNext ==
  \/ \E s \in Subscription :
       \/ \E from \in {Live} \cup 0..feed : Subscribe(s, from)
       \/ OnOpen(s) \/ OnMessage(s) \/ OnClose(s) \/ Unsubscribe(s)
  \/ Notified \/ FiresInVain \/ ReconnectAll \/ ReconnectSome \/ CloseClient \/ NewEvent

StreamSpec == StreamInit /\ [][StreamNext]_streamVars

\* "replaying the last cursor per topic so no events are dropped": from the event a
\* subscription began with, or first received, it emits each one once, in order.
EventsContiguous ==
  \A s \in Subscription : \A i \in 1..(Len(received[s]) - 1) :
    received[s][i + 1] = received[s][i] + 1

\* A subscription without a socket waits for a timer, or for listeners to return
\* that one is set after, whatever closed, failed or called back in between; and no
\* subscription or socket of a client that was closed comes back, though a timer may.
ReconnectPending ==
  /\ Lost # {} => armed > 0 \/ ~Returned
  /\ closed => Active = {} /\ \A s \in Subscription : socket[s] = "none"

=============================================================================
