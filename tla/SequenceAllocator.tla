-------------------------- MODULE SequenceAllocator --------------------------
(***************************************************************************)
(* The Redis-backed slot allocator of the fee sponsor                      *)
(* (packages/server/src/fee-sponsor/sequence-allocator.ts).                *)
(*                                                                         *)
(* Several workers share one Redis.  Every Redis command is one step: an   *)
(* await in the code is a point where every other worker, the TTL clock    *)
(* and the reclaimer may run.  A slot stands for the sequence number       *)
(* startSequence + slot - 1 (sequenceForSlot is a bijection).              *)
(*                                                                         *)
(* The caller of the allocator is left open here: a worker that holds a    *)
(* reservation may commit it, give it back, or disappear.  FeeSponsor      *)
(* says what the real caller does.                                         *)
(***************************************************************************)
EXTENDS Integers, FiniteSets

CONSTANTS
  Worker,       \* the processes that share the allocator
  Account,      \* the account strings they reserve under
  AccountOf,    \* the account each worker passes to reserve and rollback
  NoOne,        \* an absent reservation key
  MaxSlot,      \* bound: slots the counter may reach
  MaxCalls,     \* bound: reserve() calls of a behaviour
  MaxAttempts   \* opts.maxAttempts: candidate slots tried by one reserve()

ASSUME AllocatorAssumption ==
  /\ IsFiniteSet(Worker)
  /\ AccountOf \in [Worker -> Account]
  /\ NoOne \notin Worker
  /\ MaxSlot \in Nat
  /\ MaxCalls \in Nat
  /\ MaxAttempts \in Nat \ {0}

Slot == 1..MaxSlot

VARIABLES
  seq,       \* <key>:seq
  res,       \* <key>:res:<slot>: the worker that set it (its value is AccountOf of it)
  claimed,   \* the slots whose <key>:claimed:<slot> is "1"
  used,      \* the slots whose <key>:used:<slot> is "1"
  reserved,  \* <key>:reserved
  released,  \* <key>:released
  pc,        \* where each worker is in reserve, rollback, release or commit
  slot,      \* the slot each worker is working on
  tries,     \* candidate slots the current reserve() has tried
  rc,        \* the local variables of rollbackExpired()
  calls,     \* history: reserve() calls begun
  granted,   \* history: the slots some reserve() returned
  regranted, \* history: some reserve() returned a slot returned before
  reclaims,  \* history: the slots rollbackExpired() has reclaimed, counted
  rewound,   \* history: rollbackExpired() has rewound the counter
  gauge      \* pendingReservations() under way: what its first GET read

redisVars == <<seq, res, claimed, used, reserved, released>>
localVars == <<pc, slot, tries, rc>>
\* What observes only: no step of a worker or of the reclaimer reads it.
history == <<calls, granted, regranted, reclaims, rewound, gauge>>
allocVars == <<redisVars, localVars, history>>

ReservePC == {"incr", "nx", "claim", "count"}
DropPC    == {"drop", "dropClaim", "dropCount"}
RetirePC  == {"retire", "retireUsed", "retireClaim", "retireCount"}
WorkerPC  == {"idle", "held"} \cup ReservePC \cup DropPC \cup RetirePC
ReclaimPC == {"idle", "used", "claimed", "res", "del", "count", "rewind"}

NoReading == -1

KeysTypeOK ==
  /\ seq \in 0..MaxSlot
  /\ res \in [Slot -> Worker \cup {NoOne}]
  /\ claimed \subseteq Slot
  /\ used \subseteq Slot
  /\ reserved \in Nat
  /\ released \in Nat

\* A worker's locals are reset between operations and set inside one.
WorkerTypeOK ==
  /\ pc \in [Worker -> WorkerPC]
  /\ slot \in [Worker -> 0..MaxSlot]
  /\ tries \in [Worker -> 0..(MaxAttempts - 1)]
  /\ \A w \in Worker :
       /\ pc[w] \notin {"idle", "incr"} => slot[w] # 0
       /\ pc[w] = "idle" => slot[w] = 0 /\ tries[w] = 0

Scan == [pc : ReclaimPC, last : 0..MaxSlot, slot : 0..MaxSlot, high : 0..MaxSlot]

\* r is the state of no scan, or of one at a slot between 1 and lastSlot.
ScanTypeOK ==
  /\ rc \in Scan
  /\ rc.pc # "idle" => rc.slot > 0 /\ rc.slot <= rc.last

HistoryTypeOK ==
  /\ calls \in 0..MaxCalls
  /\ granted \subseteq Slot
  /\ regranted \in BOOLEAN
  /\ reclaims \in Nat
  /\ rewound \in BOOLEAN
  /\ gauge \in Nat \cup {NoReading}

TypeOK == KeysTypeOK /\ WorkerTypeOK /\ ScanTypeOK /\ HistoryTypeOK

NoScan == [pc |-> "idle", last |-> 0, slot |-> 0, high |-> 0]

AllocInit ==
  /\ seq = 0
  /\ res = [s \in Slot |-> NoOne]
  /\ claimed = {} /\ used = {}
  /\ reserved = 0 /\ released = 0
  /\ pc = [w \in Worker |-> "idle"]
  /\ slot = [w \in Worker |-> 0]
  /\ tries = [w \in Worker |-> 0]
  /\ rc = NoScan
  /\ calls = 0 /\ granted = {} /\ regranted = FALSE /\ reclaims = 0 /\ rewound = FALSE
  /\ gauge = NoReading

Goto(w, from, to) ==
  /\ pc[w] = from
  /\ pc' = [pc EXCEPT ![w] = to]

\* The operation ends, and its local variables with it.
Finish(w) ==
  /\ pc' = [pc EXCEPT ![w] = "idle"]
  /\ slot' = [slot EXCEPT ![w] = 0]
  /\ tries' = [tries EXCEPT ![w] = 0]

---------------------------------------------------------------------------
(* reserve(account): INCR seq, SET res NX PX, SET claimed, INCR reserved. *)

Reserve(w) ==
  /\ calls < MaxCalls
  /\ Goto(w, "idle", "incr")
  /\ calls' = calls + 1
  /\ UNCHANGED <<redisVars, slot, tries, rc,
                 granted, regranted, reclaims, rewound, gauge>>

IncrSlot(w) ==
  /\ seq < MaxSlot
  /\ Goto(w, "incr", "nx")
  /\ seq' = seq + 1
  /\ slot' = [slot EXCEPT ![w] = seq + 1]
  /\ UNCHANGED <<res, claimed, used, reserved, released, tries, rc, history>>

\* NX succeeded: this worker holds the slot until its TTL elapses.
TakeSlot(w) ==
  /\ Goto(w, "nx", "claim")
  /\ res[slot[w]] = NoOne
  /\ res' = [res EXCEPT ![slot[w]] = w]
  /\ tries' = [tries EXCEPT ![w] = 0]
  /\ UNCHANGED <<seq, claimed, used, reserved, released, slot, rc, history>>

\* NX failed: on to the next candidate, or throw once maxAttempts were tried.
SlotTaken(w) ==
  /\ pc[w] = "nx"
  /\ res[slot[w]] # NoOne
  /\ IF tries[w] + 1 < MaxAttempts
     THEN /\ tries' = [tries EXCEPT ![w] = @ + 1]
          /\ pc' = [pc EXCEPT ![w] = "incr"]
          /\ UNCHANGED slot
     ELSE Finish(w)
  /\ UNCHANGED <<redisVars, rc, history>>

SetClaimed(w) ==
  /\ Goto(w, "claim", "count")
  /\ claimed' = claimed \cup {slot[w]}
  /\ UNCHANGED <<seq, res, used, reserved, released, slot, tries, rc, history>>

\* The last command of reserve(): it returns the token of the slot.
CountReserved(w) ==
  /\ Goto(w, "count", "held")
  /\ reserved' = reserved + 1
  /\ granted' = granted \cup {slot[w]}
  /\ regranted' = (regranted \/ slot[w] \in granted)
  /\ UNCHANGED <<seq, res, claimed, used, released, slot, tries, rc,
                 calls, reclaims, rewound, gauge>>

---------------------------------------------------------------------------
(* release(token) and rollback(account, sequence) run the same commands: a *)
(* compare-and-delete of the reservation, then DEL claimed, INCR released. *)

\* Mutant of CountDropped: giving a slot back rewinds the counter to reuse it.
CountDroppedRewinding(w) ==
  /\ pc[w] = "dropCount"
  /\ Finish(w)
  /\ released' = released + 1
  /\ seq' = slot[w] - 1
  /\ UNCHANGED <<res, claimed, used, reserved, rc, history>>

\* COMPARE_AND_DELETE_SCRIPT: the reservation is there and holds w's account.
OwnReservation(w) ==
  res[slot[w]] # NoOne /\ AccountOf[res[slot[w]]] = AccountOf[w]

GiveBack(w) ==
  /\ Goto(w, "held", "drop")
  /\ UNCHANGED <<redisVars, slot, tries, rc, history>>

CompareAndDrop(w) ==
  /\ pc[w] = "drop"
  /\ IF OwnReservation(w)
     THEN /\ res' = [res EXCEPT ![slot[w]] = NoOne]
          /\ pc' = [pc EXCEPT ![w] = "dropClaim"]
          /\ UNCHANGED <<slot, tries>>
     ELSE Finish(w) /\ UNCHANGED res
  /\ UNCHANGED <<seq, claimed, used, reserved, released, rc, history>>

DropClaim(w) ==
  /\ Goto(w, "dropClaim", "dropCount")
  /\ claimed' = claimed \ {slot[w]}
  /\ UNCHANGED <<seq, res, used, reserved, released, slot, tries, rc, history>>

CountDropped(w) ==
  /\ pc[w] = "dropCount"
  /\ Finish(w)
  /\ released' = released + 1
  /\ UNCHANGED <<seq, res, claimed, used, reserved, rc, history>>

---------------------------------------------------------------------------
(* commit(token): compare-and-delete, SET used, DEL claimed, INCR released. *)

Commit(w) ==
  /\ Goto(w, "held", "retire")
  /\ UNCHANGED <<redisVars, slot, tries, rc, history>>

\* Mutant of CompareAndRetire: the script counts the release, and commit() again.
CompareAndRetireCounting(w) ==
  /\ pc[w] = "retire"
  /\ IF OwnReservation(w)
     THEN /\ res' = [res EXCEPT ![slot[w]] = NoOne]
          /\ pc' = [pc EXCEPT ![w] = "retireUsed"]
          /\ UNCHANGED <<slot, tries>>
     ELSE Finish(w) /\ UNCHANGED res
  /\ released' = released + 1
  /\ UNCHANGED <<seq, claimed, used, reserved, rc, history>>

CompareAndRetire(w) ==
  /\ pc[w] = "retire"
  /\ IF OwnReservation(w)
     THEN /\ res' = [res EXCEPT ![slot[w]] = NoOne]
          /\ pc' = [pc EXCEPT ![w] = "retireUsed"]
          /\ UNCHANGED <<slot, tries>>
     ELSE Finish(w) /\ UNCHANGED res
  /\ UNCHANGED <<seq, claimed, used, reserved, released, rc, history>>

SetUsed(w) ==
  /\ Goto(w, "retireUsed", "retireClaim")
  /\ used' = used \cup {slot[w]}
  /\ UNCHANGED <<seq, res, claimed, reserved, released, slot, tries, rc, history>>

RetireClaim(w) ==
  /\ Goto(w, "retireClaim", "retireCount")
  /\ claimed' = claimed \ {slot[w]}
  /\ UNCHANGED <<seq, res, used, reserved, released, slot, tries, rc, history>>

CountRetired(w) ==
  /\ pc[w] = "retireCount"
  /\ Finish(w)
  /\ released' = released + 1
  /\ UNCHANGED <<seq, res, claimed, used, reserved, rc, history>>

---------------------------------------------------------------------------
(* rollbackExpired(): one scan of the slots 1..lastSlot, three GETs, a DEL *)
(* and an INCR per reclaimed slot, then a blind SET of the counter.        *)

\* The next iteration of the for loop, or what follows it.
AfterSlot(r) ==
  IF r.slot < r.last THEN [r EXCEPT !.pc = "used", !.slot = @ + 1]
  ELSE IF r.high = r.last THEN [r EXCEPT !.pc = "rewind"]
  ELSE NoScan

ScanStart ==
  /\ rc.pc = "idle"
  /\ seq > 0
  /\ rc' = [pc |-> "used", last |-> seq, slot |-> 1, high |-> 0]
  /\ UNCHANGED <<redisVars, pc, slot, tries, history>>

\* One GET of the scan: `continue` when it says to skip the slot.
ScanGet(from, skip, to) ==
  /\ rc.pc = from
  /\ rc' = IF skip THEN AfterSlot(rc) ELSE [rc EXCEPT !.pc = to]
  /\ UNCHANGED <<redisVars, pc, slot, tries, history>>

\* A committed slot, an unclaimed slot and a live reservation are skipped.
ScanUsed    == ScanGet("used", rc.slot \in used, "claimed")
ScanClaimed == ScanGet("claimed", rc.slot \notin claimed, "res")
ScanRes     == ScanGet("res", res[rc.slot] # NoOne, "del")

ReclaimClaim ==
  /\ rc.pc = "del"
  /\ claimed' = claimed \ {rc.slot}
  /\ rc' = [rc EXCEPT !.pc = "count"]
  /\ reclaims' = reclaims + 1
  /\ UNCHANGED <<seq, res, used, reserved, released, pc, slot, tries,
                 calls, granted, regranted, rewound, gauge>>

CountReclaimed ==
  /\ rc.pc = "count"
  /\ released' = released + 1
  /\ rc' = AfterSlot([rc EXCEPT !.high = rc.slot])
  /\ UNCHANGED <<seq, res, claimed, used, reserved, pc, slot, tries, history>>

Rewind ==
  /\ rc.pc = "rewind"
  /\ seq' = rc.last - 1
  /\ rc' = NoScan
  /\ rewound' = TRUE
  /\ UNCHANGED <<res, claimed, used, reserved, released, pc, slot, tries,
                 calls, granted, regranted, reclaims, gauge>>

---------------------------------------------------------------------------
(* pendingReservations(): a GET of reserved, then a GET of released. *)

ReadReserved ==
  /\ gauge = NoReading
  /\ gauge' = reserved
  /\ UNCHANGED <<redisVars, localVars, calls, granted, regranted, reclaims, rewound>>

\* What it returns, if its second GET is answered now.
PendingReservations == IF gauge > released THEN gauge - released ELSE 0

ReadReleased ==
  /\ gauge # NoReading
  /\ gauge' = NoReading
  /\ UNCHANGED <<redisVars, localVars, calls, granted, regranted, reclaims, rewound>>

Gauge == ReadReserved \/ ReadReleased

---------------------------------------------------------------------------
(* Time and failures. *)

\* The PX of a reservation elapses, whatever its worker is doing.
Expire(s) ==
  /\ res[s] # NoOne
  /\ res' = [res EXCEPT ![s] = NoOne]
  /\ UNCHANGED <<seq, claimed, used, reserved, released, localVars, history>>

\* The worker's process dies, a Redis command of its operation throws, or its
\* caller drops the reservation: what it has written stays.
Abandon(w) ==
  /\ pc[w] # "idle"
  /\ Finish(w)
  /\ UNCHANGED <<redisVars, rc, history>>

ReserveStep(w) ==
  \/ IncrSlot(w) \/ TakeSlot(w) \/ SlotTaken(w) \/ SetClaimed(w) \/ CountReserved(w)

SettleStep(w) ==
  \/ CompareAndDrop(w) \/ DropClaim(w) \/ CountDropped(w)
  \/ CompareAndRetire(w) \/ SetUsed(w) \/ RetireClaim(w) \/ CountRetired(w)

Reclaimer ==
  \/ ScanStart \/ ScanUsed \/ ScanClaimed \/ ScanRes \/ ReclaimClaim \/ CountReclaimed \/ Rewind

AllocNext ==
  \/ \E w \in Worker :
        \/ Reserve(w) \/ ReserveStep(w)
        \/ GiveBack(w) \/ Commit(w) \/ SettleStep(w)
        \/ Abandon(w)
  \/ Reclaimer
  \/ Gauge
  \/ \E s \in Slot : Expire(s)

AllocSpec == AllocInit /\ [][AllocNext]_allocVars

---------------------------------------------------------------------------
(* Properties *)

\* reserve() never returns a slot it has returned before, as long as no
\* rollbackExpired() has rewound the counter: INCR alone keeps slots apart,
\* whatever expires, crashes or is given back.
GrantedOnceUntilRewind == ~rewound => ~regranted

\* Workers whose reservation is counted and not yet counted as released.
Outstanding == {w \in Worker : pc[w] \in {"held"} \cup DropPC \cup RetirePC}

\* How far the backlog gauge may hide work: pendingReservations() is short of
\* the workers that hold a reservation or are settling one by no more than the
\* reservations counted between its two GETs and the slots rollbackExpired()
\* has reclaimed, whatever expires, crashes or deletes the key of another.
PendingNeverUnderReports ==
  gauge # NoReading =>
    PendingReservations + (reserved - gauge) + reclaims >= Cardinality(Outstanding)

\* "The sequence number is retired and is never handed out again"
\* (sequence-allocator.ts:152-153): a slot marked used is not returned by a
\* later reserve().
RetiredNeverGranted ==
  [][\A w \in Worker : pc[w] = "count" /\ pc'[w] = "held" => slot[w] \notin used]_allocVars

=============================================================================
