--------------------------- MODULE FeeSponsorProofs ---------------------------
(***************************************************************************)
(* What SequenceAllocator promises for every number of workers, slots,     *)
(* accounts and attempts; that the service promises it too; and that its   *)
(* retry loop resubmits nothing that was applied.                          *)
(***************************************************************************)
EXTENDS FeeSponsor, FiniteSetTheorems, TLAPS

LEMMA InitTypeOK == AllocInit => TypeOK
<1> SUFFICES ASSUME AllocInit PROVE TypeOK
  OBVIOUS
<1> USE AllocatorAssumption DEF AllocInit
<1>1. KeysTypeOK
  BY DEF KeysTypeOK
<1>2. WorkerTypeOK
  BY DEF WorkerTypeOK, WorkerPC
<1>3. ScanTypeOK
  BY DEF ScanTypeOK, Scan, NoScan, ReclaimPC
<1>4. HistoryTypeOK
  <2>1. calls \in 0..MaxCalls /\ granted \subseteq Slot
    OBVIOUS
  <2>2. regranted \in BOOLEAN /\ rewound \in BOOLEAN
    BY Zenon
  <2>3. reclaims \in Nat /\ gauge \in Nat \cup {NoReading}
    OBVIOUS
  <2> QED BY <2>1, <2>2, <2>3 DEF HistoryTypeOK
<1> QED BY <1>1, <1>2, <1>3, <1>4 DEF TypeOK

---------------------------------------------------------------------------
(* The four parts of TypeOK, one lemma each. *)

\* A worker inside an operation has a slot once it has incremented the counter.
LEMMA BusySlot ==
  ASSUME TypeOK, NEW w \in Worker, pc[w] \notin {"idle", "incr"}
  PROVE  slot[w] \in Slot
BY AllocatorAssumption DEF TypeOK, WorkerTypeOK, Slot

LEMMA NextKeysTypeOK == TypeOK /\ [AllocNext]_allocVars => KeysTypeOK'
<1> SUFFICES ASSUME TypeOK, [AllocNext]_allocVars PROVE KeysTypeOK'
  OBVIOUS
<1> USE AllocatorAssumption DEF TypeOK, KeysTypeOK, Slot
<1>1. ASSUME NEW w \in Worker, ReserveStep(w) PROVE KeysTypeOK'
  <2>1. CASE IncrSlot(w)
    BY <2>1 DEF IncrSlot
  <2>2. CASE TakeSlot(w)
    <3>1. slot[w] \in Slot
      BY <2>2, BusySlot DEF TakeSlot, Goto
    <3> QED BY <2>2, <3>1 DEF TakeSlot
  <2>3. CASE SetClaimed(w)
    <3>1. slot[w] \in Slot
      BY <2>3, BusySlot DEF SetClaimed, Goto
    <3> QED BY <2>3, <3>1 DEF SetClaimed
  <2>4. CASE SlotTaken(w)
    BY <2>4 DEF SlotTaken, redisVars
  <2>5. CASE CountReserved(w)
    <3>1. reserved' = reserved + 1 /\ UNCHANGED <<seq, res, claimed, used, released>>
      BY <2>5 DEF CountReserved
    <3> QED BY <3>1
  <2> QED BY <1>1, <2>1, <2>2, <2>3, <2>4, <2>5 DEF ReserveStep
<1>2. ASSUME NEW w \in Worker, SettleStep(w) PROVE KeysTypeOK'
  <2>1. CASE CompareAndDrop(w) \/ CompareAndRetire(w)
    BY <2>1 DEF CompareAndDrop, CompareAndRetire
  <2>2. CASE SetUsed(w)
    <3>1. slot[w] \in Slot
      BY <2>2, BusySlot DEF SetUsed, Goto
    <3> QED BY <2>2, <3>1 DEF SetUsed
  <2>3. CASE DropClaim(w) \/ RetireClaim(w)
    BY <2>3 DEF DropClaim, RetireClaim
  <2>4. CASE CountDropped(w) \/ CountRetired(w)
    <3>1. released' = released + 1 /\ UNCHANGED <<seq, res, claimed, used, reserved>>
      BY <2>4 DEF CountDropped, CountRetired
    <3> QED BY <3>1
  <2> QED BY <1>2, <2>1, <2>2, <2>3, <2>4 DEF SettleStep
<1>3. ASSUME NEW w \in Worker, Reserve(w) \/ GiveBack(w) \/ Commit(w) \/ Abandon(w)
      PROVE KeysTypeOK'
  BY <1>3 DEF Reserve, GiveBack, Commit, Abandon, redisVars
<1>4. ASSUME Reclaimer PROVE KeysTypeOK'
  BY <1>4 DEF Reclaimer, ScanStart, ScanUsed, ScanClaimed, ScanRes, ScanGet, ReclaimClaim,
              CountReclaimed, Rewind, ScanTypeOK, Scan, redisVars
<1>5. ASSUME NEW s \in Slot, Expire(s) PROVE KeysTypeOK'
  BY <1>5 DEF Expire
<1>6. CASE Gauge \/ UNCHANGED allocVars
  BY <1>6 DEF Gauge, ReadReserved, ReadReleased, allocVars, redisVars
<1> QED BY <1>1, <1>2, <1>3, <1>4, <1>5, <1>6 DEF AllocNext

LEMMA NextWorkerTypeOK == TypeOK /\ [AllocNext]_allocVars => WorkerTypeOK'
<1> SUFFICES ASSUME TypeOK, [AllocNext]_allocVars PROVE WorkerTypeOK'
  OBVIOUS
<1> USE AllocatorAssumption DEF TypeOK, WorkerTypeOK
<1>1. ASSUME NEW w \in Worker, ReserveStep(w) PROVE WorkerTypeOK'
  <2>1. CASE IncrSlot(w)
    BY <2>1 DEF IncrSlot, Goto, KeysTypeOK, WorkerPC, ReservePC
  <2>2. CASE TakeSlot(w)
    BY <2>2 DEF TakeSlot, Goto, WorkerPC, ReservePC
  <2>3. CASE SlotTaken(w)
    BY <2>3 DEF SlotTaken, Finish, WorkerPC, ReservePC
  <2>4. CASE SetClaimed(w) \/ CountReserved(w)
    BY <2>4 DEF SetClaimed, CountReserved, Goto, WorkerPC, ReservePC
  <2> QED BY <1>1, <2>1, <2>2, <2>3, <2>4 DEF ReserveStep
<1>2. ASSUME NEW w \in Worker, SettleStep(w) PROVE WorkerTypeOK'
  <2>1. CASE CompareAndDrop(w) \/ DropClaim(w) \/ CountDropped(w)
    BY <2>1 DEF CompareAndDrop, DropClaim, CountDropped, Goto, Finish, WorkerPC, DropPC
  <2>2. CASE CompareAndRetire(w) \/ SetUsed(w)
    BY <2>2 DEF CompareAndRetire, SetUsed, Goto, Finish, WorkerPC, RetirePC
  <2>3. CASE RetireClaim(w) \/ CountRetired(w)
    BY <2>3 DEF RetireClaim, CountRetired, Goto, Finish, WorkerPC, RetirePC
  <2> QED BY <1>2, <2>1, <2>2, <2>3 DEF SettleStep
<1>3. ASSUME NEW w \in Worker, Reserve(w) PROVE WorkerTypeOK'
  BY <1>3 DEF Reserve, Goto, WorkerPC, ReservePC
<1>4. ASSUME NEW w \in Worker, GiveBack(w) \/ Commit(w) PROVE WorkerTypeOK'
  BY <1>4 DEF GiveBack, Commit, Goto, WorkerPC, DropPC, RetirePC
<1>5. ASSUME NEW w \in Worker, Abandon(w) PROVE WorkerTypeOK'
  BY <1>5 DEF Abandon, Finish, WorkerPC
<1>6. ASSUME Reclaimer PROVE WorkerTypeOK'
  BY <1>6 DEF Reclaimer, ScanStart, ScanUsed, ScanClaimed, ScanRes, ScanGet, ReclaimClaim,
              CountReclaimed, Rewind
<1>7. ASSUME NEW s \in Slot, Expire(s) PROVE WorkerTypeOK'
  BY <1>7 DEF Expire, localVars
<1>8. CASE Gauge \/ UNCHANGED allocVars
  BY <1>8 DEF Gauge, ReadReserved, ReadReleased, allocVars, localVars
<1> QED BY <1>1, <1>2, <1>3, <1>4, <1>5, <1>6, <1>7, <1>8 DEF AllocNext

\* The loop body's successor stays inside the scan it belongs to.
LEMMA AfterSlotType ==
  ASSUME NEW r \in Scan, r.slot > 0, r.slot <= r.last
  PROVE  /\ AfterSlot(r) \in Scan
         /\ AfterSlot(r).pc # "idle" =>
              AfterSlot(r).slot > 0 /\ AfterSlot(r).slot <= AfterSlot(r).last
         /\ AfterSlot(r).pc # "count"
<1>1. CASE r.slot < r.last
  <2>1. AfterSlot(r) = [pc |-> "used", last |-> r.last, slot |-> r.slot + 1, high |-> r.high]
    BY <1>1 DEF AfterSlot, Scan
  <2> QED BY <1>1, <2>1, AllocatorAssumption DEF Scan, ReclaimPC
<1>2. CASE ~(r.slot < r.last) /\ r.high = r.last
  <2>1. AfterSlot(r) = [pc |-> "rewind", last |-> r.last, slot |-> r.slot, high |-> r.high]
    BY <1>2 DEF AfterSlot, Scan
  <2> QED BY <2>1 DEF Scan, ReclaimPC
<1>3. CASE ~(r.slot < r.last) /\ r.high # r.last
  BY <1>3, AllocatorAssumption DEF AfterSlot, NoScan, Scan, ReclaimPC
<1> QED BY <1>1, <1>2, <1>3

LEMMA NextScanTypeOK == TypeOK /\ [AllocNext]_allocVars => ScanTypeOK'
<1> SUFFICES ASSUME TypeOK, [AllocNext]_allocVars PROVE ScanTypeOK'
  OBVIOUS
<1> USE DEF TypeOK, ScanTypeOK
<1>1. CASE ScanStart
  BY <1>1, AllocatorAssumption DEF ScanStart, KeysTypeOK, Scan, ReclaimPC
<1>2. CASE ScanUsed \/ ScanClaimed \/ ScanRes
  <2>1. rc.pc # "idle"
    BY <1>2 DEF ScanUsed, ScanClaimed, ScanRes, ScanGet
  <2>2. CASE rc' = AfterSlot(rc)
    BY <2>1, <2>2, AfterSlotType
  <2>3. CASE \E to \in {"claimed", "res", "del"} : rc' = [rc EXCEPT !.pc = to]
    BY <2>1, <2>3 DEF Scan, ReclaimPC
  <2> QED BY <1>2, <2>2, <2>3 DEF ScanUsed, ScanClaimed, ScanRes, ScanGet
<1>3. CASE ReclaimClaim
  BY <1>3 DEF ReclaimClaim, Scan, ReclaimPC
<1>4. CASE CountReclaimed
  <2> DEFINE r == [rc EXCEPT !.high = rc.slot]
  <2>1. r \in Scan /\ r.slot > 0 /\ r.slot <= r.last
    BY <1>4 DEF CountReclaimed, Scan
  <2> QED BY <1>4, <2>1, AfterSlotType DEF CountReclaimed
<1>5. CASE Rewind
  BY <1>5, AllocatorAssumption DEF Rewind, NoScan, Scan, ReclaimPC
<1>6. CASE UNCHANGED rc
  BY <1>6
<1>7. Reclaimer \/ UNCHANGED rc
  BY DEF AllocNext, allocVars, localVars, Reserve, GiveBack, Commit, Abandon, Expire,
         ReserveStep, IncrSlot, TakeSlot, SlotTaken, SetClaimed, CountReserved, SettleStep,
         CompareAndDrop, DropClaim, CountDropped, CompareAndRetire, SetUsed, RetireClaim,
         CountRetired, Gauge, ReadReserved, ReadReleased
<1> QED
  BY <1>1, <1>2, <1>3, <1>4, <1>5, <1>6, <1>7 DEF Reclaimer

LEMMA NextHistoryTypeOK == TypeOK /\ [AllocNext]_allocVars => HistoryTypeOK'
<1> SUFFICES ASSUME TypeOK, [AllocNext]_allocVars PROVE HistoryTypeOK'
  OBVIOUS
<1> USE AllocatorAssumption DEF TypeOK, HistoryTypeOK
<1>1. ASSUME NEW w \in Worker, Reserve(w) PROVE HistoryTypeOK'
  BY <1>1 DEF Reserve
<1>2. ASSUME NEW w \in Worker, CountReserved(w) PROVE HistoryTypeOK'
  <2>1. slot[w] \in Slot
    BY <1>2, BusySlot DEF CountReserved, Goto
  <2>2. granted' \subseteq Slot
    BY <1>2, <2>1 DEF CountReserved
  <2>3. regranted' \in BOOLEAN
    BY <1>2, Zenon DEF CountReserved
  <2> QED BY <1>2, <2>2, <2>3 DEF CountReserved
<1>3. CASE ReclaimClaim \/ Rewind
  <2>1. rewound' \in BOOLEAN /\ UNCHANGED <<calls, granted, regranted, gauge>>
    BY <1>3, Zenon DEF ReclaimClaim, Rewind
  <2>2. reclaims' \in Nat
    BY <1>3 DEF ReclaimClaim, Rewind
  <2> QED BY <2>1, <2>2, Zenon
<1>4. CASE UNCHANGED history
  BY <1>4 DEF history
<1>5. CASE Gauge
  <2>1. gauge' \in Nat \cup {NoReading}
    BY <1>5 DEF Gauge, ReadReserved, ReadReleased, KeysTypeOK
  <2>2. UNCHANGED <<calls, granted, regranted, reclaims, rewound>>
    BY <1>5, Zenon DEF Gauge, ReadReserved, ReadReleased
  <2> QED BY <2>1, <2>2, Zenon
<1>6. \/ \E w \in Worker : Reserve(w) \/ CountReserved(w)
      \/ ReclaimClaim \/ Rewind \/ Gauge \/ UNCHANGED history
  BY DEF AllocNext, allocVars, GiveBack, Commit, Abandon, Expire,
         ReserveStep, IncrSlot, TakeSlot, SlotTaken, SetClaimed, SettleStep,
         CompareAndDrop, DropClaim, CountDropped, CompareAndRetire, SetUsed, RetireClaim,
         CountRetired, Reclaimer, ScanStart, ScanUsed, ScanClaimed, ScanRes, ScanGet,
         CountReclaimed
<1> QED BY <1>1, <1>2, <1>3, <1>4, <1>5, <1>6

LEMMA NextTypeOK == TypeOK /\ [AllocNext]_allocVars => TypeOK'
BY NextKeysTypeOK, NextWorkerTypeOK, NextScanTypeOK, NextHistoryTypeOK DEF TypeOK

\* Type correctness of the shared keys and of every process's local variables.
THEOREM AllocatorTypeOK == AllocSpec => []TypeOK
BY InitTypeOK, NextTypeOK, PTL DEF AllocSpec

---------------------------------------------------------------------------
(* A slot is granted once until the counter is rewound.  The invariant is  *)
(* not inductive alone: it needs the slots in use to lie below the counter *)
(* and the slots about to be granted to be new and pairwise distinct.      *)

Fresh(w) == pc[w] \in {"nx", "claim", "count"}

BelowCounter ==
  /\ \A w \in Worker : Fresh(w) => slot[w] <= seq
  /\ \A s \in granted : s <= seq

FreshDistinct ==
  /\ \A w \in Worker : Fresh(w) => slot[w] \notin granted
  /\ \A v, w \in Worker : v # w /\ Fresh(v) /\ Fresh(w) => slot[v] # slot[w]

GrantInv == ~rewound => BelowCounter /\ FreshDistinct /\ ~regranted

LEMMA InitGrantInv == AllocInit => GrantInv
BY DEF AllocInit, GrantInv, BelowCounter, FreshDistinct, Fresh

\* Steps that grant nothing, keep the counter and start no new fresh slot.
LEMMA QuietGrantInv ==
  ASSUME GrantInv, WorkerTypeOK,
         UNCHANGED <<seq, granted, regranted, rewound>>,
         \A w \in Worker : Fresh(w)' => Fresh(w) /\ slot'[w] = slot[w]
  PROVE  GrantInv'
BY DEF GrantInv, BelowCounter, FreshDistinct

LEMMA NextGrantInv == TypeOK /\ GrantInv /\ [AllocNext]_allocVars => GrantInv'
<1> SUFFICES ASSUME TypeOK, GrantInv, [AllocNext]_allocVars PROVE GrantInv'
  OBVIOUS
<1> USE AllocatorAssumption
<1>0. WorkerTypeOK
  BY DEF TypeOK
<1>1. ASSUME NEW w \in Worker, IncrSlot(w) PROVE GrantInv'
  <2>1. /\ seq \in Int /\ seq' = seq + 1 /\ slot' = [slot EXCEPT ![w] = seq + 1]
        /\ pc' = [pc EXCEPT ![w] = "nx"]
        /\ UNCHANGED <<granted, regranted, rewound>>
        /\ granted \subseteq Int
        /\ slot \in [Worker -> Int]
    BY <1>1 DEF IncrSlot, Goto, TypeOK, KeysTypeOK, HistoryTypeOK, WorkerTypeOK, Slot, history
  <2>2. ASSUME ~rewound PROVE BelowCounter'
    BY <1>0, <2>1, <2>2 DEF GrantInv, BelowCounter, Fresh, WorkerTypeOK
  <2>3. ASSUME ~rewound PROVE FreshDistinct'
    BY <1>0, <2>1, <2>3 DEF GrantInv, BelowCounter, FreshDistinct, Fresh, WorkerTypeOK
  <2> QED BY <2>1, <2>2, <2>3 DEF GrantInv
<1>2. ASSUME NEW w \in Worker, CountReserved(w) PROVE GrantInv'
  <2>1. /\ Fresh(w) /\ ~Fresh(w)'
        /\ pc' = [pc EXCEPT ![w] = "held"]
        /\ granted' = granted \cup {slot[w]}
        /\ UNCHANGED <<seq, slot, rewound>>
    BY <1>0, <1>2 DEF CountReserved, Goto, Fresh, WorkerTypeOK
  <2>2. ASSUME ~rewound PROVE BelowCounter'
    BY <1>0, <2>1, <2>2 DEF GrantInv, BelowCounter, Fresh, WorkerTypeOK
  <2>3. ASSUME ~rewound PROVE FreshDistinct'
    BY <1>0, <2>1, <2>3 DEF GrantInv, FreshDistinct, Fresh, WorkerTypeOK
  <2>4. ASSUME ~rewound PROVE ~regranted'
    BY <1>2, <2>1, <2>4, Zenon DEF GrantInv, FreshDistinct, CountReserved
  <2> QED BY <2>1, <2>2, <2>3, <2>4 DEF GrantInv
<1>3. ASSUME NEW w \in Worker,
             \/ Reserve(w) \/ TakeSlot(w) \/ SlotTaken(w) \/ SetClaimed(w)
             \/ GiveBack(w) \/ Commit(w) \/ SettleStep(w) \/ Abandon(w)
      PROVE GrantInv'
  <2>1. UNCHANGED <<seq, granted, regranted, rewound>>
    BY <1>3 DEF Reserve, TakeSlot, SlotTaken, SetClaimed, GiveBack, Commit, Abandon,
                SettleStep, CompareAndDrop, DropClaim, CountDropped, CompareAndRetire,
                SetUsed, RetireClaim, CountRetired, redisVars, history
  <2>2. \A v \in Worker : Fresh(v)' => Fresh(v) /\ slot'[v] = slot[v]
    <3>1. CASE Reserve(w) \/ TakeSlot(w) \/ SlotTaken(w) \/ SetClaimed(w)
      BY <1>0, <3>1 DEF Reserve, TakeSlot, SlotTaken, SetClaimed, Goto, Finish, Fresh, WorkerTypeOK
    <3>2. CASE GiveBack(w) \/ Commit(w) \/ Abandon(w)
      BY <1>0, <3>2 DEF GiveBack, Commit, Abandon, Goto, Finish, Fresh, WorkerTypeOK
    <3>3. CASE SettleStep(w)
      BY <1>0, <3>3 DEF SettleStep, CompareAndDrop, DropClaim, CountDropped, CompareAndRetire,
              SetUsed, RetireClaim, CountRetired, Goto, Finish, Fresh, WorkerTypeOK
    <3> QED BY <1>3, <3>1, <3>2, <3>3
  <2> QED BY <1>0, <2>1, <2>2, QuietGrantInv
<1>4. CASE Rewind
  BY <1>4 DEF Rewind, GrantInv
<1>5. CASE \/ ScanStart \/ ScanUsed \/ ScanClaimed \/ ScanRes \/ ReclaimClaim \/ CountReclaimed
           \/ Gauge
           \/ \E s \in Slot : Expire(s)
           \/ UNCHANGED allocVars
  <2>1. UNCHANGED <<seq, granted, regranted, rewound, pc, slot>>
    BY <1>5 DEF Gauge, ReadReserved, ReadReleased,
                ScanStart, ScanUsed, ScanClaimed, ScanRes, ScanGet, ReclaimClaim, CountReclaimed,
                Expire, allocVars, redisVars, localVars, history
  <2> QED BY <1>0, <2>1, QuietGrantInv DEF Fresh
<1> QED
  BY <1>1, <1>2, <1>3, <1>4, <1>5 DEF AllocNext, ReserveStep, Reclaimer

\* Until rollbackExpired() rewinds the counter, no reserve() returns a slot a
\* second time, for any number of workers, crashes and expired reservations.
THEOREM GrantedOnce == AllocSpec => []GrantedOnceUntilRewind
<1>1. GrantInv => GrantedOnceUntilRewind
  BY DEF GrantInv, GrantedOnceUntilRewind
<1> QED BY <1>1, InitTypeOK, NextTypeOK, InitGrantInv, NextGrantInv, PTL DEF AllocSpec

---------------------------------------------------------------------------
(* A worker enters Outstanding with INCR reserved and leaves it with INCR  *)
(* released, or without it; what the reclaimer adds to released is counted *)
(* in reclaims, one DEL before.                                            *)

Reclaiming == IF rc.pc = "count" THEN 1 ELSE 0

PendingInv == reserved + reclaims >= released + Cardinality(Outstanding) + Reclaiming

LEMMA OutstandingFinite ==
  /\ IsFiniteSet(Outstanding)
  /\ Cardinality(Outstanding) \in Nat
BY AllocatorAssumption, FS_Subset, FS_CardinalityType DEF Outstanding

LEMMA InitPendingInv == AllocInit => PendingInv
<1> SUFFICES ASSUME AllocInit PROVE PendingInv
  OBVIOUS
<1>1. Outstanding = {}
  BY DEF AllocInit, Outstanding, DropPC, RetirePC
<1> QED BY <1>1, FS_EmptySet DEF AllocInit, PendingInv, Reclaiming, NoScan

\* Steps of nobody's counters after which no worker is newly outstanding.
LEMMA QuietPendingInv ==
  ASSUME TypeOK, TypeOK', PendingInv, UNCHANGED <<reserved, released, reclaims>>,
         rc'.pc = "count" => rc.pc = "count",
         Outstanding' \subseteq Outstanding
  PROVE  PendingInv'
<1>1. Cardinality(Outstanding') <= Cardinality(Outstanding)
  BY OutstandingFinite, FS_Subset
<1>2. Cardinality(Outstanding') \in Nat
  BY OutstandingFinite, FS_Subset, FS_CardinalityType
<1>3. reserved \in Nat /\ released \in Nat /\ reclaims \in Nat
  BY DEF TypeOK, KeysTypeOK, HistoryTypeOK
<1>4. Reclaiming \in Nat /\ Reclaiming' \in Nat /\ Reclaiming' <= Reclaiming
  BY DEF Reclaiming
<1> QED
  BY <1>1, <1>2, <1>3, <1>4, OutstandingFinite DEF PendingInv

LEMMA NextPendingInv == TypeOK /\ TypeOK' /\ PendingInv /\ [AllocNext]_allocVars => PendingInv'
<1> SUFFICES ASSUME TypeOK, TypeOK', PendingInv, [AllocNext]_allocVars PROVE PendingInv'
  OBVIOUS
<1>0. pc \in [Worker -> WorkerPC]
  BY DEF TypeOK, WorkerTypeOK
<1>1. ASSUME NEW w \in Worker, CountReserved(w) PROVE PendingInv'
  <2>1. /\ reserved' = reserved + 1
        /\ UNCHANGED <<released, rc, reclaims>>
        /\ pc[w] = "count" /\ pc' = [pc EXCEPT ![w] = "held"]
    BY <1>1 DEF CountReserved, Goto
  <2>2. Outstanding' = Outstanding \cup {w}
    BY <1>0, <2>1 DEF Outstanding
  <2>3. w \notin Outstanding
    BY <2>1 DEF Outstanding, DropPC, RetirePC
  <2>4. Cardinality(Outstanding') = Cardinality(Outstanding) + 1
    BY <2>2, <2>3, OutstandingFinite, FS_AddElement
  <2> QED BY <2>1, <2>4, OutstandingFinite
         DEF PendingInv, Reclaiming, TypeOK, KeysTypeOK, HistoryTypeOK
<1>2. ASSUME NEW w \in Worker, CountDropped(w) \/ CountRetired(w) PROVE PendingInv'
  <2>1. /\ released' = released + 1
        /\ UNCHANGED <<reserved, rc, reclaims>>
        /\ pc[w] \in DropPC \cup RetirePC /\ pc' = [pc EXCEPT ![w] = "idle"]
    BY <1>2 DEF CountDropped, CountRetired, Finish, DropPC, RetirePC, history
  <2>2. Outstanding' = Outstanding \ {w}
    BY <1>0, <2>1 DEF Outstanding, DropPC, RetirePC
  <2>3. w \in Outstanding
    BY <2>1 DEF Outstanding
  <2>4. Cardinality(Outstanding') = Cardinality(Outstanding) - 1
    BY <2>2, <2>3, OutstandingFinite, FS_RemoveElement
  <2> QED BY <2>1, <2>4, OutstandingFinite
         DEF PendingInv, Reclaiming, TypeOK, KeysTypeOK, HistoryTypeOK
<1>3. ASSUME NEW w \in Worker,
             \/ Reserve(w) \/ IncrSlot(w) \/ TakeSlot(w) \/ SlotTaken(w) \/ SetClaimed(w)
             \/ GiveBack(w) \/ Commit(w) \/ Abandon(w)
             \/ CompareAndDrop(w) \/ DropClaim(w)
             \/ CompareAndRetire(w) \/ SetUsed(w) \/ RetireClaim(w)
      PROVE PendingInv'
  <2>1. UNCHANGED <<reserved, released, rc, reclaims>>
    BY <1>3 DEF Reserve, IncrSlot, TakeSlot, SlotTaken, SetClaimed, GiveBack, Commit, Abandon,
                CompareAndDrop, DropClaim, CompareAndRetire, SetUsed, RetireClaim,
                redisVars, history
  <2>2. Outstanding' \subseteq Outstanding
    <3>1. CASE Reserve(w) \/ IncrSlot(w) \/ TakeSlot(w) \/ SlotTaken(w) \/ SetClaimed(w)
      BY <1>0, <3>1 DEF Reserve, IncrSlot, TakeSlot, SlotTaken, SetClaimed, Goto, Finish,
                        Outstanding, DropPC, RetirePC
    <3>2. CASE GiveBack(w) \/ Commit(w) \/ Abandon(w)
      BY <1>0, <3>2 DEF GiveBack, Commit, Abandon, Goto, Finish, Outstanding, DropPC, RetirePC
    <3>3. CASE CompareAndDrop(w) \/ DropClaim(w)
      BY <1>0, <3>3 DEF CompareAndDrop, DropClaim, Goto, Finish, Outstanding, DropPC, RetirePC
    <3>4. CASE CompareAndRetire(w) \/ SetUsed(w) \/ RetireClaim(w)
      BY <1>0, <3>4 DEF CompareAndRetire, SetUsed, RetireClaim, Goto, Finish,
                        Outstanding, DropPC, RetirePC
    <3> QED BY <1>3, <3>1, <3>2, <3>3, <3>4
  <2> QED BY <2>1, <2>2, QuietPendingInv
<1>4. CASE CountReclaimed
  <2>1. /\ rc.pc = "count" /\ released' = released + 1
        /\ UNCHANGED <<reserved, reclaims, pc>>
    BY <1>4 DEF CountReclaimed, history
  <2>2. rc'.pc # "count"
    <3> DEFINE r == [rc EXCEPT !.high = rc.slot]
    <3>1. r \in Scan /\ r.slot > 0 /\ r.slot <= r.last
      BY <1>4 DEF CountReclaimed, TypeOK, ScanTypeOK, Scan
    <3>2. rc' = AfterSlot(r)
      BY <1>4 DEF CountReclaimed
    <3> QED BY <3>1, <3>2, AfterSlotType
  <2>3. Outstanding' = Outstanding
    BY <2>1 DEF Outstanding
  <2> QED BY <2>1, <2>2, <2>3, OutstandingFinite
         DEF PendingInv, Reclaiming, TypeOK, KeysTypeOK, HistoryTypeOK
<1>5. CASE ReclaimClaim
  <2>1. /\ rc.pc = "del" /\ reclaims' = reclaims + 1
        /\ UNCHANGED <<reserved, released, pc>>
    BY <1>5 DEF ReclaimClaim
  <2>2. Outstanding' = Outstanding
    BY <2>1 DEF Outstanding
  <2>3. Reclaiming = 0 /\ Reclaiming' <= 1 /\ Reclaiming' \in Nat
    BY <2>1 DEF Reclaiming
  <2> QED BY <2>1, <2>2, <2>3, OutstandingFinite
         DEF PendingInv, TypeOK, KeysTypeOK, HistoryTypeOK
<1>6. CASE \/ ScanStart \/ ScanUsed \/ ScanClaimed \/ ScanRes \/ Rewind \/ Gauge
           \/ \E s \in Slot : Expire(s)
           \/ UNCHANGED allocVars
  <2>1. UNCHANGED <<reserved, released, reclaims, pc>>
    BY <1>6 DEF Gauge, ReadReserved, ReadReleased,
                ScanStart, ScanUsed, ScanClaimed, ScanRes, ScanGet, Rewind,
                Expire, allocVars, redisVars, localVars, history
  <2>2. rc'.pc = "count" => rc.pc = "count"
    <3>1. CASE ScanUsed \/ ScanClaimed \/ ScanRes
      <4>1. rc.pc # "idle" /\ rc \in Scan /\ rc.slot > 0 /\ rc.slot <= rc.last
        BY <3>1 DEF ScanUsed, ScanClaimed, ScanRes, ScanGet, TypeOK, ScanTypeOK
      <4>2. AfterSlot(rc).pc # "count"
        BY <4>1, AfterSlotType
      <4> QED BY <3>1, <4>1, <4>2 DEF ScanUsed, ScanClaimed, ScanRes, ScanGet, Scan
    <3>2. CASE ScanStart \/ Rewind
      BY <3>2 DEF ScanStart, Rewind, NoScan
    <3>3. CASE Gauge \/ (\E s \in Slot : Expire(s)) \/ UNCHANGED allocVars
      BY <3>3 DEF Gauge, ReadReserved, ReadReleased, Expire, allocVars, localVars
    <3> QED BY <1>6, <3>1, <3>2, <3>3
  <2>3. Outstanding' = Outstanding
    BY <2>1 DEF Outstanding
  <2> QED BY <2>1, <2>2, <2>3, QuietPendingInv
<1> QED
  BY <1>1, <1>2, <1>3, <1>4, <1>5, <1>6 DEF AllocNext, ReserveStep, SettleStep, Reclaimer

\* Whatever interleaves with the two GETs of pendingReservations(), it is short
\* of the reservations held or being settled by no more than were counted
\* between them and rollbackExpired() has reclaimed.
THEOREM PendingCovers == AllocSpec => []PendingNeverUnderReports
<1>1. TypeOK /\ PendingInv => PendingNeverUnderReports
  <2> SUFFICES ASSUME TypeOK, PendingInv PROVE PendingNeverUnderReports
    OBVIOUS
  <2>1. reserved \in Nat /\ released \in Nat /\ reclaims \in Nat /\ gauge \in Int
    BY DEF TypeOK, KeysTypeOK, HistoryTypeOK, NoReading
  <2>2. Reclaiming \in Nat
    BY DEF Reclaiming
  <2>3. PendingReservations \in Nat /\ PendingReservations >= gauge - released
    BY <2>1 DEF PendingReservations
  <2> QED BY <2>1, <2>2, <2>3, OutstandingFinite DEF PendingInv, PendingNeverUnderReports
<1> QED BY <1>1, InitTypeOK, NextTypeOK, InitPendingInv, NextPendingInv, PTL DEF AllocSpec

---------------------------------------------------------------------------
(* The submission service is such a caller. *)

LEMMA StepImplements == TypeOK /\ [Next]_vars => [AllocNext]_allocVars
<1> SUFFICES ASSUME TypeOK, [Next]_vars PROVE [AllocNext]_allocVars
  OBVIOUS
<1>1. ASSUME NEW w \in Worker, Submit(w) \/ Backoff(w) PROVE AllocNext
  BY <1>1 DEF Submit, Backoff, AllocNext
<1>2. ASSUME NEW w \in Worker, Reserving(w) \/ Settling(w) PROVE AllocNext
  BY <1>2 DEF Reserving, Settling, AllocNext
<1>3. ASSUME NEW w \in Worker, ReserveThrew(w) \/ Send(w) \/ Return(w) PROVE UNCHANGED allocVars
  BY <1>3 DEF ReserveThrew, Send, Return
<1>4. ASSUME NEW w \in Worker, Accepted(w) \/ BadSeqRetry(w) PROVE AllocNext
  BY <1>4 DEF Accepted, BadSeqRetry, AllocNext
<1>5. ASSUME NEW w \in Worker, SubmitThrew(w) \/ TimedOutApplied(w) \/ RedisFails(w)
      PROVE AllocNext
  BY <1>5 DEF SubmitThrew, TimedOutApplied, RedisFails, AllocNext
<1>6. ASSUME NEW w \in Worker, Crash(w) PROVE [AllocNext]_allocVars
  <2>1. CASE pc[w] # "idle"
    BY <1>6, <2>1 DEF Crash, Abandon, AllocNext
  <2>2. CASE pc[w] = "idle"
    <3>1. UNCHANGED <<pc, slot, tries>>
      BY <1>6, <2>2 DEF Crash, Finish, TypeOK, WorkerTypeOK
    <3> QED BY <1>6, <3>1 DEF Crash, allocVars, redisVars, localVars
  <2> QED BY <2>1, <2>2
<1>7. ASSUME Reclaimer \/ Gauge \/ \E s \in Slot : Expire(s) PROVE AllocNext
  BY <1>7 DEF AllocNext
<1>8. CASE UNCHANGED vars
  BY <1>8 DEF vars
<1> QED
  BY <1>1, <1>2, <1>3, <1>4, <1>5, <1>6, <1>7, <1>8 DEF Next, CallStep

\* Every behaviour of the service is one of the allocator with some caller.
LEMMA ImplementsAllocator == Spec => AllocSpec
<1>1. Init => AllocInit
  BY DEF Init
<1> QED
  BY <1>1, InitTypeOK, NextTypeOK, StepImplements, PTL DEF Spec, AllocSpec

\* So the service too is granted each slot once, until a rewind.
COROLLARY ServiceGrantedOnce == Spec => []GrantedOnceUntilRewind
BY ImplementsAllocator, GrantedOnce, PTL

---------------------------------------------------------------------------
(* A call that has not reached its answer has been applied zero times. *)

AppliedInv ==
  /\ phase \in [Worker -> Phase]
  /\ applied \in [Worker -> {0, 1}]
  /\ \A w \in Worker : phase[w] \in {"reserving", "submitting", "retrying"} => applied[w] = 0

LEMMA AppliedInvAlways == Spec => []AppliedInv
<1>1. Init => AppliedInv
  BY DEF Init, AppliedInv, Phase
<1>2. AppliedInv /\ [Next]_vars => AppliedInv'
  <2> SUFFICES ASSUME AppliedInv, [Next]_vars PROVE AppliedInv'
    OBVIOUS
  <2> USE DEF AppliedInv, Phase, Phased
  <2>1. ASSUME NEW w \in Worker, Submit(w) PROVE AppliedInv'
    BY <2>1 DEF Submit
  <2>2. ASSUME NEW w \in Worker, Accepted(w) \/ TimedOutApplied(w) PROVE AppliedInv'
    BY <2>2 DEF Accepted, TimedOutApplied
  <2>3. ASSUME NEW w \in Worker,
               Backoff(w) \/ ReserveThrew(w) \/ Send(w) \/ BadSeqRetry(w) \/ SubmitThrew(w) \/ Return(w)
        PROVE AppliedInv'
    BY <2>3 DEF Backoff, ReserveThrew, Send, BadSeqRetry, SubmitThrew, Return
  <2>4. ASSUME NEW w \in Worker, Crash(w) PROVE AppliedInv'
    BY <2>4 DEF Crash
  <2>5. CASE UNCHANGED sponsorVars
    BY <2>5 DEF sponsorVars
  <2> QED
    BY <2>1, <2>2, <2>3, <2>4, <2>5
       DEF Next, CallStep, Reserving, Settling, RedisFails, vars
<1> QED BY <1>1, <1>2, PTL DEF Spec

\* Not even a submission that timed out after being applied is sent again.
THEOREM AppliedOnce == Spec => []AppliedAtMostOnce
<1>1. AppliedInv => AppliedAtMostOnce
  BY DEF AppliedInv, AppliedAtMostOnce
<1> QED BY <1>1, AppliedInvAlways, PTL

---------------------------------------------------------------------------
(* The loop of submit() and the operation of the allocator it is in. *)

\* A call that backs off has an attempt left.
AttemptLeft == \A w \in Worker : phase[w] = "retrying" => attempt[w] < MaxSubmitAttempts - 1

SubmitInv == SponsorTypeOK /\ AttemptLeft

LEMMA SubmitInvNext == SubmitInv /\ AppliedInv' /\ [Next]_vars => SubmitInv'
<1> SUFFICES ASSUME SubmitInv, AppliedInv', [Next]_vars PROVE SubmitInv'
  OBVIOUS
<1>1. TypeOK' /\ applied' \in [Worker -> Nat]
  BY StepImplements, NextTypeOK DEF SubmitInv, SponsorTypeOK, AppliedInv
<1> DEFINE Loop ==
      /\ phase \in [Worker -> Phase]
      /\ attempt \in [Worker -> 0..(MaxSubmitAttempts - 1)]
      /\ \A w \in Worker : phase[w] = "none" => pc[w] = "idle"
      /\ \A w \in Worker : phase[w] = "submitting" => pc[w] = "held"
      /\ AttemptLeft
<1>2. Loop /\ pc \in [Worker -> WorkerPC]
  BY DEF SubmitInv, SponsorTypeOK, TypeOK, WorkerTypeOK
<1>3. Loop'
  <2> USE <1>2, SubmitAssumption DEF AttemptLeft, Phase, Phased
  <2>1. ASSUME NEW w \in Worker, Submit(w) PROVE Loop'
    BY <2>1 DEF Submit, Reserve, Goto
  <2>2. ASSUME NEW w \in Worker, Backoff(w) PROVE Loop'
    <3>1. attempt[w] + 1 \in 0..(MaxSubmitAttempts - 1)
      BY <2>2 DEF Backoff
    <3> QED BY <2>2, <3>1 DEF Backoff, Reserve, Goto
  <2>3. ASSUME NEW w \in Worker, UNCHANGED sponsorVars, pc[w] \notin {"idle", "held"},
               \A v \in Worker \ {w} : pc'[v] = pc[v]
        PROVE Loop'
    BY <2>3 DEF sponsorVars
  <2>4. ASSUME NEW w \in Worker, Reserving(w) PROVE Loop'
    <3>1. UNCHANGED sponsorVars /\ pc[w] \notin {"idle", "held"}
          /\ \A v \in Worker \ {w} : pc'[v] = pc[v]
      BY <2>4 DEF Reserving, ReserveStep, IncrSlot, TakeSlot, SlotTaken, SetClaimed, CountReserved,
                  Goto, Finish
    <3> QED BY <3>1, <2>3
  <2>5. ASSUME NEW w \in Worker, Settling(w) PROVE Loop'
    <3>1. UNCHANGED sponsorVars /\ pc[w] \notin {"idle", "held"}
          /\ \A v \in Worker \ {w} : pc'[v] = pc[v]
      BY <2>5 DEF Settling, SettleStep, CompareAndDrop, DropClaim, CountDropped, CompareAndRetire,
                  SetUsed, RetireClaim, CountRetired, Goto, Finish
    <3> QED BY <3>1, <2>3
  <2>6. ASSUME NEW w \in Worker, RedisFails(w) PROVE Loop'
    <3>1. UNCHANGED sponsorVars /\ pc[w] \notin {"idle", "held"}
          /\ \A v \in Worker \ {w} : pc'[v] = pc[v]
      BY <2>6 DEF RedisFails, Abandon, Finish, ReservePC, DropPC, RetirePC
    <3> QED BY <3>1, <2>3
  <2>7. ASSUME NEW w \in Worker, Accepted(w) \/ BadSeqRetry(w) PROVE Loop'
    BY <2>7 DEF Accepted, BadSeqRetry, Commit, GiveBack, Goto
  <2>8. ASSUME NEW w \in Worker, ReserveThrew(w) \/ Send(w) \/ Return(w) PROVE Loop'
    BY <2>8 DEF ReserveThrew, Send, Return, allocVars, localVars
  <2>9. ASSUME NEW w \in Worker, SubmitThrew(w) \/ TimedOutApplied(w) PROVE Loop'
    BY <2>9 DEF SubmitThrew, TimedOutApplied, Abandon, Finish
  <2>10. ASSUME NEW w \in Worker, Crash(w) PROVE Loop'
    BY <2>10 DEF Crash, Finish
  <2>11. ASSUME Reclaimer \/ Gauge \/ \E s \in Slot : Expire(s), UNCHANGED sponsorVars
        PROVE Loop'
    <3>1. UNCHANGED pc
      BY <2>11 DEF Reclaimer, ScanStart, ScanUsed, ScanClaimed, ScanRes, ScanGet, ReclaimClaim,
                   CountReclaimed, Rewind, Gauge, ReadReserved, ReadReleased, Expire, localVars
    <3> QED BY <3>1, <2>11 DEF sponsorVars
  <2>12. CASE UNCHANGED vars
    BY <2>12 DEF vars, sponsorVars, allocVars, localVars
  <2> QED
    BY <2>1, <2>2, <2>4, <2>5, <2>6, <2>7, <2>8, <2>9, <2>10, <2>11, <2>12 DEF Next, CallStep
<1> QED BY <1>1, <1>3 DEF SubmitInv, SponsorTypeOK

\* Whatever fails, a submit() call is where its phase says: it holds a reservation
\* while it submits, has no operation open when it has ended, and counts its attempts.
THEOREM SubmitTypes == Spec => []SponsorTypeOK
<1>1. Init => SubmitInv
  BY InitTypeOK, SubmitAssumption
     DEF Init, SubmitInv, SponsorTypeOK, AttemptLeft, Phase, AllocInit
<1>2. SubmitInv => SponsorTypeOK
  BY DEF SubmitInv
<1> QED BY <1>1, <1>2, SubmitInvNext, AppliedInvAlways, PTL DEF Spec

=============================================================================
