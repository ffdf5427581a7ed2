------------------------- MODULE TransactionSequence -------------------------
(***************************************************************************)
(* The sequence numbers of one account: sequence/allocator.ts.  Callers of *)
(* withSequence() share a Redis counter and keep a reservation key each;   *)
(* a step is one command.  The lock, which is optional, and the in-memory  *)
(* allocator, which takes the commands of a call together, allow fewer     *)
(* behaviours.                                                             *)
(***************************************************************************)
EXTENDS Naturals

CONSTANTS
  Caller,       \* calls of withSequence() that overlap
  SeqRetries,   \* maxRetries
  MaxSequence   \* bound: the sequence numbers handed out

ASSUME SequenceAssumption == SeqRetries \in Nat /\ MaxSequence \in Nat

VARIABLES
  counter,      \* lumen:seq:counter
  reservation,  \* per caller: the value of its reservation key, 0 if there is none
  at,           \* where its call is
  sequence,     \* the number it reserved
  retries,      \* attempts that ended in txBAD_SEQ
  used          \* history: the numbers for which the function returned

sequenceVars == <<counter, reservation, at, sequence, retries, used>>

Holding == {"reserving", "working", "committing", "rollingBack", "retrying"}

SequenceTypeOK ==
  /\ counter \in Nat
  /\ reservation \in [Caller -> Nat]
  /\ at \in [Caller -> Holding \cup {"idle"}]
  /\ sequence \in [Caller -> Nat]
  /\ retries \in [Caller -> 0..SeqRetries]
  /\ used \subseteq Nat

SequenceInit ==
  /\ counter = 0
  /\ reservation = [c \in Caller |-> 0]
  /\ at = [c \in Caller |-> "idle"]
  /\ sequence = [c \in Caller |-> 0]
  /\ retries = [c \in Caller |-> 0]
  /\ used = {}

Go(c, s) == at' = [at EXCEPT ![c] = s]

\* The call ends: nobody settles its reservation from here on.
Leave(c) ==
  /\ Go(c, "idle")
  /\ sequence' = [sequence EXCEPT ![c] = 0]
  /\ retries' = [retries EXCEPT ![c] = 0]

Incr(c) ==
  /\ at[c] = "idle" /\ counter < MaxSequence
  /\ counter' = counter + 1
  /\ sequence' = [sequence EXCEPT ![c] = counter + 1]
  /\ Go(c, "reserving")
  /\ UNCHANGED <<reservation, retries, used>>

\* INCR ran and its answer was lost: reserve() throws.
IncrThrows(c) ==
  /\ at[c] = "idle" /\ counter < MaxSequence
  /\ counter' = counter + 1
  /\ Leave(c)
  /\ UNCHANGED <<reservation, used>>

SetReservation(c) ==
  /\ at[c] = "reserving"
  /\ reservation' = [reservation EXCEPT ![c] = sequence[c]]
  /\ Go(c, "working")
  /\ UNCHANGED <<counter, sequence, retries, used>>

\* SET failed, or ran without an answer: reserve() throws, outside the `try`.
SetThrows(c) ==
  /\ at[c] = "reserving"
  /\ \E key \in {reservation[c], sequence[c]} :
       reservation' = [reservation EXCEPT ![c] = key]
  /\ Leave(c)
  /\ UNCHANGED <<counter, used>>

FnReturns(c) ==
  /\ at[c] = "working"
  /\ used' = used \cup {sequence[c]}
  /\ Go(c, "committing")
  /\ UNCHANGED <<counter, reservation, sequence, retries>>

\* The function threw; txBAD_SEQ is tried again while retries are left.
FnThrows(c) ==
  /\ at[c] = "working"
  /\ \/ Go(c, "rollingBack")
     \/ retries[c] < SeqRetries /\ Go(c, "retrying")
  /\ UNCHANGED <<counter, reservation, sequence, retries, used>>

\* DEL; one that fails is ignored, and the key left to its TTL.
Commit(c) ==
  /\ at[c] = "committing"
  /\ \E key \in {0, reservation[c]} : reservation' = [reservation EXCEPT ![c] = key]
  /\ Leave(c)
  /\ UNCHANGED <<counter, used>>

\* The script without the comparison with the counter.
ReleaseAlways(c) ==
  IF reservation[c] = 0
  THEN UNCHANGED <<counter, reservation>>
  ELSE /\ reservation' = [reservation EXCEPT ![c] = 0]
       /\ counter' = counter - 1

\* The script: the number goes back only if it is still the latest.
Release(c) ==
  IF reservation[c] = 0
  THEN UNCHANGED <<counter, reservation>>
  ELSE /\ reservation' = [reservation EXCEPT ![c] = 0]
       /\ counter' = IF counter = reservation[c] THEN counter - 1 ELSE counter

\* A script that fails is ignored.
Rollback(c) ==
  /\ at[c] \in {"rollingBack", "retrying"}
  /\ Release(c) \/ UNCHANGED <<counter, reservation>>
  /\ IF at[c] = "retrying"
     THEN /\ Go(c, "idle")
          /\ sequence' = [sequence EXCEPT ![c] = 0]
          /\ retries' = [retries EXCEPT ![c] = @ + 1]
     ELSE Leave(c)
  /\ UNCHANGED used

Expire(c) ==
  /\ reservation[c] # 0
  /\ reservation' = [reservation EXCEPT ![c] = 0]
  /\ UNCHANGED <<counter, at, sequence, retries, used>>

\* The process of the caller ends.
Die(c) ==
  /\ at[c] # "idle"
  /\ Leave(c)
  /\ UNCHANGED <<counter, reservation, used>>

SequenceStep(c) ==
  \/ Incr(c) \/ IncrThrows(c) \/ SetReservation(c) \/ SetThrows(c)
  \/ FnReturns(c) \/ FnThrows(c) \/ Commit(c) \/ Rollback(c)
  \/ Expire(c) \/ Die(c)

SequenceNext == \E c \in Caller : SequenceStep(c)
SequenceSpec == SequenceInit /\ [][SequenceNext]_sequenceVars

\* Whoever fails, dies or lets its reservation expire: a number that a call holds
\* is held by no other call, and was not used before, so that two transactions
\* that were both built never carry one number.
OneReservationPerSequence ==
  \A c \in Caller : at[c] \in Holding =>
    /\ \A d \in Caller \ {c} : at[d] \in Holding => sequence[d] # sequence[c]
    /\ at[c] # "committing" => sequence[c] \notin used

=============================================================================
