----------------------------- MODULE LedgerClock -----------------------------
(* The ledger's timestamp, and u64 arithmetic on it.                          *)
EXTENDS Integers

CONSTANTS
  U64Max,  \* the largest u64
  LastNow  \* bound: the latest timestamp of a behaviour

\* No ledger closes at the largest timestamp a u64 can hold.
ASSUME ClockAssumption == LastNow \in Nat /\ U64Max \in Nat /\ LastNow < U64Max

VARIABLE now  \* env.ledger().timestamp()

SaturatingAdd(a, b) == IF a + b > U64Max THEN U64Max ELSE a + b
SaturatingSub(a, b) == IF a < b THEN 0 ELSE a - b

LedgerCloses == now < LastNow /\ now' = now + 1

=============================================================================
