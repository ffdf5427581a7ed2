------------------------------- MODULE Custody -------------------------------
(***************************************************************************)
(* What a contract that holds other people's tokens promises, whatever its *)
(* rules of release are: it never pays out of an item more than it holds   *)
(* for it.  Escrow and PaymentStreaming implement it.                      *)
(***************************************************************************)
EXTENDS Integers

CONSTANTS
  Item,    \* what tokens are held for: an escrow, a stream
  Largest  \* the largest amount one deposit may bring

VARIABLES
  held,      \* tokens now held for each item
  received,  \* tokens ever received for it
  paid       \* tokens ever paid out of it

custodyVars == <<held, received, paid>>

CustodyInit ==
  /\ held = [i \in Item |-> 0]
  /\ received = [i \in Item |-> 0]
  /\ paid = [i \in Item |-> 0]

Fund(i, x) ==
  /\ held' = [held EXCEPT ![i] = @ + x]
  /\ received' = [received EXCEPT ![i] = @ + x]
  /\ UNCHANGED paid

Pay(i, x) ==
  /\ held' = [held EXCEPT ![i] = @ - x]
  /\ paid' = [paid EXCEPT ![i] = @ + x]
  /\ UNCHANGED received

CustodyNext ==
  \E i \in Item :
    \/ \E x \in 1..Largest : Fund(i, x)
    \/ \E x \in 1..held[i] : Pay(i, x)

CustodySpec == CustodyInit /\ [][CustodyNext]_custodyVars

\* Every token received for an item is still held for it or was paid out of it.
Balanced == \A i \in Item : received[i] = held[i] + paid[i]

CustodyTypeOK ==
  /\ held \in [Item -> Nat]
  /\ received \in [Item -> Nat]
  /\ paid \in [Item -> Nat]

=============================================================================
