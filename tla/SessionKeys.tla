----------------------------- MODULE SessionKeys -----------------------------
(***************************************************************************)
(* contracts/session-keys: keys that owners delegate to, each looked up by *)
(* a reverse index that knows one owner of a key.  A call that panics is   *)
(* undone; one that is refused changes nothing; neither is a step.         *)
(***************************************************************************)
EXTENDS LedgerClock

CONSTANTS
  Owner,
  SessionKey,
  SessionCall,  \* what a key may do: a contract and one of its methods
  ValidUntil,   \* the expiries owners ask for
  Quota,        \* the cumulative amounts they allow
  CallAmount,   \* the amounts of calls, which nothing keeps from being negative
  I128Max,      \* the largest i128
  MaxCharged,   \* bound: how far the accepted calls of one session add up
  NoOwner, NoSession

ASSUME SessionAssumption ==
  /\ I128Max \in Nat /\ MaxCharged \in Nat /\ Quota \subseteq 0..I128Max /\ CallAmount \subseteq -I128Max..I128Max
  /\ ValidUntil \subseteq Nat /\ NoOwner \notin Owner

VARIABLES
  session,     \* DataKey::Session, by <<owner, session key>>
  ownerIndex,  \* DataKey::OwnerIndex
  charged      \* history: the sum of the calls accepted for each owner and key
               \* not revoked since

sessionVars == <<session, ownerIndex, charged>>

Session == [validUntil : ValidUntil, allowed : SUBSET SessionCall, quota : Quota, spent : Int]

ASSUME AbsentIsNoSession == NoSession \notin Session

SessionTypeOK ==
  /\ session \in [Owner \X SessionKey -> Session \cup {NoSession}]
  /\ ownerIndex \in [SessionKey -> Owner \cup {NoOwner}]
  /\ charged \in [Owner \X SessionKey -> Int]

SessionInit ==
  /\ session = [p \in Owner \X SessionKey |-> NoSession]
  /\ ownerIndex = [k \in SessionKey |-> NoOwner]
  /\ charged = [p \in Owner \X SessionKey |-> 0]

RegisterSessionKey(o, k, until, calls, quota) ==
  /\ session[<<o, k>>] = NoSession
  /\ session' = [session EXCEPT ![<<o, k>>] =
       [validUntil |-> until, allowed |-> calls, quota |-> quota, spent |-> 0]]
  /\ ownerIndex' = [ownerIndex EXCEPT ![k] = o]
  /\ UNCHANGED charged

\* A revoke that leaves the index alone.
RevokeSessionKeyOwnIndex(o, k) ==
  /\ session[<<o, k>>] # NoSession
  /\ session' = [session EXCEPT ![<<o, k>>] = NoSession]
  /\ UNCHANGED <<ownerIndex, charged>>

RevokeSessionKey(o, k) ==
  /\ session[<<o, k>>] # NoSession
  /\ session' = [session EXCEPT ![<<o, k>>] = NoSession]
  /\ ownerIndex' = [ownerIndex EXCEPT ![k] = NoOwner]
  /\ charged' = [charged EXCEPT ![<<o, k>>] = 0]

\* saturating_add()
Saturated(x) == IF x > I128Max THEN I128Max ELSE IF x < -I128Max - 1 THEN -I128Max - 1 ELSE x

\* The call answers true.
ValidateSessionCall(k, call, amount) ==
  /\ ownerIndex[k] # NoOwner
  /\ LET p == <<ownerIndex[k], k>>
         spent == Saturated(session[p].spent + amount)
     IN /\ session[p] # NoSession
        /\ now <= session[p].validUntil
        /\ call \in session[p].allowed
        /\ spent <= session[p].quota
        /\ charged[p] + amount \in -MaxCharged..MaxCharged
        /\ session' = [session EXCEPT ![p].spent = spent]
        /\ charged' = [charged EXCEPT ![p] = @ + amount]
  /\ UNCHANGED ownerIndex

SessionNext ==
  \E k \in SessionKey :
    \/ \E o \in Owner :
         \/ \E until \in ValidUntil, calls \in SUBSET SessionCall, quota \in Quota :
              RegisterSessionKey(o, k, until, calls, quota)
         \/ RevokeSessionKey(o, k)
    \/ \E call \in SessionCall, amount \in CallAmount : ValidateSessionCall(k, call, amount)

---------------------------------------------------------------------------
(* Properties *)

\* However many owners register and revoke one key: a key that is looked up
\* leads to a session its owner has not revoked, and what was accepted for an
\* owner since they registered the key is within a quota below the largest i128,
\* although the sum may go down again and saturates.
SessionOfItsOwner ==
  /\ \A k \in SessionKey :
       ownerIndex[k] # NoOwner => session[<<ownerIndex[k], k>>] # NoSession
  /\ \A p \in Owner \X SessionKey :
       session[p] # NoSession =>
         session[p].quota = I128Max \/ charged[p] <= session[p].quota

=============================================================================
