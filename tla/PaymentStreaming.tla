-------------------------- MODULE PaymentStreaming --------------------------
(***************************************************************************)
(* The payment streaming contract (contracts/payment-streaming/src/lib.rs) *)
(* over the token it holds.  Time is the ledger's timestamp.               *)
(***************************************************************************)
EXTENDS Token

CONSTANTS
  StreamContract,  \* the contract's own address
  Rate,            \* the rates per second a sender may ask for
  MaxStreams       \* bound: streams created in a behaviour

ASSUME StreamAssumption ==
  /\ StreamContract \in Address \ User
  /\ Rate \subseteq Int
  /\ MaxStreams \in Nat

StreamId == 0..(MaxStreams - 1)

VARIABLES
  streams,     \* DataKey::Stream(id)
  nextStream,  \* DataKey::NextId
  funded,      \* history: tokens the contract received for each stream
  streamed,    \* history: tokens it sent to the recipient
  refunded,    \* history: tokens it sent back to the sender
  earned       \* history: rate times the seconds the stream was active

streamHistory == <<funded, streamed, refunded, earned>>
streamVars == <<streams, nextStream, streamHistory>>

Stream == [sender : User, recipient : Address, deposit : Nat, rate : Nat, start : Nat,
           withdrawn : Nat, state : {"active", "paused", "cancelled", "completed"},
           paused : Nat]
NoStream == [deposit |-> 0, state |-> "none"]

Live(s) == s.state \in {"active", "paused"}

StreamTypeOK ==
  /\ streams \in [StreamId -> Stream \cup {NoStream}]
  /\ nextStream \in 0..MaxStreams
  /\ funded \in [StreamId -> Nat] /\ streamed \in [StreamId -> Nat]
  /\ refunded \in [StreamId -> Nat] /\ earned \in [StreamId -> Nat]
  /\ \A i \in StreamId : streams[i] = NoStream <=> i >= nextStream
  /\ \A i \in StreamId : Live(streams[i]) <=> streams[i].deposit > 0

StreamInit ==
  /\ streams = [i \in StreamId |-> NoStream]
  /\ nextStream = 0
  /\ funded = [i \in StreamId |-> 0]
  /\ streamed = [i \in StreamId |-> 0]
  /\ refunded = [i \in StreamId |-> 0]
  /\ earned = [i \in StreamId |-> 0]

---------------------------------------------------------------------------
(* accrued_amount *)

\* elapsed * rate_per_second, for a stream that is accruing.
Uncapped(s) == (now - s.start) * s.rate

\* The multiplication overflows: the call that asks for the amount panics.
Overflows(s) == s.state = "active" /\ Uncapped(s) > I128Max

\* Mutant of Accrued: the cap at the deposit is forgotten.
AccruedUncapped(s) ==
  IF s.state # "active" \/ now <= s.start THEN 0 ELSE Uncapped(s)

Accrued(s) ==
  IF s.state # "active" \/ now <= s.start THEN 0
  ELSE IF Uncapped(s) > s.deposit THEN s.deposit ELSE Uncapped(s)

---------------------------------------------------------------------------
(* Sender operations. *)

CreateStream(sender, recipient, deposit, rate) ==
  /\ nextStream < MaxStreams
  /\ deposit > 0 /\ rate > 0
  /\ Transfer(sender, StreamContract, deposit)
  /\ streams' = [streams EXCEPT ![nextStream] =
       [sender |-> sender, recipient |-> recipient, deposit |-> deposit, rate |-> rate,
        start |-> now, withdrawn |-> 0, state |-> "active", paused |-> 0]]
  /\ nextStream' = nextStream + 1
  /\ funded' = [funded EXCEPT ![nextStream] = @ + deposit]
  /\ UNCHANGED <<streamed, refunded, earned>>

TopUp(i, amount) ==
  LET s == streams[i]
  IN /\ Live(s)
     /\ amount > 0
     /\ Transfer(s.sender, StreamContract, amount)
     /\ streams' = [streams EXCEPT ![i].deposit = @ + amount]
     /\ funded' = [funded EXCEPT ![i] = @ + amount]
     /\ UNCHANGED <<nextStream, streamed, refunded, earned>>

Pause(i) ==
  /\ streams[i].state = "active"
  /\ streams' = [streams EXCEPT ![i].start = now, ![i].paused = now, ![i].state = "paused"]
  /\ UNCHANGED <<tokenVars, nextStream, streamHistory>>

\* Mutant of Resume: start_time stays at the pause.
ResumeKeepingStart(i) ==
  /\ streams[i].state = "paused"
  /\ streams' = [streams EXCEPT ![i].paused = 0, ![i].state = "active"]
  /\ UNCHANGED <<tokenVars, nextStream, streamHistory>>

Resume(i) ==
  /\ streams[i].state = "paused"
  /\ streams' = [streams EXCEPT ![i].start = now, ![i].paused = 0, ![i].state = "active"]
  /\ UNCHANGED <<tokenVars, nextStream, streamHistory>>

\* Two transfers, each made only when its amount is positive; both succeed or
\* the call reverts.
Payout(s, accrued, refund) ==
  LET paidBalance == IF accrued > 0 THEN Moved(balance, StreamContract, s.recipient, accrued)
                                    ELSE balance
  IN /\ accrued > 0 => CanTransfer(StreamContract, s.recipient, accrued)
     /\ refund > 0 => /\ StreamContract \notin frozen /\ s.sender \notin frozen
                      /\ paidBalance[StreamContract] >= refund
     /\ balance' = IF refund > 0 THEN Moved(paidBalance, StreamContract, s.sender, refund)
                                 ELSE paidBalance
     /\ UNCHANGED <<admin, supply, frozen, allowance>>

Cancel(i) ==
  LET s == streams[i]
      accrued == Accrued(s)
      refund == s.deposit - accrued
  IN /\ Live(s)
     /\ ~Overflows(s)
     /\ Payout(s, accrued, refund)
     /\ streams' = [streams EXCEPT ![i].deposit = 0, ![i].state = "cancelled"]
     /\ streamed' = [streamed EXCEPT ![i] = @ + accrued]
     /\ refunded' = [refunded EXCEPT ![i] = @ + refund]
     /\ UNCHANGED <<nextStream, funded, earned>>

---------------------------------------------------------------------------
(* Recipient operation.  Nothing accrues outside "active", so withdraw()   *)
(* returns NothingToWithdraw in every other state.                         *)

Withdraw(i) ==
  LET s == streams[i]
      amount == Accrued(s)
  IN /\ Live(s)
     /\ ~Overflows(s)
     /\ amount # 0
     /\ s.withdrawn + amount <= I128Max
     /\ Transfer(StreamContract, s.recipient, amount)
     /\ streams' = [streams EXCEPT ![i] =
          [s EXCEPT !.deposit = @ - amount, !.withdrawn = @ + amount, !.start = now,
                    !.state = IF s.deposit = amount THEN "completed" ELSE @]]
     /\ streamed' = [streamed EXCEPT ![i] = @ + amount]
     /\ UNCHANGED <<nextStream, funded, refunded, earned>>

\* A second of ledger time: every active stream earns its rate.
StreamTick ==
  /\ Tick
  /\ earned' = [i \in StreamId |->
                  IF streams[i].state = "active" THEN earned[i] + streams[i].rate ELSE earned[i]]
  /\ UNCHANGED <<tokenVars, streams, nextStream, funded, streamed, refunded>>

StreamNext ==
  /\ UNCHANGED now
  /\ \/ \E u \in User, r \in Recipient, x \in Amount, rate \in Rate : CreateStream(u, r, x, rate)
     \/ \E i \in StreamId :
          \/ \E x \in Amount : TopUp(i, x)
          \/ Pause(i) \/ Resume(i) \/ Cancel(i) \/ Withdraw(i)

=============================================================================
