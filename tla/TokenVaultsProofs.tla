-------------------------- MODULE TokenVaultsProofs --------------------------
(***************************************************************************)
(* What the token and the two contracts that hold it promise, for every    *)
(* number of users, escrows and streams and every amount.                  *)
(***************************************************************************)
EXTENDS TokenVaults, FoldTheorems, TLAPS

---------------------------------------------------------------------------
(* The token. *)

LEMMA MovedType ==
  ASSUME NEW bal \in [Address -> Nat], NEW from \in Address, NEW to \in Address,
         NEW amount \in Nat, amount <= bal[from]
  PROVE  Moved(bal, from, to, amount) \in [Address -> Nat]
BY DEF Moved

\* Nobody but the sender loses by a transfer.
LEMMA MovedKeeps ==
  ASSUME NEW bal \in [Address -> Nat], NEW from \in Address, NEW to \in Address,
         NEW amount \in Nat, NEW a \in Address, a # from
  PROVE  Moved(bal, from, to, amount)[a] >= bal[a]
BY DEF Moved

LEMMA TransferType ==
  ASSUME TokenTypeOK, NEW from \in Address, NEW to \in Address, NEW amount \in Int,
         Transfer(from, to, amount), UNCHANGED now
  PROVE  TokenTypeOK'
<1>1. amount \in Nat /\ amount <= balance[from]
  BY DEF Transfer, DoTransfer, CanTransfer, TokenTypeOK
<1>2. balance' \in [Address -> Nat]
  BY <1>1, MovedType DEF Transfer, DoTransfer, TokenTypeOK
<1> QED BY <1>2 DEF Transfer, DoTransfer, TokenTypeOK

LEMMA SpendType ==
  ASSUME TokenTypeOK, NEW from \in User, NEW spender \in Spender, NEW amount \in Nat,
         SpendAllowance(from, spender, amount)
  PROVE  allowance' \in [User \X Spender -> Allowance]
<1>1. allowance[<<from, spender>>] \in Allowance
  BY DEF TokenTypeOK
<1>2. allowance[<<from, spender>>].amount - amount \in 0..I128Max
  BY <1>1, TokenAssumption DEF SpendAllowance, Allowance
<1> QED BY <1>1, <1>2 DEF SpendAllowance, TokenTypeOK, Allowance

LEMMA BurnType ==
  ASSUME TokenTypeOK, NEW from \in Address, NEW amount \in Int, DoBurn(from, amount)
  PROVE  /\ balance' \in [Address -> Nat]
         /\ supply' \in Int /\ supply' <= I128Max
         /\ UNCHANGED <<admin, frozen>>
<1>1. amount \in Nat /\ amount <= balance[from]
  BY DEF DoBurn, TokenTypeOK
<1> QED BY <1>1, TokenAssumption DEF DoBurn, TokenTypeOK

LEMMA TokenStepType ==
  ASSUME TokenTypeOK, TokenNext
  PROVE  TokenTypeOK'
<1> USE TokenAssumption
<1>1. ASSUME NEW a \in Issuer, Initialize(a) PROVE TokenTypeOK'
  BY <1>1 DEF TokenNext, Initialize, TokenTypeOK
<1>2. ASSUME NEW a \in Address, NEW authorize \in BOOLEAN, SetAuthorized(a, authorize)
      PROVE TokenTypeOK'
  <2>1. frozen' \subseteq Address
    BY <1>2 DEF SetAuthorized, TokenTypeOK
  <2> QED BY <1>2, <2>1 DEF TokenNext, SetAuthorized, TokenTypeOK
<1>3. ASSUME NEW u \in User, NEW to \in Address, NEW x \in Amount, Transfer(u, to, x)
      PROVE TokenTypeOK'
  BY <1>3, TransferType DEF TokenNext
<1>4. ASSUME NEW s \in Spender, NEW u \in User, NEW to \in Address, NEW x \in Amount,
             TransferFrom(s, u, to, x)
      PROVE TokenTypeOK'
  <2>1. x \in Nat /\ x <= balance[u]
    BY <1>4 DEF TransferFrom, DoTransfer, CanTransfer, TokenTypeOK
  <2>2. balance' \in [Address -> Nat]
    BY <1>4, <2>1, MovedType DEF TransferFrom, DoTransfer, TokenTypeOK
  <2>3. allowance' \in [User \X Spender -> Allowance]
    BY <1>4, <2>1, SpendType DEF TransferFrom
  <2> QED BY <1>4, <2>2, <2>3 DEF TokenNext, TransferFrom, DoTransfer, TokenTypeOK
<1>5. ASSUME NEW u \in User, NEW x \in Amount, Burn(u, x) PROVE TokenTypeOK'
  <2>1. DoBurn(u, x) /\ UNCHANGED allowance
    BY <1>5 DEF Burn
  <2> QED BY <2>1, BurnType DEF TokenNext, TokenTypeOK
<1>6. ASSUME NEW s \in Spender, NEW u \in User, NEW x \in Amount, BurnFrom(s, u, x)
      PROVE TokenTypeOK'
  <2>1. SpendAllowance(u, s, x) /\ DoBurn(u, x)
    BY <1>6 DEF BurnFrom
  <2>2. x \in Nat
    BY <2>1 DEF DoBurn
  <2>3. allowance' \in [User \X Spender -> Allowance]
    BY <2>1, <2>2, SpendType
  <2> QED BY <2>1, <2>3, BurnType DEF TokenNext, TokenTypeOK
<1>7. ASSUME NEW s \in Spender, NEW u \in User, NEW x \in Amount, NEW e \in Expiration,
             Approve(u, s, x, e)
      PROVE TokenTypeOK'
  <2>1. [amount |-> x, expires |-> e] \in Allowance
    BY <1>7 DEF Approve, Allowance
  <2> QED BY <1>7, <2>1 DEF TokenNext, Approve, TokenTypeOK
<1>8. ASSUME NEW to \in Address, NEW x \in Amount, Mint(to, x) PROVE TokenTypeOK'
  BY <1>8 DEF TokenNext, Mint, TokenTypeOK
<1> QED BY <1>1, <1>2, <1>3, <1>4, <1>5, <1>6, <1>7, <1>8 DEF TokenNext

---------------------------------------------------------------------------
(* The escrow contract: every step is a record of it going to its next     *)
(* state, with the transfer that belongs to it.                            *)

EscrowInv == TokenTypeOK /\ EscrowTypeOK

LEMMA OpenEscrow ==
  ASSUME EscrowTypeOK, NEW i \in EscrowId, escrows[i].state # "none"
  PROVE  escrows[i] \in EscrowRecord
BY DEF EscrowTypeOK, NoEscrow

LEMMA PayoutType ==
  ASSUME EscrowInv, NEW i \in EscrowId, Open(escrows[i]), UNCHANGED now,
         PayRecipient(i) \/ PayDepositor(i)
  PROVE  EscrowInv'
<1>1. escrows[i] \in EscrowRecord
  BY OpenEscrow DEF Open, EscrowInv
<1>2. TokenTypeOK'
  <2>1. /\ escrows[i].recipient \in Address
        /\ escrows[i].depositor \in Address
        /\ escrows[i].amount \in Int
        /\ EscrowContract \in Address
    BY <1>1, TokenAssumption, EscrowAssumption DEF EscrowRecord
  <2> QED BY <2>1, TransferType DEF EscrowInv, PayRecipient, PayDepositor
<1>3. escrows' \in [EscrowId -> EscrowRecord \cup {NoEscrow}]
  BY <1>1 DEF PayRecipient, PayDepositor, EscrowInv, EscrowTypeOK, EscrowRecord
<1>4. toRecipient' \in [EscrowId -> Nat] /\ toDepositor' \in [EscrowId -> Nat]
  BY <1>1 DEF PayRecipient, PayDepositor, EscrowInv, EscrowTypeOK, EscrowRecord
<1>5. escrows'[i].state # "none" /\ \A j \in EscrowId \ {i} : escrows'[j] = escrows[j]
  BY <1>1 DEF PayRecipient, PayDepositor, EscrowInv, EscrowTypeOK, EscrowRecord
<1>6. \A j \in EscrowId : escrows'[j] = NoEscrow <=> j >= nextEscrow'
  BY <1>1, <1>5 DEF PayRecipient, PayDepositor, EscrowInv, EscrowTypeOK, EscrowRecord, NoEscrow, Open
<1> QED BY <1>2, <1>3, <1>4, <1>6
        DEF PayRecipient, PayDepositor, EscrowInv, EscrowTypeOK

LEMMA EscrowStepType == ASSUME EscrowInv, EscrowNext PROVE EscrowInv'
<1>1. ASSUME NEW d \in User, NEW b \in User, NEW r \in Recipient, NEW x \in Amount,
             NEW t \in Deadline, EscrowDeposit(d, r, b, x, t)
      PROVE EscrowInv'
  <2> DEFINE e == [depositor |-> d, recipient |-> r, arbiter |-> b,
                   amount |-> x, deadline |-> t, state |-> "deposited"]
  <2>1. nextEscrow \in EscrowId /\ nextEscrow' = nextEscrow + 1
    BY <1>1, EscrowAssumption DEF EscrowDeposit, EscrowInv, EscrowTypeOK, EscrowId
  <2>2. e \in EscrowRecord
    BY <1>1, TokenAssumption, EscrowAssumption DEF EscrowDeposit, EscrowRecord
  <2>3. escrows' = [escrows EXCEPT ![nextEscrow] = e]
    BY <1>1 DEF EscrowDeposit
  <2> HIDE DEF e
  <2>4. e # NoEscrow
    BY <2>2 DEF EscrowRecord, NoEscrow
  <2>5. TokenTypeOK'
    BY <1>1, TransferType, TokenAssumption, EscrowAssumption
       DEF EscrowInv, EscrowDeposit, EscrowNext
  <2>6. \A j \in EscrowId : escrows'[j] = NoEscrow <=> j >= nextEscrow'
    BY <2>1, <2>3, <2>4, EscrowAssumption DEF EscrowInv, EscrowTypeOK, EscrowId
  <2> QED BY <1>1, <2>1, <2>2, <2>3, <2>5, <2>6, EscrowAssumption
          DEF EscrowInv, EscrowTypeOK, EscrowDeposit, EscrowId
<1>2. ASSUME NEW i \in EscrowId, NEW u \in User, Release(i, u) \/ Refund(i, u)
      PROVE EscrowInv'
  BY <1>2, PayoutType DEF Release, Refund, Open, EscrowNext
<1>3. ASSUME NEW i \in EscrowId, NEW u \in User, NEW toRec \in BOOLEAN, Arbitrate(i, u, toRec)
      PROVE EscrowInv'
  BY <1>3, PayoutType DEF Arbitrate, Open, EscrowNext
<1>4. ASSUME NEW i \in EscrowId, NEW u \in User, RaiseDispute(i, u) PROVE EscrowInv'
  <2>1. escrows[i] \in EscrowRecord
    BY <1>4, OpenEscrow DEF RaiseDispute, EscrowInv
  <2>2. escrows' \in [EscrowId -> EscrowRecord \cup {NoEscrow}]
    BY <1>4, <2>1 DEF RaiseDispute, EscrowInv, EscrowTypeOK, EscrowRecord
  <2>3. \A j \in EscrowId : escrows'[j] = NoEscrow <=> j >= nextEscrow
    BY <1>4, <2>1 DEF RaiseDispute, EscrowInv, EscrowTypeOK, EscrowRecord, NoEscrow
  <2> QED BY <1>4, <2>2, <2>3
          DEF RaiseDispute, EscrowInv, EscrowTypeOK, TokenTypeOK, tokenVars, EscrowNext
<1> QED BY <1>1, <1>2, <1>3, <1>4 DEF EscrowNext

---------------------------------------------------------------------------
(* The streaming contract. *)

StreamInv == TokenTypeOK /\ StreamTypeOK

LEMMA LiveStream ==
  ASSUME StreamTypeOK, NEW i \in StreamId, Live(streams[i])
  PROVE  /\ streams[i] \in Stream
         /\ streams[i].deposit > 0
BY DEF StreamTypeOK, NoStream, Live

\* accrued_amount() is between nothing and what the stream holds.
LEMMA AccruedBounds ==
  ASSUME TokenTypeOK, NEW s \in Stream
  PROVE  /\ Accrued(s) \in Nat
         /\ Accrued(s) <= s.deposit
         /\ s.state # "active" => Accrued(s) = 0
         /\ s.state = "active" /\ now > s.start => Accrued(s) <= Uncapped(s)
<1>1. s.deposit \in Nat /\ s.rate \in Nat /\ s.start \in Nat /\ now \in Nat
  BY TokenAssumption DEF Stream, TokenTypeOK
<1>2. CASE s.state # "active" \/ now <= s.start
  BY <1>1, <1>2 DEF Accrued
<1>3. CASE ~(s.state # "active" \/ now <= s.start)
  <2>1. now - s.start \in Nat
    BY <1>1, <1>3
  <2>2. Uncapped(s) \in Nat
    BY <1>1, <2>1 DEF Uncapped
  <2>3. Accrued(s) = IF Uncapped(s) > s.deposit THEN s.deposit ELSE Uncapped(s)
    BY <1>3 DEF Accrued
  <2> QED BY <1>1, <1>3, <2>2, <2>3
<1> QED BY <1>2, <1>3

LEMMA PayoutBalances ==
  ASSUME TokenTypeOK, NEW s \in Stream, NEW accrued \in Nat, NEW refund \in Nat,
         Payout(s, accrued, refund), UNCHANGED now
  PROVE  /\ TokenTypeOK'
         /\ \A a \in Address : a \in frozen => balance'[a] >= balance[a]
<1> DEFINE mid == IF accrued > 0 THEN Moved(balance, StreamContract, s.recipient, accrued)
                                  ELSE balance
<1>1. StreamContract \in Address /\ s.recipient \in Address /\ s.sender \in Address
  BY StreamAssumption, TokenAssumption DEF Stream
<1>2. accrued > 0 => accrued <= balance[StreamContract] /\ StreamContract \notin frozen
  BY DEF Payout, CanTransfer
<1>3. mid \in [Address -> Nat]
  BY <1>1, <1>2, MovedType DEF TokenTypeOK
<1>4. \A a \in Address : a \in frozen => mid[a] >= balance[a]
  <2> SUFFICES ASSUME NEW a \in Address, a \in frozen PROVE mid[a] >= balance[a]
    OBVIOUS
  <2>1. balance[a] \in Nat /\ balance \in [Address -> Nat]
    BY DEF TokenTypeOK
  <2>2. CASE accrued > 0
    <3>1. a # StreamContract /\ accrued <= balance[StreamContract]
      BY <1>2, <2>2
    <3>2. Moved(balance, StreamContract, s.recipient, accrued)[a] >= balance[a]
      BY <1>1, <2>1, <3>1, MovedKeeps
    <3> QED BY <2>2, <3>2
  <2> QED BY <2>1, <2>2
<1>5. refund > 0 => refund <= mid[StreamContract] /\ StreamContract \notin frozen
  BY DEF Payout
<1>6. balance' = IF refund > 0 THEN Moved(mid, StreamContract, s.sender, refund)
                               ELSE mid
  BY DEF Payout
<1> HIDE DEF mid
<1>7. balance' \in [Address -> Nat]
  BY <1>1, <1>3, <1>5, <1>6, MovedType
<1>8. \A a \in Address : a \in frozen => balance'[a] >= mid[a]
  BY <1>1, <1>3, <1>5, <1>6, MovedKeeps
<1>9. \A a \in Address : a \in frozen => balance'[a] >= balance[a]
  BY <1>3, <1>4, <1>7, <1>8 DEF TokenTypeOK
<1>10. TokenTypeOK'
  BY <1>7 DEF Payout, TokenTypeOK
<1> QED BY <1>9, <1>10

LEMMA StreamStepType == ASSUME StreamInv, StreamNext PROVE StreamInv'
<1> USE StreamAssumption
<1>1. ASSUME NEW u \in User, NEW r \in Recipient, NEW x \in Amount, NEW rate \in Rate,
             CreateStream(u, r, x, rate)
      PROVE StreamInv'
  <2> DEFINE s == [sender |-> u, recipient |-> r, deposit |-> x, rate |-> rate,
                   start |-> now, withdrawn |-> 0, state |-> "active", paused |-> 0]
  <2>1. nextStream \in StreamId /\ nextStream' = nextStream + 1
    BY <1>1 DEF CreateStream, StreamInv, StreamTypeOK, StreamId
  <2>2. s \in Stream
    BY <1>1, TokenAssumption DEF CreateStream, Stream, StreamInv, TokenTypeOK
  <2>3. s.state = "active" /\ s.deposit > 0
    BY <1>1 DEF CreateStream
  <2>4. streams' = [streams EXCEPT ![nextStream] = s]
    BY <1>1 DEF CreateStream
  <2> HIDE DEF s
  <2>5. s # NoStream
    BY <2>3 DEF NoStream
  <2>6. TokenTypeOK'
    BY <1>1, TransferType, TokenAssumption DEF StreamInv, CreateStream, StreamNext
  <2>7. \A j \in StreamId : streams'[j] = NoStream <=> j >= nextStream'
    BY <2>1, <2>4, <2>5 DEF StreamInv, StreamTypeOK, StreamId
  <2>8. \A j \in StreamId : Live(streams'[j]) <=> streams'[j].deposit > 0
    BY <2>1, <2>3, <2>4 DEF StreamInv, StreamTypeOK, Live
  <2>9. funded' \in [StreamId -> Nat]
    BY <1>1, <2>1, TokenAssumption DEF CreateStream, StreamInv, StreamTypeOK
  <2> QED BY <1>1, <2>1, <2>2, <2>4, <2>6, <2>7, <2>8, <2>9
          DEF StreamInv, StreamTypeOK, CreateStream, StreamId
<1>2. ASSUME NEW i \in StreamId, NEW x \in Amount, TopUp(i, x) PROVE StreamInv'
  <2>1. streams[i] \in Stream /\ streams[i].deposit > 0 /\ Live(streams[i])
    BY <1>2, LiveStream DEF TopUp, StreamInv
  <2>2. x \in Nat /\ x > 0
    BY <1>2, TokenAssumption DEF TopUp
  <2>3. TokenTypeOK'
    BY <1>2, <2>1, <2>2, TransferType, TokenAssumption DEF StreamInv, TopUp, StreamNext, Stream
  <2>4. streams' \in [StreamId -> Stream \cup {NoStream}]
    BY <1>2, <2>1, <2>2 DEF TopUp, StreamInv, StreamTypeOK, Stream
  <2>5. /\ streams'[i].deposit > 0 /\ Live(streams'[i]) /\ streams'[i] # NoStream
        /\ \A j \in StreamId \ {i} : streams'[j] = streams[j]
    BY <1>2, <2>1, <2>2 DEF TopUp, StreamInv, StreamTypeOK, Stream, Live, NoStream
  <2>6. funded' \in [StreamId -> Nat]
    BY <1>2, <2>2 DEF TopUp, StreamInv, StreamTypeOK
  <2>7. /\ nextStream' = nextStream
        /\ \A j \in StreamId : streams'[j] = NoStream <=> j >= nextStream
    BY <1>2, <2>1, <2>5 DEF TopUp, StreamInv, StreamTypeOK, NoStream, Live
  <2>8. \A j \in StreamId : Live(streams'[j]) <=> streams'[j].deposit > 0
    BY <2>5 DEF StreamInv, StreamTypeOK
  <2> QED BY <1>2, <2>3, <2>4, <2>6, <2>7, <2>8 DEF TopUp, StreamInv, StreamTypeOK
<1>3. ASSUME NEW i \in StreamId, Pause(i) \/ Resume(i) PROVE StreamInv'
  <2>1. streams[i] \in Stream /\ streams[i].deposit > 0 /\ now \in Nat
    BY <1>3, LiveStream, TokenAssumption DEF Pause, Resume, StreamInv, Live, TokenTypeOK
  <2>2. streams' \in [StreamId -> Stream \cup {NoStream}]
    BY <1>3, <2>1 DEF Pause, Resume, StreamInv, StreamTypeOK, Stream
  <2>3. /\ streams'[i].deposit > 0 /\ Live(streams'[i]) /\ streams'[i] # NoStream
        /\ \A j \in StreamId \ {i} : streams'[j] = streams[j]
    BY <1>3, <2>1 DEF Pause, Resume, StreamInv, StreamTypeOK, Stream, Live, NoStream
  <2>4. \A j \in StreamId : streams'[j] = NoStream <=> j >= nextStream
    BY <1>3, <2>3 DEF Pause, Resume, StreamInv, StreamTypeOK, NoStream
  <2>5. \A j \in StreamId : Live(streams'[j]) <=> streams'[j].deposit > 0
    BY <2>3 DEF StreamInv, StreamTypeOK
  <2>6. UNCHANGED <<tokenVars, nextStream, streamHistory>> /\ UNCHANGED now
    BY <1>3 DEF Pause, Resume, StreamNext
  <2> QED BY <2>2, <2>4, <2>5, <2>6
          DEF StreamInv, StreamTypeOK, TokenTypeOK, tokenVars, streamHistory
<1>4. ASSUME NEW i \in StreamId, Cancel(i) PROVE StreamInv'
  <2>1. streams[i] \in Stream /\ streams[i].deposit > 0
    BY <1>4, LiveStream DEF Cancel, StreamInv
  <2>2. Accrued(streams[i]) \in Nat /\ streams[i].deposit - Accrued(streams[i]) \in Nat
    BY <2>1, AccruedBounds DEF StreamInv, Stream
  <2>3. TokenTypeOK'
    BY <1>4, <2>1, <2>2, PayoutBalances DEF Cancel, StreamInv, StreamNext
  <2>4. streams' \in [StreamId -> Stream \cup {NoStream}]
    BY <1>4, <2>1 DEF Cancel, StreamInv, StreamTypeOK, Stream
  <2>5. /\ streams'[i].deposit = 0 /\ ~Live(streams'[i]) /\ streams'[i] # NoStream
        /\ \A j \in StreamId \ {i} : streams'[j] = streams[j]
    BY <1>4, <2>1 DEF Cancel, StreamInv, StreamTypeOK, Stream, Live, NoStream
  <2>6. \A j \in StreamId : streams'[j] = NoStream <=> j >= nextStream
    BY <1>4, <2>1, <2>5 DEF Cancel, StreamInv, StreamTypeOK, NoStream, Live
  <2>7. \A j \in StreamId : Live(streams'[j]) <=> streams'[j].deposit > 0
    BY <2>5 DEF StreamInv, StreamTypeOK
  <2>8. streamed' \in [StreamId -> Nat] /\ refunded' \in [StreamId -> Nat]
    BY <1>4, <2>2 DEF Cancel, StreamInv, StreamTypeOK
  <2> QED BY <1>4, <2>3, <2>4, <2>6, <2>7, <2>8 DEF Cancel, StreamInv, StreamTypeOK
<1>5. ASSUME NEW i \in StreamId, Withdraw(i) PROVE StreamInv'
  <2> DEFINE x == Accrued(streams[i])
  <2>1. streams[i] \in Stream /\ streams[i].deposit > 0 /\ Live(streams[i])
    BY <1>5, LiveStream DEF Withdraw, StreamInv
  <2>2. x \in Nat /\ x <= streams[i].deposit /\ now \in Nat
    BY <2>1, AccruedBounds, TokenAssumption DEF StreamInv, TokenTypeOK
  <2>3. streams' = [streams EXCEPT ![i] =
          [streams[i] EXCEPT !.deposit = @ - x, !.withdrawn = @ + x, !.start = now,
             !.state = IF streams[i].deposit = x THEN "completed" ELSE @]]
    BY <1>5 DEF Withdraw
  <2>4. TokenTypeOK'
    <3>1. Transfer(StreamContract, streams[i].recipient, x)
      BY <1>5 DEF Withdraw
    <3>2. streams[i].recipient \in Address
      BY <2>1 DEF Stream
    <3> QED BY <2>2, <3>1, <3>2, TransferType DEF StreamInv, StreamNext
  <2>5. streamed' \in [StreamId -> Nat]
    BY <1>5, <2>2 DEF Withdraw, StreamInv, StreamTypeOK
  <2>6. UNCHANGED <<nextStream, funded, refunded, earned>>
    BY <1>5 DEF Withdraw
  <2> HIDE DEF x
  <2>7. streams' \in [StreamId -> Stream \cup {NoStream}]
    <3> DEFINE r == [streams[i] EXCEPT !.deposit = @ - x, !.withdrawn = @ + x, !.start = now,
                       !.state = IF streams[i].deposit = x THEN "completed" ELSE @]
    <3>1. streams[i].deposit - x \in Nat /\ streams[i].withdrawn + x \in Nat
      BY <2>1, <2>2 DEF Stream
    <3>2. r \in Stream
      BY <2>1, <2>2, <3>1 DEF Stream
    <3> QED BY <2>3, <3>2 DEF StreamInv, StreamTypeOK
  <2>8. /\ Live(streams'[i]) <=> streams'[i].deposit > 0
        /\ streams'[i].state # "none"
        /\ \A j \in StreamId \ {i} : streams'[j] = streams[j]
    BY <2>1, <2>2, <2>3 DEF StreamInv, StreamTypeOK, Stream, Live
  <2>9. \A j \in StreamId : streams'[j] = NoStream <=> j >= nextStream
    BY <2>1, <2>8 DEF StreamInv, StreamTypeOK, NoStream, Live
  <2>10. \A j \in StreamId : Live(streams'[j]) <=> streams'[j].deposit > 0
    BY <2>8 DEF StreamInv, StreamTypeOK
  <2> QED BY <2>4, <2>5, <2>6, <2>7, <2>9, <2>10 DEF StreamInv, StreamTypeOK
<1> QED BY <1>1, <1>2, <1>3, <1>4, <1>5 DEF StreamNext

LEMMA StreamTickType == ASSUME StreamInv, StreamTick PROVE StreamInv'
<1>1. earned' \in [StreamId -> Nat]
  <2>1. \A i \in StreamId : streams[i].state = "active" => streams[i].rate \in Nat
    BY DEF StreamInv, StreamTypeOK, Stream, NoStream
  <2>2. earned' = [i \in StreamId |->
                     IF streams[i].state = "active" THEN earned[i] + streams[i].rate ELSE earned[i]]
    BY DEF StreamTick
  <2> QED BY <2>1, <2>2 DEF StreamInv, StreamTypeOK
<1>2. now' \in 0..MaxTime
  BY TokenAssumption DEF StreamTick, Tick, StreamInv, TokenTypeOK
<1> QED BY <1>1, <1>2 DEF StreamTick, StreamInv, StreamTypeOK, TokenTypeOK, tokenVars

---------------------------------------------------------------------------

\* Balances never go negative, records keep their shape, and a stream is live
\* exactly as long as it holds tokens.
THEOREM VaultTypes == Spec => []VaultTypeOK
<1>1. Init => VaultTypeOK
  <2> SUFFICES ASSUME Init PROVE VaultTypeOK
    OBVIOUS
  <2>1. TokenTypeOK
    BY TokenAssumption DEF Init, TokenInit, TokenTypeOK, NoAllowance, Allowance
  <2>2. EscrowTypeOK
    BY EscrowAssumption DEF Init, EscrowInit, EscrowTypeOK, EscrowId
  <2>3. StreamTypeOK
    BY StreamAssumption DEF Init, StreamInit, StreamTypeOK, StreamId, NoStream, Live
  <2> QED BY <2>1, <2>2, <2>3 DEF VaultTypeOK
<1>2. VaultTypeOK /\ [Next]_vars => VaultTypeOK'
  <2> SUFFICES ASSUME VaultTypeOK, [Next]_vars PROVE VaultTypeOK'
    OBVIOUS
  <2>1. CASE TokenNext /\ UNCHANGED <<escrowVars, streamVars>>
    BY <2>1, TokenStepType
       DEF VaultTypeOK, escrowVars, streamVars, streamHistory, EscrowTypeOK, StreamTypeOK
  <2>2. CASE EscrowNext /\ UNCHANGED streamVars
    BY <2>2, EscrowStepType
       DEF VaultTypeOK, EscrowInv, streamVars, streamHistory, StreamTypeOK
  <2>3. CASE StreamNext /\ UNCHANGED escrowVars
    BY <2>3, StreamStepType DEF VaultTypeOK, StreamInv, escrowVars, EscrowTypeOK
  <2>4. CASE StreamTick /\ UNCHANGED escrowVars
    BY <2>4, StreamTickType DEF VaultTypeOK, StreamInv, escrowVars, EscrowTypeOK
  <2>5. CASE UNCHANGED vars
    BY <2>5 DEF vars, VaultTypeOK, TokenTypeOK, EscrowTypeOK, StreamTypeOK,
                tokenVars, escrowVars, streamVars, streamHistory
  <2> QED BY <2>1, <2>2, <2>3, <2>4, <2>5 DEF Next
<1> QED BY <1>1, <1>2, PTL DEF Spec

---------------------------------------------------------------------------
(* An escrow pays once. *)

LEMMA PaidOnceStep ==
  ASSUME EscrowInv, EscrowPaidOnce, EscrowNext
  PROVE  EscrowPaidOnce'
<1>1. ASSUME NEW d \in User, NEW b \in User, NEW r \in Recipient, NEW x \in Amount,
             NEW t \in Deadline, EscrowDeposit(d, r, b, x, t)
      PROVE EscrowPaidOnce'
  <2>1. nextEscrow \in EscrowId /\ escrows[nextEscrow].state = "none"
    BY <1>1, EscrowAssumption DEF EscrowDeposit, EscrowInv, EscrowTypeOK, EscrowId, NoEscrow
  <2>2. /\ escrows'[nextEscrow].state = "deposited"
        /\ \A j \in EscrowId \ {nextEscrow} : escrows'[j] = escrows[j]
        /\ UNCHANGED <<toRecipient, toDepositor>>
    BY <1>1, <2>1 DEF EscrowDeposit, EscrowInv, EscrowTypeOK
  <2> QED BY <2>1, <2>2 DEF EscrowPaidOnce
<1>2. ASSUME NEW i \in EscrowId, Open(escrows[i]), PayRecipient(i) \/ PayDepositor(i)
      PROVE EscrowPaidOnce'
  <2>1. /\ escrows[i] \in EscrowRecord
        /\ toRecipient[i] = 0 /\ toDepositor[i] = 0
    BY <1>2, OpenEscrow DEF Open, EscrowInv, EscrowPaidOnce
  <2>2. \A j \in EscrowId \ {i} : escrows'[j] = escrows[j] /\ toRecipient'[j] = toRecipient[j]
                                  /\ toDepositor'[j] = toDepositor[j]
    BY <1>2 DEF PayRecipient, PayDepositor, EscrowInv, EscrowTypeOK
  <2>3. escrows'[i].amount = escrows[i].amount /\ escrows[i].amount \in Nat
    BY <1>2, <2>1 DEF PayRecipient, PayDepositor, EscrowInv, EscrowTypeOK, EscrowRecord
  <2>4. CASE PayRecipient(i)
    <3>1. escrows'[i].state = "released" /\ toRecipient'[i] = escrows[i].amount /\ toDepositor'[i] = 0
      BY <2>1, <2>3, <2>4 DEF PayRecipient, EscrowInv, EscrowTypeOK, EscrowRecord
    <3> QED BY <2>2, <2>3, <3>1 DEF EscrowPaidOnce
  <2>5. CASE PayDepositor(i)
    <3>1. escrows'[i].state = "refunded" /\ toDepositor'[i] = escrows[i].amount /\ toRecipient'[i] = 0
      BY <2>1, <2>3, <2>5 DEF PayDepositor, EscrowInv, EscrowTypeOK, EscrowRecord
    <3> QED BY <2>2, <2>3, <3>1 DEF EscrowPaidOnce
  <2> QED BY <1>2, <2>4, <2>5
<1>3. ASSUME NEW i \in EscrowId, NEW u \in User, RaiseDispute(i, u) PROVE EscrowPaidOnce'
  <2>1. /\ escrows'[i].state = "disputed" /\ escrows[i].state = "deposited"
        /\ \A j \in EscrowId \ {i} : escrows'[j] = escrows[j]
        /\ UNCHANGED <<toRecipient, toDepositor>>
    BY <1>3, OpenEscrow DEF RaiseDispute, EscrowInv, EscrowTypeOK, EscrowRecord
  <2> QED BY <2>1 DEF EscrowPaidOnce
<1> QED BY <1>1, <1>2, <1>3 DEF EscrowNext, Release, Refund, Arbitrate, Open

\* Every escrow pays its amount at most once, to one side.
THEOREM PaidOnce == Spec => []EscrowPaidOnce
<1>1. Init => EscrowPaidOnce
  BY DEF Init, EscrowInit, EscrowPaidOnce, NoEscrow
<1>2. VaultTypeOK /\ EscrowPaidOnce /\ [Next]_vars => EscrowPaidOnce'
  <2> SUFFICES ASSUME VaultTypeOK, EscrowPaidOnce, [Next]_vars PROVE EscrowPaidOnce'
    OBVIOUS
  <2>1. CASE EscrowNext
    BY <2>1, PaidOnceStep DEF VaultTypeOK, EscrowInv
  <2>2. CASE UNCHANGED escrowVars
    BY <2>2 DEF escrowVars, EscrowPaidOnce
  <2> QED BY <2>1, <2>2 DEF Next, vars
<1> QED BY <1>1, <1>2, VaultTypes, PTL DEF Spec

---------------------------------------------------------------------------
(* Custody. *)

\* A function that differs from f at i alone.
LEMMA PointUpdate ==
  ASSUME NEW S, NEW f, NEW g, NEW i \in S, NEW v,
         f = [j \in S |-> f[j]], g = [j \in S |-> g[j]],
         g[i] = v, \A j \in S \ {i} : g[j] = f[j]
  PROVE  g = [f EXCEPT ![i] = v]
OBVIOUS

\* Every step of the escrow contract funds an escrow, pays one out, or moves
\* no token.
THEOREM EscrowCustody == Spec => EscrowKeepsCustody
<1> DEFINE held == EscrowHeld
           received == [i \in EscrowId |-> escrows[i].amount]
           paid == [i \in EscrowId |-> toRecipient[i] + toDepositor[i]]
<1> USE DEF EscrowHeld
<1>1. Init => EscrowHolds!CustodyInit
  BY DEF Init, EscrowInit, EscrowHolds!CustodyInit, NoEscrow, Open
<1>2. VaultTypeOK /\ [Next]_vars => [EscrowHolds!CustodyNext]_EscrowHolds!custodyVars
  <2> SUFFICES ASSUME VaultTypeOK, [Next]_vars
               PROVE  [EscrowHolds!CustodyNext]_EscrowHolds!custodyVars
    OBVIOUS
  <2> USE DEF VaultTypeOK
  <2>1. ASSUME NEW d \in User, NEW b \in User, NEW r \in Recipient, NEW x \in Amount,
               NEW t \in Deadline, EscrowDeposit(d, r, b, x, t)
        PROVE EscrowHolds!CustodyNext
    <3>1. nextEscrow \in EscrowId /\ escrows[nextEscrow] = NoEscrow
      BY <2>1, EscrowAssumption DEF EscrowDeposit, EscrowTypeOK, EscrowId
    <3>2. /\ escrows'[nextEscrow].state = "deposited" /\ escrows'[nextEscrow].amount = x
          /\ \A j \in EscrowId \ {nextEscrow} : escrows'[j] = escrows[j]
          /\ UNCHANGED <<toRecipient, toDepositor>>
      BY <2>1, <3>1 DEF EscrowDeposit, EscrowTypeOK
    <3>3. x \in 1..I128Max
      BY <2>1, TokenAssumption DEF EscrowDeposit
    <3>a. escrows[nextEscrow].amount = 0 /\ ~Open(escrows[nextEscrow]) /\ Open(escrows'[nextEscrow])
      BY <3>1, <3>2 DEF NoEscrow, Open
    <3>4. held' = [held EXCEPT ![nextEscrow] = @ + x]
      <4>1. held'[nextEscrow] = held[nextEscrow] + x
        BY <3>1, <3>2, <3>3, <3>a
      <4>2. \A j \in EscrowId \ {nextEscrow} : held'[j] = held[j]
        BY <3>2
      <4> QED BY <3>1, <4>1, <4>2, PointUpdate
    <3>5. received' = [received EXCEPT ![nextEscrow] = @ + x]
      <4>1. received'[nextEscrow] = received[nextEscrow] + x
        BY <3>1, <3>2, <3>3, <3>a
      <4>2. \A j \in EscrowId \ {nextEscrow} : received'[j] = received[j]
        BY <3>2
      <4> QED BY <3>1, <4>1, <4>2, PointUpdate
    <3>6. paid' = paid
      BY <3>2
    <3>7. EscrowHolds!Fund(nextEscrow, x)
      BY <3>4, <3>5, <3>6 DEF EscrowHolds!Fund
    <3> QED BY <3>1, <3>3, <3>7 DEF EscrowHolds!CustodyNext
  <2>2. ASSUME NEW i \in EscrowId, Open(escrows[i]), PayRecipient(i) \/ PayDepositor(i)
        PROVE EscrowHolds!CustodyNext
    <3>1. escrows[i] \in EscrowRecord
      BY <2>2, OpenEscrow DEF Open
    <3>2. PICK x \in 1..held[i] : x = escrows[i].amount
      BY <2>2, <3>1, TokenAssumption DEF EscrowRecord
    <3>3. escrows'[i].amount = x /\ ~Open(escrows'[i])
      BY <2>2, <3>1, <3>2 DEF PayRecipient, PayDepositor, EscrowTypeOK, EscrowRecord, Open
    <3>4. \A j \in EscrowId \ {i} : escrows'[j] = escrows[j] /\ toRecipient'[j] = toRecipient[j]
                                    /\ toDepositor'[j] = toDepositor[j]
      BY <2>2 DEF PayRecipient, PayDepositor, EscrowTypeOK
    <3>5. toRecipient'[i] + toDepositor'[i] = toRecipient[i] + toDepositor[i] + x
      BY <2>2, <3>2 DEF PayRecipient, PayDepositor, EscrowTypeOK
    <3>6. held' = [held EXCEPT ![i] = @ - x]
      <4>1. held'[i] = held[i] - x
        BY <2>2, <3>2, <3>3
      <4>2. \A j \in EscrowId \ {i} : held'[j] = held[j]
        BY <3>4
      <4> QED BY <4>1, <4>2, PointUpdate
    <3>7. received' = received
      BY <3>2, <3>3, <3>4
    <3>8. paid' = [paid EXCEPT ![i] = @ + x]
      BY <3>4, <3>5
    <3>9. EscrowHolds!Pay(i, x)
      BY <3>6, <3>7, <3>8 DEF EscrowHolds!Pay
    <3> QED BY <3>9 DEF EscrowHolds!CustodyNext
  <2>3. ASSUME NEW i \in EscrowId, NEW u \in User, RaiseDispute(i, u)
        PROVE UNCHANGED EscrowHolds!custodyVars
    <3>1. /\ escrows'[i].state = "disputed" /\ escrows[i].state = "deposited"
          /\ escrows'[i].amount = escrows[i].amount
          /\ \A j \in EscrowId \ {i} : escrows'[j] = escrows[j]
          /\ UNCHANGED <<toRecipient, toDepositor>>
      BY <2>3, OpenEscrow DEF RaiseDispute, EscrowTypeOK, EscrowRecord
    <3>2. held' = held /\ received' = received /\ paid' = paid
      BY <3>1 DEF Open
    <3> QED BY <3>2 DEF EscrowHolds!custodyVars
  <2>4. CASE UNCHANGED escrowVars
    BY <2>4 DEF escrowVars, EscrowHolds!custodyVars
  <2> QED BY <2>1, <2>2, <2>3, <2>4
          DEF Next, vars, EscrowNext, Release, Refund, Arbitrate, Open
<1> QED BY <1>1, <1>2, VaultTypes, PTL DEF Spec, EscrowKeepsCustody, EscrowHolds!CustodySpec

\* Every step of the streaming contract funds a stream, pays one out (the two
\* transfers of cancel() are one payment), or moves no token.
THEOREM StreamCustody == Spec => StreamKeepsCustody
<1> DEFINE held == StreamHeld
           paid == [i \in StreamId |-> streamed[i] + refunded[i]]
<1> USE DEF StreamHeld
<1>1. Init => StreamHolds!CustodyInit
  BY DEF Init, StreamInit, StreamHolds!CustodyInit, NoStream
<1>2. VaultTypeOK /\ [Next]_vars => [StreamHolds!CustodyNext]_StreamHolds!custodyVars
  <2> SUFFICES ASSUME VaultTypeOK, [Next]_vars
               PROVE  [StreamHolds!CustodyNext]_StreamHolds!custodyVars
    OBVIOUS
  <2> USE DEF VaultTypeOK
  <2>1. ASSUME NEW i \in StreamId, NEW x \in 1..I128Max,
               streams[i].deposit \in Nat, streams'[i].deposit = streams[i].deposit + x,
               \A j \in StreamId \ {i} : streams'[j] = streams[j],
               funded' = [funded EXCEPT ![i] = @ + x], UNCHANGED <<streamed, refunded>>
        PROVE StreamHolds!CustodyNext
    <3>1. held' = [held EXCEPT ![i] = @ + x]
      <4>1. held'[i] = held[i] + x
        BY <2>1
      <4>2. \A j \in StreamId \ {i} : held'[j] = held[j]
        BY <2>1
      <4> QED BY <4>1, <4>2, PointUpdate
    <3>2. paid' = paid
      BY <2>1
    <3>3. StreamHolds!Fund(i, x)
      BY <2>1, <3>1, <3>2 DEF StreamHolds!Fund
    <3> QED BY <3>3 DEF StreamHolds!CustodyNext
  <2>2. ASSUME NEW i \in StreamId, NEW x \in 1..streams[i].deposit,
               streams[i].deposit \in Nat, streams'[i].deposit = streams[i].deposit - x,
               \A j \in StreamId \ {i} : streams'[j] = streams[j], UNCHANGED funded,
               streamed'[i] + refunded'[i] = streamed[i] + refunded[i] + x,
               \A j \in StreamId \ {i} : streamed'[j] = streamed[j] /\ refunded'[j] = refunded[j]
        PROVE StreamHolds!CustodyNext
    <3>1. held' = [held EXCEPT ![i] = @ - x]
      <4>1. held'[i] = held[i] - x
        BY <2>2
      <4>2. \A j \in StreamId \ {i} : held'[j] = held[j]
        BY <2>2
      <4> QED BY <4>1, <4>2, PointUpdate
    <3>2. paid' = [paid EXCEPT ![i] = @ + x]
      <4>1. paid'[i] = paid[i] + x
        BY <2>2
      <4>2. \A j \in StreamId \ {i} : paid'[j] = paid[j]
        BY <2>2
      <4> QED BY <4>1, <4>2, PointUpdate
    <3>3. StreamHolds!Pay(i, x)
      BY <2>2, <3>1, <3>2 DEF StreamHolds!Pay
    <3>4. x \in 1..held[i]
      BY <2>2
    <3> QED BY <3>3, <3>4 DEF StreamHolds!CustodyNext
  <2>3. ASSUME NEW u \in User, NEW r \in Recipient, NEW x \in Amount, NEW rate \in Rate,
               CreateStream(u, r, x, rate)
        PROVE StreamHolds!CustodyNext
    <3>1. PICK i \in StreamId : i = nextStream
      BY <2>3, StreamAssumption DEF CreateStream, StreamTypeOK, StreamId
    <3>2. streams[i] = NoStream /\ streams[i].deposit = 0
      BY <3>1, StreamAssumption DEF StreamTypeOK, StreamId, NoStream
    <3>3. x \in 1..I128Max
      BY <2>3, TokenAssumption DEF CreateStream
    <3>4. /\ streams'[i].deposit = x
          /\ \A j \in StreamId \ {i} : streams'[j] = streams[j]
          /\ UNCHANGED <<streamed, refunded>>
          /\ funded' = [funded EXCEPT ![i] = @ + x]
      BY <2>3, <3>1 DEF CreateStream, StreamTypeOK
    <3>5. streams[i].deposit \in Nat /\ streams'[i].deposit = streams[i].deposit + x
      BY <3>2, <3>3, <3>4, TokenAssumption
    <3> QED BY <2>1, <3>3, <3>4, <3>5
  <2>4. ASSUME NEW i \in StreamId, NEW x \in Amount, TopUp(i, x)
        PROVE StreamHolds!CustodyNext
    <3>1. streams[i] \in Stream /\ x \in 1..I128Max
      BY <2>4, LiveStream, TokenAssumption DEF TopUp
    <3>2. /\ streams'[i].deposit = streams[i].deposit + x
          /\ \A j \in StreamId \ {i} : streams'[j] = streams[j]
          /\ UNCHANGED <<streamed, refunded>>
          /\ funded' = [funded EXCEPT ![i] = @ + x]
      BY <2>4, <3>1 DEF TopUp, StreamTypeOK, Stream
    <3> QED BY <2>1, <3>1, <3>2 DEF Stream
  <2>5. ASSUME NEW i \in StreamId, Pause(i) \/ Resume(i)
        PROVE UNCHANGED StreamHolds!custodyVars
    <3>1. /\ streams'[i].deposit = streams[i].deposit
          /\ \A j \in StreamId \ {i} : streams'[j] = streams[j]
          /\ UNCHANGED <<funded, streamed, refunded>>
      BY <2>5, LiveStream DEF Pause, Resume, Live, StreamTypeOK, Stream, streamHistory
    <3>2. held' = held /\ paid' = paid
      BY <3>1
    <3> QED BY <3>1, <3>2 DEF StreamHolds!custodyVars
  <2>6. ASSUME NEW i \in StreamId, Cancel(i) PROVE StreamHolds!CustodyNext
    <3>1. streams[i] \in Stream /\ streams[i].deposit > 0
      BY <2>6, LiveStream DEF Cancel
    <3>2. Accrued(streams[i]) \in Nat
      BY <3>1, AccruedBounds
    <3>3. streams'[i].deposit = 0 /\ \A j \in StreamId \ {i} : streams'[j] = streams[j]
      BY <2>6, <3>1 DEF Cancel, StreamTypeOK, Stream
    <3>4. /\ streamed'[i] = streamed[i] + Accrued(streams[i])
          /\ refunded'[i] = refunded[i] + (streams[i].deposit - Accrued(streams[i]))
          /\ \A j \in StreamId \ {i} : streamed'[j] = streamed[j] /\ refunded'[j] = refunded[j]
          /\ UNCHANGED funded
      BY <2>6 DEF Cancel, StreamTypeOK
    <3>5. PICK x \in 1..streams[i].deposit : x = streams[i].deposit
      BY <3>1 DEF Stream
    <3>6. streamed'[i] + refunded'[i] = streamed[i] + refunded[i] + x
      BY <3>1, <3>2, <3>4, <3>5 DEF StreamTypeOK, Stream
    <3>7. streams[i].deposit \in Nat /\ streams'[i].deposit = streams[i].deposit - x
      BY <3>1, <3>3, <3>5 DEF Stream
    <3> QED BY <2>2, <3>3, <3>4, <3>6, <3>7
  <2>7. ASSUME NEW i \in StreamId, Withdraw(i) PROVE StreamHolds!CustodyNext
    <3>1. streams[i] \in Stream /\ streams[i].deposit \in Nat
      BY <2>7, LiveStream DEF Withdraw, Stream
    <3>2. PICK x \in 1..streams[i].deposit : x = Accrued(streams[i])
      BY <2>7, <3>1, AccruedBounds DEF Withdraw
    <3>3. /\ streams'[i].deposit = streams[i].deposit - x
          /\ \A j \in StreamId \ {i} : streams'[j] = streams[j]
      BY <2>7, <3>1, <3>2 DEF Withdraw, StreamTypeOK, Stream
    <3>4. /\ streamed'[i] = streamed[i] + x
          /\ \A j \in StreamId \ {i} : streamed'[j] = streamed[j] /\ refunded'[j] = refunded[j]
          /\ refunded'[i] = refunded[i]
          /\ UNCHANGED funded
      BY <2>7, <3>2 DEF Withdraw, StreamTypeOK
    <3>5. streamed'[i] + refunded'[i] = streamed[i] + refunded[i] + x
      BY <3>1, <3>2, <3>4 DEF StreamTypeOK
    <3> QED BY <2>2, <3>1, <3>3, <3>4, <3>5
  <2>8. CASE StreamTick
    BY <2>8 DEF StreamTick, StreamHolds!custodyVars
  <2>9. CASE UNCHANGED streamVars
    BY <2>9 DEF streamVars, streamHistory, StreamHolds!custodyVars
  <2> QED BY <2>3, <2>4, <2>5, <2>6, <2>7, <2>8, <2>9 DEF Next, vars, StreamNext
<1> QED BY <1>1, <1>2, VaultTypes, PTL DEF Spec, StreamKeepsCustody, StreamHolds!CustodySpec

---------------------------------------------------------------------------
(* What the abstract custodian promises. *)

\* Every step of the custodian, funding or payment, keeps the account of each
\* item balanced.
LEMMA CustodyBalanced ==
  ASSUME StreamHolds!CustodyTypeOK, StreamHolds!Balanced,
         [StreamHolds!CustodyNext]_StreamHolds!custodyVars
  PROVE  StreamHolds!CustodyTypeOK' /\ StreamHolds!Balanced'
<1> USE DEF StreamHolds!CustodyTypeOK, StreamHolds!Balanced
<1>1. ASSUME NEW i \in StreamId, NEW x \in 1..I128Max, StreamHolds!Fund(i, x)
      PROVE  StreamHolds!CustodyTypeOK' /\ StreamHolds!Balanced'
  BY <1>1 DEF StreamHolds!Fund
<1>2. ASSUME NEW i \in StreamId, NEW x \in 1..StreamHeld[i], StreamHolds!Pay(i, x)
      PROVE  StreamHolds!CustodyTypeOK' /\ StreamHolds!Balanced'
  <2> DEFINE paid == [j \in StreamId |-> streamed[j] + refunded[j]]
  <2>1. /\ StreamHeld \in [StreamId -> Nat] /\ StreamHeld' = [StreamHeld EXCEPT ![i] = @ - x]
        /\ paid \in [StreamId -> Nat] /\ paid' = [paid EXCEPT ![i] = @ + x]
        /\ funded \in [StreamId -> Nat] /\ funded' = funded
        /\ \A j \in StreamId : funded[j] = StreamHeld[j] + paid[j]
    BY <1>2 DEF StreamHolds!Pay
  <2> HIDE DEF paid
  <2>2. StreamHeld' \in [StreamId -> Nat] /\ paid' \in [StreamId -> Nat]
    BY <2>1
  <2>3. \A j \in StreamId : funded'[j] = StreamHeld'[j] + paid'[j]
    BY <2>1
  <2> QED BY <2>1, <2>2, <2>3 DEF paid
<1>3. CASE UNCHANGED StreamHolds!custodyVars
  BY <1>3 DEF StreamHolds!custodyVars
<1> QED BY <1>1, <1>2, <1>3 DEF StreamHolds!CustodyNext

\* So the tokens a sender put into a stream are, at every moment, the deposit,
\* what the recipient was sent and what the sender got back.
THEOREM StreamBalanced == Spec => []StreamHolds!Balanced
<1>1. StreamHolds!CustodyInit => StreamHolds!CustodyTypeOK /\ StreamHolds!Balanced
  BY DEF StreamHolds!CustodyInit, StreamHolds!CustodyTypeOK, StreamHolds!Balanced
<1> QED BY <1>1, CustodyBalanced, StreamCustody, PTL
        DEF StreamKeepsCustody, StreamHolds!CustodySpec

---------------------------------------------------------------------------
(* A stream pays what it earned.  While it is active, what was sent and what *)
(* has accrued since start_time are together within what it earned.          *)

WithinEarned(i) ==
  /\ streamed[i] <= earned[i]
  /\ streams[i].state = "active" =>
       streams[i].start <= now /\ streamed[i] + Uncapped(streams[i]) <= earned[i]

AccrualInv == \A i \in StreamId : WithinEarned(i)

LEMMA OneMore == ASSUME NEW a \in Int, NEW r \in Int PROVE (a + 1) * r = a * r + r
OBVIOUS

\* A call that concerns stream i leaves the others within what they earned.
LEMMA OthersWithin ==
  ASSUME AccrualInv, NEW i \in StreamId, UNCHANGED <<now, earned>>,
         \A j \in StreamId \ {i} : streams'[j] = streams[j] /\ streamed'[j] = streamed[j],
         WithinEarned(i)'
  PROVE  AccrualInv'
BY DEF AccrualInv, WithinEarned, Uncapped

LEMMA AccrualStep == ASSUME StreamInv, AccrualInv, StreamNext PROVE AccrualInv'
<1> USE DEF StreamInv
<1>1. ASSUME NEW u \in User, NEW r \in Recipient, NEW x \in Amount, NEW rate \in Rate,
             CreateStream(u, r, x, rate)
      PROVE AccrualInv'
  <2>1. PICK i \in StreamId : i = nextStream
    BY <1>1, StreamAssumption DEF CreateStream, StreamTypeOK, StreamId
  <2>2. /\ streams'[i].start = now /\ streams'[i].rate = rate
        /\ \A j \in StreamId \ {i} : streams'[j] = streams[j] /\ streamed'[j] = streamed[j]
        /\ UNCHANGED <<now, earned, streamed>>
    BY <1>1, <2>1 DEF CreateStream, StreamNext, StreamTypeOK
  <2>3. now \in Int /\ rate \in Int
    BY StreamAssumption DEF TokenTypeOK
  <2>4. Uncapped(streams[i])' = 0
    BY <2>2, <2>3 DEF Uncapped
  <2>5. WithinEarned(i)'
    BY <2>2, <2>3, <2>4 DEF WithinEarned, AccrualInv, StreamTypeOK
  <2> QED BY <2>2, <2>5, OthersWithin
<1>2. ASSUME NEW i \in StreamId, NEW x \in Amount, TopUp(i, x) PROVE AccrualInv'
  <2>1. streams[i] \in Stream
    BY <1>2, LiveStream DEF TopUp
  <2>2. /\ streams'[i].start = streams[i].start /\ streams'[i].rate = streams[i].rate
        /\ streams'[i].state = streams[i].state
        /\ \A j \in StreamId \ {i} : streams'[j] = streams[j] /\ streamed'[j] = streamed[j]
        /\ UNCHANGED <<now, earned, streamed>>
    BY <1>2, <2>1 DEF TopUp, StreamNext, StreamTypeOK, Stream
  <2>3. WithinEarned(i)'
    BY <2>2 DEF WithinEarned, AccrualInv, Uncapped
  <2> QED BY <2>2, <2>3, OthersWithin
<1>3. ASSUME NEW i \in StreamId, Pause(i) \/ Resume(i) PROVE AccrualInv'
  <2>1. streams[i] \in Stream /\ now \in Int
    BY <1>3, LiveStream DEF Pause, Resume, Live, TokenTypeOK
  <2>2. streams \in [StreamId -> Stream \cup {NoStream}] /\ UNCHANGED <<now, earned, streamed>>
    BY <1>3 DEF Pause, Resume, StreamNext, StreamTypeOK, streamHistory
  <2>3. streams'[i].start = now
    BY <1>3, <2>1, <2>2 DEF Pause, Resume, Stream
  <2>4. streams'[i].rate \in Int
    BY <1>3, <2>1, <2>2 DEF Pause, Resume, Stream
  <2>5. \A j \in StreamId \ {i} : streams'[j] = streams[j] /\ streamed'[j] = streamed[j]
    BY <1>3, <2>2 DEF Pause, Resume
  <2>6. Uncapped(streams[i])' = 0
    <3>1. Uncapped(streams[i])' = 0 * streams'[i].rate
      BY <2>1, <2>2, <2>3 DEF Uncapped
    <3> QED BY <2>4, <3>1
  <2>7. WithinEarned(i)'
    BY <2>1, <2>2, <2>3, <2>6 DEF WithinEarned, AccrualInv, StreamTypeOK
  <2> QED BY <2>2, <2>5, <2>7, OthersWithin
<1>4. ASSUME NEW i \in StreamId, Cancel(i) \/ Withdraw(i) PROVE AccrualInv'
  <2> DEFINE x == Accrued(streams[i])
  <2>1. streams[i] \in Stream /\ now \in Int
    BY <1>4, LiveStream DEF Cancel, Withdraw, TokenTypeOK
  <2>2. x \in Nat /\ streamed[i] + x <= earned[i]
    <3>1. CASE streams[i].state = "active" /\ now > streams[i].start
      <4>1. x \in Nat /\ x <= Uncapped(streams[i])
        BY <2>1, <3>1, AccruedBounds
      <4>2. Uncapped(streams[i]) \in Int
        BY <2>1 DEF Uncapped, Stream
      <4> QED BY <3>1, <4>1, <4>2 DEF AccrualInv, WithinEarned, StreamTypeOK
    <3>2. CASE ~(streams[i].state = "active" /\ now > streams[i].start)
      <4>1. x = 0
        BY <2>1, <3>2 DEF Accrued, Stream
      <4> QED BY <4>1 DEF AccrualInv, WithinEarned, StreamTypeOK
    <3> QED BY <3>1, <3>2
  <2>3. /\ streamed'[i] = streamed[i] + x
        /\ \A j \in StreamId \ {i} : streams'[j] = streams[j] /\ streamed'[j] = streamed[j]
        /\ UNCHANGED <<now, earned>>
    BY <1>4 DEF Cancel, Withdraw, StreamNext, StreamTypeOK
  <2> HIDE DEF x
  <2>4. CASE Cancel(i)
    <3>1. streams'[i].state = "cancelled"
      BY <2>1, <2>4 DEF Cancel, StreamTypeOK, Stream
    <3> QED BY <2>2, <2>3, <3>1, OthersWithin DEF WithinEarned
  <2>5. CASE Withdraw(i)
    <3>1. streams'[i].start = now /\ streams'[i].rate \in Int
      BY <2>1, <2>5 DEF Withdraw, StreamTypeOK, Stream
    <3>2. Uncapped(streams[i])' = 0
      BY <2>1, <2>3, <3>1 DEF Uncapped
    <3>3. WithinEarned(i)'
      BY <2>1, <2>2, <2>3, <3>1, <3>2 DEF WithinEarned, StreamTypeOK
    <3> QED BY <2>3, <3>3, OthersWithin
  <2> QED BY <1>4, <2>4, <2>5
<1> QED BY <1>1, <1>2, <1>3, <1>4 DEF StreamNext

LEMMA AccrualTick == ASSUME StreamInv, AccrualInv, StreamTick PROVE AccrualInv'
<1> SUFFICES ASSUME NEW i \in StreamId PROVE WithinEarned(i)'
  BY DEF AccrualInv
<1>1. /\ now' = now + 1 /\ now \in Int
      /\ UNCHANGED <<streams, streamed>>
      /\ streamed[i] \in Nat /\ earned[i] \in Nat
      /\ earned'[i] = IF streams[i].state = "active" THEN earned[i] + streams[i].rate ELSE earned[i]
  BY DEF StreamTick, Tick, StreamInv, StreamTypeOK, TokenTypeOK
<1>2. WithinEarned(i)
  BY DEF AccrualInv
<1>3. CASE streams[i].state = "active"
  <2>1. streams[i].start \in Nat /\ streams[i].rate \in Nat
    BY <1>3, LiveStream DEF StreamInv, Stream, Live
  <2>2. now' - streams[i].start = (now - streams[i].start) + 1 /\ now - streams[i].start \in Int
    BY <1>1, <2>1
  <2>3. Uncapped(streams[i])' = Uncapped(streams[i]) + streams[i].rate
    BY <1>1, <2>1, <2>2, OneMore DEF Uncapped
  <2>4. Uncapped(streams[i]) \in Int
    BY <2>1, <2>2 DEF Uncapped
  <2> QED BY <1>1, <1>2, <1>3, <2>1, <2>3, <2>4 DEF WithinEarned
<1>4. CASE streams[i].state # "active"
  BY <1>1, <1>2, <1>4 DEF WithinEarned
<1> QED BY <1>3, <1>4

\* No schedule of top-ups, pauses and withdrawals makes a stream overpay.
THEOREM OverAccruesNever == Spec => []NeverOverAccrues
<1>1. Init => AccrualInv
  BY DEF Init, StreamInit, AccrualInv, WithinEarned, NoStream
<1>2. VaultTypeOK /\ AccrualInv /\ [Next]_vars => AccrualInv'
  <2> SUFFICES ASSUME VaultTypeOK, AccrualInv, [Next]_vars PROVE AccrualInv'
    OBVIOUS
  <2>1. CASE StreamNext
    BY <2>1, AccrualStep DEF VaultTypeOK, StreamInv
  <2>2. CASE StreamTick
    BY <2>2, AccrualTick DEF VaultTypeOK, StreamInv
  <2>3. CASE UNCHANGED <<now, streamVars>>
    BY <2>3 DEF streamVars, streamHistory, AccrualInv, WithinEarned, Uncapped
  <2> QED BY <2>1, <2>2, <2>3 DEF Next, vars, TokenNext, EscrowNext
<1>3. AccrualInv => NeverOverAccrues
  BY DEF AccrualInv, WithinEarned, NeverOverAccrues
<1> QED BY <1>1, <1>2, <1>3, VaultTypes, PTL DEF Spec

---------------------------------------------------------------------------
(* Frozen tokens stay. *)

Kept == \A a \in Address : a \in frozen => balance'[a] >= balance[a]

LEMMA TransferKeeps ==
  ASSUME TokenTypeOK, NEW from \in Address, NEW to \in Address, NEW amount \in Int,
         DoTransfer(from, to, amount)
  PROVE  Kept
<1>1. amount \in Nat /\ from \notin frozen /\ balance \in [Address -> Nat]
  BY DEF DoTransfer, CanTransfer, TokenTypeOK
<1>2. \A a \in Address : a # from => balance'[a] >= balance[a]
  BY <1>1, MovedKeeps DEF DoTransfer
<1> QED BY <1>1, <1>2 DEF Kept

LEMMA UnmovedKeeps == ASSUME TokenTypeOK, UNCHANGED balance PROVE Kept
BY DEF Kept, TokenTypeOK

\* What is frozen stays where it is, under all three contracts.
THEOREM FrozenStays == Spec => FrozenKeepsFunds
<1>1. VaultTypeOK /\ [Next]_vars => [Kept]_vars
  <2> SUFFICES ASSUME VaultTypeOK, [Next]_vars PROVE Kept
    OBVIOUS
  <2> USE TokenAssumption DEF VaultTypeOK
  <2>1. ASSUME TokenNext PROVE Kept
    <3>1. ASSUME NEW s \in Spender, NEW u \in User, NEW to \in Address, NEW x \in Amount,
                 Transfer(u, to, x) \/ TransferFrom(s, u, to, x)
          PROVE Kept
      BY <3>1, TransferKeeps DEF Transfer, TransferFrom
    <3>2. ASSUME NEW s \in Spender, NEW u \in User, NEW x \in Amount,
                 Burn(u, x) \/ BurnFrom(s, u, x)
          PROVE Kept
      BY <3>2 DEF Burn, BurnFrom, DoBurn, Kept, TokenTypeOK
    <3>3. ASSUME NEW to \in Address, NEW x \in Amount, Mint(to, x) PROVE Kept
      BY <3>3 DEF Mint, Kept, TokenTypeOK
    <3>4. ASSUME NEW u \in User, NEW to \in Address, NEW x \in Amount, Transfer(u, to, x)
          PROVE Kept
      BY <3>4, TransferKeeps DEF Transfer
    <3>5. ASSUME NEW u \in User, NEW x \in Amount, Burn(u, x) PROVE Kept
      BY <3>5 DEF Burn, DoBurn, Kept, TokenTypeOK
    <3>6. CASE UNCHANGED balance
      BY <3>6, UnmovedKeeps
    <3> QED BY <2>1, <3>1, <3>2, <3>3, <3>4, <3>5, <3>6
            DEF TokenNext, Initialize, SetAuthorized, Approve
  <2>2. ASSUME EscrowNext PROVE Kept
    <3>1. ASSUME NEW d \in User, NEW b \in User, NEW r \in Recipient, NEW x \in Amount,
                 NEW t \in Deadline, EscrowDeposit(d, r, b, x, t)
          PROVE Kept
      BY <3>1, TransferKeeps, EscrowAssumption DEF EscrowDeposit, Transfer
    <3>2. ASSUME NEW i \in EscrowId, Open(escrows[i]), PayRecipient(i) \/ PayDepositor(i)
          PROVE Kept
      <4>1. escrows[i] \in EscrowRecord
        BY <3>2, OpenEscrow DEF Open
      <4>2. /\ escrows[i].recipient \in Address /\ escrows[i].depositor \in Address
            /\ escrows[i].amount \in Int /\ EscrowContract \in Address
        BY <4>1, EscrowAssumption DEF EscrowRecord
      <4> QED BY <3>2, <4>2, TransferKeeps DEF PayRecipient, PayDepositor, Transfer
    <3>3. ASSUME NEW i \in EscrowId, NEW u \in User, RaiseDispute(i, u) PROVE Kept
      BY <3>3, UnmovedKeeps DEF RaiseDispute, tokenVars
    <3> QED BY <2>2, <3>1, <3>2, <3>3 DEF EscrowNext, Release, Refund, Arbitrate, Open
  <2>3. ASSUME StreamNext PROVE Kept
    <3>1. ASSUME NEW u \in User, NEW r \in Recipient, NEW x \in Amount, NEW rate \in Rate,
                 CreateStream(u, r, x, rate)
          PROVE Kept
      BY <3>1, TransferKeeps, StreamAssumption DEF CreateStream, Transfer
    <3>2. ASSUME NEW i \in StreamId, NEW x \in Amount, TopUp(i, x) PROVE Kept
      <4>1. streams[i].sender \in Address
        BY <3>2, LiveStream DEF TopUp, Stream
      <4> QED BY <3>2, <4>1, TransferKeeps, StreamAssumption DEF TopUp, Transfer
    <3>3. ASSUME NEW i \in StreamId, Pause(i) \/ Resume(i) PROVE Kept
      BY <3>3, UnmovedKeeps DEF Pause, Resume, tokenVars
    <3>4. ASSUME NEW i \in StreamId, Cancel(i) PROVE Kept
      <4>1. streams[i] \in Stream
        BY <3>4, LiveStream DEF Cancel
      <4>2. Accrued(streams[i]) \in Nat /\ streams[i].deposit - Accrued(streams[i]) \in Nat
        BY <4>1, AccruedBounds DEF Stream
      <4> QED BY <2>3, <3>4, <4>1, <4>2, PayoutBalances DEF Cancel, StreamNext, Kept
    <3>5. ASSUME NEW i \in StreamId, Withdraw(i) PROVE Kept
      <4>1. streams[i] \in Stream
        BY <3>5, LiveStream DEF Withdraw
      <4>2. Accrued(streams[i]) \in Int /\ streams[i].recipient \in Address
        BY <4>1, AccruedBounds DEF Stream
      <4>3. DoTransfer(StreamContract, streams[i].recipient, Accrued(streams[i]))
        BY <3>5 DEF Withdraw, Transfer
      <4> QED BY <4>2, <4>3, TransferKeeps, StreamAssumption
    <3> QED BY <2>3, <3>1, <3>2, <3>3, <3>4, <3>5 DEF StreamNext
  <2>4. CASE UNCHANGED balance
    BY <2>4, UnmovedKeeps
  <2> QED BY <2>1, <2>2, <2>3, <2>4 DEF Next, vars, tokenVars, StreamTick
<1> QED BY <1>1, VaultTypes, PTL DEF Spec, FrozenKeepsFunds, Kept

---------------------------------------------------------------------------
(* Sums of balances: what a transfer, or the two of a cancel(), does to    *)
(* the total and to each of the others.                                    *)

Total(bal) == Sum(bal, Address)

\* From b to c, address from loses at most amount, nobody else loses, and the
\* total stays.
Moves(b, c, from, amount) ==
  /\ c \in [Address -> Nat]
  /\ Total(c) = Total(b)
  /\ c[from] >= b[from] - amount
  /\ \A a \in Address \ {from} : c[a] >= b[a]

LEMMA TotalNat ==
  ASSUME NEW bal \in [Address -> Nat]
  PROVE  /\ Total(bal) \in Nat
         /\ \A a \in Address : bal[a] <= Total(bal)
BY SumNat, TokenAssumption DEF Total

\* One balance changes: the total changes by as much.
LEMMA TotalChange ==
  ASSUME NEW bal \in [Address -> Nat], NEW a \in Address, NEW n \in Nat
  PROVE  Total([bal EXCEPT ![a] = n]) = Total(bal) - bal[a] + n
<1> DEFINE new == [bal EXCEPT ![a] = n]
<1>1. IntOn(bal, Address) /\ IsFiniteSet(Address)
  BY TokenAssumption DEF IntOn
<1>2. new[a] = n /\ new[a] \in Int /\ \A b \in Address \ {a} : new[b] = bal[b]
  OBVIOUS
<1> HIDE DEF new
<1>3. Sum(new, Address) = Sum(bal, Address) - bal[a] + new[a]
  BY <1>1, <1>2, SumChange
<1> QED BY <1>2, <1>3 DEF Total, new

LEMMA MovedMoves ==
  ASSUME NEW bal \in [Address -> Nat], NEW from \in Address, NEW to \in Address,
         NEW amount \in Nat, amount <= bal[from]
  PROVE  Moves(bal, Moved(bal, from, to, amount), from, amount)
<1> DEFINE x == bal[from] - amount
           mid == [bal EXCEPT ![from] = x]
           y == mid[to] + amount
           new == [mid EXCEPT ![to] = y]
<1>1. x \in Nat /\ mid \in [Address -> Nat]
  OBVIOUS
<1>2. y \in Nat
  BY <1>1
<1>3. Moved(bal, from, to, amount) = new
  BY DEF Moved
<1>4. Total(mid) = Total(bal) - bal[from] + x
  BY <1>1, TotalChange
<1>5. Total(new) = Total(mid) - mid[to] + y
  <2> HIDE DEF mid, y
  <2> QED BY <1>1, <1>2, TotalChange
<1>6. Total(new) = Total(bal)
  <2>1. Total(bal) \in Nat /\ Total(mid) \in Nat /\ mid[to] \in Nat /\ bal[from] \in Nat
    BY <1>1, TotalNat
  <2>2. Total(mid) = Total(bal) - amount
    BY <1>4, <2>1
  <2> HIDE DEF mid, new
  <2> QED BY <1>5, <2>1, <2>2
<1>7. new \in [Address -> Nat]
  BY <1>1, <1>2
<1>8. new[from] >= bal[from] - amount
  OBVIOUS
<1>9. \A a \in Address \ {from} : new[a] >= bal[a]
  BY <1>3, MovedKeeps
<1> HIDE DEF new
<1> QED BY <1>3, <1>6, <1>7, <1>8, <1>9 DEF Moves

LEMMA TransferMoves ==
  ASSUME TokenTypeOK, NEW from \in Address, NEW to \in Address, NEW amount \in Int,
         DoTransfer(from, to, amount)
  PROVE  Moves(balance, balance', from, amount) /\ amount \in Nat
<1>1. amount \in Nat /\ amount <= balance[from] /\ balance \in [Address -> Nat]
  BY DEF DoTransfer, CanTransfer, TokenTypeOK
<1> QED BY <1>1, MovedMoves DEF DoTransfer

LEMMA PayoutMoves ==
  ASSUME TokenTypeOK, NEW s \in Stream, NEW accrued \in Nat, NEW refund \in Nat,
         Payout(s, accrued, refund)
  PROVE  Moves(balance, balance', StreamContract, accrued + refund)
<1> DEFINE mid == IF accrued > 0 THEN Moved(balance, StreamContract, s.recipient, accrued)
                                  ELSE balance
<1>1. /\ StreamContract \in Address /\ s.recipient \in Address /\ s.sender \in Address
      /\ balance \in [Address -> Nat]
  BY TokenAssumption, StreamAssumption DEF Stream, TokenTypeOK
<1>2. accrued > 0 => accrued <= balance[StreamContract]
  BY DEF Payout, CanTransfer
<1>3. Moves(balance, mid, StreamContract, accrued)
  <2>1. CASE accrued > 0
    BY <1>1, <1>2, <2>1, MovedMoves
  <2>2. CASE ~(accrued > 0)
    BY <1>1, <2>2 DEF Moves
  <2> QED BY <2>1, <2>2
<1>4. refund > 0 => refund <= mid[StreamContract]
  BY DEF Payout
<1>5. balance' = IF refund > 0 THEN Moved(mid, StreamContract, s.sender, refund) ELSE mid
  BY DEF Payout
<1> HIDE DEF mid
<1>6. mid \in [Address -> Nat]
  BY <1>3 DEF Moves
<1>7. Moves(mid, balance', StreamContract, refund)
  <2>1. CASE refund > 0
    BY <1>1, <1>4, <1>5, <1>6, <2>1, MovedMoves
  <2>2. CASE ~(refund > 0)
    BY <1>1, <1>5, <1>6, <2>2 DEF Moves
  <2> QED BY <2>1, <2>2
<1>8. balance' \in [Address -> Nat] /\ Total(balance') = Total(balance)
  BY <1>3, <1>7 DEF Moves
<1>9. balance'[StreamContract] >= balance[StreamContract] - (accrued + refund)
  BY <1>1, <1>3, <1>6, <1>7, <1>8 DEF Moves
<1>10. \A a \in Address \ {StreamContract} : balance'[a] >= balance[a]
  BY <1>1, <1>3, <1>6, <1>7, <1>8 DEF Moves
<1> QED BY <1>8, <1>9, <1>10 DEF Moves

---------------------------------------------------------------------------
(* The supply.  initialize() sets it to zero, which is right only because  *)
(* nothing can be minted before there is an admin.                         *)

SupplyInv == Total(balance) = supply /\ (admin = NoAdmin => supply = 0)

LEMMA MovesKeepSupply ==
  ASSUME SupplyInv, NEW from, NEW amount, Moves(balance, balance', from, amount),
         UNCHANGED <<admin, supply>>
  PROVE  SupplyInv'
BY DEF SupplyInv, Moves, Total

LEMMA BurnKeepsSupply ==
  ASSUME TokenTypeOK, SupplyInv, NEW from \in Address, NEW amount \in Int, DoBurn(from, amount)
  PROVE  SupplyInv'
<1>1. /\ amount \in Nat /\ amount <= balance[from] /\ balance \in [Address -> Nat]
      /\ balance[from] \in Nat
      /\ balance' = [balance EXCEPT ![from] = balance[from] - amount]
      /\ supply' = supply - amount /\ admin' = admin
  BY DEF DoBurn, TokenTypeOK
<1>2. Total(balance') = Total(balance) - balance[from] + (balance[from] - amount)
  <2>1. PICK n \in Nat : n = balance[from] - amount
    BY <1>1
  <2>2. Total([balance EXCEPT ![from] = n]) = Total(balance) - balance[from] + n
    BY <1>1, TotalChange
  <2> QED BY <1>1, <2>1, <2>2
<1>3. Total(balance) \in Nat /\ balance[from] <= Total(balance)
  BY <1>1, TotalNat
<1>4. Total(balance)' = Total(balance')
  BY DEF Total
<1> QED BY <1>1, <1>2, <1>3, <1>4 DEF SupplyInv

LEMMA SupplyStep == ASSUME VaultTypeOK, SupplyInv, [Next]_vars PROVE SupplyInv'
<1> USE DEF VaultTypeOK
<1>1. Amount \subseteq Int /\ User \subseteq Address /\ NoAdmin \notin Issuer
  BY TokenAssumption
<1>2. ASSUME NEW from \in Address, NEW to \in Address, NEW x \in Int, DoTransfer(from, to, x)
      PROVE  SupplyInv'
  BY <1>2, TransferMoves, MovesKeepSupply DEF DoTransfer
<1>3. CASE UNCHANGED <<balance, supply, admin>>
  BY <1>3 DEF SupplyInv, Total
<1>4. CASE TokenNext
  <2>1. ASSUME NEW a \in Issuer, Initialize(a) PROVE SupplyInv'
    BY <1>1, <2>1 DEF Initialize, SupplyInv, Total
  <2>2. ASSUME NEW u \in User, NEW to \in Address, NEW x \in Amount, Transfer(u, to, x)
        PROVE SupplyInv'
    BY <1>1, <1>2, <2>2 DEF Transfer
  <2>3. ASSUME NEW s \in Spender, NEW u \in User, NEW to \in Address, NEW x \in Amount,
               TransferFrom(s, u, to, x)
        PROVE SupplyInv'
    BY <1>1, <1>2, <2>3 DEF TransferFrom
  <2>4. ASSUME NEW u \in User, NEW x \in Amount, Burn(u, x) PROVE SupplyInv'
    BY <1>1, <2>4, BurnKeepsSupply DEF Burn
  <2>5. ASSUME NEW s \in Spender, NEW u \in User, NEW x \in Amount, BurnFrom(s, u, x)
        PROVE SupplyInv'
    BY <1>1, <2>5, BurnKeepsSupply DEF BurnFrom
  <2>6. ASSUME NEW to \in Address, NEW x \in Amount, Mint(to, x) PROVE SupplyInv'
    <3>1. /\ x \in Nat /\ balance \in [Address -> Nat] /\ balance[to] \in Nat
          /\ balance' = [balance EXCEPT ![to] = balance[to] + x]
          /\ supply' = supply + x /\ admin' = admin /\ admin # NoAdmin
      BY <1>1, <2>6 DEF Mint, TokenTypeOK
    <3>2. Total(balance') = Total(balance) - balance[to] + (balance[to] + x)
      <4>1. PICK n \in Nat : n = balance[to] + x
        BY <3>1
      <4>2. Total([balance EXCEPT ![to] = n]) = Total(balance) - balance[to] + n
        BY <3>1, TotalChange
      <4> QED BY <3>1, <4>1, <4>2
    <3>3. Total(balance) \in Nat /\ Total(balance)' = Total(balance')
      BY <3>1, TotalNat DEF Total
    <3> QED BY <3>1, <3>2, <3>3 DEF SupplyInv
  <2>7. CASE UNCHANGED <<balance, supply, admin>>
    BY <1>3, <2>7
  <2> QED BY <1>4, <2>1, <2>2, <2>3, <2>4, <2>5, <2>6, <2>7
          DEF TokenNext, SetAuthorized, Approve
<1>5. CASE EscrowNext
  <2>1. ASSUME NEW d \in User, NEW b \in User, NEW r \in Recipient, NEW x \in Amount,
               NEW t \in Deadline, EscrowDeposit(d, r, b, x, t)
        PROVE SupplyInv'
    BY <1>1, <1>2, <2>1, EscrowAssumption DEF EscrowDeposit, Transfer
  <2>2. ASSUME NEW i \in EscrowId, Open(escrows[i]), PayRecipient(i) \/ PayDepositor(i)
        PROVE SupplyInv'
    <3>1. escrows[i] \in EscrowRecord
      BY <2>2, OpenEscrow DEF Open
    <3>2. /\ escrows[i].recipient \in Address /\ escrows[i].depositor \in Address
          /\ escrows[i].amount \in Int /\ EscrowContract \in Address
      BY <1>1, <3>1, EscrowAssumption DEF EscrowRecord
    <3> QED BY <1>2, <2>2, <3>2 DEF PayRecipient, PayDepositor, Transfer
  <2>3. ASSUME NEW i \in EscrowId, NEW u \in User, RaiseDispute(i, u) PROVE SupplyInv'
    BY <1>3, <2>3 DEF RaiseDispute, tokenVars
  <2> QED BY <1>5, <2>1, <2>2, <2>3 DEF EscrowNext, Release, Refund, Arbitrate, Open
<1>6. CASE StreamNext
  <2>1. ASSUME NEW u \in User, NEW r \in Recipient, NEW x \in Amount, NEW rate \in Rate,
               CreateStream(u, r, x, rate)
        PROVE SupplyInv'
    BY <1>1, <1>2, <2>1, StreamAssumption DEF CreateStream, Transfer
  <2>2. ASSUME NEW i \in StreamId, NEW x \in Amount, TopUp(i, x) PROVE SupplyInv'
    <3>1. streams[i].sender \in Address
      BY <1>1, <2>2, LiveStream DEF TopUp, Stream
    <3> QED BY <1>1, <1>2, <2>2, <3>1, StreamAssumption DEF TopUp, Transfer
  <2>3. ASSUME NEW i \in StreamId, Pause(i) \/ Resume(i) PROVE SupplyInv'
    BY <1>3, <2>3 DEF Pause, Resume, tokenVars
  <2>4. ASSUME NEW i \in StreamId, Cancel(i) PROVE SupplyInv'
    <3>1. streams[i] \in Stream
      BY <2>4, LiveStream DEF Cancel
    <3>2. Accrued(streams[i]) \in Nat /\ streams[i].deposit - Accrued(streams[i]) \in Nat
      BY <3>1, AccruedBounds DEF Stream
    <3> DEFINE x == Accrued(streams[i])
               y == streams[i].deposit - x
    <3>3. Payout(streams[i], x, y)
      BY <2>4 DEF Cancel
    <3> HIDE DEF x, y
    <3>4. Moves(balance, balance', StreamContract, x + y)
      BY <3>1, <3>2, <3>3, PayoutMoves DEF x, y
    <3> QED BY <3>3, <3>4, MovesKeepSupply DEF Payout
  <2>5. ASSUME NEW i \in StreamId, Withdraw(i) PROVE SupplyInv'
    <3>1. streams[i] \in Stream
      BY <2>5, LiveStream DEF Withdraw
    <3>2. Accrued(streams[i]) \in Int /\ streams[i].recipient \in Address
      BY <3>1, AccruedBounds DEF Stream
    <3>3. DoTransfer(StreamContract, streams[i].recipient, Accrued(streams[i]))
      BY <2>5 DEF Withdraw, Transfer
    <3> QED BY <1>2, <3>2, <3>3, StreamAssumption
  <2> QED BY <1>6, <2>1, <2>2, <2>3, <2>4, <2>5 DEF StreamNext
<1>7. CASE StreamTick \/ UNCHANGED vars
  BY <1>3, <1>7 DEF StreamTick, vars, tokenVars
<1> QED BY <1>4, <1>5, <1>6, <1>7 DEF Next

\* Whatever is minted, burnt, sent, escrowed and streamed, and to whomever, the
\* balances add up to total_supply().
THEOREM SupplyBalances == Spec => []SupplyIsBalances
<1>1. Init => SupplyInv
  <2> SUFFICES ASSUME Init PROVE SupplyInv
    OBVIOUS
  <2>1. IsFiniteSet(Address) /\ \A a \in Address : balance[a] = 0
    BY TokenAssumption DEF Init, TokenInit
  <2>2. Sum(balance, Address) = 0
    BY <2>1, SumZero
  <2> QED BY <2>2 DEF SupplyInv, Total, Init, TokenInit
<1>2. SupplyInv => SupplyIsBalances
  BY DEF SupplyInv, Total, Sum, SupplyIsBalances
<1> QED BY <1>1, <1>2, SupplyStep, VaultTypes, PTL DEF Spec

---------------------------------------------------------------------------
(* Solvency.  Only a contract's own code takes from its address, and what  *)
(* that code takes it takes off what it owes.                              *)

EscrowOwed == Sum(EscrowHeld, EscrowId)
StreamOwed == Sum(StreamHeld, StreamId)

SolvencyInv ==
  /\ balance[EscrowContract] >= EscrowOwed
  /\ balance[StreamContract] >= StreamOwed

LEMMA IdsFinite == IsFiniteSet(EscrowId) /\ IsFiniteSet(StreamId)
BY FS_Interval, EscrowAssumption, StreamAssumption DEF EscrowId, StreamId

LEMMA HeldNat ==
  ASSUME VaultTypeOK
  PROVE  /\ EscrowHeld \in [EscrowId -> Nat] /\ EscrowOwed \in Nat
         /\ StreamHeld \in [StreamId -> Nat] /\ StreamOwed \in Nat
<1>1. EscrowHeld \in [EscrowId -> Nat]
  BY TokenAssumption
     DEF VaultTypeOK, EscrowTypeOK, EscrowHeld, EscrowRecord, NoEscrow, Open
<1>2. StreamHeld \in [StreamId -> Nat]
  BY DEF VaultTypeOK, StreamTypeOK, StreamHeld, Stream, NoStream
<1> QED BY <1>1, <1>2, SumNat, IdsFinite DEF EscrowOwed, StreamOwed

\* An escrow's amount, or a stream's deposit, changes: what the contract owes
\* changes by as much.
LEMMA EscrowOwedChange ==
  ASSUME VaultTypeOK, NEW i \in EscrowId, EscrowHeld'[i] \in Int,
         \A j \in EscrowId \ {i} : EscrowHeld'[j] = EscrowHeld[j]
  PROVE  EscrowOwed' = EscrowOwed - EscrowHeld[i] + EscrowHeld'[i]
<1>1. IntOn(EscrowHeld, EscrowId)
  BY HeldNat DEF IntOn
<1>2. Sum(EscrowHeld', EscrowId) = Sum(EscrowHeld, EscrowId) - EscrowHeld[i] + EscrowHeld'[i]
  BY <1>1, IdsFinite, SumChange
<1> QED BY <1>2 DEF EscrowOwed

LEMMA StreamOwedChange ==
  ASSUME VaultTypeOK, NEW i \in StreamId, StreamHeld'[i] \in Int,
         \A j \in StreamId \ {i} : StreamHeld'[j] = StreamHeld[j]
  PROVE  StreamOwed' = StreamOwed - StreamHeld[i] + StreamHeld'[i]
<1>1. IntOn(StreamHeld, StreamId)
  BY HeldNat DEF IntOn
<1>2. Sum(StreamHeld', StreamId) = Sum(StreamHeld, StreamId) - StreamHeld[i] + StreamHeld'[i]
  BY <1>1, IdsFinite, SumChange
<1> QED BY <1>2 DEF StreamOwed

\* Who signs for themselves is neither contract.
LEMMA VaultAddresses ==
  /\ EscrowContract \in Address /\ StreamContract \in Address
  /\ EscrowContract # StreamContract
  /\ EscrowContract \notin User /\ StreamContract \notin User
  /\ User \subseteq Address /\ Amount \subseteq Int
BY TokenAssumption, EscrowAssumption, StreamAssumption, VaultAssumption

\* What users do with their own tokens takes nothing from either contract.
LEMMA TokenStepSolvent == ASSUME VaultTypeOK, TokenNext PROVE
  /\ balance'[EscrowContract] >= balance[EscrowContract]
  /\ balance'[StreamContract] >= balance[StreamContract]
<1> USE VaultAddresses DEF VaultTypeOK
<1> DEFINE Kept2 == /\ balance'[EscrowContract] >= balance[EscrowContract]
                    /\ balance'[StreamContract] >= balance[StreamContract]
<1>1. ASSUME NEW u \in User, NEW to \in Address, NEW x \in Amount, DoTransfer(u, to, x)
      PROVE Kept2
  BY <1>1, TransferMoves DEF Moves
<1>2. ASSUME NEW u \in User, NEW x \in Amount, DoBurn(u, x) PROVE Kept2
  BY <1>2 DEF DoBurn, TokenTypeOK
<1>3. ASSUME NEW to \in Address, NEW x \in Amount, Mint(to, x) PROVE Kept2
  BY <1>3 DEF Mint, TokenTypeOK
<1>4. CASE UNCHANGED balance
  BY <1>4 DEF TokenTypeOK
<1> QED BY <1>1, <1>2, <1>3, <1>4
        DEF TokenNext, Initialize, SetAuthorized, Transfer, TransferFrom, Burn, BurnFrom, Approve

\* A deposit brings the contract what it adds to what is owed; a payment takes
\* no more than it takes off.
LEMMA EscrowStepSolvent ==
  ASSUME VaultTypeOK, EscrowNext, UNCHANGED streamVars, SolvencyInv
  PROVE  SolvencyInv'
<1> USE VaultAddresses DEF VaultTypeOK
<1>0. StreamOwed' = StreamOwed
  BY DEF streamVars, StreamOwed, StreamHeld
<1>1. ASSUME NEW d \in User, NEW b \in User, NEW r \in Recipient, NEW x \in Amount,
             NEW t \in Deadline, EscrowDeposit(d, r, b, x, t)
      PROVE SolvencyInv'
  <2>1. PICK i \in EscrowId : i = nextEscrow /\ escrows[i] = NoEscrow
    BY <1>1, EscrowAssumption DEF EscrowDeposit, EscrowTypeOK, EscrowId
  <2>2. /\ escrows'[i].state = "deposited" /\ escrows'[i].amount = x /\ x \in Int
        /\ \A j \in EscrowId \ {i} : escrows'[j] = escrows[j]
    BY <1>1, <2>1 DEF EscrowDeposit, EscrowTypeOK
  <2>3. /\ EscrowHeld[i] = 0 /\ EscrowHeld'[i] = x
        /\ \A j \in EscrowId \ {i} : EscrowHeld'[j] = EscrowHeld[j]
    BY <2>1, <2>2 DEF EscrowHeld, NoEscrow, Open
  <2>4. EscrowOwed' = EscrowOwed + x
    BY <2>2, <2>3, EscrowOwedChange, HeldNat
  <2>5. /\ balance'[EscrowContract] = balance[EscrowContract] + x
        /\ balance'[StreamContract] = balance[StreamContract]
    BY <1>1 DEF EscrowDeposit, Transfer, DoTransfer, Moved, TokenTypeOK
  <2> QED BY <1>0, <2>4, <2>5, HeldNat DEF SolvencyInv, TokenTypeOK
<1>2. ASSUME NEW i \in EscrowId, Open(escrows[i]), PayRecipient(i) \/ PayDepositor(i)
      PROVE SolvencyInv'
  <2>1. escrows[i] \in EscrowRecord
    BY <1>2, OpenEscrow DEF Open
  <2>2. PICK x \in Nat : x = escrows[i].amount
    BY <2>1, TokenAssumption DEF EscrowRecord
  <2>3. ~Open(escrows'[i]) /\ \A j \in EscrowId \ {i} : escrows'[j] = escrows[j]
    BY <1>2, <2>1 DEF PayRecipient, PayDepositor, EscrowTypeOK, EscrowRecord, Open
  <2>4. /\ EscrowHeld[i] = x /\ EscrowHeld'[i] = 0
        /\ \A j \in EscrowId \ {i} : EscrowHeld'[j] = EscrowHeld[j]
    BY <1>2, <2>2, <2>3 DEF EscrowHeld
  <2>5. EscrowOwed' = EscrowOwed - x
    BY <2>2, <2>4, EscrowOwedChange, HeldNat
  <2>6. Moves(balance, balance', EscrowContract, x)
    <3>1. escrows[i].recipient \in Address /\ escrows[i].depositor \in Address
      BY <2>1 DEF EscrowRecord
    <3> QED BY <1>2, <2>2, <3>1, TransferMoves DEF PayRecipient, PayDepositor, Transfer
  <2>7. /\ balance'[EscrowContract] >= balance[EscrowContract] - x
        /\ balance'[StreamContract] >= balance[StreamContract]
        /\ balance' \in [Address -> Nat]
    BY <2>6 DEF Moves
  <2> QED BY <1>0, <2>2, <2>5, <2>7, HeldNat DEF SolvencyInv, TokenTypeOK
<1>3. ASSUME NEW i \in EscrowId, NEW u \in User, RaiseDispute(i, u) PROVE SolvencyInv'
  <2>1. /\ escrows'[i].state = "disputed" /\ escrows[i].state = "deposited"
        /\ escrows'[i].amount = escrows[i].amount
        /\ \A j \in EscrowId \ {i} : escrows'[j] = escrows[j]
    BY <1>3, OpenEscrow DEF RaiseDispute, EscrowTypeOK, EscrowRecord
  <2>2. EscrowHeld' = EscrowHeld /\ balance' = balance
    BY <1>3, <2>1 DEF EscrowHeld, Open, RaiseDispute, tokenVars
  <2> QED BY <1>0, <2>2 DEF SolvencyInv, EscrowOwed
<1> QED BY <1>1, <1>2, <1>3 DEF EscrowNext, Release, Refund, Arbitrate, Open

LEMMA StreamStepSolvent ==
  ASSUME VaultTypeOK, StreamNext, UNCHANGED escrowVars, SolvencyInv
  PROVE  SolvencyInv'
<1> USE VaultAddresses DEF VaultTypeOK
<1>0. EscrowOwed' = EscrowOwed
  BY DEF escrowVars, EscrowOwed, EscrowHeld
\* The two ways a step of the contract changes what it owes.
<1>1. ASSUME NEW i \in StreamId, NEW x \in Nat, NEW u \in User,
             streams'[i].deposit = streams[i].deposit + x,
             \A j \in StreamId \ {i} : streams'[j] = streams[j],
             DoTransfer(u, StreamContract, x)
      PROVE SolvencyInv'
  <2>1. /\ StreamHeld[i] \in Nat /\ StreamHeld'[i] = StreamHeld[i] + x
        /\ \A j \in StreamId \ {i} : StreamHeld'[j] = StreamHeld[j]
    <3>1. StreamHeld[i] \in Nat
      BY HeldNat
    <3> QED BY <1>1, <3>1 DEF StreamHeld
  <2>2. StreamOwed' = StreamOwed + x
    BY <2>1, StreamOwedChange, HeldNat
  <2>3. /\ balance'[StreamContract] = balance[StreamContract] + x
        /\ balance'[EscrowContract] = balance[EscrowContract]
    BY <1>1 DEF DoTransfer, Moved, TokenTypeOK
  <2> QED BY <1>0, <2>2, <2>3, HeldNat DEF SolvencyInv, TokenTypeOK
<1>2. ASSUME NEW i \in StreamId, NEW x \in Nat,
             streams'[i].deposit = streams[i].deposit - x, x <= streams[i].deposit,
             \A j \in StreamId \ {i} : streams'[j] = streams[j],
             Moves(balance, balance', StreamContract, x)
      PROVE SolvencyInv'
  <2>1. /\ StreamHeld[i] \in Nat /\ StreamHeld'[i] = StreamHeld[i] - x
        /\ \A j \in StreamId \ {i} : StreamHeld'[j] = StreamHeld[j]
    <3>1. StreamHeld[i] \in Nat
      BY HeldNat
    <3> QED BY <1>2, <3>1 DEF StreamHeld
  <2>2. StreamOwed' = StreamOwed - x
    BY <2>1, StreamOwedChange, HeldNat
  <2>3. /\ balance'[StreamContract] >= balance[StreamContract] - x
        /\ balance'[EscrowContract] >= balance[EscrowContract]
        /\ balance' \in [Address -> Nat]
    BY <1>2 DEF Moves
  <2> QED BY <1>0, <2>2, <2>3, HeldNat DEF SolvencyInv, TokenTypeOK
<1>3. ASSUME NEW u \in User, NEW r \in Recipient, NEW x \in Amount, NEW rate \in Rate,
             CreateStream(u, r, x, rate)
      PROVE SolvencyInv'
  <2>1. PICK i \in StreamId : i = nextStream /\ streams[i] = NoStream
    BY <1>3, StreamAssumption DEF CreateStream, StreamTypeOK, StreamId
  <2>2. /\ x \in Nat /\ streams'[i].deposit = x
        /\ \A j \in StreamId \ {i} : streams'[j] = streams[j]
    BY <1>3, <2>1 DEF CreateStream, StreamTypeOK
  <2>3. streams'[i].deposit = streams[i].deposit + x
    BY <2>1, <2>2 DEF NoStream
  <2> QED BY <1>1, <1>3, <2>1, <2>2, <2>3 DEF CreateStream, Transfer
<1>4. ASSUME NEW i \in StreamId, NEW x \in Amount, TopUp(i, x) PROVE SolvencyInv'
  <2>1. streams[i] \in Stream
    BY <1>4, LiveStream DEF TopUp
  <2>2. /\ x \in Nat /\ streams[i].sender \in User
        /\ streams'[i].deposit = streams[i].deposit + x
        /\ \A j \in StreamId \ {i} : streams'[j] = streams[j]
    BY <1>4, <2>1 DEF TopUp, StreamTypeOK, Stream
  <2> QED BY <1>1, <1>4, <2>2 DEF TopUp, Transfer
<1>5. ASSUME NEW i \in StreamId, Pause(i) \/ Resume(i) PROVE SolvencyInv'
  <2>1. streams[i] \in Stream
    BY <1>5, LiveStream DEF Pause, Resume, Live
  <2>2. streams'[i].deposit = streams[i].deposit /\ \A j \in StreamId \ {i} : streams'[j] = streams[j]
    BY <1>5, <2>1 DEF Pause, Resume, StreamTypeOK, Stream
  <2>3. StreamHeld' = StreamHeld /\ balance' = balance
    BY <1>5, <2>2 DEF StreamHeld, Pause, Resume, tokenVars
  <2> QED BY <1>0, <2>3 DEF SolvencyInv, StreamOwed
<1>6. ASSUME NEW i \in StreamId, Cancel(i) \/ Withdraw(i) PROVE SolvencyInv'
  <2>1. streams[i] \in Stream
    BY <1>6, LiveStream DEF Cancel, Withdraw
  <2>2. PICK x \in Nat : x = Accrued(streams[i])
    BY <2>1, AccruedBounds
  <2>3. PICK y \in Nat : y = streams[i].deposit - x
    BY <2>1, <2>2, AccruedBounds DEF Stream
  <2>4. streams[i].deposit \in Nat /\ streams[i].recipient \in Address
    BY <2>1 DEF Stream
  <2>5. CASE Cancel(i)
    <3>1. Payout(streams[i], x, y)
      BY <2>2, <2>3, <2>5 DEF Cancel
    <3>2. Moves(balance, balance', StreamContract, x + y)
      BY <2>1, <3>1, PayoutMoves
    <3>3. /\ streams'[i].deposit = 0
          /\ \A j \in StreamId \ {i} : streams'[j] = streams[j]
      BY <2>1, <2>5 DEF Cancel, StreamTypeOK, Stream
    <3> QED BY <1>2, <2>3, <2>4, <3>2, <3>3
  <2>6. CASE Withdraw(i)
    <3>1. Moves(balance, balance', StreamContract, x)
      BY <2>2, <2>4, <2>6, TransferMoves DEF Withdraw, Transfer
    <3>2. /\ streams'[i].deposit = streams[i].deposit - x
          /\ \A j \in StreamId \ {i} : streams'[j] = streams[j]
      BY <2>1, <2>2, <2>6 DEF Withdraw, StreamTypeOK, Stream
    <3> QED BY <1>2, <2>3, <2>4, <3>1, <3>2
  <2> QED BY <1>6, <2>5, <2>6
<1> QED BY <1>3, <1>4, <1>5, <1>6 DEF StreamNext

\* The escrow contract always has the tokens of the open escrows, the streaming
\* contract the deposits of its streams, whatever the other and the users do.
THEOREM AlwaysSolvent == Spec => []Solvent
<1>1. Init => SolvencyInv
  <2> SUFFICES ASSUME Init PROVE SolvencyInv
    OBVIOUS
  <2>1. \A i \in EscrowId : EscrowHeld[i] = 0
    BY DEF Init, EscrowInit, EscrowHeld, NoEscrow, Open
  <2>2. \A i \in StreamId : StreamHeld[i] = 0
    BY DEF Init, StreamInit, StreamHeld, NoStream
  <2>3. EscrowOwed = 0 /\ StreamOwed = 0
    BY <2>1, <2>2, SumZero, IdsFinite DEF EscrowOwed, StreamOwed
  <2> QED BY <2>3, VaultAddresses DEF SolvencyInv, Init, TokenInit
<1>2. VaultTypeOK /\ VaultTypeOK' /\ SolvencyInv /\ [Next]_vars => SolvencyInv'
  <2> SUFFICES ASSUME VaultTypeOK, VaultTypeOK', SolvencyInv, [Next]_vars PROVE SolvencyInv'
    OBVIOUS
  <2>1. CASE TokenNext /\ UNCHANGED <<escrowVars, streamVars>>
    <3>1. EscrowOwed' = EscrowOwed /\ StreamOwed' = StreamOwed
      BY <2>1 DEF escrowVars, streamVars, EscrowOwed, EscrowHeld, StreamOwed, StreamHeld
    <3>2. /\ balance'[EscrowContract] >= balance[EscrowContract]
          /\ balance'[StreamContract] >= balance[StreamContract]
      BY <2>1, TokenStepSolvent
    <3>3. balance \in [Address -> Nat] /\ balance' \in [Address -> Nat]
      BY DEF VaultTypeOK, TokenTypeOK
    <3> QED BY <3>1, <3>2, <3>3, HeldNat, VaultAddresses DEF SolvencyInv
  <2>2. CASE UNCHANGED <<balance, escrows, streams>>
    BY <2>2 DEF SolvencyInv, EscrowOwed, EscrowHeld, StreamOwed, StreamHeld
  <2> QED BY <2>1, <2>2, EscrowStepSolvent, StreamStepSolvent
          DEF Next, vars, tokenVars, escrowVars, streamVars, StreamTick
<1>3. SolvencyInv => Solvent
  BY DEF SolvencyInv, Solvent, EscrowOwed, StreamOwed, Sum
<1> QED BY <1>1, <1>2, <1>3, VaultTypes, PTL DEF Spec

=============================================================================
