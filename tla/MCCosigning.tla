---------------------------- MODULE MCCosigning -----------------------------
(* Payments of 1 and 2 to two destinations and an invocation, under one       *)
(* transaction a tick, two in two ticks, limits on what is spent, and every   *)
(* rule without a total.                                                      *)
EXTENDS Cosigning

CONSTANTS single, batch, xlm, usd, shop, other, market

Pay(to, n) == [destination |-> to, sends |-> xlm, assets |-> {xlm}, amount |-> n, invokes |-> NoAddress]
Swap == [destination |-> shop, sends |-> xlm, assets |-> {xlm, usd}, amount |-> 1, invokes |-> NoAddress]
Invoke == [destination |-> NoAddress, sends |-> NoAddress, assets |-> {}, amount |-> 0, invokes |-> market]

T1 == [operations |-> <<Pay(shop, 2)>>, fee |-> 1, validFor |-> 1]
T2 == [operations |-> <<Pay(shop, 1), Swap>>, fee |-> 1, validFor |-> 1]
T3 == [operations |-> <<Invoke, Pay(other, 1)>>, fee |-> 2, validFor |-> 0]

Spend == [type |-> "spend_limit", asset |-> xlm, maxPerTx |-> 2, maxDaily |-> 3]
Session == [type |-> "session_key", maxSpend |-> 3, expiresAt |-> 0]
Burst == [type |-> "velocity", maxTransactions |-> 1, window |-> 1]
Hourly == [type |-> "velocity", maxTransactions |-> 2, window |-> 2]
Static == <<
  [type |-> "allowlist", destinations |-> {shop}],
  [type |-> "blocklist", destinations |-> {other}],
  [type |-> "asset_allowlist", assets |-> {xlm}],
  [type |-> "timebounds", maxWindow |-> 1, allowUnbounded |-> TRUE],
  [type |-> "max_operations", maxOperations |-> 1],
  [type |-> "fee_limit", maxFee |-> 1],
  [type |-> "contract_allowlist", allowedContracts |-> {}] >>

MCRule == {Spend, Session, Burst, Hourly} \cup {Static[i] : i \in DOMAIN Static}
MCRuleList == {<<Hourly>>, <<Hourly, Burst>>, Static \o <<Burst>>, <<Hourly, Spend>>}
Priced == {<<Spend>>, <<Session>>}
MCOperation == {Pay(shop, 2), Pay(shop, 1), Pay(other, 1), Swap, Invoke}
MCTransaction == {T1, T2, T3}
MCTransactionsOf == [r \in Request |-> IF r \in BatchRequest THEN <<T1, T3>> ELSE <<T2>>]
=============================================================================
