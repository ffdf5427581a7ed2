--------------------------- MODULE LedgerIngestion ---------------------------
(***************************************************************************)
(* LedgerIngestionWorker of ledger/ingest.ts: a Horizon stream for each    *)
(* registered wallet, opened by refreshes that await the list of wallets   *)
(* and may overlap each other, a stop and a start.                         *)
(***************************************************************************)
EXTENDS Naturals, FiniteSets

CONSTANTS
  Address,    \* addresses of wallets
  Refresh,    \* refreshes that overlap
  MaxStreams  \* bound: the streams opened

ASSUME IngestionAssumption == IsFiniteSet(Address) /\ MaxStreams \in Nat

VARIABLES
  stopped,     \* with the timer, which runs while it is FALSE
  registered,  \* the wallets listWalletAddresses() knows
  refreshing,  \* the refreshes that await it
  streams,     \* per address: the stream that is registered, 0 if there is none
  open,        \* the streams that deliver messages, with their address
  opened       \* how many were opened

ingestionVars == <<stopped, registered, refreshing, streams, open, opened>>

IngestionTypeOK ==
  /\ stopped \in BOOLEAN /\ registered \subseteq Address
  /\ refreshing \subseteq Refresh
  /\ streams \in [Address -> 0..opened]
  /\ open \subseteq (1..opened) \X Address
  /\ opened \in Nat

IngestionInit ==
  /\ stopped = TRUE /\ registered = {} /\ refreshing = {}
  /\ streams = [a \in Address |-> 0] /\ open = {} /\ opened = 0

RegisterWallet(a) ==
  /\ a \notin registered
  /\ registered' = registered \cup {a}
  /\ UNCHANGED <<stopped, refreshing, streams, open, opened>>

StartIngestion(r) ==
  /\ stopped /\ stopped' = FALSE
  /\ r \notin refreshing /\ refreshing' = refreshing \cup {r}
  /\ UNCHANGED <<registered, streams, open, opened>>

\* The interval elapses.
RefreshTick(r) ==
  /\ ~stopped
  /\ r \notin refreshing /\ refreshing' = refreshing \cup {r}
  /\ UNCHANGED <<stopped, registered, streams, open, opened>>

Watched == {a \in Address : streams[a] # 0}

\* One stream each, numbered in some order, for the addresses of a set.
OpenAll(added) ==
  \E number \in [added -> (opened + 1)..(opened + Cardinality(added))] :
    /\ \A a, b \in added : a # b => number[a] # number[b]
    /\ streams' = [a \in Address |-> IF a \in added THEN number[a] ELSE streams[a]]
    /\ open' = open \cup {<<number[a], a>> : a \in added}
    /\ opened' = opened + Cardinality(added)

\* The list has arrived, without a look at what was opened meanwhile.
ListedBlindly(r) ==
  /\ r \in refreshing /\ refreshing' = refreshing \ {r}
  /\ IF stopped
     THEN UNCHANGED <<streams, open, opened>>
     ELSE \E added \in SUBSET registered : opened + Cardinality(added) <= MaxStreams /\ OpenAll(added)
  /\ UNCHANGED <<stopped, registered>>

\* The list has arrived: a stream for each address without one, or, if opening
\* one throws, for those before it.
Listed(r) ==
  /\ r \in refreshing /\ refreshing' = refreshing \ {r}
  /\ IF stopped
     THEN UNCHANGED <<streams, open, opened>>
     ELSE \E added \in SUBSET (registered \ Watched) :
            opened + Cardinality(added) <= MaxStreams /\ OpenAll(added)
  /\ UNCHANGED <<stopped, registered>>

ListThrows(r) ==
  /\ r \in refreshing /\ refreshing' = refreshing \ {r}
  /\ UNCHANGED <<stopped, registered, streams, open, opened>>

\* onerror: closed, for the next refresh to open again, if it is still registered.
StreamFails(s) ==
  /\ IF streams[s[2]] = s[1]
     THEN streams' = [streams EXCEPT ![s[2]] = 0] /\ open' = open \ {s}
     ELSE UNCHANGED <<streams, open>>
  /\ UNCHANGED <<stopped, registered, refreshing, opened>>

StopIngestion ==
  /\ ~stopped /\ stopped' = TRUE
  /\ open' = {s \in open : streams[s[2]] # s[1]}
  /\ streams' = [a \in Address |-> 0]
  /\ UNCHANGED <<registered, refreshing, opened>>

IngestionNext ==
  \/ \E a \in Address : RegisterWallet(a)
  \/ \E r \in Refresh : StartIngestion(r) \/ RefreshTick(r) \/ Listed(r) \/ ListThrows(r)
  \/ \E s \in open : StreamFails(s)
  \/ StopIngestion

IngestionSpec == IngestionInit /\ [][IngestionNext]_ingestionVars

\* However refreshes, failures, stops and starts overlap: the streams that deliver
\* are those registered, so that none leaks, no wallet has two, and none is left
\* open by a stop.
OneStreamPerWallet ==
  /\ open = {<<streams[a], a>> : a \in Watched}
  /\ stopped => open = {}

=============================================================================
