---------------------------- MODULE MCTokenVaults ----------------------------
(* Two users, and two escrows or two streams over one token of supply two.   *)
EXTENDS TokenVaults, TLC

Users == Permutations(User)
Units == {-1, 1}

\* Bound: a behaviour uses one of the two vaults.  Beside escrows: allowances
\* and freezes, in two instants; beside streams: two streams in two instants, or
\* one stream and freezes in three.
Streams == Cardinality({i \in StreamId : streams[i].state # "none"})
OneVault ==
  \/ nextStream = 0 /\ now <= 1
  \/ /\ nextEscrow = 0 /\ \A p \in DOMAIN allowance : allowance[p] = NoAllowance
     /\ Streams <= 1 \/ (now <= 1 /\ frozen = {})
=============================================================================
