----------------------------- MODULE MCContracts -----------------------------
(* Three signatories, lists with and without a repeated one, delays short and  *)
(* past the end of a u64.                                                      *)
EXTENDS Contracts, TLC

CONSTANTS a, b, c

Lists == {<<a, b>>, <<a, a>>, <<b, c>>, <<c>>}
PlusMinus == {-1, 1, 2}
MinusTwo == {-1, 2}
Limits == {-1, 1, 3}
=============================================================================
