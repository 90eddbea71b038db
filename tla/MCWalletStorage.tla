-------------------------- MODULE MCWalletStorage --------------------------
(***************************************************************************)
(* Instances of the wallet storage for TLC.  Callers, actions and change   *)
(* coins are interchangeable, so a run of state invariants may be reduced  *)
(* by these symmetries; a run with liveness properties may not.            *)
(***************************************************************************)
EXTENDS WalletStorage, TLC

Symmetry ==
  Permutations(Callers) \cup Permutations(Txs) \cup Permutations(ChangeCoins)
=============================================================================
