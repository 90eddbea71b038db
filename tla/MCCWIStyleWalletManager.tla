---------------------- MODULE MCCWIStyleWalletManager ----------------------
(* Instances of the CWI-style wallet manager for TLC.                      *)
EXTENDS CWIStyleWalletManager, TLC

CONSTANTS phone, laptop, p1, p2, k1, k2, c1, c2

Symmetry == Permutations(Devices) \cup Permutations(Calls) \cup Permutations(Passwords)

=============================================================================
