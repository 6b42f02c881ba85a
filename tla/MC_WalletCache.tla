--------------------------- MODULE MC_WalletCache ---------------------------
(* Instances of WalletCache.                                                 *)
EXTENDS WalletCache, TLC

Symmetry == Permutations(Threads)
=============================================================================
