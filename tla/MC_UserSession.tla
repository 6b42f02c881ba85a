-------------------------- MODULE MC_UserSession --------------------------
(* Instances of UserSession.                                               *)
EXTENDS UserSession, TLC

Symmetry == Permutations(Calls)
=============================================================================
