----------------------- MODULE MC_SubscriptionBilling -----------------------
(* Instances of SubscriptionBilling.                                         *)
EXTENDS SubscriptionBilling, TLC

CONSTANTS r1, r2

OneSub == {1}
TwoSubs == {1, 2}
Amounts == {0, 1, 2}

\* Requests differ in name only where none is of the playground.
Symmetry == Permutations(Requests)
=============================================================================
