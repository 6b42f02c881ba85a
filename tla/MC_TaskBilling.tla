---------------------------- MODULE MC_TaskBilling ----------------------------
(* TaskBilling for TLC: two workers.            *)
EXTENDS TaskBilling
=============================================================================
