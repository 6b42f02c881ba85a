------------------------------ MODULE MC_AuthTabs ------------------------------
(* Instance of AuthTabs for TLC.                                           *)
EXTENDS AuthTabs
================================================================================
