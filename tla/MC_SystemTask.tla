--------------------------- MODULE MC_SystemTask ---------------------------
(* Small instances of SystemTask: two runner ids, two task rows.           *)
EXTENDS SystemTask
=============================================================================
