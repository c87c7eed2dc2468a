--------------------------- MODULE MCUsageLedger ----------------------------
(* The instances of MCUsageLifecycle, checked against the ledger. *)
EXTENDS MCUsageLifecycle, UsageRefinement
=============================================================================
