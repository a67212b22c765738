--------------------------- MODULE MCUsageLedger ---------------------------
(* UsageLedger with a session of each kind, of which a few turns are made. *)
EXTENDS UsageLedger
=============================================================================
