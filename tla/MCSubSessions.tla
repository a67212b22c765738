--------------------------- MODULE MCSubSessions ---------------------------
(* SubSessions with two calls of the parent at once. *)
EXTENDS SubSessions
=============================================================================
