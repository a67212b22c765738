--------------------------- MODULE MCEngineThread ---------------------------
(* EngineThread with a few messages and ops for each of the three engines. *)
EXTENDS EngineThread

=============================================================================
