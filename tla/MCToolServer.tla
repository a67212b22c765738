--------------------------- MODULE MCToolServer ---------------------------
(* ToolServer with the engine and another thread that use a server. *)
EXTENDS ToolServer

=============================================================================
