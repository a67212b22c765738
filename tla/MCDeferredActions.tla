------------------------- MODULE MCDeferredActions -------------------------
(* DeferredActions with two calls, told apart by nothing but their identity. *)
EXTENDS DeferredActions, TLC
Calls == Permutations(Call)
=============================================================================
