-------------------------- MODULE MCSessionJournal --------------------------
(* SessionJournal on a conversation of a few entries with one fork. *)
EXTENDS SessionJournal

=============================================================================
