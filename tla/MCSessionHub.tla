---------------------------- MODULE MCSessionHub ----------------------------
(* SessionHub on small instances: see the Hub*.cfg files. *)
EXTENDS SessionHub, TLC

\* Clients differ only in name.
Clients == Permutations(Client)

=============================================================================
