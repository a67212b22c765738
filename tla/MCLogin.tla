------------------------------ MODULE MCLogin ------------------------------
(* Login with two processes: the daemon with an engine and a second thread *)
(* that checks the session, and a process of one engine.                   *)
EXTENDS Login, TLC

CONSTANTS daemon, cli, gateway, e1, e2

Home == (gateway :> daemon) @@ (e1 :> daemon) @@ (e2 :> cli)
=============================================================================
