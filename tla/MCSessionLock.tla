---------------------------- MODULE MCSessionLock ----------------------------
(* SessionLock on small instances: each engine in a process of its own. *)
EXTENDS SessionLock, TLC

CONSTANTS e1, e2, e3, p1, p2, p3

\* Each engine in a process of its own.
Apart == [e \in Engine |-> CASE e = e1 -> p1 [] e = e2 -> p2 [] e = e3 -> p3]

=============================================================================
