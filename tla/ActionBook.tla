----------------------------- MODULE ActionBook -----------------------------
(***************************************************************************)
(* What the daemon promises about deferred actions: one that was recorded  *)
(* is open until it is decided, may be put away and taken back before that,*)
(* and is started at most once, by a decision.  Once it is gone (decided,  *)
(* or put away for too long) it is never offered again, whatever crashes.  *)
(* An action whose decision could not be written is void: nothing is       *)
(* promised of it any more.                                                *)
(***************************************************************************)
EXTENDS Naturals

CONSTANT Action
VARIABLES
    state,
    started     \* how often

Steps == {<<"new", "new">>, <<"new", "open">>, <<"new", "gone">>,
          <<"open", "open">>, <<"open", "closed">>, <<"open", "gone">>,
          <<"closed", "closed">>, <<"closed", "open">>, <<"closed", "gone">>,
          <<"gone", "gone">>,
          <<"new", "void">>, <<"open", "void">>, <<"closed", "void">>, <<"void", "void">>}

Init == state = [a \in Action |-> "new"] /\ started = [a \in Action |-> 0]

\* A restart may let go of several actions at once.
Moves ==
    /\ \A a \in Action : <<state[a], state'[a]>> \in Steps
    /\ DOMAIN state' = Action
    /\ UNCHANGED started

Starts ==
    \E a \in Action :
        /\ (state[a] = "gone" /\ started[a] = 0) \/ state[a] = "void"
        /\ started' = [started EXCEPT ![a] = @ + 1]
        /\ UNCHANGED state

Next == Moves \/ Starts
Spec == Init /\ [][Next]_<<state, started>>
=============================================================================
