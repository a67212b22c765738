---------------------------- MODULE MessageFlow ----------------------------
(***************************************************************************)
(* What an engine's session promises about the messages sent to it: each   *)
(* is handed to the engine once, or the user has it back, or is told it was*)
(* not sent, or it goes with the process it waited for.  Whichever happens *)
(* first is final.  Two steers at once muddle their messages: nothing is   *)
(* promised of those any more.                                             *)
(***************************************************************************)
CONSTANT Msg
VARIABLE fate

Final == {"given", "taken", "refused", "lost", "muddled"}

Init == fate = [m \in Msg |-> "unsent"]

\* One step of the session may settle several messages at once.
Next ==
    \E sent, settled \in SUBSET Msg :
        /\ \A m \in sent : fate[m] = "unsent"
        /\ \A m \in settled : fate[m] = "live"
        /\ \E outcome \in [settled -> Final] :
             fate' = [m \in Msg |-> CASE m \in sent -> "live"
                                      [] m \in settled -> outcome[m]
                                      [] OTHER -> fate[m]]

Spec == Init /\ [][Next]_fate
=============================================================================
