---------------------------- MODULE Conversation ----------------------------
(***************************************************************************)
(* What the storage of a conversation promises, whatever the file looks    *)
(* like.  `shown` is the conversation the engine has, `kept` the one a     *)
(* restart would give back, `safe` what a finished save has stored: not    *)
(* even a power cut takes that away.  The promise is void once the storage *)
(* is `spoilt`: nothing can be read from it.                               *)
(* SessionJournal implements it with a file of lines.                      *)
(***************************************************************************)
CONSTANT Entries
VARIABLES shown, kept, safe, spoilt

Init == shown = {} /\ kept = {} /\ safe = {} /\ ~spoilt

\* An entry joins the conversation: it is not stored yet.
Say ==
    /\ \E e \in shown' \ shown : e \in Entries /\ shown' = shown \cup {e}
    /\ UNCHANGED <<kept, safe, spoilt>>

\* Entries are deleted: the storage may forget them from now on.
Prune ==
    /\ shown' \subseteq shown /\ shown' # shown
    /\ safe' = safe \cap shown'
    /\ UNCHANGED <<kept, spoilt>>

\* A piece of a save, which has the safe entries before it: it stores shown
\* entries only, and of the stored ones it drops those no longer shown.
Store ==
    /\ safe \subseteq shown
    /\ kept' \ kept \subseteq shown
    /\ (kept \ kept') \cap shown = {}
    /\ spoilt => kept' = kept
    /\ UNCHANGED <<shown, safe, spoilt>>

\* A save stops where nothing can be read any more.
Spoil == spoilt' /\ kept' = {} /\ UNCHANGED <<shown, safe>>

\* The end of a save: the conversation is stored, all of it, for good.
Commit ==
    /\ spoilt \/ kept = shown
    /\ safe' = shown
    /\ UNCHANGED <<shown, kept, spoilt>>

\* A kill, or a power cut: what is safe stays, if anything can be read, and
\* something deleted just before may be back.
Lose ==
    /\ shown' = {} /\ UNCHANGED safe
    /\ IF spoilt' THEN kept' = {} ELSE kept' \subseteq Entries /\ safe \subseteq kept'

\* A restart: the conversation is what was kept.
Restore == ~spoilt /\ shown = {} /\ shown' = kept /\ UNCHANGED <<kept, safe, spoilt>>

Next == Say \/ Prune \/ Store \/ Spoil \/ Commit \/ Lose \/ Restore

Spec == Init /\ [][Next]_<<shown, kept, safe, spoilt>>

=============================================================================
