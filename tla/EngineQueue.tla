---------------------------- MODULE EngineQueue ----------------------------
(***************************************************************************)
(* What the three engine adapters (daemon/src/engines/*.rs) share: the     *)
(* messages a client sends while a turn runs wait in a list, which clients *)
(* address by position, and a handler answers with the adapter's new       *)
(* state, the frames for the engine's process and the events for the       *)
(* clients.  A position is an option, written as a set of at most one      *)
(* element; an `index` or `to` that a client left out is <<>>.             *)
(***************************************************************************)
EXTENDS Integers, SequencesExt

\* A client's index counts from 0, or from the end when it is negative; the
\* positions here count from 1.
QueueIndex(index, len) ==
    LET i == IF index = <<>> THEN 0 ELSE index[1]
        at == IF i < 0 THEN len + i ELSE i
    IN  {at + 1} \cap 1..len

QueueMoveTarget(index, to, len) ==
    {move \in QueueIndex(index, len) \X QueueIndex(to, len) :
        to # <<>> /\ move[1] # move[2]}

ToFront(s, i) == <<s[i]>> \o RemoveAt(s, i)

Moved(s, from, place) == InsertAt(RemoveAt(s, from), place, s[from])

Frame(t, ms) == [t |-> t, ms |-> ms, n |-> 0]
Numbered(t, n) == [t |-> t, ms |-> <<>>, n |-> n]

\* Output, with the adapter's new state.
Output(a, frames, events) == [a |-> a, frames |-> frames, events |-> events]
Quiet(a) == Output(a, <<>>, <<>>)

\* A queued message is taken back, or goes to another place.
Unqueued(a, field, index) ==
    LET s == a[field]
    IN  IF \E i \in QueueIndex(index, Len(s)) : TRUE
        THEN LET i == CHOOSE i \in QueueIndex(index, Len(s)) : TRUE
             IN  Output([a EXCEPT ![field] = RemoveAt(s, i)], <<>>,
                        <<Frame("unqueued", <<s[i]>>)>>)
        ELSE Quiet(a)

QueueMoved(a, field, index, to) ==
    LET s == a[field]
        moves == QueueMoveTarget(index, to, Len(s))
    IN  IF moves = {}
        THEN Quiet(a)
        ELSE LET m == CHOOSE m \in moves : TRUE
             IN  Quiet([a EXCEPT ![field] = Moved(s, m[1], m[2])])

\* One frame per message.
Each(t, ms) == [i \in 1..Len(ms) |-> Frame(t, <<ms[i]>>)]

\* One answer per call, in any order.
Answers(calls) ==
    LET s == SetToSeq(calls)
    IN  [i \in 1..Len(s) |-> Numbered("answer", s[i])]

\* What a steer takes of the messages `s` that wait, and what it leaves: all of
\* them, or the one that `is`, the position of its `index`, names.
Picked(s, index, is) ==
    IF index = <<>> THEN [out |-> s, left |-> <<>>]
    ELSE IF is = {} THEN [out |-> <<>>, left |-> s]
    ELSE LET i == CHOOSE i \in is : TRUE
         IN  [out |-> <<s[i]>>, left |-> RemoveAt(s, i)]
=============================================================================
