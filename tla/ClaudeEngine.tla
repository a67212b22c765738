---------------------------- MODULE ClaudeEngine ----------------------------
(***************************************************************************)
(* The Claude Code adapter (daemon/src/engines/claude.rs) and, external,   *)
(* the CLI it drives.  A message sent between turns is written at once; one*)
(* sent during a turn is held, until the turn ends and the CLI has nothing *)
(* left to run, or until the user steers it into the turn.  Steering first *)
(* moves a foreground subagent to the background, and the messages wait    *)
(* for that.  Left out: what only words an event (interrupting, steered,   *)
(* limit_hit), and a CLI echo that matches no message written.             *)
(***************************************************************************)
EXTENDS EngineQueue

NoSteering == [frames |-> <<>>, waiting |-> 0, late |-> FALSE]

\* `new`, with a conversation whose id the daemon chose or reopens.
Fresh(mode) ==
    [mode |-> mode, active |-> FALSE, queued |-> {}, held |-> <<>>,
     steering |-> NoSteering, subagent |-> FALSE, approvals |-> {}]

Busy(a) == a.active

\* The messages it has yet to write to the CLI.
Waiting(a) == a.steering.frames \o a.held

-----------------------------------------------------------------------------
\* The steered messages go out once the subagent is in the background, the
\* wait is over (late) or the turn has ended.
SteerReady(r) ==
    LET steering == r.a.steering
    IN  IF steering.frames # <<>>
           /\ (steering.waiting = 0 \/ ~r.a.active \/ steering.late)
        THEN Output([r.a EXCEPT !.steering = NoSteering],
                    r.frames \o Each("now", steering.frames), r.events)
        ELSE r

\* The messages picked are the CLI's from now on, in an order nothing here tells.
Released(a, picked) ==
    [a EXCEPT !.held = picked.left, !.queued = @ \cup ToSet(picked.out)]

\* Where `index`, which counts the CLI's own messages first, is among the held.
HeldIndex(a, index) ==
    LET fixed == Cardinality(a.queued)
    IN  {i - fixed : i \in {j \in QueueIndex(index, fixed + Len(a.held)) : j > fixed}}

\* Between turns a message goes to the CLI at once.
UserMessage(a, m) ==
    IF a.active
    THEN Quiet([a EXCEPT !.held = Append(@, m)])
    ELSE Output(a, <<Frame("user", <<m>>)>>, <<>>)

Approve(a, calls) ==
    LET known == calls \cap a.approvals
    IN  Output([a EXCEPT !.approvals = @ \ known], Answers(known), <<>>)

\* A held message can be put first before the turn is stopped.
Interrupt(a, index) ==
    LET first == HeldIndex(a, index)
        held == IF first = {} THEN a.held ELSE ToFront(a.held, CHOOSE i \in first : TRUE)
    IN  IF a.active
        THEN Output([a EXCEPT !.held = held], <<Frame("interrupt", <<>>)>>, <<>>)
        ELSE Quiet(a)

\* (Slip: a second steer takes the place of the one that waits for its moves.)
SteersAnew(a, index) ==
    LET picked == Picked(a.held, index, HeldIndex(a, index))
    IN  IF ~a.active \/ picked.out = <<>>
        THEN Quiet(a)
        ELSE Quiet([Released(a, picked) EXCEPT
                        !.steering = [frames |-> picked.out, waiting |-> 1, late |-> FALSE]])

Steer(a, index) ==
    LET picked == Picked(a.held, index, HeldIndex(a, index))
        b == Released(a, picked)
    IN  IF ~a.active \/ picked.out = <<>>
        THEN Quiet(a)
        ELSE IF a.steering.frames # <<>>
        THEN Quiet([b EXCEPT !.steering.frames = @ \o picked.out])
        ELSE IF a.subagent
        THEN Output([b EXCEPT !.steering = [frames |-> picked.out, waiting |-> 1,
                                            late |-> FALSE]],
                    <<Frame("background_tasks", <<>>)>>, <<>>)
        ELSE Output(b, Each("now", picked.out), <<>>)

Unqueue(a, index) ==
    LET is == HeldIndex(a, index)
    IN  IF is = {} THEN Quiet(a)
        ELSE Unqueued(a, "held", <<(CHOOSE i \in is : TRUE) - 1>>)

\* Only the held messages move, and only among themselves.
QueueMove(a, index, to) ==
    LET fixed == Cardinality(a.queued)
        moves == {m \in QueueMoveTarget(index, to, fixed + Len(a.held)) :
                    m[1] > fixed /\ m[2] > fixed}
    IN  IF moves = {} THEN Quiet(a)
        ELSE LET m == CHOOSE m \in moves : TRUE
             IN  Quiet([a EXCEPT !.held = Moved(@, m[1] - fixed, m[2] - fixed)])

EncodeOp(a, op) ==
    CASE op.op = "user_message" -> UserMessage(a, op.m)
      [] op.op = "approve" -> Approve(a, op.calls)
      [] op.op = "interrupt" -> Interrupt(a, op.index)
      [] op.op = "steer" -> Steer(a, op.index)
      [] op.op = "unqueue" -> Unqueue(a, op.index)
      [] op.op = "queue_move" -> QueueMove(a, op.index, op.to)
      [] op.op = "set_approval_mode" -> Quiet([a EXCEPT !.mode = op.mode])
      [] OTHER -> Quiet(a)

Encode(a, op) == SteerReady(EncodeOp(a, op))

\* A mode switch needs a new process when it enters or leaves full access.
RestartFor(a, op) == op.op = "set_approval_mode" /\ (op.mode = "full") # (a.mode = "full")

ModeAppliesLive == TRUE

-----------------------------------------------------------------------------
\* (Slip: what is held waits for the next op.)
EndsTurnOnly(a) == Output([a EXCEPT !.active = FALSE], <<>>, <<Frame("ready", <<>>)>>)

\* The turn ended: the next held message starts the next one, unless the CLI
\* already has messages to run.
OnTurnEnd(a) ==
    LET b == [a EXCEPT !.active = FALSE]
        ready == <<Frame("ready", <<>>)>>
    IN  IF b.queued = {} /\ b.held # <<>>
        THEN Output([b EXCEPT !.held = Tail(@), !.queued = {Head(b.held)}],
                    <<Frame("user", <<Head(b.held)>>)>>, ready)
        ELSE Output(b, <<>>, ready)

\* The CLI's echo of the messages it took in.
OnUser(a, ms) == Quiet([a EXCEPT !.queued = @ \ ToSet(ms)])

OnControlRequest(a, call) ==
    Output([a EXCEPT !.approvals = @ \cup {call}], <<>>,
           <<Numbered("approval_request", call)>>)

\* A subagent is in the background, or could not be moved.
OnControlResponse(a) == Quiet([a EXCEPT !.steering.waiting = IF @ > 0 THEN @ - 1 ELSE 0])

OnTask(a, runs) == Quiet([a EXCEPT !.subagent = runs])

TranslateLine(a, line) ==
    CASE line.t = "requesting" -> Quiet([a EXCEPT !.active = TRUE])
      [] line.t = "replay" -> OnUser(a, line.ms)
      [] line.t = "result" -> OnTurnEnd(a)
      [] line.t = "can_use_tool" -> OnControlRequest(a, line.n)
      [] line.t = "moved" -> OnControlResponse(a)
      [] line.t \in {"task_started", "task_updated", "task_notification"} ->
            OnTask(a, line.t = "task_started")

Translate(a, line) == SteerReady(TranslateLine(a, line))

AdapterOK(a, Msg) ==
    /\ a.active \in BOOLEAN /\ a.subagent \in BOOLEAN
    /\ a.queued \subseteq Msg /\ {a.held, a.steering.frames} \subseteq Seq(Msg)
    /\ a.steering.waiting \in Nat /\ a.steering.late \in BOOLEAN

-----------------------------------------------------------------------------
\* The CLI: reads its input in order, runs one turn at a time, takes the
\* messages that wait into the running turn or starts the next one with them,
\* and asks before it uses a tool.
FreshProcess ==
    [in |-> <<>>, turn |-> FALSE, own |-> <<>>, subagent |-> FALSE, asks |-> {}, asked |-> 0]

Says(e, lines) == [e |-> e, lines |-> lines]

Starts(e, ms) ==
    Says([e EXCEPT !.turn = TRUE],
         <<Frame("requesting", <<>>), Frame("replay", ms)>>)

Ends(e) ==
    Says([e EXCEPT !.turn = FALSE, !.asks = {}, !.subagent = FALSE],
         IF e.subagent
         THEN <<Frame("task_notification", <<>>), Frame("result", <<>>)>>
         ELSE <<Frame("result", <<>>)>>)

Reads(e, frame) ==
    CASE frame.t \in {"user", "now"} ->
            IF e.turn THEN Says([e EXCEPT !.own = @ \o frame.ms], <<>>)
            ELSE IF e.own # <<>> THEN Says([e EXCEPT !.own = @ \o frame.ms], <<>>)
            ELSE Starts(e, frame.ms)
      [] frame.t = "answer" -> Says([e EXCEPT !.asks = @ \ {frame.n}], <<>>)
      [] frame.t = "interrupt" -> IF e.turn THEN Ends(e) ELSE Says(e, <<>>)
      [] frame.t = "background_tasks" ->
            IF e.subagent
            THEN Says([e EXCEPT !.subagent = FALSE],
                      <<Frame("task_updated", <<>>), Frame("moved", <<>>)>>)
            ELSE Says(e, <<Frame("moved", <<>>)>>)
      [] OTHER -> Says(e, <<>>)

ProcessSteps(e, maxAsks) ==
    LET reads == IF e.in = <<>> THEN {}
                 ELSE {Reads([e EXCEPT !.in = Tail(@)], Head(e.in))}
        ends == IF e.turn /\ e.asks = {} THEN {Ends(e)} ELSE {}
        takes == IF e.turn /\ e.own # <<>>
                 THEN {Says([e EXCEPT !.own = <<>>], <<Frame("replay", e.own)>>)}
                 ELSE {}
        goesOn == IF ~e.turn /\ e.own # <<>>
                  THEN {Starts([e EXCEPT !.own = Tail(@)], <<Head(e.own)>>)}
                  ELSE {}
        asks == IF e.turn /\ e.asks = {} /\ e.asked < maxAsks
                THEN {Says([e EXCEPT !.asks = {e.asked + 1}, !.asked = @ + 1],
                           <<Numbered("can_use_tool", e.asked + 1)>>)}
                ELSE {}
        delegates == IF e.turn /\ ~e.subagent
                     THEN {Says([e EXCEPT !.subagent = TRUE], <<Frame("task_started", <<>>)>>)}
                     ELSE {}
    IN  reads \cup ends \cup takes \cup goesOn \cup asks \cup delegates
=============================================================================
