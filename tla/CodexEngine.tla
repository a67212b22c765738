---------------------------- MODULE CodexEngine ----------------------------
(***************************************************************************)
(* The Codex adapter (daemon/src/engines/codex.rs) and, external, the      *)
(* app-server it drives over JSON-RPC.  Input waits for the thread to open,*)
(* for a rewind to be answered, or for the turn to end; a waiting message  *)
(* can be steered into the turn, and waits again when that is refused.     *)
(* Left out: forks, reviews, and skill commands, which start turns of their*)
(* own.                                                                    *)
(***************************************************************************)
EXTENDS EngineQueue

\* `resume`: it resumes a thread, or starts one.  `steers` counts the steers among
\* its `pending` requests.
Fresh(mode, resume) ==
    [mode |-> mode, thread |-> FALSE, resume |-> resume, busy |-> FALSE,
     turn |-> FALSE, queued |-> <<>>, rolling |-> FALSE, afterRollback |-> <<>>,
     waiting |-> <<>>, steering |-> <<>>, steers |-> 0, userTurns |-> 0,
     approvals |-> {}]

Start(a) == IF a.resume THEN <<Frame("thread/resume", <<>>)>> ELSE <<Frame("thread/start", <<>>)>>

Busy(a) == a.busy

\* The messages it has yet to start a turn with, or to hear of from a steer.
Waiting(a) == a.queued \o a.afterRollback \o a.steering \o a.waiting

-----------------------------------------------------------------------------
TurnStart(a, frames, events, ms) ==
    Output([a EXCEPT !.busy = TRUE], Append(frames, Frame("turn/start", ms)), events)

\* The next message that waited starts, once nothing is under way.
NextWaiting(r) ==
    LET a == r.a
    IN  IF ~a.busy /\ a.thread /\ ~a.rolling /\ a.waiting # <<>>
        THEN TurnStart([a EXCEPT !.waiting = Tail(@)], r.frames, r.events, <<Head(a.waiting)>>)
        ELSE r

\* `steering` has room for one steer: it forgets what an unanswered one carries.
\* (The event stands for nothing the code publishes.)
Steer(a, index) ==
    LET picked == Picked(a.waiting, index, QueueIndex(index, Len(a.waiting)))
        overwritten == IF a.steering = <<>> THEN <<>> ELSE <<Frame("dropped", a.steering)>>
    IN  IF ~a.thread \/ ~a.turn
        THEN Quiet(a)
        ELSE Output([a EXCEPT !.steering = picked.out, !.waiting = picked.left,
                              !.steers = @ + IF picked.out = <<>> THEN 0 ELSE 1],
                    IF picked.out = <<>> THEN <<>> ELSE <<Frame("turn/steer", picked.out)>>,
                    overwritten)

\* With two steers unanswered, what `steering` holds goes with the wrong answer.
Muddled(a) == IF a.steers > 1 THEN ToSet(a.steering) ELSE {}

\* Input waits for the thread, for a rewind, or for the running turn.
UserMessage(a, m) ==
    CASE ~a.thread -> Quiet([a EXCEPT !.queued = Append(@, m)])
      [] a.thread /\ a.rolling -> Quiet([a EXCEPT !.afterRollback = Append(@, m)])
      [] a.thread /\ ~a.rolling /\ a.busy -> Quiet([a EXCEPT !.waiting = Append(@, m)])
      [] OTHER -> TurnStart(a, <<>>, <<>>, <<m>>)

Approve(a, calls) ==
    LET known == calls \cap a.approvals
    IN  Output([a EXCEPT !.approvals = @ \ known], Answers(known), <<>>)

\* A waiting message can be put first before the turn is stopped.
Interrupt(a, index) ==
    LET is == IF index = <<>> THEN {} ELSE QueueIndex(index, Len(a.waiting))
        waiting == IF is = {} THEN a.waiting ELSE ToFront(a.waiting, CHOOSE i \in is : TRUE)
    IN  IF a.thread /\ a.turn
        THEN Output([a EXCEPT !.waiting = waiting], <<Frame("turn/interrupt", <<>>)>>, <<>>)
        ELSE Quiet(a)

\* /rewind 1.
Rewind(a) ==
    IF a.thread /\ a.userTurns > 0
    THEN Output([a EXCEPT !.userTurns = @ - 1, !.rolling = TRUE],
                <<Frame("thread/revert", <<>>)>>, <<>>)
    ELSE Quiet(a)

Encode(a, op) ==
    CASE op.op = "user_message" -> UserMessage(a, op.m)
      [] op.op = "steer" -> Steer(a, op.index)
      [] op.op = "unqueue" -> Unqueued(a, "waiting", op.index)
      [] op.op = "queue_move" -> QueueMoved(a, "waiting", op.index, op.to)
      [] op.op = "approve" -> Approve(a, op.calls)
      [] op.op = "interrupt" -> Interrupt(a, op.index)
      [] op.op = "set_approval_mode" -> Quiet([a EXCEPT !.mode = op.mode])
      [] op.op = "rewind" -> Rewind(a)
      [] OTHER -> Quiet(a)

RestartFor(a, op) == FALSE
ModeAppliesLive == FALSE

-----------------------------------------------------------------------------
ThreadOpened(a) ==
    LET b == [a EXCEPT !.thread = TRUE]
        ready == <<Frame("ready", <<>>)>>
    IN  IF a.queued = <<>>
        THEN Output(b, <<>>, ready)
        ELSE TurnStart([b EXCEPT !.queued = <<>>], <<>>, ready, a.queued)

OnResponse(a, line) ==
    CASE line.t = "opened" -> ThreadOpened(a)
      [] line.t = "no-thread/resume" -> Output(a, <<Frame("thread/start", <<>>)>>, <<>>)
      [] line.t = "no-thread/start" ->
            Output([a EXCEPT !.queued = <<>>, !.busy = FALSE], <<>>,
                   <<Frame("refused", a.queued), Frame("ready", <<>>)>>)
      [] line.t = "turn/start" -> Quiet([a EXCEPT !.turn = TRUE])
      [] line.t = "no-turn/start" ->
            Output([a EXCEPT !.busy = FALSE], <<>>, <<Frame("ready", <<>>)>>)
      \* What `steering` holds is taken for what it answers.
      [] line.t = "turn/steer" ->
            Output([a EXCEPT !.steering = <<>>, !.steers = @ - 1], <<>>,
                   <<Frame("steered", a.steering)>>)
      \* They wait for the next turn after all.
      [] line.t = "no-turn/steer" ->
            Quiet([a EXCEPT !.waiting = a.steering \o @, !.steering = <<>>,
                            !.steers = @ - 1])
      [] line.t = "thread/revert" ->
            LET b == [a EXCEPT !.rolling = FALSE, !.afterRollback = <<>>]
            IN  IF a.afterRollback = <<>> THEN Quiet(b)
                ELSE TurnStart(b, <<>>, <<>>, a.afterRollback)
      [] line.t = "no-thread/revert" ->
            Output([a EXCEPT !.rolling = FALSE, !.afterRollback = <<>>, !.userTurns = @ + 1],
                   <<>>, <<Frame("refused", a.afterRollback)>>)

\* Full access never prompts; a turn started before the switch still may.
OnServerRequest(a, line) ==
    IF a.mode = "full"
    THEN Output(a, <<Numbered("answer", line.n)>>, <<>>)
    ELSE Output([a EXCEPT !.approvals = @ \cup {line.n}], <<>>,
                <<Numbered("approval_request", line.n)>>)

OnNotification(a, line) ==
    CASE line.t = "turn/started" ->
            Quiet([a EXCEPT !.busy = TRUE, !.turn = TRUE, !.userTurns = @ + 1])
      [] line.t = "turn/completed" ->
            Output([a EXCEPT !.turn = FALSE, !.busy = FALSE], <<>>, <<Frame("ready", <<>>)>>)
      [] line.t = "resolved" -> Quiet([a EXCEPT !.approvals = @ \ {line.n}])

Translate(a, line) ==
    NextWaiting(CASE line.t = "requestApproval" -> OnServerRequest(a, line)
                  [] line.t \in {"turn/started", "turn/completed", "resolved"} ->
                        OnNotification(a, line)
                  [] OTHER -> OnResponse(a, line))

AdapterOK(a, Msg) ==
    /\ {a.thread, a.resume, a.busy, a.turn, a.rolling} \subseteq BOOLEAN
    /\ {a.queued, a.afterRollback, a.waiting, a.steering} \subseteq Seq(Msg)
    /\ a.steers \in Int /\ a.userTurns \in Nat

-----------------------------------------------------------------------------
\* The app-server: answers its requests in order, runs one turn at a time.
FreshProcess ==
    [in |-> <<>>, turn |-> FALSE, asks |-> {}, asked |-> 0]

Says(e, lines) == [e |-> e, lines |-> lines]
Line(t) == Frame(t, <<>>)

Completes(e) ==
    Says([e EXCEPT !.turn = FALSE, !.asks = {}],
         (IF e.asks = {} THEN <<>> ELSE <<Numbered("resolved", CHOOSE n \in e.asks : TRUE)>>)
             \o <<Line("turn/completed")>>)

Reads(e, frame) ==
    LET refuses == Says(e, <<Line(
            CASE frame.t = "thread/resume" -> "no-thread/resume"
              [] frame.t = "thread/start" -> "no-thread/start"
              [] frame.t = "turn/start" -> "no-turn/start"
              [] OTHER -> "no-thread/revert")>>)
    IN  CASE frame.t \in {"thread/resume", "thread/start"} ->
                {refuses, Says(e, <<Line("opened")>>)}
          [] frame.t = "turn/start" ->
                IF e.turn THEN {refuses}
                ELSE {refuses, Says([e EXCEPT !.turn = TRUE],
                                    <<Line("turn/start"), Line("turn/started")>>)}
          \* Not steerable: a review, a compaction, or the turn just ended.
          [] frame.t = "turn/steer" ->
                {Says(e, <<Frame("no-turn/steer", frame.ms)>>)}
                    \cup (IF e.turn THEN {Says(e, <<Frame("turn/steer", frame.ms)>>)} ELSE {})
          [] frame.t = "turn/interrupt" ->
                {IF e.turn THEN Completes(e) ELSE Says(e, <<>>)}
          [] frame.t = "thread/revert" ->
                {refuses} \cup (IF e.turn THEN {} ELSE {Says(e, <<Line("thread/revert")>>)})
          [] frame.t = "answer" -> {Says([e EXCEPT !.asks = @ \ {frame.n}], <<>>)}

ProcessSteps(e, maxAsks) ==
    LET reads == IF e.in = <<>> THEN {}
                 ELSE Reads([e EXCEPT !.in = Tail(@)], Head(e.in))
        completes == IF e.turn /\ e.asks = {} THEN {Completes(e)} ELSE {}
        asks == IF e.turn /\ e.asks = {} /\ e.asked < maxAsks
                THEN {Says([e EXCEPT !.asks = {e.asked + 1}, !.asked = @ + 1],
                           <<Numbered("requestApproval", e.asked + 1)>>)}
                ELSE {}
    IN  reads \cup completes \cup asks
=============================================================================
