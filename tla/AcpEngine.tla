----------------------------- MODULE AcpEngine -----------------------------
(***************************************************************************)
(* The ACP adapter (daemon/src/engines/acp.rs) and, external, the agent it *)
(* drives.  A prompt waits for the session to open and for the turn before *)
(* it to settle.  A message goes ahead of the others by cancelling the     *)
(* turn; an interrupt without one cancels the turn and drops the rest.  The*)
(* agent is a preset with approval modes, which it takes when it starts.   *)
(***************************************************************************)
EXTENDS EngineQueue

\* `new`: it reopens a conversation, or starts one.
Fresh(mode, resume) ==
    [mode |-> mode, session |-> FALSE, resume |-> resume, prompt |-> FALSE,
     failed |-> FALSE, signedIn |-> FALSE, queued |-> <<>>, approvals |-> {}]

Start(a) == <<Frame("initialize", <<>>)>>

Busy(a) == a.prompt

Waiting(a) == a.queued

-----------------------------------------------------------------------------
Send(a, frames, events, m) ==
    Output([a EXCEPT !.prompt = TRUE], Append(frames, Frame("session/prompt", <<m>>)), events)

\* A prompt now, or once the session is open and the running turn ended; a
\* session that failed to open is tried again.
Submit(a, m) ==
    LET b == [a EXCEPT !.queued = Append(@, m)]
    IN  CASE a.session /\ ~a.prompt -> Send(a, <<>>, <<>>, m)
          [] ~a.session /\ a.failed ->
                Output([b EXCEPT !.failed = FALSE], <<Frame("session/new", <<>>)>>, <<>>)
          [] OTHER -> Quiet(b)

NextQueued(a, events) ==
    IF a.queued = <<>>
    THEN Output(a, <<>>, Append(events, Frame("ready", <<>>)))
    ELSE Send([a EXCEPT !.queued = Tail(@)], <<>>, events, Head(a.queued))

\* (Slip: the messages the user is given back stay queued.)
CancelKeeps(a, queued, events) ==
    Output([a EXCEPT !.approvals = {}],
           <<Frame("session/cancel", <<>>)>>, events)

CancelTurn(a, queued, events) ==
    Output([a EXCEPT !.approvals = {}, !.queued = queued],
           Append(Answers(a.approvals), Frame("session/cancel", <<>>)), events)

Interrupt(a, steer, index) ==
    LET is == QueueIndex(index, Len(a.queued))
    IN  CASE ~a.session -> Quiet(a)
          [] a.session /\ ~steer ->
                CancelTurn(a, <<>>, <<Frame("unqueued", a.queued)>>)
          [] a.session /\ steer /\ is # {} /\ a.prompt ->
                CancelTurn(a, ToFront(a.queued, CHOOSE i \in is : TRUE), <<>>)
          [] OTHER -> Quiet(a)

Approve(a, calls) ==
    LET known == calls \cap a.approvals
    IN  Output([a EXCEPT !.approvals = @ \ known], Answers(known), <<>>)

Encode(a, op) ==
    CASE op.op = "user_message" -> Submit(a, op.m)
      [] op.op = "approve" -> Approve(a, op.calls)
      [] op.op = "steer" -> Interrupt(a, TRUE, op.index)
      [] op.op = "interrupt" -> Interrupt(a, op.index # <<>>, op.index)
      [] op.op = "unqueue" -> Unqueued(a, "queued", op.index)
      [] op.op = "queue_move" -> QueueMoved(a, "queued", op.index, op.to)
      [] OTHER -> Quiet(a)

RestartFor(a, op) == op.op = "set_approval_mode" /\ op.mode # a.mode
ModeAppliesLive == FALSE

-----------------------------------------------------------------------------
Open(a) == IF a.resume THEN <<Frame("session/load", <<>>)>> ELSE <<Frame("session/new", <<>>)>>

\* The conversation is open: ready, then the first queued message.
Opened(a) ==
    LET b == [a EXCEPT !.session = TRUE]
        ready == <<Frame("ready", <<>>)>>
    IN  IF a.queued = <<>> THEN Output(b, <<>>, ready)
        ELSE NextQueued(b, ready)

\* (Slip: the prompt that was answered stays in flight.)
SettlesLate(a) == NextQueued(a, <<>>)

\* The turn settled: the next queued prompt starts, or it goes ready.
Settle(a) == NextQueued([a EXCEPT !.prompt = FALSE], <<>>)

\* The session cannot be opened: what waited for it is not sent.
Unopened(a, failed) ==
    Output([a EXCEPT !.queued = <<>>, !.failed = failed], <<>>,
           <<Frame("refused", a.queued), Frame("ready", <<>>)>>)

OnResponse(a, line) ==
    CASE line.t \in {"initialize", "authenticate"} -> Output(a, Open(a), <<>>)
      [] line.t = "opened" -> Opened(a)
      [] line.t = "session/prompt" -> Settle(a)

OnError(a, line) ==
    CASE line.t = "no-session/prompt" -> Settle(a)
      [] line.t = "no-session/load" -> Output(a, <<Frame("session/new", <<>>)>>, <<>>)
      \* Not signed in: once, the way the agent signs in by itself.
      [] line.t = "signed-out" /\ ~a.signedIn ->
            Output([a EXCEPT !.signedIn = TRUE], <<Frame("authenticate", <<>>)>>, <<>>)
      [] line.t \in {"no-session/new", "no-authenticate"} -> Unopened(a, TRUE)
      [] line.t = "signed-out" /\ a.signedIn -> Unopened(a, TRUE)
      [] line.t = "no-initialize" -> Unopened(a, FALSE)

OnRequest(a, call) ==
    Output([a EXCEPT !.approvals = @ \cup {call}], <<>>,
           <<Numbered("approval_request", call)>>)

Translate(a, line) ==
    CASE line.t \in {"initialize", "authenticate", "opened", "session/prompt"} ->
            OnResponse(a, line)
      [] line.t = "request_permission" -> OnRequest(a, line.n)
      [] OTHER -> OnError(a, line)

AdapterOK(a, Msg) ==
    /\ {a.session, a.resume, a.prompt, a.failed, a.signedIn} \subseteq BOOLEAN
    /\ a.queued \in Seq(Msg)

-----------------------------------------------------------------------------
\* The agent: one prompt at a time; a cancelled one is answered too.
FreshProcess == [in |-> <<>>, turn |-> FALSE, asks |-> {}, asked |-> 0]

Says(e, lines) == [e |-> e, lines |-> lines]
Line(t) == Frame(t, <<>>)

Reads(e, frame) ==
    CASE frame.t = "initialize" -> {Says(e, <<Line("initialize")>>), Says(e, <<Line("no-initialize")>>)}
      [] frame.t = "session/load" -> {Says(e, <<Line("opened")>>), Says(e, <<Line("no-session/load")>>)}
      [] frame.t = "session/new" ->
            {Says(e, <<Line(t)>>) : t \in {"opened", "no-session/new", "signed-out"}}
      [] frame.t = "authenticate" ->
            {Says(e, <<Line("authenticate")>>), Says(e, <<Line("no-authenticate")>>)}
      [] frame.t = "session/prompt" ->
            {Says([e EXCEPT !.turn = TRUE], <<>>), Says(e, <<Line("no-session/prompt")>>)}
      [] frame.t = "answer" -> {Says([e EXCEPT !.asks = @ \ {frame.n}], <<>>)}
      [] frame.t = "session/cancel" ->
            {IF e.turn THEN Says([e EXCEPT !.turn = FALSE, !.asks = {}], <<Line("session/prompt")>>)
             ELSE Says(e, <<>>)}

ProcessSteps(e, maxAsks) ==
    LET reads == IF e.in = <<>> THEN {}
                 ELSE Reads([e EXCEPT !.in = Tail(@)], Head(e.in))
        ends == IF e.turn /\ e.asks = {}
                THEN {Says([e EXCEPT !.turn = FALSE], <<Line("session/prompt")>>)}
                ELSE {}
        asks == IF e.turn /\ e.asks = {} /\ e.asked < maxAsks
                THEN {Says([e EXCEPT !.asks = {e.asked + 1}, !.asked = @ + 1],
                           <<Numbered("request_permission", e.asked + 1)>>)}
                ELSE {}
    IN  reads \cup ends \cup asks
=============================================================================
