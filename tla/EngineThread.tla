---------------------------- MODULE EngineThread ----------------------------
(***************************************************************************)
(* The thread of one external engine's session (`Session::run` in          *)
(* crates/daemon/src/engines/mod.rs): it reads the ops clients send and the*)
(* lines its process prints, in turns, and passes both through the adapter *)
(* of its engine (ClaudeEngine, CodexEngine, AcpEngine, as `dyn Adapter`). *)
(* Between turns it replaces the process for a switch of mode or gateway,  *)
(* and on request it lends the conversation to the engine's own TUI.       *)
(*                                                                         *)
(* An action of the thread is one op, one line, or one look at what waits  *)
(* for the turn's end.  Clients and the process run in between.  Left out: *)
(* the transcript, titles, usage and the daemon's own tools; the marks the *)
(* thread leaves in the hub are SessionHub's.                              *)
(***************************************************************************)
EXTENDS Integers, Sequences, FiniteSets, SequencesExt

CONSTANTS
    Kinds,      \* the engines of this instance
    MaxMsgs,    \* bound: messages sent
    MaxWork,    \* bound: messages and other ops sent, by their Weight
    MaxBacklog, \* bound: ops a client leaves unread
    MaxAsks,    \* bound: approvals one process asks for
    Ops         \* the other ops of this instance

AllOps == {"steer", "interrupt", "unqueue", "queue_move", "set_approval_mode",
           "set_gateway", "rewind", "tui", "shutdown", "dies"}

ASSUME EngineAssumption ==
    /\ Kinds \subseteq {"claude", "codex", "acp"}
    /\ {MaxMsgs, MaxWork, MaxBacklog, MaxAsks} \subseteq Nat
    /\ Ops \subseteq AllOps

Claude == INSTANCE ClaudeEngine
Codex == INSTANCE CodexEngine
Acp == INSTANCE AcpEngine

VARIABLES
    kind,       \* Session.kind
    ops,        \* the ops channel
    phase,      \* what the loop does next
    a,          \* the adapter
    proc,       \* the engine's process: what it holds
    up,         \* it runs
    lines,      \* what it printed and the thread has yet to read
    current,    \* the mode in the options its process was started with
    restart,    \* Session.restart: the mode to restart in, or "none"
    pendingMode,\* Session.pending_mode, or "none"
    tui,        \* Session.tui_request: "none", "ask" or "force"
    cards,      \* Snapshot.approvals
    fate,       \* history: what became of each message
    picked,     \* history: the mode of the last switch the thread read
    overlap,    \* history: since the last switch of mode that found none waiting,
                \* another switch or a TUI came while one waited, or a TUI came
                \* in a mode its options do not have
    crossed,    \* history: a Codex rewind came while another was under way
    sent        \* the weight of the other ops sent so far

engineVars == <<kind, ops, phase, a, proc, up, lines, current, restart, pendingMode, tui, cards,
          fate, picked, overlap, crossed, sent>>

Msg == 1..MaxMsgs
Mode == {"ask", "full"}

-----------------------------------------------------------------------------
\* `dyn Adapter`.
Encode(b, op) ==
    CASE kind = "claude" -> Claude!Encode(b, op)
      [] kind = "codex" -> Codex!Encode(b, op)
      [] kind = "acp" -> Acp!Encode(b, op)

Translate(b, line) ==
    CASE kind = "claude" -> Claude!Translate(b, line)
      [] kind = "codex" -> Codex!Translate(b, line)
      [] kind = "acp" -> Acp!Translate(b, line)

Busy(b) ==
    CASE kind = "claude" -> Claude!Busy(b)
      [] kind = "codex" -> Codex!Busy(b)
      [] kind = "acp" -> Acp!Busy(b)

RestartFor(b, op) ==
    CASE kind = "claude" -> Claude!RestartFor(b, op)
      [] kind = "codex" -> Codex!RestartFor(b, op)
      [] kind = "acp" -> Acp!RestartFor(b, op)

ModeAppliesLive ==
    CASE kind = "claude" -> Claude!ModeAppliesLive
      [] kind = "codex" -> Codex!ModeAppliesLive
      [] kind = "acp" -> Acp!ModeAppliesLive

\* `conversation`: whether it is open.  Claude Code's has an id from the start.
Conversation(b) ==
    CASE kind = "claude" -> TRUE
      [] kind = "codex" -> b.thread
      [] kind = "acp" -> b.session

Waiting(b) ==
    CASE kind = "claude" -> Claude!Waiting(b)
      [] kind = "codex" -> Codex!Waiting(b)
      [] kind = "acp" -> Acp!Waiting(b)

\* The messages an answer that is not theirs will settle.
Muddled(b) == IF kind = "codex" THEN Codex!Muddled(b) ELSE {}

\* A new adapter and the frames that start its process.
Adapter(k, mode, resume) ==
    CASE k = "claude" -> [a |-> Claude!Fresh(mode), frames |-> <<>>]
      [] k = "codex" -> [a |-> Codex!Fresh(mode, resume),
                         frames |-> Codex!Start(Codex!Fresh(mode, resume))]
      [] k = "acp" -> [a |-> Acp!Fresh(mode, resume),
                       frames |-> Acp!Start(Acp!Fresh(mode, resume))]

Process(k) ==
    CASE k = "claude" -> Claude!FreshProcess
      [] k = "codex" -> Codex!FreshProcess
      [] k = "acp" -> Acp!FreshProcess

ProcessSteps ==
    CASE kind = "claude" -> Claude!ProcessSteps(proc, MaxAsks)
      [] kind = "codex" -> Codex!ProcessSteps(proc, MaxAsks)
      [] kind = "acp" -> Acp!ProcessSteps(proc, MaxAsks)

-----------------------------------------------------------------------------
\* The messages in a sequence of frames or events of types T.
MsgsOf(s, T) == UNION {ToSet(s[i].ms) : i \in {j \in DOMAIN s : s[j].t \in T}}

Handed == {"user", "now", "turn/start", "session/prompt", "steered"}

\* What frames and events settle; a message settled twice is "wrong".  Whatever
\* becomes of a muddled one, it stays one.
Settled(frames, events) ==
    LET now(m) == CASE m \in MsgsOf(frames \o events, Handed) -> "given"
                    [] m \in MsgsOf(events, {"unqueued"}) -> "taken"
                    [] m \in MsgsOf(events, {"refused"}) -> "refused"
                    [] m \in MsgsOf(events, {"dropped"}) -> "muddled"
                    [] OTHER -> "none"
    IN  [m \in Msg |-> CASE now(m) = "none" \/ fate[m] = "muddled" -> fate[m]
                         [] now(m) # "none" /\ fate[m] = "live" -> now(m)
                         [] OTHER -> "wrong"]

\* What was left with the process, or unread, goes.
Dropped(gone) == [m \in Msg |-> IF m \in gone /\ fate[m] = "live" THEN "lost" ELSE fate[m]]

Unread(s) == {s[i].m : i \in {j \in DOMAIN s : s[j].op = "user_message"}}

\* Snapshot.apply.
CardsAfter(shown, events) ==
    IF \E i \in DOMAIN events : events[i].t = "ready"
    THEN {}
    ELSE shown \cup {events[i].n : i \in {j \in DOMAIN events :
                                            events[j].t = "approval_request"}}

Then(r, next) ==
    [a |-> next.a, frames |-> r.frames \o next.frames, events |-> r.events \o next.events]

\* `allow`, for each of the calls.
Allowed(r, calls) ==
    IF calls = {} THEN r
    ELSE Then(r, Encode(r.a, [op |-> "approve", calls |-> calls]))

\* Writes the frames and publishes the events; `shown` are the cards before.
Publish(r, shown) ==
    /\ a' = r.a
    /\ proc' = [proc EXCEPT !.in = @ \o r.frames]
    /\ fate' = LET f == Settled(r.frames, r.events)
               IN  [m \in Msg |-> IF m \in Muddled(r.a) /\ f[m] = "live" THEN "muddled" ELSE f[m]]
    /\ cards' = CardsAfter(shown, r.events)

Nothing == [a |-> a, frames |-> <<>>, events |-> <<>>]

-----------------------------------------------------------------------------
\* An ACP session's ops flow before its conversation is open.  A Codex session
\* that resumes one is hosted once it is: as if it had just started it.
EngineInit ==
    \E k \in Kinds, resume \in BOOLEAN :
        LET adapter == Adapter(k, "ask", resume)
        IN  /\ kind = k
            /\ k # "acp" => ~resume
            /\ a = adapter.a
            /\ proc = [Process(k) EXCEPT !.in = adapter.frames]
            /\ up = TRUE
            /\ lines = <<>>
            /\ ops = <<>>
            /\ phase = "ops"
            /\ current = "ask"
            /\ restart = "none"
            /\ pendingMode = "none"
            /\ tui = "none"
            /\ cards = {}
            /\ fate = [m \in Msg |-> "unsent"]
            /\ picked = "ask"
            /\ overlap = FALSE
            /\ crossed = FALSE
            /\ sent = 0

\* --- clients, and the process ---

Requests ==
         {[op |-> "steer", index |-> i] : i \in {<<>>, <<-1>>}}
    \cup {[op |-> "interrupt", index |-> i] : i \in {<<>>, <<-1>>}}
    \cup {[op |-> "unqueue", index |-> i] : i \in {<<>>, <<-1>>}}
    \cup {[op |-> "queue_move", index |-> <<>>, to |-> <<-1>>]}
    \cup {[op |-> "set_approval_mode", mode |-> m] : m \in Mode}
    \cup {[op |-> "tui", force |-> f] : f \in BOOLEAN}
    \cup {[op |-> o] : o \in {"set_gateway", "rewind", "shutdown"}}

Open == phase # "ended"

\* What an op takes of the bound: the ops on messages that wait come in numbers.
Weight(op) == IF op.op \in {"user_message", "steer", "interrupt", "unqueue", "queue_move"}
              THEN 1 ELSE 2

MaySend(op) ==
    /\ Open /\ Len(ops) < MaxBacklog
    /\ sent + Cardinality({m \in Msg : fate[m] # "unsent"}) + Weight(op) <= MaxWork

SendMessage ==
    /\ \E m \in Msg :
         LET op == [op |-> "user_message", m |-> m]
         IN  /\ fate[m] = "unsent"
             /\ \A n \in 1..(m - 1) : fate[n] # "unsent"
             /\ MaySend(op)
             /\ ops' = Append(ops, op)
             /\ fate' = [fate EXCEPT ![m] = "live"]
    /\ UNCHANGED <<kind, current, phase, a, proc, up, lines, restart, pendingMode, tui, cards,
                   picked, overlap, crossed, sent>>

SendOp ==
    /\ \E op \in Requests :
         /\ op.op \in Ops /\ MaySend(op)
         /\ op.op = "rewind" => kind = "codex"
         /\ ops' = Append(ops, op)
         /\ sent' = sent + Weight(op)
    /\ UNCHANGED <<kind, current, phase, a, proc, up, lines, restart, pendingMode, tui, cards,
                   fate, picked, overlap, crossed>>

\* A client answers a card it sees.
SendAnswer ==
    /\ Open
    /\ \E call \in cards :
         /\ \A i \in DOMAIN ops : ops[i].op = "approve" => call \notin ops[i].calls
         /\ ops' = Append(ops, [op |-> "approve", calls |-> {call}])
    /\ UNCHANGED <<kind, current, phase, a, proc, up, lines, restart, pendingMode, tui, cards,
                   fate, picked, overlap, crossed, sent>>

ProcessRuns ==
    /\ up /\ phase # "tui"
    /\ \E s \in ProcessSteps :
         /\ proc' = s.e
         /\ lines' = lines \o s.lines
    /\ UNCHANGED <<kind, current, ops, phase, a, up, restart, pendingMode, tui, cards, fate,
                   picked, overlap, crossed, sent>>

ProcessDies ==
    /\ "dies" \in Ops
    /\ up /\ phase # "tui"
    /\ up' = FALSE
    /\ UNCHANGED <<kind, current, ops, phase, a, proc, lines, restart, pendingMode, tui, cards,
                   fate, picked, overlap, crossed, sent>>

\* STEER_MOVE_WAIT is over.
SteerDeadline ==
    /\ kind = "claude" /\ a.steering.frames # <<>> /\ ~a.steering.late
    /\ a' = [a EXCEPT !.steering.late = TRUE]
    /\ UNCHANGED <<kind, current, ops, phase, proc, up, lines, restart, pendingMode, tui, cards,
                   fate, picked, overlap, crossed, sent>>

TuiExits ==
    /\ phase = "tui"
    /\ \A i \in DOMAIN ops : ops[i].op # "tui_exit"
    /\ ops' = Append(ops, [op |-> "tui_exit"])
    /\ UNCHANGED <<kind, current, phase, a, proc, up, lines, restart, pendingMode, tui, cards,
                   fate, picked, overlap, crossed, sent>>

-----------------------------------------------------------------------------
\* --- ops ---

\* The thread returns; what it had not handed on goes with it.
End ==
    /\ phase' = "ended"
    /\ up' = FALSE
    /\ fate' = Dropped(Msg)
    /\ ops' = <<>>
    /\ lines' = <<>>
    /\ UNCHANGED <<kind, current, a, proc, restart, pendingMode, tui, cards, picked, overlap,
                   crossed, sent>>

\* (Slip: the ops after a switch are read on.)
ReadsOn == phase' = "ops"

\* The ops after a switch go to the new process.
AfterOp == phase' = IF restart' # "none" /\ ~Busy(a') THEN "lines" ELSE "ops"

NextOp == phase = "ops" /\ ops # <<>>
Took ==
    /\ ops' = Tail(ops)
    /\ crossed' = (crossed \/ (kind = "codex" /\ Head(ops).op = "rewind" /\ a.rolling))
    /\ UNCHANGED <<kind, current, up, lines, sent>>

TakeShutdown == NextOp /\ Head(ops).op = "shutdown" /\ End

TakeTui ==
    /\ NextOp /\ Head(ops).op = "tui"
    /\ tui' = IF Head(ops).force THEN "force" ELSE "ask"
    /\ Took
    /\ UNCHANGED <<a, proc, restart, pendingMode, cards, fate, picked, overlap>>
    /\ AfterOp

TakeGateway ==
    /\ NextOp /\ Head(ops).op = "set_gateway"
    /\ restart' = a.mode
    /\ overlap' = (overlap \/ restart # "none")
    /\ Took
    /\ UNCHANGED <<a, proc, pendingMode, tui, cards, fate, picked>>
    /\ AfterOp

\* (Slip: a switch that waits clears the cards.)
ShowsNone(mode) == {}

\* `wait_for_turn`: a switch to full access answers the open approvals.
AllowOpen(mode) == IF mode = "full" THEN Allowed(Nothing, cards) ELSE Nothing
StillShown(mode) == IF mode = "full" THEN cards \ a.approvals ELSE cards

TakeMode ==
    LET op == Head(ops)
        restarts == RestartFor(a, op)
        waits == Busy(a) /\ (restarts \/ ~ModeAppliesLive)
    IN  /\ NextOp /\ op.op = "set_approval_mode"
        /\ restart' = IF restarts THEN op.mode ELSE restart
        /\ picked' = op.mode
        /\ overlap' = (restart # "none")
        /\ Took
        /\ UNCHANGED tui
        /\ \/ /\ waits
              /\ LET allowed == AllowOpen(op.mode)
                 IN  Publish(IF restarts THEN allowed
                             ELSE Then(allowed, Encode(allowed.a, op)),
                             StillShown(op.mode))
              /\ pendingMode' = op.mode
           \/ /\ ~waits
              /\ Publish(IF restarts THEN Nothing ELSE Encode(a, op), cards)
              /\ UNCHANGED pendingMode
        /\ AfterOp

\* Every other op goes to the adapter.
TakeEncoded ==
    LET op == Head(ops)
    IN  /\ NextOp
        /\ op.op \notin {"shutdown", "tui", "set_gateway", "set_approval_mode"}
        /\ Publish(Encode(a, op), IF op.op = "approve" THEN cards \ op.calls ELSE cards)
        /\ Took
        /\ UNCHANGED <<restart, pendingMode, tui, picked, overlap>>
        /\ AfterOp

\* An iteration that finds nothing to do changes nothing, and is left out.
NoMoreOps ==
    /\ phase = "ops" /\ ops = <<>>
    /\ \/ lines # <<>> \/ ~up \/ tui # "none"
       \/ ~Busy(a) /\ (restart # "none" \/ pendingMode # "none")
    /\ phase' = "lines"
    /\ UNCHANGED <<kind, current, ops, a, proc, up, lines, restart, pendingMode, tui, cards, fate,
                   picked, overlap, crossed, sent>>

\* --- lines ---

\* While a switch to full access waits, a request is allowed, not shown; it is
\* its line's only event.
AllowWhileOpening(r) ==
    LET asked == CardsAfter({}, r.events)
    IN  IF pendingMode = "full" /\ asked # {}
        THEN Allowed([r EXCEPT !.events = <<>>], asked)
        ELSE r

TakeLine ==
    /\ phase = "lines" /\ lines # <<>>
    /\ Publish(AllowWhileOpening(Translate(a, Head(lines))), cards)
    /\ lines' = Tail(lines)
    /\ UNCHANGED <<kind, current, ops, phase, up, restart, pendingMode, tui, picked, overlap,
                   crossed, sent>>

TakeExit == phase = "lines" /\ lines = <<>> /\ ~up /\ End

\* --- between turns ---

\* A new process and its adapter; what the old one had waiting is cleared.
Spawn(mode, resume) ==
    LET adapter == Adapter(kind, mode, resume)
    IN  /\ a' = adapter.a
        /\ proc' = [Process(kind) EXCEPT !.in = adapter.frames]
        /\ up' = TRUE
        /\ lines' = <<>>

NoMoreLines == phase = "lines" /\ lines = <<>> /\ up
AfterLines == phase' = IF tui = "none" THEN "ops" ELSE "surface"

GoOn ==
    /\ NoMoreLines
    /\ restart = "none" \/ Busy(a)
    /\ pendingMode' = IF Busy(a) THEN pendingMode ELSE "none"
    /\ AfterLines
    /\ UNCHANGED <<kind, current, ops, a, proc, up, lines, restart, tui, cards, fate, picked,
                   overlap, crossed, sent>>

Restart ==
    /\ NoMoreLines
    /\ restart # "none" /\ ~Busy(a)
    /\ Spawn(restart, Conversation(a))
    /\ current' = restart
    /\ fate' = Dropped(ToSet(Waiting(a)))
    /\ restart' = "none"
    /\ pendingMode' = "none"
    /\ AfterLines
    /\ UNCHANGED <<kind, ops, tui, cards, picked, overlap, crossed, sent>>

RestartFails ==
    /\ NoMoreLines
    /\ restart # "none" /\ ~Busy(a)
    /\ End

\* The running turn must end first, or there is no TUI to open.
RefuseTui ==
    /\ phase = "surface"
    /\ tui' = "none"
    /\ phase' = "ops"
    /\ UNCHANGED <<kind, current, ops, a, proc, up, lines, restart, pendingMode, cards, fate,
                   picked, overlap, crossed, sent>>

\* The process is killed: its TUI has the conversation until it exits.
MayOpenTui ==
    /\ phase = "surface"
    /\ ~Busy(a) \/ tui = "force"
    /\ Conversation(a) \/ kind # "acp"
    /\ tui' = "none"
    /\ overlap' = (overlap \/ restart # "none" \/ picked # current)
    /\ fate' = Dropped(ToSet(Waiting(a)))

OpenTui ==
    /\ MayOpenTui
    /\ phase' = "tui"
    /\ UNCHANGED <<kind, current, ops, a, proc, up, lines, restart, pendingMode, cards,
                   picked, crossed, sent>>

\* Back to the engine, as it was started, on the conversation the TUI left;
\* none when it saved nothing.  A mode only the adapter knew of is forgotten.
Back ==
    /\ \E saved \in BOOLEAN :
         /\ kind = "acp" => saved
         /\ Spawn(current, saved)
    /\ phase' = "ops"

OpenTuiFails ==
    /\ MayOpenTui
    /\ Back
    /\ UNCHANGED <<kind, current, ops, restart, pendingMode, cards, picked, crossed, sent>>

\* Every op but these is refused while the TUI runs.
TakeInTui ==
    /\ phase = "tui" /\ ops # <<>>
    /\ Head(ops).op \notin {"tui_exit", "shutdown"}
    /\ fate' = Settled(<<>>, IF Head(ops).op = "user_message"
                             THEN <<[t |-> "refused", ms |-> <<Head(ops).m>>]>>
                             ELSE <<>>)
    /\ ops' = Tail(ops)
    /\ UNCHANGED <<kind, current, phase, a, proc, up, lines, restart, pendingMode, tui, cards,
                   picked, overlap, crossed, sent>>

TakeTuiExit ==
    /\ phase = "tui" /\ ops # <<>> /\ Head(ops).op = "tui_exit"
    /\ Back
    /\ ops' = Tail(ops)
    /\ UNCHANGED <<kind, current, restart, pendingMode, tui, cards, fate, picked, overlap,
                   crossed, sent>>

CloseTui ==
    /\ phase = "tui" /\ ops # <<>> /\ Head(ops).op = "shutdown"
    /\ End

-----------------------------------------------------------------------------
Thread ==
    \/ TakeShutdown \/ TakeTui \/ TakeGateway \/ TakeMode \/ TakeEncoded \/ NoMoreOps
    \/ TakeLine \/ TakeExit \/ GoOn \/ Restart \/ RestartFails
    \/ RefuseTui \/ OpenTui \/ OpenTuiFails \/ TakeInTui \/ TakeTuiExit \/ CloseTui

EngineNext ==
    \/ SendMessage \/ SendOp \/ SendAnswer \/ TuiExits
    \/ ProcessRuns \/ ProcessDies \/ SteerDeadline
    \/ Thread

EngineSpec == EngineInit /\ [][EngineNext]_engineVars

-----------------------------------------------------------------------------
EngineTypeOK ==
    /\ kind \in Kinds
    /\ phase \in {"ops", "lines", "surface", "tui", "ended"}
    /\ CASE kind = "claude" -> Claude!AdapterOK(a, Msg)
         [] kind = "codex" -> Codex!AdapterOK(a, Msg)
         [] kind = "acp" -> Acp!AdapterOK(a, Msg)
    /\ a.mode \in Mode /\ current \in Mode /\ picked \in Mode
    /\ a.approvals \cup cards \subseteq 1..MaxAsks
    /\ {up, overlap, crossed} \subseteq BOOLEAN
    /\ {restart, pendingMode} \subseteq Mode \cup {"none"}
    /\ tui \in {"none", "ask", "force"}
    /\ fate \in [Msg -> {"unsent", "live", "given", "taken", "refused", "lost", "muddled"}]
    /\ sent \in 0..MaxWork

Lives == phase \in {"ops", "lines", "surface"} /\ up

\* Where message m waits: unread, or with the adapter.
Places(m) ==
    LET waits == Waiting(a)
    IN  Cardinality({i \in DOMAIN ops : ops[i].op = "user_message" /\ ops[i].m = m})
          + IF phase \in {"tui", "ended"} THEN 0
            ELSE Cardinality({i \in DOMAIN waits : waits[i] = m})

\* A message that is neither handed over nor given up is in exactly one place:
\* unread, or in one of the adapter's queues.  Any other is in none.  (Those of
\* two Codex steers at once excepted: the second is put where the first was.)
EachInOnePlace ==
    \A m \in Msg : fate[m] # "muddled" => Places(m) = IF fate[m] = "live" THEN 1 ELSE 0

\* What becomes of a message is final: it is not handed over twice, nor taken
\* back or refused as well.  (Those of two Codex steers at once excepted: they can
\* be handed over twice, or vanish.)
Flow == INSTANCE MessageFlow
MessagesSettleOnce == Flow!Spec

\* Once everything is read, the adapter and the process agree on whether a turn
\* runs (unless two rewinds were under way at once: then a turn can be refused
\* while another runs).
BusyAgrees ==
    Lives /\ ~crossed /\ lines = <<>> /\ proc.in = <<>> =>
        (Busy(a) <=> proc.turn)

\* The process asked and the thread has read it, and has not answered.
Unanswered ==
    {call \in proc.asks :
        /\ \A i \in DOMAIN lines : lines[i].n # call
        /\ \A i \in DOMAIN proc.in : proc.in[i].t = "answer" => proc.in[i].n # call}

\* Whatever the process waits to be allowed is shown to the clients: no approval
\* is lost, whatever is switched, stopped or answered meanwhile.  While a switch
\* to full access waits for the turn, the turn itself waits for no answer.  (Two
\* rewinds at once excepted: the end of a refused turn clears the other's card.)
AsksAreShown ==
    Lives /\ ~crossed => Unanswered \subseteq IF pendingMode = "full" THEN {} ELSE cards

\* A message the thread reads between turns is not handed to a process in
\* another mode than the one picked before it: unless something came between a
\* switch and its restart, or, until the next switch, a TUI came after a mode the
\* engine took live, which its options do not have.
RunsInPickedMode ==
    [][\A m \in Msg :
        /\ phase = "ops" /\ ops # <<>> /\ Head(ops) = [op |-> "user_message", m |-> m]
        /\ fate'[m] = "given"
        => overlap \/ a.mode = picked]_engineVars

\* The conversation cannot be opened: Codex refused to start one, and what is
\* sent after that waits for ever; or the agent refused to initialize.
Unopened ==
    ~Conversation(a) /\ proc.in = <<>> /\ lines = <<>> /\ (kind = "acp" => ~a.failed)

\* Nothing is under way: only a client could start something.
Quiescent ==
    /\ phase = "ops" /\ ops = <<>> /\ lines = <<>> /\ up
    /\ tui = "none" /\ cards = {}
    /\ Busy(a) \/ (restart = "none" /\ pendingMode = "none")
    /\ ProcessSteps = {}

\* Whenever a session with an open conversation comes to rest, every message sent
\* to it has got somewhere: none waits for an event that will not come.  (Those
\* of two Codex steers at once excepted: one of them may be gone without a word.)
RestsWithNothingLeft ==
    Quiescent => Unopened \/ \A m \in Msg : fate[m] # "live"
=============================================================================
