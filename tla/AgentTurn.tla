------------------------------ MODULE AgentTurn ------------------------------
(***************************************************************************)
(* JuCode's own engine (`AgentCore`, crates/agent-core/src/core.rs) and the*)
(* agents it runs: the worker of the current turn and the subagents it     *)
(* starts (`run_turn_events`, llm.rs; `SubagentManager`, subagents.rs).    *)
(*                                                                         *)
(* The engine's thread applies one op, or polls, at a time (the loop of    *)
(* daemon/src/session.rs).  Agents run beside it on threads of their own   *)
(* and reach it through channels: a turn's events, approval requests, the  *)
(* outcomes of deferred actions, and the inbox of steered messages.        *)
(*                                                                         *)
(* A response of the model asks for one call at most.  What an agent does  *)
(* between two of its looks at the engine is one step: the answer of the   *)
(* model and the gates its call passes, a refusal and its output.  The     *)
(* text of messages and calls, usage, titles, plan mode and login are left *)
(* out.                                                                    *)
(***************************************************************************)
EXTENDS Integers, Sequences, FiniteSets, SequencesExt

CONSTANTS
    Msg,        \* messages a user sends
    Images,     \* those with images attached
    Shell,      \* calls of the shell tool
    Edit,       \* calls of an edit tool
    AskRule,    \* shell calls a command rule says to ask for
    Worker,     \* slots for turn workers: the current one and stopped ones
    Sub,        \* slots for subagents
    None,       \* no call, no worker
    Modes,      \* approval modes of this instance
    MaxOps,     \* bound: ops other than messages and answers
    MaxMishaps, \* bound: failures, limits met and messages a hook blocks
    MaxBoth     \* bound: such ops and mishaps together

Call == Shell \cup Edit
Item == Msg \cup Call       \* a call, as a message, is the news of its decision
Agent == Worker \cup Sub
ASSUME TurnAssumption ==
    /\ Images \subseteq Msg /\ AskRule \subseteq Shell
    /\ Worker \cap Sub = {} /\ Msg \cap Call = {} /\ Shell \cap Edit = {}
    /\ None \notin Agent \cup Call
    /\ Modes \subseteq {"manual", "auto", "full-access"}
    /\ {MaxOps, MaxMishaps, MaxBoth} \subseteq Nat

VARIABLES
    \* AgentCore
    running, queued, steered, worker, parked, allowed, mode, attended, goal, going,
    force, retry, retried, keep,
    \* the deferred actions, and the decisions by digest
    deferred, decided,
    \* the agents' threads, and the channels between them and the engine
    agent, inbox, events, asks, outcomes,
    \* the threads of approved deferred actions
    acting,
    \* history: where a message ended; ops and mishaps so far
    fate, ops, mishaps

vars == <<running, queued, steered, worker, parked, allowed, mode, attended, goal, going,
          force, retry, retried, keep, deferred, decided, agent, inbox, events, asks,
          outcomes, acting, fate, ops, mishaps>>

-----------------------------------------------------------------------------
\* The state as one record, which the engine's handlers pass on.
Now ==
    [running |-> running, queued |-> queued, steered |-> steered, worker |-> worker,
     parked |-> parked, goal |-> goal, going |-> going, force |-> force, retry |-> retry,
     retried |-> retried, keep |-> keep, deferred |-> deferred, decided |-> decided,
     agent |-> agent, inbox |-> inbox, events |-> events, asks |-> asks,
     fate |-> fate, ops |-> ops, mishaps |-> mishaps]

Becomes(s) ==
    /\ running' = s.running /\ queued' = s.queued /\ steered' = s.steered
    /\ worker' = s.worker /\ parked' = s.parked /\ goal' = s.goal /\ going' = s.going
    /\ force' = s.force /\ retry' = s.retry /\ retried' = s.retried /\ keep' = s.keep
    /\ deferred' = s.deferred /\ decided' = s.decided /\ agent' = s.agent
    /\ inbox' = s.inbox /\ events' = s.events /\ asks' = s.asks /\ fate' = s.fate
    /\ ops' = s.ops /\ mishaps' = s.mishaps

\* An agent's thread: where it is in its turn, the call it is at, whether its interrupt
\* flag is set, whether its manager was replaced, whether its approval channel is the
\* engine's current one, whether it stops for compaction, and messages it is reading.
Idle == [at |-> "off", call |-> None, stop |-> FALSE, old |-> FALSE, open |-> FALSE,
         head |-> FALSE, reads |-> <<>>]

Live(a) == agent[a].at # "off"

\* What may go wrong does so within the bounds.
MayFail(s) == s.mishaps < MaxMishaps /\ s.ops + s.mishaps < MaxBoth

Mishaps(s, S) == {[t EXCEPT !.mishaps = @ + 1] : t \in IF MayFail(s) THEN S ELSE {}}

\* The field of the agents of A that still run.
Updated(s, A, f, v) ==
    [s EXCEPT !.agent = [a \in Agent |-> IF a \in A /\ s.agent[a].at # "off"
                                         THEN [s.agent[a] EXCEPT ![f] = v]
                                         ELSE s.agent[a]]]

Tool(c) == IF c \in Shell THEN "shell" ELSE "edit"

\* ApprovalMode::requires_approval.
Requires(m, c) ==
    IF c \in Shell THEN m # "full-access" ELSE m = "manual"

-----------------------------------------------------------------------------
\* Parts of the engine's handlers.

\* requeue_unread_steers: ahead of what was queued after them.
Requeued(s) == [s EXCEPT !.queued = s.steered \o @, !.steered = <<>>, !.inbox = <<>>]

\* SubagentManager::close_all of the current manager.
Closed(s) == Updated(s, {a \in Sub : ~s.agent[a].old}, "stop", TRUE)

\* The approval channel goes, or is replaced: who waits on it is refused.
Unheard(s) == [Updated(s, Agent, "open", FALSE) EXCEPT !.asks = {}, !.parked = {}]

\* A slip: the flag of the worker stays down.
StopsSubsOnly(s) ==
    [Unheard(Requeued(Closed(s))) EXCEPT !.running = FALSE, !.worker = None, !.events = <<>>,
                                         !.going = FALSE]

\* stop_current_turn.
Stopped(s) ==
    LET t == Requeued(Closed(IF s.worker = None THEN s
                             ELSE Updated(s, {s.worker}, "stop", TRUE)))
    IN  [Unheard(t) EXCEPT !.running = FALSE, !.worker = None, !.events = <<>>,
                           !.going = FALSE]

\* spawn_current_context_turn: it may fail for want of credentials, of a prompt or of a
\* route to the provider; otherwise the turn has a worker, who compacts first when that
\* was forced, and who otherwise may stop for compaction on the way.
Spawn(s) ==
    LET t == [s EXCEPT !.keep = FALSE]
        fresh == IF s.keep THEN t ELSE Updated(Requeued(t), Agent, "old", TRUE)
        rewired == Unheard(fresh)
        free == CHOOSE w \in Worker : s.agent[w].at = "off"
        started(head) ==
            [rewired EXCEPT !.agent[free] = [Idle EXCEPT !.at = "new", !.open = TRUE, !.head = head],
                            !.worker = free, !.events = <<>>, !.running = TRUE,
                            !.force = FALSE]
    IN  {started(head) : head \in IF s.force THEN {FALSE} ELSE BOOLEAN}
        \cup Mishaps(s, {Requeued(Closed(t)), fresh, rewired})

\* start_turn, after the user_prompt_submit hook let the message pass.
StartTurn(s, m) ==
    Spawn([s EXCEPT !.retried = FALSE, !.fate[m] = "recorded"])

StartHookedTurn(s, m) ==
    StartTurn(s, m) \cup Mishaps(s, {[s EXCEPT !.fate[m] = "blocked"]})

\* submit_user_message.
Submit(s, m) ==
    IF s.running THEN {[s EXCEPT !.queued = Append(@, m)]}
    ELSE StartHookedTurn(s, m)

\* restart_with_first.
RestartWithFirst(s) ==
    LET t == Stopped(s)
    IN  StartHookedTurn([t EXCEPT !.queued = Tail(@)], Head(t.queued))

\* Only so many stopped workers linger: the bound on Worker.
Room == \E w \in Worker : ~Live(w)

-----------------------------------------------------------------------------
\* Ops.
Op == ops < MaxOps /\ ops + mishaps < MaxBoth
Then == [Now EXCEPT !.ops = @ + 1]

Others == <<mode, attended, allowed, outcomes, acting>>

UserMessage(m) ==
    /\ fate[m] = "new" /\ Room
    /\ \E s \in Submit([Now EXCEPT !.fate[m] = "live"], m) : Becomes(s)
    /\ UNCHANGED Others

Interrupt ==
    /\ Op /\ running
    /\ Becomes(Stopped(Then))
    /\ UNCHANGED Others

First(i) == <<queued[i]>> \o RemoveAt(queued, i)

\* steer: into the running turn, or for images by a restart of it.
Steer(i) ==
    /\ Op /\ running /\ Room
    /\ LET s == [Then EXCEPT !.queued = First(i)]
           m == queued[i]
           rest == [s EXCEPT !.queued = Tail(@)]
       IN  IF m \in Images THEN \E t \in RestartWithFirst(s) : Becomes(t)
           ELSE \/ Becomes([rest EXCEPT !.inbox = Append(@, m), !.steered = Append(@, m)])
                \/ \E t \in Mishaps(rest, {[rest EXCEPT !.fate[m] = "blocked"]}) : Becomes(t)
    /\ UNCHANGED Others

InterruptSend(i) ==
    /\ Op /\ running /\ Room
    /\ \E s \in RestartWithFirst([Then EXCEPT !.queued = First(i)]) : Becomes(s)
    /\ UNCHANGED Others

Unqueue(i) ==
    /\ Op
    /\ Becomes([Then EXCEPT !.queued = RemoveAt(@, i), !.fate[queued[i]] = "returned"])
    /\ UNCHANGED Others

QueueMove(i, j) ==
    /\ Op /\ i # j
    /\ Becomes([Then EXCEPT !.queued = InsertAt(RemoveAt(@, i), j, queued[i])])
    /\ UNCHANGED Others

\* Replies to waiting agents.  Those let through start the call, unless they were
\* interrupted meanwhile, and those refused go on with that.
Granted(s, A) ==
    LET gone == {a \in A : s.agent[a].stop}
        t == Updated(s, A \ gone, "at", "tool")
    IN  [t EXCEPT !.agent = [a \in Agent |-> IF a \in gone THEN Idle ELSE @[a]]]

Refused(s, A) == Updated(Updated(s, A, "at", "top"), A, "call", None)

\* approve: the client decides a parked call, and with `always` its tool from now on.
Approve(a, allow, always) ==
    /\ a \in parked
    /\ always => allow /\ Op
    /\ LET s == [(IF always THEN Then ELSE Now) EXCEPT !.parked = @ \ {a}]
       IN  Becomes(IF allow THEN Granted(s, {a}) ELSE Refused(s, {a}))
    /\ allowed' = IF always
                  THEN allowed \cup {Tool(agent[a].call)}
                  ELSE allowed
    /\ UNCHANGED <<mode, attended, outcomes, acting>>

\* set_approval_mode: parked calls the new mode does not gate run now.
SetApprovalMode(m) ==
    /\ Op /\ m # mode
    /\ mode' = m
    /\ LET freed == {a \in parked : ~Requires(m, agent[a].call)}
       IN  Becomes(Granted([Then EXCEPT !.parked = @ \ freed], freed))
    /\ UNCHANGED <<attended, allowed, outcomes, acting>>

\* A slip: decisions are not looked up.
DefersAnew(s, A) ==
    [Refused(s, A) EXCEPT !.deferred = @ \cup {s.agent[a].call : a \in A}]

\* defer_call for the calls of A: a decision on the same call stands, else the call
\* becomes a deferred action, unless it is one already.
Deferred(s, A) ==
    LET yes == {a \in A : s.decided[s.agent[a].call] = "allow"}
        new == {s.agent[a].call : a \in {b \in A : s.decided[s.agent[b].call] = "none"}}
    IN  [Refused(Granted(s, yes), A \ yes) EXCEPT !.deferred = @ \cup new]

\* A slip: parked calls stay parked.
LeavesParked(b) ==
    /\ b # attended /\ (Op \/ b)
    /\ attended' = b /\ Becomes(IF b THEN Now ELSE Then)
    /\ UNCHANGED <<mode, allowed, outcomes, acting>>

\* A slip: parked calls are taken out and get no answer.
TakesParked(b) ==
    /\ b # attended /\ (Op \/ b)
    /\ attended' = b /\ Becomes(IF b THEN Now ELSE [Then EXCEPT !.parked = {}])
    /\ UNCHANGED <<mode, allowed, outcomes, acting>>

\* set_attended: without a client, parked calls become deferred actions.
SetAttended(b) ==
    /\ b # attended /\ (Op \/ b)
    /\ attended' = b
    /\ Becomes(IF b THEN Now ELSE Deferred([Then EXCEPT !.parked = {}], parked))
    /\ UNCHANGED <<mode, allowed, outcomes, acting>>

\* decide_action: declined, the session gets the news; approved, a thread runs it.
DecideAction(c, allow) ==
    /\ c \in deferred /\ Room
    /\ LET s == [Now EXCEPT !.deferred = @ \ {c},
                            !.decided[c] = IF allow THEN "allow" ELSE "deny"]
       IN  IF allow THEN Becomes(s)
           ELSE \E t \in Submit([s EXCEPT !.fate[c] = "live"], c) : Becomes(t)
    /\ acting' = IF allow THEN acting \cup {c} ELSE acting
    /\ UNCHANGED <<mode, attended, allowed, outcomes>>

SetGoal(b) ==
    /\ Op /\ b # goal
    /\ Becomes([Then EXCEPT !.goal = b])
    /\ UNCHANGED Others

ContinueTurn ==
    /\ Op /\ ~running /\ Room
    /\ \E m \in Item : fate[m] = "recorded"
    /\ \E s \in Spawn([Then EXCEPT !.retried = FALSE]) : Becomes(s)
    /\ UNCHANGED Others

\* /compact: a worker that only compacts.
Compact ==
    /\ Op /\ ~running /\ Room
    /\ LET w == CHOOSE w \in Worker : ~Live(w)
       IN  Becomes([Then EXCEPT !.agent[w] = [Idle EXCEPT !.at = "compact"], !.worker = w,
                               !.events = <<>>, !.running = TRUE, !.going = FALSE])
    /\ UNCHANGED Others

-----------------------------------------------------------------------------
\* poll_events.

\* The turn's end: subagents close, what it did not read runs next.
Ended(s, met) ==
    [Requeued(Closed(s)) EXCEPT !.running = FALSE, !.worker = None, !.events = <<>>,
                                !.going = FALSE, !.goal = @ /\ ~met]

\* The turn is retried after a compaction, which a turn that stopped half-way for it
\* survives with its subagents.
Again(s, midTurn) ==
    [(IF midTurn THEN s ELSE Closed(s))
        EXCEPT !.keep = @ \/ midTurn, !.running = FALSE, !.worker = None, !.events = <<>>,
               !.retried = TRUE, !.retry = TRUE, !.force = TRUE]

\* A slip: what was read stays among the steered.
HeardAgain(s, es) ==
    LET read == {es[i].m : i \in {j \in DOMAIN es : es[j].kind = "steered"}}
    IN  [s EXCEPT !.fate = [m \in Item |-> IF m \in read THEN "recorded" ELSE @[m]],
                  !.events = <<>>]

\* The sequence without the elements of S.
Without(seq, S) ==
    LET upTo[n \in 0..Len(seq)] ==
          IF n = 0 THEN <<>>
          ELSE IF seq[n] \in S THEN upTo[n - 1] ELSE Append(upTo[n - 1], seq[n])
    IN  upTo[Len(seq)]

\* The events up to the last: the session records what was read and what was answered.
Heard(s, es) ==
    LET read == {es[i].m : i \in {j \in DOMAIN es : es[j].kind = "steered"}}
        answered == \E i \in DOMAIN es : es[i].kind = "response"
    IN  [s EXCEPT !.steered = Without(@, read),
                  !.fate = [m \in Item |-> IF m \in read THEN "recorded" ELSE @[m]],
                  !.retried = @ /\ ~answered,
                  !.events = <<>>]

\* The worker's events.  `folds`: whether history is left to compact; `met`: whether the
\* turn met the goal or spent its budget.
Drained(s, folds, met) ==
    LET t == Heard(s, s.events)
        end == IF s.events = <<>> THEN "none" ELSE Last(s.events).kind
    IN  CASE end \in {"done", "error"} -> Ended(t, met)
          [] end = "mid-turn" -> Again(t, TRUE)
          [] end = "overflow" -> IF ~t.retried /\ folds THEN Again(t, FALSE)
                                 ELSE Ended(t, met)
          [] OTHER -> t

\* poll_approval_requests.
Approvals(s) ==
    LET free == {a \in s.asks : \/ Tool(s.agent[a].call) \in allowed
                                \/ ~Requires(mode, s.agent[a].call)}
        gated == s.asks \ free
        t == Granted([s EXCEPT !.asks = {}], free)
    IN  IF attended THEN [t EXCEPT !.parked = @ \cup gated] ELSE Deferred(t, gated)

\* poll_action_outcomes: the news of each reaches the session as a message.
Outcomes(s) ==
    LET after[n \in 0..Len(outcomes)] ==
          IF n = 0 THEN {s}
          ELSE UNION {Submit([t EXCEPT !.fate[outcomes[n]] = "live"], outcomes[n]) :
                         t \in after[n - 1]}
    IN  after[Len(outcomes)]

\* Idle, the engine retries, starts the next message, or goes on towards the goal.
Continued(s) ==
    CASE s.running -> {s}
      [] ~s.running /\ s.retry -> Spawn([s EXCEPT !.retry = FALSE])
      [] ~s.running /\ ~s.retry /\ s.queued # <<>> ->
            StartHookedTurn([s EXCEPT !.going = FALSE, !.queued = Tail(@)], Head(s.queued))
      [] OTHER -> IF s.goal /\ ~s.going THEN Spawn([s EXCEPT !.going = TRUE]) ELSE {s}

Poll ==
    /\ Room
    /\ \E folds \in {FALSE, events # <<>>}, met \in {FALSE, goal} :
          \E s \in Outcomes(Approvals(Drained(Now, folds, met))) :
             \E t \in Continued(s) : Becomes(t)
    /\ outcomes' = <<>>
    /\ UNCHANGED <<mode, attended, allowed, acting>>

\* An approved action's thread has run the call.
ActionRuns(c) ==
    /\ c \in acting
    /\ acting' = acting \ {c}
    /\ outcomes' = Append(outcomes, c)
    /\ UNCHANGED <<mode, attended, allowed>> /\ Becomes(Now)

-----------------------------------------------------------------------------
\* Agents.

Aside == <<running, queued, steered, worker, parked, allowed, mode, attended, goal, going,
           force, retry, retried, keep, deferred, decided, outcomes, acting, fate>>

Goes(a, f) == agent' = [agent EXCEPT ![a] = f]

At(a, where) == [agent[a] EXCEPT !.at = where]

\* One response unread is as good as several.
Known(kind) == kind = "response" /\ \E i \in DOMAIN events : events[i].kind = kind

\* `emit`: an event of the current turn's worker reaches the engine; an interrupted
\* agent ends instead.
Emits(a, kind, m, f) ==
    /\ Goes(a, IF agent[a].stop THEN Idle ELSE f)
    /\ events' = IF a # worker \/ agent[a].stop \/ Known(kind) THEN events
                 ELSE Append(events, [kind |-> kind, m |-> m])

\* A mishap.
Mishap == MayFail(Now) /\ mishaps' = mishaps + 1 /\ UNCHANGED ops

\* The head of run_turn_events' loop: a turn past its headroom stops for compaction;
\* the main agent takes what the user steered.
NextRequest(a) ==
    /\ agent[a].at \in {"new", "top"}
    /\ \/ /\ agent[a].head /\ agent[a].at = "top"
          /\ Mishap /\ Emits(a, "mid-turn", None, Idle)
          /\ UNCHANGED inbox
       \/ /\ IF a \in Worker /\ ~agent[a].old /\ inbox # <<>>
             THEN Goes(a, [At(a, "read") EXCEPT !.reads = inbox]) /\ inbox' = <<>>
             ELSE Goes(a, IF agent[a].stop THEN Idle ELSE At(a, "wait")) /\ UNCHANGED inbox
          /\ UNCHANGED <<events, ops, mishaps>>
    /\ UNCHANGED <<Aside, asks>>

\* append_queued_subagent_messages, and then the request.
Reads(a) ==
    /\ agent[a].at = "read"
    /\ LET rest == Tail(agent[a].reads)
       IN  Emits(a, "steered", Head(agent[a].reads),
                 [At(a, IF rest = <<>> THEN "wait" ELSE "read") EXCEPT !.reads = rest])
    /\ UNCHANGED <<Aside, asks, inbox, ops, mishaps>>

\* The model asks for a call.  The command rules and the live mode gate it, in `auto`
\* the classifier may let a shell command pass, and then request_approval waits for an
\* answer; without the channel that is a denial.
Calls(a, c) ==
    LET ask == c \in AskRule
        needs == ask \/ Requires(mode, c)
        to(where) == Emits(a, "response", None, [At(a, where) EXCEPT !.call = c])
    IN  /\ agent[a].at = "wait"
        /\ \/ /\ ~needs \/ (~ask /\ mode = "auto" /\ c \in Shell)
              /\ to("tool") /\ UNCHANGED asks
           \/ /\ needs /\ agent[a].open
              /\ to("asked") /\ asks' = IF agent[a].stop THEN asks ELSE asks \cup {a}
           \/ /\ needs /\ ~agent[a].open
              /\ Emits(a, "response", None, At(a, "top")) /\ UNCHANGED asks
        /\ UNCHANGED <<Aside, inbox, ops, mishaps>>

\* The model starts a subagent, which is a tool as well.
CallsSpawn(a) ==
    /\ a \in Worker /\ agent[a].at = "wait"
    /\ Op /\ ops' = ops + 1 /\ UNCHANGED mishaps
    /\ Emits(a, "response", None, At(a, "tool"))
    /\ UNCHANGED <<Aside, asks, inbox>>

\* The turn is over, or a request fails, for the main agent perhaps for a context over
\* the model's window.
Finishes(a) ==
    /\ agent[a].at = "wait"
    /\ \/ Emits(a, "done", None, Idle) /\ UNCHANGED <<ops, mishaps>>
       \/ \E kind \in {"error", "overflow"} : Mishap /\ Emits(a, kind, None, Idle)
    /\ UNCHANGED <<Aside, asks, inbox>>

\* request_approval: the channel or the responder is gone, which counts as a denial.
Dropped(a) ==
    /\ agent[a].at = "asked" /\ a \notin asks \cup parked
    /\ Goes(a, IF agent[a].stop THEN Idle ELSE [At(a, "top") EXCEPT !.call = None])
    /\ UNCHANGED <<Aside, asks, events, inbox, ops, mishaps>>

\* The tool is done.  A new subagent shares the approval channel and the manager of its
\* parent.
ToolEnds(a) ==
    /\ agent[a].at = "tool"
    /\ LET next == IF agent[a].stop THEN Idle ELSE [At(a, "top") EXCEPT !.call = None]
           child == [Idle EXCEPT !.at = "new", !.open = agent[a].open, !.old = agent[a].old]
       IN  IF agent[a].call = None /\ \E b \in Sub : ~Live(b)
           THEN LET b == CHOOSE b \in Sub : ~Live(b)
                IN  agent' = [agent EXCEPT ![a] = next, ![b] = child]
           ELSE Goes(a, next)
    /\ UNCHANGED <<Aside, asks, events, inbox, ops, mishaps>>

\* /compact's worker is done, interrupted or not.
Compacted(a) ==
    /\ agent[a].at = "compact"
    /\ Emits(a, "done", None, Idle)
    /\ UNCHANGED <<Aside, asks, inbox, ops, mishaps>>

Steps(a) ==
    \/ NextRequest(a) \/ Reads(a) \/ CallsSpawn(a) \/ Finishes(a) \/ Dropped(a)
    \/ ToolEnds(a) \/ Compacted(a)
    \/ \E c \in Call : Calls(a, c)

-----------------------------------------------------------------------------
Init ==
    /\ running = FALSE /\ queued = <<>> /\ steered = <<>> /\ worker = None
    /\ parked = {} /\ allowed = {} /\ goal = FALSE /\ going = FALSE
    /\ mode \in Modes /\ attended = FALSE
    /\ force = FALSE /\ retry = FALSE /\ retried = FALSE /\ keep = FALSE
    /\ deferred = {} /\ decided = [c \in Call |-> "none"]
    /\ agent = [a \in Agent |-> Idle] /\ inbox = <<>> /\ events = <<>> /\ asks = {}
    /\ outcomes = <<>> /\ acting = {}
    /\ fate = [m \in Item |-> "new"] /\ ops = 0 /\ mishaps = 0

EngineOp ==
    \/ \E m \in Msg : UserMessage(m)
    \/ Interrupt
    \/ \E i \in DOMAIN queued : Steer(i) \/ InterruptSend(i) \/ Unqueue(i)
    \/ \E i, j \in DOMAIN queued : QueueMove(i, j)
    \/ \E a \in Agent, allow, always \in BOOLEAN : Approve(a, allow, always)
    \/ \E m \in Modes : SetApprovalMode(m)
    \/ \E b \in BOOLEAN : SetAttended(b) \/ SetGoal(b)
    \/ \E c \in Call, allow \in BOOLEAN : DecideAction(c, allow)
    \/ ContinueTurn \/ Compact

Next ==
    \/ EngineOp
    \/ Poll
    \/ \E c \in Call : ActionRuns(c)
    \/ \E a \in Agent : Steps(a)

Spec == Init /\ [][Next]_vars

-----------------------------------------------------------------------------
TypeOK ==
    /\ {running, attended, goal, going, force, retry, retried, keep} \subseteq BOOLEAN
    /\ queued \in Seq(Item) /\ steered \in Seq(Item \ Images) /\ inbox \in Seq(Item \ Images)
    /\ worker \in Worker \cup {None} /\ parked \subseteq Agent /\ asks \subseteq Agent
    /\ allowed \subseteq {"shell", "edit"} /\ mode \in Modes
    /\ deferred \subseteq Call /\ decided \in [Call -> {"none", "allow", "deny"}]
    /\ agent \in [Agent -> [at : {"off", "new", "top", "read", "wait", "asked", "tool", "compact"},
                            call : Call \cup {None}, stop : BOOLEAN, old : BOOLEAN,
                            open : BOOLEAN, head : BOOLEAN, reads : Seq(Item)]]
    /\ fate \in [Item -> {"new", "live", "recorded", "blocked", "returned"}]

Places(m) ==
    Cardinality({i \in DOMAIN queued : queued[i] = m})
    + Cardinality({i \in DOMAIN steered : steered[i] = m})

\* A message the engine took is in one place until the session has it, a hook blocked it
\* or the user took it back: it waits in the queue, or was steered into the turn and
\* waits to be read.  No interrupt, retry or end of a turn loses or doubles it.
EachMessageOnce == \A m \in Item : Places(m) = IF fate[m] = "live" THEN 1 ELSE 0

\* While the current turn waits for an approval, the engine has its request: nothing
\* done meanwhile leaves the turn waiting for an answer nobody can give.
TurnIsHeard ==
    worker # None /\ agent[worker].at = "asked" => worker \in asks \cup parked

\* A parked call is one the mode still gates, some agent waits for its answer, and a client
\* watches who could give it.
ParkedIsGated ==
    \A a \in parked : attended /\ agent[a].at = "asked" /\ Requires(mode, agent[a].call)

Ends == {"done", "error", "mid-turn", "overflow"}

\* The engine takes a turn to run exactly while one does, or its end is still to be
\* read; any other worker was told to stop.
RunningHasWorker ==
    /\ running <=> worker # None
    /\ running => \/ Live(worker) /\ ~agent[worker].stop
                  \/ events # <<>> /\ Last(events).kind \in Ends
    /\ \A w \in Worker \ {worker} : Live(w) => agent[w].stop

\* A decision stands: a call that was decided is not put to the user again.
DecisionsStand ==
    [][\A c \in Call : c \notin deferred /\ c \in deferred' => decided[c] = "none"]_vars
=============================================================================
