---------------------------- MODULE SubSessions ----------------------------
(***************************************************************************)
(* One session that hands work to another (crates/daemon/src/              *)
(* subsessions.rs): start_session, wait_session and send_session.  What    *)
(* the child is doing is kept from the events its engine publishes         *)
(* (observe, with titles.rs telling when a turn is over), and from the end *)
(* of its engine (ended).                                                  *)
(*                                                                         *)
(* One child is modelled, on JuCode's engine or on another; its parent may *)
(* make several calls at once, each on a thread of its own, and the user   *)
(* may write to the child, close it and open it again.  An engine that is  *)
(* closed publishes nothing more, but its thread ends later, maybe after   *)
(* the session was opened again.                                           *)
(***************************************************************************)
EXTENDS Naturals

CONSTANTS
    Call,         \* threads of the parent's send_session calls
    MaxMessages,  \* bounds: messages sent to the child, ...
    MaxReplies,   \* ... replies of its model and tool calls ...
    MaxMishaps    \* ... and failures, closings, approvals and background work

ASSUME SubSessionsAssumption == {MaxMessages, MaxReplies, MaxMishaps} \subseteq Nat

VARIABLES
    \* Child: what Hub.children holds of it; status "none": no entry
    status,    \* "running", "waiting_approval", "done", "failed" or "closed"
    reply,     \* the replies of the model whose text it holds
    \* Turns (titles.rs) of the child's session
    running, erred,
    \* the child's engine
    kind,      \* "jucode" or "cli"
    hosted,    \* its session has an entry in Hub.sessions
    leaving,   \* a closed engine's thread has not ended yet
    inbox,     \* messages in the channel of ops
    queued,    \* messages the engine has read, for after the turn
    turn,      \* "off", "on", or "asks": waits for an answer of the user
    aside,     \* work that goes on after the turn, or an action put off
    \* the parent
    starting,  \* start_session: "no", "created", "listed", "done" or "failed"
    call,      \* send_session, by thread: "idle", "checked" or "set"
    \* history
    messages, said, mishaps,
    unsent     \* the last message the child was set running for was refused

child == <<status, reply, running, erred>>
childEngine == <<inbox, queued, turn, aside>>
parent == <<starting, call, unsent>>
subVars == <<child, kind, hosted, leaving, childEngine, parent, messages, said, mishaps>>

-----------------------------------------------------------------------------
\* Events of the child's session: hub.rs, observe.
Now == [status |-> status, reply |-> reply, running |-> running, erred |-> erred]
Becomes(s) ==
    /\ status' = s.status /\ reply' = s.reply
    /\ running' = s.running /\ erred' = s.erred

Speaks(e) == e \in {"assistant_start", "assistant_delta"}

\* Turns::observe.
Tracked(s, e) ==
    [status |-> s.status, reply |-> s.reply,
     running |-> e # "ready" /\ (s.running \/ Speaks(e) \/ e \in {"user_message", "tool_start"}),
     erred |-> \/ s.running /\ e = "error"
               \/ s.erred /\ ~Speaks(e) /\ e \notin {"user_message", "ready"}
                  /\ (e = "tool_start" => s.running)]

\* A slip: a question in the middle of a turn is not among them.
WaitsForActions == {"action_deferred"}

\* The events by which a child waits for the user, and works.
Waits == {"approval_request", "action_deferred"}
Works == {"action_decided", "tool_start", "nested_tool_start", "assistant_start"}

\* subsessions::observe: by an event alone, ...
Became(s, e) ==
    IF e \in Waits THEN "waiting_approval"
    ELSE IF e \in Works \/ (e = "assistant_delta" /\ s.status = "waiting_approval") THEN "running"
    ELSE s.status

Heard(s, e) ==
    IF e = "assistant_start" THEN {}
    ELSE IF e = "assistant_delta" THEN s.reply \cup {said} ELSE s.reply

\* ... and when a turn is over by it, failed or not.
ChildObserved(s, e, over, failed) ==
    IF s.status = "none" THEN s
    ELSE [status |-> IF ~over \/ Became(s, e) = "closed" THEN Became(s, e)
                     ELSE IF failed THEN "failed" ELSE "done",
          reply |-> Heard(s, e), running |-> s.running, erred |-> s.erred]

\* Hub::observe.
Published(s, e) ==
    LET over == e = "ready" /\ s.running
    IN  ChildObserved(Tracked(s, e), e, over, over /\ s.erred)

Publishes(e) == Becomes(Published(Now, e))

\* Slips: one of the two statuses is forgotten.
EndsRunning == status' = IF status = "running" THEN "closed" ELSE status

\* subsessions::ended.
Ended == status' = IF status \in {"running", "waiting_approval"} THEN "closed" ELSE status

-----------------------------------------------------------------------------
\* The parent: start_session.
Creates(k) ==
    /\ starting = "no"
    /\ starting' = "created" /\ kind' = k /\ hosted' = TRUE
    /\ UNCHANGED <<child, leaving, childEngine, call, unsent, messages, said, mishaps>>

Lists ==
    /\ starting = "created"
    /\ starting' = "listed" /\ status' = "running"
    /\ UNCHANGED <<reply, running, erred, kind, hosted, leaving, childEngine, call, unsent,
                   messages, said, mishaps>>

\* send_to_session: to whichever engine is open now.
Delivers == hosted /\ inbox' = inbox + 1 /\ messages' = messages + 1

Started ==
    /\ starting = "listed"
    /\ \/ Delivers /\ starting' = "done" /\ UNCHANGED <<status, reply>>
       \/ /\ ~hosted /\ starting' = "failed" /\ status' = "none" /\ reply' = {}
          /\ UNCHANGED <<inbox, messages>>
    /\ UNCHANGED <<running, erred, kind, hosted, leaving, queued, turn, aside, call,
                   unsent, said, mishaps>>

\* The parent: send_session.  Each step takes a lock of its own.
SendChecks(c) ==
    /\ starting = "done" /\ call[c] = "idle" /\ messages < MaxMessages
    /\ status \notin {"running", "waiting_approval", "closed"}
    /\ call' = [call EXCEPT ![c] = "checked"]
    /\ UNCHANGED <<child, kind, hosted, leaving, childEngine, starting, unsent, messages, said,
                   mishaps>>

SendSets(c) ==
    /\ call[c] = "checked"
    /\ call' = [call EXCEPT ![c] = "set"]
    /\ status' = "running" /\ reply' = {}
    /\ UNCHANGED <<running, erred, kind, hosted, leaving, childEngine, starting, unsent, messages,
                   said, mishaps>>

SendDelivers(c) ==
    /\ call[c] = "set"
    /\ call' = [call EXCEPT ![c] = "idle"]
    /\ \/ Delivers /\ unsent' = FALSE
       \/ ~hosted /\ unsent' = TRUE /\ UNCHANGED <<inbox, messages>>
    /\ UNCHANGED <<child, kind, hosted, leaving, queued, turn, aside, starting, said, mishaps>>

\* wait_session waits for as long as this holds, and then tells the status and the reply.
StillWorking == status = "running"

-----------------------------------------------------------------------------
\* The user.
Mishap == mishaps < MaxMishaps /\ mishaps' = mishaps + 1

\* The user opens the session again.  Other engines than JuCode's start with "ready".
Opens ==
    /\ starting # "no" /\ ~hosted /\ hosted' = TRUE /\ Mishap
    /\ IF kind = "cli" THEN Publishes("ready") ELSE UNCHANGED child
    /\ UNCHANGED <<kind, leaving, childEngine, parent, messages, said>>

UserWrites ==
    /\ starting # "no" /\ messages < MaxMessages /\ Delivers
    /\ UNCHANGED <<child, kind, hosted, leaving, queued, turn, aside, parent, said, mishaps>>

\* The entry goes, and with it what the engine had not done.  One thread at most is ending.
Stops ==
    /\ hosted' = FALSE /\ leaving' = TRUE
    /\ inbox' = 0 /\ queued' = 0 /\ turn' = "off" /\ aside' = {}

\* The user closes the session, or its engine fails.
Closes ==
    /\ hosted /\ ~leaving /\ Mishap /\ Stops
    /\ UNCHANGED <<child, kind, parent, messages, said>>

\* close_idle: no turn, no message and no work that goes on.
ClosesIdle ==
    /\ hosted /\ ~leaving /\ Stops
    /\ turn = "off" /\ inbox + queued = 0 /\ "work" \notin aside
    /\ starting \in {"done", "failed"}
    /\ UNCHANGED <<child, kind, parent, messages, said, mishaps>>

\* session_ended, unless the session was opened again meanwhile.
ThreadEnds ==
    /\ leaving /\ leaving' = FALSE
    /\ IF hosted THEN UNCHANGED status ELSE Ended
    /\ UNCHANGED <<reply, running, erred, kind, hosted, childEngine, parent, messages, said,
                   mishaps>>

-----------------------------------------------------------------------------
\* The child's engine.
EngineOnly == UNCHANGED <<kind, hosted, leaving, parent, messages>>

\* A message of an idle child starts a turn.  JuCode's hook may refuse it, or the turn finds
\* no credentials, and says no more than that.
Begins(s) ==
    LET asked == Published(s, "user_message")
        failed == Published(asked, "error")
    IN  \/ turn' = "on" /\ Becomes(asked) /\ UNCHANGED mishaps
        \/ /\ turn' = "off" /\ kind = "jucode" /\ Mishap
           /\ Becomes(failed) \/ Becomes(Published(failed, "ready"))

Reads ==
    /\ hosted /\ inbox > 0 /\ inbox' = inbox - 1
    /\ \/ turn = "off" /\ queued = 0 /\ Begins(Now) /\ UNCHANGED queued
       \/ turn # "off" /\ queued' = queued + 1 /\ UNCHANGED <<child, turn, mishaps>>
    /\ EngineOnly /\ UNCHANGED <<aside, said>>

\* JuCode's engine goes on with what was queued for after the turn.
Continues ==
    /\ turn = "off" /\ queued > 0 /\ queued' = queued - 1 /\ Begins(Now)
    /\ EngineOnly /\ UNCHANGED <<inbox, aside, said>>

\* The model's reply begins; the engine may start the turn itself, when work it left going
\* ends.
Replies ==
    /\ said < MaxReplies /\ said' = said + 1
    /\ \/ turn = "on" /\ UNCHANGED <<turn, aside>>
       \/ turn = "off" /\ "work" \in aside /\ turn' = "on" /\ aside' = aside \ {"work"}
    /\ Publishes("assistant_start")
    /\ EngineOnly /\ UNCHANGED <<inbox, queued, mishaps>>

SaysMore ==
    /\ turn = "on" /\ said > 0
    /\ Publishes("assistant_delta")
    /\ EngineOnly /\ UNCHANGED <<childEngine, said, mishaps>>

UsesTool ==
    /\ turn = "on"
    /\ Publishes("tool_start")
    /\ EngineOnly /\ UNCHANGED <<childEngine, said, mishaps>>

Asks ==
    /\ turn = "on" /\ Mishap
    /\ turn' = "asks" /\ Publishes("approval_request")
    /\ EngineOnly /\ UNCHANGED <<inbox, queued, aside, said>>

\* Allowed, the tool starts; refused, the model goes on.
Answered ==
    /\ turn = "asks" /\ turn' = "on"
    /\ \/ Publishes("tool_start")
       \/ UNCHANGED child
    /\ EngineOnly /\ UNCHANGED <<inbox, queued, aside, said, mishaps>>

\* JuCode's engine, unattended, puts an action off; its outcome comes as a message.
Defers ==
    /\ turn = "on" /\ kind = "jucode" /\ "action" \notin aside /\ Mishap
    /\ aside' = aside \cup {"action"} /\ Publishes("action_deferred")
    /\ EngineOnly /\ UNCHANGED <<inbox, queued, turn, said>>

Decided ==
    /\ "action" \in aside /\ aside' = aside \ {"action"}
    /\ IF turn = "off" /\ queued = 0
       THEN Begins(Published(Now, "action_decided")) /\ UNCHANGED queued
       ELSE /\ queued' = queued + 1 /\ Publishes("action_decided")
            /\ UNCHANGED <<turn, mishaps>>
    /\ EngineOnly /\ UNCHANGED <<inbox, said>>

\* A subagent in the background outlives the turn, and its tools are told as nested.
LeavesWork ==
    /\ turn = "on" /\ kind = "cli" /\ "work" \notin aside /\ Mishap
    /\ aside' = aside \cup {"work"}
    /\ EngineOnly /\ UNCHANGED <<child, inbox, queued, turn, said>>

WorkUsesTool ==
    /\ "work" \in aside
    /\ Publishes("nested_tool_start")
    /\ EngineOnly /\ UNCHANGED <<childEngine, said, mishaps>>

WorkEnds ==
    /\ "work" \in aside /\ aside' = aside \ {"work"}
    /\ EngineOnly /\ UNCHANGED <<child, inbox, queued, turn, said, mishaps>>

\* The turn is over; JuCode's engine says so when nothing is queued.
Finishes ==
    /\ turn # "off" /\ turn' = "off"
    /\ LET Over(s) == IF kind = "cli" \/ queued = 0 THEN Published(s, "ready") ELSE s
       IN  \/ Becomes(Over(Now)) /\ UNCHANGED mishaps
           \/ Becomes(Over(Published(Now, "error"))) /\ Mishap
    /\ EngineOnly /\ UNCHANGED <<inbox, queued, aside, said>>

-----------------------------------------------------------------------------
SubInit ==
    /\ status = "none" /\ reply = {} /\ running = FALSE /\ erred = FALSE
    /\ kind = "jucode" /\ hosted = FALSE /\ leaving = FALSE
    /\ inbox = 0 /\ queued = 0 /\ turn = "off" /\ aside = {}
    /\ starting = "no" /\ call = [c \in Call |-> "idle"] /\ unsent = FALSE
    /\ messages = 0 /\ said = 0 /\ mishaps = 0

EngineStep ==
    \/ Reads \/ Continues \/ Replies \/ SaysMore \/ UsesTool \/ Asks \/ Answered
    \/ Defers \/ Decided \/ LeavesWork \/ WorkUsesTool \/ WorkEnds \/ Finishes

SubNext ==
    \/ \E k \in {"jucode", "cli"} : Creates(k)
    \/ Lists \/ Started
    \/ \E c \in Call : SendChecks(c) \/ SendSets(c) \/ SendDelivers(c)
    \/ UserWrites \/ Opens \/ Closes \/ ClosesIdle \/ ThreadEnds
    \/ EngineStep

SubSpec == SubInit /\ [][SubNext]_subVars

\* Calls return, threads run, turns end, and the daemon sweeps.
SubFairSpec ==
    /\ SubSpec
    /\ WF_subVars(Started) /\ WF_subVars(\E c \in Call : SendDelivers(c))
    /\ WF_subVars(ThreadEnds) /\ WF_subVars(ClosesIdle)
    /\ WF_subVars(Reads \/ Continues) /\ WF_subVars(Finishes) /\ WF_subVars(WorkEnds)

-----------------------------------------------------------------------------
SubTypeOK ==
    /\ status \in {"none", "running", "waiting_approval", "done", "failed", "closed"}
    /\ reply \subseteq 0..MaxReplies
    /\ running \in BOOLEAN /\ erred \in BOOLEAN
    /\ hosted \in BOOLEAN /\ leaving \in BOOLEAN /\ unsent \in BOOLEAN
    /\ kind \in {"jucode", "cli"} /\ turn \in {"off", "on", "asks"}
    /\ aside \subseteq {"work", "action"}
    /\ inbox \in Nat /\ queued \in Nat /\ messages \in Nat
    /\ starting \in {"no", "created", "listed", "done", "failed"}
    /\ call \in [Call -> {"idle", "checked", "set"}]
    /\ said \in 0..MaxReplies /\ mishaps \in 0..MaxMishaps

\* A call of the parent is about to send, or the first message is about to go.
Sending == starting = "listed" \/ \E c \in Call : call[c] = "set"

\* An engine that ended leaves no child at work: once its thread has gone and no engine has
\* taken over, the parent reads that the session closed, unless its message found no engine.
StoppedIsTold ==
    ~hosted /\ ~leaving /\ ~Sending /\ status \in {"running", "waiting_approval"} => unsent

\* A child that the parent is told is done, or failed, has no turn that waits for an answer,
\* and its reply is of one message of the model, the last, whatever turns of the user's came
\* between.  An action that the child put off may still be open: its turn goes on meanwhile.
DoneIsOver ==
    /\ status \in {"done", "failed"} => turn # "asks"
    /\ reply \subseteq {said}


=============================================================================
