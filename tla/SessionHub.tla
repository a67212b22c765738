----------------------------- MODULE SessionHub -----------------------------
(***************************************************************************)
(* The daemon's session hub (crates/daemon/src/hub.rs): which engine backs *)
(* which session, and everything that races with an engine starting or     *)
(* stopping.  Three kinds of threads share the hub's mutexes:              *)
(*                                                                         *)
(*   - client connections (lib.rs, `pump`/`handle`), one op at a time each *)
(*     and threads that deliver prompts (`send_to_session`);               *)
(*   - one engine thread per generation (session.rs for JuCode's own       *)
(*     engine, engines/mod.rs for the CLIs), polling its op channel;       *)
(*   - the scheduler thread's minute sweep (`close_idle`), and the thread  *)
(*     of a pending daemon update (`restart_when_idle`).                   *)
(*                                                                         *)
(* An action is one critical section: what a thread does under one lock,   *)
(* up to the next lock it takes.  Every session is one the store already   *)
(* records, so it can be opened; the records themselves are left out, as   *)
(* are the frames broadcast to the clients.                                *)
(***************************************************************************)
EXTENDS Naturals, Sequences, FiniteSets

CONSTANTS
    Session,    \* sessions the store records
    Locked,     \* those that may be on JuCode's own engine
    Client,     \* client connections
    Sender,     \* threads delivering a prompt (a schedule, a parent session)
    MaxGen,     \* bound: engine threads started
    MaxCalls,   \* bound: ops handled
    MaxLive,    \* MAX_LIVE_ENGINES
    NoSession,  \* no session: the op of a thread that has none
    Ops         \* what happens in this instance

AllOps == {"open", "options", "close", "watch", "message", "tune", "send",
           "disconnect", "sweep", "restart", "background", "stop", "quit", "tui"}

ASSUME ConstantsAssumption ==
    /\ Locked \subseteq Session
    /\ NoSession \notin Session
    /\ Client \cap Sender = {}
    /\ MaxGen \in Nat /\ MaxCalls \in Nat /\ MaxLive \in Nat
    /\ Ops \subseteq AllOps

VARIABLES
    \* Hub.sessions: one entry per hosted session, all under one lock.
    hosted,     \* the generation behind the entry; 0: no entry
    watchers,   \* Hosted.watchers
    age,        \* now - last_active: 0 just now, 1 CAP_MIN_IDLE, 2 IDLE_CLOSE
    held,       \* Hosted.held
    \* Hub.busy, claims, asleep, close_reasons: a lock each.
    busy,       \* the sessions of Hub.busy
    claims,     \* deliveries no engine has read yet
    asleep,     \* "awake": no entry; else the options of its next open
    idleReason, \* the sessions whose close_reasons entry is "idle"
    \* Engine threads, by generation.
    gens,       \* next_generation: how many have started
    at,         \* where the thread is
    own,        \* the session it serves
    inbox,      \* the ops channel
    turn,       \* a turn runs or messages are queued in the engine
    bg,         \* background work (or an approval) is open
    tuned,      \* it runs with options other than the defaults
    attended,   \* what the engine last heard of being watched
    mark,       \* the busy value `set_busy` is about to write
    \* A session's own TUI, which has the conversation while the engine waits.
    term,       \* the engine threads whose terminal's program runs
    told,       \* history: what was last said to an engine of being watched
    blind,      \* history: those that read no such word since they opened a TUI
    \* Client and sender threads.
    pc,         \* where the thread is in its op
    arg,        \* the op's session
    new,        \* the engine it has started, or taken out of the map
    given,      \* the options the op names ("plain": none), then those used
    after,      \* what follows an open: "reply", "watch" (wake), "forward"
    leaving,    \* remove_client: sessions still to unwatch
    conn,       \* client connections that are up
    calls,      \* ops started so far
    \* The sweep and the pending update.
    sweepAt, spared, victim, cur,
    restart,
    \* The store: the sessions on JuCode's own engine, which holds a SessionLock.
    jucode

hubVars    == <<hosted, watchers, age, held>>
setVars    == <<busy, claims, asleep, idleReason>>
engVars    == <<gens, at, own, inbox, turn, bg, tuned, attended, mark>>
callVars   == <<pc, arg, new, given, after, leaving, conn, calls>>
sweepVars  == <<sweepAt, spared, victim, cur>>
tuiVars    == <<term, told, blind>>
vars       == <<hubVars, setVars, engVars, callVars, sweepVars, restart, tuiVars, jucode>>

Thread == Client \cup Sender
Gen    == 1..MaxGen

-----------------------------------------------------------------------------
(* Helpers *)

\* The thread reads its channel: `run` has not returned, so the receiver lives.
Receiving(g) == at[g] \in {"ops", "tick", "mark", "touch", "held", "keep",
                            "give", "surface", "reopen"}

\* JuCode's engine is dropped and the conversation is its TUI's.
Gave(g) == at[g] \in {"give", "surface", "reopen"}

\* (Slip: the lock taken for each turn.)
LocksPerTurn(g) == Receiving(g) /\ own[g] \in jucode /\ turn[g]

\* JuCode's engine holds the session's lock from its open until `run` returns,
\* but for the time its TUI has the conversation.  (The TUI's own lock is another
\* process's: what it stops is an open that fails.)
HoldsLock(g) == Receiving(g) /\ ~Gave(g) /\ own[g] \in jucode

\* Somebody still has the sending end of g's channel: the map, an open that
\* has not hosted it yet, or a close that has not sent the shutdown yet.
HasSender(g) ==
    \/ \E s \in Session : hosted[s] = g \/ victim[s] = g
    \/ \E t \in Thread : pc[t] \in {"host", "shut"} /\ new[t] = g

\* Ops that carry work for the engine.
IsMessage(op) == op \in {"message", "claimed"}

Unread(g) == {i \in 1..Len(inbox[g]) : IsMessage(inbox[g][i])}

Enqueue(g, ops) == inbox' = [inbox EXCEPT ![g] = @ \o ops]

\* A new entry in the map, or one taken out: no watchers, just active.
Blank(s) ==
    /\ watchers' = [watchers EXCEPT ![s] = {}]
    /\ age' = [age EXCEPT ![s] = 0]
    /\ held' = [held EXCEPT ![s] = FALSE]

\* What goes through an engine's channel, where an engine thread may be, and
\* where a client or sender thread.
OpName == {"message", "claimed", "tune", "attend", "unattend", "shutdown", "keep",
           "tui", "force", "exit"}

Place == {"none", "ops", "tick", "mark", "touch", "held", "keep",
          "give", "surface", "reopen", "end", "endBusy", "endClaims", "endTell", "gone"}

Label == {"idle", "wakeAsleep", "lookup", "options", "spawn", "host", "forget",
          "wakeWatch", "forward", "shut", "markBusy", "deliver", "unclaim",
          "unwatch"}

HubTyped ==
    /\ hosted \in [Session -> 0..MaxGen]
    /\ watchers \in [Session -> SUBSET Client]
    /\ age \in [Session -> 0..2]
    /\ held \in [Session -> BOOLEAN]

SetTyped ==
    /\ busy \subseteq Session
    /\ claims \in [Session -> Nat]
    /\ asleep \in [Session -> {"awake", "plain", "tuned"}]
    /\ idleReason \subseteq Session

EngTyped ==
    /\ gens \in 0..MaxGen
    /\ at \in [Gen -> Place]
    /\ own \in [Gen -> Session \cup {NoSession}]
    /\ inbox \in [Gen -> Seq(OpName)]
    /\ turn \in [Gen -> BOOLEAN]
    /\ bg \in [Gen -> BOOLEAN]
    /\ tuned \in [Gen -> BOOLEAN]
    /\ attended \in [Gen -> BOOLEAN]
    /\ mark \in [Gen -> BOOLEAN]

CallTyped ==
    /\ pc \in [Thread -> Label]
    /\ arg \in [Thread -> Session \cup {NoSession}]
    /\ new \in [Thread -> 0..MaxGen]
    /\ given \in [Thread -> {"plain", "tuned"}]
    /\ after \in [Thread -> {"reply", "watch", "forward"}]
    /\ leaving \in [Client -> SUBSET Session]
    /\ conn \subseteq Client
    /\ calls \in 0..MaxCalls

SweepTyped ==
    /\ sweepAt \in {"idle", "claims", "pick", "reason", "shut"}
    /\ spared \subseteq Session
    /\ victim \in [Session -> 0..MaxGen]
    /\ cur \in Session \cup {NoSession}
    /\ restart \in {"no", "asked", "late", "clear", "announced"}

TuiTyped == term \subseteq Gen /\ blind \subseteq Gen /\ told \in [Gen -> BOOLEAN]

TypeOK == HubTyped /\ SetTyped /\ EngTyped /\ CallTyped /\ SweepTyped /\ TuiTyped

\* The daemon has just started: nothing is hosted, every client is connected.
Init ==
    /\ hosted = [s \in Session |-> 0]
    /\ watchers = [s \in Session |-> {}]
    /\ age = [s \in Session |-> 0]
    /\ held = [s \in Session |-> FALSE]
    /\ busy = {} /\ idleReason = {}
    /\ claims = [s \in Session |-> 0]
    /\ asleep = [s \in Session |-> "awake"]
    /\ gens = 0
    /\ at = [g \in Gen |-> "none"]
    /\ own = [g \in Gen |-> NoSession]
    /\ inbox = [g \in Gen |-> <<>>]
    /\ turn = [g \in Gen |-> FALSE]
    /\ bg = [g \in Gen |-> FALSE]
    /\ tuned = [g \in Gen |-> FALSE]
    /\ attended = [g \in Gen |-> FALSE]
    /\ mark = [g \in Gen |-> FALSE]
    /\ pc = [t \in Thread |-> "idle"]
    /\ arg = [t \in Thread |-> NoSession]
    /\ new = [t \in Thread |-> 0]
    /\ given = [t \in Thread |-> "plain"]
    /\ after = [t \in Thread |-> "reply"]
    /\ leaving = [c \in Client |-> {}]
    /\ conn = Client
    /\ calls = 0
    /\ sweepAt = "idle" /\ spared = {} /\ cur = NoSession
    /\ victim = [s \in Session |-> 0]
    /\ restart = "no"
    /\ term = {} /\ blind = {}
    /\ told = [g \in Gen |-> FALSE]
    /\ jucode \in SUBSET Locked

-----------------------------------------------------------------------------
(* Client and sender threads *)

\* An op arrives on an idle thread; `label` is its next critical section.
Begin(t, s, label, then) ==
    /\ pc[t] = "idle" /\ calls < MaxCalls
    /\ t \in Client => t \in conn
    /\ calls' = calls + 1
    /\ pc' = [pc EXCEPT ![t] = label]
    /\ arg' = [arg EXCEPT ![t] = s]
    /\ after' = [after EXCEPT ![t] = then]

\* The op is over; its locals are gone.
Finish(t) ==
    /\ pc' = [pc EXCEPT ![t] = "idle"]
    /\ arg' = [arg EXCEPT ![t] = NoSession]
    /\ new' = [new EXCEPT ![t] = 0]
    /\ given' = [given EXCEPT ![t] = "plain"]
    /\ after' = [after EXCEPT ![t] = "reply"]

GoTo(t, label) ==
    /\ pc' = [pc EXCEPT ![t] = label]
    /\ UNCHANGED <<arg, after>>

\* (Slip: told of the first watcher, and not that the last one has left.)
FirstComes(s, now) == watchers[s] = {} /\ now # {}

\* The entry gains its first watcher or loses its last.
AttendedChanges(s, now) == (watchers[s] = {}) # (now = {})

\* `set_watch`, all under the sessions lock: an entry that gains its first or
\* loses its last watcher tells the engine, in the order it happened.
SetWatch(c, s, watch) ==
    LET now == IF watch THEN watchers[s] \cup {c} ELSE watchers[s] \ {c}
    IN  IF hosted[s] = 0
          THEN UNCHANGED <<watchers, age, inbox>>
          ELSE /\ watchers' = [watchers EXCEPT ![s] = now]
               /\ age' = IF watch THEN [age EXCEPT ![s] = 0] ELSE age
               /\ IF AttendedChanges(s, now) /\ Receiving(hosted[s])
                    THEN Enqueue(hosted[s], <<IF watch THEN "attend" ELSE "unattend">>)
                    ELSE UNCHANGED inbox

\* (Slip: the op does not make the entry active.)
ForwardsQuietly(s, op) ==
    /\ IF hosted[s] # 0 /\ Receiving(hosted[s]) THEN Enqueue(hosted[s], <<op>>)
                                                ELSE UNCHANGED inbox
    /\ UNCHANGED age

\* `forward`: under the sessions lock, the entry becomes active and the op
\* goes to its engine, unless that has stopped.
Forward(s, op) ==
    IF hosted[s] = 0
      THEN UNCHANGED <<age, inbox>>
      ELSE /\ age' = [age EXCEPT ![s] = 0]
           /\ IF Receiving(hosted[s]) THEN Enqueue(hosted[s], <<op>>)
                                      ELSE UNCHANGED inbox

\* The engine behind an entry takes what `forward` sends it.
Delivers(s) == hosted[s] # 0 /\ Receiving(hosted[s])

\* `session_open`, with or without options.
OpenOp(c, s) ==
    /\ "open" \in Ops
    /\ Begin(c, s, "lookup", "reply")
    /\ given' \in {[given EXCEPT ![c] = o] :
                      o \in IF "options" \in Ops THEN {"plain", "tuned"} ELSE {"plain"}}
    /\ UNCHANGED <<hubVars, setVars, engVars, sweepVars, restart,
                   new, leaving, conn, tuiVars, jucode>>

\* `decide_action`: opens the session, then hands the engine the decision.
DecideOp(c, s) ==
    /\ "message" \in Ops
    /\ Begin(c, s, "lookup", "forward")
    /\ UNCHANGED <<hubVars, setVars, engVars, sweepVars, restart,
                   new, given, leaving, conn, tuiVars, jucode>>

\* `user_message`, `command`, `continue`, `approve_plan`: `wake` first, whose
\* first test is whether the session is hosted.
MessageOp(c, s) ==
    /\ "message" \in Ops
    /\ Begin(c, s, IF hosted[s] # 0 THEN "forward" ELSE "wakeAsleep", "watch")
    /\ UNCHANGED <<hubVars, setVars, engVars, sweepVars, restart,
                   new, given, leaving, conn, tuiVars, jucode>>

\* The second test of `wake`, under a lock of its own.
WakeAsleep(c) ==
    /\ pc[c] = "wakeAsleep"
    /\ GoTo(c, IF asleep[arg[c]] = "awake" THEN "forward" ELSE "lookup")
    /\ UNCHANGED <<hubVars, setVars, engVars, sweepVars, restart,
                   new, given, leaving, conn, calls, tuiVars, jucode>>

\* What a thread does once `open_engine_session` returned Ok.
Opened(c) ==
    CASE after[c] = "reply"   -> Finish(c)
      [] after[c] = "watch"   -> GoTo(c, "wakeWatch") /\ UNCHANGED <<new, given>>
      [] after[c] = "forward" -> GoTo(c, "forward") /\ UNCHANGED <<new, given>>

\* `open_engine_session`: a session already hosted is left as it is.
Lookup(c) ==
    /\ pc[c] = "lookup"
    /\ IF hosted[arg[c]] # 0 THEN Opened(c)
                             ELSE GoTo(c, "options") /\ UNCHANGED <<new, given>>
    /\ UNCHANGED <<hubVars, setVars, engVars, sweepVars, restart,
                   leaving, conn, calls, tuiVars, jucode>>

\* One that sleeps runs as it last ran, unless the op says how.
TakeOptions(c) ==
    /\ pc[c] = "options"
    /\ LET kept == asleep[arg[c]]
       IN  given' = IF kept # "awake" /\ given[c] = "plain"
                      THEN [given EXCEPT ![c] = kept] ELSE given
    /\ GoTo(c, "spawn")
    /\ UNCHANGED <<hubVars, setVars, engVars, sweepVars, restart,
                   new, leaving, conn, calls, tuiVars, jucode>>

\* `session::spawn` or `engines::spawn`: the thread runs before it is hosted.
\* JuCode's engine opens only once no other holds the session's lock.
Spawn(c) ==
    LET s == arg[c]
        g == gens + 1
    IN  /\ pc[c] = "spawn"
        /\ gens < MaxGen
        /\ \A h \in Gen : own[h] = s => ~HoldsLock(h)
        /\ gens' = g
        /\ at' = [at EXCEPT ![g] = "ops"]
        /\ own' = [own EXCEPT ![g] = s]
        /\ tuned' = [tuned EXCEPT ![g] = s \notin jucode /\ given[c] = "tuned"]
        /\ new' = [new EXCEPT ![c] = g]
        /\ GoTo(c, "host")
        /\ UNCHANGED <<hubVars, setVars, sweepVars, restart, inbox, turn,
                       bg, attended, mark, given, leaving, conn, calls, tuiVars, jucode>>

\* The engine did not start (its program, its conversation, a lock that was
\* not released in time): the op ends with the error.
SpawnFails(c) ==
    /\ pc[c] = "spawn"
    /\ Finish(c)
    /\ UNCHANGED <<hubVars, setVars, engVars, sweepVars, restart,
                   leaving, conn, calls, tuiVars, jucode>>

\* The open fails once the thread runs: it was not ready within START_TIMEOUT,
\* or the session's record could not be written.  The sending end goes.
OpenFails(c) ==
    /\ pc[c] = "host"
    /\ Finish(c)
    /\ UNCHANGED <<hubVars, setVars, engVars, sweepVars, restart,
                   leaving, conn, calls, tuiVars, jucode>>

\* `host`: the entry is written over whatever the map holds by now.
Host(c) ==
    LET s == arg[c]
    IN  /\ pc[c] = "host"
        /\ hosted' = [hosted EXCEPT ![s] = new[c]]
        /\ Blank(s)
        /\ GoTo(c, "forget")
        /\ UNCHANGED <<setVars, engVars, sweepVars, restart,
                       new, given, leaving, conn, calls, tuiVars, jucode>>

\* It is awake: what was kept for its next open goes.
Forget(c) ==
    /\ pc[c] = "forget"
    /\ asleep' = [asleep EXCEPT ![arg[c]] = "awake"]
    /\ Opened(c)
    /\ UNCHANGED <<hubVars, busy, claims, idleReason, engVars, sweepVars,
                   restart, leaving, conn, calls, tuiVars, jucode>>

\* `wake`: the sender watches the session again.
WakeWatch(c) ==
    /\ pc[c] = "wakeWatch"
    /\ SetWatch(c, arg[c], TRUE)
    /\ GoTo(c, "forward")
    /\ UNCHANGED <<hosted, held, setVars, gens, at, own, turn, bg, tuned,
                   attended, mark, sweepVars, restart,
                   new, given, leaving, conn, calls, tuiVars, jucode>>

\* The message, or the decision, itself.
ForwardMessage(c) ==
    /\ pc[c] = "forward"
    /\ Forward(arg[c], "message")
    /\ Finish(c)
    /\ UNCHANGED <<hosted, watchers, held, setVars, gens, at, own, turn, bg,
                   tuned, attended, mark, sweepVars, restart,
                   leaving, conn, calls, tuiVars, jucode>>

\* Any other session op is only forwarded; this one changes what the engine
\* runs with (model, effort, approval mode).
TuneOp(c, s) ==
    /\ "tune" \in Ops
    /\ Begin(c, NoSession, "idle", "reply")
    /\ Forward(s, "tune")
    /\ UNCHANGED <<hosted, watchers, held, setVars, gens, at, own, turn, bg,
                   tuned, attended, mark, sweepVars, restart,
                   new, given, leaving, conn, tuiVars, jucode>>

\* `session_tui`: the session's own TUI, even if that cuts a turn short.
TuiOp(c, s, force) ==
    /\ "tui" \in Ops /\ s \in jucode
    /\ Begin(c, NoSession, "idle", "reply")
    /\ Forward(s, IF force THEN "force" ELSE "tui")
    /\ UNCHANGED <<hosted, watchers, held, setVars, gens, at, own, turn, bg,
                   tuned, attended, mark, sweepVars, restart,
                   new, given, leaving, conn, tuiVars, jucode>>

\* `watch` and `unwatch`.
WatchOp(c, s, watch) ==
    /\ "watch" \in Ops
    /\ Begin(c, NoSession, "idle", "reply")
    /\ SetWatch(c, s, watch)
    /\ UNCHANGED <<hosted, held, setVars, gens, at, own, turn, bg, tuned,
                   attended, mark, sweepVars, restart,
                   new, given, leaving, conn, tuiVars, jucode>>

\* `close_session`: takes the entry out; a session not hosted is an error.
CloseOp(c, s) ==
    /\ "close" \in Ops
    /\ hosted[s] # 0
    /\ Begin(c, s, "shut", "reply")
    /\ new' = [new EXCEPT ![c] = hosted[s]]
    /\ hosted' = [hosted EXCEPT ![s] = 0]
    /\ Blank(s)
    /\ UNCHANGED <<setVars, engVars, sweepVars, restart,
                   given, leaving, conn, tuiVars, jucode>>

\* `shut`: an idle close asks the engine to leave its options.
ShutOp(s) == IF s \in idleReason THEN "keep" ELSE "shutdown"

SendShutdown(g, s) ==
    IF Receiving(g) THEN Enqueue(g, <<ShutOp(s)>>) ELSE UNCHANGED inbox

Shut(c) ==
    /\ pc[c] = "shut"
    /\ SendShutdown(new[c], arg[c])
    /\ Finish(c)
    /\ UNCHANGED <<hubVars, setVars, gens, at, own, turn, bg, tuned, attended,
                   mark, sweepVars, restart, leaving, conn, calls, tuiVars, jucode>>

\* (Slip: the client goes and its watches stay.)
DisconnectsOnly(c) ==
    /\ "disconnect" \in Ops
    /\ Begin(c, NoSession, "idle", "reply")
    /\ conn' = conn \ {c}
    /\ UNCHANGED <<hubVars, setVars, engVars, sweepVars, restart,
                   new, given, leaving, tuiVars, jucode>>

\* `remove_client`: the sessions it watches, read under the lock, then each
\* unwatched under the lock again.
Disconnect(c) ==
    LET watched == {s \in Session : c \in watchers[s]}
    IN  /\ "disconnect" \in Ops
        /\ Begin(c, NoSession, IF watched = {} THEN "idle" ELSE "unwatch", "reply")
        /\ conn' = conn \ {c}
        /\ leaving' = [leaving EXCEPT ![c] = watched]
        /\ UNCHANGED <<hubVars, setVars, engVars, sweepVars, restart,
                       new, given, tuiVars, jucode>>

Unwatch(c) ==
    /\ pc[c] = "unwatch"
    /\ \E s \in leaving[c] :
          /\ SetWatch(c, s, FALSE)
          /\ leaving' = [leaving EXCEPT ![c] = @ \ {s}]
          /\ IF leaving[c] = {s} THEN GoTo(c, "idle") ELSE GoTo(c, "unwatch")
    /\ UNCHANGED <<hosted, held, setVars, gens, at, own, turn, bg, tuned,
                   attended, mark, sweepVars, restart,
                   new, given, conn, calls, tuiVars, jucode>>

\* The client connects again, as a client of its own.
Reconnect(c) ==
    /\ c \notin conn /\ pc[c] = "idle"
    /\ conn' = conn \cup {c}
    /\ UNCHANGED <<hubVars, setVars, engVars, sweepVars, restart,
                   pc, arg, new, given, after, leaving, calls, tuiVars, jucode>>

\* `send_to_session`: a claim, the session busy, then the delivery, which
\* gives the claim back when it fails.
SendOp(d, s) ==
    /\ "send" \in Ops
    /\ Begin(d, s, "markBusy", "reply")
    /\ claims' = [claims EXCEPT ![s] = @ + 1]
    /\ UNCHANGED <<hubVars, busy, asleep, idleReason, engVars, sweepVars,
                   restart, new, given, leaving, conn, tuiVars, jucode>>

MarkBusy(d) ==
    /\ pc[d] = "markBusy"
    /\ busy' = busy \cup {arg[d]}
    /\ GoTo(d, "deliver")
    /\ UNCHANGED <<hubVars, claims, asleep, idleReason, engVars, sweepVars,
                   restart, new, given, leaving, conn, calls, tuiVars, jucode>>

Deliver(d) ==
    /\ pc[d] = "deliver"
    /\ Forward(arg[d], "claimed")
    /\ IF Delivers(arg[d]) THEN Finish(d)
                           ELSE GoTo(d, "unclaim") /\ UNCHANGED <<new, given>>
    /\ UNCHANGED <<hosted, watchers, held, setVars, gens, at, own, turn, bg,
                   tuned, attended, mark, sweepVars, restart,
                   leaving, conn, calls, tuiVars, jucode>>

\* `release_claim`, which never goes below zero.
ReleaseClaim(s) == claims' = [claims EXCEPT ![s] = IF @ > 0 THEN @ - 1 ELSE 0]

Unclaim(d) ==
    /\ pc[d] = "unclaim"
    /\ ReleaseClaim(arg[d])
    /\ Finish(d)
    /\ UNCHANGED <<hubVars, busy, asleep, idleReason, engVars, sweepVars,
                   restart, leaving, conn, calls, tuiVars, jucode>>

-----------------------------------------------------------------------------
(* Engine threads *)

\* `run` returns: the channel and what it held go, and with them the turn, the
\* background work and (JuCode's engine) the session's lock.
Return(g) ==
    /\ at' = [at EXCEPT ![g] = "end"]
    /\ inbox' = [inbox EXCEPT ![g] = <<>>]
    /\ turn' = [turn EXCEPT ![g] = FALSE]
    /\ bg' = [bg EXCEPT ![g] = FALSE]
    /\ mark' = [mark EXCEPT ![g] = FALSE]

Step(g, from, to) == at[g] = from /\ at' = [at EXCEPT ![g] = to]

\* The next op of a thread that drains its channel.
Reads(g, op) == at[g] = "ops" /\ inbox[g] # <<>> /\ Head(inbox[g]) = op

Took(g) == inbox' = [inbox EXCEPT ![g] = Tail(@)]

\* A message starts a turn or queues behind one; an engine error may start
\* none.  A delivery gives its claim back once the engine has it.
ReadMessage(g) ==
    \E op \in {"message", "claimed"} :
        /\ Reads(g, op)
        /\ Took(g)
        /\ \E runs \in {turn[g], TRUE} : turn' = [turn EXCEPT ![g] = runs]
        /\ IF op = "claimed" THEN ReleaseClaim(own[g]) ELSE UNCHANGED claims
        /\ UNCHANGED <<hubVars, busy, asleep, idleReason, gens, at, own, bg,
                       tuned, attended, mark, callVars, sweepVars, restart, tuiVars, jucode>>

\* JuCode's engine sets its options in the conversation itself.
ReadTune(g) ==
    /\ Reads(g, "tune")
    /\ Took(g)
    /\ tuned' = [tuned EXCEPT ![g] = own[g] \notin jucode]
    /\ UNCHANGED <<hubVars, setVars, gens, at, own, turn, bg, attended, mark,
                   callVars, sweepVars, restart, tuiVars, jucode>>

\* `set_attended`: whether approvals wait for a watcher or are deferred.  A
\* CLI's approvals wait either way.
ReadAttended(g) ==
    \E op \in {"attend", "unattend"} :
        /\ Reads(g, op)
        /\ Took(g)
        /\ attended' = [attended EXCEPT ![g] = own[g] \in jucode /\ op = "attend"]
        /\ told' = [told EXCEPT ![g] = (op = "attend")]
        /\ blind' = blind \ {g}
        /\ UNCHANGED <<hubVars, setVars, gens, at, own, turn, bg, tuned, mark,
                       callVars, sweepVars, restart, term, jucode>>

\* A shutdown ends the thread; a CLI closed for idleness first leaves its
\* options (`keep_options`).
ReadShutdown(g) ==
    /\ Reads(g, "shutdown") \/ (Reads(g, "keep") /\ own[g] \in jucode)
    /\ Return(g)
    /\ UNCHANGED <<hubVars, setVars, gens, own, tuned, attended,
                   callVars, sweepVars, restart, tuiVars, jucode>>

ReadKeep(g) ==
    /\ Reads(g, "keep") /\ own[g] \notin jucode
    /\ Took(g)
    /\ Step(g, "ops", "keep")
    /\ UNCHANGED <<hubVars, setVars, gens, own, turn, bg, tuned, attended,
                   mark, callVars, sweepVars, restart, tuiVars, jucode>>

KeepOptions(g) ==
    /\ at[g] = "keep"
    /\ asleep' = IF asleep[own[g]] = "awake" THEN asleep
                 ELSE [asleep EXCEPT ![own[g]] = IF tuned[g] THEN "tuned" ELSE "plain"]
    /\ Return(g)
    /\ UNCHANGED <<hubVars, busy, claims, idleReason, gens, own, tuned,
                   attended, callVars, sweepVars, restart, tuiVars, jucode>>

\* `/quit` in JuCode's engine.
ReadQuit(g) ==
    /\ "quit" \in Ops
    /\ Reads(g, "message") /\ own[g] \in jucode
    /\ Return(g)
    /\ UNCHANGED <<hubVars, setVars, gens, own, tuned, attended,
                   callVars, sweepVars, restart, tuiVars, jucode>>

\* Left over from a TUI of an earlier time: no engine knows the op.
ReadExit(g) ==
    /\ Reads(g, "exit")
    /\ Took(g)
    /\ UNCHANGED <<hubVars, setVars, gens, at, own, turn, bg, tuned, attended,
                   mark, callVars, sweepVars, restart, tuiVars, jucode>>

\* The channel is empty: on to the tick, or the end when nobody can send.
Drained(g) ==
    /\ inbox[g] = <<>> /\ HasSender(g)
    /\ Step(g, "ops", "tick")
    /\ UNCHANGED <<hubVars, setVars, gens, own, inbox, turn, bg, tuned,
                   attended, mark, callVars, sweepVars, restart, tuiVars, jucode>>

\* (Slip: a closed channel taken for an empty one.)
PollsForEver(g) ==
    /\ inbox[g] = <<>> /\ ~HasSender(g)
    /\ Step(g, "ops", "tick")
    /\ UNCHANGED <<hubVars, setVars, gens, own, inbox, turn, bg, tuned,
                   attended, mark, callVars, sweepVars, restart, tuiVars, jucode>>

Disconnected(g) ==
    /\ at[g] = "ops" /\ inbox[g] = <<>> /\ ~HasSender(g)
    /\ Return(g)
    /\ UNCHANGED <<hubVars, setVars, gens, own, tuned, attended,
                   callVars, sweepVars, restart, tuiVars, jucode>>

\* A CLI's process is gone.
Stops(g) ==
    /\ "stop" \in Ops
    /\ at[g] = "tick" /\ own[g] \notin jucode
    /\ Return(g)
    /\ UNCHANGED <<hubVars, setVars, gens, own, tuned, attended,
                   callVars, sweepVars, restart, tuiVars, jucode>>

\* Where the engine may be by its next poll: a turn goes on, or ends and perhaps
\* leaves background work; that ends, and may start a turn.
Polls(g, runs, works) ==
    \/ runs = turn[g] /\ works = bg[g]
    \/ turn[g] /\ ~runs /\ (works => "background" \in Ops)
    \/ ~turn[g] /\ bg[g] /\ ~works

\* The tick: the engine's events, then `set_busy`, which reads the claims...
Tick(g) ==
    /\ Step(g, "tick", "mark")
    /\ \E runs, works \in BOOLEAN :
          /\ Polls(g, runs, works)
          /\ turn' = [turn EXCEPT ![g] = runs]
          /\ bg' = [bg EXCEPT ![g] = works]
          /\ mark' = [mark EXCEPT ![g] = runs \/ claims[own[g]] > 0]
    /\ UNCHANGED <<hubVars, setVars, gens, own, inbox, tuned, attended,
                   callVars, sweepVars, restart, tuiVars, jucode>>

\* ... writes the busy set under its lock...
SetBusy(g) ==
    /\ Step(g, "mark", IF mark[g] # (own[g] \in busy) THEN "touch" ELSE "held")
    /\ busy' = IF mark[g] THEN busy \cup {own[g]} ELSE busy \ {own[g]}
    /\ mark' = [mark EXCEPT ![g] = FALSE]
    /\ UNCHANGED <<hubVars, claims, asleep, idleReason, gens, own, inbox, turn,
                   bg, tuned, attended, callVars, sweepVars, restart, tuiVars, jucode>>

\* ... and, on a change, makes the session active.
Touch(g) ==
    /\ Step(g, "touch", "held")
    /\ age' = [age EXCEPT ![own[g]] = 0]
    /\ UNCHANGED <<hosted, watchers, held, setVars, gens, own, inbox, turn, bg,
                   tuned, attended, mark, callVars, sweepVars, restart, tuiVars, jucode>>

\* `set_held`: background work keeps the engine open; its end is activity.
SetHeld(g) ==
    /\ Step(g, "held", "ops")
    /\ IF hosted[own[g]] # 0 /\ held[own[g]] # bg[g]
         THEN /\ held' = [held EXCEPT ![own[g]] = bg[g]]
              /\ age' = [age EXCEPT ![own[g]] = 0]
         ELSE UNCHANGED <<held, age>>
    /\ UNCHANGED <<hosted, watchers, setVars, gens, own, inbox, turn, bg,
                   tuned, attended, mark, callVars, sweepVars, restart, tuiVars, jucode>>

\* (Slip: no generation check.)
EntryIsAny(g) == hosted[own[g]] # 0

\* The entry is still this thread's.
EntryIsOwn(g) == hosted[own[g]] = g

\* `session_ended`: the entry goes if it is still this generation's.  One that
\* belongs to a newer engine stays, and only the close reason goes.
EndEntry(g) ==
    LET s == own[g]
        ends == EntryIsOwn(g) \/ hosted[s] = 0
    IN  /\ Step(g, "end", IF ends THEN "endBusy" ELSE "gone")
        /\ IF EntryIsOwn(g)
             THEN hosted' = [hosted EXCEPT ![s] = 0] /\ Blank(s)
             ELSE UNCHANGED <<hosted, watchers, age, held>>
        /\ idleReason' = IF ends THEN idleReason ELSE idleReason \ {s}
        /\ UNCHANGED <<busy, claims, asleep, gens, own, inbox, turn, bg, tuned,
                       attended, mark, callVars, sweepVars, restart, tuiVars, jucode>>

EndBusy(g) ==
    /\ Step(g, "endBusy", "endClaims")
    /\ busy' = busy \ {own[g]}
    /\ UNCHANGED <<hubVars, claims, asleep, idleReason, gens, own, inbox, turn,
                   bg, tuned, attended, mark, callVars, sweepVars, restart, tuiVars, jucode>>

EndClaims(g) ==
    /\ Step(g, "endClaims", "endTell")
    /\ claims' = [claims EXCEPT ![own[g]] = 0]
    /\ UNCHANGED <<hubVars, busy, asleep, idleReason, gens, own, inbox, turn,
                   bg, tuned, attended, mark, callVars, sweepVars, restart, tuiVars, jucode>>

\* The clients get `session_closed`, with the reason if one is left.
EndTell(g) ==
    /\ Step(g, "endTell", "gone")
    /\ idleReason' = idleReason \ {own[g]}
    /\ UNCHANGED <<hubVars, busy, claims, asleep, gens, own, inbox, turn, bg,
                   tuned, attended, mark, callVars, sweepVars, restart, tuiVars, jucode>>

-----------------------------------------------------------------------------
(* A session in its own TUI (JuCode's engine; a CLI's is in EngineThread) *)

\* Refused while the hub has the session as busy, unless the user agreed.
RefuseTui(g) ==
    /\ Reads(g, "tui") /\ own[g] \in busy
    /\ Took(g)
    /\ UNCHANGED <<hubVars, setVars, gens, at, own, turn, bg, tuned, attended,
                   mark, callVars, sweepVars, restart, tuiVars, jucode>>

\* `terminal`: a turn is interrupted, the engine is dropped and lets go of the
\* session; then the terminal opens, or does not.
ReadTui(g) ==
    /\ Reads(g, "force") \/ (Reads(g, "tui") /\ own[g] \notin busy)
    /\ Took(g)
    /\ turn' = [turn EXCEPT ![g] = FALSE]
    /\ bg' = [bg EXCEPT ![g] = FALSE]
    /\ blind' = blind \cup {g}
    /\ \/ Step(g, "ops", "give") /\ term' = term \cup {g}
       \/ Step(g, "ops", "reopen") /\ UNCHANGED term
    /\ UNCHANGED <<hubVars, setVars, gens, own, tuned, attended, mark,
                   callVars, sweepVars, restart, told, jucode>>

\* The conversation is in the TUI until that exits: never idle.
HoldForTui(g) ==
    /\ Step(g, "give", "surface")
    /\ IF hosted[own[g]] # 0 /\ ~held[own[g]]
         THEN /\ held' = [held EXCEPT ![own[g]] = TRUE]
              /\ age' = [age EXCEPT ![own[g]] = 0]
         ELSE UNCHANGED <<held, age>>
    /\ UNCHANGED <<hosted, watchers, setVars, gens, own, inbox, turn, bg, tuned,
                   attended, mark, callVars, sweepVars, restart, tuiVars, jucode>>

\* Its program exits, by itself or killed: the op that says so goes to the
\* engine that is hosted by now.
TuiExits(g) ==
    /\ g \in term
    /\ term' = term \ {g}
    /\ Forward(own[g], "exit")
    /\ UNCHANGED <<hosted, watchers, held, setVars, gens, at, own, turn, bg,
                   tuned, attended, mark, callVars, sweepVars, restart, told, blind, jucode>>

\* Meanwhile every other op is refused or ignored: a message is lost, with the
\* claim it carries, and what is said of watchers is not heard.
IgnoreOp(g) ==
    /\ at[g] = "surface" /\ inbox[g] # <<>>
    /\ Head(inbox[g]) \notin {"exit", "shutdown", "keep"}
    /\ Took(g)
    /\ told' = IF Head(inbox[g]) \in {"attend", "unattend"}
                 THEN [told EXCEPT ![g] = (Head(inbox[g]) = "attend")] ELSE told
    /\ UNCHANGED <<hubVars, setVars, gens, at, own, turn, bg, tuned, attended,
                   mark, callVars, sweepVars, restart, term, blind, jucode>>

TuiEnds(g) ==
    /\ at[g] = "surface" /\ inbox[g] # <<>> /\ Head(inbox[g]) = "exit"
    /\ Took(g)
    /\ Step(g, "surface", "reopen")
    /\ UNCHANGED <<hubVars, setVars, gens, own, turn, bg, tuned, attended, mark,
                   callVars, sweepVars, restart, tuiVars, jucode>>

\* The session is closed, or nobody can send: the thread ends, the TUI killed.
TuiStops(g) ==
    /\ at[g] = "surface"
    /\ \/ inbox[g] # <<>> /\ Head(inbox[g]) \in {"shutdown", "keep"}
       \/ inbox[g] = <<>> /\ ~HasSender(g)
    /\ Return(g)
    /\ UNCHANGED <<hubVars, setVars, gens, own, tuned, attended,
                   callVars, sweepVars, restart, tuiVars, jucode>>

\* The engine opens the session again, unattended, once nobody else has it.
Reopen(g) ==
    /\ \A h \in Gen : own[h] = own[g] => ~HoldsLock(h)
    /\ Step(g, "reopen", "ops")
    /\ attended' = [attended EXCEPT ![g] = FALSE]
    /\ UNCHANGED <<hubVars, setVars, gens, own, inbox, turn, bg, tuned, mark,
                   callVars, sweepVars, restart, tuiVars, jucode>>

ReopenFails(g) ==
    /\ at[g] = "reopen"
    /\ Return(g)
    /\ UNCHANGED <<hubVars, setVars, gens, own, tuned, attended,
                   callVars, sweepVars, restart, tuiVars, jucode>>

-----------------------------------------------------------------------------
(* The minute sweep *)

Live == {s \in Session : hosted[s] # 0}

\* Minutes pass only while nothing is under way: no thread stays between two
\* critical sections that long, and every engine has ticked since its last op.
AtRest ==
    /\ \A t \in Thread : pc[t] = "idle"
    /\ \A g \in Gen : at[g] \in {"none", "gone"} \/
          ( /\ at[g] = "ops" /\ inbox[g] = <<>> /\ hosted[own[g]] = g
            /\ (own[g] \in busy) = (turn[g] \/ claims[own[g]] > 0)
            /\ held[own[g]] = bg[g] ) \/
          ( at[g] = "surface" /\ inbox[g] = <<>> /\ hosted[own[g]] = g )
    /\ sweepAt = "idle" /\ restart \in {"no", "asked", "late"}

MinutesPass ==
    /\ AtRest
    /\ \E s \in Live : age[s] < 2
    /\ age' = [s \in Session |-> IF s \in Live /\ age[s] < 2 THEN age[s] + 1 ELSE age[s]]
    /\ UNCHANGED <<hosted, watchers, held, setVars, engVars, callVars,
                   sweepVars, restart, tuiVars, jucode>>

\* `close_idle` reads the busy sessions, then those with claims...
SweepBusy ==
    /\ "sweep" \in Ops
    /\ sweepAt = "idle" /\ \E s \in Live : age[s] > 0
    /\ sweepAt' = "claims"
    /\ spared' = busy
    /\ UNCHANGED <<hubVars, setVars, engVars, callVars, victim, cur, restart, tuiVars, jucode>>

SweepClaims ==
    /\ sweepAt = "claims"
    /\ sweepAt' = "pick"
    /\ spared' = spared \cup {s \in Session : claims[s] > 0}
    /\ UNCHANGED <<hubVars, setVars, engVars, callVars, victim, cur, restart, tuiVars, jucode>>

Idle == {s \in Live : ~held[s] /\ s \notin spared}

\* The sets of sessions it may take: all idle for long, and then, the longest
\* idle first, those idle for a while as long as too many are open.
IdleChoices ==
    LET long  == {s \in Idle : age[s] = 2}
        while == {s \in Idle : age[s] = 1}
        open  == Cardinality(Live) - Cardinality(long)
        over  == IF open > MaxLive THEN open - MaxLive ELSE 0
        extra == IF over < Cardinality(while) THEN over ELSE Cardinality(while)
    IN  {long \cup more : more \in {m \in SUBSET while : Cardinality(m) = extra}}

\* ... and, under the sessions lock, takes the idle entries out and puts the
\* sessions to sleep.
SweepPick ==
    /\ sweepAt = "pick"
    /\ \E taken \in IdleChoices :
          /\ hosted' = [s \in Session |-> IF s \in taken THEN 0 ELSE hosted[s]]
          /\ watchers' = [s \in Session |-> IF s \in taken THEN {} ELSE watchers[s]]
          /\ age' = [s \in Session |-> IF s \in taken THEN 0 ELSE age[s]]
          /\ asleep' = [s \in Session |-> IF s \in taken THEN "plain" ELSE asleep[s]]
          /\ victim' = [s \in Session |-> IF s \in taken THEN hosted[s] ELSE 0]
          /\ sweepAt' = IF taken = {} THEN "idle" ELSE "reason"
    /\ spared' = {}
    /\ UNCHANGED <<held, busy, claims, idleReason, engVars, callVars, cur, restart, tuiVars, jucode>>

\* One after the other, each gets its reason and is shut.
SweepReason ==
    /\ sweepAt = "reason"
    /\ \E s \in {v \in Session : victim[v] # 0} :
          /\ cur' = s
          /\ idleReason' = idleReason \cup {s}
    /\ sweepAt' = "shut"
    /\ UNCHANGED <<hubVars, busy, claims, asleep, engVars, callVars, spared,
                   victim, restart, tuiVars, jucode>>

SweepShut ==
    /\ sweepAt = "shut"
    /\ SendShutdown(victim[cur], cur)
    /\ victim' = [victim EXCEPT ![cur] = 0]
    /\ cur' = NoSession
    /\ sweepAt' = IF \E s \in Session \ {cur} : victim[s] # 0 THEN "reason" ELSE "idle"
    /\ UNCHANGED <<hubVars, setVars, gens, at, own, turn, bg, tuned, attended,
                   mark, callVars, spared, restart, tuiVars, jucode>>

-----------------------------------------------------------------------------
(* A pending daemon update *)

RestartAsk ==
    /\ "restart" \in Ops
    /\ restart = "no"
    /\ restart' = "asked"
    /\ calls < MaxCalls /\ calls' = calls + 1
    /\ UNCHANGED <<hubVars, setVars, engVars, pc, arg, new, given, after, leaving, conn,
                   sweepVars, tuiVars, jucode>>

\* Held work delays it for RESTART_HOLD_MS at most.
RestartHoldExpires ==
    /\ restart = "asked"
    /\ restart' = "late"
    /\ UNCHANGED <<hubVars, setVars, engVars, callVars, sweepVars, tuiVars, jucode>>

\* A pass of its loop first looks for held work...
RestartHeld ==
    /\ \/ restart = "asked" /\ \A s \in Session : ~held[s]
       \/ restart = "late"
    /\ restart' = "clear"
    /\ UNCHANGED <<hubVars, setVars, engVars, callVars, sweepVars, tuiVars, jucode>>

\* ... then at the busy set, under another lock.
RestartBusy ==
    /\ restart = "clear"
    /\ restart' = IF busy = {} THEN "announced" ELSE "asked"
    /\ UNCHANGED <<hubVars, setVars, engVars, callVars, sweepVars, tuiVars, jucode>>

\* 300 ms after `daemon_restarting` the process exits, and the desktop starts
\* the new one: nothing hosted, every client connecting anew.
RestartExit ==
    /\ restart = "announced"
    /\ restart' = "no"
    /\ hosted' = [s \in Session |-> 0]
    /\ watchers' = [s \in Session |-> {}]
    /\ age' = [s \in Session |-> 0]
    /\ held' = [s \in Session |-> FALSE]
    /\ busy' = {} /\ idleReason' = {}
    /\ claims' = [s \in Session |-> 0]
    /\ asleep' = [s \in Session |-> "awake"]
    /\ at' = [g \in Gen |-> IF g <= gens THEN "gone" ELSE "none"]
    /\ inbox' = [g \in Gen |-> <<>>]
    /\ turn' = [g \in Gen |-> FALSE]
    /\ bg' = [g \in Gen |-> FALSE]
    /\ mark' = [g \in Gen |-> FALSE]
    /\ pc' = [t \in Thread |-> "idle"]
    /\ arg' = [t \in Thread |-> NoSession]
    /\ new' = [t \in Thread |-> 0]
    /\ given' = [t \in Thread |-> "plain"]
    /\ after' = [t \in Thread |-> "reply"]
    /\ leaving' = [c \in Client |-> {}]
    /\ conn' = Client
    /\ sweepAt' = "idle" /\ spared' = {} /\ cur' = NoSession
    /\ victim' = [s \in Session |-> 0]
    /\ term' = {}
    /\ UNCHANGED <<gens, own, tuned, attended, calls, told, blind, jucode>>

-----------------------------------------------------------------------------
(* The specification *)

ClientOp(c) ==
    \/ \E s \in Session : \/ OpenOp(c, s) \/ DecideOp(c, s) \/ MessageOp(c, s)
                          \/ TuneOp(c, s) \/ CloseOp(c, s)
                          \/ \E watch \in BOOLEAN : WatchOp(c, s, watch)
                          \/ \E force \in BOOLEAN : TuiOp(c, s, force)
    \/ Disconnect(c)
    \/ Reconnect(c)

ClientStep(c) ==
    \/ WakeAsleep(c) \/ Lookup(c) \/ TakeOptions(c) \/ Spawn(c) \/ SpawnFails(c)
    \/ OpenFails(c) \/ Host(c) \/ Forget(c) \/ WakeWatch(c) \/ ForwardMessage(c)
    \/ Shut(c) \/ Unwatch(c)

SenderStep(d) == MarkBusy(d) \/ Deliver(d) \/ Unclaim(d)

TuiStep(g) ==
    \/ RefuseTui(g) \/ ReadTui(g) \/ HoldForTui(g) \/ IgnoreOp(g) \/ TuiEnds(g)
    \/ TuiStops(g) \/ Reopen(g) \/ ReopenFails(g)

EngineStep(g) ==
    \/ ReadMessage(g) \/ ReadTune(g) \/ ReadAttended(g)
    \/ ReadShutdown(g) \/ ReadKeep(g) \/ KeepOptions(g) \/ ReadQuit(g) \/ ReadExit(g)
    \/ Drained(g) \/ Disconnected(g) \/ Stops(g)
    \/ Tick(g) \/ SetBusy(g) \/ Touch(g) \/ SetHeld(g)
    \/ EndEntry(g) \/ EndBusy(g) \/ EndClaims(g) \/ EndTell(g)
    \/ TuiStep(g)

SweepStep == SweepBusy \/ SweepClaims \/ SweepPick \/ SweepReason \/ SweepShut

RestartStep == RestartAsk \/ RestartHoldExpires \/ RestartHeld \/ RestartBusy \/ RestartExit

Next ==
    \/ \E c \in Client : ClientOp(c) \/ ClientStep(c)
    \/ \E d \in Sender : SenderStep(d) \/ \E s \in Session : SendOp(d, s)
    \/ \E g \in Gen : EngineStep(g) \/ TuiExits(g)
    \/ MinutesPass \/ SweepStep \/ RestartStep

Spec == Init /\ [][Next]_vars

\* An engine's thread that can take its next step eventually does: the
\* operating system schedules it, and no lock is held across a wait.  Nothing is
\* asked of the other threads.
Fairness == \A g \in Gen : WF_vars(EngineStep(g))

FairSpec == Spec /\ Fairness

-----------------------------------------------------------------------------
(* Properties *)

\* The generation behind s still takes ops.
HostedRuns(s) == hosted[s] # 0 /\ Receiving(hosted[s])

\* The sweep takes s out of the map in this step.
SweepTakes(s) == victim[s] = 0 /\ victim'[s] # 0

\* An idle close never cuts a turn short or drops a message: when the sweep
\* takes a session, its engine runs no turn and has no message unread,
\* although the sweep read the busy set and the claims before it took the
\* sessions lock (close_idle).
IdleCloseCutsNoTurn ==
    [][\A s \in Session :
          SweepTakes(s) => ~turn[hosted[s]] /\ Unread(hosted[s]) = {}]_vars

\* What an engine has heard, or will hear from its channel, of being watched.
LastHeard(g) ==
    LET no(i) == inbox[g][i] = "unattend"
    IN  \/ \E i \in 1..Len(inbox[g]) :
              inbox[g][i] = "attend" /\ \A j \in 1..Len(inbox[g]) : j > i => ~no(j)
        \/ attended[g] /\ \A j \in 1..Len(inbox[g]) : ~no(j)

\* What JuCode's engine has heard, or will hear, agrees with its session's
\* watchers: else approvals wait for nobody, or are deferred under a user's eyes
\* (set_watch, remove_client). Until the session's TUI has had the conversation,
\* and again from the first word of a watcher the engine reads once it is back.
AttendedInSync ==
    \A s \in jucode :
        HostedRuns(s) /\ hosted[s] \notin blind =>
            (LastHeard(hosted[s]) <=> watchers[s] # {})

\* A watcher is a connected client, or one whose removal still has the
\* session to unwatch: no entry is kept attended by a client that left.
WatchersConnected ==
    \A s \in Session : \A c \in watchers[s] :
        c \in conn \/ (pc[c] = "unwatch" /\ s \in leaving[c])

\* An entry goes only with its own generation: by a close or a sweep that
\* took it, by its own thread's end, or with the whole process; never by the
\* end of an older engine of the session (session_ended).
OnlyOwnEndUnhosts ==
    [][\A s \in Session :
          (hosted[s] # 0 /\ hosted'[s] = 0) =>
             \/ victim'[s] = hosted[s]
             \/ \E c \in Client : pc'[c] = "shut" /\ new'[c] = hosted[s]
             \/ at[hosted[s]] = "end"
             \/ restart = "announced"]_vars

\* On JuCode's engine two opens never leave two engines on one conversation:
\* `host` writes over an entry only when its engine has let go of the session,
\* at its end or to its TUI.
LockedSuccession ==
    [][\A s \in jucode :
          (hosted[s] # 0 /\ hosted'[s] \notin {0, hosted[s]}) =>
             ~HoldsLock(hosted[s])]_vars

\* An engine nobody can send to ends: one that was closed, that was hosted
\* over, or whose open failed after it started.
OrphansEnd ==
    \A g \in Gen : (Receiving(g) /\ ~HasSender(g)) ~> (at[g] = "gone")

=============================================================================
