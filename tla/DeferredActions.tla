--------------------------- MODULE DeferredActions ---------------------------
(***************************************************************************)
(* Deferred actions between the daemon's store (store.rs, actions.jsonl),  *)
(* its hub (hub.rs), the thread of a JuCode session (session.rs) and the   *)
(* engine it runs (agent-core's AgentCore): a gated call made while nobody *)
(* watches is recorded, listed, and decided later, maybe by a client of    *)
(* another daemon process than the one that recorded it.                   *)
(*                                                                         *)
(* One session.  The daemon may be killed between any two steps, and while *)
(* it writes; the write of a record of a kind in Failing may fail (a full  *)
(* disk).  The engine's turns are those of AgentTurn; here it only defers. *)
(***************************************************************************)
EXTENDS Naturals, Sequences, FiniteSets, StoreLog

CONSTANTS
    Call,       \* gated calls: tool, arguments and folder (action_digest)
    MaxIds,     \* bound: actions made
    MaxOps,     \* bound: what clients do
    MaxMishaps, \* bound: crashes and failed writes
    Failing     \* the kinds of record whose write may fail

ASSUME ActionsAssumption ==
    /\ MaxIds \in Nat /\ MaxOps \in Nat /\ MaxMishaps \in Nat
    /\ Failing \subseteq {"deferred", "decided", "closed", "reopened"}

\* An action: the call, and when it was made (DeferredAction.id).
Action == Call \X (1..MaxIds)

VARIABLES
    file,       \* actions.jsonl
    entries,    \* the daemon's copy of what it says
    up,         \* the daemon runs
    hosted,     \* the hub has the session
    queue,      \* the ops sent to its thread
    engine,     \* its thread: "off", "idle", "recording" or "deciding"
    at,         \* the action it is at, and the decision
    held,       \* the actions its engine has open
    settled,    \* the calls its engine knows the decision of
    \* history: actions clients were shown, how often each was started, those some
    \* record was written of, those reopened since the engine started, those whose
    \* decision could not be written; ops and mishaps so far
    shown, started, known, late, unwritten, ops, mishaps

vars == <<file, entries, up, hosted, queue, engine, at, held, settled, shown, started,
          known, late, unwritten, ops, mishaps>>

Nothing == <<>>

Init ==
    /\ file = NoLog /\ entries = <<>> /\ up = TRUE
    /\ hosted = FALSE /\ queue = <<>> /\ engine = "off" /\ at = Nothing
    /\ held = {} /\ settled = {}
    /\ shown = {} /\ started = [a \in Action |-> 0] /\ known = {} /\ late = {}
    /\ unwritten = {} /\ ops = 0 /\ mishaps = 0

\* An action as the disk has it.
StateOf(log, a) ==
    IF ~IsUndecided(log, a) THEN IF a \in known THEN "gone" ELSE "new"
    ELSE IF IsClosed(log, a) THEN "closed" ELSE "open"

-----------------------------------------------------------------------------
\* Store::append, which may fail: the daemon then goes by what it had.
Writes(kind, a, written) ==
    /\ IF written
       THEN /\ file' = Appended(file, Record(kind, a))
            /\ entries' = Append(entries, Record(kind, a))
            /\ UNCHANGED mishaps
       ELSE /\ kind \in Failing /\ mishaps < MaxMishaps
            /\ mishaps' = mishaps + 1 /\ file' \in CutShort(file, Record(kind, a))
            /\ UNCHANGED entries
    /\ known' = known \cup Named(file'.lines)

Client == up /\ ops < MaxOps /\ ops' = ops + 1

\* Clients.

\* decide_action, for any action the client was shown: forwarded to the thread.
Decide(a, allow) ==
    /\ Client /\ hosted /\ a \in shown
    /\ queue' = Append(queue, [op |-> "decide", action |-> a, allow |-> allow])
    /\ UNCHANGED <<file, entries, up, hosted, engine, at, held, settled, shown, started,
                   known, late, unwritten, mishaps>>

\* item_close: Hub::close_action.
CloseAction(a) ==
    /\ Client /\ a \in Open(entries)
    /\ \E written \in BOOLEAN : Writes("closed", a, written)
    /\ UNCHANGED <<up, hosted, queue, engine, at, held, settled, shown, started, late,
                   unwritten>>

\* item_reopen: Hub::reopen_action.
ReopenAction(a) ==
    /\ Client /\ a \in Closed(entries)
    /\ \E written \in BOOLEAN :
          /\ Writes("reopened", a, written)
          /\ late' = IF written /\ engine # "off" THEN late \cup {a} ELSE late
    /\ UNCHANGED <<up, hosted, queue, engine, at, held, settled, shown, started, unwritten>>

\* session_close, or the close of an idle session.
CloseSession ==
    /\ Client /\ hosted
    /\ hosted' = FALSE
    /\ queue' = Append(queue, [op |-> "shutdown", action |-> Nothing, allow |-> FALSE])
    /\ UNCHANGED <<file, entries, up, engine, at, held, settled, shown, started, known,
                   late, unwritten, mishaps>>

-----------------------------------------------------------------------------
\* The session's thread.

\* A slip: the engine starts without the actions of before.
OpensEmpty ==
    /\ up /\ ~hosted /\ engine = "off"
    /\ engine' = "idle" /\ queue' = <<>> /\ held' = {} /\ settled' = {} /\ late' = {}
    /\ UNCHANGED <<file, entries, up, hosted, at, shown, started, known, unwritten,
                   ops, mishaps>>

\* open and resume_session: the engine gets the open actions back.
Opens ==
    /\ up /\ ~hosted /\ engine = "off"
    /\ engine' = "idle" /\ queue' = <<>>
    /\ held' = Open(entries) /\ settled' = {} /\ late' = {}
    /\ UNCHANGED <<file, entries, up, hosted, at, shown, started, known, unwritten,
                   ops, mishaps>>

\* Hub::host: the session takes ops.
Hosts ==
    /\ up /\ ~hosted /\ engine # "off"
    /\ \A i \in DOMAIN queue : queue[i].op # "shutdown"
    /\ hosted' = TRUE
    /\ UNCHANGED <<file, entries, up, queue, engine, at, held, settled, shown, started,
                   known, late, unwritten, ops, mishaps>>

\* defer_call, in a turn: unless the call was decided, or is an open action.
Defers(c) ==
    /\ engine = "idle"
    /\ c \notin settled /\ \A a \in held : a[1] # c
    /\ \E n \in 1..MaxIds :
          /\ \A a \in known \cup shown : a[2] < n
          /\ n > 1 => \E a \in known \cup shown : a[2] = n - 1
          /\ held' = held \cup {<<c, n>>} /\ at' = [action |-> <<c, n>>, allow |-> FALSE]
    /\ engine' = "recording"
    /\ UNCHANGED <<file, entries, up, hosted, queue, settled, shown, started, known, late,
                   unwritten, ops, mishaps>>

\* publish: the action is recorded, and clients see it.
Publishes ==
    /\ engine = "recording"
    /\ \E written \in BOOLEAN : Writes("deferred", at.action, written)
    /\ shown' = shown \cup {at.action}
    /\ engine' = "idle" /\ at' = Nothing
    /\ UNCHANGED <<up, hosted, queue, held, settled, started, late, unwritten, ops>>

\* apply: a decision is recorded before the engine has it; the error of a write that
\* fails is dropped.
Applies ==
    /\ engine = "idle" /\ queue # <<>>
    /\ Head(queue).op = "decide"
    /\ LET a == Head(queue).action
       IN  \E written \in BOOLEAN :
             /\ Writes("decided", a, written)
             /\ unwritten' = IF written \/ StateOf(file.lines, a) = "gone" THEN unwritten
                             ELSE unwritten \cup {a}
    /\ queue' = Tail(queue)
    /\ engine' = "deciding" /\ at' = [action |-> Head(queue).action, allow |-> Head(queue).allow]
    /\ UNCHANGED <<up, hosted, held, settled, shown, started, late, ops>>

\* AgentCore::decide_action: an action the engine has not is an error.
Decides ==
    /\ engine = "deciding"
    /\ LET a == at.action
       IN  IF a \in held
           THEN /\ held' = held \ {a} /\ settled' = settled \cup {a[1]}
                /\ started' = IF at.allow THEN [started EXCEPT ![a] = @ + 1] ELSE started
           ELSE UNCHANGED <<held, settled, started>>
    /\ engine' = "idle" /\ at' = Nothing
    /\ UNCHANGED <<file, entries, up, hosted, queue, shown, known, late, unwritten, ops,
                   mishaps>>

\* shutdown.
Stops ==
    /\ engine = "idle" /\ queue # <<>> /\ Head(queue).op = "shutdown"
    /\ engine' = "off" /\ queue' = <<>> /\ held' = {} /\ settled' = {} /\ late' = {}
    /\ UNCHANGED <<file, entries, up, hosted, at, shown, started, known, unwritten,
                   ops, mishaps>>

-----------------------------------------------------------------------------
\* The daemon is killed, perhaps in the middle of a write.
Crash ==
    /\ up /\ mishaps < MaxMishaps /\ mishaps' = mishaps + 1
    /\ file' \in {file, [lines |-> Append(file.lines, Torn), torn |-> TRUE]}
    /\ up' = FALSE /\ hosted' = FALSE /\ queue' = <<>> /\ engine' = "off" /\ at' = Nothing
    /\ held' = {} /\ settled' = {} /\ late' = {}
    /\ UNCHANGED <<entries, shown, started, known, unwritten, ops>>

\* Store::open, which compacts the log; some of the closed actions may be too old.
Restart ==
    /\ ~up /\ up' = TRUE
    /\ \E kept \in SUBSET Closed(file.lines) :
          \E all \in SetToSeqs(Open(file.lines) \cup kept), put \in SetToSeqs(kept) :
              file' = Rewritten(file, Compacted(all, put))
    /\ entries' = file'.lines
    /\ UNCHANGED <<hosted, queue, engine, at, held, settled, shown, started, known, late,
                   unwritten, ops, mishaps>>

Next ==
    \/ \E a \in Action, allow \in BOOLEAN : Decide(a, allow)
    \/ \E a \in Action : CloseAction(a) \/ ReopenAction(a)
    \/ CloseSession \/ Opens \/ Hosts
    \/ \E c \in Call : Defers(c)
    \/ Publishes \/ Applies \/ Decides \/ Stops
    \/ Crash \/ Restart

Spec == Init /\ [][Next]_vars

-----------------------------------------------------------------------------
Decision == [op : {"decide", "shutdown"}, action : Action \cup {Nothing}, allow : BOOLEAN]

Line == [kind : {"deferred", "decided", "closed", "reopened"}, action : Action] \cup {Torn}

TypeOK ==
    /\ file \in [lines : Seq(Line), torn : BOOLEAN] /\ entries \in Seq(Line)
    /\ {up, hosted} \subseteq BOOLEAN /\ queue \in Seq(Decision)
    /\ engine \in {"off", "idle", "recording", "deciding"}
    /\ at = Nothing <=> engine \in {"off", "idle"}
    /\ held \cup shown \cup known \cup late \cup unwritten \subseteq Action
    /\ started \in [Action -> Nat]
    /\ settled \subseteq Call

Book == INSTANCE ActionBook
        WITH state <- [a \in Action |-> IF a \in unwritten THEN "void" ELSE StateOf(file.lines, a)]

\* Through crashes, torn lines, failed writes and compactions, an action that was
\* decided is not offered again, and none is started twice or without a decision on
\* disk, unless the write of its decision failed.
KeepsTheBook == Book!Spec

\* The actions listed to clients as open are open in the session's engine, but for those
\* reopened since it started and those whose decision could not be written: a decision
\* of any other is not lost on it.
ListedIsHeld ==
    up /\ engine \in {"idle", "recording"} => Open(entries) \subseteq held \cup late \cup unwritten

=============================================================================
