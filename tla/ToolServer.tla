----------------------------- MODULE ToolServer -----------------------------
(***************************************************************************)
(* One MCP server of a session (crates/agent-core/src/mcp): the entry the  *)
(* manager keeps for its name (mod.rs), the connections that were started  *)
(* for it, and how the copy of a connection's tool list is kept up to date *)
(* (client.rs, `refresh_changed`; transport.rs, `JsonRpcPeer`).            *)
(*                                                                         *)
(* The engine's thread changes the entry and refreshes the list as it      *)
(* polls; workers, subagents and approved actions refresh it before they   *)
(* offer or call a tool; each connection is made by a thread of its own and*)
(* has a thread that reads the server's lines.                             *)
(*                                                                         *)
(* Of the three lists (tools, prompts, resources), which are treated alike,*)
(* the model has one, a number that goes up as the server changes it.  A   *)
(* walk over its pages is one request, and so is the handshake before the  *)
(* first.  Tool calls change neither list nor entry and are left out, and  *)
(* so is a server reached over HTTP.                                       *)
(***************************************************************************)
EXTENDS Naturals, Sequences

CONSTANTS
    User,       \* threads that use the server
    Poller,     \* the one of them that polls, and applies the ops
    MaxToolOps, \* bound: ops, and so connections
    MaxEvents   \* bound: changes of a list, failures, timeouts and deaths of a server

Conn == 1..MaxToolOps
ToolThread == User \cup Conn    \* a connection's thread is named after it
List == 0..(MaxEvents + 1)
Id == Nat \ {0}             \* of a request

ASSUME ServerAssumption ==
    /\ Poller \in User /\ User \cap Nat = {}
    /\ MaxToolOps \in Nat /\ MaxEvents \in Nat

VARIABLES
    \* ManagerState.servers of the name: the op that last set it (0: there is no entry),
    \* its configuration, its ServerState, and the connection of Connected (0: none)
    set, enabled, state, generation, client,
    \* a connection: the generation it is made for, whether the name was removed
    \* while it was made
    made, removed,
    \* the server behind it: whether it runs, its list, requests it has, lines it wrote
    runs, list, asked, lines,
    \* the peer: requests that wait, the changed flag (the list it is about, 0: down),
    \* the copy, the next id, and the newest list a refresh was to fetch and did not
    pending, changed, copy, ids, owed,
    \* the threads
    thread,
    toolOps, events

entry == <<set, enabled, state, generation, client>>
server == <<runs, list, asked, lines>>
peer == <<pending, changed, copy, ids, owed>>
toolVars == <<entry, made, removed, server, peer, thread, toolOps, events>>

\* A thread: where it is, on which connection, its request, the list it knows to have
\* changed, and the one it got.
Off == [at |-> "off", conn |-> 0, id |-> 0, news |-> 0, got |-> 0]

ToolTypeOK ==
    /\ set \in 0..MaxToolOps /\ enabled \in BOOLEAN
    /\ state \in {"disabled", "connecting", "connected", "failed"}
    /\ generation \in 0..MaxToolOps /\ client \in 0..MaxToolOps
    /\ made \in [Conn -> 0..MaxToolOps] /\ removed \in [Conn -> BOOLEAN]
    /\ runs \in [Conn -> BOOLEAN] /\ list \in [Conn -> List]
    /\ asked \in [Conn -> SUBSET Id]
    /\ lines \in [Conn -> Seq([kind : {"changed", "answer"}, id : Nat, list : List])]
    /\ pending \in [Conn -> SUBSET Id] /\ changed \in [Conn -> List]
    /\ copy \in [Conn -> List] /\ ids \in [Conn -> Nat] /\ owed \in [Conn -> List]
    /\ thread \in [ToolThread ->
                       [at : {"off", "start", "look", "ask", "wait", "got", "failed", "done"},
                        conn : 0..MaxToolOps, id : Nat, news : List, got : List]]
    /\ toolOps \in 0..MaxToolOps /\ events \in 0..MaxEvents

Event == events < MaxEvents /\ events' = events + 1

Goes(t, f) == thread' = [thread EXCEPT ![t] = f]

At(t, where) == [thread[t] EXCEPT !.at = where]

\* The connection is dropped, and its server killed, once neither the entry nor a thread
\* has it.
Used(c) == client = c \/ \E t \in ToolThread : thread[t].at # "off" /\ thread[t].conn = c

-----------------------------------------------------------------------------
(* The engine's ops, each after its configuration was saved. *)

Op == thread[Poller].at = "off" /\ toolOps < MaxToolOps /\ toolOps' = toolOps + 1

Others == <<removed, server, peer, events>>

\* upsert, and spawn_connect: a thread connects the server if it is enabled.  Only the
\* engine's thread changes an entry's configuration, so that the second lock finds what
\* the first one left.
Connects(b) ==
    LET g == IF set = 0 THEN 1 ELSE generation + 1 IN
    /\ set' = toolOps' /\ enabled' = b /\ generation' = g /\ client' = 0
    /\ state' = IF b THEN "connecting" ELSE "disabled"
    /\ made' = [made EXCEPT ![toolOps'] = g]
    /\ IF b THEN Goes(toolOps', [Off EXCEPT !.at = "start", !.conn = toolOps'])
            ELSE UNCHANGED thread

\* mcp_set, and the servers of the configuration.
Upsert(b) == Op /\ Connects(b) /\ UNCHANGED Others

Reload == Op /\ set # 0 /\ enabled /\ Connects(TRUE) /\ UNCHANGED Others

SetEnabled(b) == Op /\ set # 0 /\ Connects(b) /\ UNCHANGED Others

Remove ==
    /\ Op /\ set # 0
    /\ set' = 0 /\ enabled' = FALSE /\ state' = "disabled" /\ generation' = 0 /\ client' = 0
    /\ removed' = [c \in Conn |-> removed[c] \/ thread[c].at # "off"]
    /\ UNCHANGED <<made, server, peer, thread, events>>

-----------------------------------------------------------------------------
(* The thread of a connection. *)

\* StdioTransport::spawn.
Spawns(c) ==
    /\ thread[c].at = "start"
    /\ \/ /\ Goes(c, At(c, "ask"))
          /\ runs' = [runs EXCEPT ![c] = TRUE]
          /\ UNCHANGED events
       \/ Event /\ Goes(c, At(c, "failed")) /\ UNCHANGED runs
    /\ UNCHANGED <<entry, made, removed, list, asked, lines, peer, toolOps>>

\* (Slip: whatever the entry's generation is.)
FinishesAny(c) ==
    /\ thread[c].at \in {"done", "failed"}
    /\ Goes(c, Off)
    /\ IF set # 0
       THEN /\ state' = IF thread[c].at = "done" THEN "connected" ELSE "failed"
            /\ client' = IF thread[c].at = "done" THEN c ELSE 0
       ELSE UNCHANGED <<state, client>>
    /\ UNCHANGED <<set, enabled, generation, made, removed, server, peer, toolOps, events>>

\* finish_connect: the result counts if the entry still has the generation it is for.
FinishConnect(c) ==
    /\ thread[c].at \in {"done", "failed"}
    /\ Goes(c, Off)
    /\ IF set # 0 /\ generation = made[c]
       THEN /\ state' = IF thread[c].at = "done" THEN "connected" ELSE "failed"
            /\ client' = IF thread[c].at = "done" THEN c ELSE 0
       ELSE UNCHANGED <<state, client>>
    /\ UNCHANGED <<set, enabled, generation, made, removed, server, peer, toolOps, events>>

-----------------------------------------------------------------------------
(* A refresh. *)

\* client_for, connected_clients.
Uses(t) ==
    /\ thread[t].at = "off" /\ set # 0 /\ state = "connected"
    /\ Goes(t, [Off EXCEPT !.at = "look", !.conn = client])
    /\ UNCHANGED <<entry, made, removed, server, peer, toolOps, events>>

\* McpClient::refresh_changed takes the flag before it asks for the list.
TakesChanged(t) ==
    /\ thread[t].at = "look"
    /\ LET c == thread[t].conn IN
       IF changed[c] = 0
       THEN Goes(t, Off) /\ UNCHANGED changed
       ELSE /\ Goes(t, [At(t, "ask") EXCEPT !.news = changed[c]])
            /\ changed' = [changed EXCEPT ![c] = 0]
    /\ UNCHANGED <<entry, made, removed, server, pending, copy, ids, owed, toolOps, events>>

\* A refresh that failed is told to the log; the thread of a connection gives that up.
Fails(t) ==
    /\ Goes(t, IF t \in Conn THEN At(t, "failed") ELSE Off)
    /\ owed' = [owed EXCEPT ![thread[t].conn] = IF thread[t].news > @ THEN thread[t].news ELSE @]

\* JsonRpcPeer::request, up to the wait: the write to a server that is gone fails.
Requests(t) ==
    /\ thread[t].at = "ask"
    /\ LET c == thread[t].conn
           id == ids[c] + 1
       IN  /\ ids' = [ids EXCEPT ![c] = id]
           /\ IF runs[c]
              THEN /\ Goes(t, [At(t, "wait") EXCEPT !.id = id])
                   /\ pending' = [pending EXCEPT ![c] = @ \cup {id}]
                   /\ asked' = [asked EXCEPT ![c] = @ \cup {id}]
                   /\ UNCHANGED owed
              ELSE Fails(t) /\ UNCHANGED <<pending, asked>>
    /\ UNCHANGED <<entry, made, removed, runs, list, lines, changed, copy, toolOps, events>>

TimesOut(t) ==
    /\ thread[t].at = "wait" /\ Event
    /\ pending' = [pending EXCEPT ![thread[t].conn] = @ \ {thread[t].id}]
    /\ Fails(t)
    /\ UNCHANGED <<entry, made, removed, server, changed, copy, ids, toolOps>>

\* (Slip: the flag is lowered with the new copy.)
KeepsAndLowers(t) ==
    /\ thread[t].at = "got" /\ thread[t].got # 0
    /\ LET c == thread[t].conn
           v == thread[t].got
       IN  /\ copy' = [copy EXCEPT ![c] = v]
           /\ owed' = [owed EXCEPT ![c] = IF v < copy[c] /\ copy[c] > @ THEN copy[c] ELSE @]
           /\ changed' = [changed EXCEPT ![c] = 0]
    /\ Goes(t, IF t \in Conn THEN At(t, "done") ELSE Off)
    /\ UNCHANGED <<entry, made, removed, server, pending, ids, toolOps, events>>

\* refresh_tools has the list and replaces the copy, even one that is newer.
KeepsList(t) ==
    /\ thread[t].at = "got" /\ thread[t].got # 0
    /\ LET c == thread[t].conn
           v == thread[t].got
       IN  /\ copy' = [copy EXCEPT ![c] = v]
           /\ owed' = [owed EXCEPT ![c] = IF v < copy[c] /\ copy[c] > @ THEN copy[c] ELSE @]
    /\ Goes(t, IF t \in Conn THEN At(t, "done") ELSE Off)
    /\ UNCHANGED <<entry, made, removed, server, pending, changed, ids, toolOps, events>>

\* ... or an error, or the end of the connection.
GetsNone(t) ==
    /\ thread[t].at = "got" /\ thread[t].got = 0
    /\ Fails(t)
    /\ UNCHANGED <<entry, made, removed, server, pending, changed, copy, ids, toolOps, events>>

-----------------------------------------------------------------------------
(* The server, which is external, and the thread that reads its lines. *)

Writes(c, line) == lines' = [lines EXCEPT ![c] = Append(@, line)]

Answers(c, id) ==
    /\ Used(c) /\ id \in asked[c]
    /\ asked' = [asked EXCEPT ![c] = @ \ {id}]
    /\ \/ Writes(c, [kind |-> "answer", id |-> id, list |-> list[c]]) /\ UNCHANGED events
       \/ Event /\ Writes(c, [kind |-> "answer", id |-> id, list |-> 0])
    /\ UNCHANGED <<entry, made, removed, runs, list, peer, thread, toolOps>>

Changes(c) ==
    /\ Used(c) /\ runs[c] /\ Event
    /\ list' = [list EXCEPT ![c] = @ + 1]
    /\ Writes(c, [kind |-> "changed", id |-> 0, list |-> list[c] + 1])
    /\ UNCHANGED <<entry, made, removed, runs, asked, peer, thread, toolOps>>

ServerDies(c) ==
    /\ Used(c) /\ runs[c] /\ Event
    /\ runs' = [runs EXCEPT ![c] = FALSE]
    /\ asked' = [asked EXCEPT ![c] = {}]
    /\ UNCHANGED <<entry, made, removed, list, lines, peer, thread, toolOps>>

\* The threads whose requests are answered with v.
Answered(c, S, v) ==
    [t \in ToolThread |-> IF thread[t].at = "wait" /\ thread[t].conn = c /\ thread[t].id \in S
                      THEN [At(t, "got") EXCEPT !.got = v]
                      ELSE thread[t]]

\* dispatch_incoming: an answer goes to whom it is for, if that one still waits
\* (route_response); a notification raises the flag.
Reads(c) ==
    /\ Used(c) /\ lines[c] # <<>>
    /\ lines' = [lines EXCEPT ![c] = Tail(@)]
    /\ LET l == Head(lines[c])
           mine == pending[c] \cap {l.id}
       IN  IF l.kind = "changed"
           THEN changed' = [changed EXCEPT ![c] = l.list] /\ UNCHANGED <<pending, thread>>
           ELSE /\ pending' = [pending EXCEPT ![c] = @ \ mine]
                /\ thread' = Answered(c, mine, l.list)
                /\ UNCHANGED changed
    /\ UNCHANGED <<entry, made, removed, runs, list, asked, copy, ids, owed, toolOps, events>>

\* The reader is at the end of the lines: it drops the requests that wait, once.
ReadsEnd(c) ==
    /\ lines[c] = <<>> /\ ~runs[c] /\ pending[c] # {}
    /\ pending' = [pending EXCEPT ![c] = {}]
    /\ thread' = Answered(c, pending[c], 0)
    /\ UNCHANGED <<entry, made, removed, server, changed, copy, ids, owed, toolOps, events>>

-----------------------------------------------------------------------------
ToolInit ==
    /\ set = 0 /\ enabled = FALSE /\ state = "disabled" /\ generation = 0 /\ client = 0
    /\ made = [c \in Conn |-> 0] /\ removed = [c \in Conn |-> FALSE]
    /\ runs = [c \in Conn |-> FALSE] /\ list = [c \in Conn |-> 1]
    /\ asked = [c \in Conn |-> {}] /\ lines = [c \in Conn |-> <<>>]
    /\ pending = [c \in Conn |-> {}] /\ changed = [c \in Conn |-> 0]
    /\ copy = [c \in Conn |-> 0] /\ ids = [c \in Conn |-> 0] /\ owed = [c \in Conn |-> 0]
    /\ thread = [t \in ToolThread |-> Off]
    /\ toolOps = 0 /\ events = 0

ToolNext ==
    \/ \E b \in BOOLEAN : Upsert(b) \/ SetEnabled(b)
    \/ Reload \/ Remove
    \/ \E t \in User : Uses(t)
    \/ \E t \in ToolThread :
        TakesChanged(t) \/ Requests(t) \/ TimesOut(t) \/ KeepsList(t) \/ GetsNone(t)
    \/ \E c \in Conn :
        \/ Spawns(c) \/ FinishConnect(c) \/ Changes(c) \/ ServerDies(c) \/ Reads(c) \/ ReadsEnd(c)
        \/ \E id \in asked[c] : Answers(c, id)

ToolSpec == ToolInit /\ [][ToolNext]_toolVars

-----------------------------------------------------------------------------
\* The connection in use is the one that the last op on the server started: none that
\* was superseded, or disabled meanwhile, is taken for it.  Only a server that was
\* removed while it connected, and added again, gets the old connection (finish_connect).
ConnectedIsCurrent ==
    state = "connected" => set # 0 /\ ((client = set /\ enabled) \/ removed[client])

\* Nothing is under way on c.
Quiet(c) ==
    /\ runs[c] /\ lines[c] = <<>> /\ changed[c] = 0
    /\ \A t \in ToolThread : thread[t].conn = c => thread[t].at = "off"

\* Once the connection in use is at rest, its copy is the server's list: a change that
\* is notified while a refresh is under way is not lost with it.  Left out is a change
\* whose refresh failed, or whose list an older answer wrote over (refresh_changed).
ListIsFresh ==
    client # 0 /\ Quiet(client) => list[client] \in {copy[client], owed[client]}
=============================================================================
