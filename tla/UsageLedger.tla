---------------------------- MODULE UsageLedger ----------------------------
(***************************************************************************)
(* What turns spent (crates/daemon/src/usage.rs): requests are summed by   *)
(* turn, a turn is written to usage.jsonl when its session is ready again, *)
(* and lines made while signed in are uploaded to the account.  Sessions   *)
(* differ in who says what was spent, and on which turn:                   *)
(*                                                                         *)
(*   - "tagged": JuCode's engine; its thread (session.rs) publishes what a *)
(*     poll brought with the engine's turn tag (core.rs, turn_tag);        *)
(*   - "events": a CLI's own usage events, on the turn the daemon opened;  *)
(*   - "custom": the local gateway (gateway.rs) meters each request on a   *)
(*     thread of its own, which may outlast the turn.                      *)
(*                                                                         *)
(* The state is under one lock, an action is what a thread does under it.  *)
(* What a request cost is left out: a spend is told from the others, and   *)
(* must be counted once.  It is one that its engine reports: JuCode's own  *)
(* subagents' are not.  The daemon may be killed between two actions and   *)
(* is started again; a kill inside a write is a failed write and a kill.   *)
(***************************************************************************)
EXTENDS Naturals, Sequences, FiniteSets, SequencesExt

CONSTANTS
    Tagged, Events, Custom,  \* the sessions of each kind
    Account,                 \* JuCode accounts
    Nobody,                  \* signed out
    Batch,                   \* BATCH
    MaxTurns, MaxSpends,     \* bounds: turns opened, requests made
    MaxMishaps               \* bound: crashes, failed writes and uploads, logins

Session == Tagged \cup Events \cup Custom
Turn == 1..MaxTurns
Spend == 1..MaxSpends

ASSUME UsageAssumption ==
    /\ Tagged \cap (Events \cup Custom) = {} /\ Events \cap Custom = {}
    /\ Nobody \notin Account
    /\ Batch \in Nat \ {0} /\ {MaxTurns, MaxSpends, MaxMishaps} \subseteq Nat

VARIABLES
    \* Usage.state
    current,    \* the turn the daemon opened for a session; 0: none
    open,       \* the records of turns so far
    closing,    \* gateway_closing: ready, with requests in flight
    \* the gateway's threads
    requests,   \* in flight; gateway_active counts a session's
    finishing,  \* sessions a thread is about to close, the lock let go
    \* engines
    busy,       \* Events, Custom: a turn runs
    engine,     \* Tagged: its turn and what its worker sent since the last poll
    \* usage.jsonl, usage.sent and the uploader
    lines,      \* the lines that hold a record
    torn,       \* it ends inside a line
    cut,        \* a line was torn inside a character: from there on it is no text
    sent, batch,
    account, server,
    \* history: ids given out, spends that were lost and why, lines that a torn one runs
    \* into, lines the account refused
    turns, spends, lost, glued, refused, mishaps

ledger == <<current, open, closing>>
gateway == <<requests, finishing>>
engines == <<busy, engine>>
file == <<lines, torn, cut, glued>>
uploads == <<sent, batch, server, refused>>
vars == <<ledger, gateway, engines, file, uploads, account, turns, spends, lost, mishaps>>

\* Why a spend is lost: the daemon was killed, its line was not written, its engine was
\* stopped before a poll brought it, or the answer that would tell it failed.
Why == {"crash", "write", "stopped", "failed"}
Losing(why, what) == [lost EXCEPT ![why] = @ \cup what]

NoBatch == [stage |-> "none", from |-> {}, end |-> 0]
Asleep == [tag |-> 0, running |-> FALSE, done |-> FALSE, queued |-> 0, spent |-> {}]

Init ==
    /\ current = [s \in Session |-> 0] /\ open = {} /\ closing = {}
    /\ requests = {} /\ finishing = {} /\ busy = {}
    /\ engine = [s \in Tagged |-> Asleep]
    /\ lines = <<>> /\ torn = FALSE /\ cut = FALSE /\ sent = 0 /\ batch = NoBatch
    /\ account \in Account \cup {Nobody} /\ server = {}
    /\ turns = 0 /\ spends = 0 /\ lost = [why \in Why |-> {}] /\ glued = {} /\ refused = {}
    /\ mishaps = 0

Mishap == mishaps < MaxMishaps /\ mishaps' = mishaps + 1

-----------------------------------------------------------------------------
\* add: what was spent goes on the record of a turn.
Added(s, t, what) ==
    LET before == UNION {r.spent : r \in {q \in open : q.turn = t}}
    IN  {r \in open : r.turn # t}
        \cup {[turn |-> t, session |-> s, spent |-> before \cup what]}

\* The turn of a session, opened now if there is none.
TurnOf(s, t) ==
    IF current[s] # 0 THEN t = current[s] /\ UNCHANGED <<current, turns>>
    ELSE /\ turns < MaxTurns /\ turns' = turns + 1
         /\ t = turns + 1 /\ current' = [current EXCEPT ![s] = t]

NewSpend == spends < MaxSpends /\ spends' = spends + 1

\* The lines of a session's turns, in some order.
LinesOf(s, recorded) ==
    SetToSeq({[turn |-> r.turn, session |-> s, spent |-> r.spent, upload |-> account # Nobody] :
              r \in {q \in recorded : q.session = s}})

\* append: lines of a session's records go to the file, the first of them to the end of a
\* torn line if there is one.
Appends(s, written) ==
    /\ lines' = lines \o LinesOf(s, written)
    /\ glued' = IF torn /\ written # {} THEN glued \cup {Len(lines) + 1} ELSE glued

\* A slip: a session that is ready is written whatever is in flight.
ClosesAtOnce(s, recorded, dropped) ==
    LET mine == {r \in recorded : r.session = s}
    IN  /\ current' = [current EXCEPT ![s] = 0] /\ open' = recorded \ mine
        /\ Appends(s, mine) /\ torn' = (torn /\ mine = {})
        /\ lost' = Losing("stopped", dropped)
        /\ UNCHANGED <<closing, cut, mishaps>>

\* A slip: written turns stay.
ClosesTwice(s, recorded, dropped) ==
    LET mine == {r \in recorded : r.session = s}
    IN  /\ current' = [current EXCEPT ![s] = 0] /\ open' = recorded
        /\ Appends(s, mine) /\ torn' = (torn /\ mine = {})
        /\ lost' = Losing("stopped", dropped)
        /\ UNCHANGED <<closing, cut, mishaps>>

\* close: the turns of a session are written once no request of it is in flight.  What
\* the engine dropped nobody counts.  The records come in any order, and a write that
\* fails leaves the first of them, and maybe a part of the next.
Closes(s, recorded, dropped) ==
    IF \E q \in requests : q.session = s
    THEN /\ closing' = closing \cup {s} /\ open' = recorded
         /\ lost' = Losing("stopped", dropped)
         /\ UNCHANGED <<current, file, mishaps>>
    ELSE LET mine == {r \in recorded : r.session = s}
         IN  /\ current' = [current EXCEPT ![s] = 0] /\ open' = recorded \ mine
             /\ UNCHANGED closing
             /\ \E written \in SUBSET mine :
                   /\ Appends(s, written)
                   /\ lost' = [Losing("stopped", dropped) EXCEPT
                                 !["write"] = @ \cup UNION {r.spent : r \in mine \ written}]
                   /\ \/ /\ written = mine /\ torn' = (torn /\ mine = {})
                         /\ UNCHANGED <<cut, mishaps>>
                      \/ /\ written # mine /\ Mishap
                         /\ torn' \in {TRUE, torn /\ written = {}}
                         /\ cut' \in {cut, cut \/ torn'}

-----------------------------------------------------------------------------
\* Events of the CLI engines.

\* user_message: the next turn, unless one is open that is not closing.
Message(s) ==
    /\ s \in Events \cup Custom
    /\ busy' = busy \cup {s} /\ closing' = closing \ {s}
    /\ IF s \in closing \/ current[s] = 0
       THEN /\ turns < MaxTurns /\ turns' = turns + 1
            /\ current' = [current EXCEPT ![s] = turns + 1]
       ELSE UNCHANGED <<current, turns>>
    /\ UNCHANGED <<open, gateway, engine, file, uploads, account, spends, lost, mishaps>>

\* usage, maybe of work that outlived its turn.
Spends(s) ==
    /\ s \in Events /\ NewSpend
    /\ \E t \in Turn : TurnOf(s, t) /\ open' = Added(s, t, {spends'})
    /\ UNCHANGED <<closing, gateway, engines, file, uploads, account, lost, mishaps>>

\* status "ready".
Ready(s) ==
    /\ s \in busy /\ busy' = busy \ {s}
    /\ Closes(s, open, {})
    /\ UNCHANGED <<gateway, engine, uploads, account, turns, spends>>

\* session_ended: the engine stopped, perhaps in a turn.
Ended(s) ==
    /\ busy' = busy \ {s}
    /\ IF s \in Tagged
       THEN /\ Closes(s, open, engine[s].spent)
            /\ engine' = [engine EXCEPT ![s] = Asleep]
       ELSE Closes(s, open, {}) /\ UNCHANGED engine
    /\ UNCHANGED <<gateway, uploads, account, turns, spends>>

-----------------------------------------------------------------------------
\* The gateway's threads, one a request.

\* gateway_started
Asked(s) ==
    /\ s \in Custom /\ NewSpend
    /\ \E t \in Turn :
          /\ TurnOf(s, t)
          /\ requests' = requests \cup
                {[session |-> s, turn |-> t, spend |-> spends', metered |-> FALSE]}
    /\ UNCHANGED <<open, closing, finishing, engines, file, uploads, account, lost, mishaps>>

\* record_gateway: the answer is through.
Metered(q) ==
    /\ ~q.metered
    /\ requests' = (requests \ {q}) \cup {[q EXCEPT !.metered = TRUE]}
    /\ open' = Added(q.session, q.turn, {q.spend})
    /\ UNCHANGED <<current, closing, finishing, engines, file, uploads, account, turns,
                   spends, lost, mishaps>>

\* gateway_finished, which lets go of the lock before it closes the session; a request
\* that failed spent nothing.
Finished(q) ==
    /\ requests' = requests \ {q}
    /\ lost' = IF q.metered THEN lost ELSE Losing("failed", {q.spend})
    /\ LET last == \A r \in requests' : r.session # q.session
       IN  /\ closing' = IF last THEN closing \ {q.session} ELSE closing
           /\ finishing' = IF last /\ q.session \in closing
                           THEN finishing \cup {q.session} ELSE finishing
    /\ UNCHANGED <<current, open, engines, file, uploads, account, turns, spends, mishaps>>

ClosesLast(s) ==
    /\ s \in finishing /\ finishing' = finishing \ {s}
    /\ Closes(s, open, {})
    /\ UNCHANGED <<requests, engines, uploads, account, turns, spends>>

-----------------------------------------------------------------------------
\* JuCode's engine.

\* A message: a turn of its own tag, or the queue.
Submits(s) ==
    /\ engine[s].queued = 0
    /\ IF engine[s].running
       THEN engine' = [engine EXCEPT ![s].queued = 1] /\ UNCHANGED turns
       ELSE /\ turns < MaxTurns /\ turns' = turns + 1
            /\ engine' = [engine EXCEPT ![s].running = TRUE, ![s].tag = turns + 1]
    /\ UNCHANGED <<ledger, gateway, busy, file, uploads, account, spends, lost, mishaps>>

\* The worker of its turn: a request is answered, or the turn ends.
Works(s) ==
    /\ engine[s].running /\ ~engine[s].done
    /\ \/ NewSpend /\ engine' = [engine EXCEPT ![s].spent = @ \cup {spends'}]
       \/ engine' = [engine EXCEPT ![s].done = TRUE] /\ UNCHANGED spends
    /\ UNCHANGED <<ledger, gateway, busy, file, uploads, account, turns, lost, mishaps>>

\* stop_current_turn: the worker's channel goes, with what it sent since the last poll and
\* what it was about to send.  The turn is interrupted; or the first queued message is sent
\* at once (interrupt_send); or the engine goes for its terminal interface.
Stops(s) ==
    /\ engine[s].running
    /\ \/ lost' = Losing("stopped", engine[s].spent) /\ UNCHANGED spends
       \/ ~engine[s].done /\ NewSpend /\ lost' = Losing("stopped", engine[s].spent \cup {spends'})
    /\ \/ /\ UNCHANGED turns
          /\ \/ engine' = [engine EXCEPT ![s].running = FALSE, ![s].done = FALSE, ![s].spent = {}]
             \/ engine' = [engine EXCEPT ![s] = Asleep]
       \/ /\ engine[s].queued = 1 /\ turns < MaxTurns /\ turns' = turns + 1
          /\ engine' = [engine EXCEPT ![s] = [Asleep EXCEPT !.running = TRUE, !.tag = turns']]
    /\ UNCHANGED <<ledger, gateway, busy, file, uploads, account, mishaps>>

\* run: a poll, which may start the next turn, and then what it brought is published,
\* with the tag the engine has by then.
Polls(s) ==
    /\ engine[s].spent # {} \/ engine[s].done \/ (~engine[s].running /\ engine[s].queued = 1)
    /\ LET more == engine[s].queued = 1 /\ (engine[s].done \/ ~engine[s].running)
           tagged(t) == IF engine[s].spent = {} THEN open ELSE Added(s, t, engine[s].spent)
       IN  \/ /\ engine[s].running /\ ~engine[s].done
              /\ engine' = [engine EXCEPT ![s].spent = {}]
              /\ open' = tagged(engine[s].tag)
              /\ UNCHANGED <<current, closing, file, lost, mishaps, turns>>
           \/ /\ more /\ turns < MaxTurns /\ turns' = turns + 1
              /\ engine' = [engine EXCEPT ![s] = [Asleep EXCEPT !.running = TRUE, !.tag = turns']]
              /\ open' = tagged(turns')
              /\ UNCHANGED <<current, closing, file, lost, mishaps>>
           \/ \* nothing is queued, or a hook blocks what is (start_hooked_turn)
              /\ engine[s].done \/ more
              /\ engine' = [engine EXCEPT ![s] = [Asleep EXCEPT !.tag = engine[s].tag]]
              /\ Closes(s, tagged(engine[s].tag), {}) /\ UNCHANGED turns
           \/ \* its goal goes on: the engine says ready and is at the next turn
              /\ engine[s].done /\ ~more /\ turns < MaxTurns /\ turns' = turns + 1
              /\ engine' = [engine EXCEPT ![s] = [Asleep EXCEPT !.running = TRUE, !.tag = turns']]
              /\ Closes(s, tagged(turns'), {})
    /\ UNCHANGED <<gateway, busy, uploads, account, spends>>

-----------------------------------------------------------------------------
\* run_uploads: at the latest a while after a line came (wait_timeout).

\* The lines that say they are to be uploaded; one a torn line runs into says nothing.
ToUpload == {i \in DOMAIN lines \ glued : lines[i].upload}

\* pending: the lines after the offset, up to a batch of those to upload.  The whole rest
\* of the file must be text (read_to_string).
Reads ==
    /\ batch = NoBatch /\ sent < Len(lines) /\ ~cut
    /\ LET ends == {e \in (sent + 1)..Len(lines) :
                    Cardinality(ToUpload \cap (sent + 1)..(e - 1)) < Batch}
           some(end) == {lines[i] : i \in ToUpload \cap (sent + 1)..end}
       IN  \E end \in ends :
              /\ \A e \in ends : e <= end
              /\ batch' = [stage |-> IF some(end) = {} THEN "through" ELSE "read",
                           from |-> some(end), end |-> end]
    /\ UNCHANGED <<ledger, gateway, engines, file, sent, server, refused, account, turns,
                   spends, lost, mishaps>>

\* A slip: the batch counts as sent whatever came of it.
PostsBlindly ==
    /\ batch.stage = "read"
    /\ batch' = [batch EXCEPT !.stage = "through"]
    /\ \/ account # Nobody /\ server' = server \cup batch.from /\ UNCHANGED mishaps
       \/ Mishap /\ UNCHANGED server
    /\ UNCHANGED <<ledger, gateway, engines, file, sent, account, turns, spends, lost, refused>>

\* A slip: a refused batch is tried again.
PostsRefused ==
    /\ batch.stage = "read"
    /\ \/ /\ account # Nobody /\ batch' = [batch EXCEPT !.stage = "through"]
          /\ server' = server \cup batch.from
       \/ account # Nobody /\ batch' = NoBatch /\ UNCHANGED server
    /\ UNCHANGED <<ledger, gateway, engines, file, sent, account, turns, spends, lost,
                   refused, mishaps>>

\* upload_batch: taken, refused for good (400), or to be tried again: signed out, or an
\* error on the way there or back.
Posts ==
    /\ batch.stage = "read"
    /\ \/ /\ account # Nobody /\ batch' = [batch EXCEPT !.stage = "through"]
          /\ \/ server' = server \cup batch.from /\ UNCHANGED refused
             \/ refused' = refused \cup batch.from /\ UNCHANGED server
          /\ UNCHANGED mishaps
       \/ account = Nobody /\ batch' = NoBatch /\ UNCHANGED <<server, refused, mishaps>>
       \/ /\ account # Nobody /\ Mishap /\ batch' = NoBatch
          /\ server' \in {server, server \cup batch.from} /\ UNCHANGED refused
    /\ UNCHANGED <<ledger, gateway, engines, file, sent, account, turns, spends, lost>>

\* usage.sent is written.
Saves ==
    /\ batch.stage = "through"
    /\ sent' = batch.end /\ batch' = NoBatch
    /\ UNCHANGED <<ledger, gateway, engines, file, server, refused, account, turns, spends,
                   lost, mishaps>>

\* The user signs in or out.
Signs ==
    /\ Mishap /\ account' \in (Account \cup {Nobody}) \ {account}
    /\ UNCHANGED <<ledger, gateway, engines, file, uploads, turns, spends, lost>>

\* The daemon is killed: what is in memory goes; usage.sent, when cut off, reads as 0.
Crash ==
    /\ Mishap
    /\ current' = [s \in Session |-> 0] /\ open' = {} /\ closing' = {}
    /\ requests' = {} /\ finishing' = {} /\ busy' = {}
    /\ engine' = [s \in Tagged |-> Asleep]
    /\ sent' \in IF batch.stage = "through" THEN {sent, 0} ELSE {sent}
    /\ batch' = NoBatch
    /\ lost' = Losing("crash", (UNION {r.spent : r \in open})
                               \cup (UNION {engine[s].spent : s \in Tagged})
                               \cup {q.spend : q \in {r \in requests : ~r.metered}})
    /\ UNCHANGED <<file, account, server, turns, spends, refused>>

Next ==
    \/ \E s \in Session : Message(s) \/ Spends(s) \/ Ready(s) \/ Ended(s) \/ Asked(s) \/ ClosesLast(s)
    \/ \E q \in requests : Metered(q) \/ Finished(q)
    \/ \E s \in Tagged : Submits(s) \/ Works(s) \/ Stops(s) \/ Polls(s)
    \/ Reads \/ Posts \/ Saves \/ Signs \/ Crash

Spec == Init /\ [][Next]_vars

\* The uploader's thread runs on.
FairSpec == Spec /\ WF_vars(Reads) /\ WF_vars(Posts) /\ WF_vars(Saves)

-----------------------------------------------------------------------------
Line == [turn : Turn, session : Session, spent : SUBSET Spend, upload : BOOLEAN]

TypeOK ==
    /\ current \in [Session -> 0..MaxTurns] /\ closing \cup finishing \cup busy \subseteq Session
    /\ open \subseteq [turn : Turn, session : Session, spent : SUBSET Spend]
    /\ requests \subseteq [session : Custom, turn : Turn, spend : Spend, metered : BOOLEAN]
    /\ engine \in [Tagged -> [tag : 0..MaxTurns, running : BOOLEAN, done : BOOLEAN,
                              queued : 0..1, spent : SUBSET Spend]]
    /\ lines \in Seq(Line) /\ sent \in 0..Len(lines) /\ account \in Account \cup {Nobody}
    /\ torn \in BOOLEAN /\ cut \in BOOLEAN /\ glued \subseteq DOMAIN lines
    /\ lost \in [Why -> SUBSET Spend] /\ mishaps \in Nat
    /\ batch.stage \in {"none", "read", "through"} /\ batch.end \in 0..Len(lines)
    /\ server \cup refused \subseteq Line

\* Where a spend is: with an engine or a gateway thread, on a record, on a line of its own
\* or on one that a torn line runs into, lost for some reason.
Places(n) ==
    {<<"engine", s>> : s \in {t \in Tagged : n \in engine[t].spent}}
    \cup {<<"request", q.turn>> : q \in {r \in requests : r.spend = n /\ ~r.metered}}
    \cup {<<"record", r.turn>> : r \in {q \in open : n \in q.spent}}
    \cup {<<IF i \in glued THEN "glued" ELSE "line", i>> : i \in {j \in DOMAIN lines : n \in lines[j].spent}}
    \cup {<<"lost", why>> : why \in {w \in Why : n \in lost[w]}}

\* Every request is counted once, whatever order its answer, the end of its turn, an
\* interrupt and the next message come in.  What is not has one of four reasons: the daemon
\* was killed; its line was not written whole, or after one that was not; the engine's turn
\* was stopped before a poll brought it; the gateway's answer failed.  While neither a kill
\* nor a write has gone wrong, only the last two are left.
SpentOnce ==
    /\ \A n \in 1..spends : Cardinality(Places(n)) = 1
    /\ mishaps = 0 => glued = {} /\ lost["crash"] = {} /\ lost["write"] = {}

\* A turn the daemon opened is written once and whole: the account goes by its id
\* (turn_id).  One that JuCode's engine tagged may not be: its thread asks for
\* the tag after the poll (session.rs, run), when the next turn may have begun.
TurnIsWhole ==
    \A i \in DOMAIN lines : lines[i].session \notin Tagged =>
        /\ \A j \in DOMAIN lines : lines[i].turn = lines[j].turn => i = j
        /\ \A r \in open \cup requests : r.turn # lines[i].turn

\* What usage.sent passes over the account has, or has refused; but a record that a torn
\* line runs into is passed over with it (pending).
SentIsUploaded ==
    \A i \in ToUpload : i <= sent => lines[i] \in server \cup refused

\* While somebody stays signed in, all lines are sent; unless a write was cut inside a
\* character, after which usage.jsonl is never read again.
UploadsArrive == <>[](account # Nobody /\ ~cut) => []<>(sent = Len(lines))

=============================================================================
