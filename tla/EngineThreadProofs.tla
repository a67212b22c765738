------------------------- MODULE EngineThreadProofs -------------------------
(***************************************************************************)
(* Proofs about EngineThread, for any number of messages, asks, ops and    *)
(* unread ops, over any of the three adapters: every message is in one     *)
(* place (EachPlacedOnce) and is settled once, as MessageFlow promises     *)
(* (EachSettlesOnce), the engine runs in the mode the session shows        *)
(* (PicksMode), the adapter is busy while its engine runs a turn           *)
(* (BusyStaysTrue), what the engine waits to be allowed is on a card       *)
(* (AsksStayShown), and nothing waits in a thread that rests (RestsEmpty). *)
(***************************************************************************)
EXTENDS EngineAdapterProofs

-----------------------------------------------------------------------------
\* --- the adapters, whichever engine it is ---

\* What an adapter, its process, and what passes between them are, for each engine.
StateOf(k) == CASE k = "claude" -> ClaudeState [] k = "codex" -> CodexState [] k = "acp" -> AcpState
FrameOf(k) == CASE k = "claude" -> ClaudeFrame [] k = "codex" -> CodexFrame [] k = "acp" -> AcpFrame
LineOf(k) == CASE k = "claude" -> ClaudeLine [] k = "codex" -> CodexLine [] k = "acp" -> AcpLine
ProcessOf(k) ==
    CASE k = "claude" -> ClaudeProcess [] k = "codex" -> CodexProcess [] k = "acp" -> AcpProcess

Given(k) == [a : StateOf(k), frames : Seq(Carried(FrameOf(k))), events : Seq(Carried(EventName))]

Engines == {"claude", "codex", "acp"}

Gives(b, r, new) ==
    r \in Given(kind) /\ FiledBy(Waiting(b), Waiting(r.a), Gone(r), new)

\* What waits with the adapter, by its engine.
LEMMA WaitingOf ==
    ASSUME kind \in Engines, NEW b \in StateOf(kind)
    PROVE  /\ Waiting(b) \in Seq(Msg)
           /\ kind = "claude" => Waiting(b) = ClaudeQueue(b)
           /\ kind = "codex" => Waiting(b) = CodexQueue(b)
           /\ kind = "acp" => Waiting(b) = b.queued
<1>1. kind = "claude" => b \in ClaudeState /\ Waiting(b) = ClaudeQueue(b)
  BY DEF StateOf, Waiting, Claude!Waiting, ClaudeQueue
<1>2. kind = "codex" => b \in CodexState /\ Waiting(b) = CodexQueue(b)
  BY DEF StateOf, Waiting, Codex!Waiting, CodexQueue
<1>3. kind = "acp" => b \in AcpState /\ Waiting(b) = b.queued
  BY DEF StateOf, Waiting, Acp!Waiting
<1>4. kind = "acp" => b.queued \in Seq(Msg) BY <1>3 DEF AcpState
<1> QED BY <1>1, <1>2, <1>3, <1>4, ClaudeQueueParts, CodexQueueParts DEF Engines

LEMMA GivesOf ==
    ASSUME kind \in Engines, NEW b \in StateOf(kind), NEW r, NEW new,
           kind = "claude" => ClaudeGives(b, r, new),
           kind = "codex" => CodexGives(b, r, new),
           kind = "acp" => AcpGives(b, r, new)
    PROVE  Gives(b, r, new)
<1>1. CASE kind = "claude"
  <2>1. r \in Given(kind) /\ r.a \in StateOf(kind)
    BY <1>1 DEF ClaudeGives, ClaudeOutput, Given, StateOf, FrameOf
  <2> QED BY <1>1, <2>1, WaitingOf DEF ClaudeGives, Gives
<1>2. CASE kind = "codex"
  <2>1. r \in Given(kind) /\ r.a \in StateOf(kind)
    BY <1>2 DEF CodexGives, CodexOutput, Given, StateOf, FrameOf
  <2> QED BY <1>2, <2>1, WaitingOf DEF CodexGives, Gives
<1>3. CASE kind = "acp"
  <2>1. r \in Given(kind) /\ r.a \in StateOf(kind)
    BY <1>3 DEF AcpGives, AcpOutput, Given, StateOf, FrameOf
  <2> QED BY <1>3, <2>1, WaitingOf DEF AcpGives, Gives
<1> QED BY <1>1, <1>2, <1>3 DEF Engines

\* Every op files the messages it is about, ...
LEMMA EncodeGives ==
    ASSUME kind \in Engines, NEW b \in StateOf(kind), NEW op \in AnyOp
    PROVE  Gives(b, Encode(b, op), NewIn(op))
<1>1. kind = "claude" => ClaudeGives(b, Encode(b, op), NewIn(op))
  BY ClaudeEncodeGives DEF StateOf, Encode
<1>2. kind = "codex" => CodexGives(b, Encode(b, op), NewIn(op))
  BY CodexEncodeGives DEF StateOf, Encode
<1>3. kind = "acp" => AcpGives(b, Encode(b, op), NewIn(op))
  BY AcpEncodeGives DEF StateOf, Encode
<1> QED BY <1>1, <1>2, <1>3, GivesOf

\* ... every line does, ...
LEMMA TranslateGives ==
    ASSUME kind \in Engines, NEW b \in StateOf(kind), NEW line \in Asking(LineOf(kind))
    PROVE  Gives(b, Translate(b, line), {}) /\ Telling(Translate(b, line).events, line)
<1>1. kind = "claude" => ClaudeGives(b, Translate(b, line), {})
                         /\ Telling(Translate(b, line).events, line)
  BY ClaudeTranslateGives, ClaudeTells DEF StateOf, LineOf, Translate
<1>2. kind = "codex" => CodexGives(b, Translate(b, line), {})
                        /\ Telling(Translate(b, line).events, line)
  BY CodexTranslateGives, CodexTells DEF StateOf, LineOf, Translate
<1>3. kind = "acp" => AcpGives(b, Translate(b, line), {})
                      /\ Telling(Translate(b, line).events, line)
  BY AcpTranslateGives, AcpTells DEF StateOf, LineOf, Translate
<1> QED BY <1>1, <1>2, <1>3, GivesOf DEF Engines

\* ... and what the process prints is a line of its engine.
LEMMA StepsTyped ==
    ASSUME kind \in Engines, proc \in ProcessOf(kind), NEW s \in ProcessSteps
    PROVE  s.e \in ProcessOf(kind) /\ s.lines \in Seq(Asking(LineOf(kind)))
<1>1. kind = "claude" => s \in ClaudeSaid BY ClaudeStepsTyped DEF ProcessOf, ProcessSteps
<1>2. kind = "codex" => s \in CodexSaid BY CodexStepsTyped DEF ProcessOf, ProcessSteps
<1>3. kind = "acp" => s \in AcpSaid BY AcpStepsTyped DEF ProcessOf, ProcessSteps
<1> QED BY <1>1, <1>2, <1>3 DEF Engines, ProcessOf, LineOf, ClaudeSaid, CodexSaid, AcpSaid

\* A new adapter keeps no message.
LEMMA AdapterTyped ==
    ASSUME NEW k \in Engines, NEW mode \in Mode, NEW resume \in BOOLEAN
    PROVE  LET new == Adapter(k, mode, resume)
           IN  /\ new.a \in StateOf(k) /\ new.a.mode = mode
               /\ [Process(k) EXCEPT !.in = new.frames] \in ProcessOf(k)
               /\ kind = k => Waiting(new.a) = <<>>
<1> DEFINE new == Adapter(k, mode, resume)
<1>1. CASE k = "claude"
  <2>1. new.a = Claude!Fresh(mode) /\ new.frames = <<>> BY <1>1 DEF Adapter
  <2>2. Process(k) = Claude!FreshProcess BY <1>1 DEF Process
  <2>3. [Claude!FreshProcess EXCEPT !.in = <<>>] = Claude!FreshProcess BY DEF Claude!FreshProcess
  <2>4. StateOf(k) = ClaudeState /\ ProcessOf(k) = ClaudeProcess BY <1>1 DEF StateOf, ProcessOf
  <2>5. kind = k => Waiting(new.a) = ClaudeQueue(new.a)
    BY <1>1 DEF Waiting, Claude!Waiting, ClaudeQueue
  <2> HIDE DEF new
  <2> QED BY <2>1, <2>2, <2>3, <2>4, <2>5, ClaudeFreshTyped DEF new
<1>2. CASE k = "codex"
  <2> DEFINE b == Codex!Fresh(mode, resume)
             f == Codex!Start(b)
  <2>1. new.a = b /\ new.frames = f BY <1>2 DEF Adapter
  <2>2. Process(k) = Codex!FreshProcess BY <1>2 DEF Process
  <2>4. StateOf(k) = CodexState /\ ProcessOf(k) = CodexProcess BY <1>2 DEF StateOf, ProcessOf
  <2>5. kind = k => Waiting(new.a) = CodexQueue(new.a)
    BY <1>2 DEF Waiting, Codex!Waiting, CodexQueue
  <2>6. b \in CodexState /\ CodexQueue(b) = <<>> /\ b.mode = mode
        /\ [Codex!FreshProcess EXCEPT !.in = f] \in CodexProcess
    BY CodexFreshTyped
  <2> HIDE DEF new, b, f
  <2> QED BY <2>1, <2>2, <2>4, <2>5, <2>6 DEF new
<1>3. CASE k = "acp"
  <2> DEFINE b == Acp!Fresh(mode, resume)
             f == Acp!Start(b)
  <2>1. new.a = b /\ new.frames = f BY <1>3 DEF Adapter
  <2>2. Process(k) = Acp!FreshProcess BY <1>3 DEF Process
  <2>4. StateOf(k) = AcpState /\ ProcessOf(k) = AcpProcess BY <1>3 DEF StateOf, ProcessOf
  <2>5. kind = k => Waiting(new.a) = new.a.queued BY <1>3 DEF Waiting, Acp!Waiting
  <2>6. b \in AcpState /\ b.queued = <<>> /\ b.mode = mode
        /\ [Acp!FreshProcess EXCEPT !.in = f] \in AcpProcess
    BY AcpFreshTyped
  <2> HIDE DEF new, b, f
  <2> QED BY <2>1, <2>2, <2>4, <2>5, <2>6 DEF new
<1> QED BY <1>1, <1>2, <1>3 DEF Engines

-----------------------------------------------------------------------------
\* Outputs, one after another.

\* One result after another files the messages of both.
LEMMA ThenGives ==
    ASSUME kind \in Engines, NEW b, NEW r, NEW q, NEW new,
           Gives(b, r, new), Gives(r.a, q, {})
    PROVE  Gives(b, Then(r, q), new)
<1> DEFINE z == Then(r, q)
           fs == r.frames \o q.frames
           es == r.events \o q.events
           F == Carried(FrameOf(kind))
           E == Carried(EventName)
<1>1. r.a \in StateOf(kind) /\ q.a \in StateOf(kind)
      /\ r.frames \in Seq(F) /\ q.frames \in Seq(F) /\ r.events \in Seq(E) /\ q.events \in Seq(E)
  BY DEF Gives, Given
<1>2. FiledBy(Waiting(b), Waiting(r.a), Gone(r), new) /\ FiledBy(Waiting(r.a), Waiting(q.a), Gone(q), {})
  BY DEF Gives
<1>3. z = [a |-> q.a, frames |-> fs, events |-> es] BY DEF Then
<1> HIDE DEF F, E
<1>4. fs \in Seq(F) /\ MsgsOf(fs, Settling) = MsgsOf(r.frames, Settling) \cup MsgsOf(q.frames, Settling)
  BY <1>1, ConcatOnce, MsgsConcat
<1>5. es \in Seq(E) /\ MsgsOf(es, Settling) = MsgsOf(r.events, Settling) \cup MsgsOf(q.events, Settling)
  BY <1>1, ConcatOnce, MsgsConcat
<1> HIDE DEF fs, es, z
<1>6. z \in Given(kind) BY <1>1, <1>3, <1>4, <1>5 DEF Given, F, E
<1>7. Gone(z) = Gone(r) \cup Gone(q) BY <1>3, <1>4, <1>5 DEF Gone
<1>8. FiledBy(Waiting(b), Waiting(q.a), Gone(z), new) BY <1>2, <1>7 DEF FiledBy
<1> QED BY <1>3, <1>6, <1>8 DEF Gives, z

\* So do calls that are allowed, and a request that is allowed at once.
LEMMA QuietGives ==
    ASSUME kind \in Engines, NEW b \in StateOf(kind)
    PROVE  Gives(b, [a |-> b, frames |-> <<>>, events |-> <<>>], {})
<1> DEFINE r == [a |-> b, frames |-> <<>>, events |-> <<>>]
<1>1. <<>> \in Seq(Carried(FrameOf(kind))) /\ <<>> \in Seq(Carried(EventName)) OBVIOUS
<1>2. r \in Given(kind) BY <1>1 DEF Given
<1>3. Gone(r) = {} BY MsgsEmpty DEF Gone
<1>4. r.a = b OBVIOUS
<1> HIDE DEF r
<1>5. FiledBy(Waiting(b), Waiting(b), Gone(r), {}) BY <1>3 DEF FiledBy
<1>6. Gives(b, r, {}) BY <1>2, <1>4, <1>5 DEF Gives
<1> QED BY <1>6 DEF r

LEMMA AllowedGives ==
    ASSUME kind \in Engines, NEW b, NEW r, NEW new, Gives(b, r, new),
           NEW calls \in SUBSET (1..MaxAsks)
    PROVE  Gives(b, Allowed(r, calls), new)
<1> DEFINE op == [op |-> "approve", calls |-> calls]
<1>1. r.a \in StateOf(kind) BY DEF Gives, Given
<1>2. op \in AnyOp /\ NewIn(op) = {} BY DEF AnyOp, NewIn
<1>3. CASE calls = {} BY <1>3 DEF Allowed
<1>4. CASE calls # {}
  <2>1. Allowed(r, calls) = Then(r, Encode(r.a, op)) BY <1>4 DEF Allowed
  <2> HIDE DEF op
  <2>2. Gives(r.a, Encode(r.a, op), {}) BY <1>1, <1>2, EncodeGives
  <2> QED BY <2>1, <2>2, ThenGives
<1> QED BY <1>3, <1>4

\* The cards are calls that were shown.
LEMMA CardsIn ==
    ASSUME NEW events \in Seq(Carried(EventName)), NEW shown \in SUBSET (1..MaxAsks),
           \A i \in DOMAIN events : events[i].t = "approval_request" => events[i].n # 0
    PROVE  CardsAfter(shown, events) \in SUBSET (1..MaxAsks)
<1>1. ASSUME NEW i \in DOMAIN events, events[i].t = "approval_request"
      PROVE  events[i].n \in 1..MaxAsks
  <2>1. events[i] \in Carried(EventName) OBVIOUS
  <2>2. events[i].n \in 0..MaxAsks /\ events[i].n # 0 BY <1>1, <2>1 DEF Carried
  <2> QED BY <2>2, EngineAssumption
<1> QED BY <1>1 DEF CardsAfter

LEMMA TellingCards ==
    ASSUME NEW events, NEW line, Telling(events, line),
           NEW T, line \in Asking(T)
    PROVE  /\ \A i \in DOMAIN events : events[i].t = "approval_request" => events[i].n # 0
           /\ CardsAfter({}, events) = {} \/ MsgsOf(events, Settling) = {}
           /\ CardsAfter({}, events) \in SUBSET (1..MaxAsks)
<1>1. CASE \A i \in DOMAIN events : events[i].t # "approval_request"
  <2>1. CardsAfter({}, events) = {} BY <1>1 DEF CardsAfter
  <2> QED BY <1>1, <2>1
<1>2. CASE /\ line.t \in {"can_use_tool", "requestApproval", "request_permission"}
           /\ events = <<NumberedAs("approval_request", line.n)>>
  <2> DEFINE x == NumberedAs("approval_request", line.n)
  <2>1. x.t = "approval_request" /\ x.n = line.n /\ x.ms = <<>> BY DEF NumberedAs
  <2>2. line.n \in 0..MaxAsks /\ line.n # 0 BY <1>2 DEF Asking, Carried
  <2>3. line.n \in 1..MaxAsks BY <2>2, EngineAssumption
  <2> HIDE DEF x
  <2>4. DOMAIN <<x>> = {1} /\ <<x>>[1] = x OBVIOUS
  <2>5. events = <<x>> BY <1>2 DEF x
  <2>6. CardsAfter({}, events) = {line.n} BY <2>1, <2>4, <2>5 DEF CardsAfter
  <2>7. MsgsOf(events, Settling) = {}
    <3>1. ToSet(<<>>) = {} BY EmptyOnce
    <3> QED BY <2>1, <2>5, <3>1, MsgsOne
  <2> QED BY <2>1, <2>2, <2>3, <2>4, <2>5, <2>6, <2>7
<1> QED BY <1>1, <1>2 DEF Telling

LEMMA OpeningGives ==
    ASSUME kind \in Engines, NEW b \in StateOf(kind), NEW line \in Asking(LineOf(kind))
    PROVE  Gives(b, AllowWhileOpening(Translate(b, line)), {})
<1> DEFINE r == Translate(b, line)
           asked == CardsAfter({}, r.events)
           q == [r EXCEPT !.events = <<>>]
<1>1. Gives(b, r, {}) /\ Telling(r.events, line) BY TranslateGives
<1>2. asked = {} \/ MsgsOf(r.events, Settling) = {} BY <1>1, TellingCards
<1>3. asked \in SUBSET (1..MaxAsks) BY <1>1, TellingCards
<1>4. AllowWhileOpening(r) = IF pendingMode = "full" /\ asked # {} THEN Allowed(q, asked) ELSE r
  BY DEF AllowWhileOpening
<1> HIDE DEF asked
<1>5. ASSUME asked # {} PROVE Gives(b, q, {})
  <2> HIDE DEF r
  <2>1. r \in Given(kind) BY <1>1 DEF Gives
  <2>2. <<>> \in Seq(Carried(EventName)) OBVIOUS
  <2>3. q \in Given(kind) /\ q.a = r.a /\ q.frames = r.frames /\ q.events = <<>>
    BY <2>1, <2>2 DEF Given
  <2> HIDE DEF q
  <2>4. Gone(q) = Gone(r) BY <1>2, <1>5, <2>3, MsgsEmpty DEF Gone
  <2> QED BY <1>1, <2>3, <2>4 DEF Gives
<1> HIDE DEF q, r
<1>6. ASSUME asked # {} PROVE Gives(b, Allowed(q, asked), {})
  BY <1>3, <1>5, <1>6, AllowedGives
<1>7. Gives(b, AllowWhileOpening(r), {}) BY <1>1, <1>4, <1>6
<1> QED BY <1>7 DEF r

-----------------------------------------------------------------------------
\* --- the invariant: where each message is ---

\* What the thread, the adapter and the process are.
Phases == {"ops", "lines", "surface", "tui", "ended"}
Fates == {"unsent", "live", "given", "taken", "refused", "lost", "muddled"}
Final == {"given", "taken", "refused", "lost", "muddled"}

EngineTyped ==
    /\ kind \in Kinds
    /\ a \in StateOf(kind) /\ proc \in ProcessOf(kind)
    /\ lines \in Seq(Asking(LineOf(kind))) /\ ops \in Seq(AnyOp)
    /\ phase \in Phases /\ current \in Mode /\ picked \in Mode
    /\ cards \in SUBSET (1..MaxAsks)
    /\ up \in BOOLEAN /\ overlap \in BOOLEAN /\ crossed \in BOOLEAN
    /\ restart \in Mode \cup {"none"} /\ pendingMode \in Mode \cup {"none"}
    /\ tui \in {"none", "ask", "force"}
    /\ fate \in [Msg -> Fates] /\ sent \in 0..MaxWork

\* No message is sent twice.
OnceUnread(s) ==
    \A i, j \in DOMAIN s :
        s[i].op = "user_message" /\ s[j].op = "user_message" /\ s[i].m = s[j].m => i = j

\* The messages the adapter keeps, while it has a process.
Kept == IF phase \in {"tui", "ended"} THEN {} ELSE In(Waiting(a))

\* A message is live while it is unread or kept; a muddled one may be kept too.
Placed(f, unread, kept) ==
    /\ unread \cap kept = {}
    /\ \A m \in unread : f[m] = "live"
    /\ \A m \in kept : f[m] \in {"live", "muddled"}
    /\ \A m \in Msg : f[m] = "live" => m \in unread \cup kept

\* It is so once.
Filed ==
    /\ OnceUnread(ops)
    /\ phase \notin {"tui", "ended"} => Once(Waiting(a))
    /\ Placed(fate, Unread(ops), Kept)

\* How the fate of a message may change.
Moves(f, g) ==
    \A m \in Msg : \/ g[m] = f[m]
                   \/ f[m] = "unsent" /\ g[m] = "live"
                   \/ f[m] = "live" /\ g[m] \in Final

-----------------------------------------------------------------------------
\* The messages in the ops channel.
LEMMA UnreadIs ==
    ASSUME NEW s, NEW m
    PROVE  m \in Unread(s) <=> \E i \in DOMAIN s : s[i].op = "user_message" /\ s[i].m = m
BY DEF Unread

LEMMA UnreadMsgs ==
    ASSUME NEW s \in Seq(AnyOp)
    PROVE  Unread(s) \subseteq Msg
<1>1. ASSUME NEW i \in DOMAIN s, s[i].op = "user_message" PROVE s[i].m \in Msg
  <2>1. s[i] \in AnyOp OBVIOUS
  <2> QED BY <1>1, <2>1 DEF AnyOp
<1> QED BY <1>1 DEF Unread

LEMMA UnreadAppend ==
    ASSUME NEW s \in Seq(AnyOp), NEW op \in AnyOp
    PROVE  /\ Append(s, op) \in Seq(AnyOp)
           /\ Unread(Append(s, op)) = Unread(s) \cup NewIn(op)
           /\ OnceUnread(s) /\ NewIn(op) \cap Unread(s) = {} => OnceUnread(Append(s, op))
<1> DEFINE w == Append(s, op)
           l == Len(s) + 1
<1>1. w \in Seq(AnyOp) /\ DOMAIN w = DOMAIN s \cup {l} /\ l \notin DOMAIN s /\ w[l] = op
      /\ \A i \in DOMAIN s : w[i] = s[i]
  OBVIOUS
<1> HIDE DEF w, l
<1>2. Unread(w) = Unread(s) \cup NewIn(op)
  <2>1. \A m : m \in Unread(w) <=> m \in Unread(s) \/ m \in NewIn(op)
    BY <1>1, UnreadIs DEF NewIn
  <2> QED BY <2>1
<1>3. ASSUME OnceUnread(s), NewIn(op) \cap Unread(s) = {} PROVE OnceUnread(w)
  <2> SUFFICES ASSUME NEW i \in DOMAIN w, NEW j \in DOMAIN w, w[i].op = "user_message",
                      w[j].op = "user_message", w[i].m = w[j].m
               PROVE  i = j
    BY DEF OnceUnread
  <2>1. CASE i \in DOMAIN s /\ j \in DOMAIN s BY <1>1, <1>3, <2>1 DEF OnceUnread
  <2>2. CASE i = l /\ j = l BY <2>2
  <2>3. ASSUME NEW k \in DOMAIN s, s[k].op = "user_message", s[k].m = op.m, op.op = "user_message"
        PROVE  FALSE
    <3>1. op.m \in Unread(s) BY <2>3, UnreadIs
    <3> QED BY <1>3, <2>3, <3>1 DEF NewIn
  <2> QED BY <1>1, <2>1, <2>2, <2>3
<1> QED BY <1>1, <1>2, <1>3 DEF w

LEMMA UnreadTail ==
    ASSUME NEW s \in Seq(AnyOp), s # <<>>
    PROVE  /\ Tail(s) \in Seq(AnyOp) /\ Head(s) \in AnyOp
           /\ Unread(s) = Unread(Tail(s)) \cup NewIn(Head(s))
           /\ OnceUnread(s) => OnceUnread(Tail(s)) /\ NewIn(Head(s)) \cap Unread(Tail(s)) = {}
<1> DEFINE w == Tail(s)
           h == Head(s)
<1>1. /\ w \in Seq(AnyOp) /\ h \in AnyOp /\ h = s[1] /\ 1 \in DOMAIN s
      /\ \A i \in DOMAIN w : i + 1 \in DOMAIN s /\ w[i] = s[i + 1] /\ i \in Nat /\ i >= 1
      /\ \A i \in DOMAIN s : (i = 1 \/ (i - 1 \in DOMAIN w /\ w[i - 1] = s[i]))
  BY TailParts
<1> HIDE DEF w, h
<1>2. \A m : m \in Unread(s) <=> m \in Unread(w) \/ m \in NewIn(h)
  <2> TAKE m
  <2>1. ASSUME m \in Unread(s) PROVE m \in Unread(w) \/ m \in NewIn(h)
    <3>1. PICK i \in DOMAIN s : s[i].op = "user_message" /\ s[i].m = m BY <2>1, UnreadIs
    <3>2. CASE i = 1 BY <1>1, <3>1, <3>2 DEF NewIn
    <3>3. CASE i - 1 \in DOMAIN w /\ w[i - 1] = s[i]
      <4>1. w[i - 1].op = "user_message" /\ w[i - 1].m = m BY <3>1, <3>3
      <4> QED BY <3>3, <4>1, UnreadIs
    <3> QED BY <1>1, <3>2, <3>3
  <2>2. ASSUME m \in Unread(w) PROVE m \in Unread(s)
    <3>1. PICK i \in DOMAIN w : w[i].op = "user_message" /\ w[i].m = m BY <2>2, UnreadIs
    <3>2. i + 1 \in DOMAIN s /\ s[i + 1].op = "user_message" /\ s[i + 1].m = m BY <1>1, <3>1
    <3> QED BY <3>2, UnreadIs
  <2>3. ASSUME m \in NewIn(h) PROVE m \in Unread(s)
    <3>1. h.op = "user_message" /\ h.m = m BY <2>3 DEF NewIn
    <3> QED BY <1>1, <3>1, UnreadIs
  <2> QED BY <2>1, <2>2, <2>3
<1>3. Unread(s) = Unread(w) \cup NewIn(h) BY <1>2
<1>4. ASSUME OnceUnread(s) PROVE OnceUnread(w)
  <2> SUFFICES ASSUME NEW i \in DOMAIN w, NEW j \in DOMAIN w, w[i].op = "user_message",
                      w[j].op = "user_message", w[i].m = w[j].m
               PROVE  i = j
    BY DEF OnceUnread
  <2>1. i + 1 = j + 1 BY <1>1, <1>4 DEF OnceUnread
  <2> QED BY <1>1, <2>1
<1>5. ASSUME OnceUnread(s) PROVE NewIn(h) \cap Unread(w) = {}
  <2> SUFFICES ASSUME NEW m, m \in NewIn(h), m \in Unread(w) PROVE FALSE OBVIOUS
  <2>1. PICK i \in DOMAIN w : w[i].op = "user_message" /\ w[i].m = m BY UnreadIs
  <2>2. h.op = "user_message" /\ h.m = m BY DEF NewIn
  <2>3. i + 1 = 1 BY <1>1, <1>5, <2>1, <2>2 DEF OnceUnread
  <2> QED BY <1>1, <2>3
<1> QED BY <1>1, <1>3, <1>4, <1>5 DEF w, h

\* What frames and events settle is settled once, by what gave it.
LEMMA SettledBy ==
    ASSUME kind \in Engines, NEW frames \in Seq(Carried(FrameOf(kind))),
           NEW events \in Seq(Carried(EventName)), fate \in [Msg -> Fates],
           \A m \in MsgsOf(frames, Settling) \cup MsgsOf(events, Settling) :
               fate[m] \in {"live", "muddled"}
    PROVE  LET g == MsgsOf(frames, Settling) \cup MsgsOf(events, Settling)
               f == Settled(frames, events)
           IN  /\ f \in [Msg -> Fates]
               /\ \A m \in Msg : /\ m \in g => f[m] \in Final
                                 /\ m \notin g \/ fate[m] = "muddled" => f[m] = fate[m]
<1> DEFINE T == FrameOf(kind) \cup EventName
           R == Carried(T)
           A == MsgsOf(frames, Settling)
           B == MsgsOf(events, Settling)
           H == MsgsOf(frames \o events, Handed)
           C == MsgsOf(events, {"unqueued"})
           D == MsgsOf(events, {"refused"})
           E == MsgsOf(events, {"dropped"})
<1>1. frames \in Seq(R) /\ events \in Seq(R)
  <2>1. Carried(FrameOf(kind)) \subseteq R /\ Carried(EventName) \subseteq R BY DEF Carried
  <2> HIDE DEF R
  <2> QED BY <2>1
<1>2. H = MsgsOf(frames, Handed) \cup MsgsOf(events, Handed) BY <1>1, MsgsConcat
<1>3. MsgsOf(frames, Handed) = A
  <2>1. ASSUME NEW i \in DOMAIN frames PROVE frames[i].t \in Settling <=> frames[i].t \in Handed
    <3>1. frames[i] \in Carried(FrameOf(kind)) OBVIOUS
    <3>2. frames[i].t \in FrameOf(kind) BY <3>1 DEF Carried
    <3>3. FrameOf(kind) \cap {"unqueued", "refused", "dropped"} = {}
      BY DEF FrameOf, Engines, ClaudeFrame, CodexFrame, AcpFrame
    <3> QED BY <3>2, <3>3 DEF Settling
  <2> QED BY <2>1 DEF MsgsOf
<1>4. B = MsgsOf(events, Handed) \cup C \cup D \cup E
  <2>1. \A m : m \in B <=> m \in MsgsOf(events, Handed) \/ m \in C \/ m \in D \/ m \in E
    BY MsgsIn DEF Settling
  <2> QED BY <2>1
<1>5. A \cup B = H \cup C \cup D \cup E BY <1>2, <1>3, <1>4
<1> DEFINE now(m) == CASE m \in H -> "given" [] m \in C -> "taken" [] m \in D -> "refused"
                       [] m \in E -> "muddled" [] OTHER -> "none"
           f == [m \in Msg |-> CASE now(m) = "none" \/ fate[m] = "muddled" -> fate[m]
                                 [] now(m) # "none" /\ fate[m] = "live" -> now(m)
                                 [] OTHER -> "wrong"]
<1>6. Settled(frames, events) = f BY DEF Settled
<1> HIDE DEF A, B, C, D, E, H
<1>7. \A m \in Msg : /\ m \in A \cup B => f[m] \in Final
                     /\ m \notin A \cup B \/ fate[m] = "muddled" => f[m] = fate[m]
  <2> SUFFICES ASSUME NEW m \in Msg
               PROVE  /\ m \in A \cup B => f[m] \in Final
                      /\ m \notin A \cup B \/ fate[m] = "muddled" => f[m] = fate[m]
    OBVIOUS
  <2>1. m \in A \cup B => fate[m] \in {"live", "muddled"} BY DEF A, B
  <2>2. m \in A \cup B <=> now(m) # "none" BY <1>5
  <2>3. now(m) # "none" => now(m) \in Final BY DEF Final
  <2>4. /\ now(m) = "none" \/ fate[m] = "muddled" => f[m] = fate[m]
        /\ now(m) # "none" /\ fate[m] = "live" => f[m] = now(m)
    OBVIOUS
  <2>5. "muddled" \in Final BY DEF Final
  <2> HIDE DEF now, f
  <2> QED BY <2>1, <2>2, <2>3, <2>4, <2>5
<1>8. f = [m \in Msg |-> f[m]] OBVIOUS
<1> HIDE DEF f
<1>9. \A m \in Msg : f[m] \in Fates BY <1>7 DEF Final, Fates
<1>10. f \in [Msg -> Fates] BY <1>8, <1>9
<1> QED BY <1>6, <1>7, <1>10 DEF A, B

-----------------------------------------------------------------------------
\* --- what is told and asked at once ---

\* What an adapter tells the clients of an op: of the messages it gives back.
\* What an op tells of messages, it tells in one event.
SaysOnce(events) ==
    events = <<>> \/ \E t \in {"unqueued", "dropped"} : \E q : events = <<[t |-> t, ms |-> q, n |-> 0]>>

LEMMA SaysOnceNames ==
    ASSUME NEW events, SaysOnce(events)
    PROVE  \A i \in DOMAIN events : events[i].t \notin {"approval_request", "ready"}
<1>1. CASE events = <<>>
  <2>1. DOMAIN <<>> = {} OBVIOUS
  <2> QED BY <1>1, <2>1
<1>2. ASSUME NEW t \in {"unqueued", "dropped"}, NEW q, events = <<[t |-> t, ms |-> q, n |-> 0]>>
      PROVE  \A i \in DOMAIN events : events[i].t \notin {"approval_request", "ready"}
  <2> DEFINE x == [t |-> t, ms |-> q, n |-> 0]
  <2>1. x.t = t OBVIOUS
  <2> HIDE DEF x
  <2>2. DOMAIN <<x>> = {1} /\ <<x>>[1] = x OBVIOUS
  <2>3. events = <<x>> BY <1>2 DEF x
  <2> QED BY <2>1, <2>2, <2>3
<1> QED BY <1>1, <1>2 DEF SaysOnce

LEMMA ClaudeOpTells ==
    ASSUME NEW b \in ClaudeState, NEW op \in AnyOp
    PROVE  SaysOnce(Claude!Encode(b, op).events)
<1> DEFINE r == Claude!EncodeOp(b, op)
<1>1. Claude!Encode(b, op).events = r.events
  BY ClaudeNames DEF Claude!Encode, Claude!SteerReady
<1>q. \A c : SaysOnce(Claude!Quiet(c).events) BY ClaudeNames DEF SaysOnce
<1>2. CASE op.op = "user_message"
  <2>1. r = Claude!UserMessage(b, op.m) BY <1>2 DEF Claude!EncodeOp
  <2>2. r.events = <<>> BY <2>1, ClaudeNames DEF Claude!UserMessage
  <2> QED BY <1>1, <2>2 DEF SaysOnce
<1>3. CASE op.op = "approve"
  <2>1. r = Claude!Approve(b, op.calls) BY <1>3 DEF Claude!EncodeOp
  <2>2. r.events = <<>> BY <2>1, ClaudeNames DEF Claude!Approve
  <2> QED BY <1>1, <2>2 DEF SaysOnce
<1>4. CASE op.op = "interrupt"
  <2>1. r = Claude!Interrupt(b, op.index) BY <1>4 DEF Claude!EncodeOp
  <2>2. r.events = <<>> BY <2>1, ClaudeNames DEF Claude!Interrupt
  <2> QED BY <1>1, <2>2 DEF SaysOnce
<1>5. CASE op.op = "steer"
  <2>1. r = Claude!Steer(b, op.index) BY <1>5 DEF Claude!EncodeOp
  <2>2. r.events = <<>> BY <2>1, ClaudeNames DEF Claude!Steer
  <2> QED BY <1>1, <2>2 DEF SaysOnce
<1>6. CASE op.op = "unqueue"
  <2>1. r = Claude!Unqueue(b, op.index) BY <1>6 DEF Claude!EncodeOp
  <2> DEFINE at == <<(CHOOSE i \in Claude!HeldIndex(b, op.index) : TRUE) - 1>>
             i == CHOOSE i \in Claude!QueueIndex(at, Len(b["held"])) : TRUE
             q == <<b["held"][i]>>
  <2>2. r.events = <<>> \/ r = Claude!Unqueued(b, "held", at)
    BY <2>1, ClaudeNames DEF Claude!Unqueue
  <2>3. \/ Claude!Unqueued(b, "held", at).events = <<>>
        \/ Claude!Unqueued(b, "held", at).events = <<[t |-> "unqueued", ms |-> q, n |-> 0]>>
    <3> HIDE DEF at
    <3> QED BY ClaudeNames DEF Claude!Unqueued
  <2>4. r.events = <<>> \/ r.events = <<[t |-> "unqueued", ms |-> q, n |-> 0]>> BY <2>2, <2>3
  <2> HIDE DEF q
  <2> HIDE DEF r
  <2> QED BY <1>1, <2>4 DEF SaysOnce
<1>7. CASE op.op = "queue_move"
  <2>1. r = Claude!QueueMove(b, op.index, op.to) BY <1>7 DEF Claude!EncodeOp
  <2>2. r.events = <<>> BY <2>1, ClaudeNames DEF Claude!QueueMove
  <2> QED BY <1>1, <2>2 DEF SaysOnce
<1>8. CASE op.op \notin {"user_message", "approve", "interrupt", "steer", "unqueue", "queue_move"}
  <2>1. r.events = <<>> BY <1>8, ClaudeNames DEF Claude!EncodeOp
  <2> QED BY <1>1, <2>1 DEF SaysOnce
<1> QED BY <1>2, <1>3, <1>4, <1>5, <1>6, <1>7, <1>8

LEMMA CodexOpTells ==
    ASSUME NEW b \in CodexState, NEW op \in AnyOp
    PROVE  SaysOnce(Codex!Encode(b, op).events)
<1> DEFINE r == Codex!Encode(b, op)
<1>2. CASE op.op = "user_message"
  <2>1. r = Codex!UserMessage(b, op.m) BY <1>2 DEF Codex!Encode
  <2>2. r.events = <<>> BY <2>1, CodexNames DEF Codex!UserMessage, Codex!TurnStart
  <2> QED BY <2>2 DEF SaysOnce
<1>3. CASE op.op = "approve"
  <2>1. r = Codex!Approve(b, op.calls) BY <1>3 DEF Codex!Encode
  <2>2. r.events = <<>> BY <2>1, CodexNames DEF Codex!Approve
  <2> QED BY <2>2 DEF SaysOnce
<1>4. CASE op.op = "interrupt"
  <2>1. r = Codex!Interrupt(b, op.index) BY <1>4 DEF Codex!Encode
  <2>2. r.events = <<>> BY <2>1, CodexNames DEF Codex!Interrupt
  <2> QED BY <2>2 DEF SaysOnce
<1>5. CASE op.op = "steer"
  <2>1. r = Codex!Steer(b, op.index) BY <1>5 DEF Codex!Encode
  <2>2. r.events = <<>> \/ r.events = <<[t |-> "dropped", ms |-> b.steering, n |-> 0]>>
    BY <2>1, CodexNames DEF Codex!Steer
  <2> HIDE DEF r
  <2>3. SaysOnce(r.events) BY <2>2 DEF SaysOnce
  <2> QED BY <2>3 DEF r
<1>6. CASE op.op = "unqueue"
  <2>1. r = Codex!Unqueued(b, "waiting", op.index) BY <1>6 DEF Codex!Encode
  <2> DEFINE i == CHOOSE i \in Codex!QueueIndex(op.index, Len(b["waiting"])) : TRUE
             q == <<b["waiting"][i]>>
  <2>2. r.events = <<>> \/ r.events = <<[t |-> "unqueued", ms |-> q, n |-> 0]>>
    BY <2>1, CodexNames DEF Codex!Unqueued
  <2> HIDE DEF q
  <2> HIDE DEF r
  <2>3. SaysOnce(r.events) BY <2>2 DEF SaysOnce
  <2> QED BY <2>3 DEF r
<1>7. CASE op.op = "queue_move"
  <2>1. r = Codex!QueueMoved(b, "waiting", op.index, op.to) BY <1>7 DEF Codex!Encode
  <2>2. r.events = <<>> BY <2>1, CodexNames DEF Codex!QueueMoved
  <2> QED BY <2>2 DEF SaysOnce
<1>8. CASE op.op = "rewind"
  <2>1. r = Codex!Rewind(b) BY <1>8 DEF Codex!Encode
  <2>2. r.events = <<>> BY <2>1, CodexNames DEF Codex!Rewind
  <2> QED BY <2>2 DEF SaysOnce
<1>9. CASE op.op \notin {"user_message", "approve", "interrupt", "steer", "unqueue", "queue_move",
                         "rewind"}
  <2>1. r.events = <<>> BY <1>9, CodexNames DEF Codex!Encode
  <2> QED BY <2>1 DEF SaysOnce
<1> QED BY <1>2, <1>3, <1>4, <1>5, <1>6, <1>7, <1>8, <1>9

LEMMA AcpOpTells ==
    ASSUME NEW b \in AcpState, NEW op \in AnyOp
    PROVE  SaysOnce(Acp!Encode(b, op).events)
<1> DEFINE r == Acp!Encode(b, op)
<1>1. ASSUME NEW steer \in BOOLEAN, NEW index PROVE SaysOnce(Acp!Interrupt(b, steer, index).events)
  <2> DEFINE i == Acp!Interrupt(b, steer, index)
  <2>1. i.events = <<>> \/ i.events = <<[t |-> "unqueued", ms |-> b.queued, n |-> 0]>>
    BY AcpNames DEF Acp!Interrupt, Acp!CancelTurn
  <2> HIDE DEF i
  <2>2. SaysOnce(i.events) BY <2>1 DEF SaysOnce
  <2> QED BY <2>2 DEF i
<1>2. CASE op.op = "user_message"
  <2>1. r = Acp!Submit(b, op.m) BY <1>2 DEF Acp!Encode
  <2>2. r.events = <<>> BY <2>1, AcpNames DEF Acp!Submit, Acp!Send
  <2> QED BY <2>2 DEF SaysOnce
<1>3. CASE op.op = "approve"
  <2>1. r = Acp!Approve(b, op.calls) BY <1>3 DEF Acp!Encode
  <2>2. r.events = <<>> BY <2>1, AcpNames DEF Acp!Approve
  <2> QED BY <2>2 DEF SaysOnce
<1>4. CASE op.op = "interrupt"
  <2>1. r = Acp!Interrupt(b, op.index # <<>>, op.index) BY <1>4 DEF Acp!Encode
  <2> HIDE DEF r
  <2>2. SaysOnce(r.events) BY <1>1, <2>1
  <2> QED BY <2>2 DEF r
<1>5. CASE op.op = "steer"
  <2>1. r = Acp!Interrupt(b, TRUE, op.index) BY <1>5 DEF Acp!Encode
  <2> HIDE DEF r
  <2>2. SaysOnce(r.events) BY <1>1, <2>1
  <2> QED BY <2>2 DEF r
<1>6. CASE op.op = "unqueue"
  <2>1. r = Acp!Unqueued(b, "queued", op.index) BY <1>6 DEF Acp!Encode
  <2> DEFINE i == CHOOSE i \in Acp!QueueIndex(op.index, Len(b["queued"])) : TRUE
             q == <<b["queued"][i]>>
  <2>2. r.events = <<>> \/ r.events = <<[t |-> "unqueued", ms |-> q, n |-> 0]>>
    BY <2>1, AcpNames DEF Acp!Unqueued
  <2> HIDE DEF q
  <2> HIDE DEF r
  <2>3. SaysOnce(r.events) BY <2>2 DEF SaysOnce
  <2> QED BY <2>3 DEF r
<1>7. CASE op.op = "queue_move"
  <2>1. r = Acp!QueueMoved(b, "queued", op.index, op.to) BY <1>7 DEF Acp!Encode
  <2>2. r.events = <<>> BY <2>1, AcpNames DEF Acp!QueueMoved
  <2> QED BY <2>2 DEF SaysOnce
<1>9. CASE op.op \notin {"user_message", "approve", "interrupt", "steer", "unqueue", "queue_move"}
  <2>1. r.events = <<>> BY <1>9, AcpNames DEF Acp!Encode
  <2> QED BY <2>1 DEF SaysOnce
<1> QED BY <1>2, <1>3, <1>4, <1>5, <1>6, <1>7, <1>9

LEMMA EncodeTells ==
    ASSUME kind \in Engines, NEW b \in StateOf(kind), NEW op \in AnyOp
    PROVE  SaysOnce(Encode(b, op).events)
<1>1. kind = "claude" => SaysOnce(Encode(b, op).events)
  BY ClaudeOpTells DEF StateOf, Encode
<1>2. kind = "codex" => SaysOnce(Encode(b, op).events)
  BY CodexOpTells DEF StateOf, Encode
<1>3. kind = "acp" => SaysOnce(Encode(b, op).events)
  BY AcpOpTells DEF StateOf, Encode
<1> QED BY <1>1, <1>2, <1>3 DEF Engines

-----------------------------------------------------------------------------
\* Events that ask for nothing, but of a call that has a name.
\* A request has a number.
AsksNumbered(events) ==
    \A i \in DOMAIN events : events[i].t = "approval_request" => events[i].n # 0

LEMMA AsksThen ==
    ASSUME NEW S, NEW p \in Seq(S), NEW q \in Seq(S), AsksNumbered(p), AsksNumbered(q)
    PROVE  AsksNumbered(p \o q)
<1> DEFINE w == p \o q
           l == Len(p)
<1>1. \A i \in DOMAIN w : (i \in DOMAIN p /\ w[i] = p[i]) \/ (i - l \in DOMAIN q /\ w[i] = q[i - l])
  BY ConcatParts
<1> HIDE DEF w, l
<1>2. AsksNumbered(w) BY <1>1 DEF AsksNumbered
<1> QED BY <1>2 DEF w

LEMMA EncodeAsks ==
    ASSUME kind \in Engines, NEW b \in StateOf(kind), NEW op \in AnyOp
    PROVE  AsksNumbered(Encode(b, op).events)
BY EncodeTells, SaysOnceNames DEF AsksNumbered

LEMMA AllowedAsks ==
    ASSUME kind \in Engines, NEW r \in Given(kind), AsksNumbered(r.events),
           NEW calls \in SUBSET (1..MaxAsks)
    PROVE  AsksNumbered(Allowed(r, calls).events)
<1> DEFINE op == [op |-> "approve", calls |-> calls]
<1>1. r.a \in StateOf(kind) /\ r.events \in Seq(Carried(EventName)) BY DEF Given
<1>2. op \in AnyOp /\ NewIn(op) = {} BY DEF AnyOp, NewIn
<1>3. CASE calls = {} BY <1>3 DEF Allowed
<1>4. CASE calls # {}
  <2> DEFINE q == Encode(r.a, op)
  <2>1. Allowed(r, calls).events = r.events \o q.events BY <1>4 DEF Allowed, Then
  <2> HIDE DEF op
  <2>2. AsksNumbered(q.events) BY <1>1, <1>2, EncodeAsks
  <2>3. q.events \in Seq(Carried(EventName)) BY <1>1, <1>2, EncodeGives DEF Gives, Given
  <2> HIDE DEF q
  <2> QED BY <1>1, <2>1, <2>2, <2>3, AsksThen
<1> QED BY <1>3, <1>4

LEMMA OpeningAsks ==
    ASSUME kind \in Engines, NEW b \in StateOf(kind), NEW line \in Asking(LineOf(kind))
    PROVE  AsksNumbered(AllowWhileOpening(Translate(b, line)).events)
<1> DEFINE r == Translate(b, line)
           asked == CardsAfter({}, r.events)
           q == [r EXCEPT !.events = <<>>]
<1>1. Gives(b, r, {}) /\ Telling(r.events, line) BY TranslateGives
<1>2. AsksNumbered(r.events) /\ asked \in SUBSET (1..MaxAsks) BY <1>1, TellingCards DEF AsksNumbered
<1>4. AllowWhileOpening(r) = IF pendingMode = "full" /\ asked # {} THEN Allowed(q, asked) ELSE r
  BY DEF AllowWhileOpening
<1>5. r \in Given(kind) BY <1>1 DEF Gives
<1> HIDE DEF asked
<1>6. AsksNumbered(Allowed(q, asked).events)
  <2> HIDE DEF r
  <2>2. <<>> \in Seq(Carried(EventName)) OBVIOUS
  <2>3. q \in Given(kind) /\ q.events = <<>> BY <1>5, <2>2 DEF Given
  <2>4. AsksNumbered(<<>>)
    <3>1. DOMAIN <<>> = {} OBVIOUS
    <3> QED BY <3>1 DEF AsksNumbered
  <2> HIDE DEF q
  <2> QED BY <1>2, <2>3, <2>4, AllowedAsks
<1> HIDE DEF r, q
<1>7. AsksNumbered(AllowWhileOpening(r).events) BY <1>2, <1>4, <1>6
<1> QED BY <1>7 DEF r

-----------------------------------------------------------------------------
\* --- an op or a line goes through the adapter ---

Stays == EngineTyped' /\ Filed' /\ Moves(fate, fate')

\* The engine is one of the three.
LEMMA KindIs ==
    ASSUME EngineTyped
    PROVE  kind \in Engines /\ MaxAsks \in Nat /\ Waiting(a) \in Seq(Msg)
<1>1. kind \in Engines /\ a \in StateOf(kind) BY EngineAssumption DEF EngineTyped, Engines
<1> QED BY <1>1, WaitingOf, EngineAssumption

LEMMA WaitingNext ==
    ASSUME kind' = kind
    PROVE  Waiting(a)' = Waiting(a')
BY DEF Waiting, Claude!Waiting, Codex!Waiting, Acp!Waiting

LEMMA ConversationIs ==
    ASSUME EngineTyped
    PROVE  Conversation(a) \in BOOLEAN
<1>1. kind \in Engines /\ a \in StateOf(kind) BY KindIs DEF EngineTyped
<1> QED BY <1>1 DEF Conversation, Engines, StateOf, CodexState, AcpState

\* What a second steer muddles is kept.
LEMMA MuddledKept ==
    ASSUME kind \in Engines, NEW b \in StateOf(kind)
    PROVE  Muddled(b) \subseteq In(Waiting(b))
<1>1. CASE kind = "codex"
  <2>1. b \in CodexState BY <1>1 DEF StateOf
  <2>2. b.steering \in Seq(Msg) BY <2>1 DEF CodexState
  <2>3. Waiting(b) = CodexQueue(b) BY <1>1, WaitingOf
  <2>4. In(b.steering) \subseteq In(CodexQueue(b)) BY <2>1, CodexQueueParts
  <2>5. Codex!ToSet(b.steering) = In(b.steering) BY <2>2, ToSetIn DEF Codex!ToSet, ToSet
  <2>6. Muddled(b) \subseteq In(b.steering) BY <1>1, <2>5 DEF Muddled, Codex!Muddled
  <2> QED BY <2>3, <2>4, <2>6
<1>2. CASE kind # "codex" BY <1>2 DEF Muddled
<1> QED BY <1>1, <1>2

\* The fates after an op or a line.
FatesAfter(r) ==
    LET f == Settled(r.frames, r.events)
    IN  [m \in Msg |-> IF m \in Muddled(r.a) /\ f[m] = "live" THEN "muddled" ELSE f[m]]

\* What the adapter makes of an op or a line, for the state after it.
LEMMA Outcome ==
    ASSUME EngineTyped, Filed, phase \notin {"tui", "ended"}, NEW r, NEW new, NEW left,
           Gives(a, r, new), Unread(ops) = left \cup new, left \cap new = {}
    PROVE  LET f == FatesAfter(r)
           IN  /\ f \in [Msg -> Fates] /\ Moves(fate, f)
               /\ Once(Waiting(r.a)) /\ Placed(f, left, In(Waiting(r.a)))
<1> DEFINE w0 == Waiting(a)
           w1 == Waiting(r.a)
           gone == Gone(r)
           g == Settled(r.frames, r.events)
           f == FatesAfter(r)
<1>1. kind \in Engines BY KindIs
<1>2. r.frames \in Seq(Carried(FrameOf(kind))) /\ r.events \in Seq(Carried(EventName))
      /\ FiledBy(w0, w1, gone, new)
  BY DEF Gives, Given
<1>3. /\ Once(w0) /\ (left \cup new) \cap In(w0) = {}
      /\ \A m \in left \cup new : fate[m] = "live"
      /\ \A m \in In(w0) : fate[m] \in {"live", "muddled"}
      /\ \A m \in Msg : fate[m] = "live" => m \in left \cup new \cup In(w0)
  BY DEF Filed, Placed, Kept
<1>4. Once(w1) /\ In(w1) \cap gone = {} /\ In(w0) \cup new = In(w1) \cup gone
  BY <1>2, <1>3 DEF FiledBy
<1>5. In(w0) \subseteq Msg
  <2>1. w0 \in Seq(Msg) BY KindIs
  <2> QED BY <2>1, ToSetIn
<1>6. new \subseteq Msg
  <2>1. Unread(ops) \subseteq Msg BY UnreadMsgs DEF EngineTyped
  <2> QED BY <2>1
<1>7. \A m \in gone : fate[m] \in {"live", "muddled"} BY <1>3, <1>4
<1>8. gone = MsgsOf(r.frames, Settling) \cup MsgsOf(r.events, Settling) BY DEF Gone
<1>9. fate \in [Msg -> Fates] BY DEF EngineTyped
<1>m. Muddled(r.a) \subseteq In(w1)
  <2>1. r.a \in StateOf(kind) BY DEF Gives, Given
  <2> QED BY <1>1, <2>1, MuddledKept
<1>f. f = [m \in Msg |-> IF m \in Muddled(r.a) /\ g[m] = "live" THEN "muddled" ELSE g[m]]
  BY DEF FatesAfter
<1> HIDE DEF w0, w1, gone, f, g
<1>10. g \in [Msg -> Fates]
       /\ \A m \in Msg : /\ m \in gone => g[m] \in Final
                         /\ m \notin gone \/ fate[m] = "muddled" => g[m] = fate[m]
  BY <1>1, <1>2, <1>7, <1>8, <1>9, SettledBy DEF g
<1>11. f \in [Msg -> Fates]
  <2>1. \A m \in Msg : g[m] \in Fates /\ "muddled" \in Fates BY <1>10 DEF Fates
  <2> QED BY <1>f, <2>1
<1>12. Moves(fate, f)
  <2> SUFFICES ASSUME NEW m \in Msg
               PROVE  f[m] = fate[m] \/ (fate[m] = "live" /\ f[m] \in Final)
    BY DEF Moves
  <2>1. f[m] = g[m] \/ (g[m] = "live" /\ f[m] = "muddled") BY <1>f
  <2>2. CASE m \in gone
    <3>1. g[m] # "live" BY <1>10, <2>2 DEF Final
    <3> QED BY <1>7, <1>10, <2>1, <2>2, <3>1
  <2>3. CASE m \notin gone BY <1>10, <2>1, <2>3 DEF Final
  <2> QED BY <2>2, <2>3
<1>13. Placed(f, left, In(w1))
  <2>1. left \cap In(w1) = {} BY <1>3, <1>4
  <2>m. left \subseteq Msg /\ In(w1) \subseteq Msg
    <3>1. Unread(ops) \subseteq Msg BY UnreadMsgs DEF EngineTyped
    <3> QED BY <1>4, <1>5, <1>6, <3>1
  <2>2. ASSUME NEW m \in left PROVE f[m] = "live"
    <3>1. m \notin gone BY <1>3, <1>4, <2>2
    <3>2. m \notin Muddled(r.a) BY <1>m, <2>1, <2>2
    <3> QED BY <1>f, <1>3, <1>10, <2>2, <2>m, <3>1, <3>2
  <2>3. ASSUME NEW m \in In(w1) PROVE f[m] \in {"live", "muddled"}
    <3>1. m \notin gone /\ (m \in In(w0) \/ m \in new) BY <1>4, <2>3
    <3>2. g[m] = fate[m] /\ fate[m] \in {"live", "muddled"} BY <1>3, <1>10, <2>m, <2>3, <3>1
    <3> QED BY <1>f, <2>m, <2>3, <3>2
  <2>4. ASSUME NEW m \in Msg, f[m] = "live" PROVE m \in left \cup In(w1)
    <3>1. g[m] = "live" BY <1>f, <2>4
    <3>2. m \notin gone BY <1>10, <2>4, <3>1 DEF Final
    <3>3. fate[m] = "live" BY <1>10, <2>4, <3>1, <3>2
    <3> QED BY <1>3, <1>4, <2>4, <3>2, <3>3
  <2> QED BY <2>1, <2>2, <2>3, <2>4 DEF Placed
<1> QED BY <1>4, <1>11, <1>12, <1>13 DEF w1, f

LEMMA WritesTyped ==
    ASSUME EngineTyped, NEW frames \in Seq(Carried(FrameOf(kind)))
    PROVE  [proc EXCEPT !.in = @ \o frames] \in ProcessOf(kind)
<1>1. kind \in Engines /\ proc \in ProcessOf(kind) BY KindIs DEF EngineTyped
<1>2. CASE kind = "claude"
  <2>1. proc \in ClaudeProcess /\ frames \in Seq(Carried(ClaudeFrame))
    BY <1>1, <1>2 DEF ProcessOf, FrameOf
  <2>2. proc.in \o frames \in Seq(Carried(ClaudeFrame)) BY <2>1 DEF ClaudeProcess
  <2> QED BY <1>2, <2>1, <2>2 DEF ClaudeProcess, ProcessOf
<1>3. CASE kind = "codex"
  <2>1. proc \in CodexProcess /\ frames \in Seq(Carried(CodexFrame))
    BY <1>1, <1>3 DEF ProcessOf, FrameOf
  <2>2. proc.in \o frames \in Seq(Carried(CodexFrame)) BY <2>1 DEF CodexProcess
  <2> QED BY <1>3, <2>1, <2>2 DEF CodexProcess, ProcessOf
<1>4. CASE kind = "acp"
  <2>1. proc \in AcpProcess /\ frames \in Seq(Carried(AcpFrame))
    BY <1>1, <1>4 DEF ProcessOf, FrameOf
  <2>2. proc.in \o frames \in Seq(Carried(AcpFrame)) BY <2>1 DEF AcpProcess
  <2> QED BY <1>4, <2>1, <2>2 DEF AcpProcess, ProcessOf
<1> QED BY <1>1, <1>2, <1>3, <1>4 DEF Engines

\* A step of the loop that passes one op or one line through the adapter.
LEMMA Published ==
    ASSUME EngineTyped, Filed, phase \in {"ops", "lines"}, phase' \in {"ops", "lines"}, kind' = kind,
           NEW r, NEW new, NEW shown \in SUBSET (1..MaxAsks), Gives(a, r, new), AsksNumbered(r.events),
           Publish(r, shown), OnceUnread(ops'), Unread(ops) = Unread(ops') \cup new,
           Unread(ops') \cap new = {}
    PROVE  /\ a' \in StateOf(kind) /\ proc' \in ProcessOf(kind) /\ cards' \in SUBSET (1..MaxAsks)
           /\ fate' \in [Msg -> Fates] /\ Filed' /\ Moves(fate, fate')
<1>1. a' = r.a /\ proc' = [proc EXCEPT !.in = @ \o r.frames] /\ fate' = FatesAfter(r)
      /\ cards' = CardsAfter(shown, r.events)
  BY DEF Publish, FatesAfter
<1>2. r \in Given(kind) BY DEF Gives
<1>3. r.a \in StateOf(kind) /\ r.frames \in Seq(Carried(FrameOf(kind)))
      /\ r.events \in Seq(Carried(EventName))
  BY <1>2 DEF Given
<1>4. proc' \in ProcessOf(kind) BY <1>1, <1>3, WritesTyped
<1>5. cards' \in SUBSET (1..MaxAsks) BY <1>1, <1>3, CardsIn DEF AsksNumbered
<1> DEFINE f == FatesAfter(r)
           left == Unread(ops')
<1>6. /\ f \in [Msg -> Fates] /\ Moves(fate, f)
      /\ Once(Waiting(r.a)) /\ Placed(f, left, In(Waiting(r.a)))
  BY Outcome
<1>7. Waiting(a)' = Waiting(r.a) BY <1>1, WaitingNext
<1>8. Kept' = In(Waiting(r.a)) BY <1>7 DEF Kept, In
<1>9. Once(Waiting(a))' BY <1>6, <1>7 DEF Once
<1>10. OnceUnread(ops)' /\ Unread(ops)' = left BY DEF OnceUnread, Unread
<1> HIDE DEF f, left
<1>11. Placed(fate, Unread(ops), Kept)' BY <1>1, <1>6, <1>8, <1>10 DEF Placed, f
<1>12. Filed' BY <1>9, <1>10, <1>11 DEF Filed
<1> QED BY <1>1, <1>3, <1>4, <1>5, <1>6, <1>12 DEF f

\* A step that leaves the adapter and the ops alone.
LEMMA FiledStays ==
    ASSUME EngineTyped, Filed, kind' = kind, Waiting(a') = Waiting(a), ops' = ops, fate' = fate,
           phase' \in {"tui", "ended"} <=> phase \in {"tui", "ended"}
    PROVE  Filed' /\ Moves(fate, fate')
<1>1. Waiting(a)' = Waiting(a) BY WaitingNext
<1>2. Kept' = Kept BY <1>1 DEF Kept, In
<1>3. Once(Waiting(a))' <=> Once(Waiting(a)) BY <1>1 DEF Once
<1>4. OnceUnread(ops)' /\ Unread(ops)' = Unread(ops) BY DEF Filed, OnceUnread, Unread
<1>5. Moves(fate, fate') BY DEF Moves
<1> QED BY <1>2, <1>3, <1>4, <1>5 DEF Filed, Placed

\* The ops change, and no message with them.
LEMMA FiledOps ==
    ASSUME EngineTyped, Filed, kind' = kind, a' = a, fate' = fate, OnceUnread(ops'),
           Unread(ops') = Unread(ops), phase' \in {"tui", "ended"} <=> phase \in {"tui", "ended"}
    PROVE  Filed' /\ Moves(fate, fate')
<1>1. Waiting(a)' = Waiting(a) BY WaitingNext
<1>2. Kept' = Kept BY <1>1 DEF Kept, In
<1>3. Once(Waiting(a))' <=> Once(Waiting(a)) BY <1>1 DEF Once
<1>4. OnceUnread(ops)' /\ Unread(ops)' = Unread(ops) BY DEF OnceUnread, Unread
<1>5. Moves(fate, fate') BY DEF Moves
<1> QED BY <1>2, <1>3, <1>4, <1>5 DEF Filed, Placed

\* What was left with a process is lost, and nothing else changes.
LEMMA DroppedIs ==
    ASSUME EngineTyped, NEW gone
    PROVE  LET f == Dropped(gone)
           IN  /\ f \in [Msg -> Fates] /\ Moves(fate, f)
               /\ \A m \in Msg : f[m] = "live" <=> fate[m] = "live" /\ m \notin gone
<1> DEFINE f == Dropped(gone)
<1>1. fate \in [Msg -> Fates] BY DEF EngineTyped
<1>2. f = [m \in Msg |-> IF m \in gone /\ fate[m] = "live" THEN "lost" ELSE fate[m]] BY DEF Dropped
<1>3. \A m \in Msg : f[m] = IF m \in gone /\ fate[m] = "live" THEN "lost" ELSE fate[m] BY <1>2
<1>4. f \in [Msg -> Fates] BY <1>1, <1>2 DEF Fates
<1> HIDE DEF f
<1>5. Moves(fate, f) BY <1>3 DEF Moves, Final
<1> QED BY <1>3, <1>4, <1>5 DEF f

\* A new process has a new adapter, which keeps nothing.
LEMMA SpawnIs ==
    ASSUME EngineTyped, kind' = kind, NEW mode \in Mode, NEW resume \in BOOLEAN,
           Spawn(mode, resume)
    PROVE  /\ a' \in StateOf(kind) /\ a'.mode = mode /\ proc' \in ProcessOf(kind)
           /\ up' = TRUE /\ lines' = <<>> /\ Waiting(a)' = <<>>
<1> DEFINE new == Adapter(kind, mode, resume)
<1>1. kind \in Engines BY KindIs
<1>2. /\ new.a \in StateOf(kind) /\ new.a.mode = mode
      /\ [Process(kind) EXCEPT !.in = new.frames] \in ProcessOf(kind)
      /\ Waiting(new.a) = <<>>
  BY <1>1, AdapterTyped
<1>3. a' = new.a /\ proc' = [Process(kind) EXCEPT !.in = new.frames] /\ up' = TRUE /\ lines' = <<>>
  BY DEF Spawn
<1> HIDE DEF new
<1>4. Waiting(a)' = Waiting(a') BY WaitingNext
<1> QED BY <1>2, <1>3, <1>4

-----------------------------------------------------------------------------
\* --- the steps keep each message in its place ---

\* A state is typed by its parts.
LEMMA TypedAs ==
    ASSUME EngineTyped, kind' = kind, a' \in StateOf(kind), proc' \in ProcessOf(kind),
           lines' \in Seq(Asking(LineOf(kind))), ops' \in Seq(AnyOp), phase' \in Phases,
           current' \in Mode, picked' \in Mode, cards' \in SUBSET (1..MaxAsks), up' \in BOOLEAN,
           overlap' \in BOOLEAN, crossed' \in BOOLEAN, restart' \in Mode \cup {"none"},
           pendingMode' \in Mode \cup {"none"}, tui' \in {"none", "ask", "force"},
           fate' \in [Msg -> Fates], sent' \in 0..MaxWork
    PROVE  EngineTyped'
BY DEF EngineTyped, Msg, Mode, Phases, Fates

\* An ops channel that is empty, and one that is read.
LEMMA EmptyOps ==
    <<>> \in Seq(AnyOp) /\ OnceUnread(<<>>) /\ Unread(<<>>) = {}
<1>1. DOMAIN <<>> = {} OBVIOUS
<1>2. <<>> \in Seq(AnyOp) OBVIOUS
<1> QED BY <1>1, <1>2 DEF OnceUnread, Unread

LEMMA HeadOp ==
    ASSUME EngineTyped, ops # <<>>
    PROVE  /\ Head(ops) \in AnyOp /\ Tail(ops) \in Seq(AnyOp)
           /\ Head(ops).op \in {"steer", "interrupt", "unqueue"} => Head(ops).index \in Index
           /\ Head(ops).op = "set_approval_mode" => Head(ops).mode \in Mode
           /\ Head(ops).op = "approve" => Head(ops).calls \in SUBSET (1..MaxAsks)
           /\ Head(ops).op = "tui" => Head(ops).force \in BOOLEAN
           /\ Head(ops).op = "user_message" => Head(ops).m \in Msg
<1>1. Head(ops) \in AnyOp /\ Tail(ops) \in Seq(AnyOp) BY UnreadTail DEF EngineTyped
<1> QED BY <1>1 DEF AnyOp

LEMMA TakenOp ==
    ASSUME EngineTyped, Filed, ops # <<>>, ops' = Tail(ops)
    PROVE  /\ ops' \in Seq(AnyOp) /\ OnceUnread(ops')
           /\ Unread(ops) = Unread(ops') \cup NewIn(Head(ops))
           /\ Unread(ops') \cap NewIn(Head(ops)) = {}
BY UnreadTail DEF EngineTyped, Filed

LEMMA AfterOpIs ==
    ASSUME AfterOp
    PROVE  phase' \in {"ops", "lines"}
BY DEF AfterOp

\* The thread's end loses what is live, and nothing stays anywhere.
LEMMA EndStays ==
    ASSUME EngineTyped, Filed, End
    PROVE  Stays
<1>1. Dropped(Msg) \in [Msg -> Fates] /\ Moves(fate, Dropped(Msg))
      /\ \A m \in Msg : Dropped(Msg)[m] # "live"
  BY DroppedIs
<1>2. kind' = kind /\ phase' = "ended" /\ ops' = <<>> /\ lines' = <<>> /\ fate' = Dropped(Msg)
      /\ up' = FALSE
  BY DEF End
<1>3. <<>> \in Seq(Asking(LineOf(kind))) OBVIOUS
<1>4. EngineTyped'
  BY <1>1, <1>2, <1>3, EmptyOps, TypedAs DEF EngineTyped, End, Phases
<1>5. Kept' = {} BY <1>2 DEF Kept
<1>6. OnceUnread(ops)' /\ Unread(ops)' = {} BY <1>2, EmptyOps DEF OnceUnread, Unread
<1>7. Filed' BY <1>1, <1>2, <1>5, <1>6 DEF Filed, Placed
<1> QED BY <1>1, <1>2, <1>4, <1>7 DEF Stays

\* Clients and the process move no message but the one sent.
LEMMA SendMessageStays ==
    ASSUME EngineTyped, Filed, SendMessage
    PROVE  Stays
<1>1. PICK m \in Msg :
        /\ fate[m] = "unsent" /\ Open
        /\ ops' = Append(ops, [op |-> "user_message", m |-> m])
        /\ fate' = [fate EXCEPT ![m] = "live"]
  BY DEF SendMessage, MaySend
<1> DEFINE op == [op |-> "user_message", m |-> m]
<1>2. op \in AnyOp /\ NewIn(op) = {m} BY DEF AnyOp, NewIn
<1>3. ops' = Append(ops, op) BY <1>1
<1> HIDE DEF op
<1>4. m \notin Unread(ops) \cup Kept BY <1>1 DEF Filed, Placed
<1>5. ops \in Seq(AnyOp) /\ OnceUnread(ops) BY DEF EngineTyped, Filed
<1>6. ops' \in Seq(AnyOp) /\ Unread(ops') = Unread(ops) \cup {m} /\ OnceUnread(ops')
  BY <1>2, <1>3, <1>4, <1>5, UnreadAppend
<1>7. fate \in [Msg -> Fates] BY DEF EngineTyped
<1>8. fate' \in [Msg -> Fates] /\ \A k \in Msg : fate'[k] = IF k = m THEN "live" ELSE fate[k]
  BY <1>1, <1>7 DEF Fates
<1>9. UNCHANGED <<kind, current, phase, a, proc, up, lines, restart, pendingMode, tui, cards,
                   picked, overlap, crossed, sent>>
  BY DEF SendMessage
<1>10. EngineTyped' BY <1>6, <1>8, <1>9, TypedAs DEF EngineTyped
<1>11. Waiting(a)' = Waiting(a) BY <1>9, WaitingNext
<1>12. Kept' = Kept /\ (Once(Waiting(a))' <=> Once(Waiting(a))) BY <1>9, <1>11 DEF Kept, In, Once
<1>13. OnceUnread(ops)' /\ Unread(ops)' = Unread(ops) \cup {m} BY <1>6 DEF OnceUnread, Unread
<1>k. Kept \subseteq Msg /\ Unread(ops) \subseteq Msg
  <2>1. Waiting(a) \in Seq(Msg) BY KindIs
  <2>2. Unread(ops) \subseteq Msg BY <1>5, UnreadMsgs
  <2> QED BY <2>1, <2>2, ToSetIn DEF Kept
<1>14. Filed' BY <1>4, <1>8, <1>9, <1>12, <1>13, <1>k DEF Filed, Placed
<1>15. Moves(fate, fate') BY <1>1, <1>8 DEF Moves
<1> QED BY <1>10, <1>14, <1>15 DEF Stays

LEMMA SentTyped ==
    ASSUME EngineTyped, NEW op, MaySend(op), op.op # "user_message"
    PROVE  sent + Weight(op) \in 0..MaxWork
<1> DEFINE S == {m \in Msg : fate[m] # "unsent"}
<1>1. Cardinality(S) \in Nat
  <2>1. IsFiniteSet(1..MaxMsgs) BY FS_Interval, EngineAssumption
  <2>2. S \subseteq 1..MaxMsgs BY DEF Msg
  <2> QED BY <2>1, <2>2, FS_Subset, FS_CardinalityType
<1>2. sent + Cardinality(S) + Weight(op) <= MaxWork BY DEF MaySend
<1>3. sent \in Nat /\ MaxWork \in Nat BY EngineAssumption DEF EngineTyped
<1>4. Weight(op) \in {1, 2} BY DEF Weight
<1> HIDE DEF S
<1> QED BY <1>1, <1>2, <1>3, <1>4

LEMMA QuietAppend ==
    ASSUME EngineTyped, Filed, NEW op \in AnyOp, NewIn(op) = {}, ops' = Append(ops, op)
    PROVE  ops' \in Seq(AnyOp) /\ Unread(ops') = Unread(ops) /\ OnceUnread(ops')
BY UnreadAppend DEF EngineTyped, Filed

LEMMA SendOpStays ==
    ASSUME EngineTyped, Filed, SendOp
    PROVE  Stays
<1>1. PICK op \in Requests : MaySend(op) /\ ops' = Append(ops, op) /\ sent' = sent + Weight(op)
  BY DEF SendOp
<1>2. op \in AnyOp /\ NewIn(op) = {} /\ op.op # "user_message"
  BY DEF Requests, AnyOp, Index, NewIn
<1>3. ops' \in Seq(AnyOp) /\ Unread(ops') = Unread(ops) /\ OnceUnread(ops')
  BY <1>1, <1>2, QuietAppend
<1>4. sent' \in 0..MaxWork BY <1>1, <1>2, SentTyped
<1>5. UNCHANGED <<kind, current, phase, a, proc, up, lines, restart, pendingMode, tui, cards,
                   fate, picked, overlap, crossed>>
  BY DEF SendOp
<1>6. EngineTyped' BY <1>3, <1>4, <1>5, TypedAs DEF EngineTyped
<1>7. Filed' /\ Moves(fate, fate') BY <1>3, <1>5, FiledOps
<1> QED BY <1>6, <1>7 DEF Stays

LEMMA SendAnswerStays ==
    ASSUME EngineTyped, Filed, SendAnswer
    PROVE  Stays
<1>1. PICK call \in cards : ops' = Append(ops, [op |-> "approve", calls |-> {call}])
  BY DEF SendAnswer
<1> DEFINE op == [op |-> "approve", calls |-> {call}]
<1>2. op \in AnyOp /\ NewIn(op) = {} BY DEF AnyOp, NewIn, EngineTyped
<1>3. ops' = Append(ops, op) BY <1>1
<1> HIDE DEF op
<1>4. ops' \in Seq(AnyOp) /\ Unread(ops') = Unread(ops) /\ OnceUnread(ops')
  BY <1>2, <1>3, QuietAppend
<1>5. UNCHANGED <<kind, current, phase, a, proc, up, lines, restart, pendingMode, tui, cards,
                   fate, picked, overlap, crossed, sent>>
  BY DEF SendAnswer
<1>6. EngineTyped' BY <1>4, <1>5, TypedAs DEF EngineTyped
<1>7. Filed' /\ Moves(fate, fate') BY <1>4, <1>5, FiledOps
<1> QED BY <1>6, <1>7 DEF Stays

LEMMA TuiExitsStays ==
    ASSUME EngineTyped, Filed, TuiExits
    PROVE  Stays
<1> DEFINE op == [op |-> "tui_exit"]
<1>2. op \in AnyOp /\ NewIn(op) = {} BY DEF AnyOp, NewIn
<1>3. ops' = Append(ops, op) BY DEF TuiExits
<1> HIDE DEF op
<1>4. ops' \in Seq(AnyOp) /\ Unread(ops') = Unread(ops) /\ OnceUnread(ops')
  BY <1>2, <1>3, QuietAppend
<1>5. UNCHANGED <<kind, current, phase, a, proc, up, lines, restart, pendingMode, tui, cards,
                   fate, picked, overlap, crossed, sent>>
  BY DEF TuiExits
<1>6. EngineTyped' BY <1>4, <1>5, TypedAs DEF EngineTyped
<1>7. Filed' /\ Moves(fate, fate') BY <1>4, <1>5, FiledOps
<1> QED BY <1>6, <1>7 DEF Stays

LEMMA ProcessStays ==
    ASSUME EngineTyped, Filed, ProcessRuns \/ ProcessDies \/ SteerDeadline
    PROVE  Stays
<1>0. kind \in Engines BY KindIs
<1>1. CASE ProcessRuns
  <2>1. PICK s \in ProcessSteps : proc' = s.e /\ lines' = lines \o s.lines BY <1>1 DEF ProcessRuns
  <2>2. proc' \in ProcessOf(kind) /\ s.lines \in Seq(Asking(LineOf(kind)))
    BY <1>0, <2>1, StepsTyped DEF EngineTyped
  <2>3. lines' \in Seq(Asking(LineOf(kind)))
    BY <2>1, <2>2, ConcatOnce DEF EngineTyped
  <2>4. UNCHANGED <<kind, current, ops, phase, a, up, restart, pendingMode, tui, cards, fate,
                   picked, overlap, crossed, sent>>
    BY <1>1 DEF ProcessRuns
  <2>5. EngineTyped' BY <2>2, <2>3, <2>4, TypedAs DEF EngineTyped
  <2>6. Filed' /\ Moves(fate, fate') BY <2>4, FiledStays
  <2> QED BY <2>5, <2>6 DEF Stays
<1>2. CASE ProcessDies
  <2>4. UNCHANGED <<kind, current, ops, phase, a, proc, lines, restart, pendingMode, tui, cards,
                   fate, picked, overlap, crossed, sent>> /\ up' = FALSE
    BY <1>2 DEF ProcessDies
  <2>5. EngineTyped' BY <2>4, TypedAs DEF EngineTyped
  <2>6. Filed' /\ Moves(fate, fate') BY <2>4, FiledStays
  <2> QED BY <2>5, <2>6 DEF Stays
<1>3. CASE SteerDeadline
  <2>1. kind = "claude" /\ a' = [a EXCEPT !.steering.late = TRUE] BY <1>3 DEF SteerDeadline
  <2>2. a \in ClaudeState BY <2>1 DEF EngineTyped, StateOf
  <2>3. a' \in ClaudeState /\ a'.held = a.held /\ a'.steering.frames = a.steering.frames
    BY <2>1, <2>2 DEF ClaudeState
  <2>4. UNCHANGED <<kind, current, ops, phase, proc, up, lines, restart, pendingMode, tui, cards,
                   fate, picked, overlap, crossed, sent>>
    BY <1>3 DEF SteerDeadline
  <2>5. a' \in StateOf(kind) BY <2>1, <2>3 DEF StateOf
  <2>6. Waiting(a') = Waiting(a)
    <3>1. \A b : Waiting(b) = b.steering.frames \o b.held BY <2>1 DEF Waiting, Claude!Waiting
    <3> QED BY <2>3, <3>1
  <2>7. EngineTyped' BY <2>4, <2>5, TypedAs DEF EngineTyped
  <2>8. Filed' /\ Moves(fate, fate') BY <2>4, <2>6, FiledStays
  <2> QED BY <2>7, <2>8 DEF Stays
<1> QED BY <1>1, <1>2, <1>3

LEMMA CrossedTyped ==
    ASSUME EngineTyped, Took
    PROVE  crossed' \in BOOLEAN
BY DEF Took, EngineTyped

\* The thread's ops move what they say.
LEMMA TakeOtherStays ==
    ASSUME EngineTyped, Filed, TakeTui \/ TakeGateway
    PROVE  Stays
<1>0. kind \in Engines /\ a.mode \in Mode
  BY KindIs DEF EngineTyped, StateOf, Engines, ClaudeState, CodexState, AcpState
<1>1. ops # <<>> /\ phase = "ops" /\ Took /\ AfterOp /\ Head(ops).op \in {"tui", "set_gateway"}
  BY DEF TakeTui, TakeGateway, NextOp
<1>2. ops' = Tail(ops) /\ UNCHANGED <<kind, current, up, lines, sent>> /\ crossed' \in BOOLEAN
  BY <1>1, CrossedTyped DEF Took
<1>3. NewIn(Head(ops)) = {} BY <1>1 DEF NewIn
<1>4. ops' \in Seq(AnyOp) /\ OnceUnread(ops') /\ Unread(ops') = Unread(ops)
  BY <1>1, <1>2, <1>3, TakenOp
<1>5. phase' \in {"ops", "lines"} BY <1>1, AfterOpIs
<1>6. UNCHANGED <<a, proc, cards, fate, picked, pendingMode>> BY DEF TakeTui, TakeGateway
<1>7. tui' \in {"none", "ask", "force"} /\ restart' \in Mode \cup {"none"} /\ overlap' \in BOOLEAN
  BY <1>0 DEF TakeTui, TakeGateway, EngineTyped
<1>8. EngineTyped'
  BY <1>2, <1>4, <1>5, <1>6, <1>7, TypedAs DEF EngineTyped, Phases
<1>9. Filed' /\ Moves(fate, fate') BY <1>1, <1>2, <1>4, <1>5, <1>6, FiledOps
<1> QED BY <1>8, <1>9 DEF Stays

LEMMA ModeOutcome ==
    ASSUME EngineTyped, Filed, TakeMode
    PROVE  \E r : \E shown \in SUBSET (1..MaxAsks) :
              Gives(a, r, {}) /\ AsksNumbered(r.events) /\ Publish(r, shown)
<1> DEFINE op == Head(ops)
           restarts == RestartFor(a, op)
           allowed == AllowOpen(op.mode)
<1>1. kind \in Engines /\ a \in StateOf(kind) /\ cards \in SUBSET (1..MaxAsks)
  BY KindIs DEF EngineTyped
<1>2. op \in AnyOp /\ NewIn(op) = {} /\ op.mode \in Mode
  BY HeadOp DEF TakeMode, NextOp, NewIn
<1>3. Gives(a, Nothing, {}) BY <1>1, QuietGives DEF Nothing
<1>4. AsksNumbered(Nothing.events)
  <2>1. DOMAIN <<>> = {} OBVIOUS
  <2> QED BY <2>1 DEF Nothing, AsksNumbered
<1>5. Nothing \in Given(kind) BY <1>3 DEF Gives
<1>6. Gives(a, allowed, {}) /\ AsksNumbered(allowed.events)
  <2>1. Gives(a, Allowed(Nothing, cards), {}) BY <1>1, <1>3, AllowedGives
  <2>2. AsksNumbered(Allowed(Nothing, cards).events) BY <1>1, <1>4, <1>5, AllowedAsks
  <2> QED BY <1>3, <1>4, <2>1, <2>2 DEF AllowOpen
<1>7. allowed.a \in StateOf(kind) /\ allowed.events \in Seq(Carried(EventName))
  BY <1>6 DEF Gives, Given
<1>8. StillShown(op.mode) \in SUBSET (1..MaxAsks) BY <1>1 DEF StillShown
<1>9. Gives(a, Encode(a, op), {}) /\ AsksNumbered(Encode(a, op).events)
  BY <1>1, <1>2, EncodeGives, EncodeAsks
<1> DEFINE next == Encode(allowed.a, op)
<1>10. Gives(allowed.a, next, {}) /\ AsksNumbered(next.events)
  <2> HIDE DEF op, allowed
  <2> QED BY <1>1, <1>2, <1>7, EncodeGives, EncodeAsks
<1>11. Gives(a, Then(allowed, next), {}) /\ AsksNumbered(Then(allowed, next).events)
  <2> HIDE DEF op, allowed, next
  <2>1. next.events \in Seq(Carried(EventName)) BY <1>10 DEF Gives, Given
  <2>2. AsksNumbered(allowed.events \o next.events) BY <1>6, <1>7, <1>10, <2>1, AsksThen
  <2> QED BY <1>1, <1>6, <1>10, <2>2, ThenGives DEF Then
<1>12. \/ Publish(IF restarts THEN allowed ELSE Then(allowed, next), StillShown(op.mode))
       \/ Publish(IF restarts THEN Nothing ELSE Encode(a, op), cards)
  BY DEF TakeMode
<1> HIDE DEF op, allowed, next, restarts
<1>13. CASE Publish(IF restarts THEN allowed ELSE Then(allowed, next), StillShown(op.mode))
  <2> DEFINE q == IF restarts THEN allowed ELSE Then(allowed, next)
             shown == StillShown(op.mode)
  <2>1. Gives(a, q, {}) /\ AsksNumbered(q.events) BY <1>6, <1>11
  <2>2. Publish(q, shown) /\ shown \in SUBSET (1..MaxAsks) BY <1>8, <1>13
  <2> HIDE DEF q, shown
  <2> QED BY <2>1, <2>2
<1>14. CASE Publish(IF restarts THEN Nothing ELSE Encode(a, op), cards)
  <2> DEFINE q == IF restarts THEN Nothing ELSE Encode(a, op)
  <2>1. Gives(a, q, {}) /\ AsksNumbered(q.events) BY <1>3, <1>4, <1>9
  <2>2. Publish(q, cards) BY <1>14
  <2> HIDE DEF q
  <2> QED BY <1>1, <2>1, <2>2
<1> QED BY <1>12, <1>13, <1>14

LEMMA TakeModeStays ==
    ASSUME EngineTyped, Filed, TakeMode
    PROVE  Stays
<1>1. ops # <<>> /\ phase = "ops" /\ Took /\ AfterOp /\ Head(ops).op = "set_approval_mode"
  BY DEF TakeMode, NextOp
<1>2. ops' = Tail(ops) /\ UNCHANGED <<kind, current, up, lines, sent>> /\ crossed' \in BOOLEAN
  BY <1>1, CrossedTyped DEF Took
<1>3. NewIn(Head(ops)) = {} /\ Head(ops).mode \in Mode BY <1>1, HeadOp DEF NewIn
<1>4. ops' \in Seq(AnyOp) /\ OnceUnread(ops') /\ Unread(ops) = Unread(ops') \cup {}
  BY <1>1, <1>2, <1>3, TakenOp
<1>5. phase' \in {"ops", "lines"} BY <1>1, AfterOpIs
<1>6. PICK r : \E shown \in SUBSET (1..MaxAsks) :
        Gives(a, r, {}) /\ AsksNumbered(r.events) /\ Publish(r, shown)
  BY ModeOutcome
<1>p. PICK shown \in SUBSET (1..MaxAsks) :
        Gives(a, r, {}) /\ AsksNumbered(r.events) /\ Publish(r, shown)
  BY <1>6
<1>7. /\ a' \in StateOf(kind) /\ proc' \in ProcessOf(kind) /\ cards' \in SUBSET (1..MaxAsks)
      /\ fate' \in [Msg -> Fates] /\ Filed' /\ Moves(fate, fate')
  <2>1. Unread(ops') \cap {} = {} /\ phase \in {"ops", "lines"} /\ kind' = kind BY <1>1, <1>2
  <2> QED BY <1>4, <1>5, <1>p, <2>1, Published
<1>8. restart' \in Mode \cup {"none"} /\ picked' \in Mode /\ overlap' \in BOOLEAN /\ tui' = tui
      /\ pendingMode' \in Mode \cup {"none"}
  BY <1>3 DEF TakeMode, EngineTyped
<1>9. EngineTyped'
  BY <1>2, <1>4, <1>5, <1>7, <1>8, TypedAs DEF EngineTyped, Phases
<1> QED BY <1>7, <1>9 DEF Stays

LEMMA TakeEncodedStays ==
    ASSUME EngineTyped, Filed, TakeEncoded
    PROVE  Stays
<1> DEFINE op == Head(ops)
           r == Encode(a, op)
           shown == IF op.op = "approve" THEN cards \ op.calls ELSE cards
<1>1. ops # <<>> /\ phase = "ops" /\ Took /\ AfterOp /\ Publish(r, shown)
      /\ UNCHANGED <<restart, pendingMode, tui, picked, overlap>>
  BY DEF TakeEncoded, NextOp
<1>2. ops' = Tail(ops) /\ UNCHANGED <<kind, current, up, lines, sent>> /\ crossed' \in BOOLEAN
  BY <1>1, CrossedTyped DEF Took
<1>4. ops' \in Seq(AnyOp) /\ OnceUnread(ops') /\ Unread(ops) = Unread(ops') \cup NewIn(op)
      /\ Unread(ops') \cap NewIn(op) = {}
  BY <1>1, <1>2, TakenOp
<1>5. phase' \in {"ops", "lines"} BY <1>1, AfterOpIs
<1>6. kind \in Engines /\ a \in StateOf(kind) /\ op \in AnyOp /\ shown \in SUBSET (1..MaxAsks)
  BY <1>1, KindIs, HeadOp DEF EngineTyped
<1> HIDE DEF op, shown
<1>7. Gives(a, r, NewIn(op)) /\ AsksNumbered(r.events) BY <1>6, EncodeGives, EncodeAsks
<1> HIDE DEF r
<1>8. /\ a' \in StateOf(kind) /\ proc' \in ProcessOf(kind) /\ cards' \in SUBSET (1..MaxAsks)
      /\ fate' \in [Msg -> Fates] /\ Filed' /\ Moves(fate, fate')
  <2>1. phase \in {"ops", "lines"} /\ kind' = kind BY <1>1, <1>2
  <2> QED BY <1>1, <1>4, <1>5, <1>6, <1>7, <2>1, Published
<1>9. EngineTyped'
  BY <1>1, <1>2, <1>4, <1>5, <1>8, TypedAs DEF EngineTyped, Phases
<1> QED BY <1>8, <1>9 DEF Stays

\* So does a line, ...
LEMMA TakeLineStays ==
    ASSUME EngineTyped, Filed, TakeLine
    PROVE  Stays
<1> DEFINE r == AllowWhileOpening(Translate(a, Head(lines)))
<1>1. lines # <<>> /\ phase = "lines" /\ Publish(r, cards) /\ lines' = Tail(lines)
      /\ UNCHANGED <<kind, current, ops, phase, up, restart, pendingMode, tui, picked, overlap,
                   crossed, sent>>
  BY DEF TakeLine
<1>2. Head(lines) \in Asking(LineOf(kind)) /\ lines' \in Seq(Asking(LineOf(kind)))
  BY <1>1, TailParts DEF EngineTyped
<1>3. kind \in Engines /\ a \in StateOf(kind) /\ cards \in SUBSET (1..MaxAsks)
  BY KindIs DEF EngineTyped
<1>4. Gives(a, r, {}) /\ AsksNumbered(r.events) BY <1>2, <1>3, OpeningGives, OpeningAsks
<1> HIDE DEF r
<1>5. OnceUnread(ops') /\ Unread(ops) = Unread(ops') \cup {} /\ Unread(ops') \cap {} = {}
  BY <1>1 DEF Filed
<1>6. /\ a' \in StateOf(kind) /\ proc' \in ProcessOf(kind) /\ cards' \in SUBSET (1..MaxAsks)
      /\ fate' \in [Msg -> Fates] /\ Filed' /\ Moves(fate, fate')
  <2>1. phase \in {"ops", "lines"} /\ phase' \in {"ops", "lines"} /\ kind' = kind BY <1>1
  <2> QED BY <1>1, <1>3, <1>4, <1>5, <2>1, Published
<1>7. EngineTyped' BY <1>1, <1>2, <1>6, TypedAs DEF EngineTyped
<1> QED BY <1>6, <1>7 DEF Stays

\* ... a look at what waits for the turn's end, ...
LEMMA MovesOnStays ==
    ASSUME EngineTyped, Filed, NoMoreOps \/ GoOn \/ RefuseTui
    PROVE  Stays
<1>1. UNCHANGED <<kind, current, ops, a, proc, up, lines, restart, cards, fate, picked,
                   overlap, crossed, sent>>
  BY DEF NoMoreOps, GoOn, RefuseTui
<1>2. phase \in {"ops", "lines", "surface"} /\ phase' \in {"ops", "lines", "surface"}
  BY DEF NoMoreOps, GoOn, RefuseTui, NoMoreLines, AfterLines
<1>3. tui' \in {"none", "ask", "force"} /\ pendingMode' \in Mode \cup {"none"}
  BY DEF NoMoreOps, GoOn, RefuseTui, EngineTyped
<1>4. EngineTyped' BY <1>1, <1>2, <1>3, TypedAs DEF EngineTyped, Phases
<1>5. Filed' /\ Moves(fate, fate') BY <1>1, <1>2, FiledStays
<1> QED BY <1>4, <1>5 DEF Stays

\* The adapter goes, with what it kept.
LEMMA KeptGoes ==
    ASSUME EngineTyped, Filed, phase \notin {"tui", "ended"}, ops' = ops,
           fate' = Dropped(ToSet(Waiting(a))), Kept' = {},
           phase' \notin {"tui", "ended"} => Waiting(a)' = <<>>
    PROVE  Filed' /\ Moves(fate, fate') /\ fate' \in [Msg -> Fates]
<1> DEFINE w == Waiting(a)
<1>1. ToSet(w) = In(w)
  <2>1. w \in Seq(Msg) BY KindIs
  <2> QED BY <2>1, ToSetIn
<1>2. Dropped(ToSet(w)) \in [Msg -> Fates] /\ Moves(fate, Dropped(ToSet(w)))
      /\ \A m \in Msg : Dropped(ToSet(w))[m] = "live" <=> fate[m] = "live" /\ m \notin ToSet(w)
  BY DroppedIs
<1>3. Kept = In(w) BY DEF Kept
<1>4. OnceUnread(ops)' /\ Unread(ops)' = Unread(ops) BY DEF Filed, OnceUnread, Unread
<1>5. ASSUME phase' \notin {"tui", "ended"} PROVE Once(Waiting(a))'
  <2>1. Waiting(a)' = <<>> BY <1>5
  <2>2. Once(<<>>) BY EmptyOnce
  <2> QED BY <2>1, <2>2 DEF Once
<1> HIDE DEF w
<1>k. Unread(ops) \subseteq Msg BY UnreadMsgs DEF EngineTyped
<1>6. \A m \in Msg : fate'[m] = "live" <=> m \in Unread(ops)
  BY <1>1, <1>2, <1>3, <1>k DEF Filed, Placed, w
<1>7. Filed' BY <1>4, <1>5, <1>6, <1>k DEF Filed, Placed
<1> QED BY <1>2, <1>7 DEF w

\* ... a restart, which loses what the old process had, ...
LEMMA RestartStays ==
    ASSUME EngineTyped, Filed, Restart
    PROVE  Stays
<1>1. Spawn(restart, Conversation(a)) /\ restart \in Mode /\ phase = "lines"
      /\ current' = restart /\ fate' = Dropped(ToSet(Waiting(a))) /\ restart' = "none"
      /\ pendingMode' = "none" /\ UNCHANGED <<kind, ops, tui, cards, picked, overlap, crossed, sent>>
  BY DEF Restart, NoMoreLines, EngineTyped
<1>2. phase' \in {"ops", "surface"} BY DEF Restart, AfterLines
<1>3. Conversation(a) \in BOOLEAN BY ConversationIs
<1>4. /\ a' \in StateOf(kind) /\ proc' \in ProcessOf(kind) /\ up' = TRUE /\ lines' = <<>>
      /\ Waiting(a)' = <<>>
  BY <1>1, <1>3, SpawnIs
<1>5. Kept' = {}
  <2>1. In(<<>>) = {} BY EmptyOnce
  <2> QED BY <1>4, <2>1 DEF Kept, In
<1>6. Filed' /\ Moves(fate, fate') /\ fate' \in [Msg -> Fates] BY <1>1, <1>4, <1>5, KeptGoes
<1>7. lines' \in Seq(Asking(LineOf(kind))) BY <1>4
<1>8. EngineTyped' BY <1>1, <1>2, <1>4, <1>6, <1>7, TypedAs DEF EngineTyped, Phases
<1> QED BY <1>6, <1>8 DEF Stays

LEMMA BackIs ==
    ASSUME EngineTyped, Back, kind' = kind
    PROVE  /\ a' \in StateOf(kind) /\ a'.mode = current /\ proc' \in ProcessOf(kind) /\ up' = TRUE
           /\ lines' = <<>> /\ Waiting(a)' = <<>> /\ phase' = "ops" /\ Kept' = {}
<1>1. PICK saved \in BOOLEAN : Spawn(current, saved) BY DEF Back
<1>2. /\ a' \in StateOf(kind) /\ a'.mode = current /\ proc' \in ProcessOf(kind) /\ up' = TRUE
      /\ lines' = <<>> /\ Waiting(a)' = <<>>
  <2>1. current \in Mode BY DEF EngineTyped
  <2> QED BY <1>1, <2>1, SpawnIs
<1>3. Kept' = {}
  <2>1. In(<<>>) = {} BY EmptyOnce
  <2> QED BY <1>2, <2>1 DEF Kept, In
<1> QED BY <1>2, <1>3 DEF Back

\* ... and the TUI's opening, its ops and its exit.
LEMMA OpenTuiStays ==
    ASSUME EngineTyped, Filed, OpenTui \/ OpenTuiFails
    PROVE  Stays
<1>1. phase = "surface" /\ tui' = "none" /\ overlap' \in BOOLEAN
      /\ fate' = Dropped(ToSet(Waiting(a)))
  BY DEF OpenTui, OpenTuiFails, MayOpenTui, EngineTyped
<1>2. CASE OpenTui
  <2>1. UNCHANGED <<kind, current, ops, a, proc, up, lines, restart, pendingMode, cards,
                   picked, crossed, sent>> /\ phase' = "tui"
    BY <1>2 DEF OpenTui
  <2>2. Kept' = {} BY <2>1 DEF Kept
  <2>3. Filed' /\ Moves(fate, fate') /\ fate' \in [Msg -> Fates] BY <1>1, <2>1, <2>2, KeptGoes
  <2>4. EngineTyped' BY <1>1, <2>1, <2>3, TypedAs DEF EngineTyped, Phases
  <2> QED BY <2>3, <2>4 DEF Stays
<1>3. CASE OpenTuiFails
  <2>1. UNCHANGED <<kind, current, ops, restart, pendingMode, cards, picked, crossed, sent>>
        /\ Back
    BY <1>3 DEF OpenTuiFails
  <2>2. /\ a' \in StateOf(kind) /\ proc' \in ProcessOf(kind) /\ up' = TRUE
        /\ lines' = <<>> /\ Waiting(a)' = <<>> /\ phase' = "ops" /\ Kept' = {}
    BY <2>1, BackIs
  <2>3. Filed' /\ Moves(fate, fate') /\ fate' \in [Msg -> Fates] BY <1>1, <2>1, <2>2, KeptGoes
  <2>4. lines' \in Seq(Asking(LineOf(kind))) /\ picked' \in Mode BY <2>1, <2>2 DEF EngineTyped
  <2>5. EngineTyped' BY <1>1, <2>1, <2>2, <2>3, <2>4, TypedAs DEF EngineTyped, Phases
  <2> QED BY <2>3, <2>5 DEF Stays
<1> QED BY <1>2, <1>3

LEMMA TakeInTuiStays ==
    ASSUME EngineTyped, Filed, TakeInTui
    PROVE  Stays
<1> DEFINE op == Head(ops)
           events == IF op.op = "user_message" THEN <<[t |-> "refused", ms |-> <<op.m>>]>> ELSE <<>>
           g == NewIn(op)
<1>1. phase = "tui" /\ ops # <<>> /\ fate' = Settled(<<>>, events) /\ ops' = Tail(ops)
      /\ UNCHANGED <<kind, current, phase, a, proc, up, lines, restart, pendingMode, tui, cards,
                   picked, overlap, crossed, sent>>
  BY DEF TakeInTui
<1>2. ops' \in Seq(AnyOp) /\ OnceUnread(ops') /\ Unread(ops) = Unread(ops') \cup g
      /\ Unread(ops') \cap g = {}
  BY <1>1, TakenOp
<1>3. \A T : MsgsOf(events, T) = IF "refused" \in T THEN g ELSE {}
  <2> SUFFICES ASSUME NEW T PROVE MsgsOf(events, T) = IF "refused" \in T THEN g ELSE {} OBVIOUS
  <2>1. CASE op.op = "user_message"
    <3> DEFINE x == [t |-> "refused", ms |-> <<op.m>>]
    <3>1. x.t = "refused" /\ x.ms = <<op.m>> /\ events = <<x>> BY <2>1
    <3>2. ToSet(<<op.m>>) = {op.m}
      <4>1. op.m \in Msg BY <1>1, <2>1, HeadOp
      <4>2. <<op.m>> \in Seq(Msg) /\ In(<<op.m>>) = {op.m} BY <4>1, OneOnce
      <4> QED BY <4>2, ToSetIn
    <3>3. g = {op.m} BY <2>1 DEF NewIn
    <3> HIDE DEF x, events, g
    <3> QED BY <3>1, <3>2, <3>3, MsgsOne
  <2>2. CASE op.op # "user_message"
    <3>1. events = <<>> /\ g = {} BY <2>2 DEF NewIn
    <3> QED BY <3>1, MsgsEmpty
  <2> QED BY <2>1, <2>2
<1>4. <<>> \o events = events
  <2>1. \A x : <<>> \o <<x>> = <<x>> OBVIOUS
  <2>2. <<>> \o <<>> = <<>> OBVIOUS
  <2> QED BY <2>1, <2>2
<1>5. g \subseteq Msg /\ \A m \in g : fate[m] = "live"
  <2>1. Unread(ops) \subseteq Msg BY UnreadMsgs DEF EngineTyped
  <2> QED BY <1>2, <2>1 DEF Filed, Placed
<1> HIDE DEF events, g, op
<1> DEFINE f == Settled(<<>>, events)
<1>6. \A m \in Msg : f[m] = IF m \in g THEN "refused" ELSE fate[m]
  <2>1. MsgsOf(<<>> \o events, Handed) = {} /\ MsgsOf(events, {"unqueued"}) = {}
        /\ MsgsOf(events, {"refused"}) = g /\ MsgsOf(events, {"dropped"}) = {}
    BY <1>3, <1>4 DEF Handed
  <2> QED BY <1>5, <2>1 DEF Settled
<1>7. fate \in [Msg -> Fates] BY DEF EngineTyped
<1>8. f = [m \in Msg |-> IF m \in g THEN "refused" ELSE fate[m]]
  <2>1. f = [m \in Msg |-> f[m]] BY DEF Settled
  <2> HIDE DEF f
  <2> QED BY <1>6, <2>1
<1>9. f \in [Msg -> Fates] /\ Moves(fate, f) BY <1>5, <1>7, <1>8 DEF Fates, Moves, Final
<1>10. Kept' = {} /\ Kept = {} BY <1>1 DEF Kept
<1>11. OnceUnread(ops)' /\ Unread(ops)' = Unread(ops') BY <1>2 DEF OnceUnread, Unread
<1>k. Unread(ops') \subseteq Msg BY <1>2, UnreadMsgs
<1>12. \A m \in Msg : f[m] = "live" <=> m \in Unread(ops') BY <1>2, <1>8, <1>10, <1>k DEF Filed, Placed
<1>13. Filed' BY <1>1, <1>10, <1>11, <1>12, <1>2, <1>k DEF Filed, Placed
<1>14. EngineTyped' BY <1>1, <1>2, <1>9, TypedAs DEF EngineTyped
<1> QED BY <1>1, <1>9, <1>13, <1>14 DEF Stays

LEMMA TuiExitStays ==
    ASSUME EngineTyped, Filed, TakeTuiExit
    PROVE  Stays
<1>1. ops # <<>> /\ phase = "tui" /\ Back /\ Head(ops).op = "tui_exit" /\ ops' = Tail(ops)
      /\ UNCHANGED <<kind, current, restart, pendingMode, tui, cards, fate, picked, overlap,
                     crossed, sent>>
  BY DEF TakeTuiExit
<1>2. /\ a' \in StateOf(kind) /\ proc' \in ProcessOf(kind) /\ up' = TRUE
      /\ lines' = <<>> /\ Waiting(a)' = <<>> /\ phase' = "ops" /\ Kept' = {}
  BY <1>1, BackIs
<1>3. NewIn(Head(ops)) = {} BY <1>1 DEF NewIn
<1>4. ops' \in Seq(AnyOp) /\ OnceUnread(ops') /\ Unread(ops') = Unread(ops)
  BY <1>1, <1>3, TakenOp
<1>5. lines' \in Seq(Asking(LineOf(kind))) /\ picked' \in Mode BY <1>1, <1>2 DEF EngineTyped
<1>6. EngineTyped' BY <1>1, <1>2, <1>4, <1>5, TypedAs DEF EngineTyped, Phases
<1>7. Kept = {} BY <1>1 DEF Kept
<1>8. Once(Waiting(a))'
  <2>1. Once(<<>>) BY EmptyOnce
  <2> QED BY <1>2, <2>1 DEF Once
<1>9. OnceUnread(ops)' /\ Unread(ops)' = Unread(ops) BY <1>4 DEF OnceUnread, Unread
<1>10. Filed' BY <1>1, <1>2, <1>7, <1>8, <1>9 DEF Filed, Placed
<1>11. Moves(fate, fate') BY <1>1 DEF Moves
<1> QED BY <1>6, <1>10, <1>11 DEF Stays

\* Every step keeps each message in its place, and settles it once.
LEMMA EngineStep ==
    ASSUME EngineTyped, Filed, [EngineNext]_engineVars
    PROVE  Stays
<1>1. CASE UNCHANGED engineVars
  <2>1. EngineTyped' BY <1>1, TypedAs DEF engineVars, EngineTyped
  <2>2. Filed' /\ Moves(fate, fate') BY <1>1, FiledStays DEF engineVars
  <2> QED BY <2>1, <2>2 DEF Stays
<1>2. CASE TakeShutdown \/ TakeExit \/ RestartFails \/ CloseTui
  BY <1>2, EndStays DEF TakeShutdown, TakeExit, RestartFails, CloseTui
<1> QED
  BY <1>1, <1>2, SendMessageStays, SendOpStays, SendAnswerStays, TuiExitsStays, ProcessStays,
     TakeOtherStays, TakeModeStays, TakeEncodedStays, TakeLineStays, MovesOnStays, RestartStays,
     OpenTuiStays, TakeInTuiStays, TuiExitStays
  DEF EngineNext, Thread

-----------------------------------------------------------------------------
\* --- the theorems on messages ---

\* No message is sent yet.
LEMMA EngineStarts ==
    ASSUME EngineInit
    PROVE  EngineTyped /\ Filed
<1>1. PICK k \in Kinds, resume \in BOOLEAN :
        LET adapter == Adapter(k, "ask", resume)
        IN  /\ kind = k
            /\ k # "acp" => ~resume
            /\ a = adapter.a
            /\ proc = [Process(k) EXCEPT !.in = adapter.frames]
            /\ up = TRUE
            /\ lines = <<>>
            /\ ops = <<>>
            /\ phase = "ops"
            /\ current = "ask"
            /\ restart = "none"
            /\ pendingMode = "none"
            /\ tui = "none"
            /\ cards = {}
            /\ fate = [m \in Msg |-> "unsent"]
            /\ picked = "ask"
            /\ overlap = FALSE
            /\ crossed = FALSE
            /\ sent = 0
  BY DEF EngineInit
<1> DEFINE new == Adapter(k, "ask", resume)
<1>2. k \in Engines /\ "ask" \in Mode BY EngineAssumption DEF Engines, Mode
<1>3. /\ new.a \in StateOf(k) /\ new.a.mode = "ask"
      /\ [Process(k) EXCEPT !.in = new.frames] \in ProcessOf(k)
      /\ kind = k => Waiting(new.a) = <<>>
  BY <1>2, AdapterTyped
<1>4. a = new.a /\ proc = [Process(k) EXCEPT !.in = new.frames] /\ kind = k BY <1>1
<1> HIDE DEF new
<1>5. a \in StateOf(kind) /\ proc \in ProcessOf(kind) /\ Waiting(a) = <<>> BY <1>3, <1>4
<1>6. <<>> \in Seq(Asking(LineOf(kind))) OBVIOUS
<1>7. 0 \in 0..MaxWork BY EngineAssumption
<1>8. EngineTyped BY <1>1, <1>2, <1>5, <1>6, <1>7, EmptyOps DEF EngineTyped, Phases, Fates
<1>9. Kept = {}
  <2>1. In(<<>>) = {} BY EmptyOnce
  <2> QED BY <1>5, <2>1 DEF Kept
<1>10. Once(Waiting(a))
  <2>1. Once(<<>>) BY EmptyOnce
  <2> QED BY <1>5, <2>1
<1>11. Filed BY <1>1, <1>9, <1>10, EmptyOps DEF Filed, Placed
<1> QED BY <1>8, <1>11

\* What the invariant says of types, places and fates.
LEMMA TypedSaysOK ==
    ASSUME EngineTyped
    PROVE  EngineTypeOK
<1>1. kind \in Engines /\ a \in StateOf(kind) BY KindIs DEF EngineTyped
<1>2. CASE kind = "claude"
  <2>1. a \in ClaudeState BY <1>1, <1>2 DEF StateOf
  <2>2. Claude!AdapterOK(a, Msg) BY <2>1 DEF Claude!AdapterOK, ClaudeState
  <2>3. a.mode \in Mode /\ a.approvals \subseteq 1..MaxAsks BY <2>1 DEF ClaudeState
  <2> QED BY <1>2, <2>2, <2>3 DEF EngineTyped, EngineTypeOK, Phases, Fates
<1>3. CASE kind = "codex"
  <2>1. a \in CodexState BY <1>1, <1>3 DEF StateOf
  <2>2. Codex!AdapterOK(a, Msg) BY <2>1 DEF Codex!AdapterOK, CodexState
  <2>3. a.mode \in Mode /\ a.approvals \subseteq 1..MaxAsks BY <2>1 DEF CodexState
  <2> QED BY <1>3, <2>2, <2>3 DEF EngineTyped, EngineTypeOK, Phases, Fates
<1>4. CASE kind = "acp"
  <2>1. a \in AcpState BY <1>1, <1>4 DEF StateOf
  <2>2. Acp!AdapterOK(a, Msg) BY <2>1 DEF Acp!AdapterOK, AcpState
  <2>3. a.mode \in Mode /\ a.approvals \subseteq 1..MaxAsks BY <2>1 DEF AcpState
  <2> QED BY <1>4, <2>2, <2>3 DEF EngineTyped, EngineTypeOK, Phases, Fates
<1> QED BY <1>1, <1>2, <1>3, <1>4 DEF Engines

LEMMA FiledSaysOnce ==
    ASSUME EngineTyped, Filed
    PROVE  EachInOnePlace
<1> SUFFICES ASSUME NEW m \in Msg, fate[m] # "muddled"
             PROVE  Places(m) = IF fate[m] = "live" THEN 1 ELSE 0
  BY DEF EachInOnePlace
<1> DEFINE w == Waiting(a)
           A == {i \in DOMAIN ops : ops[i].op = "user_message" /\ ops[i].m = m}
           B == {i \in DOMAIN w : w[i] = m}
           open == phase \notin {"tui", "ended"}
<1>1. Places(m) = Cardinality(A) + IF open THEN Cardinality(B) ELSE 0 BY DEF Places
<1>2. Cardinality(A) = IF m \in Unread(ops) THEN 1 ELSE 0
  <2>1. CASE m \in Unread(ops)
    <3>1. PICK i \in DOMAIN ops : ops[i].op = "user_message" /\ ops[i].m = m BY <2>1, UnreadIs
    <3>2. A = {i} BY <3>1 DEF Filed, OnceUnread
    <3> QED BY <2>1, <3>2, FS_Singleton
  <2>2. CASE m \notin Unread(ops)
    <3>1. A = {} BY <2>2, UnreadIs
    <3> QED BY <2>2, <3>1, FS_EmptySet
  <2> QED BY <2>1, <2>2
<1>3. ASSUME open PROVE Cardinality(B) = IF m \in In(w) THEN 1 ELSE 0
  <2>0. w \in Seq(Msg) BY KindIs
  <2>1. DOMAIN w = 1..Len(w) BY <2>0
  <2>2. Once(w) BY <1>3 DEF Filed
  <2>3. CASE m \in In(w)
    <3>1. PICK i \in DOMAIN w : w[i] = m BY <2>1, <2>3 DEF In
    <3>2. B = {i} BY <2>1, <2>2, <3>1 DEF Once
    <3> QED BY <2>3, <3>2, FS_Singleton
  <2>4. CASE m \notin In(w)
    <3>1. B = {} BY <2>1, <2>4 DEF In
    <3> QED BY <2>4, <3>1, FS_EmptySet
  <2> QED BY <2>3, <2>4
<1>4. Kept = IF open THEN In(w) ELSE {} BY DEF Kept
<1>5. Unread(ops) \cap Kept = {} /\ (fate[m] = "live" <=> m \in Unread(ops) \cup Kept)
  BY DEF Filed, Placed
<1> HIDE DEF A, B, w, open
<1> QED BY <1>1, <1>2, <1>3, <1>4, <1>5

\* A step that moves messages as it may is one of MessageFlow's.
LEMMA MovesFlow ==
    ASSUME fate \in [Msg -> Fates], fate' \in [Msg -> Fates], Moves(fate, fate')
    PROVE  Flow!Next
<1> DEFINE sent0 == {m \in Msg : fate[m] = "unsent" /\ fate'[m] = "live"}
           settled == {m \in Msg : fate[m] = "live" /\ fate'[m] \in Final}
           outcome == [m \in settled |-> fate'[m]]
<1>1. sent0 \in SUBSET Msg /\ settled \in SUBSET Msg OBVIOUS
<1>2. outcome \in [settled -> Final] OBVIOUS
<1>3. fate' = [m \in Msg |-> CASE m \in sent0 -> "live" [] m \in settled -> outcome[m]
                               [] OTHER -> fate[m]]
  <2>1. \A m \in Msg : fate'[m] = CASE m \in sent0 -> "live" [] m \in settled -> outcome[m]
                                     [] OTHER -> fate[m]
    BY DEF Moves
  <2> QED BY <2>1
<1>4. (\A m \in sent0 : fate[m] = "unsent") /\ \A m \in settled : fate[m] = "live" OBVIOUS
<1>5. Flow!Final = Final BY DEF Flow!Final, Final
<1> HIDE DEF sent0, settled, outcome
<1> QED BY <1>1, <1>2, <1>3, <1>4, <1>5 DEF Flow!Next

\* The invariant: everything is typed, and a live message is in its place.
THEOREM EngineKeeps == EngineSpec => [](EngineTyped /\ Filed)
<1>1. EngineInit => EngineTyped /\ Filed BY EngineStarts
<1>2. EngineTyped /\ Filed /\ [EngineNext]_engineVars => (EngineTyped /\ Filed)'
  BY EngineStep DEF Stays
<1> QED BY <1>1, <1>2, PTL DEF EngineSpec

\* The thread's state is typed, for every engine (Session::run).
THEOREM EngineTypes == EngineSpec => []EngineTypeOK
<1>1. EngineTyped /\ Filed => EngineTypeOK BY TypedSaysOK
<1> QED BY <1>1, EngineKeeps, PTL

\* No message is lost or doubled on its way to an engine: unread, or in one of
\* the adapter's queues, until it is handed over, taken back, refused or lost with
\* its process; the messages of two Codex steers that were under way at once
\* excepted (encode, translate, Session::run).
THEOREM EachPlacedOnce == EngineSpec => []EachInOnePlace
<1>1. EngineTyped /\ Filed => EachInOnePlace BY FiledSaysOnce
<1> QED BY <1>1, EngineKeeps, PTL

\* The thread implements MessageFlow: a message is handed over once or given up
\* once, whatever comes between, unless two Codex steers under way at once muddled it
\* (Session::run, Session::terminal).
THEOREM EachSettlesOnce == EngineSpec => MessagesSettleOnce
<1>1. EngineInit => Flow!Init BY DEF EngineInit, Flow!Init
<1>2. EngineTyped /\ Filed /\ [EngineNext]_engineVars => [Flow!Next]_fate
  <2> SUFFICES ASSUME EngineTyped, Filed, [EngineNext]_engineVars PROVE [Flow!Next]_fate OBVIOUS
  <2>1. Stays BY EngineStep
  <2>2. fate \in [Msg -> Fates] /\ fate' \in [Msg -> Fates] /\ Moves(fate, fate')
    <3>1. fate' \in [Msg -> Fates]
      <4>1. EngineTyped' BY <2>1 DEF Stays
      <4> QED BY <4>1 DEF EngineTyped, Msg, Fates
    <3> QED BY <2>1, <3>1 DEF Stays, EngineTyped
  <2> QED BY <2>2, MovesFlow
<1> QED BY <1>1, <1>2, EngineKeeps, PTL DEF EngineSpec, MessagesSettleOnce, Flow!Spec

-----------------------------------------------------------------------------
\* --- the mode picked and the mode run in ---

\* The mode an adapter is in changes with an op that sets it, for the engines
\* that take it while they run.
ModeAfter(b, op) ==
    IF op.op = "set_approval_mode" /\ kind # "acp" THEN op.mode ELSE b.mode

\* Which mode an op leaves an adapter in; a line leaves it in its own.
LEMMA EncodeModes ==
    ASSUME kind \in Engines, NEW b \in StateOf(kind), NEW op \in AnyOp
    PROVE  LET r == Encode(b, op)
           IN  /\ r.a.mode = ModeAfter(b, op)
               /\ Busy(b) => Busy(r.a)
               /\ Busy(b) /\ op.op = "user_message" => op.m \in In(Waiting(r.a))
<1> DEFINE r == Encode(b, op)
<1>0. r.a \in StateOf(kind) BY EncodeGives DEF Gives, Given
<1>w. /\ Waiting(r.a) \in Seq(Msg)
      /\ kind = "claude" => Waiting(r.a) = ClaudeQueue(r.a)
      /\ kind = "codex" => Waiting(r.a) = CodexQueue(r.a)
      /\ kind = "acp" => Waiting(r.a) = r.a.queued
  BY <1>0, WaitingOf
<1>1. CASE kind = "claude"
  <2>1. r = Claude!Encode(b, op) /\ b \in ClaudeState BY <1>1 DEF Encode, StateOf
  <2>2. \A c : Busy(c) = c.active BY <1>1 DEF Busy, Claude!Busy
  <2> HIDE DEF r
  <2>3. ClaudeOp(b, r, op) BY <2>1, ClaudeEncodeDoes
  <2>4. r.a \in ClaudeState /\ Waiting(r.a) = ClaudeQueue(r.a) BY <1>0, <1>1, <1>w DEF StateOf
  <2>5. In(r.a.held) \subseteq In(Waiting(r.a)) BY <2>4, ClaudeQueueParts
  <2>6. r.a.mode = ModeAfter(b, op) /\ (Busy(b) => Busy(r.a))
        /\ (Busy(b) /\ op.op = "user_message" => op.m \in In(Waiting(r.a)))
    BY <1>1, <2>2, <2>3, <2>5 DEF ClaudeOp, ModeAfter
  <2> QED BY <2>6 DEF r
<1>2. CASE kind = "codex"
  <2>1. r = Codex!Encode(b, op) /\ b \in CodexState BY <1>2 DEF Encode, StateOf
  <2>2. \A c : Busy(c) = c.busy BY <1>2 DEF Busy, Codex!Busy
  <2> HIDE DEF r
  <2>3. CodexOp(b, r, op) BY <2>1, CodexEncodeDoes
  <2>4. Waiting(r.a) = CodexQueue(r.a) BY <1>2, <1>w
  <2>6. r.a.mode = ModeAfter(b, op) /\ (Busy(b) => Busy(r.a))
        /\ (Busy(b) /\ op.op = "user_message" => op.m \in In(Waiting(r.a)))
    BY <1>2, <2>2, <2>3, <2>4 DEF CodexOp, ModeAfter
  <2> QED BY <2>6 DEF r
<1>3. CASE kind = "acp"
  <2>1. r = Acp!Encode(b, op) /\ b \in AcpState BY <1>3 DEF Encode, StateOf
  <2>2. \A c : Busy(c) = c.prompt BY <1>3 DEF Busy, Acp!Busy
  <2> HIDE DEF r
  <2>3. AcpOp(b, r, op) BY <2>1, AcpEncodeDoes
  <2>4. Waiting(r.a) = r.a.queued BY <1>3, <1>w
  <2>6. r.a.mode = ModeAfter(b, op) /\ (Busy(b) => Busy(r.a))
        /\ (Busy(b) /\ op.op = "user_message" => op.m \in In(Waiting(r.a)))
    BY <1>3, <2>2, <2>3, <2>4 DEF AcpOp, ModeAfter
  <2> QED BY <2>6 DEF r
<1> QED BY <1>1, <1>2, <1>3 DEF Engines

\* A line leaves the mode alone.
LEMMA TranslateModes ==
    ASSUME kind \in Engines, NEW b \in StateOf(kind), NEW line \in Asking(LineOf(kind))
    PROVE  Translate(b, line).a.mode = b.mode
<1>1. CASE kind = "claude"
  <2>1. Translate(b, line) = Claude!Translate(b, line) /\ b \in ClaudeState
        /\ line \in Asking(ClaudeLine)
    BY <1>1 DEF Translate, StateOf, LineOf
  <2> QED BY <2>1, ClaudeTranslateDoes DEF ClaudeHears
<1>2. CASE kind = "codex"
  <2>1. Translate(b, line) = Codex!Translate(b, line) /\ b \in CodexState
        /\ line \in Asking(CodexLine)
    BY <1>2 DEF Translate, StateOf, LineOf
  <2> QED BY <2>1, CodexTranslateDoes DEF CodexHears, CodexHeard
<1>3. CASE kind = "acp"
  <2>1. Translate(b, line) = Acp!Translate(b, line) /\ b \in AcpState
        /\ line \in Asking(AcpLine)
    BY <1>3 DEF Translate, StateOf, LineOf
  <2> QED BY <2>1, AcpTranslateDoes DEF AcpHears, AcpHeard
<1> QED BY <1>1, <1>2, <1>3 DEF Engines

LEMMA AllowedModes ==
    ASSUME kind \in Engines, NEW r \in Given(kind), NEW calls \in SUBSET (1..MaxAsks)
    PROVE  Allowed(r, calls).a.mode = r.a.mode /\ (Busy(r.a) => Busy(Allowed(r, calls).a))
<1> DEFINE op == [op |-> "approve", calls |-> calls]
<1>1. r.a \in StateOf(kind) BY DEF Given
<1>2. op \in AnyOp /\ op.op # "set_approval_mode" BY DEF AnyOp
<1>3. CASE calls = {} BY <1>3 DEF Allowed
<1>4. CASE calls # {}
  <2>1. Allowed(r, calls).a = Encode(r.a, op).a BY <1>4 DEF Allowed, Then
  <2> HIDE DEF op
  <2> QED BY <1>1, <1>2, <2>1, EncodeModes DEF ModeAfter
<1> QED BY <1>3, <1>4

LEMMA OpeningModes ==
    ASSUME kind \in Engines, NEW b \in StateOf(kind), NEW line \in Asking(LineOf(kind))
    PROVE  AllowWhileOpening(Translate(b, line)).a.mode = b.mode
<1> DEFINE r == Translate(b, line)
           asked == CardsAfter({}, r.events)
           q == [r EXCEPT !.events = <<>>]
<1>1. r \in Given(kind) /\ asked \in SUBSET (1..MaxAsks) /\ r.a.mode = b.mode
  BY TranslateGives, TellingCards, TranslateModes DEF Gives
<1>2. AllowWhileOpening(r) = IF pendingMode = "full" /\ asked # {} THEN Allowed(q, asked) ELSE r
  BY DEF AllowWhileOpening
<1> HIDE DEF asked, r
<1>3. <<>> \in Seq(Carried(EventName)) OBVIOUS
<1>4. q \in Given(kind) /\ q.a = r.a BY <1>1, <1>3 DEF Given
<1> HIDE DEF q
<1>5. Allowed(q, asked).a.mode = r.a.mode BY <1>1, <1>4, AllowedModes
<1>6. AllowWhileOpening(r).a.mode = b.mode BY <1>1, <1>2, <1>5
<1> QED BY <1>6 DEF r

\* The adapter's parts, by its engine, in this state and the next.
LEMMA BusyNext ==
    ASSUME kind' = kind
    PROVE  Busy(a)' = Busy(a')
BY DEF Busy, Claude!Busy, Codex!Busy, Acp!Busy

-----------------------------------------------------------------------------
\* The mode of the last switch is the adapter's, or that of the restart that
\* waits; ops are read while one waits only while a turn runs.
PickedLink ==
    /\ overlap \/ IF restart = "none" THEN a.mode = picked ELSE restart = picked
    /\ restart # "none" /\ phase \in {"ops", "surface"} => overlap \/ Busy(a)
    /\ phase = "tui" => overlap \/ (restart = "none" /\ current = picked)

\* A step that leaves the mode, the switch that waits and what is picked alone.
LEMMA PickedStays ==
    ASSUME PickedLink, kind' = kind, a'.mode = a.mode, overlap' = overlap, restart' = restart,
           picked' = picked, current' = current,
           phase' \in {"ops", "surface"} => restart = "none" \/ Busy(a') \/ overlap,
           phase' = "tui" => phase = "tui"
    PROVE  PickedLink'
<1>1. Busy(a)' = Busy(a') BY BusyNext
<1> QED BY <1>1 DEF PickedLink

LEMMA SameKind ==
    ASSUME [EngineNext]_engineVars
    PROVE  kind' = kind
<1>1. CASE UNCHANGED engineVars BY <1>1 DEF engineVars
<1>2. CASE EngineNext
  BY <1>2 DEF EngineNext, Thread, SendMessage, SendOp, SendAnswer, TuiExits, ProcessRuns,
       ProcessDies, SteerDeadline, TakeShutdown, TakeTui, TakeGateway, TakeMode, TakeEncoded,
       NoMoreOps, TakeLine, TakeExit, GoOn, Restart, RestartFails, RefuseTui, OpenTui,
       OpenTuiFails, TakeInTui, TakeTuiExit, CloseTui, End, Took
<1> QED BY <1>1, <1>2

LEMMA ModeParts ==
    ASSUME EngineTyped
    PROVE  a.mode \in Mode /\ "none" \notin Mode /\ kind \in Engines /\ a \in StateOf(kind)
<1>1. kind \in Engines /\ a \in StateOf(kind) BY KindIs DEF EngineTyped
<1> QED BY <1>1 DEF Engines, StateOf, ClaudeState, CodexState, AcpState, Mode

\* A switch is read: it is in force, or a restart waits for the turn's end.
LEMMA TakeModePicked ==
    ASSUME EngineTyped, PickedLink, TakeMode
    PROVE  PickedLink'
<1> DEFINE op == Head(ops)
           restarts == RestartFor(a, op)
           allowed == AllowOpen(op.mode)
           next == Encode(allowed.a, op)
<1>1. kind \in Engines /\ a \in StateOf(kind) /\ a.mode \in Mode /\ "none" \notin Mode
      /\ cards \in SUBSET (1..MaxAsks)
  BY ModeParts DEF EngineTyped
<1>2. op \in AnyOp /\ op.op = "set_approval_mode" /\ op.mode \in Mode /\ phase = "ops"
  BY HeadOp DEF TakeMode, NextOp
<1>3. kind' = kind /\ AfterOp /\ picked' = op.mode /\ overlap' = (restart # "none")
      /\ restart' = IF restarts THEN op.mode ELSE restart
  BY DEF TakeMode, Took
<1>4. Nothing \in Given(kind) /\ Nothing.a = a
  BY <1>1, QuietGives DEF Nothing, Gives
<1>5. Gives(a, allowed, {}) /\ allowed.a.mode = a.mode
  <2>1. Gives(a, Nothing, {}) BY <1>1, QuietGives DEF Nothing
  <2>2. Gives(a, Allowed(Nothing, cards), {}) BY <1>1, <2>1, AllowedGives
  <2>3. Allowed(Nothing, cards).a.mode = a.mode BY <1>1, <1>4, AllowedModes
  <2> QED BY <1>4, <2>1, <2>2, <2>3 DEF AllowOpen
<1>6. allowed.a \in StateOf(kind) BY <1>5 DEF Gives, Given
<1>7. a' = (IF restarts THEN allowed ELSE Then(allowed, next)).a
      \/ a' = (IF restarts THEN Nothing ELSE Encode(a, op)).a
  BY DEF TakeMode, Publish
<1>8. ~restarts => a'.mode = ModeAfter(a, op)
  <2>1. Then(allowed, next).a = next.a BY DEF Then
  <2>2. next.a.mode = ModeAfter(allowed.a, op)
    <3> HIDE DEF allowed, op
    <3> QED BY <1>1, <1>2, <1>6, EncodeModes
  <2>3. Encode(a, op).a.mode = ModeAfter(a, op)
    <3> HIDE DEF op
    <3> QED BY <1>1, <1>2, EncodeModes
  <2>4. ModeAfter(allowed.a, op) = ModeAfter(a, op) BY <1>5 DEF ModeAfter
  <2> HIDE DEF allowed, next, op, restarts
  <2> QED BY <1>7, <2>1, <2>2, <2>3, <2>4
<1>9. ~restarts => ModeAfter(a, op) = op.mode
  <2>1. kind = "acp" /\ ~restarts => op.mode = a.mode
    BY <1>2 DEF RestartFor, Acp!RestartFor
  <2> QED BY <1>2, <2>1 DEF ModeAfter
<1> HIDE DEF op, restarts
<1>10. Busy(a)' = Busy(a') BY <1>3, BusyNext
<1>11. phase' \in {"ops", "lines"} /\ (phase' = "ops" => restart' = "none" \/ Busy(a'))
  BY <1>3 DEF AfterOp
<1>12. ~overlap' => IF restart' = "none" THEN a'.mode = picked' ELSE restart' = picked'
  BY <1>1, <1>2, <1>3, <1>8, <1>9
<1> QED BY <1>10, <1>11, <1>12 DEF PickedLink

\* No other op comes between a switch and its restart unseen.
LEMMA TakeOtherPicked ==
    ASSUME EngineTyped, PickedLink, TakeTui \/ TakeGateway
    PROVE  PickedLink'
<1>1. a.mode \in Mode /\ "none" \notin Mode BY ModeParts
<1>2. kind' = kind /\ AfterOp /\ a' = a /\ picked' = picked
  BY DEF TakeTui, TakeGateway, Took
<1>3. phase' \in {"ops", "lines"} /\ (phase' = "ops" => restart' = "none" \/ Busy(a'))
  BY <1>2 DEF AfterOp
<1>4. Busy(a)' = Busy(a') BY <1>2, BusyNext
<1>5. CASE TakeTui
  <2>1. overlap' = overlap /\ restart' = restart BY <1>5 DEF TakeTui
  <2> QED BY <1>2, <1>3, <1>4, <2>1 DEF PickedLink
<1>6. CASE TakeGateway
  <2>1. overlap' = (overlap \/ restart # "none") /\ restart' = a.mode BY <1>6 DEF TakeGateway
  <2> QED BY <1>1, <1>2, <1>3, <1>4, <2>1 DEF PickedLink
<1> QED BY <1>5, <1>6

LEMMA TakeEncodedPicked ==
    ASSUME EngineTyped, PickedLink, TakeEncoded
    PROVE  PickedLink'
<1> DEFINE op == Head(ops)
           r == Encode(a, op)
<1>1. kind \in Engines /\ a \in StateOf(kind) BY ModeParts
<1>2. op \in AnyOp /\ op.op # "set_approval_mode" BY HeadOp DEF TakeEncoded, NextOp
<1>3. kind' = kind /\ AfterOp /\ a' = r.a
      /\ UNCHANGED <<current, restart, picked, overlap>>
  BY DEF TakeEncoded, Took, Publish
<1>4. phase' \in {"ops", "lines"} /\ (phase' = "ops" => restart' = "none" \/ Busy(a'))
  BY <1>3 DEF AfterOp
<1> HIDE DEF op
<1>5. a'.mode = a.mode BY <1>1, <1>2, <1>3, EncodeModes DEF ModeAfter
<1> QED BY <1>3, <1>4, <1>5, PickedStays

\* An engine that takes over from its TUI runs in the mode it was started in, ...
LEMMA BackPicked ==
    ASSUME EngineTyped, PickedLink, Back, kind' = kind, restart' = restart,
           picked' = picked, overlap' \/ (restart = "none" /\ current = picked)
    PROVE  PickedLink'
<1>1. phase' = "ops" BY DEF Back
<1>2. PICK saved \in BOOLEAN : Spawn(current, saved) BY DEF Back
<1>3. a'.mode = current
  <2>1. current \in Mode BY DEF EngineTyped
  <2> QED BY <1>2, <2>1, SpawnIs
<1> QED BY <1>1, <1>3 DEF PickedLink

\* ... and a restarted one in the mode of the switch.
LEMMA RestartPicked ==
    ASSUME EngineTyped, PickedLink, Restart
    PROVE  PickedLink'
<1>1. restart # "none" /\ restart \in Mode BY DEF Restart, EngineTyped
<1>2. Spawn(restart, Conversation(a)) /\ kind' = kind /\ restart' = "none"
      /\ UNCHANGED <<picked, overlap>>
  BY DEF Restart
<1>3. a'.mode = restart BY <1>1, <1>2, ConversationIs, SpawnIs
<1>4. phase' # "tui" BY DEF Restart, AfterLines
<1> QED BY <1>1, <1>2, <1>3, <1>4 DEF PickedLink

\* Every step keeps a switch waiting or in force.
LEMMA PickedStep ==
    ASSUME EngineTyped, PickedLink, [EngineNext]_engineVars
    PROVE  PickedLink'
<1>k. kind' = kind BY SameKind
<1>1. CASE UNCHANGED engineVars
  BY <1>1, PickedStays DEF engineVars, PickedLink
<1>2. CASE SendMessage \/ SendOp \/ SendAnswer \/ TuiExits \/ ProcessRuns \/ ProcessDies
  <2>1. UNCHANGED <<phase, a, current, overlap, restart, picked>>
    BY <1>2 DEF SendMessage, SendOp, SendAnswer, TuiExits, ProcessRuns, ProcessDies
  <2> QED BY <1>k, <2>1, PickedStays DEF PickedLink
<1>3. CASE SteerDeadline
  <2>1. kind = "claude" /\ a' = [a EXCEPT !.steering.late = TRUE] BY <1>3 DEF SteerDeadline
  <2>2. a \in ClaudeState BY <2>1 DEF EngineTyped, StateOf
  <2>3. a'.mode = a.mode /\ a'.active = a.active BY <2>1, <2>2 DEF ClaudeState
  <2>4. Busy(a') = Busy(a)
    <3>1. \A b : Busy(b) = b.active BY <2>1 DEF Busy, Claude!Busy
    <3> QED BY <2>3, <3>1
  <2>5. UNCHANGED <<phase, current, overlap, restart, picked>> BY <1>3 DEF SteerDeadline
  <2> QED BY <1>k, <2>3, <2>4, <2>5, PickedStays DEF PickedLink
<1>4. CASE TakeShutdown \/ TakeExit \/ RestartFails \/ CloseTui
  <2>1. End BY <1>4 DEF TakeShutdown, TakeExit, RestartFails, CloseTui
  <2>2. UNCHANGED <<a, current, overlap, restart, picked>> /\ phase' = "ended" BY <2>1 DEF End
  <2> QED BY <1>k, <2>2, PickedStays
<1>5. CASE TakeTui \/ TakeGateway BY <1>5, TakeOtherPicked
<1>6. CASE TakeMode BY <1>6, TakeModePicked
<1>7. CASE TakeEncoded BY <1>7, TakeEncodedPicked
<1>8. CASE NoMoreOps
  <2>1. UNCHANGED <<a, current, overlap, restart, picked>> /\ phase' = "lines" BY <1>8 DEF NoMoreOps
  <2> QED BY <1>k, <2>1, PickedStays
<1>9. CASE TakeLine
  <2> DEFINE h == Head(lines)
  <2>1. UNCHANGED <<phase, current, overlap, restart, picked>> /\ phase = "lines"
        /\ a' = AllowWhileOpening(Translate(a, h)).a /\ lines # <<>>
    BY <1>9 DEF TakeLine, Publish
  <2>2. h \in Asking(LineOf(kind))
    <3>1. lines \in Seq(Asking(LineOf(kind))) BY DEF EngineTyped
    <3> QED BY <2>1, <3>1, TailOnce
  <2> HIDE DEF h
  <2>3. a'.mode = a.mode BY <2>1, <2>2, ModeParts, OpeningModes
  <2> QED BY <1>k, <2>1, <2>3, PickedStays
<1>10. CASE GoOn
  <2>1. UNCHANGED <<a, current, overlap, restart, picked>> /\ phase' \in {"ops", "surface"}
        /\ (restart = "none" \/ Busy(a))
    BY <1>10 DEF GoOn, AfterLines
  <2> QED BY <1>k, <2>1, PickedStays
<1>11. CASE Restart BY <1>11, RestartPicked
<1>12. CASE RefuseTui
  <2>1. UNCHANGED <<a, current, overlap, restart, picked>> /\ phase' = "ops" /\ phase = "surface"
    BY <1>12 DEF RefuseTui
  <2> QED BY <1>k, <2>1, PickedStays DEF PickedLink
<1>13. CASE OpenTui
  <2>1. UNCHANGED <<a, current, restart, picked>> /\ phase' = "tui"
        /\ overlap' = (overlap \/ restart # "none" \/ picked # current)
    BY <1>13 DEF OpenTui, MayOpenTui
  <2> QED BY <2>1 DEF PickedLink
<1>14. CASE OpenTuiFails
  <2>1. Back /\ UNCHANGED <<restart, picked>>
        /\ overlap' = (overlap \/ restart # "none" \/ picked # current)
    BY <1>14 DEF OpenTuiFails, MayOpenTui
  <2>2. overlap' \/ (restart = "none" /\ current = picked) BY <2>1
  <2> QED BY <1>k, <2>1, <2>2, BackPicked
<1>15. CASE TakeInTui
  <2>1. UNCHANGED <<phase, a, current, overlap, restart, picked>> /\ phase = "tui" BY <1>15 DEF TakeInTui
  <2> QED BY <1>k, <2>1, PickedStays
<1>16. CASE TakeTuiExit
  <2>1. Back /\ UNCHANGED <<restart, picked, overlap>> /\ phase = "tui"
    BY <1>16 DEF TakeTuiExit
  <2>2. overlap' \/ (restart = "none" /\ current = picked) BY <2>1 DEF PickedLink
  <2> QED BY <1>k, <2>1, <2>2, BackPicked
<1> QED
  BY <1>1, <1>2, <1>3, <1>4, <1>5, <1>6, <1>7, <1>8, <1>9, <1>10, <1>11, <1>12, <1>13, <1>14,
     <1>15, <1>16
  DEF EngineNext, Thread

-----------------------------------------------------------------------------
\* A message read while a switch waits stays with the adapter.
LEMMA GivenInPicked ==
    ASSUME EngineTyped, Filed, PickedLink, [EngineNext]_engineVars, NEW m \in Msg,
           phase = "ops", ops # <<>>, Head(ops) = [op |-> "user_message", m |-> m],
           fate'[m] = "given"
    PROVE  overlap \/ a.mode = picked
<1> SUFFICES ASSUME ~overlap, a.mode # picked PROVE FALSE OBVIOUS
<1>1. Busy(a) BY DEF PickedLink
<1>2. Head(ops).op = "user_message" /\ Head(ops).m = m OBVIOUS
<1>3. fate[m] = "live"
  <2>1. m \in NewIn(Head(ops)) BY <1>2 DEF NewIn
  <2>2. m \in Unread(ops)
    <3>1. Unread(ops) = Unread(Tail(ops)) \cup NewIn(Head(ops)) BY UnreadTail DEF EngineTyped
    <3> QED BY <2>1, <3>1
  <2> QED BY <2>2 DEF Filed, Placed
<1>4. fate'[m] # fate[m] BY <1>3
<1>5. CASE SendMessage
  <2>1. PICK k \in Msg : fate' = [fate EXCEPT ![k] = "live"] BY <1>5 DEF SendMessage
  <2>2. fate \in [Msg -> Fates] BY DEF EngineTyped
  <2>3. fate'[m] = "live" BY <1>3, <2>1, <2>2
  <2> QED BY <2>3
<1>6. CASE TakeEncoded
  <2> DEFINE op == Head(ops)
             r == Encode(a, op)
  <2>1. kind \in Engines /\ a \in StateOf(kind) /\ op \in AnyOp /\ op.op = "user_message"
    BY <1>2, ModeParts, HeadOp
  <2>2. kind' = kind /\ a' = r.a /\ AfterOp BY <1>6 DEF TakeEncoded, Took, Publish
  <2>3. Filed' BY EngineStep DEF Stays
  <2>4. op.m = m BY <1>2
  <2> HIDE DEF op
  <2>5. m \in In(Waiting(r.a)) BY <1>1, <2>1, <2>4, EncodeModes
  <2>6. Waiting(a)' = Waiting(r.a) BY <2>2, WaitingNext
  <2>7. phase' \in {"ops", "lines"} BY <2>2 DEF AfterOp
  <2>8. m \in Kept' BY <2>5, <2>6, <2>7 DEF Kept, In
  <2>9. fate'[m] \in {"live", "muddled"} BY <2>3, <2>8 DEF Filed, Placed
  <2> QED BY <2>9
<1>7. CASE UNCHANGED fate BY <1>4, <1>7
<1>8. \/ SendMessage \/ TakeEncoded \/ UNCHANGED fate
  <2>1. ~TakeShutdown /\ ~TakeExit /\ ~RestartFails /\ ~CloseTui /\ ~TakeMode /\ ~TakeLine
        /\ ~Restart /\ ~OpenTui /\ ~OpenTuiFails /\ ~TakeInTui
    BY <1>2 DEF TakeShutdown, TakeExit, RestartFails, CloseTui, TakeMode, TakeLine, Restart,
         OpenTui, OpenTuiFails, TakeInTui, NoMoreLines, MayOpenTui, NextOp
  <2>2. \/ SendOp \/ SendAnswer \/ TuiExits \/ ProcessRuns \/ ProcessDies \/ SteerDeadline
        \/ TakeTui \/ TakeGateway \/ NoMoreOps \/ GoOn \/ RefuseTui \/ TakeTuiExit
        => UNCHANGED fate
    BY DEF SendOp, SendAnswer, TuiExits, ProcessRuns, ProcessDies, SteerDeadline,
         TakeTui, TakeGateway, NoMoreOps, GoOn, RefuseTui, TakeTuiExit
  <2>3. UNCHANGED engineVars => UNCHANGED fate BY DEF engineVars
  <2> QED BY <2>1, <2>2, <2>3 DEF EngineNext, Thread
<1> QED BY <1>5, <1>6, <1>7, <1>8

\* A message read between turns goes to a process in the mode that was picked
\* last, if nothing came between a switch and its restart, and no TUI after a mode
\* the engine took as it ran (restart_for, wait_for_turn, terminal).
THEOREM PicksMode == EngineSpec => RunsInPickedMode
<1>1. EngineInit => PickedLink
  <2> SUFFICES ASSUME EngineInit PROVE PickedLink OBVIOUS
  <2>1. PICK k \in Kinds, resume \in BOOLEAN :
          a = Adapter(k, "ask", resume).a /\ restart = "none" /\ picked = "ask" /\ phase = "ops"
    BY DEF EngineInit
  <2>2. k \in Engines /\ "ask" \in Mode BY EngineAssumption DEF Engines, Mode
  <2>3. a.mode = "ask" BY <2>1, <2>2, AdapterTyped
  <2> QED BY <2>1, <2>3 DEF PickedLink
<1>2. EngineTyped /\ PickedLink /\ [EngineNext]_engineVars => PickedLink' BY PickedStep
<1>3. EngineTyped /\ Filed /\ PickedLink /\ [EngineNext]_engineVars =>
        \A m \in Msg :
          /\ phase = "ops" /\ ops # <<>> /\ Head(ops) = [op |-> "user_message", m |-> m]
          /\ fate'[m] = "given"
          => overlap \/ a.mode = picked
  BY GivenInPicked
<1> QED BY <1>1, <1>2, <1>3, EngineKeeps, PTL DEF EngineSpec, RunsInPickedMode

-----------------------------------------------------------------------------
\* --- words that name calls ---

\* Whether one of B stands between one of A and a later one of C, whether an
\* element names call n, and whether one does after each of T.
Between(s, A, B, C) ==
    \A k, i \in DOMAIN s :
        k < i /\ s[k].t \in A /\ s[i].t \in C => \E j \in DOMAIN s : k < j /\ j < i /\ s[j].t \in B

Names(s, n) == \E i \in DOMAIN s : s[i].n = n

EndsFirst(s, T, n) ==
    \A k \in DOMAIN s : s[k].t \in T => \E j \in DOMAIN s : k < j /\ s[j].n = n

\* What follows concerns words of frames and of lines.
LEMMA ConcatHas ==
    ASSUME NEW R, NEW s \in Seq(R), NEW u \in Seq(R), NEW A
    PROVE  Has(s \o u, A) <=> Has(s, A) \/ Has(u, A)
BY ConcatWord

\* Where the items of a word are when one is added, ...
LEMMA AppendParts ==
    ASSUME NEW R, NEW s \in Seq(R), NEW x \in R
    PROVE  LET w == s \o <<x>>
               l == Len(s) + 1
           IN  /\ w \in Seq(R) /\ DOMAIN w = DOMAIN s \cup {l} /\ w[l] = x /\ l \in Nat
               /\ \A i \in DOMAIN s : w[i] = s[i] /\ i \in Nat /\ i < l
<1> DEFINE w == s \o <<x>>
           l == Len(s) + 1
<1>1. w \in Seq(R) /\ Len(w) = l /\ l \in Nat /\ Len(s) \in Nat OBVIOUS
<1>2. DOMAIN w = 1..l /\ DOMAIN s = 1..Len(s) BY <1>1
<1>3. 1..l = (1..Len(s)) \cup {l} BY <1>1
<1>4. w[l] = x OBVIOUS
<1>5. \A i \in 1..Len(s) : w[i] = s[i] OBVIOUS
<1>6. \A i \in 1..Len(s) : i \in Nat /\ i < l BY <1>1
<1> HIDE DEF w, l
<1>7. w \in Seq(R) /\ DOMAIN w = DOMAIN s \cup {l} /\ w[l] = x /\ l \in Nat
      /\ \A i \in DOMAIN s : w[i] = s[i] /\ i \in Nat /\ i < l
  BY <1>1, <1>2, <1>3, <1>4, <1>5, <1>6
<1> QED BY <1>7 DEF w, l

\* ... and whether one is still between two others, ...
LEMMA BetweenAppend ==
    ASSUME NEW R, NEW s \in Seq(R), NEW x \in R, NEW A, NEW B, NEW C, Between(s, A, B, C),
           x.t \in C => Follows(s, A, B)
    PROVE  Between(s \o <<x>>, A, B, C)
<1> DEFINE w == s \o <<x>>
           l == Len(s) + 1
<1>1. DOMAIN w = DOMAIN s \cup {l} /\ w[l] = x /\ l \in Nat
      /\ \A i \in DOMAIN s : w[i] = s[i] /\ i \in Nat /\ i < l
  BY AppendParts
<1> HIDE DEF w, l
<1> SUFFICES ASSUME NEW k \in DOMAIN w, NEW i \in DOMAIN w, k < i, w[k].t \in A, w[i].t \in C
             PROVE  \E j \in DOMAIN w : k < j /\ j < i /\ w[j].t \in B
  BY DEF Between, w
<1>2. k \in DOMAIN s BY <1>1
<1>3. CASE i \in DOMAIN s
  <2>1. PICK j \in DOMAIN s : k < j /\ j < i /\ s[j].t \in B BY <1>1, <1>2, <1>3 DEF Between
  <2> QED BY <1>1, <2>1
<1>4. CASE i = l
  <2>1. PICK j \in DOMAIN s : k < j /\ s[j].t \in B BY <1>1, <1>2, <1>4 DEF Follows
  <2> QED BY <1>1, <1>4, <2>1
<1> QED BY <1>1, <1>3, <1>4

\* ... or when the first is gone.
LEMMA BetweenTail ==
    ASSUME NEW R, NEW s \in Seq(R), s # <<>>, NEW A, NEW B, NEW C, Between(s, A, B, C)
    PROVE  Between(Tail(s), A, B, C) /\ (Head(s).t \in A /\ Has(Tail(s), C) => Has(Tail(s), B))
<1> DEFINE u == Tail(s)
<1>1. /\ Head(s) = s[1] /\ 1 \in DOMAIN s
      /\ \A i \in DOMAIN u : i + 1 \in DOMAIN s /\ u[i] = s[i + 1] /\ i \in Nat /\ i >= 1
      /\ \A i \in DOMAIN s : /\ i = 1 \/ (i - 1 \in DOMAIN u /\ u[i - 1] = s[i])
                             /\ i \in Nat /\ i >= 1
  BY TailParts
<1> HIDE DEF u
<1>2. ASSUME NEW k \in DOMAIN u, NEW i \in DOMAIN u, k < i, u[k].t \in A, u[i].t \in C
      PROVE  \E j \in DOMAIN u : k < j /\ j < i /\ u[j].t \in B
  <2>1. k + 1 \in DOMAIN s /\ i + 1 \in DOMAIN s /\ k + 1 < i + 1 /\ s[k + 1].t \in A
        /\ s[i + 1].t \in C
    BY <1>1, <1>2
  <2>2. PICK j \in DOMAIN s : k + 1 < j /\ j < i + 1 /\ s[j].t \in B BY <2>1 DEF Between
  <2>3. j # 1 /\ k < j - 1 /\ j - 1 < i BY <1>1, <2>2
  <2> QED BY <1>1, <2>2, <2>3
<1>3. ASSUME s[1].t \in A, Has(u, C) PROVE Has(u, B)
  <2>1. PICK i \in DOMAIN u : u[i].t \in C BY <1>3 DEF Has
  <2>2. i + 1 \in DOMAIN s /\ 1 < i + 1 /\ s[i + 1].t \in C BY <1>1, <2>1
  <2>3. PICK j \in DOMAIN s : 1 < j /\ j < i + 1 /\ s[j].t \in B
    BY <1>1, <1>3, <2>2 DEF Between
  <2>4. j # 1 BY <1>1, <2>3
  <2> QED BY <1>1, <2>3, <2>4 DEF Has
<1> QED BY <1>1, <1>2, <1>3 DEF Between, u

\* Words put together name what each names; ...
LEMMA NamesConcat ==
    ASSUME NEW R, NEW s \in Seq(R), NEW u \in Seq(R), NEW n
    PROVE  Names(s \o u, n) <=> Names(s, n) \/ Names(u, n)
<1> DEFINE w == s \o u
           l == Len(s)
<1>1. /\ \A i \in DOMAIN s : i \in DOMAIN w /\ w[i] = s[i]
      /\ \A i \in DOMAIN u : l + i \in DOMAIN w /\ w[l + i] = u[i]
      /\ \A i \in DOMAIN w : (i \in DOMAIN s /\ w[i] = s[i])
                             \/ (i - l \in DOMAIN u /\ w[i] = u[i - l])
  BY ConcatParts
<1> HIDE DEF w, l
<1>2. Names(w, n) => Names(s, n) \/ Names(u, n) BY <1>1 DEF Names
<1>3. Names(s, n) => Names(w, n) BY <1>1 DEF Names
<1>4. Names(u, n) => Names(w, n)
  <2> SUFFICES ASSUME NEW i \in DOMAIN u, u[i].n = n PROVE Names(w, n) BY DEF Names
  <2>1. l + i \in DOMAIN w /\ w[l + i].n = n BY <1>1
  <2> QED BY <2>1 DEF Names
<1> QED BY <1>2, <1>3, <1>4 DEF w

\* ... what is left of one names what its first did not; ...
LEMMA NamesTail ==
    ASSUME NEW R, NEW s \in Seq(R), s # <<>>, NEW n
    PROVE  Names(s, n) <=> Head(s).n = n \/ Names(Tail(s), n)
<1> DEFINE u == Tail(s)
<1>1. /\ Head(s) = s[1] /\ 1 \in DOMAIN s
      /\ \A i \in DOMAIN u : i + 1 \in DOMAIN s /\ u[i] = s[i + 1]
      /\ \A i \in DOMAIN s : i = 1 \/ (i - 1 \in DOMAIN u /\ u[i - 1] = s[i])
  BY TailParts
<1> HIDE DEF u
<1>2. Names(s, n) => s[1].n = n \/ Names(u, n) BY <1>1 DEF Names
<1>3. s[1].n = n => Names(s, n) BY <1>1 DEF Names
<1>4. Names(u, n) => Names(s, n)
  <2> SUFFICES ASSUME NEW i \in DOMAIN u, u[i].n = n PROVE Names(s, n) BY DEF Names
  <2>1. i + 1 \in DOMAIN s /\ s[i + 1].n = n BY <1>1
  <2> QED BY <2>1 DEF Names
<1> QED BY <1>1, <1>2, <1>3, <1>4 DEF u

\* ... and the order of asking and ending stays.
LEMMA EndsFirstTail ==
    ASSUME NEW R, NEW s \in Seq(R), s # <<>>, NEW T, NEW n, EndsFirst(s, T, n)
    PROVE  EndsFirst(Tail(s), T, n) /\ (Head(s).t \in T => Names(Tail(s), n))
<1> DEFINE u == Tail(s)
<1>1. /\ Head(s) = s[1] /\ 1 \in DOMAIN s
      /\ \A i \in DOMAIN u : i + 1 \in DOMAIN s /\ u[i] = s[i + 1] /\ i \in Nat /\ i >= 1
      /\ \A i \in DOMAIN s : /\ i = 1 \/ (i - 1 \in DOMAIN u /\ u[i - 1] = s[i])
                             /\ i \in Nat /\ i >= 1
  BY TailParts
<1> HIDE DEF u
<1>2. ASSUME NEW k \in DOMAIN u, u[k].t \in T PROVE \E j \in DOMAIN u : k < j /\ u[j].n = n
  <2>1. k + 1 \in DOMAIN s /\ s[k + 1].t \in T BY <1>1, <1>2
  <2>2. PICK j \in DOMAIN s : k + 1 < j /\ s[j].n = n BY <2>1 DEF EndsFirst
  <2>3. j # 1 /\ k < j - 1 BY <1>1, <2>2
  <2> QED BY <1>1, <2>2, <2>3
<1>3. ASSUME s[1].t \in T PROVE Names(u, n)
  <2>1. PICK j \in DOMAIN s : 1 < j /\ s[j].n = n BY <1>1, <1>3 DEF EndsFirst
  <2>2. j # 1 BY <1>1, <2>1
  <2> QED BY <1>1, <2>1, <2>2 DEF Names
<1> QED BY <1>1, <1>2, <1>3 DEF EndsFirst, u

\* What is added ends nothing.
LEMMA EndsFirstConcat ==
    ASSUME NEW R, NEW s \in Seq(R), NEW u \in Seq(R), NEW T, NEW n, EndsFirst(s, T, n), ~Has(u, T)
    PROVE  EndsFirst(s \o u, T, n)
<1> DEFINE w == s \o u
           l == Len(s)
<1>1. /\ \A i \in DOMAIN s : i \in DOMAIN w /\ w[i] = s[i]
      /\ \A i \in DOMAIN w : (i \in DOMAIN s /\ w[i] = s[i])
                             \/ (i - l \in DOMAIN u /\ w[i] = u[i - l])
  BY ConcatParts
<1> HIDE DEF w, l
<1> SUFFICES ASSUME NEW k \in DOMAIN w, w[k].t \in T PROVE \E j \in DOMAIN w : k < j /\ w[j].n = n
  BY DEF EndsFirst, w
<1>2. k \in DOMAIN s /\ w[k] = s[k] BY <1>1 DEF Has
<1>3. PICK j \in DOMAIN s : k < j /\ s[j].n = n BY <1>2 DEF EndsFirst
<1> QED BY <1>1, <1>3

\* The last line names it.
LEMMA EndsFirstAsk ==
    ASSUME NEW R, NEW s \in Seq(R), NEW x \in R, NEW T, x.t \notin T
    PROVE  EndsFirst(s \o <<x>>, T, x.n)
<1> DEFINE w == s \o <<x>>
           l == Len(s) + 1
<1>1. DOMAIN w = DOMAIN s \cup {l} /\ w[l] = x /\ l \in Nat
      /\ \A i \in DOMAIN s : w[i] = s[i] /\ i \in Nat /\ i < l
  BY AppendParts
<1> HIDE DEF w, l
<1> SUFFICES ASSUME NEW k \in DOMAIN w, w[k].t \in T
             PROVE  \E j \in DOMAIN w : k < j /\ w[j].n = x.n
  BY DEF EndsFirst, w
<1>2. k < l BY <1>1
<1> QED BY <1>1, <1>2

\* No word names anything.
LEMMA EmptyNames ==
    /\ \A n : ~Names(<<>>, n)
    /\ \A T, n : EndsFirst(<<>>, T, n)
    /\ \A A, B, C : Between(<<>>, A, B, C)
<1>1. DOMAIN <<>> = {} OBVIOUS
<1> QED BY <1>1 DEF Names, EndsFirst, Between

-----------------------------------------------------------------------------
\* --- Claude Code: the adapter and the CLI ---

\* The types of frames and lines of a CLI turn.
WR == {"user", "now"}
RQ == {"requesting"}
RS == {"result"}
RP == {"replay"}

\* The adapter and the CLI: what turns begin and end, and where messages are.
ClaudeLink(b, e, lns) ==
    /\ e.turn => Follows(lns, RS, RQ)
    /\ ~e.turn => Follows(lns, RQ, RS)
    /\ ~Has(lns, RQ) /\ ~Has(lns, RS) => (e.turn <=> b.active)
    /\ b.steering.frames # <<>> => b.active
    /\ b.held # <<>> /\ ~b.active => Has(e.in, WR) \/ e.own # <<>> \/ Has(lns, RQ)
    /\ b.queued \subseteq MsgsOf(e.in, WR) \cup In(e.own) \cup MsgsOf(lns, RP)
                            \cup In(b.steering.frames)
    /\ Between(lns, RS, RQ, RP)

\* The process when the thread has written these frames.
With(e, frames) == [e EXCEPT !.in = @ \o frames]

\* A message in a word is in an item of a type.
LEMMA MsgsHas ==
    ASSUME NEW s, NEW T, NEW m \in MsgsOf(s, T)
    PROVE  Has(s, T)
BY MsgsIn DEF Has

\* What writing frames to the CLI does.
LEMMA ClaudeWith ==
    ASSUME NEW e \in ClaudeProcess, NEW frames \in Seq(Carried(ClaudeFrame))
    PROVE  LET d == With(e, frames)
           IN  /\ d \in ClaudeProcess /\ d.in = e.in \o frames /\ e.in \in Seq(Carried(ClaudeFrame))
               /\ d.turn = e.turn /\ d.own = e.own /\ d.asks = e.asks /\ d.asked = e.asked
<1>1. e.in \in Seq(Carried(ClaudeFrame)) BY DEF ClaudeProcess
<1> DEFINE q == e.in \o frames
<1>2. q \in Seq(Carried(ClaudeFrame)) BY <1>1, ConcatOnce
<1>3. With(e, frames) = [e EXCEPT !.in = q] BY DEF With
<1> HIDE DEF q
<1>4. [e EXCEPT !.in = q] \in ClaudeProcess BY <1>2 DEF ClaudeProcess
<1> QED BY <1>1, <1>3, <1>4 DEF ClaudeProcess, q

\* An op leaves them linked.
LEMMA ClaudeLinkOp ==
    ASSUME NEW b \in ClaudeState, NEW e \in ClaudeProcess, NEW lns, ClaudeLink(b, e, lns),
           NEW op \in AnyOp
    PROVE  LET r == Claude!Encode(b, op)
           IN  ClaudeLink(r.a, With(e, r.frames), lns)
<1> DEFINE r == Claude!Encode(b, op)
           d == With(e, r.frames)
<1>1. ClaudeOp(b, r, op) /\ (r.a.steering.frames # <<>> => b.active) BY ClaudeEncodeDoes
<1> HIDE DEF r
<1>2. r.frames \in Seq(Carried(ClaudeFrame)) BY <1>1 DEF ClaudeOp, ClaudeOutput
<1>3. d.in = e.in \o r.frames /\ e.in \in Seq(Carried(ClaudeFrame)) /\ d.turn = e.turn
      /\ d.own = e.own
  BY <1>2, ClaudeWith
<1> HIDE DEF d
<1>4. Has(d.in, WR) <=> Has(e.in, WR) \/ Has(r.frames, WR)
  <2>1. Has(e.in \o r.frames, WR) <=> Has(e.in, WR) \/ Has(r.frames, WR)
    BY <1>2, <1>3, ConcatHas
  <2> QED BY <1>3, <2>1
<1>5. MsgsOf(d.in, WR) = MsgsOf(e.in, WR) \cup Written(r.frames)
  BY <1>2, <1>3, MsgsConcat DEF Written, WR
<1>6. r.a.active = b.active /\ (~b.active /\ r.a.held # <<>> => b.held # <<>>)
      /\ r.a.queued \subseteq b.queued \cup Written(r.frames) \cup In(r.a.steering.frames)
      /\ In(b.steering.frames) \subseteq Written(r.frames) \cup In(r.a.steering.frames)
  BY <1>1 DEF ClaudeOp
<1>7. ClaudeLink(r.a, d, lns) BY <1>1, <1>3, <1>4, <1>5, <1>6 DEF ClaudeLink
<1> QED BY <1>7 DEF d, r

\* So does a line.
LEMMA ClaudeLinkLine ==
    ASSUME NEW b \in ClaudeState, NEW e \in ClaudeProcess,
           NEW lns \in Seq(Asking(ClaudeLine)), lns # <<>>, ClaudeLink(b, e, lns)
    PROVE  LET r == Claude!Translate(b, Head(lns))
           IN  ClaudeLink(r.a, With(e, r.frames), Tail(lns))
<1> DEFINE h == Head(lns)
           u == Tail(lns)
           r == Claude!Translate(b, h)
           d == With(e, r.frames)
<1>0. h \in Asking(ClaudeLine) /\ u \in Seq(Asking(ClaudeLine)) BY TailParts
<1>t. \A A, B : /\ Has(lns, A) <=> h.t \in A \/ Has(u, A)
                /\ Follows(lns, A, B) <=> Follows(u, A, B) /\ (h.t \in A => Has(u, B))
  BY TailWord
<1>b. Between(u, RS, RQ, RP) /\ (h.t \in RS /\ Has(u, RP) => Has(u, RQ))
  <2>1. Between(lns, RS, RQ, RP) BY DEF ClaudeLink
  <2> QED BY <2>1, BetweenTail
<1>m. MsgsOf(lns, RP) = MsgsOf(u, RP) \cup (IF h.t \in RP THEN ToSet(h.ms) ELSE {})
  BY MsgsTail
<1> HIDE DEF h, u
<1>1. ClaudeHears(b, r, h) /\ (r.a.steering.frames # <<>> => r.a.active)
  BY <1>0, ClaudeTranslateDoes
<1> HIDE DEF r
<1>2. r.frames \in Seq(Carried(ClaudeFrame)) BY <1>1 DEF ClaudeHears, ClaudeOutput
<1>3. d.in = e.in \o r.frames /\ e.in \in Seq(Carried(ClaudeFrame)) /\ d.turn = e.turn
      /\ d.own = e.own
  BY <1>2, ClaudeWith
<1> HIDE DEF d
<1>4. Has(d.in, WR) <=> Has(e.in, WR) \/ Has(r.frames, WR)
  <2>1. Has(e.in \o r.frames, WR) <=> Has(e.in, WR) \/ Has(r.frames, WR)
    BY <1>2, <1>3, ConcatHas
  <2> QED BY <1>3, <2>1
<1>5. MsgsOf(d.in, WR) = MsgsOf(e.in, WR) \cup Written(r.frames)
  BY <1>2, <1>3, MsgsConcat DEF Written, WR
<1>6. /\ r.a.active <=> h.t = "requesting" \/ (h.t # "result" /\ b.active)
      /\ h.t # "result" => r.a.held = b.held
      /\ h.t = "result" /\ r.a.held # <<>> => b.queued # {} \/ Written(r.frames) # {}
      /\ r.a.queued \subseteq b.queued \cup Written(r.frames)
      /\ h.t = "replay" => r.a.queued \cap ToSet(h.ms) = {}
      /\ In(b.steering.frames) \subseteq Written(r.frames) \cup In(r.a.steering.frames)
  BY <1>1 DEF ClaudeHears
<1>w. Written(r.frames) # {} => Has(r.frames, WR) BY MsgsHas DEF Written, WR
<1>n. /\ h.t \in RQ <=> h.t = "requesting"
      /\ h.t \in RS <=> h.t = "result"
      /\ h.t \in RP <=> h.t = "replay"
  BY DEF RQ, RS, RP
<1>l. /\ e.turn => Follows(lns, RS, RQ)
      /\ ~e.turn => Follows(lns, RQ, RS)
      /\ ~Has(lns, RQ) /\ ~Has(lns, RS) => (e.turn <=> b.active)
      /\ b.steering.frames # <<>> => b.active
      /\ b.held # <<>> /\ ~b.active => Has(e.in, WR) \/ e.own # <<>> \/ Has(lns, RQ)
      /\ b.queued \subseteq MsgsOf(e.in, WR) \cup In(e.own) \cup MsgsOf(lns, RP)
                              \cup In(b.steering.frames)
  BY DEF ClaudeLink
<1> HIDE DEF RQ, RS, RP, WR
<1>8. (d.turn => Follows(u, RS, RQ)) /\ (~d.turn => Follows(u, RQ, RS))
  BY <1>3, <1>l, <1>t
<1>9. ~Has(u, RQ) /\ ~Has(u, RS) => (d.turn <=> r.a.active)
  BY <1>3, <1>6, <1>l, <1>t, <1>n
<1>10. ASSUME r.a.held # <<>>, ~r.a.active PROVE Has(d.in, WR) \/ d.own # <<>> \/ Has(u, RQ)
  <2>1. CASE h.t # "result" BY <1>3, <1>4, <1>6, <1>10, <1>l, <1>n, <1>t, <2>1
  <2>2. CASE h.t = "result" /\ Written(r.frames) # {} BY <1>4, <1>w, <2>2
  <2>3. CASE h.t = "result" /\ Written(r.frames) = {}
    <3>1. PICK m \in b.queued : TRUE BY <1>6, <1>10, <2>3
    <3>2. CASE m \in MsgsOf(e.in, WR) BY <1>4, <3>2, MsgsHas
    <3>3. CASE m \in In(e.own)
      <4>1. In(<<>>) = {} BY EmptyOnce
      <4> QED BY <1>3, <3>3, <4>1
    <3>4. CASE m \in MsgsOf(lns, RP)
      <4>1. m \in MsgsOf(u, RP) BY <1>m, <1>n, <2>3, <3>4
      <4> QED BY <1>b, <1>n, <2>3, <4>1, MsgsHas
    <3>5. CASE m \in In(b.steering.frames)
      <4>1. In(<<>>) = {} BY EmptyOnce
      <4> QED BY <1>1, <1>6, <1>10, <2>3, <3>5, <4>1
    <3> QED BY <1>l, <3>1, <3>2, <3>3, <3>4, <3>5
  <2> QED BY <2>1, <2>2, <2>3
<1>11. r.a.queued \subseteq MsgsOf(d.in, WR) \cup In(d.own) \cup MsgsOf(u, RP)
                              \cup In(r.a.steering.frames)
  BY <1>3, <1>5, <1>6, <1>l, <1>m, <1>n
<1>12. ClaudeLink(r.a, d, u) BY <1>1, <1>8, <1>9, <1>10, <1>11, <1>b DEF ClaudeLink
<1> QED BY <1>12 DEF d, r, u, h

\* One is between two others in words put together if it is in one of them.
LEMMA BetweenConcat ==
    ASSUME NEW R, NEW s \in Seq(R), NEW u \in Seq(R), NEW A, NEW B, NEW C,
           Between(s, A, B, C), ~Has(u, C)
    PROVE  Between(s \o u, A, B, C)
<1> DEFINE w == s \o u
           l == Len(s)
<1>1. /\ \A i \in DOMAIN s : i \in DOMAIN w /\ w[i] = s[i]
      /\ \A i \in DOMAIN w : (i \in DOMAIN s /\ w[i] = s[i])
                             \/ (i - l \in DOMAIN u /\ w[i] = u[i - l])
      /\ (\A i \in DOMAIN s : i \in Nat /\ i <= l) /\ (\A i \in DOMAIN u : i \in Nat /\ i >= 1)
      /\ w \in Seq(R) /\ l \in Nat
  BY ConcatParts
<1>2. \A i \in DOMAIN w : i \in Nat
  <2> HIDE DEF w
  <2> QED BY <1>1
<1> HIDE DEF w, l
<1> SUFFICES ASSUME NEW k \in DOMAIN w, NEW i \in DOMAIN w, k < i, w[k].t \in A, w[i].t \in C
             PROVE  \E j \in DOMAIN w : k < j /\ j < i /\ w[j].t \in B
  BY DEF Between, w
<1>3. i \in DOMAIN s /\ w[i] = s[i] BY <1>1 DEF Has
<1>4. k \in DOMAIN s /\ w[k] = s[k] BY <1>1, <1>2, <1>3
<1>5. PICK j \in DOMAIN s : k < j /\ j < i /\ s[j].t \in B BY <1>3, <1>4 DEF Between
<1> QED BY <1>1, <1>5

\* The CLI reads or takes something, and no turn begins or ends with it.
LEMMA ClaudeLinkQuiet ==
    ASSUME NEW b \in ClaudeState, NEW e, NEW d, NEW R, NEW lns \in Seq(R), NEW u \in Seq(R),
           ClaudeLink(b, e, lns), ~Has(u, RQ), ~Has(u, RS), ~Has(u, RP), d.turn = e.turn,
           e.turn \/ (Has(e.in, WR) => Has(d.in, WR) \/ d.own # <<>>),
           e.own # <<>> => d.own # <<>>,
           MsgsOf(e.in, WR) \cup In(e.own) \subseteq MsgsOf(d.in, WR) \cup In(d.own)
    PROVE  ClaudeLink(b, d, lns \o u)
<1> DEFINE w == lns \o u
<1>1. \A A : Has(w, A) <=> Has(lns, A) \/ Has(u, A) BY ConcatHas
<1>2. \A A, B : Follows(w, A, B) <=> (Follows(lns, A, B) \/ Has(u, B)) /\ Follows(u, A, B)
  BY ConcatWord
<1>3. Follows(u, RS, RQ) /\ Follows(u, RQ, RS) BY DEF Follows, Has
<1>4. MsgsOf(lns, RP) \subseteq MsgsOf(w, RP) BY MsgsConcat
<1>5. Between(lns, RS, RQ, RP) BY DEF ClaudeLink
<1>6. Between(w, RS, RQ, RP) BY <1>5, BetweenConcat
<1>7. Follows(lns, RS, RQ) /\ Has(lns, RS) => Has(lns, RQ) BY DEF Follows, Has
<1> HIDE DEF w
<1> HIDE DEF RQ, RS, RP, WR
<1>8. e.turn /\ ~b.active => Has(lns, RQ) BY <1>7 DEF ClaudeLink
<1>9. b.held # <<>> /\ ~b.active => Has(d.in, WR) \/ d.own # <<>> \/ Has(w, RQ)
  BY <1>1, <1>8 DEF ClaudeLink
<1>10. ClaudeLink(b, d, w) BY <1>1, <1>2, <1>3, <1>4, <1>6, <1>9 DEF ClaudeLink
<1> QED BY <1>10 DEF w

\* Two items more: the one between comes first.
LEMMA BetweenPair ==
    ASSUME NEW R, NEW s \in Seq(R), NEW x \in R, NEW y \in R, NEW A, NEW B, NEW C,
           Between(s, A, B, C), x.t \in B, x.t \notin A, x.t \notin C, y.t \notin A
    PROVE  Between(s \o <<x, y>>, A, B, C)
<1> DEFINE u == <<x, y>>
           w == s \o u
           l == Len(s)
<1>0. u \in Seq(R) /\ DOMAIN u = {1, 2} /\ u[1] = x /\ u[2] = y OBVIOUS
<1> HIDE DEF u
<1>1. /\ \A i \in DOMAIN s : i \in DOMAIN w /\ w[i] = s[i]
      /\ \A i \in DOMAIN u : l + i \in DOMAIN w /\ w[l + i] = u[i]
      /\ \A i \in DOMAIN w : (i \in DOMAIN s /\ w[i] = s[i])
                             \/ (i - l \in DOMAIN u /\ w[i] = u[i - l])
      /\ (\A i \in DOMAIN s : i \in Nat /\ i <= l) /\ w \in Seq(R) /\ l \in Nat
  BY <1>0, ConcatParts
<1>2. \A i \in DOMAIN w : i \in Nat
  <2> HIDE DEF w
  <2> QED BY <1>1
<1>3. l + 1 \in DOMAIN w /\ w[l + 1] = x BY <1>0, <1>1
<1> HIDE DEF w, l
<1> SUFFICES ASSUME NEW k \in DOMAIN w, NEW i \in DOMAIN w, k < i, w[k].t \in A, w[i].t \in C
             PROVE  \E j \in DOMAIN w : k < j /\ j < i /\ w[j].t \in B
  BY DEF Between, w, u
<1>4. k \in DOMAIN s /\ w[k] = s[k]
  <2>1. CASE k - l \in DOMAIN u /\ w[k] = u[k - l]
    <3>1. u[k - l] = x \/ u[k - l] = y BY <2>1, <1>0
    <3> QED BY <2>1, <3>1
  <2> QED BY <1>1, <2>1
<1>5. CASE i \in DOMAIN s /\ w[i] = s[i]
  <2>1. PICK j \in DOMAIN s : k < j /\ j < i /\ s[j].t \in B BY <1>4, <1>5 DEF Between
  <2> QED BY <1>1, <2>1
<1>6. CASE i - l \in DOMAIN u /\ w[i] = u[i - l]
  <2>1. i - l = 2 BY <1>0, <1>6
  <2>2. i = l + 2 /\ k < l + 1 BY <1>1, <1>2, <1>4, <2>1
  <2>3. l + 1 < i BY <1>1, <2>2
  <2> QED BY <1>3, <2>2, <2>3
<1> QED BY <1>1, <1>5, <1>6

\* A turn begins.
LEMMA ClaudeLinkStarts ==
    ASSUME NEW b \in ClaudeState, NEW e, NEW d, NEW R, NEW lns \in Seq(R), NEW x \in R, NEW y \in R,
           ClaudeLink(b, e, lns), x.t = "requesting", y.t = "replay", d.turn,
           MsgsOf(e.in, WR) \cup In(e.own) \subseteq MsgsOf(d.in, WR) \cup In(d.own) \cup ToSet(y.ms)
    PROVE  ClaudeLink(b, d, lns \o <<x, y>>)
<1> DEFINE u == <<x, y>>
           w == lns \o u
<1>t. /\ x.t \in RQ /\ x.t \notin RS /\ x.t \notin RP
      /\ y.t \notin RQ /\ y.t \notin RS /\ y.t \in RP
  BY DEF RQ, RS, RP
<1>s. u \in Seq(R) OBVIOUS
<1>u. /\ \A A : Has(u, A) <=> x.t \in A \/ y.t \in A
      /\ \A A, B : Follows(u, A, B) <=> (x.t \in A => y.t \in B) /\ y.t \notin A
  BY TwoWord
<1>m. MsgsOf(u, RP) = ToSet(y.ms)
  <2>1. MsgsOf(u, RP) = (IF x.t \in RP THEN ToSet(x.ms) ELSE {})
                           \cup (IF y.t \in RP THEN ToSet(y.ms) ELSE {})
    BY MsgsTwo
  <2> QED BY <2>1, <1>t
<1>l. Between(lns, RS, RQ, RP) BY DEF ClaudeLink
<1>4. Between(w, RS, RQ, RP) BY <1>l, <1>t, BetweenPair
<1> HIDE DEF u
<1>1. \A A : Has(w, A) <=> Has(lns, A) \/ Has(u, A) BY <1>s, ConcatHas
<1>2. \A A, B : Follows(w, A, B) <=> (Follows(lns, A, B) \/ Has(u, B)) /\ Follows(u, A, B)
  BY <1>s, ConcatWord
<1>3. MsgsOf(w, RP) = MsgsOf(lns, RP) \cup MsgsOf(u, RP) BY <1>s, MsgsConcat
<1> HIDE DEF w
<1>9. Follows(w, RS, RQ) /\ Has(w, RQ) BY <1>1, <1>2, <1>t, <1>u
<1> HIDE DEF RQ, RS, RP, WR
<1>10. ClaudeLink(b, d, w) BY <1>3, <1>4, <1>9, <1>m DEF ClaudeLink
<1> QED BY <1>10 DEF w, u

\* A turn ends.
LEMMA ClaudeLinkEnds ==
    ASSUME NEW b \in ClaudeState, NEW e, NEW d, NEW R, NEW lns \in Seq(R), NEW u \in Seq(R),
           ClaudeLink(b, e, lns), e.turn, ~d.turn,
           Has(u, RS), ~Has(u, RQ), ~Has(u, RP), d.own = e.own, MsgsOf(d.in, WR) = MsgsOf(e.in, WR)
    PROVE  ClaudeLink(b, d, lns \o u)
<1> DEFINE w == lns \o u
<1>1. \A A : Has(w, A) <=> Has(lns, A) \/ Has(u, A) BY ConcatHas
<1>2. \A A, B : Follows(w, A, B) <=> (Follows(lns, A, B) \/ Has(u, B)) /\ Follows(u, A, B)
  BY ConcatWord
<1>3. Follows(u, RQ, RS) BY DEF Follows, Has
<1>4. MsgsOf(lns, RP) \subseteq MsgsOf(w, RP) BY MsgsConcat
<1>5. Between(lns, RS, RQ, RP) BY DEF ClaudeLink
<1>6. Between(w, RS, RQ, RP) BY <1>5, BetweenConcat
<1>7. Follows(lns, RS, RQ) /\ Has(lns, RS) => Has(lns, RQ) BY DEF Follows, Has
<1> HIDE DEF w
<1> HIDE DEF RQ, RS, RP, WR
<1>8. ~b.active => Has(lns, RQ) BY <1>7 DEF ClaudeLink
<1>10. ClaudeLink(b, d, w) BY <1>1, <1>2, <1>3, <1>4, <1>6, <1>8 DEF ClaudeLink
<1> QED BY <1>10 DEF w

\* The turn takes the messages that wait with the CLI.
LEMMA ClaudeLinkTakes ==
    ASSUME NEW b \in ClaudeState, NEW e, NEW d, NEW R, NEW lns \in Seq(R), NEW y \in R,
           ClaudeLink(b, e, lns), e.turn, d.turn, y.t = "replay", d.in = e.in,
           In(e.own) \subseteq ToSet(y.ms)
    PROVE  ClaudeLink(b, d, lns \o <<y>>)
<1> DEFINE w == lns \o <<y>>
<1>t. y.t \notin RQ /\ y.t \notin RS /\ y.t \in RP BY DEF RQ, RS, RP
<1>s. <<y>> \in Seq(R) OBVIOUS
<1>1. \A A : Has(w, A) <=> Has(lns, A) \/ Has(<<y>>, A) BY <1>s, ConcatHas
<1>2. \A A, B : Follows(w, A, B) <=> (Follows(lns, A, B) \/ Has(<<y>>, B)) /\ Follows(<<y>>, A, B)
  BY <1>s, ConcatWord
<1>3. \A A, B : (Has(<<y>>, A) <=> y.t \in A) /\ (Follows(<<y>>, A, B) <=> y.t \notin A)
  BY OneWord
<1>l. Between(lns, RS, RQ, RP) /\ Follows(lns, RS, RQ) BY DEF ClaudeLink
<1>4. Between(w, RS, RQ, RP) BY <1>l, BetweenAppend
<1>a. MsgsOf(<<y>>, RP) = ToSet(y.ms)
  <2>1. MsgsOf(<<y>>, RP) = IF y.t \in RP THEN ToSet(y.ms) ELSE {} BY MsgsOne
  <2> QED BY <2>1, <1>t
<1>b. MsgsOf(w, RP) = MsgsOf(lns, RP) \cup MsgsOf(<<y>>, RP)
  <2> DEFINE v == <<y>>
  <2>1. v \in Seq(R) BY <1>s
  <2> HIDE DEF v
  <2>2. MsgsOf(lns \o v, RP) = MsgsOf(lns, RP) \cup MsgsOf(v, RP) BY <2>1, MsgsConcat
  <2> QED BY <2>2 DEF v
<1>m. MsgsOf(w, RP) = MsgsOf(lns, RP) \cup ToSet(y.ms) BY <1>a, <1>b
<1>7. Has(lns, RS) => Has(lns, RQ) BY <1>l DEF Follows, Has
<1> HIDE DEF w
<1> HIDE DEF RQ, RS, RP, WR
<1>8. ~b.active => Has(lns, RQ) BY <1>7 DEF ClaudeLink
<1>10. ClaudeLink(b, d, w) BY <1>1, <1>2, <1>3, <1>4, <1>8, <1>m, <1>t, <1>l DEF ClaudeLink
<1> QED BY <1>10 DEF w

\* What a step of the process does to what it asks: it waits for less, and says
\* so, or asks once.
Fewer(e, d, u, ends) ==
    /\ d.asked = e.asked /\ d.asks \subseteq e.asks
    /\ d.in = e.in \/ (e.in # <<>> /\ (Head(e.in).t = "answer" => Head(e.in).n \notin d.asks))
    /\ e.turn /\ d.asks # {} => d.turn /\ ~Has(u, ends)
    /\ \A i \in DOMAIN u :
          u[i].n = 0 \/ (u[i].t = "resolved" /\ u[i].n \in e.asks /\ u[i].n \notin d.asks)

\* ... it asks once, before any line that ends a turn, ...
AsksOne(e, d, u, ends) ==
    /\ e.asks = {} /\ d.asked = e.asked + 1 /\ d.asked <= MaxAsks /\ d.asks = {d.asked}
    /\ d.turn /\ d.in = e.in
    /\ \E x : u = <<x>> /\ x.n = d.asked /\ x.t \notin ends
              /\ x.t \in {"can_use_tool", "requestApproval", "request_permission"}

\* ... and it read a frame, or none.
Reading(e, d) == d.in = e.in \/ (e.in # <<>> /\ d.in = Tail(e.in))

\* What a step of the CLI does: no turn begins or ends, ...
ClaudeQuietly(e, d, u) ==
    /\ ~Has(u, RQ) /\ ~Has(u, RS) /\ ~Has(u, RP) /\ d.turn = e.turn
    /\ e.turn \/ (Has(e.in, WR) => Has(d.in, WR) \/ d.own # <<>>)
    /\ e.own # <<>> => d.own # <<>>
    /\ MsgsOf(e.in, WR) \cup In(e.own) \subseteq MsgsOf(d.in, WR) \cup In(d.own)

\* ... one begins, ...
ClaudeStarting(e, d, u) ==
    \E x, y : /\ u = <<x, y>> /\ x.t = "requesting" /\ y.t = "replay" /\ d.turn
              /\ MsgsOf(e.in, WR) \cup In(e.own)
                    \subseteq MsgsOf(d.in, WR) \cup In(d.own) \cup ToSet(y.ms)

\* ... one ends, ...
ClaudeEnding(e, d, u) ==
    /\ e.turn /\ ~d.turn /\ Has(u, RS) /\ ~Has(u, RQ) /\ ~Has(u, RP)
    /\ d.own = e.own /\ MsgsOf(d.in, WR) = MsgsOf(e.in, WR)

\* ... or one takes the messages that wait.
ClaudeTaking(e, d, u) ==
    \E y : u = <<y>> /\ y.t = "replay" /\ e.turn /\ d.turn /\ d.in = e.in
           /\ In(e.own) \subseteq ToSet(y.ms)

\* A step of the CLI is one of these.
ClaudeDoes(e, d, u) ==
    /\ Reading(e, d)
    /\ Fewer(e, d, u, RS) \/ AsksOne(e, d, u, RS)
    /\ ClaudeQuietly(e, d, u) \/ ClaudeStarting(e, d, u) \/ ClaudeEnding(e, d, u)
       \/ ClaudeTaking(e, d, u)

\* No line, and one or two that ask nothing.
LEMMA NoLines ==
    /\ \A A : ~Has(<<>>, A)
    /\ \A i \in DOMAIN <<>> : FALSE
BY EmptyWord DEF Has

\* One line that asks nothing, ...
LEMMA QuietLine ==
    ASSUME NEW t, NEW q
    PROVE  LET u == <<[t |-> t, ms |-> q, n |-> 0]>>
           IN  (\A A : Has(u, A) <=> t \in A) /\ \A i \in DOMAIN u : u[i].n = 0
<1> DEFINE x == [t |-> t, ms |-> q, n |-> 0]
<1>1. \A A : Has(<<x>>, A) <=> x.t \in A BY OneWord
<1>2. x.t = t /\ x.n = 0 OBVIOUS
<1> HIDE DEF x
<1>3. \A i \in DOMAIN <<x>> : <<x>>[i] = x OBVIOUS
<1>4. (\A A : Has(<<x>>, A) <=> t \in A) /\ \A i \in DOMAIN <<x>> : <<x>>[i].n = 0
  BY <1>1, <1>2, <1>3
<1> QED BY <1>4 DEF x

\* ... and two.
LEMMA QuietLines ==
    ASSUME NEW t, NEW v, NEW q, NEW p
    PROVE  LET u == <<[t |-> t, ms |-> q, n |-> 0], [t |-> v, ms |-> p, n |-> 0]>>
           IN  (\A A : Has(u, A) <=> t \in A \/ v \in A) /\ \A i \in DOMAIN u : u[i].n = 0
<1> DEFINE x == [t |-> t, ms |-> q, n |-> 0]
           y == [t |-> v, ms |-> p, n |-> 0]
           u == <<x, y>>
<1>1. \A A : Has(u, A) <=> x.t \in A \/ y.t \in A BY TwoWord
<1>2. x.t = t /\ x.n = 0 /\ y.t = v /\ y.n = 0 OBVIOUS
<1> HIDE DEF x, y
<1>3. \A i \in DOMAIN u : u[i] = x \/ u[i] = y OBVIOUS
<1> HIDE DEF u
<1>4. (\A A : Has(u, A) <=> t \in A \/ v \in A) /\ \A i \in DOMAIN u : u[i].n = 0
  BY <1>1, <1>2, <1>3
<1> QED BY <1>4 DEF u, x, y

\* A turn of the CLI ends.
LEMMA ClaudeEndsDoes ==
    ASSUME NEW e \in ClaudeProcess
    PROVE  LET s == Claude!Ends(e)
           IN  /\ s.e.in = e.in /\ s.e.own = e.own /\ s.e.turn = FALSE /\ s.e.asks = {}
               /\ s.e.asked = e.asked
               /\ Has(s.lines, RS) /\ ~Has(s.lines, RQ) /\ ~Has(s.lines, RP)
               /\ \A i \in DOMAIN s.lines : s.lines[i].n = 0
<1> DEFINE d == [e EXCEPT !.turn = FALSE, !.asks = {}, !.subagent = FALSE]
           x == [t |-> "task_notification", ms |-> <<>>, n |-> 0]
           y == [t |-> "result", ms |-> <<>>, n |-> 0]
           said == IF e.subagent THEN <<x, y>> ELSE <<y>>
<1>1. Claude!Ends(e) = [e |-> d, lines |-> said]
  BY DEF Claude!Ends, Claude!Says, Claude!Frame
<1>2. d.in = e.in /\ d.own = e.own /\ d.turn = FALSE /\ d.asks = {} /\ d.asked = e.asked
  BY DEF ClaudeProcess
<1>3. (\A A : Has(<<x, y>>, A) <=> "task_notification" \in A \/ "result" \in A)
      /\ \A i \in DOMAIN <<x, y>> : <<x, y>>[i].n = 0
  BY QuietLines
<1>4. (\A A : Has(<<y>>, A) <=> "result" \in A) /\ \A i \in DOMAIN <<y>> : <<y>>[i].n = 0
  BY QuietLine
<1> HIDE DEF x, y
<1>5. /\ Has(said, RS) /\ ~Has(said, RQ) /\ ~Has(said, RP)
      /\ \A i \in DOMAIN said : said[i].n = 0
  <2>1. CASE e.subagent BY <1>3, <2>1 DEF RS, RQ, RP
  <2>2. CASE ~e.subagent BY <1>4, <2>2 DEF RS, RQ, RP
  <2> QED BY <2>1, <2>2
<1> HIDE DEF d, said
<1> QED BY <1>1, <1>2, <1>5

\* The CLI reads a frame; `g` is it before.
LEMMA ClaudeReadsDoes ==
    ASSUME NEW g \in ClaudeProcess, g.in # <<>>
    PROVE  LET e == [g EXCEPT !.in = Tail(@)]
               s == Claude!Reads(e, Head(g.in))
           IN  ClaudeDoes(g, s.e, s.lines)
<1> DEFINE h == Head(g.in)
           v == Tail(g.in)
           e == [g EXCEPT !.in = v]
           s == Claude!Reads(e, h)
<1> SUFFICES ClaudeDoes(g, s.e, s.lines) OBVIOUS
<1>0. g.in \in Seq(Carried(ClaudeFrame)) /\ g.own \in Seq(Msg) BY DEF ClaudeProcess
<1>1. v \in Seq(Carried(ClaudeFrame)) /\ h \in Carried(ClaudeFrame) BY <1>0, TailOnce
<1>2. e \in ClaudeProcess /\ e.in = v /\ e.turn = g.turn /\ e.own = g.own /\ e.asks = g.asks
      /\ e.asked = g.asked
  BY <1>1 DEF ClaudeProcess
<1>3. Has(g.in, WR) <=> h.t \in WR \/ Has(v, WR) BY <1>0, TailWord
<1>4. MsgsOf(g.in, WR) = MsgsOf(v, WR) \cup (IF h.t \in WR THEN ToSet(h.ms) ELSE {})
  BY <1>0, MsgsTail
<1>5. h.t \in ClaudeFrame /\ h.ms \in Seq(Msg) BY <1>1 DEF Carried
<1>6. ToSet(h.ms) = In(h.ms) BY <1>5, ToSetIn
<1> HIDE DEF h, v, e
<1>w. h.t \in WR <=> h.t \in {"user", "now"} BY DEF WR
<1>n. /\ \A A : ~Has(<<>>, A)
      /\ \A i \in DOMAIN <<>> : FALSE
  BY NoLines
<1>q. ASSUME NEW d, d.in = v, d.turn = g.turn, d.asked = g.asked, d.asks \subseteq g.asks,
             h.t = "answer" => h.n \notin d.asks, s = [e |-> d, lines |-> <<>>],
             \/ d.own = g.own /\ h.t \notin WR
             \/ h.t \in WR /\ In(d.own) = In(g.own) \cup In(h.ms) /\ (g.turn \/ d.own # <<>>)
                /\ (g.own # <<>> => d.own # <<>>)
      PROVE  ClaudeDoes(g, s.e, s.lines)
  <2>1. Reading(g, d) BY <1>q DEF Reading, v
  <2>2. Fewer(g, d, <<>>, RS) BY <1>n, <1>q DEF Fewer, h
  <2>3. ClaudeQuietly(g, d, <<>>) BY <1>n, <1>q, <1>3, <1>4, <1>6 DEF ClaudeQuietly
  <2> QED BY <1>q, <2>1, <2>2, <2>3 DEF ClaudeDoes
<1>7. CASE h.t \in {"user", "now"}
  <2>1. CASE ~g.turn /\ g.own = <<>>
    <3> DEFINE d == [e EXCEPT !.turn = TRUE]
               x == [t |-> "requesting", ms |-> <<>>, n |-> 0]
               y == [t |-> "replay", ms |-> h.ms, n |-> 0]
    <3>1. s = [e |-> d, lines |-> <<x, y>>]
      BY <1>2, <1>7, <2>1 DEF Claude!Reads, Claude!Starts, Claude!Says, Claude!Frame
    <3>2. d.in = v /\ d.turn /\ d.own = g.own /\ d.asks = g.asks /\ d.asked = g.asked
      BY <1>2 DEF ClaudeProcess
    <3>3. (\A A : Has(<<x, y>>, A) <=> "requesting" \in A \/ "replay" \in A)
          /\ \A i \in DOMAIN <<x, y>> : <<x, y>>[i].n = 0
      BY QuietLines
    <3>4. x.t = "requesting" /\ y.t = "replay" /\ y.ms = h.ms OBVIOUS
    <3> HIDE DEF x, y, d
    <3>5. In(g.own) = {}
      <4>1. In(<<>>) = {} BY EmptyOnce
      <4> QED BY <2>1, <4>1
    <3>6. ClaudeStarting(g, d, <<x, y>>) BY <1>4, <3>2, <3>4, <3>5 DEF ClaudeStarting
    <3>7. Reading(g, d) BY <3>2 DEF Reading, v
    <3>8. ~Has(<<x, y>>, RS) BY <3>3 DEF RS
    <3>10. Fewer(g, d, <<x, y>>, RS) BY <1>7, <2>1, <3>2, <3>3, <3>8 DEF Fewer, h
    <3> QED BY <3>1, <3>6, <3>7, <3>10 DEF ClaudeDoes
  <2>2. CASE g.turn \/ g.own # <<>>
    <3> DEFINE d == [e EXCEPT !.own = @ \o h.ms]
    <3>1. s = [e |-> d, lines |-> <<>>]
      BY <1>2, <1>7, <2>2 DEF Claude!Reads, Claude!Says
    <3>2. g.own \o h.ms \in Seq(Msg) /\ In(g.own \o h.ms) = In(g.own) \cup In(h.ms)
      BY <1>0, <1>5, ConcatOnce
    <3>3. d.in = v /\ d.turn = g.turn /\ d.own = g.own \o h.ms /\ d.asks = g.asks
          /\ d.asked = g.asked
      BY <1>2 DEF ClaudeProcess
    <3>4. g.own # <<>> => g.own \o h.ms # <<>> BY <1>0, <1>5
    <3> HIDE DEF d
    <3> QED BY <1>7, <1>q, <1>w, <2>2, <3>1, <3>2, <3>3, <3>4
  <2> QED BY <2>1, <2>2
<1>8. CASE h.t = "answer"
  <2> DEFINE d == [e EXCEPT !.asks = @ \ {h.n}]
  <2>1. s = [e |-> d, lines |-> <<>>] BY <1>8 DEF Claude!Reads, Claude!Says
  <2>2. d.in = v /\ d.turn = g.turn /\ d.own = g.own /\ d.asks = g.asks \ {h.n}
        /\ d.asked = g.asked
    BY <1>2 DEF ClaudeProcess
  <2> HIDE DEF d
  <2>3. h.t \notin WR BY <1>8 DEF WR
  <2> QED BY <1>q, <2>1, <2>2, <2>3
<1>9. CASE h.t = "interrupt"
  <2>1. h.t \notin WR /\ h.t # "answer" BY <1>9 DEF WR
  <2>2. CASE ~g.turn
    <3>1. s = [e |-> e, lines |-> <<>>] BY <1>2, <1>9, <2>2 DEF Claude!Reads, Claude!Says
    <3> QED BY <1>2, <1>q, <2>1, <3>1
  <2>3. CASE g.turn
    <3>1. s = Claude!Ends(e) BY <1>2, <1>9, <2>3 DEF Claude!Reads
    <3>2. /\ s.e.in = e.in /\ s.e.own = e.own /\ s.e.turn = FALSE /\ s.e.asks = {}
          /\ s.e.asked = e.asked
          /\ Has(s.lines, RS) /\ ~Has(s.lines, RQ) /\ ~Has(s.lines, RP)
          /\ \A i \in DOMAIN s.lines : s.lines[i].n = 0
      BY <1>2, <3>1, ClaudeEndsDoes
    <3> HIDE DEF s
    <3>3. Reading(g, s.e) BY <1>2, <3>2 DEF Reading, v
    <3>4. Fewer(g, s.e, s.lines, RS) BY <1>2, <2>1, <3>2 DEF Fewer, h
    <3>5. ClaudeEnding(g, s.e, s.lines) BY <1>2, <1>4, <2>1, <2>3, <3>2 DEF ClaudeEnding
    <3> QED BY <3>3, <3>4, <3>5 DEF ClaudeDoes
  <2> QED BY <2>2, <2>3
<1>10. CASE h.t = "background_tasks"
  <2> DEFINE d == [e EXCEPT !.subagent = FALSE]
             x == [t |-> "task_updated", ms |-> <<>>, n |-> 0]
             y == [t |-> "moved", ms |-> <<>>, n |-> 0]
             u == IF e.subagent THEN <<x, y>> ELSE <<y>>
             c == IF e.subagent THEN d ELSE e
  <2>1. s = [e |-> c, lines |-> u]
    BY <1>10 DEF Claude!Reads, Claude!Says, Claude!Frame
  <2>2. c.in = v /\ c.turn = g.turn /\ c.own = g.own /\ c.asks = g.asks /\ c.asked = g.asked
    BY <1>2 DEF ClaudeProcess
  <2>3. (\A A : Has(<<x, y>>, A) <=> "task_updated" \in A \/ "moved" \in A)
        /\ \A i \in DOMAIN <<x, y>> : <<x, y>>[i].n = 0
    BY QuietLines
  <2>4. (\A A : Has(<<y>>, A) <=> "moved" \in A) /\ \A i \in DOMAIN <<y>> : <<y>>[i].n = 0
    BY QuietLine
  <2> HIDE DEF x, y, d
  <2>5. ~Has(u, RS) /\ ~Has(u, RQ) /\ ~Has(u, RP) /\ \A i \in DOMAIN u : u[i].n = 0
    <3>1. CASE e.subagent BY <2>3, <3>1 DEF RS, RQ, RP
    <3>2. CASE ~e.subagent BY <2>4, <3>2 DEF RS, RQ, RP
    <3> QED BY <3>1, <3>2
  <2> HIDE DEF u, c
  <2>6. h.t \notin WR /\ h.t # "answer" BY <1>10 DEF WR
  <2>7. Reading(g, c) BY <2>2 DEF Reading, v
  <2>8. Fewer(g, c, u, RS) BY <2>2, <2>5, <2>6 DEF Fewer, h
  <2>9. ClaudeQuietly(g, c, u) BY <1>3, <1>4, <2>2, <2>5, <2>6 DEF ClaudeQuietly
  <2> QED BY <2>1, <2>7, <2>8, <2>9 DEF ClaudeDoes
<1> QED BY <1>5, <1>7, <1>8, <1>9, <1>10 DEF ClaudeFrame

\* What each step of the CLI does.
LEMMA ClaudeStepDoes ==
    ASSUME NEW e \in ClaudeProcess, NEW s \in Claude!ProcessSteps(e, MaxAsks)
    PROVE  ClaudeDoes(e, s.e, s.lines)
<1>0. e.in \in Seq(Carried(ClaudeFrame)) /\ e.own \in Seq(Msg) /\ e.asked \in 0..MaxAsks
  BY DEF ClaudeProcess
<1>a. MaxAsks \in Nat BY EngineAssumption
<1>1. \/ e.in # <<>> /\ s = Claude!Reads([e EXCEPT !.in = Tail(@)], Head(e.in))
      \/ e.turn /\ s = Claude!Ends(e)
      \/ e.turn /\ s = Claude!Says([e EXCEPT !.own = <<>>], <<Claude!Frame("replay", e.own)>>)
      \/ /\ ~e.turn /\ e.own # <<>>
         /\ s = Claude!Starts([e EXCEPT !.own = Tail(@)], <<Head(e.own)>>)
      \/ /\ e.turn /\ e.asks = {} /\ e.asked < MaxAsks
         /\ s = Claude!Says([e EXCEPT !.asks = {e.asked + 1}, !.asked = @ + 1],
                            <<Claude!Numbered("can_use_tool", e.asked + 1)>>)
      \/ s = Claude!Says([e EXCEPT !.subagent = TRUE], <<Claude!Frame("task_started", <<>>)>>)
  BY DEF Claude!ProcessSteps
<1>2. CASE e.in # <<>> /\ s = Claude!Reads([e EXCEPT !.in = Tail(@)], Head(e.in))
  BY <1>2, ClaudeReadsDoes
<1>3. CASE e.turn /\ s = Claude!Ends(e)
  <2>1. /\ s.e.in = e.in /\ s.e.own = e.own /\ s.e.turn = FALSE /\ s.e.asks = {}
        /\ s.e.asked = e.asked
        /\ Has(s.lines, RS) /\ ~Has(s.lines, RQ) /\ ~Has(s.lines, RP)
        /\ \A i \in DOMAIN s.lines : s.lines[i].n = 0
    BY <1>3, ClaudeEndsDoes
  <2>2. Reading(e, s.e) BY <2>1 DEF Reading
  <2>3. Fewer(e, s.e, s.lines, RS) BY <2>1 DEF Fewer
  <2>4. ClaudeEnding(e, s.e, s.lines) BY <1>3, <2>1 DEF ClaudeEnding
  <2> QED BY <2>2, <2>3, <2>4 DEF ClaudeDoes
<1>4. CASE e.turn /\ s = Claude!Says([e EXCEPT !.own = <<>>], <<Claude!Frame("replay", e.own)>>)
  <2> DEFINE d == [e EXCEPT !.own = <<>>]
             y == [t |-> "replay", ms |-> e.own, n |-> 0]
             u == <<y>>
  <2>1. s = [e |-> d, lines |-> u] BY <1>4 DEF Claude!Says, Claude!Frame
  <2>2. d.in = e.in /\ d.turn = e.turn /\ d.asks = e.asks /\ d.asked = e.asked
    BY DEF ClaudeProcess
  <2>3. (\A A : Has(u, A) <=> "replay" \in A) /\ \A i \in DOMAIN u : u[i].n = 0
    BY QuietLine
  <2>4. y.t = "replay" /\ ToSet(y.ms) = In(e.own)
    <3>1. ToSet(e.own) = In(e.own) BY <1>0, ToSetIn
    <3> QED BY <3>1
  <2> HIDE DEF y, d
  <2>5. ClaudeTaking(e, d, u) BY <1>4, <2>2, <2>4 DEF ClaudeTaking
  <2> HIDE DEF u
  <2>6. Reading(e, d) BY <2>2 DEF Reading
  <2>7. ~Has(u, RS) BY <2>3 DEF RS
  <2>8. Fewer(e, d, u, RS) BY <2>2, <2>3, <2>7 DEF Fewer
  <2> QED BY <2>1, <2>5, <2>6, <2>8 DEF ClaudeDoes
<1>5. CASE /\ ~e.turn /\ e.own # <<>>
           /\ s = Claude!Starts([e EXCEPT !.own = Tail(@)], <<Head(e.own)>>)
  <2> DEFINE c == [e EXCEPT !.own = Tail(@)]
             d == [c EXCEPT !.turn = TRUE]
             q == <<Head(e.own)>>
             x == [t |-> "requesting", ms |-> <<>>, n |-> 0]
             y == [t |-> "replay", ms |-> q, n |-> 0]
             u == <<x, y>>
  <2>1. s = [e |-> d, lines |-> u] BY <1>5 DEF Claude!Starts, Claude!Says, Claude!Frame
  <2>2. d.in = e.in /\ d.turn /\ d.own = Tail(e.own) /\ d.asks = e.asks /\ d.asked = e.asked
    BY DEF ClaudeProcess
  <2>3. (\A A : Has(u, A) <=> "requesting" \in A \/ "replay" \in A)
        /\ \A i \in DOMAIN u : u[i].n = 0
    BY QuietLines
  <2>4. In(e.own) = In(Tail(e.own)) \cup {Head(e.own)} /\ Head(e.own) \in Msg
    BY <1>0, <1>5, TailOnce
  <2>5. ToSet(q) = {Head(e.own)}
    <3>1. ToSet(q) = In(q) /\ In(q) = {Head(e.own)} BY <2>4, ToSetIn, OneOnce
    <3> QED BY <3>1
  <2>6. x.t = "requesting" /\ y.t = "replay" /\ y.ms = q OBVIOUS
  <2> HIDE DEF x, y, d, q
  <2>7. ClaudeStarting(e, d, u) BY <2>2, <2>4, <2>5, <2>6 DEF ClaudeStarting
  <2> HIDE DEF u
  <2>8. Reading(e, d) BY <2>2 DEF Reading
  <2>9. Fewer(e, d, u, RS) BY <1>5, <2>2, <2>3 DEF Fewer
  <2> QED BY <2>1, <2>7, <2>8, <2>9 DEF ClaudeDoes
<1>6. CASE /\ e.turn /\ e.asks = {} /\ e.asked < MaxAsks
           /\ s = Claude!Says([e EXCEPT !.asks = {e.asked + 1}, !.asked = @ + 1],
                            <<Claude!Numbered("can_use_tool", e.asked + 1)>>)
  <2> DEFINE k == e.asked + 1
             d == [e EXCEPT !.asks = {k}, !.asked = @ + 1]
             x == [t |-> "can_use_tool", ms |-> <<>>, n |-> k]
             u == <<x>>
  <2>1. s = [e |-> d, lines |-> u] BY <1>6 DEF Claude!Says, Claude!Numbered
  <2>2. d.in = e.in /\ d.turn = e.turn /\ d.own = e.own /\ d.asks = {k} /\ d.asked = k
    BY DEF ClaudeProcess
  <2>3. k <= MaxAsks BY <1>0, <1>6, <1>a
  <2>4. \A A : Has(u, A) <=> x.t \in A BY OneWord
  <2>5. x.t = "can_use_tool" /\ x.n = k OBVIOUS
  <2> HIDE DEF x, d
  <2>6. x.t \notin RS BY <2>5 DEF RS
  <2>7. AsksOne(e, d, u, RS) BY <1>6, <2>2, <2>3, <2>5, <2>6 DEF AsksOne
  <2> HIDE DEF u
  <2>8. ClaudeQuietly(e, d, u) BY <1>6, <2>2, <2>4, <2>5 DEF ClaudeQuietly, RS, RQ, RP
  <2>9. Reading(e, d) BY <2>2 DEF Reading
  <2> QED BY <2>1, <2>7, <2>8, <2>9 DEF ClaudeDoes
<1>7. CASE s = Claude!Says([e EXCEPT !.subagent = TRUE], <<Claude!Frame("task_started", <<>>)>>)
  <2> DEFINE d == [e EXCEPT !.subagent = TRUE]
             u == <<[t |-> "task_started", ms |-> <<>>, n |-> 0]>>
  <2>1. s = [e |-> d, lines |-> u] BY <1>7 DEF Claude!Says, Claude!Frame
  <2>2. d.in = e.in /\ d.turn = e.turn /\ d.own = e.own /\ d.asks = e.asks /\ d.asked = e.asked
    BY DEF ClaudeProcess
  <2>3. (\A A : Has(u, A) <=> "task_started" \in A) /\ \A i \in DOMAIN u : u[i].n = 0
    BY QuietLine
  <2> HIDE DEF u, d
  <2>4. ~Has(u, RS) /\ ~Has(u, RQ) /\ ~Has(u, RP) BY <2>3 DEF RS, RQ, RP
  <2>5. Reading(e, d) BY <2>2 DEF Reading
  <2>6. Fewer(e, d, u, RS) BY <2>2, <2>3, <2>4 DEF Fewer
  <2>7. ClaudeQuietly(e, d, u) BY <2>2, <2>4 DEF ClaudeQuietly
  <2> QED BY <2>1, <2>5, <2>6, <2>7 DEF ClaudeDoes
<1> QED BY <1>1, <1>2, <1>3, <1>4, <1>5, <1>6, <1>7

\* The CLI's steps keep the adapter and it linked.
LEMMA ClaudeLinkStep ==
    ASSUME NEW b \in ClaudeState, NEW e \in ClaudeProcess, NEW lns \in Seq(Asking(ClaudeLine)),
           NEW s \in Claude!ProcessSteps(e, MaxAsks), ClaudeLink(b, e, lns)
    PROVE  ClaudeLink(b, s.e, lns \o s.lines)
<1> DEFINE d == s.e
           u == s.lines
           R == Asking(ClaudeLine)
<1>1. ClaudeDoes(e, d, u) BY ClaudeStepDoes
<1>2. d \in ClaudeProcess /\ u \in Seq(R)
  <2>1. s \in ClaudeSaid BY ClaudeStepsTyped
  <2> QED BY <2>1 DEF ClaudeSaid
<1> HIDE DEF d, u, R
<1>3. CASE ClaudeQuietly(e, d, u)
  <2>1. lns \in Seq(R) BY DEF R
  <2>2. ClaudeLink(b, d, lns \o u) BY <1>2, <1>3, <2>1, ClaudeLinkQuiet DEF ClaudeQuietly
  <2> QED BY <2>2 DEF d, u
<1>4. CASE ClaudeStarting(e, d, u)
  <2>1. PICK x, y : /\ u = <<x, y>> /\ x.t = "requesting" /\ y.t = "replay" /\ d.turn
                    /\ MsgsOf(e.in, WR) \cup In(e.own)
                         \subseteq MsgsOf(d.in, WR) \cup In(d.own) \cup ToSet(y.ms)
    BY <1>4 DEF ClaudeStarting
  <2>2. lns \in Seq(R) BY DEF R
  <2>3. x \in R /\ y \in R
    <3>1. \A i \in DOMAIN u : u[i] \in R BY <1>2
    <3>2. DOMAIN u = 1..2 /\ u[1] = x /\ u[2] = y BY <2>1
    <3> QED BY <3>1, <3>2
  <2>4. ClaudeLink(b, d, lns \o <<x, y>>) BY <2>1, <2>2, <2>3, ClaudeLinkStarts
  <2> QED BY <2>1, <2>4 DEF d, u
<1>5. CASE ClaudeEnding(e, d, u)
  <2>1. lns \in Seq(R) BY DEF R
  <2>2. ClaudeLink(b, d, lns \o u) BY <1>2, <1>5, <2>1, ClaudeLinkEnds DEF ClaudeEnding
  <2> QED BY <2>2 DEF d, u
<1>6. CASE ClaudeTaking(e, d, u)
  <2>1. PICK y : /\ u = <<y>> /\ y.t = "replay" /\ e.turn /\ d.turn /\ d.in = e.in
                 /\ In(e.own) \subseteq ToSet(y.ms)
    BY <1>6 DEF ClaudeTaking
  <2>2. lns \in Seq(R) BY DEF R
  <2>3. y \in R
    <3>1. \A i \in DOMAIN u : u[i] \in R BY <1>2
    <3>2. DOMAIN u = 1..1 /\ u[1] = y BY <2>1
    <3> QED BY <3>1, <3>2
  <2>4. ClaudeLink(b, d, lns \o <<y>>) BY <2>1, <2>2, <2>3, ClaudeLinkTakes
  <2> QED BY <2>1, <2>4 DEF d, u
<1> QED BY <1>1, <1>3, <1>4, <1>5, <1>6 DEF ClaudeDoes

\* The deadline of a steer, and a new process.
LEMMA ClaudeLinkFresh ==
    ASSUME NEW mode \in Mode
    PROVE  ClaudeLink(Claude!Fresh(mode), Claude!FreshProcess, <<>>)
<1> DEFINE b == Claude!Fresh(mode)
           e == Claude!FreshProcess
<1>1. b.active = FALSE /\ b.queued = {} /\ b.held = <<>> /\ b.steering.frames = <<>>
  BY DEF Claude!Fresh, Claude!NoSteering
<1>2. e.turn = FALSE BY DEF Claude!FreshProcess
<1> HIDE DEF b, e
<1>3. Follows(<<>>, RQ, RS) BY EmptyWord
<1>4. Between(<<>>, RS, RQ, RP) BY EmptyNames
<1>5. ClaudeLink(b, e, <<>>) BY <1>1, <1>2, <1>3, <1>4 DEF ClaudeLink
<1> QED BY <1>5 DEF b, e

\* The deadline that gives up a steer leaves them linked.
LEMMA ClaudeLinkDeadline ==
    ASSUME NEW b, NEW c, NEW e, NEW lns, ClaudeLink(b, e, lns), c.active = b.active,
           c.steering.frames = b.steering.frames, c.held = b.held, c.queued = b.queued
    PROVE  ClaudeLink(c, e, lns)
BY DEF ClaudeLink

-----------------------------------------------------------------------------
\* --- Codex: the adapter and the app-server ---

\* The types of lines and frames of a Codex turn.
TD == {"turn/started"}
TC == {"turn/completed"}
SF == {"turn/steer"}
SL == {"turn/steer", "no-turn/steer"}

\* The adapter and the app-server: what thread, turn and rewind are under way, ...
CodexLink(b, e, lns) ==
    /\ b.thread => ~Has(e.in, TO) /\ ~Has(lns, TOL) /\ b.queued = <<>>
    /\ Single(e.in, TO) /\ Single(lns, TOL) /\ (Has(e.in, TO) => ~Has(lns, TOL))
    /\ ~b.thread => /\ ~b.busy /\ ~b.rolling /\ b.waiting = <<>> /\ b.steering = <<>> /\ ~e.turn
                    /\ ~Has(e.in, TS) /\ ~Has(e.in, RF)
                    /\ ~Has(lns, TL) /\ ~Has(lns, RL) /\ ~Has(lns, TD)
    /\ b.busy => Has(e.in, TS) \/ e.turn \/ Has(lns, TL)
    /\ b.rolling => Has(e.in, RF) \/ Has(lns, RL)
    /\ e.turn \/ Follows(lns, TD, TC)
    /\ b.waiting # <<>> => b.busy \/ b.rolling
    /\ b.afterRollback # <<>> => b.rolling
    /\ b.steering # <<>> => Has(e.in, SF) \/ Has(lns, SL)

\* ... and that one turn or rewind is, while no two rewinds were.
CodexUncrossed(b, e, lns) ==
    /\ Has(e.in, TS) => ~e.turn /\ ~Has(lns, TL)
    /\ e.turn => ~Has(lns, TL)
    /\ Single(e.in, TS) /\ Single(lns, TL)
    /\ Has(e.in, TS) \/ e.turn \/ Has(lns, TL) => b.busy
    /\ Single(e.in, RF) /\ Single(lns, RL) /\ (Has(e.in, RF) => ~Has(lns, RL))
    /\ Has(e.in, RF) \/ Has(lns, RL) => b.rolling
    /\ Has(lns, RF) => ~Has(e.in, TS) /\ ~e.turn /\ NoneAfter(lns, RF, TL)
    /\ NoneAfter(e.in, RF, TS)

\* A word of frames after another, a word of lines, and what is left of them.
FramesJoin(s, u, w) ==
    /\ Has(w, TO) <=> Has(s, TO) \/ Has(u, TO)
    /\ Has(w, TS) <=> Has(s, TS) \/ Has(u, TS)
    /\ Has(w, RF) <=> Has(s, RF) \/ Has(u, RF)
    /\ Has(w, SF) <=> Has(s, SF) \/ Has(u, SF)
    /\ Single(w, TO) <=> Single(s, TO) /\ Single(u, TO) /\ ~(Has(s, TO) /\ Has(u, TO))
    /\ Single(w, TS) <=> Single(s, TS) /\ Single(u, TS) /\ ~(Has(s, TS) /\ Has(u, TS))
    /\ Single(w, RF) <=> Single(s, RF) /\ Single(u, RF) /\ ~(Has(s, RF) /\ Has(u, RF))
    /\ NoneAfter(w, RF, TS) <=>
          NoneAfter(s, RF, TS) /\ NoneAfter(u, RF, TS) /\ ~(Has(s, RF) /\ Has(u, TS))

\* The same for a word of lines; ...
LinesJoin(s, u, w) ==
    /\ Has(w, TOL) <=> Has(s, TOL) \/ Has(u, TOL)
    /\ Has(w, TL) <=> Has(s, TL) \/ Has(u, TL)
    /\ Has(w, RL) <=> Has(s, RL) \/ Has(u, RL)
    /\ Has(w, RF) <=> Has(s, RF) \/ Has(u, RF)
    /\ Has(w, TD) <=> Has(s, TD) \/ Has(u, TD)
    /\ Has(w, SL) <=> Has(s, SL) \/ Has(u, SL)
    /\ Single(w, TOL) <=> Single(s, TOL) /\ Single(u, TOL) /\ ~(Has(s, TOL) /\ Has(u, TOL))
    /\ Single(w, TL) <=> Single(s, TL) /\ Single(u, TL) /\ ~(Has(s, TL) /\ Has(u, TL))
    /\ Single(w, RL) <=> Single(s, RL) /\ Single(u, RL) /\ ~(Has(s, RL) /\ Has(u, RL))
    /\ NoneAfter(w, RF, TL) <=>
          NoneAfter(s, RF, TL) /\ NoneAfter(u, RF, TL) /\ ~(Has(s, RF) /\ Has(u, TL))
    /\ Follows(w, TD, TC) <=> (Follows(s, TD, TC) \/ Has(u, TC)) /\ Follows(u, TD, TC)

\* ... Codex's words are so.
LEMMA CodexJoins ==
    ASSUME NEW R, NEW s \in Seq(R), NEW u \in Seq(R)
    PROVE  FramesJoin(s, u, s \o u) /\ LinesJoin(s, u, s \o u)
<1> DEFINE w == s \o u
<1>1. \A A : Has(w, A) <=> Has(s, A) \/ Has(u, A) BY ConcatHas
<1>2. \A A, B : NoneAfter(w, A, B) <=>
                  NoneAfter(s, A, B) /\ NoneAfter(u, A, B) /\ ~(Has(s, A) /\ Has(u, B))
  BY ConcatWord
<1>3. \A A, B : Follows(w, A, B) <=> (Follows(s, A, B) \/ Has(u, B)) /\ Follows(u, A, B)
  BY ConcatWord
<1> HIDE DEF w
<1>4. FramesJoin(s, u, w) BY <1>1, <1>2 DEF FramesJoin, Single
<1>5. LinesJoin(s, u, w) BY <1>1, <1>2, <1>3 DEF LinesJoin, Single
<1> QED BY <1>4, <1>5 DEF w

\* What is left of a word of frames, ...
FramesTail(x, u, w) ==
    /\ Has(w, TO) <=> x.t \in TO \/ Has(u, TO)
    /\ Has(w, TS) <=> x.t \in TS \/ Has(u, TS)
    /\ Has(w, RF) <=> x.t \in RF \/ Has(u, RF)
    /\ Has(w, SF) <=> x.t \in SF \/ Has(u, SF)
    /\ Single(w, TO) <=> Single(u, TO) /\ ~(x.t \in TO /\ Has(u, TO))
    /\ Single(w, TS) <=> Single(u, TS) /\ ~(x.t \in TS /\ Has(u, TS))
    /\ Single(w, RF) <=> Single(u, RF) /\ ~(x.t \in RF /\ Has(u, RF))
    /\ NoneAfter(w, RF, TS) <=> NoneAfter(u, RF, TS) /\ ~(x.t \in RF /\ Has(u, TS))

\* ... of one of lines, ...
LinesTail(x, u, w) ==
    /\ Has(w, TOL) <=> x.t \in TOL \/ Has(u, TOL)
    /\ Has(w, TL) <=> x.t \in TL \/ Has(u, TL)
    /\ Has(w, RL) <=> x.t \in RL \/ Has(u, RL)
    /\ Has(w, RF) <=> x.t \in RF \/ Has(u, RF)
    /\ Has(w, TD) <=> x.t \in TD \/ Has(u, TD)
    /\ Has(w, SL) <=> x.t \in SL \/ Has(u, SL)
    /\ Single(w, TOL) <=> Single(u, TOL) /\ ~(x.t \in TOL /\ Has(u, TOL))
    /\ Single(w, TL) <=> Single(u, TL) /\ ~(x.t \in TL /\ Has(u, TL))
    /\ Single(w, RL) <=> Single(u, RL) /\ ~(x.t \in RL /\ Has(u, RL))
    /\ NoneAfter(w, RF, TL) <=> NoneAfter(u, RF, TL) /\ ~(x.t \in RF /\ Has(u, TL))
    /\ Follows(w, TD, TC) <=> Follows(u, TD, TC) /\ (x.t \in TD => Has(u, TC))

\* ... and Codex's are so.
LEMMA CodexTails ==
    ASSUME NEW R, NEW w \in Seq(R), w # <<>>
    PROVE  FramesTail(Head(w), Tail(w), w) /\ LinesTail(Head(w), Tail(w), w)
<1> DEFINE u == Tail(w)
           x == Head(w)
<1>1. \A A, B : /\ Has(w, A) <=> x.t \in A \/ Has(u, A)
                /\ NoneAfter(w, A, B) <=> NoneAfter(u, A, B) /\ ~(x.t \in A /\ Has(u, B))
                /\ Follows(w, A, B) <=> Follows(u, A, B) /\ (x.t \in A => Has(u, B))
  BY TailWord
<1> HIDE DEF u, x
<1>4. FramesTail(x, u, w) BY <1>1 DEF FramesTail, Single
<1>5. LinesTail(x, u, w) BY <1>1 DEF LinesTail, Single
<1> QED BY <1>4, <1>5 DEF u, x

\* What writing frames to the app-server does.
LEMMA CodexWith ==
    ASSUME NEW e \in CodexProcess, NEW frames \in Seq(Carried(CodexFrame))
    PROVE  LET d == With(e, frames)
           IN  /\ d \in CodexProcess /\ d.in = e.in \o frames /\ e.in \in Seq(Carried(CodexFrame))
               /\ d.turn = e.turn /\ d.asks = e.asks /\ d.asked = e.asked
<1>1. e.in \in Seq(Carried(CodexFrame)) BY DEF CodexProcess
<1> DEFINE q == e.in \o frames
<1>2. q \in Seq(Carried(CodexFrame)) BY <1>1, ConcatOnce
<1>3. With(e, frames) = [e EXCEPT !.in = q] BY DEF With
<1> HIDE DEF q
<1>4. [e EXCEPT !.in = q] \in CodexProcess BY <1>2 DEF CodexProcess
<1> QED BY <1>1, <1>3, <1>4 DEF CodexProcess, q

\* A sub-word of a set of types.
LEMMA SubWord ==
    ASSUME NEW s, NEW A, NEW B, NEW C, NEW D, A \subseteq C, B \subseteq D
    PROVE  (Has(s, A) => Has(s, C)) /\ (NoneAfter(s, C, D) => NoneAfter(s, A, B))
BY DEF Has, NoneAfter

\* An op leaves them linked.
LEMMA CodexLinkOp ==
    ASSUME NEW b \in CodexState, NEW e \in CodexProcess, NEW lns, CodexLink(b, e, lns),
           NEW op \in AnyOp
    PROVE  LET r == Codex!Encode(b, op)
           IN  /\ CodexLink(r.a, With(e, r.frames), lns)
               /\ CodexUncrossed(b, e, lns) /\ ~(op.op = "rewind" /\ b.rolling) =>
                     CodexUncrossed(r.a, With(e, r.frames), lns)
<1> DEFINE r == Codex!Encode(b, op)
           d == With(e, r.frames)
           f == r.frames
<1>1. CodexOp(b, r, op) BY CodexEncodeDoes
<1> HIDE DEF r
<1>2. f \in Seq(Carried(CodexFrame)) BY <1>1 DEF CodexOp, CodexOutput
<1>3. d.in = e.in \o f /\ e.in \in Seq(Carried(CodexFrame)) /\ d.turn = e.turn
  BY <1>2, CodexWith
<1> HIDE DEF d
<1>4. FramesJoin(e.in, f, d.in)
  <2>1. FramesJoin(e.in, f, e.in \o f) BY <1>2, <1>3, CodexJoins
  <2> QED BY <1>3, <2>1
<1>5. /\ r.a.thread = b.thread /\ ~Has(f, TO)
      /\ Has(f, TS) => b.thread /\ ~b.busy /\ ~b.rolling
      /\ Has(f, RF) => b.thread /\ op.op = "rewind"
      /\ Single(f, TO) /\ Single(f, TS) /\ Single(f, RF) /\ NoneAfter(f, RF, TS)
      /\ r.a.busy <=> b.busy \/ Has(f, TS)
      /\ r.a.rolling <=> b.rolling \/ Has(f, RF)
  <2>1. ~Has(f, TO) /\ (Has(f, TS \cup RF) => b.thread)
        /\ NoneAfter(f, TS \cup RF, TS \cup RF)
    BY <1>1 DEF CodexOp
  <2>2. (Has(f, TS) => Has(f, TS \cup RF)) /\ (Has(f, RF) => Has(f, TS \cup RF))
    BY SubWord
  <2>3. NoneAfter(f, TS, TS) /\ NoneAfter(f, RF, RF) /\ NoneAfter(f, RF, TS)
    BY <2>1, SubWord
  <2>4. NoneAfter(f, TO, TO) BY <2>1, NoneWord
  <2> QED BY <1>1, <2>1, <2>2, <2>3, <2>4 DEF CodexOp, Single
<1>6. /\ r.a.queued # <<>> => b.queued # <<>> \/ ~b.thread
      /\ r.a.waiting # <<>> => b.waiting # <<>> \/ (b.busy /\ b.thread)
      /\ r.a.afterRollback # <<>> => b.afterRollback # <<>> \/ b.rolling
      /\ r.a.steering # <<>> => b.steering # <<>> \/ (b.thread /\ Has(f, SF))
  BY <1>1 DEF CodexOp, SF
<1> HIDE DEF f
<1>7. CodexLink(r.a, d, lns) BY <1>3, <1>4, <1>5, <1>6 DEF CodexLink, FramesJoin
<1>c. Has(lns, RF) => Has(lns, RL) BY SubWord DEF RF, RL
<1>8. CodexUncrossed(b, e, lns) /\ ~(op.op = "rewind" /\ b.rolling) => CodexUncrossed(r.a, d, lns)
  BY <1>3, <1>4, <1>5, <1>c DEF CodexUncrossed, FramesJoin
<1> QED BY <1>7, <1>8 DEF d, r

\* So does a line.
LEMMA CodexLinkLine ==
    ASSUME NEW b \in CodexState, NEW e \in CodexProcess,
           NEW lns \in Seq(Asking(CodexLine)), lns # <<>>, CodexLink(b, e, lns)
    PROVE  LET r == Codex!Translate(b, Head(lns))
           IN  /\ CodexLink(r.a, With(e, r.frames), Tail(lns))
               /\ CodexUncrossed(b, e, lns) => CodexUncrossed(r.a, With(e, r.frames), Tail(lns))
<1> DEFINE h == Head(lns)
           u == Tail(lns)
           r == Codex!Translate(b, h)
           d == With(e, r.frames)
           f == r.frames
<1>0. h \in Asking(CodexLine) /\ u \in Seq(Asking(CodexLine)) BY TailParts
<1>t. LinesTail(h, u, lns) BY CodexTails
<1> HIDE DEF h, u
<1>1. CodexHears(b, r, h) BY <1>0, CodexTranslateDoes
<1> HIDE DEF r
<1>2. f \in Seq(Carried(CodexFrame)) BY <1>1 DEF CodexHears, CodexOutput
<1>3. d.in = e.in \o f /\ e.in \in Seq(Carried(CodexFrame)) /\ d.turn = e.turn
  BY <1>2, CodexWith
<1> HIDE DEF d
<1>4. FramesJoin(e.in, f, d.in)
  <2>1. FramesJoin(e.in, f, e.in \o f) BY <1>2, <1>3, CodexJoins
  <2> QED BY <1>3, <2>1
<1>5. /\ r.a.thread <=> b.thread \/ h.t = "opened"
      /\ r.a.rolling <=> b.rolling /\ h.t \notin RL
      /\ (Has(f, TO) => h.t = "no-thread/resume") /\ ~Has(f, RF)
      /\ Single(f, TO) /\ Single(f, TS) /\ Single(f, RF) /\ NoneAfter(f, RF, TS)
      /\ r.a.busy => \/ Has(f, TS) \/ h.t = "turn/started"
                     \/ b.busy /\ h.t \notin TL \cup {"no-thread/start"}
      /\ b.busy /\ h.t \notin TL \cup {"no-thread/start"} => r.a.busy
      /\ h.t = "turn/started" => r.a.busy
      /\ Has(f, TS) => /\ r.a.busy /\ (r.a.thread \/ h.t \in RF)
                       /\ ~b.busy \/ h.t \in TL \cup RF \cup {"opened", "no-thread/start"}
                       /\ ~r.a.rolling \/ h.t = "opened"
      /\ r.a.queued # <<>> => b.queued # <<>> /\ h.t # "opened"
      /\ r.a.afterRollback # <<>> => b.afterRollback # <<>> /\ h.t \notin RL
      /\ r.a.steering # <<>> => b.steering # <<>> /\ h.t \notin SL
      /\ r.a.waiting # <<>> => b.waiting # <<>> \/ b.steering # <<>>
      /\ r.a.waiting # <<>> => r.a.busy \/ r.a.rolling \/ ~r.a.thread
  <2>1. ~Has(f, RF) BY <1>1 DEF CodexHears, CodexHeard
  <2>2. NoneAfter(f, RF, RF) /\ NoneAfter(f, RF, TS) BY <2>1, NoneWord
  <2> QED BY <1>1, <2>2 DEF CodexHears, CodexHeard, Single, SL
<1> HIDE DEF f
<1>n. /\ h.t \in TOL <=> h.t \in {"opened", "no-thread/start", "no-thread/resume"}
      /\ h.t \in TL <=> h.t \in {"no-turn/start", "turn/completed"}
      /\ h.t \in RL <=> h.t \in {"thread/revert", "no-thread/revert"}
      /\ h.t \in RF <=> h.t = "thread/revert"
      /\ h.t \in TD <=> h.t = "turn/started"
      /\ h.t \in SL <=> h.t \in {"turn/steer", "no-turn/steer"}
  BY DEF TOL, TL, RL, RF, TD, SL
<1>c. (Has(u, TC) => Has(u, TL)) /\ (Has(u, RF) => Has(u, RL))
  BY SubWord DEF TC, TL, RF, RL
<1>l. ~b.busy \/ h.t \notin {"opened", "no-thread/start"}
  BY <1>n, <1>t DEF CodexLink, LinesTail
<1>6. CodexLink(r.a, d, u)
  <2>1. r.a.thread => ~Has(d.in, TO) /\ ~Has(u, TOL) /\ r.a.queued = <<>>
    BY <1>4, <1>5, <1>n, <1>t DEF CodexLink, FramesJoin, LinesTail
  <2>2. Single(d.in, TO) /\ Single(u, TOL) /\ (Has(d.in, TO) => ~Has(u, TOL))
    BY <1>4, <1>5, <1>n, <1>t DEF CodexLink, FramesJoin, LinesTail
  <2>3. ~r.a.thread => /\ ~r.a.busy /\ ~r.a.rolling /\ r.a.waiting = <<>> /\ r.a.steering = <<>>
                       /\ ~d.turn
                       /\ ~Has(d.in, TS) /\ ~Has(d.in, RF)
                       /\ ~Has(u, TL) /\ ~Has(u, RL) /\ ~Has(u, TD)
    BY <1>3, <1>4, <1>5, <1>n, <1>t DEF CodexLink, FramesJoin, LinesTail
  <2>4. r.a.busy => Has(d.in, TS) \/ d.turn \/ Has(u, TL)
    BY <1>3, <1>4, <1>5, <1>n, <1>t, <1>c DEF CodexLink, FramesJoin, LinesTail
  <2>5. r.a.rolling => Has(d.in, RF) \/ Has(u, RL)
    BY <1>4, <1>5, <1>t DEF CodexLink, FramesJoin, LinesTail
  <2>6. d.turn \/ Follows(u, TD, TC)
    BY <1>3, <1>t DEF CodexLink, LinesTail
  <2>7. r.a.waiting # <<>> => r.a.busy \/ r.a.rolling BY <1>5, <2>3
  <2>8. r.a.afterRollback # <<>> => r.a.rolling BY <1>5 DEF CodexLink
  <2>9. r.a.steering # <<>> => Has(d.in, SF) \/ Has(u, SL)
    BY <1>4, <1>5, <1>t DEF CodexLink, FramesJoin, LinesTail
  <2> QED BY <2>1, <2>2, <2>3, <2>4, <2>5, <2>6, <2>7, <2>8, <2>9 DEF CodexLink
<1>7. ASSUME CodexUncrossed(b, e, lns) PROVE CodexUncrossed(r.a, d, u)
  <2>1. Has(f, TS) => ~Has(e.in, TS) /\ ~e.turn /\ ~Has(u, TL)
    <3>1. CASE ~b.busy BY <1>7, <1>t, <3>1 DEF CodexUncrossed, LinesTail
    <3>2. CASE h.t \in TL BY <1>7, <1>t, <3>2 DEF CodexUncrossed, LinesTail
    <3>3. CASE h.t \in RF BY <1>7, <1>t, <3>3 DEF CodexUncrossed, LinesTail
    <3> QED BY <1>5, <1>l, <3>1, <3>2, <3>3
  <2>2. /\ Has(d.in, TS) => ~d.turn /\ ~Has(u, TL)
        /\ d.turn => ~Has(u, TL)
        /\ Single(d.in, TS) /\ Single(u, TL)
    BY <1>3, <1>4, <1>5, <1>7, <1>t, <2>1 DEF CodexUncrossed, FramesJoin, LinesTail
  <2>3. Has(d.in, TS) \/ d.turn \/ Has(u, TL) => r.a.busy
    BY <1>3, <1>4, <1>5, <1>7, <1>t, <1>l DEF CodexUncrossed, FramesJoin, LinesTail
  <2>4. Single(d.in, RF) /\ Single(u, RL) /\ (Has(d.in, RF) => ~Has(u, RL))
    BY <1>4, <1>5, <1>7, <1>t DEF CodexUncrossed, FramesJoin, LinesTail
  <2>5. Has(d.in, RF) \/ Has(u, RL) => r.a.rolling
    BY <1>4, <1>5, <1>7, <1>t DEF CodexUncrossed, FramesJoin, LinesTail
  <2>6. b.rolling => h.t # "opened"
    BY <1>n, <1>t DEF CodexLink, LinesTail
  <2>7. r.a.rolling => ~Has(f, TS) BY <1>5, <2>6
  <2>8. Has(u, RF) => ~Has(d.in, TS) /\ ~d.turn /\ NoneAfter(u, RF, TL)
    BY <1>3, <1>4, <1>7, <1>c, <1>t, <2>5, <2>7 DEF CodexUncrossed, FramesJoin, LinesTail
  <2>9. NoneAfter(d.in, RF, TS)
    BY <1>4, <1>5, <1>7, <2>5, <2>7 DEF CodexUncrossed, FramesJoin
  <2> QED BY <2>2, <2>3, <2>4, <2>5, <2>8, <2>9 DEF CodexUncrossed
<1> QED BY <1>6, <1>7 DEF d, r, u, h

\* What a step of the app-server does: it reads a frame, ...
CodexReading(e, d, u) ==
    /\ e.in # <<>> /\ d.in = Tail(e.in)
    /\ LET t == Head(e.in).t
       IN  \/ /\ t \in TO /\ d.turn = e.turn
              /\ \E x : u = <<x>> /\ x.t \in TOL
           \/ /\ t \in TS /\ d.turn = e.turn
              /\ \E x : u = <<x>> /\ x.t = "no-turn/start"
           \/ /\ t \in TS /\ ~e.turn /\ d.turn
              /\ \E x, y : u = <<x, y>> /\ x.t = "turn/start" /\ y.t = "turn/started"
           \/ /\ t \in SF /\ d.turn = e.turn
              /\ \E x : u = <<x>> /\ x.t \in SL
           \/ /\ t \in RF /\ d.turn = e.turn
              /\ \E x : u = <<x>> /\ x.t \in RL /\ (x.t \in RF => ~e.turn)
           \/ /\ t \in {"turn/interrupt", "answer"} /\ d.turn = e.turn
              /\ u = <<>>

\* ... ends the turn, ...
CodexEnding(e, d, u) ==
    /\ \/ d.in = e.in
       \/ e.in # <<>> /\ d.in = Tail(e.in) /\ Head(e.in).t = "turn/interrupt"
    /\ e.turn /\ ~d.turn
    /\ \/ \E y : u = <<y>> /\ y.t = "turn/completed"
       \/ \E x, y : u = <<x, y>> /\ x.t = "resolved" /\ y.t = "turn/completed"

\* ... or asks.
CodexAsking(e, d, u) ==
    /\ d.in = e.in /\ d.turn = e.turn
    /\ \E x : u = <<x>> /\ x.t = "requestApproval"

\* A step of the app-server is one of these.
CodexDoes(e, d, u) ==
    /\ Reading(e, d)
    /\ Fewer(e, d, u, TD \cup TC) \/ AsksOne(e, d, u, TD \cup TC)
    /\ CodexReading(e, d, u) \/ CodexEnding(e, d, u) \/ CodexAsking(e, d, u)

\* What one line, or two, are as words of lines.
WordOne(x, u) ==
    /\ Has(u, TOL) <=> x.t \in TOL
    /\ Has(u, TL) <=> x.t \in TL
    /\ Has(u, RL) <=> x.t \in RL
    /\ Has(u, RF) <=> x.t \in RF
    /\ Has(u, TD) <=> x.t \in TD
    /\ Has(u, TC) <=> x.t \in TC
    /\ Has(u, SL) <=> x.t \in SL
    /\ Single(u, TOL) /\ Single(u, TL) /\ Single(u, RL) /\ NoneAfter(u, RF, TL)
    /\ Follows(u, TD, TC) <=> x.t \notin TD

\* The word of two lines, ...
WordTwo(x, y, u) ==
    /\ Has(u, TOL) <=> x.t \in TOL \/ y.t \in TOL
    /\ Has(u, TL) <=> x.t \in TL \/ y.t \in TL
    /\ Has(u, RL) <=> x.t \in RL \/ y.t \in RL
    /\ Has(u, RF) <=> x.t \in RF \/ y.t \in RF
    /\ Has(u, TD) <=> x.t \in TD \/ y.t \in TD
    /\ Has(u, TC) <=> x.t \in TC \/ y.t \in TC
    /\ Has(u, SL) <=> x.t \in SL \/ y.t \in SL
    /\ Single(u, TOL) <=> ~(x.t \in TOL /\ y.t \in TOL)
    /\ Single(u, TL) <=> ~(x.t \in TL /\ y.t \in TL)
    /\ Single(u, RL) <=> ~(x.t \in RL /\ y.t \in RL)
    /\ NoneAfter(u, RF, TL) <=> ~(x.t \in RF /\ y.t \in TL)
    /\ Follows(u, TD, TC) <=> (x.t \in TD => y.t \in TC) /\ y.t \notin TD

\* ... and Codex's are so.
LEMMA CodexWord ==
    ASSUME NEW x, NEW y
    PROVE  WordOne(x, <<x>>) /\ WordTwo(x, y, <<x, y>>)
<1> DEFINE u == <<x>>
           w == <<x, y>>
<1>1. \A A, B : /\ Has(u, A) <=> x.t \in A
                /\ NoneAfter(u, A, B)
                /\ Follows(u, A, B) <=> x.t \notin A
  BY OneWord
<1>2. \A A, B : /\ Has(w, A) <=> x.t \in A \/ y.t \in A
                /\ NoneAfter(w, A, B) <=> ~(x.t \in A /\ y.t \in B)
                /\ Follows(w, A, B) <=> (x.t \in A => y.t \in B) /\ y.t \notin A
  BY TwoWord
<1> HIDE DEF u, w
<1>3. WordOne(x, u) BY <1>1 DEF WordOne, Single
<1>4. WordTwo(x, y, w) BY <1>2 DEF WordTwo, Single
<1> QED BY <1>3, <1>4 DEF u, w

\* What a step of the app-server says keeps it linked to the adapter.
LEMMA CodexLinkDoes ==
    ASSUME NEW b \in CodexState, NEW e \in CodexProcess, NEW d, NEW R, NEW lns \in Seq(R),
           NEW u \in Seq(R), CodexDoes(e, d, u), CodexLink(b, e, lns)
    PROVE  /\ CodexLink(b, d, lns \o u)
           /\ CodexUncrossed(b, e, lns) => CodexUncrossed(b, d, lns \o u)
<1> DEFINE w == lns \o u
           h == Head(e.in)
           v == Tail(e.in)
<1>1. LinesJoin(lns, u, w) BY CodexJoins
<1>2. e.in # <<>> => FramesTail(h, v, e.in)
  <2>1. e.in \in Seq(Carried(CodexFrame)) BY DEF CodexProcess
  <2> QED BY <2>1, CodexTails
<1>c. (Has(lns, RF) => Has(lns, RL)) /\ (~Has(lns, RF) => NoneAfter(lns, RF, TL))
  BY SubWord, NoneWord DEF RF, RL
<1> HIDE DEF w, h, v
<1> SUFFICES /\ CodexLink(b, d, w)
             /\ CodexUncrossed(b, e, lns) => CodexUncrossed(b, d, w)
  BY DEF w
<1>n. \A t : /\ t \in TOL <=> t \in {"opened", "no-thread/start", "no-thread/resume"}
             /\ t \in TL <=> t \in {"no-turn/start", "turn/completed"}
             /\ t \in RL <=> t \in {"thread/revert", "no-thread/revert"}
             /\ t \in RF <=> t = "thread/revert"
             /\ t \in TD <=> t = "turn/started"
             /\ t \in TC <=> t = "turn/completed"
             /\ t \in SL <=> t \in {"turn/steer", "no-turn/steer"}
             /\ t \in SF <=> t = "turn/steer"
             /\ t \in TS <=> t = "turn/start"
             /\ t \in TO <=> t \in {"thread/start", "thread/resume"}
  BY DEF TOL, TL, RL, RF, TD, TC, SL, SF, TS, TO
<1>3. CASE e.in # <<>> /\ d.in = v /\ h.t \in TO /\ d.turn = e.turn
           /\ \E x : u = <<x>> /\ x.t \in TOL
  <2>1. PICK x : u = <<x>> /\ x.t \in TOL BY <1>3
  <2>2. WordOne(x, u) BY <2>1, CodexWord
  <2>3. /\ x.t \notin TL /\ x.t \notin RL /\ x.t \notin RF /\ x.t \notin TD /\ x.t \notin TC
        /\ x.t \notin SL
        /\ h.t \notin TS /\ h.t \notin RF /\ h.t \notin SF
    BY <1>3, <1>n, <2>1
  <2>4. CodexLink(b, d, w)
    BY <1>1, <1>2, <1>3, <2>1, <2>2, <2>3 DEF CodexLink, LinesJoin, FramesTail, WordOne
  <2>5. CodexUncrossed(b, e, lns) => CodexUncrossed(b, d, w)
    BY <1>1, <1>2, <1>3, <2>2, <2>3 DEF CodexUncrossed, LinesJoin, FramesTail, WordOne
  <2> QED BY <2>4, <2>5
<1>4. CASE e.in # <<>> /\ d.in = v /\ h.t \in TS /\ d.turn = e.turn
           /\ \E x : u = <<x>> /\ x.t = "no-turn/start"
  <2>1. PICK x : u = <<x>> /\ x.t = "no-turn/start" BY <1>4
  <2>2. WordOne(x, u) BY <2>1, CodexWord
  <2>3. /\ x.t \in TL /\ x.t \notin TOL /\ x.t \notin RL /\ x.t \notin RF /\ x.t \notin TD
        /\ x.t \notin SL /\ x.t \notin TC
        /\ h.t \notin TO /\ h.t \notin RF /\ h.t \notin SF
    BY <1>4, <1>n, <2>1
  <2>4. CodexLink(b, d, w)
    BY <1>1, <1>2, <1>4, <2>2, <2>3 DEF CodexLink, LinesJoin, FramesTail, WordOne
  <2>5. CodexUncrossed(b, e, lns) => CodexUncrossed(b, d, w)
    BY <1>1, <1>2, <1>4, <2>2, <2>3 DEF CodexUncrossed, LinesJoin, FramesTail, WordOne
  <2> QED BY <2>4, <2>5
<1>5. CASE e.in # <<>> /\ d.in = v /\ h.t \in TS /\ ~e.turn /\ d.turn
           /\ \E x, y : u = <<x, y>> /\ x.t = "turn/start" /\ y.t = "turn/started"
  <2>1. PICK x, y : u = <<x, y>> /\ x.t = "turn/start" /\ y.t = "turn/started" BY <1>5
  <2>2. WordTwo(x, y, u) BY <2>1, CodexWord
  <2>3. /\ x.t \notin TL /\ x.t \notin TOL /\ x.t \notin RL /\ x.t \notin RF /\ x.t \notin TD
        /\ x.t \notin SL /\ x.t \notin TC
        /\ y.t \notin TL /\ y.t \notin TOL /\ y.t \notin RL /\ y.t \notin RF /\ y.t \in TD
        /\ y.t \notin SL /\ y.t \notin TC
        /\ h.t \notin TO /\ h.t \notin RF /\ h.t \notin SF
    BY <1>5, <1>n, <2>1
  <2>4. CodexLink(b, d, w)
    BY <1>1, <1>2, <1>5, <2>2, <2>3 DEF CodexLink, LinesJoin, FramesTail, WordTwo
  <2>5. CodexUncrossed(b, e, lns) => CodexUncrossed(b, d, w)
    BY <1>1, <1>2, <1>5, <2>2, <2>3 DEF CodexUncrossed, LinesJoin, FramesTail, WordTwo
  <2> QED BY <2>4, <2>5
<1>6. CASE e.in # <<>> /\ d.in = v /\ h.t \in SF /\ d.turn = e.turn
           /\ \E x : u = <<x>> /\ x.t \in SL
  <2>1. PICK x : u = <<x>> /\ x.t \in SL BY <1>6
  <2>2. WordOne(x, u) BY <2>1, CodexWord
  <2>3. /\ x.t \notin TL /\ x.t \notin TOL /\ x.t \notin RL /\ x.t \notin RF /\ x.t \notin TD
        /\ x.t \notin TC
        /\ h.t \notin TO /\ h.t \notin RF /\ h.t \notin TS
    BY <1>6, <1>n, <2>1
  <2>4. CodexLink(b, d, w)
    BY <1>1, <1>2, <1>6, <2>1, <2>2, <2>3 DEF CodexLink, LinesJoin, FramesTail, WordOne
  <2>5. CodexUncrossed(b, e, lns) => CodexUncrossed(b, d, w)
    BY <1>1, <1>2, <1>6, <2>2, <2>3 DEF CodexUncrossed, LinesJoin, FramesTail, WordOne
  <2> QED BY <2>4, <2>5
<1>7. CASE e.in # <<>> /\ d.in = v /\ h.t \in RF /\ d.turn = e.turn
           /\ \E x : u = <<x>> /\ x.t \in RL /\ (x.t \in RF => ~e.turn)
  <2>1. PICK x : u = <<x>> /\ x.t \in RL /\ (x.t \in RF => ~e.turn) BY <1>7
  <2>2. WordOne(x, u) BY <2>1, CodexWord
  <2>3. /\ x.t \notin TL /\ x.t \notin TOL /\ x.t \notin SL /\ x.t \notin TD /\ x.t \notin TC
        /\ h.t \notin TO /\ h.t \notin TS /\ h.t \notin SF
    BY <1>7, <1>n, <2>1
  <2>4. CodexLink(b, d, w)
    BY <1>1, <1>2, <1>7, <2>1, <2>2, <2>3 DEF CodexLink, LinesJoin, FramesTail, WordOne
  <2>5. CodexUncrossed(b, e, lns) => CodexUncrossed(b, d, w)
    BY <1>1, <1>2, <1>7, <1>c, <2>1, <2>2, <2>3 DEF CodexUncrossed, LinesJoin, FramesTail, WordOne
  <2> QED BY <2>4, <2>5
<1>8. CASE e.in # <<>> /\ d.in = v /\ h.t \in {"turn/interrupt", "answer"} /\ d.turn = e.turn
           /\ u = <<>>
  <2>1. w = lns BY <1>8 DEF w
  <2>2. h.t \notin TO /\ h.t \notin TS /\ h.t \notin SF /\ h.t \notin RF BY <1>8, <1>n
  <2>4. CodexLink(b, d, w) BY <1>2, <1>8, <2>1, <2>2 DEF CodexLink, FramesTail
  <2>5. CodexUncrossed(b, e, lns) => CodexUncrossed(b, d, w)
    BY <1>2, <1>8, <2>1, <2>2 DEF CodexUncrossed, FramesTail
  <2> QED BY <2>4, <2>5
<1>9. CASE CodexEnding(e, d, u)
  <2>1. /\ ~Has(u, TOL) /\ Has(u, TL) /\ ~Has(u, RL) /\ ~Has(u, RF) /\ ~Has(u, TD) /\ ~Has(u, SL)
        /\ Has(u, TC) /\ Single(u, TOL) /\ Single(u, TL) /\ Single(u, RL)
        /\ NoneAfter(u, RF, TL) /\ Follows(u, TD, TC)
    <3>1. CASE \E y : u = <<y>> /\ y.t = "turn/completed"
      <4>1. PICK y : u = <<y>> /\ y.t = "turn/completed" BY <3>1
      <4>2. WordOne(y, u) BY <4>1, CodexWord
      <4> QED BY <1>n, <4>1, <4>2 DEF WordOne
    <3>2. CASE \E x, y : u = <<x, y>> /\ x.t = "resolved" /\ y.t = "turn/completed"
      <4>1. PICK x, y : u = <<x, y>> /\ x.t = "resolved" /\ y.t = "turn/completed" BY <3>2
      <4>2. WordTwo(x, y, u) BY <4>1, CodexWord
      <4> QED BY <1>n, <4>1, <4>2 DEF WordTwo
    <3> QED BY <1>9, <3>1, <3>2 DEF CodexEnding
  <2>2. /\ Has(d.in, TO) <=> Has(e.in, TO)
        /\ Has(d.in, TS) <=> Has(e.in, TS)
        /\ Has(d.in, RF) <=> Has(e.in, RF)
        /\ Has(d.in, SF) <=> Has(e.in, SF)
        /\ Single(d.in, TO) <=> Single(e.in, TO)
        /\ Single(d.in, TS) <=> Single(e.in, TS)
        /\ Single(d.in, RF) <=> Single(e.in, RF)
        /\ NoneAfter(d.in, RF, TS) <=> NoneAfter(e.in, RF, TS)
    <3>1. CASE d.in = e.in BY <3>1
    <3>2. CASE e.in # <<>> /\ d.in = v /\ h.t = "turn/interrupt"
      <4>1. h.t \notin TO /\ h.t \notin TS /\ h.t \notin SF /\ h.t \notin RF BY <1>n, <3>2
      <4> QED BY <1>2, <3>2, <4>1 DEF FramesTail
    <3> QED BY <1>9, <3>1, <3>2 DEF CodexEnding, h, v
  <2>3. e.turn /\ ~d.turn BY <1>9 DEF CodexEnding
  <2>4. CodexLink(b, d, w) BY <1>1, <2>1, <2>2, <2>3 DEF CodexLink, LinesJoin
  <2>5. CodexUncrossed(b, e, lns) => CodexUncrossed(b, d, w)
    BY <1>1, <2>1, <2>2, <2>3 DEF CodexUncrossed, LinesJoin
  <2> QED BY <2>4, <2>5
<1>10. CASE CodexAsking(e, d, u)
  <2>1. PICK x : u = <<x>> /\ x.t = "requestApproval" BY <1>10 DEF CodexAsking
  <2>2. WordOne(x, u) BY <2>1, CodexWord
  <2>3. /\ x.t \notin TL /\ x.t \notin TOL /\ x.t \notin RL /\ x.t \notin RF /\ x.t \notin TD
        /\ x.t \notin TC /\ x.t \notin SL
    BY <1>n, <2>1
  <2>4. d.in = e.in /\ d.turn = e.turn BY <1>10 DEF CodexAsking
  <2>5. CodexLink(b, d, w) BY <1>1, <2>2, <2>3, <2>4 DEF CodexLink, LinesJoin, WordOne
  <2>6. CodexUncrossed(b, e, lns) => CodexUncrossed(b, d, w)
    BY <1>1, <2>2, <2>3, <2>4 DEF CodexUncrossed, LinesJoin, WordOne
  <2> QED BY <2>5, <2>6
<1> QED BY <1>3, <1>4, <1>5, <1>6, <1>7, <1>8, <1>9, <1>10 DEF CodexDoes, CodexReading, h, v

\* The app-server ends its turn; `e` is the process then.
CodexCompleted(e, d, u) ==
    /\ d.in = e.in /\ d.turn = FALSE /\ d.asks = {} /\ d.asked = e.asked
    /\ \/ \E y : u = <<y>> /\ y.t = "turn/completed"
       \/ \E x, y : u = <<x, y>> /\ x.t = "resolved" /\ y.t = "turn/completed"
    /\ \A i \in DOMAIN u : u[i].n = 0 \/ (u[i].t = "resolved" /\ u[i].n \in e.asks)

\* Its end of a turn is a step as CodexEnding says.
LEMMA CodexCompletesDoes ==
    ASSUME NEW e \in CodexProcess
    PROVE  CodexCompleted(e, Codex!Completes(e).e, Codex!Completes(e).lines)
<1> DEFINE d == [e EXCEPT !.turn = FALSE, !.asks = {}]
           k == CHOOSE n \in e.asks : TRUE
           x == [t |-> "resolved", ms |-> <<>>, n |-> k]
           y == [t |-> "turn/completed", ms |-> <<>>, n |-> 0]
           s == Codex!Completes(e)
<1>1. s = [e |-> d, lines |-> (IF e.asks = {} THEN <<>> ELSE <<x>>) \o <<y>>]
  BY DEF Codex!Completes, Codex!Says, Codex!Numbered, Codex!Line, Codex!Frame
<1>2. d.in = e.in /\ d.turn = FALSE /\ d.asks = {} /\ d.asked = e.asked BY DEF CodexProcess
<1>3. x.t = "resolved" /\ y.t = "turn/completed" /\ x.n = k /\ y.n = 0 OBVIOUS
<1>4. e.asks # {} => k \in e.asks OBVIOUS
<1> HIDE DEF d, k, x, y
<1>5. <<>> \o <<y>> = <<y>> /\ <<x>> \o <<y>> = <<x, y>>
  <2>1. <<>> \o <<y>> = <<y>> OBVIOUS
  <2>2. <<x>> \o <<y>> = <<x, y>>
    <3> DEFINE q == <<x>>
               r == <<y>>
               w == q \o r
    <3>1. q \in Seq({x, y}) /\ r \in Seq({x, y}) /\ Len(q) = 1 /\ Len(r) = 1 /\ q[1] = x
          /\ r[1] = y
      OBVIOUS
    <3> HIDE DEF q, r
    <3>2. w \in Seq({x, y}) /\ Len(w) = 1 + 1
      <4> DEFINE S == {x, y}
      <4>1. q \in Seq(S) /\ r \in Seq(S) BY <3>1
      <4> HIDE DEF S
      <4>2. w \in Seq(S) /\ Len(w) = Len(q) + Len(r) BY <4>1
      <4>3. Len(q) = 1 /\ Len(r) = 1 BY <3>1
      <4> QED BY <4>2, <4>3 DEF S
    <3>3. 1 \in DOMAIN q /\ 1 \in DOMAIN r BY <3>1
    <3>4. w[1] = q[1] /\ w[1 + 1] = r[1] BY <3>1, <3>3, ConcatParts
    <3> HIDE DEF w
    <3>5. w = <<x, y>> BY <3>1, <3>2, <3>4
    <3> QED BY <3>5 DEF w, q, r
  <2> QED BY <2>1, <2>2
<1>6. (\A i \in DOMAIN <<y>> : <<y>>[i] = y)
      /\ \A i \in DOMAIN <<x, y>> : <<x, y>>[i] = x \/ <<x, y>>[i] = y
  OBVIOUS
<1>7. s.e = d /\ s.lines = IF e.asks = {} THEN <<y>> ELSE <<x, y>>
  <2> HIDE DEF s
  <2>1. CASE e.asks = {}
    <3>1. s = [e |-> d, lines |-> <<>> \o <<y>>] BY <1>1, <2>1
    <3> QED BY <1>5, <2>1, <3>1
  <2>2. CASE e.asks # {}
    <3>1. s = [e |-> d, lines |-> <<x>> \o <<y>>] BY <1>1, <2>2
    <3> QED BY <1>5, <2>2, <3>1
  <2> QED BY <2>1, <2>2
<1> HIDE DEF s
<1>8. CASE e.asks = {}
  <2>1. s.lines = <<y>> BY <1>7, <1>8
  <2>2. \E z : s.lines = <<z>> /\ z.t = "turn/completed" BY <1>3, <2>1
  <2>3. \A i \in DOMAIN s.lines : s.lines[i].n = 0 BY <1>3, <1>6, <2>1
  <2>4. CodexCompleted(e, s.e, s.lines) BY <1>2, <1>7, <2>2, <2>3 DEF CodexCompleted
  <2> QED BY <2>4 DEF s
<1>9. CASE e.asks # {}
  <2>1. s.lines = <<x, y>> BY <1>7, <1>9
  <2>2. \E z, w : s.lines = <<z, w>> /\ z.t = "resolved" /\ w.t = "turn/completed" BY <1>3, <2>1
  <2>3. \A i \in DOMAIN s.lines : s.lines[i] = x \/ s.lines[i] = y BY <1>6, <2>1
  <2>4. \A i \in DOMAIN s.lines :
           s.lines[i].n = 0 \/ (s.lines[i].t = "resolved" /\ s.lines[i].n \in e.asks)
    BY <1>3, <1>4, <1>9, <2>3
  <2>5. CodexCompleted(e, s.e, s.lines) BY <1>2, <1>7, <2>2, <2>4 DEF CodexCompleted
  <2> QED BY <2>5 DEF s
<1> QED BY <1>8, <1>9

\* It reads a frame; `g` is it before.
LEMMA CodexReadsDoes ==
    ASSUME NEW g \in CodexProcess, g.in # <<>>,
           NEW s \in Codex!Reads([g EXCEPT !.in = Tail(@)], Head(g.in))
    PROVE  CodexDoes(g, s.e, s.lines)
<1> DEFINE h == Head(g.in)
           v == Tail(g.in)
           e == [g EXCEPT !.in = v]
<1>0. g.in \in Seq(Carried(CodexFrame)) BY DEF CodexProcess
<1>1. v \in Seq(Carried(CodexFrame)) /\ h \in Carried(CodexFrame) BY <1>0, TailOnce
<1>2. e \in CodexProcess /\ e.in = v /\ e.turn = g.turn /\ e.asks = g.asks /\ e.asked = g.asked
  BY <1>1 DEF CodexProcess
<1>3. h.t \in CodexFrame BY <1>1 DEF Carried
<1>4. s \in Codex!Reads(e, h) OBVIOUS
<1> HIDE DEF h, v, e
<1>n. \A t : /\ t \in TOL <=> t \in {"opened", "no-thread/start", "no-thread/resume"}
             /\ t \in TO <=> t \in {"thread/start", "thread/resume"}
             /\ t \in RL <=> t \in {"thread/revert", "no-thread/revert"}
             /\ t \in RF <=> t = "thread/revert"
             /\ t \in TD <=> t = "turn/started"
             /\ t \in TC <=> t = "turn/completed"
             /\ t \in SL <=> t \in {"turn/steer", "no-turn/steer"}
             /\ t \in SF <=> t = "turn/steer"
             /\ t \in TS <=> t = "turn/start"
  BY DEF TOL, TO, RL, RF, TD, TC, SL, SF, TS
<1>q. ASSUME NEW t, NEW ms, t # "turn/started", t # "turn/completed",
             s = Codex!Says(e, <<Codex!Frame(t, ms)>>), h.t # "answer",
             \/ h.t \in TO /\ t \in TOL
             \/ h.t \in TS /\ t = "no-turn/start"
             \/ h.t \in SF /\ t \in SL
             \/ h.t \in RF /\ t \in RL /\ (t \in RF => ~g.turn)
      PROVE  CodexDoes(g, s.e, s.lines)
  <2> DEFINE x == [t |-> t, ms |-> ms, n |-> 0]
             u == <<x>>
  <2>1. s = [e |-> e, lines |-> u] BY <1>q DEF Codex!Says, Codex!Frame
  <2>2. (\A A : Has(u, A) <=> t \in A) /\ \A i \in DOMAIN u : u[i].n = 0 BY QuietLine
  <2>3. x.t = t OBVIOUS
  <2> HIDE DEF x
  <2>4. CodexReading(g, e, u) BY <1>2, <1>q, <2>3 DEF CodexReading, h, v
  <2> HIDE DEF u
  <2>5. Reading(g, e) BY <1>2 DEF Reading, v
  <2>6. ~Has(u, TD \cup TC) BY <1>q, <1>n, <2>2
  <2>7. Fewer(g, e, u, TD \cup TC) BY <1>2, <1>q, <2>2, <2>6 DEF Fewer, h
  <2> QED BY <2>1, <2>4, <2>5, <2>7 DEF CodexDoes
<1> DEFINE no == CASE h.t = "thread/resume" -> "no-thread/resume"
                   [] h.t = "thread/start" -> "no-thread/start"
                   [] h.t = "turn/start" -> "no-turn/start"
                   [] OTHER -> "no-thread/revert"
           refuses == Codex!Says(e, <<Codex!Line(no)>>)
<1>l. \A t : Codex!Line(t) = Codex!Frame(t, <<>>) BY DEF Codex!Line
<1>5. CASE h.t \in TO
  <2>1. s = Codex!Says(e, <<Codex!Line(no)>>) \/ s = Codex!Says(e, <<Codex!Line("opened")>>)
    BY <1>4, <1>5, <1>n DEF Codex!Reads
  <2>2. no \in TOL /\ "opened" \in TOL /\ no # "turn/started" /\ no # "turn/completed"
    BY <1>5, <1>n
  <2>3. h.t # "answer" BY <1>5, <1>n
  <2> HIDE DEF no
  <2> QED BY <1>5, <1>l, <1>q, <2>1, <2>2, <2>3
<1>6. CASE h.t \in TS
  <2> DEFINE d == [e EXCEPT !.turn = TRUE]
             x == [t |-> "turn/start", ms |-> <<>>, n |-> 0]
             y == [t |-> "turn/started", ms |-> <<>>, n |-> 0]
             u == <<x, y>>
  <2>1. s = Codex!Says(e, <<Codex!Line("no-turn/start")>>) \/ (~g.turn /\ s = [e |-> d, lines |-> u])
    BY <1>2, <1>4, <1>6, <1>n DEF Codex!Reads, Codex!Says, Codex!Line, Codex!Frame
  <2>2. h.t # "answer" BY <1>6, <1>n
  <2>3. CASE s = Codex!Says(e, <<Codex!Line("no-turn/start")>>) BY <1>6, <1>l, <1>q, <2>2, <2>3
  <2>4. CASE ~g.turn /\ s = [e |-> d, lines |-> u]
    <3>1. d.in = v /\ d.turn /\ d.asks = g.asks /\ d.asked = g.asked BY <1>2 DEF CodexProcess
    <3>2. \A i \in DOMAIN u : u[i].n = 0 BY QuietLines
    <3>3. x.t = "turn/start" /\ y.t = "turn/started" OBVIOUS
    <3> HIDE DEF x, y, d
    <3>4. CodexReading(g, d, u) BY <1>6, <2>4, <3>1, <3>3 DEF CodexReading, h, v
    <3> HIDE DEF u
    <3>5. Reading(g, d) BY <3>1 DEF Reading, v
    <3>6. Fewer(g, d, u, TD \cup TC) BY <2>2, <2>4, <3>1, <3>2 DEF Fewer, h
    <3> QED BY <2>4, <3>4, <3>5, <3>6 DEF CodexDoes
  <2> QED BY <2>1, <2>3, <2>4
<1>7. CASE h.t \in SF
  <2>1. s = Codex!Says(e, <<Codex!Frame("no-turn/steer", h.ms)>>)
        \/ s = Codex!Says(e, <<Codex!Frame("turn/steer", h.ms)>>)
    BY <1>4, <1>7, <1>n DEF Codex!Reads
  <2>2. "no-turn/steer" \in SL /\ "turn/steer" \in SL /\ h.t # "answer" BY <1>7, <1>n
  <2> QED BY <1>7, <1>q, <2>1, <2>2
<1>8. CASE h.t = "turn/interrupt"
  <2>1. (g.turn /\ s = Codex!Completes(e)) \/ (~g.turn /\ s = [e |-> e, lines |-> <<>>])
    BY <1>2, <1>4, <1>8 DEF Codex!Reads, Codex!Says
  <2>2. CASE g.turn /\ s = Codex!Completes(e)
    <3>1. CodexCompleted(e, s.e, s.lines)
      BY <1>2, <2>2, CodexCompletesDoes
    <3>2. CodexEnding(g, s.e, s.lines) BY <1>2, <1>8, <2>2, <3>1 DEF CodexEnding, CodexCompleted, h, v
    <3>3. Reading(g, s.e) BY <1>2, <3>1 DEF Reading, CodexCompleted, v
    <3>4. Fewer(g, s.e, s.lines, TD \cup TC) BY <1>2, <1>8, <3>1 DEF Fewer, CodexCompleted, h
    <3> QED BY <3>2, <3>3, <3>4 DEF CodexDoes
  <2>3. CASE ~g.turn /\ s = [e |-> e, lines |-> <<>>]
    <3>1. CodexReading(g, e, <<>>) BY <1>2, <1>8 DEF CodexReading, h, v
    <3>2. Reading(g, e) BY <1>2 DEF Reading, v
    <3>3. Fewer(g, e, <<>>, TD \cup TC)
      <4>1. (\A A : ~Has(<<>>, A)) /\ \A i \in DOMAIN <<>> : FALSE BY NoLines
      <4> QED BY <1>2, <1>8, <4>1 DEF Fewer, h
    <3> QED BY <2>3, <3>1, <3>2, <3>3 DEF CodexDoes
  <2> QED BY <2>1, <2>2, <2>3
<1>9. CASE h.t \in RF
  <2>1. s = Codex!Says(e, <<Codex!Line("no-thread/revert")>>)
        \/ (~g.turn /\ s = Codex!Says(e, <<Codex!Line("thread/revert")>>))
    BY <1>2, <1>4, <1>9, <1>n DEF Codex!Reads
  <2>2. "no-thread/revert" \in RL /\ "thread/revert" \in RL /\ h.t # "answer"
        /\ "no-thread/revert" \notin RF
    BY <1>9, <1>n
  <2> QED BY <1>9, <1>l, <1>q, <2>1, <2>2
<1>10. CASE h.t = "answer"
  <2> DEFINE d == [e EXCEPT !.asks = @ \ {h.n}]
  <2>1. s = [e |-> d, lines |-> <<>>] BY <1>4, <1>10 DEF Codex!Reads, Codex!Says
  <2>2. d.in = v /\ d.turn = g.turn /\ d.asks = g.asks \ {h.n} /\ d.asked = g.asked
    BY <1>2 DEF CodexProcess
  <2> HIDE DEF d
  <2>3. CodexReading(g, d, <<>>) BY <1>10, <2>2 DEF CodexReading, h, v
  <2>4. Reading(g, d) BY <2>2 DEF Reading, v
  <2>5. Fewer(g, d, <<>>, TD \cup TC)
    <3>1. (\A A : ~Has(<<>>, A)) /\ \A i \in DOMAIN <<>> : FALSE BY NoLines
    <3> QED BY <2>2, <3>1 DEF Fewer, h
  <2> QED BY <2>1, <2>3, <2>4, <2>5 DEF CodexDoes
<1> QED BY <1>3, <1>5, <1>6, <1>7, <1>8, <1>9, <1>10, <1>n DEF CodexFrame

\* What each step of the app-server does.
LEMMA CodexStepDoes ==
    ASSUME NEW e \in CodexProcess, NEW s \in Codex!ProcessSteps(e, MaxAsks)
    PROVE  CodexDoes(e, s.e, s.lines)
<1>0. e.asked \in 0..MaxAsks BY DEF CodexProcess
<1>a. MaxAsks \in Nat BY EngineAssumption
<1>1. \/ e.in # <<>> /\ s \in Codex!Reads([e EXCEPT !.in = Tail(@)], Head(e.in))
      \/ e.turn /\ s = Codex!Completes(e)
      \/ /\ e.turn /\ e.asks = {} /\ e.asked < MaxAsks
         /\ s = Codex!Says([e EXCEPT !.asks = {e.asked + 1}, !.asked = @ + 1],
                           <<Codex!Numbered("requestApproval", e.asked + 1)>>)
  BY DEF Codex!ProcessSteps
<1>2. CASE e.in # <<>> /\ s \in Codex!Reads([e EXCEPT !.in = Tail(@)], Head(e.in))
  BY <1>2, CodexReadsDoes
<1>3. CASE e.turn /\ s = Codex!Completes(e)
  <2>1. CodexCompleted(e, s.e, s.lines)
    BY <1>3, CodexCompletesDoes
  <2>2. CodexEnding(e, s.e, s.lines) BY <1>3, <2>1 DEF CodexEnding, CodexCompleted
  <2>3. Reading(e, s.e) BY <2>1 DEF Reading, CodexCompleted
  <2>4. Fewer(e, s.e, s.lines, TD \cup TC) BY <2>1 DEF Fewer, CodexCompleted
  <2> QED BY <2>2, <2>3, <2>4 DEF CodexDoes
<1>4. CASE /\ e.turn /\ e.asks = {} /\ e.asked < MaxAsks
           /\ s = Codex!Says([e EXCEPT !.asks = {e.asked + 1}, !.asked = @ + 1],
                             <<Codex!Numbered("requestApproval", e.asked + 1)>>)
  <2> DEFINE k == e.asked + 1
             d == [e EXCEPT !.asks = {k}, !.asked = @ + 1]
             x == [t |-> "requestApproval", ms |-> <<>>, n |-> k]
             u == <<x>>
  <2>1. s = [e |-> d, lines |-> u] BY <1>4 DEF Codex!Says, Codex!Numbered
  <2>2. d.in = e.in /\ d.turn = e.turn /\ d.asks = {k} /\ d.asked = k BY DEF CodexProcess
  <2>3. k <= MaxAsks BY <1>0, <1>4, <1>a
  <2>4. x.t = "requestApproval" /\ x.n = k OBVIOUS
  <2> HIDE DEF x, d
  <2>5. x.t \notin TD \cup TC BY <2>4 DEF TD, TC
  <2>6. AsksOne(e, d, u, TD \cup TC) BY <1>4, <2>2, <2>3, <2>4, <2>5 DEF AsksOne
  <2>7. CodexAsking(e, d, u) BY <2>2, <2>4 DEF CodexAsking
  <2>8. Reading(e, d) BY <2>2 DEF Reading
  <2> QED BY <2>1, <2>6, <2>7, <2>8 DEF CodexDoes
<1> QED BY <1>1, <1>2, <1>3, <1>4

\* The app-server's steps keep the adapter and it linked, ...
LEMMA CodexLinkStep ==
    ASSUME NEW b \in CodexState, NEW e \in CodexProcess, NEW lns \in Seq(Asking(CodexLine)),
           NEW s \in Codex!ProcessSteps(e, MaxAsks), CodexLink(b, e, lns)
    PROVE  /\ CodexLink(b, s.e, lns \o s.lines)
           /\ CodexUncrossed(b, e, lns) => CodexUncrossed(b, s.e, lns \o s.lines)
<1> DEFINE d == s.e
           u == s.lines
           R == Asking(CodexLine)
<1>1. CodexDoes(e, d, u) BY CodexStepDoes
<1>2. u \in Seq(R)
  <2>1. s \in CodexSaid BY CodexStepsTyped
  <2> QED BY <2>1 DEF CodexSaid
<1>3. lns \in Seq(R) OBVIOUS
<1> HIDE DEF d, u, R
<1>4. /\ CodexLink(b, d, lns \o u)
      /\ CodexUncrossed(b, e, lns) => CodexUncrossed(b, d, lns \o u)
  BY <1>1, <1>2, <1>3, CodexLinkDoes
<1> QED BY <1>4 DEF d, u

\* ... and a new process is.
LEMMA CodexLinkFresh ==
    ASSUME NEW mode \in Mode, NEW resume \in BOOLEAN
    PROVE  LET b == Codex!Fresh(mode, resume)
               e == [Codex!FreshProcess EXCEPT !.in = Codex!Start(b)]
           IN  CodexLink(b, e, <<>>) /\ CodexUncrossed(b, e, <<>>)
<1> DEFINE b == Codex!Fresh(mode, resume)
           t == IF resume THEN "thread/resume" ELSE "thread/start"
           x == [t |-> t, ms |-> <<>>, n |-> 0]
           e == [Codex!FreshProcess EXCEPT !.in = Codex!Start(b)]
<1>1. /\ b.thread = FALSE /\ b.busy = FALSE /\ b.rolling = FALSE /\ b.waiting = <<>>
      /\ b.steering = <<>> /\ b.afterRollback = <<>>
  BY DEF Codex!Fresh
<1>2. e.in = <<x>> /\ e.turn = FALSE
  BY DEF Codex!FreshProcess, Codex!Start, Codex!Frame, Codex!Fresh
<1>3. x.t = t OBVIOUS
<1> HIDE DEF b, e, x
<1>4. \A A, B : /\ Has(<<x>>, A) <=> t \in A
                /\ NoneAfter(<<x>>, A, B)
  BY <1>3, OneWord
<1>5. \A A, B : ~Has(<<>>, A) /\ NoneAfter(<<>>, A, B) /\ Follows(<<>>, A, B) BY EmptyWord
<1>6. t \notin TS /\ t \notin RF BY DEF TS, RF
<1> HIDE DEF t
<1>7. CodexLink(b, e, <<>>) BY <1>1, <1>2, <1>4, <1>5, <1>6 DEF CodexLink, Single
<1>8. CodexUncrossed(b, e, <<>>) BY <1>1, <1>2, <1>4, <1>5, <1>6 DEF CodexUncrossed, Single
<1> QED BY <1>7, <1>8 DEF b, e

-----------------------------------------------------------------------------
\* --- ACP: the adapter and the agent ---

\* The adapter and the agent: one opening and one prompt are under way.
AcpLink(b, e, lns) ==
    /\ Single(e.in, OF) /\ Single(lns, OL) /\ (Has(e.in, OF) => ~Has(lns, OL))
    /\ Has(e.in, OF) \/ Has(lns, OL) => ~b.session /\ ~b.failed
    /\ b.failed => ~b.session /\ b.queued = <<>>
    /\ b.prompt <=> Has(e.in, PF) \/ e.turn \/ Has(lns, PL)
    /\ Single(e.in, PF) /\ Single(lns, PL) /\ (Has(e.in, PF) => ~Has(lns, PL) /\ ~e.turn)
    /\ e.turn => ~Has(lns, PL)
    /\ ~b.session => ~b.prompt
    /\ b.session /\ b.queued # <<>> => b.prompt

\* A word of types A after another, and what is left of one.
JoinOf(s, u, w, A) ==
    /\ Has(w, A) <=> Has(s, A) \/ Has(u, A)
    /\ Single(w, A) <=> Single(s, A) /\ Single(u, A) /\ ~(Has(s, A) /\ Has(u, A))

\* What is left of a word when its first is gone.
TailOf(x, u, w, A) ==
    /\ Has(w, A) <=> x.t \in A \/ Has(u, A)
    /\ Single(w, A) <=> Single(u, A) /\ ~(x.t \in A /\ Has(u, A))

\* ACP's words are so, ...
LEMMA AcpJoins ==
    ASSUME NEW R, NEW s \in Seq(R), NEW u \in Seq(R), NEW A
    PROVE  JoinOf(s, u, s \o u, A)
<1> DEFINE w == s \o u
<1>1. Has(w, A) <=> Has(s, A) \/ Has(u, A) BY ConcatHas
<1>2. NoneAfter(w, A, A) <=> NoneAfter(s, A, A) /\ NoneAfter(u, A, A) /\ ~(Has(s, A) /\ Has(u, A))
  BY ConcatWord
<1> HIDE DEF w
<1>3. JoinOf(s, u, w, A) BY <1>1, <1>2 DEF JoinOf, Single
<1> QED BY <1>3 DEF w

\* ... and what is left of them.
LEMMA AcpTails ==
    ASSUME NEW R, NEW w \in Seq(R), w # <<>>, NEW A
    PROVE  TailOf(Head(w), Tail(w), w, A)
<1> DEFINE u == Tail(w)
           x == Head(w)
<1>1. /\ Has(w, A) <=> x.t \in A \/ Has(u, A)
      /\ NoneAfter(w, A, A) <=> NoneAfter(u, A, A) /\ ~(x.t \in A /\ Has(u, A))
  BY TailWord
<1> HIDE DEF u, x
<1>2. TailOf(x, u, w, A) BY <1>1 DEF TailOf, Single
<1> QED BY <1>2 DEF u, x

\* What writing frames to the agent does.
LEMMA AcpWith ==
    ASSUME NEW e \in AcpProcess, NEW frames \in Seq(Carried(AcpFrame))
    PROVE  LET d == With(e, frames)
           IN  /\ d \in AcpProcess /\ d.in = e.in \o frames /\ e.in \in Seq(Carried(AcpFrame))
               /\ d.turn = e.turn /\ d.asks = e.asks /\ d.asked = e.asked
<1>1. e.in \in Seq(Carried(AcpFrame)) BY DEF AcpProcess
<1> DEFINE q == e.in \o frames
<1>2. q \in Seq(Carried(AcpFrame)) BY <1>1, ConcatOnce
<1>3. With(e, frames) = [e EXCEPT !.in = q] BY DEF With
<1> HIDE DEF q
<1>4. [e EXCEPT !.in = q] \in AcpProcess BY <1>2 DEF AcpProcess
<1> QED BY <1>1, <1>3, <1>4 DEF AcpProcess, q

\* An op leaves them linked.
LEMMA AcpLinkOp ==
    ASSUME NEW b \in AcpState, NEW e \in AcpProcess, NEW lns, AcpLink(b, e, lns),
           NEW op \in AnyOp
    PROVE  LET r == Acp!Encode(b, op)
           IN  AcpLink(r.a, With(e, r.frames), lns)
<1> DEFINE r == Acp!Encode(b, op)
           d == With(e, r.frames)
           f == r.frames
<1>1. AcpOp(b, r, op) BY AcpEncodeDoes
<1> HIDE DEF r
<1>2. f \in Seq(Carried(AcpFrame)) BY <1>1 DEF AcpOp, AcpOutput
<1>3. d.in = e.in \o f /\ e.in \in Seq(Carried(AcpFrame)) /\ d.turn = e.turn
  BY <1>2, AcpWith
<1> HIDE DEF d
<1>4. JoinOf(e.in, f, d.in, OF) /\ JoinOf(e.in, f, d.in, PF)
  <2>1. JoinOf(e.in, f, e.in \o f, OF) /\ JoinOf(e.in, f, e.in \o f, PF) BY <1>2, <1>3, AcpJoins
  <2> QED BY <1>3, <2>1
<1>5. Single(f, OF) /\ Single(f, PF) BY <1>1 DEF AcpOp, Single
<1> HIDE DEF f
<1>6. AcpLink(r.a, d, lns) BY <1>1, <1>3, <1>4, <1>5 DEF AcpOp, AcpLink, JoinOf, f
<1> QED BY <1>6 DEF d, r

\* So does a line.
LEMMA AcpLinkLine ==
    ASSUME NEW b \in AcpState, NEW e \in AcpProcess,
           NEW lns \in Seq(Asking(AcpLine)), lns # <<>>, AcpLink(b, e, lns)
    PROVE  LET r == Acp!Translate(b, Head(lns))
           IN  AcpLink(r.a, With(e, r.frames), Tail(lns))
<1> DEFINE h == Head(lns)
           u == Tail(lns)
           r == Acp!Translate(b, h)
           d == With(e, r.frames)
           f == r.frames
<1>0. h \in Asking(AcpLine) /\ u \in Seq(Asking(AcpLine)) BY TailParts
<1>t. TailOf(h, u, lns, OL) /\ TailOf(h, u, lns, PL) BY AcpTails
<1> HIDE DEF h, u
<1>1. AcpHears(b, r, h) BY <1>0, AcpTranslateDoes
<1> HIDE DEF r
<1>2. f \in Seq(Carried(AcpFrame)) BY <1>1 DEF AcpHears, AcpOutput
<1>3. d.in = e.in \o f /\ e.in \in Seq(Carried(AcpFrame)) /\ d.turn = e.turn
  BY <1>2, AcpWith
<1> HIDE DEF d
<1>4. JoinOf(e.in, f, d.in, OF) /\ JoinOf(e.in, f, d.in, PF)
  <2>1. JoinOf(e.in, f, e.in \o f, OF) /\ JoinOf(e.in, f, e.in \o f, PF) BY <1>2, <1>3, AcpJoins
  <2> QED BY <1>3, <2>1
<1>5. /\ r.a.session <=> b.session \/ h.t = "opened"
      /\ Has(f, OF) => h.t \in OL /\ h.t # "opened" /\ r.a.failed = b.failed
      /\ Single(f, OF) /\ Single(f, PF)
      /\ r.a.failed => \/ b.failed
                       \/ h.t \in OL /\ h.t # "opened" /\ r.a.queued = <<>> /\ ~Has(f, OF)
      /\ r.a.queued # <<>> => b.queued # <<>> /\ (h.t \in PL \cup {"opened"} => Has(f, PF))
      /\ r.a.prompt <=> (b.prompt /\ h.t \notin PL) \/ Has(f, PF)
      /\ Has(f, PF) => h.t \in PL \cup {"opened"}
  BY <1>1 DEF AcpHears, AcpHeard, Single
<1>n. (h.t = "opened" => h.t \in OL) /\ (h.t \in PL => h.t \notin OL) BY DEF OL, PL
<1> HIDE DEF f
<1>6. /\ Single(d.in, OF) /\ Single(u, OL) /\ (Has(d.in, OF) => ~Has(u, OL))
      /\ Has(d.in, OF) \/ Has(u, OL) => ~r.a.session /\ ~r.a.failed
  BY <1>4, <1>5, <1>n, <1>t DEF AcpLink, JoinOf, TailOf
<1>7. r.a.failed => ~r.a.session /\ r.a.queued = <<>>
  BY <1>5, <1>n, <1>t DEF AcpLink, TailOf
<1>8. r.a.prompt <=> Has(d.in, PF) \/ d.turn \/ Has(u, PL)
  BY <1>3, <1>4, <1>5, <1>n, <1>t DEF AcpLink, JoinOf, TailOf
<1>9. /\ Single(d.in, PF) /\ Single(u, PL) /\ (Has(d.in, PF) => ~Has(u, PL) /\ ~d.turn)
      /\ d.turn => ~Has(u, PL)
  BY <1>3, <1>4, <1>5, <1>n, <1>t DEF AcpLink, JoinOf, TailOf
<1>10. /\ ~r.a.session => ~r.a.prompt
       /\ r.a.session /\ r.a.queued # <<>> => r.a.prompt
  BY <1>5, <1>n, <1>t DEF AcpLink, TailOf
<1>11. AcpLink(r.a, d, u) BY <1>6, <1>7, <1>8, <1>9, <1>10 DEF AcpLink
<1> QED BY <1>11 DEF d, r, u, h

\* What a step of the agent does: it reads a frame, ...
AcpReading(e, d, u) ==
    /\ e.in # <<>> /\ d.in = Tail(e.in)
    /\ LET t == Head(e.in).t
       IN  \/ /\ t \in OF /\ d.turn = e.turn
              /\ \E x : u = <<x>> /\ x.t \in OL
           \/ t \in PF /\ d.turn /\ u = <<>>
           \/ /\ t \in PF /\ d.turn = e.turn
              /\ \E x : u = <<x>> /\ x.t \in PL
           \/ t \notin OF \cup PF /\ d.turn = e.turn /\ u = <<>>

\* ... ends the turn, ...
AcpEnding(e, d, u) ==
    /\ d.in = e.in \/ (e.in # <<>> /\ d.in = Tail(e.in) /\ Head(e.in).t \notin OF \cup PF)
    /\ e.turn /\ ~d.turn
    /\ \E x : u = <<x>> /\ x.t \in PL

\* ... or asks.
AcpAsking(e, d, u) ==
    /\ d.in = e.in /\ d.turn = e.turn
    /\ \E x : u = <<x>> /\ x.t \notin OL \cup PL

\* A step of the agent is one of these.
AcpDoes(e, d, u) ==
    /\ Reading(e, d)
    /\ Fewer(e, d, u, {}) \/ AsksOne(e, d, u, {})
    /\ AcpReading(e, d, u) \/ AcpEnding(e, d, u) \/ AcpAsking(e, d, u)

\* What a step of the agent says keeps it linked to the adapter.
LEMMA AcpLinkDoes ==
    ASSUME NEW b \in AcpState, NEW e \in AcpProcess, NEW d, NEW R, NEW lns \in Seq(R),
           NEW u \in Seq(R), AcpDoes(e, d, u), AcpLink(b, e, lns)
    PROVE  AcpLink(b, d, lns \o u)
<1> DEFINE w == lns \o u
           h == Head(e.in)
           v == Tail(e.in)
<1>1. JoinOf(lns, u, w, OL) /\ JoinOf(lns, u, w, PL) BY AcpJoins
<1>2. e.in # <<>> => TailOf(h, v, e.in, OF) /\ TailOf(h, v, e.in, PF)
  <2>1. e.in \in Seq(Carried(AcpFrame)) BY DEF AcpProcess
  <2> QED BY <2>1, AcpTails
<1> HIDE DEF w, h, v
<1> SUFFICES AcpLink(b, d, w) BY DEF w
<1>n. \A t : (t \in PL => t \notin OL) /\ (t \in PF => t \notin OF) BY DEF OL, PL, OF, PF
<1>w. ASSUME NEW x, u = <<x>>
      PROVE  /\ Has(u, OL) <=> x.t \in OL
             /\ Has(u, PL) <=> x.t \in PL
             /\ Single(u, OL) /\ Single(u, PL)
  <2>1. \A A, B : (Has(<<x>>, A) <=> x.t \in A) /\ NoneAfter(<<x>>, A, B) BY OneWord
  <2> QED BY <1>w, <2>1 DEF Single
<1>m. u = <<>> => ~Has(u, OL) /\ ~Has(u, PL) /\ Single(u, OL) /\ Single(u, PL)
  <2>1. \A A, B : ~Has(<<>>, A) /\ NoneAfter(<<>>, A, B) BY EmptyWord
  <2> QED BY <2>1 DEF Single
<1>3. CASE e.in # <<>> /\ d.in = v /\ h.t \in OF /\ d.turn = e.turn
           /\ \E x : u = <<x>> /\ x.t \in OL
  <2>1. Has(u, OL) /\ ~Has(u, PL) /\ Single(u, OL) /\ Single(u, PL) BY <1>3, <1>n, <1>w
  <2>2. h.t \notin PF BY <1>3, <1>n
  <2> QED BY <1>1, <1>2, <1>3, <2>1, <2>2 DEF AcpLink, JoinOf, TailOf
<1>4. CASE e.in # <<>> /\ d.in = v /\ h.t \in PF /\ d.turn /\ u = <<>>
  <2>1. h.t \notin OF BY <1>4, <1>n
  <2> QED BY <1>1, <1>2, <1>4, <1>m, <2>1 DEF AcpLink, JoinOf, TailOf
<1>5. CASE e.in # <<>> /\ d.in = v /\ h.t \in PF /\ d.turn = e.turn
           /\ \E x : u = <<x>> /\ x.t \in PL
  <2>1. ~Has(u, OL) /\ Has(u, PL) /\ Single(u, OL) /\ Single(u, PL) BY <1>5, <1>n, <1>w
  <2>2. h.t \notin OF BY <1>5, <1>n
  <2> QED BY <1>1, <1>2, <1>5, <2>1, <2>2 DEF AcpLink, JoinOf, TailOf
<1>6. CASE e.in # <<>> /\ d.in = v /\ h.t \notin OF \cup PF /\ d.turn = e.turn /\ u = <<>>
  BY <1>1, <1>2, <1>6, <1>m DEF AcpLink, JoinOf, TailOf
<1>7. CASE AcpEnding(e, d, u)
  <2>1. ~Has(u, OL) /\ Has(u, PL) /\ Single(u, OL) /\ Single(u, PL)
    BY <1>7, <1>n, <1>w DEF AcpEnding
  <2>2. /\ Has(d.in, OF) <=> Has(e.in, OF)
        /\ Has(d.in, PF) <=> Has(e.in, PF)
        /\ Single(d.in, OF) <=> Single(e.in, OF)
        /\ Single(d.in, PF) <=> Single(e.in, PF)
    BY <1>2, <1>7 DEF AcpEnding, TailOf, h, v
  <2>3. e.turn /\ ~d.turn BY <1>7 DEF AcpEnding
  <2> QED BY <1>1, <2>1, <2>2, <2>3 DEF AcpLink, JoinOf
<1>8. CASE AcpAsking(e, d, u)
  <2>1. ~Has(u, OL) /\ ~Has(u, PL) /\ Single(u, OL) /\ Single(u, PL)
    BY <1>8, <1>w DEF AcpAsking
  <2>2. d.in = e.in /\ d.turn = e.turn BY <1>8 DEF AcpAsking
  <2> QED BY <1>1, <2>1, <2>2 DEF AcpLink, JoinOf
<1> QED BY <1>3, <1>4, <1>5, <1>6, <1>7, <1>8 DEF AcpDoes, AcpReading, h, v

\* The agent reads a frame; `g` is it before.
LEMMA AcpReadsDoes ==
    ASSUME NEW g \in AcpProcess, g.in # <<>>,
           NEW s \in Acp!Reads([g EXCEPT !.in = Tail(@)], Head(g.in))
    PROVE  AcpDoes(g, s.e, s.lines)
<1> DEFINE h == Head(g.in)
           v == Tail(g.in)
           e == [g EXCEPT !.in = v]
<1>0. g.in \in Seq(Carried(AcpFrame)) BY DEF AcpProcess
<1>1. v \in Seq(Carried(AcpFrame)) /\ h \in Carried(AcpFrame) BY <1>0, TailOnce
<1>2. e \in AcpProcess /\ e.in = v /\ e.turn = g.turn /\ e.asks = g.asks /\ e.asked = g.asked
  BY <1>1 DEF AcpProcess
<1>3. h.t \in AcpFrame BY <1>1 DEF Carried
<1>4. s \in Acp!Reads(e, h) OBVIOUS
<1> HIDE DEF h, v, e
<1>n. \A t : /\ t \in OL <=> t \in {"initialize", "authenticate", "opened", "no-initialize",
                                    "no-session/load", "no-session/new", "no-authenticate",
                                    "signed-out"}
             /\ t \in OF <=> t \in {"initialize", "session/load", "session/new", "authenticate"}
             /\ t \in PL <=> t \in {"session/prompt", "no-session/prompt"}
             /\ t \in PF <=> t = "session/prompt"
  BY DEF OL, OF, PL, PF
<1>z. (\A A : ~Has(<<>>, A)) /\ \A i \in DOMAIN <<>> : FALSE BY NoLines
<1>o. \A u : ~Has(u, {}) BY DEF Has
<1>q. ASSUME NEW t, s = Acp!Says(e, <<Acp!Line(t)>>), h.t # "answer",
             (h.t \in OF /\ t \in OL) \/ (h.t \in PF /\ t \in PL)
      PROVE  AcpDoes(g, s.e, s.lines)
  <2> DEFINE x == [t |-> t, ms |-> <<>>, n |-> 0]
             u == <<x>>
  <2>1. s = [e |-> e, lines |-> u] BY <1>q DEF Acp!Says, Acp!Line, Acp!Frame
  <2>2. \A i \in DOMAIN u : u[i].n = 0 BY QuietLine
  <2>3. x.t = t OBVIOUS
  <2> HIDE DEF x
  <2>4. AcpReading(g, e, u) BY <1>2, <1>q, <2>3 DEF AcpReading, h, v
  <2> HIDE DEF u
  <2>5. Reading(g, e) BY <1>2 DEF Reading, v
  <2>6. Fewer(g, e, u, {}) BY <1>2, <1>o, <1>q, <2>2 DEF Fewer, h
  <2> QED BY <2>1, <2>4, <2>5, <2>6 DEF AcpDoes
<1>r. ASSUME NEW d, s = [e |-> d, lines |-> <<>>], d.in = v, d.asked = g.asked,
             d.asks \subseteq g.asks, h.t = "answer" => h.n \notin d.asks,
             \/ h.t \in PF /\ d.turn
             \/ h.t \notin OF \cup PF /\ d.turn = g.turn
      PROVE  AcpDoes(g, s.e, s.lines)
  <2>1. AcpReading(g, d, <<>>) BY <1>r DEF AcpReading, h, v
  <2>2. Reading(g, d) BY <1>r DEF Reading, v
  <2>3. Fewer(g, d, <<>>, {}) BY <1>z, <1>r DEF Fewer, h
  <2> QED BY <1>r, <2>1, <2>2, <2>3 DEF AcpDoes
<1>5. CASE h.t \in OF
  <2>1. \E t \in OL : s = Acp!Says(e, <<Acp!Line(t)>>)
    <3>1. CASE h.t = "initialize" BY <1>4, <1>n, <3>1 DEF Acp!Reads
    <3>2. CASE h.t = "session/load" BY <1>4, <1>n, <3>2 DEF Acp!Reads
    <3>3. CASE h.t = "session/new" BY <1>4, <1>n, <3>3 DEF Acp!Reads
    <3>4. CASE h.t = "authenticate" BY <1>4, <1>n, <3>4 DEF Acp!Reads
    <3> QED BY <1>5, <1>n, <3>1, <3>2, <3>3, <3>4
  <2>2. h.t # "answer" BY <1>5, <1>n
  <2> QED BY <1>5, <1>q, <2>1, <2>2
<1>6. CASE h.t = "session/prompt"
  <2> DEFINE d == [e EXCEPT !.turn = TRUE]
  <2>1. s = [e |-> d, lines |-> <<>>] \/ s = Acp!Says(e, <<Acp!Line("no-session/prompt")>>)
    BY <1>4, <1>6 DEF Acp!Reads, Acp!Says
  <2>2. d.in = v /\ d.turn /\ d.asks = g.asks /\ d.asked = g.asked BY <1>2 DEF AcpProcess
  <2> HIDE DEF d
  <2>3. h.t \in PF /\ h.t # "answer" /\ "no-session/prompt" \in PL BY <1>6, <1>n
  <2>4. CASE s = [e |-> d, lines |-> <<>>] BY <1>r, <2>2, <2>3, <2>4
  <2>5. CASE s = Acp!Says(e, <<Acp!Line("no-session/prompt")>>) BY <1>q, <2>3, <2>5
  <2> QED BY <2>1, <2>4, <2>5
<1>7. CASE h.t = "answer"
  <2> DEFINE d == [e EXCEPT !.asks = @ \ {h.n}]
  <2>1. s = [e |-> d, lines |-> <<>>] BY <1>4, <1>7 DEF Acp!Reads, Acp!Says
  <2>2. d.in = v /\ d.turn = g.turn /\ d.asks = g.asks \ {h.n} /\ d.asked = g.asked
    BY <1>2 DEF AcpProcess
  <2> HIDE DEF d
  <2>3. h.t \notin OF \cup PF BY <1>7, <1>n
  <2> QED BY <1>r, <2>1, <2>2, <2>3
<1>8. CASE h.t = "session/cancel"
  <2> DEFINE d == [e EXCEPT !.turn = FALSE, !.asks = {}]
             x == [t |-> "session/prompt", ms |-> <<>>, n |-> 0]
             u == <<x>>
  <2>1. (g.turn /\ s = [e |-> d, lines |-> u]) \/ (~g.turn /\ s = [e |-> e, lines |-> <<>>])
    BY <1>2, <1>4, <1>8 DEF Acp!Reads, Acp!Says, Acp!Line, Acp!Frame
  <2>2. h.t \notin OF \cup PF /\ h.t # "answer" BY <1>8, <1>n
  <2>3. CASE g.turn /\ s = [e |-> d, lines |-> u]
    <3>1. d.in = v /\ d.turn = FALSE /\ d.asks = {} /\ d.asked = g.asked BY <1>2 DEF AcpProcess
    <3>2. \A i \in DOMAIN u : u[i].n = 0 BY QuietLine
    <3>3. x.t \in PL BY <1>n
    <3> HIDE DEF x, d
    <3>4. AcpEnding(g, d, u) BY <2>2, <2>3, <3>1, <3>3 DEF AcpEnding, h, v
    <3> HIDE DEF u
    <3>5. Reading(g, d) BY <3>1 DEF Reading, v
    <3>6. Fewer(g, d, u, {}) BY <2>2, <3>1, <3>2 DEF Fewer, h
    <3> QED BY <2>3, <3>4, <3>5, <3>6 DEF AcpDoes
  <2>4. CASE ~g.turn /\ s = [e |-> e, lines |-> <<>>] BY <1>2, <1>r, <2>2, <2>4
  <2> QED BY <2>1, <2>3, <2>4
<1> QED BY <1>3, <1>5, <1>6, <1>7, <1>8, <1>n DEF AcpFrame

\* What each step of the agent does.
LEMMA AcpStepDoes ==
    ASSUME NEW e \in AcpProcess, NEW s \in Acp!ProcessSteps(e, MaxAsks)
    PROVE  AcpDoes(e, s.e, s.lines)
<1>0. e.asked \in 0..MaxAsks BY DEF AcpProcess
<1>a. MaxAsks \in Nat BY EngineAssumption
<1>1. \/ e.in # <<>> /\ s \in Acp!Reads([e EXCEPT !.in = Tail(@)], Head(e.in))
      \/ /\ e.turn /\ e.asks = {}
         /\ s = Acp!Says([e EXCEPT !.turn = FALSE], <<Acp!Line("session/prompt")>>)
      \/ /\ e.turn /\ e.asks = {} /\ e.asked < MaxAsks
         /\ s = Acp!Says([e EXCEPT !.asks = {e.asked + 1}, !.asked = @ + 1],
                         <<Acp!Numbered("request_permission", e.asked + 1)>>)
  BY DEF Acp!ProcessSteps
<1>2. CASE e.in # <<>> /\ s \in Acp!Reads([e EXCEPT !.in = Tail(@)], Head(e.in))
  BY <1>2, AcpReadsDoes
<1>3. CASE /\ e.turn /\ e.asks = {}
           /\ s = Acp!Says([e EXCEPT !.turn = FALSE], <<Acp!Line("session/prompt")>>)
  <2> DEFINE d == [e EXCEPT !.turn = FALSE]
             x == [t |-> "session/prompt", ms |-> <<>>, n |-> 0]
             u == <<x>>
  <2>1. s = [e |-> d, lines |-> u] BY <1>3 DEF Acp!Says, Acp!Line, Acp!Frame
  <2>2. d.in = e.in /\ d.turn = FALSE /\ d.asks = {} /\ d.asked = e.asked BY <1>3 DEF AcpProcess
  <2>3. \A i \in DOMAIN u : u[i].n = 0 BY QuietLine
  <2>4. x.t \in PL BY DEF PL
  <2> HIDE DEF x, d
  <2>5. AcpEnding(e, d, u) BY <1>3, <2>2, <2>4 DEF AcpEnding
  <2> HIDE DEF u
  <2>6. Reading(e, d) BY <2>2 DEF Reading
  <2>7. Fewer(e, d, u, {}) BY <1>3, <2>2, <2>3 DEF Fewer
  <2> QED BY <2>1, <2>5, <2>6, <2>7 DEF AcpDoes
<1>4. CASE /\ e.turn /\ e.asks = {} /\ e.asked < MaxAsks
           /\ s = Acp!Says([e EXCEPT !.asks = {e.asked + 1}, !.asked = @ + 1],
                           <<Acp!Numbered("request_permission", e.asked + 1)>>)
  <2> DEFINE k == e.asked + 1
             d == [e EXCEPT !.asks = {k}, !.asked = @ + 1]
             x == [t |-> "request_permission", ms |-> <<>>, n |-> k]
             u == <<x>>
  <2>1. s = [e |-> d, lines |-> u] BY <1>4 DEF Acp!Says, Acp!Numbered
  <2>2. d.in = e.in /\ d.turn = e.turn /\ d.asks = {k} /\ d.asked = k BY DEF AcpProcess
  <2>3. k <= MaxAsks BY <1>0, <1>4, <1>a
  <2>4. x.t = "request_permission" /\ x.n = k OBVIOUS
  <2> HIDE DEF x, d
  <2>5. x.t \notin OL \cup PL BY <2>4 DEF OL, PL
  <2>6. AsksOne(e, d, u, {}) BY <1>4, <2>2, <2>3, <2>4 DEF AsksOne
  <2>7. AcpAsking(e, d, u) BY <2>2, <2>5 DEF AcpAsking
  <2>8. Reading(e, d) BY <2>2 DEF Reading
  <2> QED BY <2>1, <2>6, <2>7, <2>8 DEF AcpDoes
<1> QED BY <1>1, <1>2, <1>3, <1>4

\* The agent's steps keep the adapter and it linked, ...
LEMMA AcpLinkStep ==
    ASSUME NEW b \in AcpState, NEW e \in AcpProcess, NEW lns \in Seq(Asking(AcpLine)),
           NEW s \in Acp!ProcessSteps(e, MaxAsks), AcpLink(b, e, lns)
    PROVE  AcpLink(b, s.e, lns \o s.lines)
<1> DEFINE d == s.e
           u == s.lines
           R == Asking(AcpLine)
<1>1. AcpDoes(e, d, u) BY AcpStepDoes
<1>2. u \in Seq(R)
  <2>1. s \in AcpSaid BY AcpStepsTyped
  <2> QED BY <2>1 DEF AcpSaid
<1>3. lns \in Seq(R) OBVIOUS
<1> HIDE DEF d, u, R
<1>4. AcpLink(b, d, lns \o u) BY <1>1, <1>2, <1>3, AcpLinkDoes
<1> QED BY <1>4 DEF d, u

\* ... and a new process is.
LEMMA AcpLinkFresh ==
    ASSUME NEW mode \in Mode, NEW resume \in BOOLEAN
    PROVE  LET b == Acp!Fresh(mode, resume)
               e == [Acp!FreshProcess EXCEPT !.in = Acp!Start(b)]
           IN  AcpLink(b, e, <<>>)
<1> DEFINE b == Acp!Fresh(mode, resume)
           x == [t |-> "initialize", ms |-> <<>>, n |-> 0]
           e == [Acp!FreshProcess EXCEPT !.in = Acp!Start(b)]
<1>1. b.session = FALSE /\ b.failed = FALSE /\ b.prompt = FALSE /\ b.queued = <<>>
  BY DEF Acp!Fresh
<1>2. e.in = <<x>> /\ e.turn = FALSE
  BY DEF Acp!FreshProcess, Acp!Start, Acp!Frame
<1>3. x.t = "initialize" OBVIOUS
<1> HIDE DEF b, e, x
<1>4. \A A, B : /\ Has(<<x>>, A) <=> "initialize" \in A
                /\ NoneAfter(<<x>>, A, B)
  BY <1>3, OneWord
<1>5. \A A, B : ~Has(<<>>, A) /\ NoneAfter(<<>>, A, B) BY EmptyWord
<1>6. "initialize" \notin PF BY DEF PF
<1>7. AcpLink(b, e, <<>>) BY <1>1, <1>2, <1>4, <1>5, <1>6 DEF AcpLink, Single
<1> QED BY <1>7 DEF b, e

-----------------------------------------------------------------------------
\* --- what the process asks ---

\* The lines that ask to be allowed.
AskTypes == {"can_use_tool", "requestApproval", "request_permission"}

\* What the process asked, the thread has read and has not answered.
Unans(e, lns) == {n \in e.asks : ~Names(lns, n) /\ n \notin Answered(e.in)}

\* The adapter and what the process asks: it knows of what it read, and no line
\* that ends a turn comes after the line that asks.
AskLink(b, e, lns, T) ==
    /\ e.asked \in Nat /\ e.asks \subseteq 1..e.asked
    /\ e.asks # {} => e.turn
    /\ Unans(e, lns) \subseteq b.approvals
    /\ \A i \in DOMAIN lns : /\ lns[i].n \in 0..e.asked
                             /\ lns[i].t = "resolved" => lns[i].n \notin e.asks
                             /\ lns[i].n # 0 => lns[i].t \in AskTypes \cup {"resolved"}
    /\ \A n \in e.asks : EndsFirst(lns, T, n)

\* What the frames left answer.
LEMMA AnsweredTail ==
    ASSUME NEW R, NEW s \in Seq(R), s # <<>>
    PROVE  Answered(s) = Answered(Tail(s)) \cup
                           (IF Head(s).t = "answer" THEN {Head(s).n} ELSE {})
<1> DEFINE u == Tail(s)
<1>1. /\ \A i \in DOMAIN u : i + 1 \in DOMAIN s /\ u[i] = s[i + 1]
      /\ \A i \in DOMAIN s : i = 1 \/ (i - 1 \in DOMAIN u /\ u[i - 1] = s[i])
  BY TailParts
<1>2. 1 \in DOMAIN s /\ Head(s) = s[1] OBVIOUS
<1> HIDE DEF u
<1>3. \A n \in Answered(s) : n \in Answered(u) \/ (s[1].t = "answer" /\ n = s[1].n)
  BY <1>1, AnsweredIs
<1>4. \A n \in Answered(u) : n \in Answered(s) BY <1>1, AnsweredIs
<1>5. s[1].t = "answer" => s[1].n \in Answered(s) BY <1>2, AnsweredIs
<1> QED BY <1>2, <1>3, <1>4, <1>5 DEF u

\* What the process does leaves no more unanswered.
LEMMA UnansStep ==
    ASSUME NEW e, NEW Q, e.in \in Seq(Q), NEW d, NEW R, NEW lns \in Seq(R), NEW u \in Seq(R),
           NEW T, Reading(e, d), Fewer(e, d, u, T) \/ AsksOne(e, d, u, T)
    PROVE  /\ Unans(d, lns \o u) \subseteq Unans(e, lns)
           /\ AsksOne(e, d, u, T) => Unans(d, lns \o u) = {}
<1>1. CASE Fewer(e, d, u, T)
  <2>1. \A n \in d.asks : n \in Answered(e.in) => n \in Answered(d.in)
    <3>1. CASE d.in = e.in BY <3>1
    <3>2. CASE d.in # e.in
      <4>1. e.in # <<>> /\ d.in = Tail(e.in) BY <3>2 DEF Reading
      <4>2. Head(e.in).t = "answer" => Head(e.in).n \notin d.asks BY <1>1, <3>2 DEF Fewer
      <4>3. Answered(e.in) = Answered(d.in) \cup
                               (IF Head(e.in).t = "answer" THEN {Head(e.in).n} ELSE {})
        BY <4>1, AnsweredTail
      <4> QED BY <4>2, <4>3
    <3> QED BY <3>1, <3>2
  <2>2. \A n : Names(lns, n) => Names(lns \o u, n) BY NamesConcat
  <2>3. d.asks \subseteq e.asks BY <1>1 DEF Fewer
  <2>4. Unans(d, lns \o u) \subseteq Unans(e, lns) BY <2>1, <2>2, <2>3 DEF Unans
  <2>5. AsksOne(e, d, u, T) => d.asks = {} BY <1>1 DEF AsksOne, Fewer
  <2> QED BY <2>4, <2>5 DEF Unans
<1>2. CASE AsksOne(e, d, u, T)
  <2>1. PICK x : u = <<x>> /\ x.n = d.asked BY <1>2 DEF AsksOne
  <2>2. d.asks = {d.asked} BY <1>2 DEF AsksOne
  <2>3. Names(u, d.asked)
    <3>1. 1 \in DOMAIN u /\ u[1] = x BY <2>1
    <3> QED BY <2>1, <3>1 DEF Names
  <2>4. Names(lns \o u, d.asked) BY <2>3, NamesConcat
  <2>5. Unans(d, lns \o u) = {} BY <2>2, <2>4 DEF Unans
  <2> QED BY <2>5
<1> QED BY <1>1, <1>2

\* What the process does keeps its asks known to the adapter, or on their way.
LEMMA AskLinkStep ==
    ASSUME NEW b, NEW e, NEW Q, e.in \in Seq(Q), NEW d, NEW R, NEW lns \in Seq(R),
           NEW u \in Seq(R), NEW T, AskLink(b, e, lns, T),
           Reading(e, d), Fewer(e, d, u, T) \/ AsksOne(e, d, u, T)
    PROVE  AskLink(b, d, lns \o u, T)
<1> DEFINE w == lns \o u
           l == Len(lns)
<1>1. Unans(d, w) \subseteq b.approvals BY UnansStep DEF AskLink
<1>2. \A i \in DOMAIN w : (i \in DOMAIN lns /\ w[i] = lns[i])
                          \/ (i - l \in DOMAIN u /\ w[i] = u[i - l])
  BY ConcatParts
<1>c. \A n : EndsFirst(lns, T, n) /\ ~Has(u, T) => EndsFirst(w, T, n) BY EndsFirstConcat
<1>0. e.asked \in Nat /\ e.asks \subseteq 1..e.asked /\ (e.asks # {} => e.turn) BY DEF AskLink
<1>3. CASE Fewer(e, d, u, T)
  <2> HIDE DEF w, l
  <2>1. d.asked = e.asked /\ d.asks \subseteq e.asks BY <1>3 DEF Fewer
  <2>2. d.asks # {} => d.turn /\ ~Has(u, T) BY <1>0, <1>3, <2>1 DEF Fewer
  <2>3. ASSUME NEW i \in DOMAIN w
        PROVE  /\ w[i].n \in 0..d.asked
               /\ w[i].t = "resolved" => w[i].n \notin d.asks
               /\ w[i].n # 0 => w[i].t \in AskTypes \cup {"resolved"}
    <3>1. CASE i \in DOMAIN lns /\ w[i] = lns[i] BY <2>1, <3>1 DEF AskLink
    <3>2. CASE i - l \in DOMAIN u /\ w[i] = u[i - l]
      <4> DEFINE x == u[i - l]
      <4>1. x.n = 0 \/ (x.t = "resolved" /\ x.n \in e.asks /\ x.n \notin d.asks)
        BY <1>3, <3>2 DEF Fewer
      <4> HIDE DEF x
      <4>2. 0 \notin d.asks /\ \A n \in e.asks : n \in 0..d.asked BY <1>0, <2>1
      <4>3. 0 \in 0..d.asked BY <1>0, <2>1
      <4> QED BY <3>2, <4>1, <4>2, <4>3 DEF x
    <3> QED BY <1>2, <3>1, <3>2
  <2>4. \A n \in d.asks : EndsFirst(w, T, n) BY <1>c, <2>1, <2>2 DEF AskLink
  <2>5. AskLink(b, d, w, T) BY <1>0, <1>1, <2>1, <2>2, <2>3, <2>4 DEF AskLink
  <2> QED BY <2>5 DEF w
<1>4. CASE AsksOne(e, d, u, T)
  <2>1. PICK x : u = <<x>> /\ x.n = d.asked /\ x.t \notin T /\ x.t \in AskTypes
    BY <1>4 DEF AsksOne, AskTypes
  <2>2. d.asked = e.asked + 1 /\ d.asks = {d.asked} /\ d.turn BY <1>4 DEF AsksOne
  <2>3. DOMAIN u = {1} /\ u[1] = x BY <2>1
  <2>4. x \in R
    <3>1. \A i \in DOMAIN u : u[i] \in R OBVIOUS
    <3> QED BY <2>3, <3>1
  <2>5. EndsFirst(w, T, d.asked) BY <2>1, <2>4, EndsFirstAsk
  <2> HIDE DEF w, l
  <2>6. ASSUME NEW i \in DOMAIN w
        PROVE  /\ w[i].n \in 0..d.asked
               /\ w[i].t = "resolved" => w[i].n \notin d.asks
               /\ w[i].n # 0 => w[i].t \in AskTypes \cup {"resolved"}
    <3>1. CASE i \in DOMAIN lns /\ w[i] = lns[i]
      <4> DEFINE n == lns[i].n
      <4>1. n \in 0..e.asked /\ (lns[i].n # 0 => lns[i].t \in AskTypes \cup {"resolved"})
        BY <3>1 DEF AskLink
      <4> HIDE DEF n
      <4>2. n \in 0..d.asked /\ n \notin d.asks BY <1>0, <2>2, <4>1
      <4> QED BY <3>1, <4>1, <4>2 DEF n
    <3>2. CASE i - l \in DOMAIN u /\ w[i] = u[i - l]
      <4>1. w[i] = x BY <2>3, <3>2
      <4>2. x.t # "resolved" BY <2>1 DEF AskTypes
      <4>3. d.asked \in 0..d.asked BY <1>0, <2>2
      <4> QED BY <2>1, <4>1, <4>2, <4>3
    <3> QED BY <1>2, <3>1, <3>2
  <2>7. d.asked \in Nat /\ d.asks \subseteq 1..d.asked BY <1>0, <2>2
  <2>8. AskLink(b, d, w, T) BY <1>1, <2>2, <2>5, <2>6, <2>7 DEF AskLink
  <2> QED BY <2>8 DEF w
<1> QED BY <1>3, <1>4

\* What frames answer.
LEMMA AskLinkWrites ==
    ASSUME NEW b, NEW c, NEW e, NEW d, NEW Q, e.in \in Seq(Q), NEW f \in Seq(Q), d.in = e.in \o f,
           d.asks = e.asks, d.asked = e.asked, d.turn = e.turn, NEW lns, NEW T,
           AskLink(b, e, lns, T), b.approvals \subseteq c.approvals \cup Answered(f)
    PROVE  AskLink(c, d, lns, T)
<1>1. Unans(d, lns) = Unans(e, lns) \ Answered(f)
  <2>1. Answered(d.in) = Answered(e.in) \cup Answered(f) BY AnsweredConcat
  <2> QED BY <2>1 DEF Unans
<1>2. Unans(d, lns) \subseteq c.approvals BY <1>1 DEF AskLink
<1> QED BY <1>2 DEF AskLink

\* A line is read.
LEMMA AskLinkReads ==
    ASSUME NEW b, NEW c, NEW e, NEW d, NEW Q, e.in \in Seq(Q), NEW f \in Seq(Q), d.in = e.in \o f,
           d.asks = e.asks, d.asked = e.asked, d.turn = e.turn,
           NEW R, NEW lns \in Seq(R), lns # <<>>, NEW T, AskLink(b, e, lns, T),
           b.approvals \subseteq c.approvals \cup Answered(f) \cup Resolves(Head(lns)),
           Head(lns).t \in AskTypes => Head(lns).n \in c.approvals \cup Answered(f)
    PROVE  /\ AskLink(c, d, Tail(lns), T)
           /\ \A n \in Unans(d, Tail(lns)) :
                 n \in Unans(e, lns) \/ (Head(lns).t \in AskTypes /\ Head(lns).n = n)
           /\ Head(lns).t \in T => Unans(d, Tail(lns)) = {}
<1> DEFINE h == Head(lns)
           u == Tail(lns)
<1>1. Unans(d, u) = Unans(e, u) \ Answered(f)
  <2>1. Answered(d.in) = Answered(e.in) \cup Answered(f) BY AnsweredConcat
  <2> QED BY <2>1 DEF Unans
<1>2. \A n : Names(lns, n) <=> h.n = n \/ Names(u, n) BY NamesTail
<1>3. \A i \in DOMAIN u : i + 1 \in DOMAIN lns /\ u[i] = lns[i + 1] BY TailParts
<1>4. 1 \in DOMAIN lns /\ lns[1] = h OBVIOUS
<1>5. \A n : EndsFirst(lns, T, n) => EndsFirst(u, T, n) /\ (h.t \in T => Names(u, n))
  BY EndsFirstTail
<1> HIDE DEF h, u
<1>6. h.n \in e.asks => h.t \in AskTypes
  <2>1. 0 \notin e.asks BY DEF AskLink
  <2> QED BY <1>4, <2>1 DEF AskLink
<1>7. \A n \in Unans(d, u) : n \in Unans(e, lns) \/ (h.t \in AskTypes /\ h.n = n)
  BY <1>1, <1>2, <1>6 DEF Unans
<1>8. Unans(d, u) \subseteq c.approvals
  <2> SUFFICES ASSUME NEW n \in Unans(d, u) PROVE n \in c.approvals OBVIOUS
  <2>1. n \notin Answered(f) BY <1>1
  <2>2. CASE h.t \in AskTypes /\ h.n = n BY <2>1, <2>2 DEF h
  <2>3. CASE n \in Unans(e, lns)
    <3>1. n \in b.approvals BY <2>3 DEF AskLink
    <3>2. h.n # n BY <1>2, <2>3 DEF Unans
    <3> QED BY <2>1, <3>1, <3>2 DEF Resolves, h
  <2> QED BY <1>7, <2>2, <2>3
<1>9. \A i \in DOMAIN u : /\ u[i].n \in 0..d.asked
                          /\ u[i].t = "resolved" => u[i].n \notin d.asks
                          /\ u[i].n # 0 => u[i].t \in AskTypes \cup {"resolved"}
  BY <1>3 DEF AskLink
<1>10. AskLink(c, d, u, T) BY <1>5, <1>8, <1>9 DEF AskLink
<1>11. h.t \in T => Unans(d, u) = {}
  <2>1. \A n \in e.asks : EndsFirst(lns, T, n) BY DEF AskLink
  <2> QED BY <1>5, <2>1 DEF Unans
<1> QED BY <1>7, <1>10, <1>11 DEF h, u

\* A new process asks nothing.
LEMMA AskLinkFresh ==
    ASSUME NEW b, NEW e, e.asks = {}, e.asked = 0, NEW T
    PROVE  AskLink(b, e, <<>>, T) /\ Unans(e, <<>>) = {}
<1>1. \A i \in DOMAIN <<>> : FALSE BY NoLines
<1>2. Unans(e, <<>>) = {} BY DEF Unans
<1> QED BY <1>1, <1>2 DEF AskLink

-----------------------------------------------------------------------------
\* --- the adapter and its process, whichever engine it is ---

\* The lines that end a turn, for each engine.
EndsTurn(k) == CASE k = "claude" -> RS [] k = "codex" -> TD \cup TC [] k = "acp" -> {}

\* The adapter b of this engine, its process e and the lines between are tied:
\* x says that two rewinds were under way.
Linked(x, b, e, lns) ==
    /\ kind = "claude" => ClaudeLink(b, e, lns)
    /\ kind = "codex" => CodexLink(b, e, lns) /\ (x \/ CodexUncrossed(b, e, lns))
    /\ kind = "acp" => AcpLink(b, e, lns)

\* ... and so are the approvals.
Tied(x, b, e, lns) == Linked(x, b, e, lns) /\ AskLink(b, e, lns, EndsTurn(kind))

\* What the process waits to be allowed is among the cards S (but for what a
\* refused turn of Codex has cleared, while another runs).
Shows(b, e, lns, S) ==
    \/ Unans(e, lns) \subseteq S
    \/ kind = "codex" /\ (~b.busy \/ Has(e.in, TS) \/ Has(lns, {"no-turn/start"}))

\* Three words put together, grouped either way.
LEMMA ConcatAssoc ==
    ASSUME NEW R, NEW s \in Seq(R), NEW u \in Seq(R), NEW w \in Seq(R)
    PROVE  (s \o u) \o w = s \o (u \o w)
<1> DEFINE p == (s \o u) \o w
           q == s \o (u \o w)
<1>1. p \in Seq(R) /\ q \in Seq(R) /\ Len(p) = Len(s) + Len(u) + Len(w) /\ Len(q) = Len(p)
  OBVIOUS
<1>2. \A i \in 1..Len(p) : p[i] = q[i] OBVIOUS
<1> QED BY <1>1, <1>2

\* What writing frames to a process does.
LEMMA WithIs ==
    ASSUME kind \in Engines, NEW e \in ProcessOf(kind), NEW f \in Seq(Carried(FrameOf(kind)))
    PROVE  LET d == With(e, f)
           IN  /\ d \in ProcessOf(kind) /\ d.in = e.in \o f /\ e.in \in Seq(Carried(FrameOf(kind)))
               /\ d.turn = e.turn /\ d.asks = e.asks /\ d.asked = e.asked
<1>1. CASE kind = "claude" BY <1>1, ClaudeWith DEF ProcessOf, FrameOf
<1>2. CASE kind = "codex" BY <1>2, CodexWith DEF ProcessOf, FrameOf
<1>3. CASE kind = "acp" BY <1>3, AcpWith DEF ProcessOf, FrameOf
<1> QED BY <1>1, <1>2, <1>3 DEF Engines

\* Frames written twice are written once.
LEMMA WithTwice ==
    ASSUME kind \in Engines, NEW e \in ProcessOf(kind), NEW f \in Seq(Carried(FrameOf(kind))),
           NEW g \in Seq(Carried(FrameOf(kind)))
    PROVE  With(With(e, f), g) = With(e, f \o g)
<1>1. e.in \in Seq(Carried(FrameOf(kind))) BY WithIs
<1>2. (e.in \o f) \o g = e.in \o (f \o g)
  <2> DEFINE R == Carried(FrameOf(kind))
             q == e.in
  <2>1. q \in Seq(R) /\ f \in Seq(R) /\ g \in Seq(R) BY <1>1
  <2> HIDE DEF R, q
  <2>2. (q \o f) \o g = q \o (f \o g) BY <2>1, ConcatAssoc
  <2> QED BY <2>2 DEF q
<1>3. CASE kind = "claude"
  <2>1. e \in ClaudeProcess BY <1>3 DEF ProcessOf
  <2> QED BY <1>2, <2>1 DEF With, ClaudeProcess
<1>4. CASE kind = "codex"
  <2>1. e \in CodexProcess BY <1>4 DEF ProcessOf
  <2> QED BY <1>2, <2>1 DEF With, CodexProcess
<1>5. CASE kind = "acp"
  <2>1. e \in AcpProcess BY <1>5 DEF ProcessOf
  <2> QED BY <1>2, <2>1 DEF With, AcpProcess
<1> QED BY <1>3, <1>4, <1>5 DEF Engines

\* What the process waits for when frames are written.
LEMMA UnansWith ==
    ASSUME kind \in Engines, NEW e \in ProcessOf(kind), NEW f \in Seq(Carried(FrameOf(kind))),
           NEW lns
    PROVE  Unans(With(e, f), lns) = Unans(e, lns) \ Answered(f)
<1> DEFINE d == With(e, f)
<1>1. d.in = e.in \o f /\ d.asks = e.asks /\ e.in \in Seq(Carried(FrameOf(kind))) BY WithIs
<1> HIDE DEF d
<1>2. Answered(d.in) = Answered(e.in) \cup Answered(f) BY <1>1, AnsweredConcat
<1>3. Unans(d, lns) = Unans(e, lns) \ Answered(f) BY <1>1, <1>2 DEF Unans
<1> QED BY <1>3 DEF d

\* What an op does to the approvals, and to Codex's turn.
LEMMA EncodeDoes ==
    ASSUME kind \in Engines, NEW b \in StateOf(kind), NEW op \in AnyOp
    PROVE  LET r == Encode(b, op)
           IN  /\ r.a \in StateOf(kind) /\ r.frames \in Seq(Carried(FrameOf(kind)))
               /\ b.approvals \subseteq r.a.approvals \cup Answered(r.frames)
               /\ op.op = "approve" => op.calls \cap b.approvals \subseteq Answered(r.frames)
               /\ kind = "codex" => (r.a.busy => b.busy \/ Has(r.frames, TS))
<1> DEFINE r == Encode(b, op)
<1>0. r.a \in StateOf(kind) /\ r.frames \in Seq(Carried(FrameOf(kind)))
  BY EncodeGives DEF Gives, Given
<1>1. CASE kind = "claude"
  <2>1. r = Claude!Encode(b, op) /\ b \in ClaudeState BY <1>1 DEF Encode, StateOf
  <2> HIDE DEF r
  <2>2. ClaudeOp(b, r, op) BY <2>1, ClaudeEncodeDoes
  <2>3. /\ b.approvals \subseteq r.a.approvals \cup Answered(r.frames)
        /\ op.op = "approve" => op.calls \cap b.approvals \subseteq Answered(r.frames)
    BY <2>2 DEF ClaudeOp
  <2> QED BY <1>0, <1>1, <2>3 DEF r
<1>2. CASE kind = "codex"
  <2>1. r = Codex!Encode(b, op) /\ b \in CodexState BY <1>2 DEF Encode, StateOf
  <2> HIDE DEF r
  <2>2. CodexOp(b, r, op) BY <2>1, CodexEncodeDoes
  <2>3. /\ b.approvals \subseteq r.a.approvals \cup Answered(r.frames)
        /\ op.op = "approve" => op.calls \cap b.approvals \subseteq Answered(r.frames)
        /\ r.a.busy => b.busy \/ Has(r.frames, TS)
    BY <2>2 DEF CodexOp
  <2> QED BY <1>0, <2>3 DEF r
<1>3. CASE kind = "acp"
  <2>1. r = Acp!Encode(b, op) /\ b \in AcpState BY <1>3 DEF Encode, StateOf
  <2> HIDE DEF r
  <2>2. AcpOp(b, r, op) BY <2>1, AcpEncodeDoes
  <2>3. /\ b.approvals \subseteq r.a.approvals \cup Answered(r.frames)
        /\ op.op = "approve" => op.calls \cap b.approvals \subseteq Answered(r.frames)
    BY <2>2 DEF AcpOp
  <2> QED BY <1>0, <1>3, <2>3 DEF r
<1> QED BY <1>1, <1>2, <1>3 DEF Engines

\* An op leaves them tied, and two rewinds cross at worst; ...
LEMMA OpTied ==
    ASSUME kind \in Engines, NEW x, NEW b \in StateOf(kind), NEW e \in ProcessOf(kind), NEW lns,
           Tied(x, b, e, lns), NEW op \in AnyOp,
           NEW y, y <=> x \/ (kind = "codex" /\ op.op = "rewind" /\ b.rolling)
    PROVE  LET r == Encode(b, op)
           IN  Tied(y, r.a, With(e, r.frames), lns)
<1> DEFINE r == Encode(b, op)
           d == With(e, r.frames)
<1>1. Linked(x, b, e, lns) /\ AskLink(b, e, lns, EndsTurn(kind)) BY DEF Tied
<1>2. /\ r.frames \in Seq(Carried(FrameOf(kind)))
      /\ b.approvals \subseteq r.a.approvals \cup Answered(r.frames)
  BY EncodeDoes
<1>3. /\ d.in = e.in \o r.frames /\ e.in \in Seq(Carried(FrameOf(kind)))
      /\ d.turn = e.turn /\ d.asks = e.asks /\ d.asked = e.asked
  BY <1>2, WithIs
<1>4. AskLink(r.a, d, lns, EndsTurn(kind))
  <2> HIDE DEF r, d
  <2> QED BY <1>1, <1>2, <1>3, AskLinkWrites
<1>5. Linked(y, r.a, d, lns)
  <2>1. CASE kind = "claude"
    <3>1. r = Claude!Encode(b, op) /\ b \in ClaudeState /\ e \in ClaudeProcess
      BY <2>1 DEF Encode, StateOf, ProcessOf
    <3>2. ClaudeLink(b, e, lns) BY <1>1, <2>1 DEF Linked
    <3>3. ClaudeLink(r.a, With(e, r.frames), lns)
      <4> HIDE DEF r
      <4> QED BY <3>1, <3>2, ClaudeLinkOp
    <3> QED BY <2>1, <3>3 DEF Linked
  <2>2. CASE kind = "codex"
    <3>1. r = Codex!Encode(b, op) /\ b \in CodexState /\ e \in CodexProcess
      BY <2>2 DEF Encode, StateOf, ProcessOf
    <3>2. CodexLink(b, e, lns) /\ (x \/ CodexUncrossed(b, e, lns)) BY <1>1, <2>2 DEF Linked
    <3>3. /\ CodexLink(r.a, With(e, r.frames), lns)
          /\ CodexUncrossed(b, e, lns) /\ ~(op.op = "rewind" /\ b.rolling) =>
               CodexUncrossed(r.a, With(e, r.frames), lns)
      <4> HIDE DEF r
      <4> QED BY <3>1, <3>2, CodexLinkOp
    <3> QED BY <2>2, <3>2, <3>3 DEF Linked
  <2>3. CASE kind = "acp"
    <3>1. r = Acp!Encode(b, op) /\ b \in AcpState /\ e \in AcpProcess
      BY <2>3 DEF Encode, StateOf, ProcessOf
    <3>2. AcpLink(b, e, lns) BY <1>1, <2>3 DEF Linked
    <3>3. AcpLink(r.a, With(e, r.frames), lns)
      <4> HIDE DEF r
      <4> QED BY <3>1, <3>2, AcpLinkOp
    <3> QED BY <2>3, <3>3 DEF Linked
  <2> QED BY <2>1, <2>2, <2>3 DEF Engines
<1> QED BY <1>4, <1>5 DEF Tied

\* ... and what it does not answer stays shown.
LEMMA OpShows ==
    ASSUME kind \in Engines, NEW b \in StateOf(kind), NEW e \in ProcessOf(kind), NEW lns,
           NEW S, Shows(b, e, lns, S), NEW op \in AnyOp,
           NEW V, \A n \in Unans(e, lns) \cap S : n \in V \cup Answered(Encode(b, op).frames)
    PROVE  LET r == Encode(b, op)
           IN  Shows(r.a, With(e, r.frames), lns, V)
<1> DEFINE r == Encode(b, op)
           d == With(e, r.frames)
<1>2. /\ r.frames \in Seq(Carried(FrameOf(kind)))
      /\ kind = "codex" => (r.a.busy => b.busy \/ Has(r.frames, TS))
  BY EncodeDoes
<1>3. d.in = e.in \o r.frames /\ e.in \in Seq(Carried(FrameOf(kind))) BY <1>2, WithIs
<1>4. Unans(d, lns) = Unans(e, lns) \ Answered(r.frames) BY <1>2, UnansWith
<1>5. \A n \in Unans(e, lns) \cap S : n \in V \cup Answered(r.frames) OBVIOUS
<1> HIDE DEF r, d
<1>6. Has(d.in, TS) <=> Has(e.in, TS) \/ Has(r.frames, TS) BY <1>2, <1>3, ConcatHas
<1>7. Shows(r.a, d, lns, V) BY <1>2, <1>4, <1>5, <1>6 DEF Shows
<1> QED BY <1>7 DEF r, d

\* What a line does to the approvals and the cards.
Heard(b, r, h) ==
    /\ b.approvals \subseteq r.a.approvals \cup Answered(r.frames) \cup Resolves(h)
    /\ h.t \in AskTypes =>
         \/ h.n \in r.a.approvals /\ r.events = <<NumberedAs("approval_request", h.n)>>
         \/ h.n \in Answered(r.frames) /\ r.events = <<>>

\* A line does as Heard says, for each engine.
LEMMA LineDoes ==
    ASSUME kind \in Engines, NEW b \in StateOf(kind), NEW h \in Asking(LineOf(kind))
    PROVE  LET r == Translate(b, h)
           IN  /\ r.a \in StateOf(kind) /\ r.frames \in Seq(Carried(FrameOf(kind)))
               /\ Heard(b, r, h)
<1> DEFINE r == Translate(b, h)
<1>0. r.a \in StateOf(kind) /\ r.frames \in Seq(Carried(FrameOf(kind)))
  BY TranslateGives DEF Gives, Given
<1>1. CASE kind = "claude"
  <2>1. r = Claude!Translate(b, h) /\ b \in ClaudeState /\ h \in Asking(ClaudeLine)
    BY <1>1 DEF Translate, StateOf, LineOf
  <2>2. h.t \in AskTypes => h.t = "can_use_tool"
    BY <2>1 DEF Asking, Carried, ClaudeLine, AskTypes
  <2> HIDE DEF r
  <2>3. ClaudeHears(b, r, h) BY <2>1, ClaudeTranslateDoes
  <2>4. Heard(b, r, h) BY <2>2, <2>3 DEF Heard, ClaudeHears
  <2> QED BY <1>0, <2>4 DEF r
<1>2. CASE kind = "codex"
  <2>1. r = Codex!Translate(b, h) /\ b \in CodexState /\ h \in Asking(CodexLine)
    BY <1>2 DEF Translate, StateOf, LineOf
  <2>2. h.t \in AskTypes => h.t = "requestApproval"
    BY <2>1 DEF Asking, Carried, CodexLine, AskTypes
  <2> HIDE DEF r
  <2>3. CodexHears(b, r, h) BY <2>1, CodexTranslateDoes
  <2>4. Heard(b, r, h) BY <2>2, <2>3 DEF Heard, CodexHears, CodexHeard
  <2> QED BY <1>0, <2>4 DEF r
<1>3. CASE kind = "acp"
  <2>1. r = Acp!Translate(b, h) /\ b \in AcpState /\ h \in Asking(AcpLine)
    BY <1>3 DEF Translate, StateOf, LineOf
  <2>2. h.t \in AskTypes => h.t = "request_permission"
    BY <2>1 DEF Asking, Carried, AcpLine, AskTypes
  <2> HIDE DEF r
  <2>3. AcpHears(b, r, h) BY <2>1, AcpTranslateDoes
  <2>4. Heard(b, r, h) BY <2>2, <2>3 DEF Heard, AcpHears, AcpHeard
  <2> QED BY <1>0, <2>4 DEF r
<1> QED BY <1>1, <1>2, <1>3 DEF Engines

\* What is left unanswered when the thread has read a line.
LineLeaves(e, lns, d) ==
    /\ \A n \in Unans(d, Tail(lns)) :
          n \in Unans(e, lns) \/ (Head(lns).t \in AskTypes /\ Head(lns).n = n)
    /\ Head(lns).t \in EndsTurn(kind) => Unans(d, Tail(lns)) = {}

\* A line leaves them tied.
LEMMA LineTied ==
    ASSUME kind \in Engines, NEW x, NEW b \in StateOf(kind), NEW e \in ProcessOf(kind),
           NEW lns \in Seq(Asking(LineOf(kind))), lns # <<>>, Tied(x, b, e, lns)
    PROVE  LET r == Translate(b, Head(lns))
               d == With(e, r.frames)
           IN  Tied(x, r.a, d, Tail(lns)) /\ LineLeaves(e, lns, d)
<1> DEFINE h == Head(lns)
           r == Translate(b, h)
           d == With(e, r.frames)
<1>1. Linked(x, b, e, lns) /\ AskLink(b, e, lns, EndsTurn(kind)) BY DEF Tied
<1>2. h \in Asking(LineOf(kind)) BY TailOnce
<1>3. r.frames \in Seq(Carried(FrameOf(kind))) /\ Heard(b, r, h)
  <2> HIDE DEF h
  <2> QED BY <1>2, LineDoes
<1>4. /\ d.in = e.in \o r.frames /\ e.in \in Seq(Carried(FrameOf(kind)))
      /\ d.turn = e.turn /\ d.asks = e.asks /\ d.asked = e.asked
  BY <1>3, WithIs
<1>5. AskLink(r.a, d, Tail(lns), EndsTurn(kind)) /\ LineLeaves(e, lns, d)
  <2>1. b.approvals \subseteq r.a.approvals \cup Answered(r.frames) \cup Resolves(Head(lns))
        /\ (Head(lns).t \in AskTypes => Head(lns).n \in r.a.approvals \cup Answered(r.frames))
    BY <1>3 DEF Heard
  <2> HIDE DEF r, d
  <2> DEFINE T == EndsTurn(kind)
  <2>2. AskLink(b, e, lns, T) BY <1>1
  <2> HIDE DEF T
  <2>3. /\ AskLink(r.a, d, Tail(lns), T)
        /\ \A n \in Unans(d, Tail(lns)) :
              n \in Unans(e, lns) \/ (Head(lns).t \in AskTypes /\ Head(lns).n = n)
        /\ Head(lns).t \in T => Unans(d, Tail(lns)) = {}
    BY <1>3, <1>4, <2>1, <2>2, AskLinkReads
  <2> QED BY <2>3 DEF T, LineLeaves
<1>6. Linked(x, r.a, d, Tail(lns))
  <2>1. CASE kind = "claude"
    <3>1. r = Claude!Translate(b, h) /\ b \in ClaudeState /\ e \in ClaudeProcess
          /\ lns \in Seq(Asking(ClaudeLine))
      BY <2>1 DEF Translate, StateOf, ProcessOf, LineOf
    <3>2. ClaudeLink(b, e, lns) BY <1>1, <2>1 DEF Linked
    <3>3. ClaudeLink(r.a, With(e, r.frames), Tail(lns))
      <4> HIDE DEF r
      <4> QED BY <3>1, <3>2, ClaudeLinkLine
    <3> QED BY <2>1, <3>3 DEF Linked
  <2>2. CASE kind = "codex"
    <3>1. r = Codex!Translate(b, h) /\ b \in CodexState /\ e \in CodexProcess
          /\ lns \in Seq(Asking(CodexLine))
      BY <2>2 DEF Translate, StateOf, ProcessOf, LineOf
    <3>2. CodexLink(b, e, lns) /\ (x \/ CodexUncrossed(b, e, lns)) BY <1>1, <2>2 DEF Linked
    <3>3. /\ CodexLink(r.a, With(e, r.frames), Tail(lns))
          /\ CodexUncrossed(b, e, lns) => CodexUncrossed(r.a, With(e, r.frames), Tail(lns))
      <4> HIDE DEF r
      <4> QED BY <3>1, <3>2, CodexLinkLine
    <3> QED BY <2>2, <3>2, <3>3 DEF Linked
  <2>3. CASE kind = "acp"
    <3>1. r = Acp!Translate(b, h) /\ b \in AcpState /\ e \in AcpProcess
          /\ lns \in Seq(Asking(AcpLine))
      BY <2>3 DEF Translate, StateOf, ProcessOf, LineOf
    <3>2. AcpLink(b, e, lns) BY <1>1, <2>3 DEF Linked
    <3>3. AcpLink(r.a, With(e, r.frames), Tail(lns))
      <4> HIDE DEF r
      <4> QED BY <3>1, <3>2, AcpLinkLine
    <3> QED BY <2>3, <3>3 DEF Linked
  <2> QED BY <2>1, <2>2, <2>3 DEF Engines
<1> QED BY <1>5, <1>6 DEF Tied

\* The cards cleared by a line are of a turn that is over, ...
LEMMA ReadyLeaves ==
    ASSUME kind \in Engines, NEW x, NEW b \in StateOf(kind), NEW e \in ProcessOf(kind),
           NEW lns \in Seq(Asking(LineOf(kind))), lns # <<>>, Tied(x, b, e, lns),
           Has(Translate(b, Head(lns)).events, {"ready"})
    PROVE  LET r == Translate(b, Head(lns))
               d == With(e, r.frames)
           IN  \/ Unans(d, Tail(lns)) = {}
               \/ kind = "codex" /\ (~r.a.busy \/ Has(r.frames, TS))
<1> DEFINE h == Head(lns)
           r == Translate(b, h)
           d == With(e, r.frames)
<1>1. Linked(x, b, e, lns) /\ AskLink(b, e, lns, EndsTurn(kind)) /\ LineLeaves(e, lns, d)
  BY LineTied DEF Tied
<1>2. h \in Asking(LineOf(kind)) BY TailOnce
<1>3. r.frames \in Seq(Carried(FrameOf(kind)))
  <2> HIDE DEF h
  <2> QED BY <1>2, LineDoes
<1>4. d.asks = e.asks BY <1>3, WithIs
<1>5. ~e.turn => Unans(d, Tail(lns)) = {}
  <2> HIDE DEF d
  <2> QED BY <1>1, <1>4 DEF AskLink, Unans
<1>6. h.t \in EndsTurn(kind) => Unans(d, Tail(lns)) = {} BY <1>1 DEF LineLeaves
<1>7. \A A : h.t \in A => Has(lns, A) BY TailWord
<1>8. Has(r.events, {"ready"}) OBVIOUS
<1>9. CASE kind = "claude"
  <2>1. r = Claude!Translate(b, h) /\ b \in ClaudeState /\ h \in Asking(ClaudeLine)
    BY <1>2, <1>9 DEF Translate, StateOf, LineOf
  <2> HIDE DEF r, d, h
  <2>2. ClaudeHears(b, r, h) BY <2>1, ClaudeTranslateDoes
  <2>3. h.t = "result"
    <3>1. ~Has(<<>>, {"ready"}) /\ ~Has(<<NumberedAs("approval_request", h.n)>>, {"ready"})
      BY EventWords
    <3> QED BY <1>8, <2>2, <3>1 DEF ClaudeHears
  <2>4. h.t \in EndsTurn(kind) BY <1>9, <2>3 DEF EndsTurn, RS
  <2> QED BY <1>6, <2>4 DEF d, r, h
<1>10. CASE kind = "codex"
  <2>1. r = Codex!Translate(b, h) /\ b \in CodexState /\ h \in Asking(CodexLine)
    BY <1>2, <1>10 DEF Translate, StateOf, LineOf
  <2>l. CodexLink(b, e, lns) BY <1>1, <1>10 DEF Linked
  <2> HIDE DEF r, d, h
  <2>2. CodexHears(b, r, h) BY <2>1, CodexTranslateDoes
  <2>3. h.t \in {"opened", "no-thread/start", "no-turn/start", "turn/completed"}
    BY <1>8, <2>2 DEF CodexHears, CodexHeard
  <2>4. CASE h.t \in {"opened", "no-thread/start"}
    <3>1. Has(lns, TOL) BY <1>7, <2>4 DEF TOL
    <3>2. ~e.turn BY <2>l, <3>1 DEF CodexLink
    <3> QED BY <1>5, <3>2 DEF d, r, h
  <2>5. CASE h.t = "turn/completed"
    <3>1. h.t \in EndsTurn(kind) BY <1>10, <2>5 DEF EndsTurn, TC
    <3> QED BY <1>6, <3>1 DEF d, r, h
  <2>6. CASE h.t = "no-turn/start"
    <3>1. ~r.a.busy \/ Has(r.frames, TS) BY <2>2, <2>6 DEF CodexHears, CodexHeard, TL
    <3> QED BY <1>10, <3>1 DEF d, r, h
  <2> QED BY <2>3, <2>4, <2>5, <2>6
<1>11. CASE kind = "acp"
  <2>1. r = Acp!Translate(b, h) /\ b \in AcpState /\ h \in Asking(AcpLine)
    BY <1>2, <1>11 DEF Translate, StateOf, LineOf
  <2>l. AcpLink(b, e, lns) BY <1>1, <1>11 DEF Linked
  <2> HIDE DEF r, d, h
  <2>2. AcpHears(b, r, h) BY <2>1, AcpTranslateDoes
  <2>3. h.t \in OL \/ h.t \in PL BY <1>8, <2>2 DEF AcpHears, AcpHeard
  <2>4. Has(lns, OL) \/ Has(lns, PL) BY <1>7, <2>3
  <2>5. ~e.turn BY <2>l, <2>4 DEF AcpLink
  <2> QED BY <1>5, <2>5 DEF d, r, h
<1> QED BY <1>9, <1>10, <1>11 DEF Engines

\* The cards after a line: those left, and what it asked.
LEMMA CardsIs ==
    ASSUME NEW S, NEW events
    PROVE  /\ Has(events, {"ready"}) => CardsAfter(S, events) = {}
           /\ ~Has(events, {"ready"}) =>
                 CardsAfter(S, events) = S \cup CardsAfter({}, events)
           /\ \A n : events = <<NumberedAs("approval_request", n)>> =>
                 ~Has(events, {"ready"}) /\ n \in CardsAfter(S, events)
<1>1. Has(events, {"ready"}) <=> \E i \in DOMAIN events : events[i].t = "ready" BY DEF Has
<1>2. ASSUME NEW n, events = <<NumberedAs("approval_request", n)>>
      PROVE  ~Has(events, {"ready"}) /\ n \in CardsAfter(S, events)
  <2>1. DOMAIN events = {1} /\ events[1].t = "approval_request" /\ events[1].n = n
    BY <1>2 DEF NumberedAs
  <2> QED BY <1>1, <2>1 DEF CardsAfter
<1> QED BY <1>1, <1>2 DEF CardsAfter

\* ... and what the process waits for is shown after a line as before it.
LEMMA LineShows ==
    ASSUME kind \in Engines, NEW x, NEW b \in StateOf(kind), NEW e \in ProcessOf(kind),
           NEW lns \in Seq(Asking(LineOf(kind))), lns # <<>>, Tied(x, b, e, lns),
           NEW S, Shows(b, e, lns, S)
    PROVE  LET r == Translate(b, Head(lns))
           IN  Shows(r.a, With(e, r.frames), Tail(lns), CardsAfter(S, r.events))
<1> DEFINE h == Head(lns)
           r == Translate(b, h)
           d == With(e, r.frames)
           V == CardsAfter(S, r.events)
<1>1. LineLeaves(e, lns, d) BY LineTied
<1>2. h \in Asking(LineOf(kind)) BY TailOnce
<1>3. r.frames \in Seq(Carried(FrameOf(kind))) /\ Heard(b, r, h)
  <2> HIDE DEF h
  <2> QED BY <1>2, LineDoes
<1>4. d.in = e.in \o r.frames /\ e.in \in Seq(Carried(FrameOf(kind))) /\ d.asks = e.asks
  BY <1>3, WithIs
<1>5. \A A : Has(lns, A) <=> h.t \in A \/ Has(Tail(lns), A) BY TailWord
<1>r. Has(r.events, {"ready"}) =>
         Unans(d, Tail(lns)) = {} \/ (kind = "codex" /\ (~r.a.busy \/ Has(r.frames, TS)))
  BY ReadyLeaves
<1>c. kind = "codex" => CodexHears(b, r, h)
  <2>1. ASSUME kind = "codex"
        PROVE  r = Codex!Translate(b, h) /\ b \in CodexState /\ h \in Asking(CodexLine)
    BY <1>2, <2>1 DEF Translate, StateOf, LineOf
  <2> HIDE DEF r
  <2> QED BY <2>1, CodexTranslateDoes
<1>e. kind = "codex" /\ h.t = "turn/started" => h.t \in EndsTurn(kind) BY DEF EndsTurn, TD
<1> HIDE DEF r, d, h
<1>v. /\ Has(r.events, {"ready"}) => V = {}
      /\ ~Has(r.events, {"ready"}) => S \subseteq V
      /\ \A n : r.events = <<NumberedAs("approval_request", n)>> =>
            ~Has(r.events, {"ready"}) /\ n \in V
  <2> DEFINE ev == r.events
  <2> HIDE DEF ev
  <2>1. /\ Has(ev, {"ready"}) => CardsAfter(S, ev) = {}
        /\ ~Has(ev, {"ready"}) => CardsAfter(S, ev) = S \cup CardsAfter({}, ev)
        /\ \A n : ev = <<NumberedAs("approval_request", n)>> =>
              ~Has(ev, {"ready"}) /\ n \in CardsAfter(S, ev)
    BY CardsIs
  <2> QED BY <2>1 DEF ev
<1> HIDE DEF V
<1>i. \A A : Has(d.in, A) <=> Has(e.in, A) \/ Has(r.frames, A) BY <1>3, <1>4, ConcatHas
<1>6. CASE Has(r.events, {"ready"}) BY <1>6, <1>r, <1>v, <1>i DEF Shows, V, r, d, h
<1>7. CASE ~Has(r.events, {"ready"}) /\ Unans(e, lns) \subseteq S
  <2>1. Answered(d.in) = Answered(e.in) \cup Answered(r.frames) BY <1>3, <1>4, AnsweredConcat
  <2>2. ASSUME NEW n \in Unans(d, Tail(lns)) PROVE n \in V
    <3>1. n \notin Answered(r.frames) BY <2>1 DEF Unans
    <3>2. n \in Unans(e, lns) \/ (h.t \in AskTypes /\ h.n = n) BY <1>1 DEF LineLeaves, h
    <3> QED BY <1>3, <1>7, <1>v, <3>1, <3>2 DEF Heard
  <2>3. Unans(d, Tail(lns)) \subseteq V BY <2>2
  <2> QED BY <2>3 DEF Shows, V, r, d, h
<1>8. CASE kind = "codex" /\ (~b.busy \/ Has(e.in, TS) \/ Has(lns, {"no-turn/start"}))
  <2>1. r.a.busy => \/ Has(r.frames, TS) \/ h.t = "turn/started"
                    \/ b.busy /\ h.t \notin TL \cup {"no-thread/start"}
    BY <1>8, <1>c DEF CodexHears, CodexHeard
  <2>2. h.t = "turn/started" => Unans(d, Tail(lns)) = {}
    BY <1>1, <1>8, <1>e DEF LineLeaves, h
  <2>3. Has(lns, {"no-turn/start"}) => h.t \in TL \/ Has(Tail(lns), {"no-turn/start"})
    BY <1>5 DEF TL
  <2>4. \/ Unans(d, Tail(lns)) = {}
        \/ ~r.a.busy \/ Has(d.in, TS) \/ Has(Tail(lns), {"no-turn/start"})
    BY <1>8, <1>i, <2>1, <2>2, <2>3
  <2> QED BY <1>8, <2>4 DEF Shows, V, r, d, h
<1> QED BY <1>6, <1>7, <1>8 DEF Shows, V, r, d, h

\* Answering the cards answers what they show.
LEMMA AllowedTied ==
    ASSUME kind \in Engines, NEW x, NEW b \in StateOf(kind), NEW e \in ProcessOf(kind), NEW lns,
           NEW r \in Given(kind), Tied(x, r.a, With(e, r.frames), lns),
           NEW calls \in SUBSET (1..MaxAsks), Shows(r.a, With(e, r.frames), lns, calls)
    PROVE  LET s == Allowed(r, calls)
           IN  /\ Tied(x, s.a, With(e, s.frames), lns)
               /\ Shows(s.a, With(e, s.frames), lns, {})
<1> DEFINE op == [op |-> "approve", calls |-> calls]
           q == Encode(r.a, op)
           s == Allowed(r, calls)
           d == With(e, r.frames)
<1>1. r.a \in StateOf(kind) /\ r.frames \in Seq(Carried(FrameOf(kind))) BY DEF Given
<1>2. op \in AnyOp /\ op.op = "approve" /\ op.calls = calls BY DEF AnyOp
<1>3. d \in ProcessOf(kind) BY <1>1, WithIs
<1>4. CASE calls = {} BY <1>4 DEF Allowed
<1>5. CASE calls # {}
  <2>1. s.a = q.a /\ s.frames = r.frames \o q.frames BY <1>5 DEF Allowed, Then
  <2> HIDE DEF op, d, s
  <2>2. /\ q.frames \in Seq(Carried(FrameOf(kind)))
        /\ calls \cap r.a.approvals \subseteq Answered(q.frames)
    BY <1>1, <1>2, EncodeDoes
  <2>3. Tied(x, r.a, d, lns) /\ Shows(r.a, d, lns, calls) BY DEF d
  <2>4. Tied(x, q.a, With(d, q.frames), lns)
    <3>1. x <=> x \/ (kind = "codex" /\ op.op = "rewind" /\ r.a.rolling) BY <1>2
    <3> QED BY <1>1, <1>2, <1>3, <2>3, <3>1, OpTied
  <2>5. Unans(d, lns) \subseteq r.a.approvals BY <2>3 DEF Tied, AskLink
  <2>6. \A n \in Unans(d, lns) \cap calls : n \in {} \cup Answered(q.frames) BY <2>2, <2>5
  <2>7. Shows(q.a, With(d, q.frames), lns, {}) BY <1>1, <1>2, <1>3, <2>3, <2>6, OpShows
  <2> HIDE DEF q
  <2>8. With(d, q.frames) = With(e, s.frames) BY <1>1, <2>1, <2>2, WithTwice DEF d
  <2>9. Tied(x, s.a, With(e, s.frames), lns) /\ Shows(s.a, With(e, s.frames), lns, {})
    BY <2>1, <2>4, <2>7, <2>8
  <2> QED BY <2>9 DEF s
<1> QED BY <1>4, <1>5

\* A step of the process leaves them tied, and no card of what it asked unshown.
LEMMA StepTied ==
    ASSUME kind \in Engines, proc \in ProcessOf(kind), NEW s \in ProcessSteps, NEW x,
           NEW b \in StateOf(kind), NEW lns \in Seq(Asking(LineOf(kind))),
           Tied(x, b, proc, lns)
    PROVE  Tied(x, b, s.e, lns \o s.lines)
<1> DEFINE e == proc
           d == s.e
           u == s.lines
           R == Asking(LineOf(kind))
           Q == Carried(FrameOf(kind))
           T == EndsTurn(kind)
<1>1. Linked(x, b, e, lns) /\ AskLink(b, e, lns, T) BY DEF Tied
<1>2. lns \in Seq(R) /\ u \in Seq(R) BY StepsTyped
<1>3. e.in \in Seq(Q)
  <2>1. <<>> \in Seq(Q) OBVIOUS
  <2> QED BY <2>1, WithIs
<1>4. CASE kind = "claude"
  <2>1. e \in ClaudeProcess /\ s \in Claude!ProcessSteps(e, MaxAsks) /\ b \in ClaudeState
        /\ lns \in Seq(Asking(ClaudeLine)) /\ T = RS
    BY <1>4 DEF ProcessOf, ProcessSteps, StateOf, LineOf, EndsTurn
  <2>2. ClaudeLink(b, e, lns) BY <1>1, <1>4 DEF Linked
  <2> HIDE DEF e, R, Q, T
  <2>3. ClaudeLink(b, d, lns \o u) BY <2>1, <2>2, ClaudeLinkStep
  <2>4. Reading(e, d) /\ (Fewer(e, d, u, T) \/ AsksOne(e, d, u, T))
    <3>1. ClaudeDoes(e, d, u) BY <2>1, ClaudeStepDoes
    <3> QED BY <2>1, <3>1 DEF ClaudeDoes, RS
  <2> HIDE DEF d, u
  <2>5. AskLink(b, d, lns \o u, T) BY <1>1, <1>2, <1>3, <2>4, AskLinkStep
  <2> QED BY <1>4, <2>3, <2>5 DEF Tied, Linked, d, u, T
<1>5. CASE kind = "codex"
  <2>1. e \in CodexProcess /\ s \in Codex!ProcessSteps(e, MaxAsks) /\ b \in CodexState
        /\ lns \in Seq(Asking(CodexLine)) /\ T = TD \cup TC
    BY <1>5 DEF ProcessOf, ProcessSteps, StateOf, LineOf, EndsTurn
  <2>2. CodexLink(b, e, lns) /\ (x \/ CodexUncrossed(b, e, lns)) BY <1>1, <1>5 DEF Linked
  <2> HIDE DEF e, R, Q, T
  <2>3. CodexLink(b, d, lns \o u)
        /\ (CodexUncrossed(b, e, lns) => CodexUncrossed(b, d, lns \o u))
    BY <2>1, <2>2, CodexLinkStep
  <2>4. Reading(e, d) /\ (Fewer(e, d, u, T) \/ AsksOne(e, d, u, T))
    <3>1. CodexDoes(e, d, u) BY <2>1, CodexStepDoes
    <3> QED BY <2>1, <3>1 DEF CodexDoes
  <2> HIDE DEF d, u
  <2>5. AskLink(b, d, lns \o u, T) BY <1>1, <1>2, <1>3, <2>4, AskLinkStep
  <2> QED BY <1>5, <2>2, <2>3, <2>5 DEF Tied, Linked, d, u, T
<1>6. CASE kind = "acp"
  <2>1. e \in AcpProcess /\ s \in Acp!ProcessSteps(e, MaxAsks) /\ b \in AcpState
        /\ lns \in Seq(Asking(AcpLine)) /\ T = {}
    BY <1>6 DEF ProcessOf, ProcessSteps, StateOf, LineOf, EndsTurn
  <2>2. AcpLink(b, e, lns) BY <1>1, <1>6 DEF Linked
  <2> HIDE DEF e, R, Q, T
  <2>3. AcpLink(b, d, lns \o u) BY <2>1, <2>2, AcpLinkStep
  <2>4. Reading(e, d) /\ (Fewer(e, d, u, T) \/ AsksOne(e, d, u, T))
    <3>1. AcpDoes(e, d, u) BY <2>1, AcpStepDoes
    <3> QED BY <2>1, <3>1 DEF AcpDoes
  <2> HIDE DEF d, u
  <2>5. AskLink(b, d, lns \o u, T) BY <1>1, <1>2, <1>3, <2>4, AskLinkStep
  <2> QED BY <1>6, <2>3, <2>5 DEF Tied, Linked, d, u, T
<1> QED BY <1>1, <1>4, <1>5, <1>6 DEF Engines

\* The steps of a process, whatever its engine.
LEMMA StepReads ==
    ASSUME kind \in Engines, proc \in ProcessOf(kind), NEW s \in ProcessSteps
    PROVE  LET T == EndsTurn(kind)
           IN  /\ Reading(proc, s.e)
               /\ Fewer(proc, s.e, s.lines, T) \/ AsksOne(proc, s.e, s.lines, T)
               /\ kind = "codex" => CodexDoes(proc, s.e, s.lines)
<1>1. CASE kind = "claude"
  <2>1. ClaudeDoes(proc, s.e, s.lines) BY <1>1, ClaudeStepDoes DEF ProcessOf, ProcessSteps
  <2> QED BY <1>1, <2>1 DEF ClaudeDoes, EndsTurn, RS
<1>2. CASE kind = "codex"
  <2>1. CodexDoes(proc, s.e, s.lines) BY <1>2, CodexStepDoes DEF ProcessOf, ProcessSteps
  <2> QED BY <1>2, <2>1 DEF CodexDoes, EndsTurn
<1>3. CASE kind = "acp"
  <2>1. AcpDoes(proc, s.e, s.lines) BY <1>3, AcpStepDoes DEF ProcessOf, ProcessSteps
  <2> QED BY <1>3, <2>1 DEF AcpDoes, EndsTurn
<1> QED BY <1>1, <1>2, <1>3 DEF Engines

\* What the process waits for is shown after its step as before it.
LEMMA StepShows ==
    ASSUME kind \in Engines, proc \in ProcessOf(kind), NEW s \in ProcessSteps, NEW x,
           NEW b \in StateOf(kind), NEW lns \in Seq(Asking(LineOf(kind))),
           Tied(x, b, proc, lns), NEW S, Shows(b, proc, lns, S)
    PROVE  Shows(b, s.e, lns \o s.lines, S)
<1> DEFINE e == proc
           d == s.e
           u == s.lines
           R == Asking(LineOf(kind))
           Q == Carried(FrameOf(kind))
           T == EndsTurn(kind)
<1>1. AskLink(b, e, lns, T) /\ Shows(b, e, lns, S) BY DEF Tied
<1>2. lns \in Seq(R) /\ u \in Seq(R) BY StepsTyped
<1>3. e.in \in Seq(Q)
  <2>1. <<>> \in Seq(Q) OBVIOUS
  <2> QED BY <2>1, WithIs
<1>4. /\ Reading(e, d) /\ (Fewer(e, d, u, T) \/ AsksOne(e, d, u, T))
      /\ kind = "codex" => CodexDoes(e, d, u)
  BY StepReads
<1> HIDE DEF e, d, u, R, Q, T
<1>5. Unans(d, lns \o u) \subseteq Unans(e, lns) BY <1>2, <1>3, <1>4, UnansStep
<1>6. \A A : Has(lns \o u, A) <=> Has(lns, A) \/ Has(u, A) BY <1>2, ConcatHas
<1>7. CASE Unans(e, lns) \subseteq S BY <1>5, <1>7 DEF Shows, d, u
<1>8. CASE kind = "codex" /\ (~b.busy \/ Has(lns, {"no-turn/start"}))
  BY <1>6, <1>8 DEF Shows, d, u
<1>9. CASE kind = "codex" /\ Has(e.in, TS)
  <2>1. CodexReading(e, d, u) \/ CodexEnding(e, d, u) \/ CodexAsking(e, d, u)
    BY <1>4, <1>9 DEF CodexDoes
  <2>2. e.in # <<>> => (Has(e.in, TS) <=> Head(e.in).t \in TS \/ Has(Tail(e.in), TS))
    BY <1>3, TailWord
  <2>3. CASE Has(d.in, TS) BY <1>9, <2>3 DEF Shows, d, u
  <2>4. CASE ~Has(d.in, TS)
    <3>1. d.in # e.in BY <1>9, <2>4
    <3>2. e.in # <<>> /\ d.in = Tail(e.in) BY <1>4, <3>1 DEF Reading
    <3>3. Head(e.in).t = "turn/start" BY <1>9, <2>2, <2>4, <3>2 DEF TS
    <3>4. CodexReading(e, d, u) BY <2>1, <3>1, <3>3 DEF CodexEnding, CodexAsking
    <3>5. (\E y : u = <<y>> /\ y.t = "no-turn/start") \/ ~e.turn
      BY <3>3, <3>4 DEF CodexReading, TO, TS, SF, RF
    <3>6. CASE ~e.turn
      <4>1. Unans(e, lns) = {} BY <1>1, <3>6 DEF AskLink, Unans
      <4> QED BY <1>5, <4>1 DEF Shows, d, u
    <3>7. CASE \E y : u = <<y>> /\ y.t = "no-turn/start"
      <4>1. Has(u, {"no-turn/start"}) BY <3>7, OneWord
      <4> QED BY <1>6, <1>9, <4>1 DEF Shows, d, u
    <3> QED BY <3>5, <3>6, <3>7
  <2> QED BY <2>3, <2>4
<1> QED BY <1>1, <1>7, <1>8, <1>9 DEF Shows

\* A new process and its adapter are tied, and it has asked nothing.
LEMMA FreshTied ==
    ASSUME NEW k \in Engines, k = kind, NEW mode \in Mode, NEW resume \in BOOLEAN, NEW x
    PROVE  LET new == Adapter(k, mode, resume)
               e == [Process(k) EXCEPT !.in = new.frames]
           IN  Tied(x, new.a, e, <<>>) /\ Unans(e, <<>>) = {}
<1> DEFINE new == Adapter(k, mode, resume)
           e == [Process(k) EXCEPT !.in = new.frames]
<1>1. e.asks = {} /\ e.asked = 0
  <2>1. CASE k = "claude"
    BY <2>1 DEF Process, Claude!FreshProcess
  <2>2. CASE k = "codex"
    BY <2>2 DEF Process, Codex!FreshProcess
  <2>3. CASE k = "acp"
    BY <2>3 DEF Process, Acp!FreshProcess
  <2> QED BY <2>1, <2>2, <2>3 DEF Engines
<1>2. AskLink(new.a, e, <<>>, EndsTurn(kind)) /\ Unans(e, <<>>) = {}
  <2> DEFINE T == EndsTurn(kind)
             c == new.a
  <2> HIDE DEF T, c, e, new
  <2>1. AskLink(c, e, <<>>, T) /\ Unans(e, <<>>) = {} BY <1>1, AskLinkFresh
  <2> QED BY <2>1 DEF T, c
<1>3. Linked(x, new.a, e, <<>>)
  <2>1. CASE k = "claude"
    <3>1. new.a = Claude!Fresh(mode) /\ new.frames = <<>> BY <2>1 DEF Adapter
    <3>2. Process(k) = Claude!FreshProcess BY <2>1 DEF Process
    <3>3. [Claude!FreshProcess EXCEPT !.in = <<>>] = Claude!FreshProcess
      BY DEF Claude!FreshProcess
    <3>4. e = Claude!FreshProcess BY <3>1, <3>2, <3>3
    <3> HIDE DEF new, e
    <3>5. ClaudeLink(Claude!Fresh(mode), Claude!FreshProcess, <<>>) BY ClaudeLinkFresh
    <3>6. Linked(x, new.a, e, <<>>) BY <2>1, <3>1, <3>4, <3>5 DEF Linked
    <3> QED BY <3>6 DEF new, e
  <2>2. CASE k = "codex"
    <3> DEFINE b == Codex!Fresh(mode, resume)
    <3>1. new.a = b /\ e = [Codex!FreshProcess EXCEPT !.in = Codex!Start(b)]
      BY <2>2 DEF Adapter, Process
    <3>2. LET g == [Codex!FreshProcess EXCEPT !.in = Codex!Start(b)]
          IN  CodexLink(b, g, <<>>) /\ CodexUncrossed(b, g, <<>>)
      BY CodexLinkFresh
    <3> HIDE DEF new, e, b
    <3>3. Linked(x, new.a, e, <<>>) BY <2>2, <3>1, <3>2 DEF Linked
    <3> QED BY <3>3 DEF new, e
  <2>3. CASE k = "acp"
    <3> DEFINE b == Acp!Fresh(mode, resume)
    <3>1. new.a = b /\ e = [Acp!FreshProcess EXCEPT !.in = Acp!Start(b)]
      BY <2>3 DEF Adapter, Process
    <3>2. LET g == [Acp!FreshProcess EXCEPT !.in = Acp!Start(b)]
          IN  AcpLink(b, g, <<>>)
      BY AcpLinkFresh
    <3> HIDE DEF new, e, b
    <3>3. Linked(x, new.a, e, <<>>) BY <2>3, <3>1, <3>2 DEF Linked
    <3> QED BY <3>3 DEF new, e
  <2> QED BY <2>1, <2>2, <2>3 DEF Engines
<1> QED BY <1>2, <1>3 DEF Tied

-----------------------------------------------------------------------------
\* --- the steps of the thread keep them tied ---

\* The cards that must show what the process waits for.
Due(pending, shown) == IF pending = "full" THEN {} ELSE shown

\* While the thread has a process, they are tied and what it waits for is shown.
Bound(x, b, e, lns, S) == Tied(x, b, e, lns) /\ Shows(b, e, lns, S)

\* The invariant: an adapter whose process lives is tied to it, and what the
\* process waits for is on the cards, unless a switch to full access that was read
\* is to allow it (EngineSession::handle_output, Session::run).
EngineLink ==
    phase \in {"ops", "lines", "surface"} =>
        Bound(crossed, a, proc, lines, Due(pendingMode, cards))

\* The invariant, of the next state's parts.
LEMMA BoundNext ==
    ASSUME kind' = kind,
           phase' \in {"ops", "lines", "surface"} =>
               Bound(crossed', a', proc', lines', Due(pendingMode', cards'))
    PROVE  EngineLink'
BY DEF EngineLink, Bound, Tied, Shows, Linked, EndsTurn, AskLink, Due,
       ClaudeLink, CodexLink, CodexUncrossed, AcpLink, Unans

\* More cards, or two rewinds that cross, leave them bound.
LEMMA BoundWider ==
    ASSUME NEW x, NEW b, NEW e, NEW lns, NEW S, Bound(x, b, e, lns, S), NEW V, S \subseteq V,
           NEW y, x => y
    PROVE  Bound(y, b, e, lns, V)
BY DEF Bound, Tied, Linked, Shows

\* A step that leaves the adapter, its process and the lines alone.
LEMMA LinkStays ==
    ASSUME EngineLink, kind' = kind, UNCHANGED <<a, proc, lines, cards>>,
           phase' \in {"ops", "lines", "surface"} => phase \in {"ops", "lines", "surface"},
           crossed => crossed',
           pendingMode' = pendingMode \/ pendingMode' = "none"
    PROVE  EngineLink'
<1> SUFFICES ASSUME phase' \in {"ops", "lines", "surface"}
             PROVE  Bound(crossed', a', proc', lines', Due(pendingMode', cards'))
  BY BoundNext
<1>1. Bound(crossed, a, proc, lines, Due(pendingMode, cards)) BY DEF EngineLink
<1>2. Due(pendingMode, cards) \subseteq Due(pendingMode', cards') BY DEF Due
<1> QED BY <1>1, <1>2, BoundWider

\* A step that publishes an output.
LEMMA LinkPublishes ==
    ASSUME EngineTyped, kind' = kind, NEW r, NEW shown, Publish(r, shown),
           phase' \in {"ops", "lines", "surface"} =>
               Bound(crossed', r.a, With(proc, r.frames), lines',
                     Due(pendingMode', CardsAfter(shown, r.events)))
    PROVE  EngineLink'
<1>1. a' = r.a /\ proc' = With(proc, r.frames) /\ cards' = CardsAfter(shown, r.events)
  BY DEF Publish, With
<1> QED BY <1>1, BoundNext

\* Events that tell of messages leave the cards.
LEMMA QuietCards ==
    ASSUME NEW events, SaysOnce(events), NEW S
    PROVE  CardsAfter(S, events) = S
<1>1. \A i \in DOMAIN events : events[i].t \notin {"approval_request", "ready"} BY SaysOnceNames
<1> QED BY <1>1 DEF CardsAfter

\* An op that does not answer, and one that does.
LEMMA OpBound ==
    ASSUME kind \in Engines, NEW x, NEW b \in StateOf(kind), NEW e \in ProcessOf(kind), NEW lns,
           NEW S, Bound(x, b, e, lns, S), NEW op \in AnyOp,
           NEW y, y <=> x \/ (kind = "codex" /\ op.op = "rewind" /\ b.rolling),
           NEW V, S \subseteq V \cup (IF op.op = "approve" THEN op.calls ELSE {})
    PROVE  LET r == Encode(b, op)
           IN  Bound(y, r.a, With(e, r.frames), lns, V)
<1> DEFINE r == Encode(b, op)
<1>1. Tied(x, b, e, lns) /\ Shows(b, e, lns, S) BY DEF Bound
<1>2. Tied(y, r.a, With(e, r.frames), lns) BY <1>1, OpTied
<1>3. \A n \in Unans(e, lns) \cap S : n \in V \cup Answered(r.frames)
  <2>1. Unans(e, lns) \subseteq b.approvals BY <1>1 DEF Tied, AskLink
  <2>2. op.op = "approve" => op.calls \cap b.approvals \subseteq Answered(r.frames)
    BY EncodeDoes
  <2> HIDE DEF r
  <2> QED BY <2>1, <2>2
<1>4. Shows(r.a, With(e, r.frames), lns, V) BY <1>1, <1>3, OpShows
<1> QED BY <1>2, <1>4 DEF Bound

\* The ops that an adapter encodes keep the invariant, ...
LEMMA TakeEncodedLinks ==
    ASSUME EngineTyped, EngineLink, TakeEncoded
    PROVE  EngineLink'
<1> DEFINE op == Head(ops)
           r == Encode(a, op)
           shown == IF op.op = "approve" THEN cards \ op.calls ELSE cards
<1>1. kind \in Engines /\ a \in StateOf(kind) /\ proc \in ProcessOf(kind)
  BY KindIs DEF EngineTyped
<1>2. op \in AnyOp /\ phase = "ops" BY HeadOp DEF TakeEncoded, NextOp
<1>3. /\ kind' = kind /\ Publish(r, shown) /\ lines' = lines /\ pendingMode' = pendingMode
      /\ crossed' = (crossed \/ (kind = "codex" /\ op.op = "rewind" /\ a.rolling))
  BY DEF TakeEncoded, Took
<1>4. Bound(crossed, a, proc, lines, Due(pendingMode, cards)) BY <1>2 DEF EngineLink
<1>5. CardsAfter(shown, r.events) = shown
  <2>1. SaysOnce(r.events) BY <1>1, <1>2, EncodeTells
  <2> HIDE DEF r, shown
  <2> QED BY <2>1, QuietCards
<1>6. Due(pendingMode, cards) \subseteq
        Due(pendingMode, shown) \cup (IF op.op = "approve" THEN op.calls ELSE {})
  BY DEF Due
<1>7. Bound(crossed', r.a, With(proc, r.frames), lines, Due(pendingMode, shown))
  <2> DEFINE y == crossed'
             S == Due(pendingMode, cards)
             V == Due(pendingMode, shown)
  <2>1. y <=> crossed \/ (kind = "codex" /\ op.op = "rewind" /\ a.rolling) BY <1>3
  <2> HIDE DEF y, S, V, op
  <2> QED BY <1>1, <1>2, <1>4, <1>6, <2>1, OpBound DEF S, V, y
<1> QED BY <1>3, <1>5, <1>7, LinkPublishes

\* ... the others, ...
LEMMA TakeOtherLinks ==
    ASSUME EngineTyped, EngineLink, TakeTui \/ TakeGateway
    PROVE  EngineLink'
<1>1. /\ kind' = kind /\ UNCHANGED <<a, proc, lines, cards, pendingMode>> /\ phase = "ops"
      /\ crossed => crossed'
  BY DEF TakeTui, TakeGateway, Took, NextOp
<1> QED BY <1>1, LinkStays

\* No frames leave the process as it was.
LEMMA WithNone ==
    ASSUME kind \in Engines, NEW e \in ProcessOf(kind)
    PROVE  With(e, <<>>) = e
<1> DEFINE Q == Carried(FrameOf(kind))
           q == e.in
<1>1. q \in Seq(Q)
  <2>1. <<>> \in Seq(Q) OBVIOUS
  <2> QED BY <2>1, WithIs
<1>2. e.in \o <<>> = e.in
  <2> HIDE DEF q, Q
  <2>1. q \o <<>> = q BY <1>1
  <2> QED BY <2>1 DEF q
<1>3. CASE kind = "claude"
  <2>1. e \in ClaudeProcess BY <1>3 DEF ProcessOf
  <2> QED BY <1>2, <2>1 DEF With, ClaudeProcess
<1>4. CASE kind = "codex"
  <2>1. e \in CodexProcess BY <1>4 DEF ProcessOf
  <2> QED BY <1>2, <2>1 DEF With, CodexProcess
<1>5. CASE kind = "acp"
  <2>1. e \in AcpProcess BY <1>5 DEF ProcessOf
  <2> QED BY <1>2, <2>1 DEF With, AcpProcess
<1> QED BY <1>3, <1>4, <1>5 DEF Engines

\* A switch to full access answers the open approvals.
LEMMA AllowOpenBound ==
    ASSUME EngineTyped, EngineLink, phase = "ops", NEW mode \in Mode
    PROVE  LET s == AllowOpen(mode)
           IN  /\ s \in Given(kind)
               /\ Bound(crossed, s.a, With(proc, s.frames), lines, Due(mode, cards))
               /\ mode = "ask" => s = Nothing
<1> DEFINE s == AllowOpen(mode)
<1>1. kind \in Engines /\ a \in StateOf(kind) /\ proc \in ProcessOf(kind)
      /\ cards \in SUBSET (1..MaxAsks)
  BY KindIs DEF EngineTyped
<1>2. Bound(crossed, a, proc, lines, Due(pendingMode, cards)) BY DEF EngineLink
<1>3. Nothing \in Given(kind) /\ Nothing.a = a /\ Nothing.frames = <<>>
  BY <1>1, QuietGives DEF Nothing, Gives
<1>4. With(proc, Nothing.frames) = proc BY <1>1, <1>3, WithNone
<1>5. Bound(crossed, a, proc, lines, cards)
  <2>1. Due(pendingMode, cards) \subseteq cards BY DEF Due
  <2> QED BY <1>2, <2>1, BoundWider
<1>6. CASE mode = "full"
  <2>1. s = Allowed(Nothing, cards) BY <1>6 DEF AllowOpen
  <2>2. s \in Given(kind)
    <3>1. Gives(a, Nothing, {}) BY <1>1, QuietGives DEF Nothing
    <3>2. Gives(a, Allowed(Nothing, cards), {}) BY <1>1, <3>1, AllowedGives
    <3> QED BY <2>1, <3>2 DEF Gives
  <2>3. Tied(crossed, Nothing.a, With(proc, Nothing.frames), lines)
        /\ Shows(Nothing.a, With(proc, Nothing.frames), lines, cards)
    BY <1>3, <1>4, <1>5 DEF Bound
  <2> DEFINE n == Nothing
  <2> HIDE DEF n
  <2>4. /\ Tied(crossed, Allowed(n, cards).a, With(proc, Allowed(n, cards).frames), lines)
        /\ Shows(Allowed(n, cards).a, With(proc, Allowed(n, cards).frames), lines, {})
    <3>1. n \in Given(kind) /\ Tied(crossed, n.a, With(proc, n.frames), lines)
          /\ Shows(n.a, With(proc, n.frames), lines, cards)
      BY <1>3, <2>3 DEF n
    <3> QED BY <1>1, <3>1, AllowedTied
  <2> HIDE DEF s
  <2>5. Bound(crossed, s.a, With(proc, s.frames), lines, Due(mode, cards))
    BY <1>6, <2>1, <2>4 DEF Bound, Due, n
  <2> QED BY <1>6, <2>2, <2>5 DEF s
<1>7. CASE mode = "ask"
  <2>1. s = Nothing BY <1>7 DEF AllowOpen
  <2>2. Due(mode, cards) = cards BY <1>7 DEF Due
  <2> HIDE DEF s
  <2>3. Bound(crossed, s.a, With(proc, s.frames), lines, Due(mode, cards))
    BY <1>3, <1>4, <1>5, <2>1, <2>2
  <2> QED BY <1>3, <2>1, <2>3 DEF s
<1> QED BY <1>6, <1>7 DEF Mode

\* ... and a switch of the mode.
LEMMA TakeModeLinks ==
    ASSUME EngineTyped, EngineLink, TakeMode
    PROVE  EngineLink'
<1> DEFINE op == Head(ops)
           restarts == RestartFor(a, op)
           waits == Busy(a) /\ (restarts \/ ~ModeAppliesLive)
           allowed == AllowOpen(op.mode)
           next == Encode(allowed.a, op)
<1>1. kind \in Engines /\ a \in StateOf(kind) /\ proc \in ProcessOf(kind)
  BY KindIs DEF EngineTyped
<1>2. op \in AnyOp /\ op.op = "set_approval_mode" /\ op.mode \in Mode /\ phase = "ops"
  BY HeadOp DEF TakeMode, NextOp
<1>3. /\ kind' = kind /\ lines' = lines
      /\ crossed' = (crossed \/ (kind = "codex" /\ op.op = "rewind" /\ a.rolling))
  BY DEF TakeMode, Took
<1>4. \/ /\ Publish(IF restarts THEN allowed ELSE Then(allowed, next), StillShown(op.mode))
         /\ pendingMode' = op.mode
      \/ /\ Publish(IF restarts THEN Nothing ELSE Encode(a, op), cards)
         /\ pendingMode' = pendingMode
  BY DEF TakeMode
<1>5. crossed' = crossed
  <2>1. crossed \in BOOLEAN BY DEF EngineTyped
  <2> HIDE DEF op
  <2> QED BY <1>2, <1>3, <2>1
<1>6. Bound(crossed, a, proc, lines, Due(pendingMode, cards)) BY <1>2 DEF EngineLink
<1>7. Nothing.a = a /\ Nothing.frames = <<>> /\ Nothing.events = <<>> BY DEF Nothing
<1>8. With(proc, <<>>) = proc BY <1>1, WithNone
<1>c. \A S : CardsAfter(S, <<>>) = S
  <2>1. DOMAIN <<>> = {} OBVIOUS
  <2> QED BY <2>1 DEF CardsAfter
<1>9. allowed \in Given(kind)
      /\ Bound(crossed, allowed.a, With(proc, allowed.frames), lines, Due(op.mode, cards))
      /\ (op.mode = "ask" => allowed = Nothing)
  <2> HIDE DEF op
  <2> QED BY <1>2, AllowOpenBound
<1>10. allowed.a \in StateOf(kind) /\ allowed.frames \in Seq(Carried(FrameOf(kind)))
  BY <1>9 DEF Given
<1>s. \A S : Due(op.mode, CardsAfter(StillShown(op.mode), S)) = Due(op.mode, CardsAfter(cards, S))
  BY <1>2 DEF Due, StillShown, Mode
<1>y. \A S : crossed <=> crossed \/ (kind = "codex" /\ op.op = "rewind" /\ S) BY <1>2
<1>n. op.op # "approve" BY <1>2
<1>11. CASE /\ Publish(IF restarts THEN allowed ELSE Then(allowed, next), StillShown(op.mode))
            /\ pendingMode' = op.mode
  <2> HIDE DEF op, allowed, restarts
  <2>1. CASE restarts
    <3>1. Publish(allowed, StillShown(op.mode)) BY <1>11, <2>1
    <3>2. Due(op.mode, CardsAfter(cards, allowed.events)) = Due(op.mode, cards)
      <4>1. CASE op.mode = "full" BY <4>1 DEF Due
      <4>2. CASE op.mode = "ask" BY <1>7, <1>9, <1>c, <4>2
      <4> QED BY <1>2, <4>1, <4>2 DEF Mode
    <3>3. Bound(crossed', allowed.a, With(proc, allowed.frames), lines',
                Due(pendingMode', CardsAfter(StillShown(op.mode), allowed.events)))
      BY <1>3, <1>5, <1>9, <1>11, <1>s, <3>2
    <3> QED BY <1>3, <3>1, <3>3, LinkPublishes
  <2>2. CASE ~restarts
    <3> DEFINE r == Then(allowed, next)
               d == With(proc, allowed.frames)
    <3>1. Publish(r, StillShown(op.mode)) BY <1>11, <2>2
    <3>2. r.a = next.a /\ r.frames = allowed.frames \o next.frames
          /\ r.events = allowed.events \o next.events
      BY DEF Then
    <3>3. d \in ProcessOf(kind) BY <1>1, <1>10, WithIs
    <3>4. next.frames \in Seq(Carried(FrameOf(kind))) BY <1>1, <1>2, <1>10, EncodeDoes
    <3>5. SaysOnce(next.events) /\ next \in Given(kind)
      BY <1>1, <1>2, <1>10, EncodeTells, EncodeGives DEF Gives
    <3>6. Bound(crossed, next.a, With(d, next.frames), lines, Due(op.mode, cards))
      <4> DEFINE S == Due(op.mode, cards)
                 c == allowed.a
      <4>1. Bound(crossed, c, d, lines, S) BY <1>9
      <4>2. S \subseteq S \cup (IF op.op = "approve" THEN op.calls ELSE {}) OBVIOUS
      <4>3. crossed <=> crossed \/ (kind = "codex" /\ op.op = "rewind" /\ c.rolling)
        BY <1>n, <1>y
      <4>4. c \in StateOf(kind) /\ next = Encode(c, op) BY <1>10
      <4> HIDE DEF S, d, c, next
      <4>5. Bound(crossed, Encode(c, op).a, With(d, Encode(c, op).frames), lines, S)
        BY <1>1, <1>2, <3>3, <4>1, <4>2, <4>3, <4>4, OpBound
      <4> QED BY <4>4, <4>5 DEF S
    <3>7. With(d, next.frames) = With(proc, r.frames)
      <4> HIDE DEF next, r
      <4> QED BY <1>1, <1>10, <3>2, <3>4, WithTwice
    <3>8. Due(op.mode, CardsAfter(cards, r.events)) = Due(op.mode, cards)
      <4>1. CASE op.mode = "full" BY <4>1 DEF Due
      <4>2. CASE op.mode = "ask"
        <5>1. next.events \in Seq(Carried(EventName)) BY <3>5 DEF Given
        <5>2. r.events = next.events
          <6> DEFINE ev == next.events
          <6>1. r.events = <<>> \o ev BY <1>7, <1>9, <3>2, <4>2
          <6> HIDE DEF ev
          <6>2. <<>> \o ev = ev BY <5>1 DEF ev
          <6> QED BY <6>1, <6>2 DEF ev
        <5>3. CardsAfter(cards, next.events) = cards
          <6> HIDE DEF next
          <6> QED BY <3>5, QuietCards
        <5> QED BY <5>2, <5>3
      <4> QED BY <1>2, <4>1, <4>2 DEF Mode
    <3> HIDE DEF r, d, next
    <3>9. Bound(crossed', r.a, With(proc, r.frames), lines',
                Due(pendingMode', CardsAfter(StillShown(op.mode), r.events)))
      BY <1>3, <1>5, <1>11, <1>s, <3>2, <3>6, <3>7, <3>8
    <3> QED BY <1>3, <3>1, <3>9, LinkPublishes
  <2> QED BY <2>1, <2>2
<1>12. CASE /\ Publish(IF restarts THEN Nothing ELSE Encode(a, op), cards)
            /\ pendingMode' = pendingMode
  <2> HIDE DEF op, restarts
  <2>1. CASE restarts
    <3>1. Publish(Nothing, cards) BY <1>12, <2>1
    <3>2. Bound(crossed', Nothing.a, With(proc, Nothing.frames), lines',
                Due(pendingMode', CardsAfter(cards, Nothing.events)))
      BY <1>3, <1>5, <1>6, <1>7, <1>8, <1>12, <1>c
    <3> QED BY <1>3, <3>1, <3>2, LinkPublishes
  <2>2. CASE ~restarts
    <3> DEFINE r == Encode(a, op)
               S == Due(pendingMode, cards)
    <3>1. Publish(r, cards) BY <1>12, <2>2
    <3>2. CardsAfter(cards, r.events) = cards
      <4>1. SaysOnce(r.events) BY <1>1, <1>2, EncodeTells
      <4> HIDE DEF r
      <4> QED BY <4>1, QuietCards
    <3>3. Bound(crossed, r.a, With(proc, r.frames), lines, S)
      <4>1. Bound(crossed, a, proc, lines, S) BY <1>6
      <4>2. S \subseteq S \cup (IF op.op = "approve" THEN op.calls ELSE {}) OBVIOUS
      <4>3. crossed <=> crossed \/ (kind = "codex" /\ op.op = "rewind" /\ a.rolling)
        BY <1>n, <1>y
      <4> HIDE DEF S
      <4> QED BY <1>1, <1>2, <4>1, <4>2, <4>3, OpBound
    <3> HIDE DEF r
    <3>4. Bound(crossed', r.a, With(proc, r.frames), lines',
                Due(pendingMode', CardsAfter(cards, r.events)))
      BY <1>3, <1>5, <1>12, <3>2, <3>3
    <3> QED BY <1>3, <3>1, <3>4, LinkPublishes
  <2> QED BY <2>1, <2>2
<1> QED BY <1>4, <1>11, <1>12

\* A line is read.
LEMMA TakeLineLinks ==
    ASSUME EngineTyped, EngineLink, TakeLine
    PROVE  EngineLink'
<1> DEFINE h == Head(lines)
           r == Translate(a, h)
           asked == CardsAfter({}, r.events)
           q == [r EXCEPT !.events = <<>>]
           s == AllowWhileOpening(r)
           S == Due(pendingMode, cards)
           left == Tail(lines)
<1>1. kind \in Engines /\ a \in StateOf(kind) /\ proc \in ProcessOf(kind)
      /\ lines \in Seq(Asking(LineOf(kind)))
  BY KindIs DEF EngineTyped
<1>2. /\ phase = "lines" /\ lines # <<>> /\ kind' = kind /\ Publish(s, cards)
      /\ lines' = left /\ UNCHANGED <<phase, pendingMode, crossed>>
  BY DEF TakeLine
<1>3. Tied(crossed, a, proc, lines) /\ Shows(a, proc, lines, S)
  BY <1>2 DEF EngineLink, Bound
<1>4. Tied(crossed, r.a, With(proc, r.frames), left)
  BY <1>1, <1>2, <1>3, LineTied
<1>5. Shows(r.a, With(proc, r.frames), left, CardsAfter(S, r.events))
  <2> HIDE DEF S
  <2> QED BY <1>1, <1>2, <1>3, LineShows
<1>6. h \in Asking(LineOf(kind)) BY <1>1, <1>2, TailOnce
<1>7. r \in Given(kind) /\ asked \in SUBSET (1..MaxAsks)
  <2> HIDE DEF h
  <2> QED BY <1>1, <1>6, TranslateGives, TellingCards DEF Gives
<1>8. s = IF pendingMode = "full" /\ asked # {} THEN Allowed(q, asked) ELSE r
  BY DEF AllowWhileOpening
<1> HIDE DEF h, r, left, s
<1>9. <<>> \in Seq(Carried(EventName)) OBVIOUS
<1>10. q \in Given(kind) /\ q.a = r.a /\ q.frames = r.frames BY <1>7, <1>9 DEF Given
<1> HIDE DEF q
<1>11. CASE pendingMode = "full" /\ asked # {}
  <2>1. CardsAfter(S, r.events) = asked BY <1>11 DEF Due
  <2> HIDE DEF asked, S
  <2>2. /\ Tied(crossed, Allowed(q, asked).a, With(proc, Allowed(q, asked).frames), left)
        /\ Shows(Allowed(q, asked).a, With(proc, Allowed(q, asked).frames), left, {})
    BY <1>1, <1>4, <1>5, <1>7, <1>10, <2>1, AllowedTied
  <2>3. s = Allowed(q, asked) BY <1>8, <1>11
  <2>4. Bound(crossed', s.a, With(proc, s.frames), lines',
              Due(pendingMode', CardsAfter(cards, s.events)))
    BY <1>2, <1>11, <2>2, <2>3 DEF Bound, Due
  <2> QED BY <1>2, <2>4, LinkPublishes
<1>12. CASE ~(pendingMode = "full" /\ asked # {})
  <2>1. s = r BY <1>8, <1>12
  <2>2. CardsAfter(S, r.events) = Due(pendingMode, CardsAfter(cards, r.events))
    BY <1>12 DEF Due
  <2> HIDE DEF asked, S
  <2>3. Bound(crossed', s.a, With(proc, s.frames), lines',
              Due(pendingMode', CardsAfter(cards, s.events)))
    BY <1>2, <1>4, <1>5, <2>1, <2>2 DEF Bound
  <2> QED BY <1>2, <2>3, LinkPublishes
<1> QED BY <1>11, <1>12

\* The process does a step.
LEMMA ProcessRunsLinks ==
    ASSUME EngineTyped, EngineLink, ProcessRuns
    PROVE  EngineLink'
<1> SUFFICES ASSUME phase' \in {"ops", "lines", "surface"}
             PROVE  Bound(crossed', a', proc', lines', Due(pendingMode', cards'))
  <2>1. kind' = kind BY DEF ProcessRuns
  <2> QED BY <2>1, BoundNext
<1>1. kind \in Engines /\ a \in StateOf(kind) /\ proc \in ProcessOf(kind)
      /\ lines \in Seq(Asking(LineOf(kind)))
  BY KindIs DEF EngineTyped
<1>2. PICK s \in ProcessSteps : proc' = s.e /\ lines' = lines \o s.lines BY DEF ProcessRuns
<1>3. UNCHANGED <<phase, a, pendingMode, cards, crossed>> BY DEF ProcessRuns
<1> DEFINE S == Due(pendingMode, cards)
<1>4. Tied(crossed, a, proc, lines) /\ Shows(a, proc, lines, S)
  BY <1>3 DEF EngineLink, Bound
<1> HIDE DEF S
<1>5. Tied(crossed, a, s.e, lines \o s.lines) BY <1>1, <1>4, StepTied
<1>6. Shows(a, s.e, lines \o s.lines, S) BY <1>1, <1>4, StepShows
<1> QED BY <1>2, <1>3, <1>5, <1>6 DEF Bound, S

\* The deadline of a steer passes.
LEMMA DeadlineLinks ==
    ASSUME EngineTyped, EngineLink, SteerDeadline
    PROVE  EngineLink'
<1> SUFFICES ASSUME phase' \in {"ops", "lines", "surface"}
             PROVE  Bound(crossed', a', proc', lines', Due(pendingMode', cards'))
  <2>1. kind' = kind BY DEF SteerDeadline
  <2> QED BY <2>1, BoundNext
<1>1. /\ kind = "claude" /\ a' = [a EXCEPT !.steering.late = TRUE]
      /\ UNCHANGED <<phase, proc, lines, pendingMode, cards, crossed>>
  BY DEF SteerDeadline
<1>2. Bound(crossed, a, proc, lines, Due(pendingMode, cards)) BY <1>1 DEF EngineLink
<1>3. /\ a'.active = a.active /\ a'.held = a.held /\ a'.queued = a.queued
      /\ a'.steering.frames = a.steering.frames /\ a'.approvals = a.approvals
  <2>1. a \in ClaudeState BY <1>1 DEF EngineTyped, StateOf
  <2> QED BY <1>1, <2>1 DEF ClaudeState
<1>4. ClaudeLink(a', proc, lines)
  <2>1. ClaudeLink(a, proc, lines) BY <1>1, <1>2 DEF Bound, Tied, Linked
  <2> DEFINE c == a'
  <2>2. /\ c.active = a.active /\ c.held = a.held /\ c.queued = a.queued
        /\ c.steering.frames = a.steering.frames
    BY <1>3
  <2> HIDE DEF c
  <2>3. ClaudeLink(c, proc, lines) BY <2>1, <2>2, ClaudeLinkDeadline
  <2> QED BY <2>3 DEF c
<1>5. AskLink(a', proc, lines, EndsTurn(kind))
  <2>1. AskLink(a, proc, lines, EndsTurn(kind)) BY <1>2 DEF Bound, Tied
  <2> QED BY <1>3, <2>1 DEF AskLink
<1>6. Tied(crossed, a', proc, lines) BY <1>1, <1>4, <1>5 DEF Tied, Linked
<1>7. Shows(a', proc, lines, Due(pendingMode, cards)) BY <1>1, <1>2 DEF Bound, Shows
<1> QED BY <1>1, <1>6, <1>7 DEF Bound

\* A process is started, and its adapter made.
LEMMA SpawnLinks ==
    ASSUME EngineTyped, kind' = kind, NEW mode \in Mode, NEW resume \in BOOLEAN,
           Spawn(mode, resume)
    PROVE  EngineLink'
<1> DEFINE new == Adapter(kind, mode, resume)
           e == [Process(kind) EXCEPT !.in = new.frames]
           x == crossed'
<1>1. kind \in Engines BY KindIs
<1>2. a' = new.a /\ proc' = e /\ lines' = <<>> BY DEF Spawn
<1>3. Tied(x, new.a, e, <<>>) /\ Unans(e, <<>>) = {}
  <2> HIDE DEF x
  <2> QED BY <1>1, FreshTied
<1> HIDE DEF new, e
<1>4. Bound(crossed', a', proc', lines', Due(pendingMode', cards'))
  BY <1>2, <1>3 DEF Bound, Shows
<1> QED BY <1>4, BoundNext

\* Every step keeps the invariant.
LEMMA LinkStep ==
    ASSUME EngineTyped, EngineLink, [EngineNext]_engineVars
    PROVE  EngineLink'
<1>k. kind' = kind BY SameKind
<1>1. CASE UNCHANGED engineVars
  BY <1>1, LinkStays DEF engineVars
<1>2. CASE SendMessage \/ SendOp \/ SendAnswer \/ TuiExits \/ ProcessDies
  <2>1. UNCHANGED <<phase, a, proc, lines, cards, crossed, pendingMode>>
    BY <1>2 DEF SendMessage, SendOp, SendAnswer, TuiExits, ProcessDies
  <2> QED BY <1>k, <2>1, LinkStays
<1>3. CASE ProcessRuns BY <1>3, ProcessRunsLinks
<1>4. CASE SteerDeadline BY <1>4, DeadlineLinks
<1>5. CASE TakeShutdown \/ TakeExit \/ RestartFails \/ CloseTui
  <2>1. End BY <1>5 DEF TakeShutdown, TakeExit, RestartFails, CloseTui
  <2>2. phase' = "ended" BY <2>1 DEF End
  <2> QED BY <2>2 DEF EngineLink
<1>6. CASE TakeTui \/ TakeGateway BY <1>6, TakeOtherLinks
<1>7. CASE TakeMode BY <1>7, TakeModeLinks
<1>8. CASE TakeEncoded BY <1>8, TakeEncodedLinks
<1>9. CASE NoMoreOps \/ RefuseTui
  <2>1. UNCHANGED <<a, proc, lines, cards, crossed, pendingMode>>
        /\ phase \in {"ops", "lines", "surface"}
    BY <1>9 DEF NoMoreOps, RefuseTui
  <2> QED BY <1>k, <2>1, LinkStays
<1>10. CASE TakeLine BY <1>10, TakeLineLinks
<1>11. CASE GoOn
  <2>1. UNCHANGED <<a, proc, lines, cards, crossed>> /\ phase = "lines"
        /\ (pendingMode' = pendingMode \/ pendingMode' = "none")
    BY <1>11 DEF GoOn, NoMoreLines
  <2> QED BY <1>k, <2>1, LinkStays
<1>12. CASE Restart
  <2>1. restart \in Mode /\ Spawn(restart, Conversation(a)) BY <1>12 DEF Restart, EngineTyped
  <2> QED BY <1>k, <2>1, ConversationIs, SpawnLinks
<1>13. CASE OpenTui
  <2>1. phase' = "tui" BY <1>13 DEF OpenTui
  <2> QED BY <2>1 DEF EngineLink
<1>14. CASE OpenTuiFails \/ TakeTuiExit
  <2>1. PICK saved \in BOOLEAN : Spawn(current, saved)
    BY <1>14 DEF OpenTuiFails, TakeTuiExit, Back
  <2>2. current \in Mode BY DEF EngineTyped
  <2> QED BY <1>k, <2>1, <2>2, SpawnLinks
<1>15. CASE TakeInTui
  <2>1. phase' = "tui" BY <1>15 DEF TakeInTui
  <2> QED BY <2>1 DEF EngineLink
<1> QED
  BY <1>1, <1>2, <1>3, <1>4, <1>5, <1>6, <1>7, <1>8, <1>9, <1>10, <1>11, <1>12, <1>13, <1>14,
     <1>15
  DEF EngineNext, Thread

\* No process runs yet.
LEMMA LinkStarts ==
    ASSUME EngineInit
    PROVE  EngineLink
<1>1. PICK k \in Kinds, resume \in BOOLEAN :
        /\ kind = k /\ a = Adapter(k, "ask", resume).a
        /\ proc = [Process(k) EXCEPT !.in = Adapter(k, "ask", resume).frames]
        /\ lines = <<>>
  BY DEF EngineInit
<1>2. k \in Engines /\ "ask" \in Mode BY <1>1, EngineAssumption DEF Engines, Mode
<1> DEFINE new == Adapter(k, "ask", resume)
           e == [Process(k) EXCEPT !.in = new.frames]
<1>3. Tied(crossed, new.a, e, <<>>) /\ Unans(e, <<>>) = {} BY <1>1, <1>2, FreshTied
<1> HIDE DEF new, e
<1>4. a = new.a /\ proc = e BY <1>1 DEF new, e
<1> QED BY <1>1, <1>3, <1>4 DEF EngineLink, Bound, Shows

-----------------------------------------------------------------------------
\* --- the theorems on turns and approvals ---

\* What the property counts is what the invariant does.
LEMMA UnansweredIs ==
    Unanswered = Unans(proc, lines)
<1>1. \A n : n \in Answered(proc.in) <=>
               \E i \in DOMAIN proc.in : proc.in[i].t = "answer" /\ proc.in[i].n = n
  BY AnsweredIs
<1> QED BY <1>1 DEF Unanswered, Unans, Names

\* With no frame or line under way, the adapter is busy while the turn runs; ...
LEMMA LinkAgrees ==
    ASSUME EngineTyped, EngineLink
    PROVE  BusyAgrees
<1> SUFFICES ASSUME Lives, ~crossed, lines = <<>>, proc.in = <<>>
             PROVE  Busy(a) <=> proc.turn
  BY DEF BusyAgrees
<1>1. Linked(crossed, a, proc, lines) BY DEF Lives, EngineLink, Bound, Tied
<1>2. \A A : ~Has(lines, A) /\ ~Has(proc.in, A) BY EmptyWord
<1>3. kind \in Engines BY KindIs
<1>4. CASE kind = "claude" BY <1>1, <1>2, <1>4 DEF Linked, ClaudeLink, Busy, Claude!Busy
<1>5. CASE kind = "codex"
  BY <1>1, <1>2, <1>5 DEF Linked, CodexLink, CodexUncrossed, Busy, Codex!Busy
<1>6. CASE kind = "acp" BY <1>1, <1>2, <1>6 DEF Linked, AcpLink, Busy, Acp!Busy
<1> QED BY <1>3, <1>4, <1>5, <1>6 DEF Engines

\* ... what the process waits for is on the cards; ...
LEMMA LinkShown ==
    ASSUME EngineTyped, EngineLink
    PROVE  AsksAreShown
<1> SUFFICES ASSUME Lives, ~crossed
             PROVE  Unans(proc, lines) \subseteq Due(pendingMode, cards)
  BY UnansweredIs DEF AsksAreShown, Due
<1> DEFINE S == Due(pendingMode, cards)
<1>1. /\ Linked(crossed, a, proc, lines) /\ AskLink(a, proc, lines, EndsTurn(kind))
      /\ Shows(a, proc, lines, S)
  BY DEF Lives, EngineLink, Bound, Tied
<1>2. ~proc.turn => Unans(proc, lines) = {} BY <1>1 DEF AskLink, Unans
<1>3. CASE kind = "codex" /\ (~a.busy \/ Has(proc.in, TS) \/ Has(lines, {"no-turn/start"}))
  <2>1. CodexUncrossed(a, proc, lines) BY <1>1, <1>3 DEF Linked
  <2>2. Has(lines, {"no-turn/start"}) => Has(lines, TL) BY SubWord DEF TL
  <2>3. ~proc.turn BY <1>3, <2>1, <2>2 DEF CodexUncrossed
  <2> QED BY <1>2, <2>3
<1> QED BY <1>1, <1>3 DEF Shows

\* A process that can take no step has read everything, and waits to be answered
\* if its turn runs.
LEMMA RestingProcess ==
    ASSUME EngineTyped, ProcessSteps = {}
    PROVE  /\ proc.in = <<>> /\ (proc.turn => proc.asks # {})
           /\ kind = "claude" => proc.own = <<>>
<1>1. CASE kind = "claude"
  <2>1. Claude!ProcessSteps(proc, MaxAsks) = {} BY <1>1 DEF ProcessSteps
  <2>2. proc.turn \in BOOLEAN BY <1>1 DEF EngineTyped, ProcessOf, ClaudeProcess
  <2> QED BY <2>1, <2>2 DEF Claude!ProcessSteps
<1>2. CASE kind = "codex"
  <2>1. Codex!ProcessSteps(proc, MaxAsks) = {} BY <1>2 DEF ProcessSteps
  <2>2. proc \in CodexProcess BY <1>2 DEF EngineTyped, ProcessOf
  <2>3. proc.turn => proc.asks # {} BY <2>1 DEF Codex!ProcessSteps
  <2>4. ASSUME proc.in # <<>> PROVE FALSE
    <3> DEFINE e == [proc EXCEPT !.in = Tail(@)]
               f == Head(proc.in)
    <3>1. Codex!Reads(e, f) = {} BY <2>1, <2>4 DEF Codex!ProcessSteps
    <3>2. f \in Carried(CodexFrame)
      <4>1. proc.in \in Seq(Carried(CodexFrame)) BY <2>2 DEF CodexProcess
      <4> QED BY <2>4, <4>1
    <3>3. f.t \in CodexFrame BY <3>2 DEF Carried
    <3> HIDE DEF e, f
    <3> QED BY <3>1, <3>3 DEF Codex!Reads, CodexFrame
  <2> QED BY <1>2, <2>3, <2>4
<1>3. CASE kind = "acp"
  <2>1. Acp!ProcessSteps(proc, MaxAsks) = {} BY <1>3 DEF ProcessSteps
  <2>2. proc \in AcpProcess BY <1>3 DEF EngineTyped, ProcessOf
  <2>3. proc.turn => proc.asks # {} BY <2>1 DEF Acp!ProcessSteps
  <2>4. ASSUME proc.in # <<>> PROVE FALSE
    <3> DEFINE e == [proc EXCEPT !.in = Tail(@)]
               f == Head(proc.in)
    <3>1. Acp!Reads(e, f) = {} BY <2>1, <2>4 DEF Acp!ProcessSteps
    <3>2. f \in Carried(AcpFrame)
      <4>1. proc.in \in Seq(Carried(AcpFrame)) BY <2>2 DEF AcpProcess
      <4> QED BY <2>4, <4>1
    <3>3. f.t \in AcpFrame BY <3>2 DEF Carried
    <3> HIDE DEF e, f
    <3> QED BY <3>1, <3>3 DEF Acp!Reads, AcpFrame
  <2> QED BY <1>3, <2>3, <2>4
<1>4. kind \in Engines BY KindIs
<1> QED BY <1>1, <1>2, <1>3, <1>4 DEF Engines

\* ... and when nothing can move, no message is live.
LEMMA LinkRests ==
    ASSUME EngineTyped, Filed, EngineLink
    PROVE  RestsWithNothingLeft
<1> SUFFICES ASSUME Quiescent, ~Unopened
             PROVE  \A m \in Msg : fate[m] # "live"
  BY DEF RestsWithNothingLeft
<1>1. phase = "ops" /\ ops = <<>> /\ lines = <<>> /\ cards = {} /\ ProcessSteps = {}
  BY DEF Quiescent
<1>2. kind \in Engines BY KindIs
<1>3. /\ proc.in = <<>> /\ (proc.turn => proc.asks # {})
      /\ kind = "claude" => proc.own = <<>>
  BY <1>1, RestingProcess
<1>4. /\ Linked(crossed, a, proc, lines) /\ AskLink(a, proc, lines, EndsTurn(kind))
      /\ Shows(a, proc, lines, {})
  <2>1. Due(pendingMode, cards) = {} BY <1>1 DEF Due
  <2> QED BY <1>1, <2>1 DEF EngineLink, Bound, Tied
<1>5. \A A : ~Has(lines, A) /\ ~Has(proc.in, A) BY <1>1, <1>3, EmptyWord
<1>6. Unans(proc, lines) = proc.asks
  <2>1. \A n : ~Names(lines, n) BY <1>1, EmptyNames
  <2>2. \A n : n \notin Answered(proc.in)
    <3>1. DOMAIN <<>> = {} OBVIOUS
    <3> QED BY <1>3, <3>1 DEF Answered
  <2> QED BY <2>1, <2>2 DEF Unans
<1>7. \/ ~proc.turn
      \/ kind = "codex" /\ ~a.busy
  BY <1>3, <1>4, <1>5, <1>6 DEF Shows
<1>8. Waiting(a) = <<>>
  <2>1. CASE kind = "claude"
    <3>1. ClaudeLink(a, proc, lines) BY <1>4, <2>1 DEF Linked
    <3>2. ~a.active BY <1>5, <1>7, <2>1, <3>1 DEF ClaudeLink
    <3>3. a.steering.frames = <<>> /\ a.held = <<>> BY <1>3, <1>5, <2>1, <3>1, <3>2 DEF ClaudeLink
    <3> QED BY <2>1, <3>3 DEF Waiting, Claude!Waiting
  <2>2. CASE kind = "codex"
    <3>1. CodexLink(a, proc, lines) BY <1>4, <2>2 DEF Linked
    <3>2. ~a.busy /\ ~a.rolling BY <1>5, <1>7, <3>1 DEF CodexLink
    <3>3. a.thread BY <1>1, <1>3, <2>2 DEF Unopened, Conversation
    <3>4. a.queued = <<>> /\ a.afterRollback = <<>> /\ a.steering = <<>> /\ a.waiting = <<>>
      BY <1>5, <3>1, <3>2, <3>3 DEF CodexLink
    <3> QED BY <2>2, <3>4 DEF Waiting, Codex!Waiting
  <2>3. CASE kind = "acp"
    <3>1. AcpLink(a, proc, lines) BY <1>4, <2>3 DEF Linked
    <3>2. ~a.prompt BY <1>5, <1>7, <2>3, <3>1 DEF AcpLink
    <3>3. a.session \/ a.failed BY <1>1, <1>3, <2>3 DEF Unopened, Conversation
    <3>4. a.queued = <<>> BY <3>1, <3>2, <3>3 DEF AcpLink
    <3> QED BY <2>3, <3>4 DEF Waiting, Acp!Waiting
  <2> QED BY <1>2, <2>1, <2>2, <2>3 DEF Engines
<1>9. Unread(ops) = {} BY <1>1, EmptyOps
<1>10. Kept = {}
  <2>1. In(<<>>) = {} BY EmptyOnce
  <2> QED BY <1>1, <1>8, <2>1 DEF Kept
<1> QED BY <1>9, <1>10 DEF Filed, Placed

\* What frames and lines under way say makes up for every difference between
\* an adapter and its process: turns begun and not heard of, turns over and not
\* heard of, asks not shown yet (encode, translate, handle_output).
THEOREM EngineTies == EngineSpec => []EngineLink
<1>1. EngineInit => EngineLink BY LinkStarts
<1>2. EngineTyped /\ EngineLink /\ [EngineNext]_engineVars => EngineLink' BY LinkStep
<1> QED BY <1>1, <1>2, EngineKeeps, PTL DEF EngineSpec

\* With every frame and line read, the adapter is busy just while the engine
\* runs a turn, so a session never shows a turn that is over, or hides one
\* (busy in each adapter; two rewinds of Codex that crossed excepted).
THEOREM BusyStaysTrue == EngineSpec => []BusyAgrees
<1>1. EngineTyped /\ EngineLink => BusyAgrees BY LinkAgrees
<1> QED BY <1>1, EngineKeeps, EngineTies, PTL

\* What an engine waits to be allowed, and the thread has read, is on a card the
\* user can answer, until it is answered (handle_output, the approvals of each adapter).
THEOREM AsksStayShown == EngineSpec => []AsksAreShown
<1>1. EngineTyped /\ EngineLink => AsksAreShown BY LinkShown
<1> QED BY <1>1, EngineKeeps, EngineTies, PTL

\* A thread that rests has no message waiting: each was handed over or given
\* up, or muddled by two Codex steers at once. A conversation that could not be
\* opened is excepted: what waits for it waits on (the queues of each adapter,
\* Session::run).
THEOREM RestsEmpty == EngineSpec => []RestsWithNothingLeft
<1>1. EngineTyped /\ Filed /\ EngineLink => RestsWithNothingLeft BY LinkRests
<1> QED BY <1>1, EngineKeeps, EngineTies, PTL

=============================================================================
