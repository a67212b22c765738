-------------------------- MODULE SessionHubProofs --------------------------
(***************************************************************************)
(* What is proved of SessionHub, for every number of sessions, clients,    *)
(* senders and engine generations.                                         *)
(***************************************************************************)
EXTENDS SessionHub, TLAPS

-----------------------------------------------------------------------------
(* Type correctness *)

\* A thread inside an op that names a session has that session.
ArgOK == \A t \in Thread : pc[t] \notin {"idle", "unwatch"} => arg[t] \in Session

\* The generations up to `gens` have started, and each serves a session.
OwnOK == \A g \in Gen : /\ at[g] # "none" => g <= gens
                        /\ g <= gens => own[g] \in Session

\* A terminal whose program runs is a session's.
TuiOK == TuiTyped /\ \A g \in term : own[g] \in Session

CallsOK   == CallTyped /\ ArgOK
EnginesOK == EngTyped /\ OwnOK

\* TypeOK alone is not inductive: `busy \cup {arg[d]}` and `busy \cup {own[g]}`
\* are sets of sessions only by ArgOK and OwnOK.
Typed == HubTyped /\ SetTyped /\ EnginesOK /\ CallsOK /\ SweepTyped /\ TuiOK

\* A part of the state that a step leaves alone stays typed.
LEMMA Kept ==
    ASSUME Typed
    PROVE  /\ UNCHANGED hubVars => HubTyped'
           /\ UNCHANGED setVars => SetTyped'
           /\ UNCHANGED engVars => EnginesOK'
           /\ UNCHANGED callVars => CallsOK'
           /\ UNCHANGED <<sweepVars, restart>> => SweepTyped'
           /\ UNCHANGED tuiVars /\ (UNCHANGED engVars \/ UNCHANGED own) => TuiOK'
  BY DEF TuiOK, TuiTyped, tuiVars, Typed, HubTyped, hubVars, SetTyped, setVars, EnginesOK, EngTyped,
         OwnOK, engVars, CallsOK, CallTyped, ArgOK, callVars, SweepTyped, sweepVars

\* Appending an op to one channel leaves every channel a sequence of ops.
LEMMA EnqueueTyped ==
    ASSUME inbox \in [Gen -> Seq(OpName)],
           NEW g, NEW op \in OpName, Enqueue(g, <<op>>)
    PROVE  inbox' \in [Gen -> Seq(OpName)]
  <1>1. \A h \in Gen : inbox[h] \o <<op>> \in Seq(OpName)
    OBVIOUS
  <1> QED BY <1>1 DEF Enqueue

\* Taking the next op does too.
LEMMA TookTyped ==
    ASSUME inbox \in [Gen -> Seq(OpName)],
           NEW g \in Gen, inbox[g] # <<>>, Took(g)
    PROVE  inbox' \in [Gen -> Seq(OpName)]
  <1>1. Tail(inbox[g]) \in Seq(OpName)
    OBVIOUS
  <1> QED BY <1>1 DEF Took

\* A step that changes nothing of the engines but their channels.
LEMMA InboxOnly ==
    ASSUME EnginesOK, inbox' \in [Gen -> Seq(OpName)],
           UNCHANGED <<gens, at, own, turn, bg, tuned, attended, mark>>
    PROVE  EnginesOK'
  BY DEF EnginesOK, EngTyped, OwnOK

\* What an op's start leaves of its thread.
LEMMA BeginTyped ==
    ASSUME CallsOK, NEW t \in Thread, NEW s \in Session \cup {NoSession},
           NEW label \in Label, NEW then \in {"reply", "watch", "forward"},
           s \in Session \/ label \in {"idle", "unwatch"},
           Begin(t, s, label, then)
    PROVE  /\ pc' \in [Thread -> Label]
           /\ arg' \in [Thread -> Session \cup {NoSession}]
           /\ after' \in [Thread -> {"reply", "watch", "forward"}]
           /\ calls' \in 0..MaxCalls
           /\ ArgOK'
  <1>1. pc' \in [Thread -> Label]
    BY DEF CallsOK, CallTyped, Begin
  <1>2. arg' \in [Thread -> Session \cup {NoSession}]
    BY DEF CallsOK, CallTyped, Begin
  <1>3. after' \in [Thread -> {"reply", "watch", "forward"}]
    BY DEF CallsOK, CallTyped, Begin
  <1>4. calls' \in 0..MaxCalls
    BY ConstantsAssumption DEF CallsOK, CallTyped, Begin
  <1>5. ArgOK'
    BY DEF CallsOK, CallTyped, ArgOK, Begin
  <1> QED BY <1>1, <1>2, <1>3, <1>4, <1>5

\* What the end of an op leaves of its thread.
LEMMA FinishTyped ==
    ASSUME CallsOK, NEW t \in Thread, Finish(t),
           UNCHANGED <<leaving, conn, calls>>
    PROVE  CallsOK'
  <1>1. pc' \in [Thread -> Label]
    BY DEF CallsOK, CallTyped, Finish, Label
  <1>2. arg' \in [Thread -> Session \cup {NoSession}]
    BY DEF CallsOK, CallTyped, Finish
  <1>3. new' \in [Thread -> 0..MaxGen]
    BY ConstantsAssumption DEF CallsOK, CallTyped, Finish
  <1>4. given' \in [Thread -> {"plain", "tuned"}]
    BY DEF CallsOK, CallTyped, Finish
  <1>5. after' \in [Thread -> {"reply", "watch", "forward"}]
    BY DEF CallsOK, CallTyped, Finish
  <1>6. ArgOK'
    BY DEF CallsOK, CallTyped, ArgOK, Finish
  <1> QED BY <1>1, <1>2, <1>3, <1>4, <1>5, <1>6 DEF CallsOK, CallTyped

\* Going on to the next critical section of the same op.
LEMMA GoToTyped ==
    ASSUME CallsOK, NEW t \in Thread, NEW label \in Label, GoTo(t, label),
           pc[t] \notin {"idle", "unwatch"} \/ label \in {"idle", "unwatch"}
    PROVE  /\ pc' \in [Thread -> Label]
           /\ UNCHANGED <<new, given, leaving, conn, calls>> => CallsOK'
           /\ ArgOK'
  <1>1. pc' \in [Thread -> Label]
    BY DEF CallsOK, CallTyped, GoTo
  <1>2. ArgOK'
    BY DEF CallsOK, CallTyped, ArgOK, GoTo
  <1> QED BY <1>1, <1>2 DEF CallsOK, CallTyped, GoTo

\* What follows a successful open.
LEMMA OpenedTyped ==
    ASSUME CallsOK, NEW t \in Thread, pc[t] \notin {"idle", "unwatch"},
           Opened(t), UNCHANGED <<leaving, conn, calls>>
    PROVE  CallsOK'
  <1>1. CASE after[t] = "reply"
    BY <1>1, FinishTyped DEF Opened
  <1>2. CASE after[t] = "watch"
    BY <1>2, GoToTyped DEF Opened, Label
  <1>3. CASE after[t] = "forward"
    BY <1>3, GoToTyped DEF Opened, Label
  <1> QED BY <1>1, <1>2, <1>3 DEF CallsOK, CallTyped

\* A watch or an unwatch under the sessions lock.
LEMMA SetWatchTyped ==
    ASSUME Typed, NEW c \in Client, NEW s \in Session, NEW watch \in BOOLEAN,
           SetWatch(c, s, watch),
           UNCHANGED <<hosted, held, gens, at, own, turn, bg, tuned, attended, mark>>
    PROVE  HubTyped' /\ EnginesOK'
  <1>1. HubTyped'
    BY DEF Typed, HubTyped, SetWatch
  <1>2. inbox' \in [Gen -> Seq(OpName)]
    <2>1. \/ UNCHANGED inbox
          \/ \E op \in OpName : Enqueue(hosted[s], <<op>>)
      BY DEF SetWatch, OpName
    <2> QED BY <2>1, EnqueueTyped DEF Typed, EnginesOK, EngTyped
  <1> QED BY <1>1, <1>2, InboxOnly DEF Typed

\* An op forwarded to the engine behind an entry.
LEMMA ForwardTyped ==
    ASSUME Typed, NEW s \in Session, NEW op \in OpName, Forward(s, op),
           UNCHANGED <<hosted, watchers, held>>,
           UNCHANGED <<gens, at, own, turn, bg, tuned, attended, mark>>
    PROVE  HubTyped' /\ EnginesOK'
  <1>1. HubTyped'
    BY DEF Typed, HubTyped, Forward
  <1>2. inbox' \in [Gen -> Seq(OpName)]
    BY EnqueueTyped DEF Forward, Typed, EnginesOK, EngTyped
  <1> QED BY <1>1, <1>2, InboxOnly DEF Typed

\* The shutdown sent to an engine that was taken out of the map.
LEMMA SendShutdownTyped ==
    ASSUME EnginesOK, NEW g, NEW s, SendShutdown(g, s),
           UNCHANGED <<gens, at, own, turn, bg, tuned, attended, mark>>
    PROVE  EnginesOK'
  <1>1. ShutOp(s) \in OpName
    BY DEF ShutOp, OpName
  <1>2. inbox' \in [Gen -> Seq(OpName)]
    BY <1>1, EnqueueTyped DEF SendShutdown, EnginesOK, EngTyped
  <1> QED BY <1>2, InboxOnly

\* A claim given back never takes the count below zero (`release_claim`).
LEMMA ReleaseTyped ==
    ASSUME SetTyped, NEW s, ReleaseClaim(s)
    PROVE  claims' \in [Session -> Nat]
  <1>1. \A r \in Session : (IF claims[r] > 0 THEN claims[r] - 1 ELSE 0) \in Nat
    BY DEF SetTyped
  <1> QED BY <1>1 DEF ReleaseClaim, SetTyped

\* Each op a client may start keeps the state typed.
LEMMA ClientOpTyped ==
    ASSUME Typed, NEW c \in Client, ClientOp(c)
    PROVE  Typed'
  <1> USE DEF Thread
  <1>1. ASSUME NEW s \in Session, OpenOp(c, s) PROVE Typed'
    <2>1. given' \in [Thread -> {"plain", "tuned"}]
      BY <1>1 DEF OpenOp, Typed, CallsOK, CallTyped
    <2>2. CallsOK'
      BY <1>1, <2>1, BeginTyped DEF OpenOp, Typed, CallsOK, CallTyped, Label
    <2> QED BY <1>1, <2>2, Kept DEF OpenOp, Typed
  <1>2. ASSUME NEW s \in Session, DecideOp(c, s) PROVE Typed'
    <2>1. CallsOK'
      BY <1>2, BeginTyped DEF DecideOp, Typed, CallsOK, CallTyped, Label
    <2> QED BY <1>2, <2>1, Kept DEF DecideOp, Typed
  <1>3. ASSUME NEW s \in Session, MessageOp(c, s) PROVE Typed'
    <2>1. CallsOK'
      BY <1>3, BeginTyped DEF MessageOp, Typed, CallsOK, CallTyped, Label
    <2> QED BY <1>3, <2>1, Kept DEF MessageOp, Typed
  <1>4. ASSUME NEW s \in Session, TuneOp(c, s) PROVE Typed'
    <2>1. CallsOK'
      BY <1>4, BeginTyped DEF TuneOp, Typed, CallsOK, CallTyped, Label
    <2>2. HubTyped' /\ EnginesOK'
      BY <1>4, ForwardTyped DEF TuneOp, OpName
    <2> QED BY <1>4, <2>1, <2>2, Kept DEF TuneOp, Typed
  <1>5. ASSUME NEW s \in Session, CloseOp(c, s) PROVE Typed'
    <2>1. HubTyped'
      BY <1>5, ConstantsAssumption DEF CloseOp, Blank, Typed, HubTyped
    <2>2. new' \in [Thread -> 0..MaxGen]
      BY <1>5 DEF CloseOp, Typed, HubTyped, CallsOK, CallTyped
    <2>3. CallsOK'
      BY <1>5, <2>2, BeginTyped DEF CloseOp, Typed, CallsOK, CallTyped, Label
    <2> QED BY <1>5, <2>1, <2>3, Kept DEF CloseOp, Typed
  <1>6. ASSUME NEW s \in Session, NEW watch \in BOOLEAN, WatchOp(c, s, watch)
        PROVE  Typed'
    <2>1. CallsOK'
      BY <1>6, BeginTyped DEF WatchOp, Typed, CallsOK, CallTyped, Label
    <2>2. HubTyped' /\ EnginesOK'
      BY <1>6, SetWatchTyped DEF WatchOp
    <2> QED BY <1>6, <2>1, <2>2, Kept DEF WatchOp, Typed
  <1>7. CASE Disconnect(c)
    <2>1. leaving' \in [Client -> SUBSET Session]
      BY <1>7 DEF Disconnect, Typed, CallsOK, CallTyped
    <2>2. CallsOK'
      <3> DEFINE label == IF {s \in Session : c \in watchers[s]} = {} THEN "idle" ELSE "unwatch"
      <3>1. label \in Label /\ label \in {"idle", "unwatch"}
        BY DEF Label
      <3>2. Begin(c, NoSession, label, "reply")
        BY <1>7 DEF Disconnect
      <3> HIDE DEF label
      <3> QED BY <1>7, <2>1, <3>1, <3>2, BeginTyped DEF Disconnect, Typed, CallsOK, CallTyped
    <2> QED BY <1>7, <2>2, Kept DEF Disconnect, Typed
  <1>8. CASE Reconnect(c)
    <2>1. CallsOK'
      BY <1>8 DEF Reconnect, Typed, CallsOK, CallTyped, ArgOK
    <2> QED BY <1>8, <2>1, Kept DEF Reconnect, Typed
  <1>9. ASSUME NEW s \in Session, NEW force \in BOOLEAN, TuiOp(c, s, force)
        PROVE  Typed'
    <2>1. CallsOK'
      BY <1>9, BeginTyped DEF TuiOp, Typed, CallsOK, CallTyped, Label
    <2>2. HubTyped' /\ EnginesOK'
      BY <1>9, ForwardTyped DEF TuiOp, OpName
    <2> QED BY <1>9, <2>1, <2>2, Kept DEF TuiOp, Typed
  <1> QED BY <1>1, <1>2, <1>3, <1>4, <1>5, <1>6, <1>7, <1>8, <1>9 DEF ClientOp

\* Each critical section of a client's op keeps the state typed.
LEMMA ClientStepTyped ==
    ASSUME Typed, NEW c \in Client, ClientStep(c)
    PROVE  Typed'
  <1> USE DEF Thread
  <1>1. CASE WakeAsleep(c)
    <2>1. CallsOK'
      BY <1>1, GoToTyped DEF WakeAsleep, Typed, Label
    <2> QED BY <1>1, <2>1, Kept DEF WakeAsleep, Typed
  <1>2. CASE Lookup(c)
    <2>1. CallsOK'
      BY <1>2, GoToTyped, OpenedTyped DEF Lookup, Typed, Label
    <2> QED BY <1>2, <2>1, Kept DEF Lookup, Typed
  <1>3. CASE TakeOptions(c)
    <2>1. arg[c] \in Session
      BY <1>3 DEF TakeOptions, Typed, CallsOK, ArgOK
    <2>2. given' \in [Thread -> {"plain", "tuned"}]
      BY <1>3, <2>1 DEF TakeOptions, Typed, SetTyped, CallsOK, CallTyped
    <2>3. CallsOK'
      BY <1>3, <2>2, GoToTyped DEF TakeOptions, GoTo, Typed, CallsOK, CallTyped, Label
    <2> QED BY <1>3, <2>3, Kept DEF TakeOptions, Typed
  <1>4. CASE Spawn(c)
    <2> DEFINE g == gens + 1
    <2>0. arg[c] \in Session
      BY <1>4 DEF Spawn, Typed, CallsOK, ArgOK
    <2>1. g \in Gen /\ g \in 0..MaxGen /\ arg[c] \in Session
      BY <1>4, <2>0, ConstantsAssumption DEF Spawn, Typed, EnginesOK, EngTyped, Gen
    <2> HIDE DEF g
    <2>2. at' \in [Gen -> Place] /\ own' \in [Gen -> Session \cup {NoSession}]
      BY <1>4, <2>1 DEF Spawn, g, Typed, EnginesOK, EngTyped, Place
    <2>3. tuned' \in [Gen -> BOOLEAN]
      BY <1>4, <2>1 DEF Spawn, g, Typed, EnginesOK, EngTyped
    <2>4. OwnOK'
      <3>1. gens' = g /\ \A h \in Gen : h # g => at'[h] = at[h] /\ own'[h] = own[h]
        BY <1>4, <2>1 DEF Spawn, g, Typed, EnginesOK, EngTyped
      <3>2. own'[g] = arg[c]
        BY <1>4, <2>1 DEF Spawn, g, Typed, EnginesOK, EngTyped
      <3>3. \A h \in Gen : h <= g => h = g \/ h <= gens
        BY DEF g, Gen, Typed, EnginesOK, EngTyped
      <3>4. gens <= g /\ \A h \in Gen : h <= gens => h <= g
        BY DEF g, Gen, Typed, EnginesOK, EngTyped
      <3>5. ASSUME NEW h \in Gen
            PROVE  (at'[h] # "none" => h <= g) /\ (h <= g => own'[h] \in Session)
        <4>1. CASE h = g
          BY <4>1, <2>1, <3>2, <3>4 DEF g, Typed, EnginesOK, EngTyped
        <4>2. CASE h # g
          BY <4>2, <3>1, <3>3, <3>4 DEF Typed, EnginesOK, OwnOK
        <4> QED BY <4>1, <4>2
      <3> QED BY <3>1, <3>5 DEF OwnOK
    <2>5. EnginesOK'
      BY <1>4, <2>1, <2>2, <2>3, <2>4 DEF Spawn, g, Typed, EnginesOK, EngTyped
    <2>6. new' \in [Thread -> 0..MaxGen]
      BY <1>4, <2>1 DEF Spawn, g, Typed, CallsOK, CallTyped
    <2>7. CallsOK'
      BY <1>4, <2>6, GoToTyped DEF Spawn, GoTo, Typed, CallsOK, CallTyped, Label
    <2>8. TuiOK'
      <3>1. \A h \in Gen : own[h] \in Session => own'[h] \in Session
        BY <1>4, <2>1 DEF Spawn, g, Typed, EnginesOK, EngTyped
      <3> QED BY <1>4, <3>1 DEF Spawn, Typed, TuiOK, TuiTyped, tuiVars
    <2> QED BY <1>4, <2>5, <2>7, <2>8, Kept DEF Spawn, Typed
  <1>5. CASE SpawnFails(c)
    <2>1. CallsOK'
      BY <1>5, FinishTyped DEF SpawnFails, Typed
    <2> QED BY <1>5, <2>1, Kept DEF SpawnFails, Typed
  <1>6. CASE Host(c)
    <2>1. new[c] \in 0..MaxGen /\ arg[c] \in Session
      BY <1>6 DEF Host, Typed, CallsOK, CallTyped, ArgOK
    <2>2. HubTyped'
      BY <1>6, <2>1, ConstantsAssumption DEF Host, Blank, Typed, HubTyped
    <2>3. CallsOK'
      BY <1>6, GoToTyped DEF Host, Typed, Label
    <2> QED BY <1>6, <2>2, <2>3, Kept DEF Host, Typed
  <1>7. CASE Forget(c)
    <2>1. SetTyped'
      BY <1>7 DEF Forget, Typed, SetTyped
    <2>2. CallsOK'
      BY <1>7, OpenedTyped DEF Forget, Typed
    <2> QED BY <1>7, <2>1, <2>2, Kept DEF Forget, Typed
  <1>8. CASE WakeWatch(c)
    <2>1. arg[c] \in Session
      BY <1>8 DEF WakeWatch, Typed, CallsOK, ArgOK
    <2>2. HubTyped' /\ EnginesOK'
      BY <1>8, <2>1, SetWatchTyped DEF WakeWatch
    <2>3. CallsOK'
      BY <1>8, GoToTyped DEF WakeWatch, Typed, Label
    <2> QED BY <1>8, <2>2, <2>3, Kept DEF WakeWatch, Typed
  <1>9. CASE ForwardMessage(c)
    <2>1. arg[c] \in Session
      BY <1>9 DEF ForwardMessage, Typed, CallsOK, ArgOK
    <2>2. HubTyped' /\ EnginesOK'
      BY <1>9, <2>1, ForwardTyped DEF ForwardMessage, OpName
    <2>3. CallsOK'
      BY <1>9, FinishTyped DEF ForwardMessage, Typed
    <2> QED BY <1>9, <2>2, <2>3, Kept DEF ForwardMessage, Typed
  <1>10. CASE Shut(c)
    <2>1. EnginesOK'
      BY <1>10, SendShutdownTyped DEF Shut, Typed
    <2>2. CallsOK'
      BY <1>10, FinishTyped DEF Shut, Typed
    <2> QED BY <1>10, <2>1, <2>2, Kept DEF Shut, Typed
  <1>11. CASE Unwatch(c)
    <2>1. PICK s \in leaving[c] :
              /\ SetWatch(c, s, FALSE)
              /\ leaving' = [leaving EXCEPT ![c] = @ \ {s}]
              /\ IF leaving[c] = {s} THEN GoTo(c, "idle") ELSE GoTo(c, "unwatch")
      BY <1>11 DEF Unwatch
    <2>2. s \in Session
      BY DEF Typed, CallsOK, CallTyped
    <2>3. HubTyped' /\ EnginesOK'
      BY <1>11, <2>1, <2>2, SetWatchTyped DEF Unwatch
    <2>4. leaving' \in [Client -> SUBSET Session]
      BY <2>1 DEF Typed, CallsOK, CallTyped
    <2>5. pc' \in [Thread -> Label] /\ ArgOK' /\ UNCHANGED <<arg, after>>
      BY <2>1, GoToTyped DEF GoTo, Typed, Label
    <2>6. CallsOK'
      BY <1>11, <2>4, <2>5 DEF Unwatch, Typed, CallsOK, CallTyped
    <2> QED BY <1>11, <2>3, <2>6, Kept DEF Unwatch, Typed
  <1>12. CASE OpenFails(c)
    <2>1. CallsOK'
      BY <1>12, FinishTyped DEF OpenFails, Typed
    <2> QED BY <1>12, <2>1, Kept DEF OpenFails, Typed
  <1> QED BY <1>1, <1>2, <1>3, <1>4, <1>5, <1>6, <1>7, <1>8, <1>9, <1>10, <1>11,
             <1>12 DEF ClientStep

\* A delivery (`send_to_session`) keeps the state typed.
LEMMA SenderTyped ==
    ASSUME Typed, NEW d \in Sender,
           SenderStep(d) \/ \E s \in Session : SendOp(d, s)
    PROVE  Typed'
  <1> USE DEF Thread
  <1>1. CASE MarkBusy(d)
    <2>1. SetTyped'
      BY <1>1 DEF MarkBusy, Typed, SetTyped, CallsOK, ArgOK
    <2>2. CallsOK'
      BY <1>1, GoToTyped DEF MarkBusy, Typed, Label
    <2> QED BY <1>1, <2>1, <2>2, Kept DEF MarkBusy, Typed
  <1>2. CASE Deliver(d)
    <2>1. arg[d] \in Session
      BY <1>2 DEF Deliver, Typed, CallsOK, ArgOK
    <2>2. HubTyped' /\ EnginesOK'
      BY <1>2, <2>1, ForwardTyped DEF Deliver, OpName
    <2>3. CallsOK'
      BY <1>2, FinishTyped, GoToTyped DEF Deliver, Typed, Label
    <2> QED BY <1>2, <2>2, <2>3, Kept DEF Deliver, Typed
  <1>3. CASE Unclaim(d)
    <2>1. claims' \in [Session -> Nat]
      BY <1>3, ReleaseTyped DEF Unclaim, Typed
    <2>2. SetTyped'
      BY <1>3, <2>1 DEF Unclaim, Typed, SetTyped
    <2>3. CallsOK'
      BY <1>3, FinishTyped DEF Unclaim, Typed
    <2> QED BY <1>3, <2>2, <2>3, Kept DEF Unclaim, Typed
  <1>4. ASSUME NEW s \in Session, SendOp(d, s) PROVE Typed'
    <2>1. SetTyped'
      BY <1>4 DEF SendOp, Typed, SetTyped
    <2>2. CallsOK'
      BY <1>4, BeginTyped DEF SendOp, Typed, CallsOK, CallTyped, Label
    <2> QED BY <1>4, <2>1, <2>2, Kept DEF SendOp, Typed
  <1> QED BY <1>1, <1>2, <1>3, <1>4 DEF SenderStep

\* A session that becomes active.
LEMMA ActiveTyped ==
    ASSUME age \in [Session -> 0..2], NEW s \in Session, age' = [age EXCEPT ![s] = 0]
    PROVE  age' \in [Session -> 0..2]
  OBVIOUS

\* An entry taken out.
LEMMA BlankTyped ==
    ASSUME HubTyped, NEW s \in Session, Blank(s), hosted' = [hosted EXCEPT ![s] = 0]
    PROVE  HubTyped'
  <1>1. hosted' \in [Session -> 0..MaxGen]
    BY ConstantsAssumption DEF HubTyped
  <1>2. watchers' \in [Session -> SUBSET Client]
    BY DEF HubTyped, Blank
  <1>3. held' \in [Session -> BOOLEAN]
    BY DEF HubTyped, Blank
  <1> QED BY <1>1, <1>2, <1>3, ActiveTyped DEF HubTyped, Blank

\* A thread that goes from one critical section to the next.
LEMMA StepTyped ==
    ASSUME EnginesOK, NEW g \in Gen, NEW from \in Place \ {"none"}, NEW to \in Place,
           Step(g, from, to)
    PROVE  at' \in [Gen -> Place] /\ own[g] \in Session /\ g <= gens
  BY DEF EnginesOK, EngTyped, OwnOK, Step

\* `run` returning.
LEMMA ReturnTyped ==
    ASSUME EnginesOK, NEW g \in Gen, at[g] # "none", Return(g),
           UNCHANGED <<gens, own, tuned, attended>>
    PROVE  EnginesOK'
  <1>1. \A h \in Gen : inbox'[h] \in Seq(OpName)
    BY DEF EnginesOK, EngTyped, Return
  <1>2. inbox' \in [Gen -> Seq(OpName)]
    BY <1>1 DEF EnginesOK, EngTyped, Return
  <1>3. at' \in [Gen -> Place]
    BY DEF EnginesOK, EngTyped, Return, Place
  <1> QED BY <1>2, <1>3 DEF EnginesOK, EngTyped, OwnOK, Return

\* Each of those around a session's TUI does.
LEMMA TuiStepTyped ==
    ASSUME Typed, NEW g \in Gen, TuiStep(g)
    PROVE  Typed'
  <1>1. CASE RefuseTui(g)
    <2>1. inbox' \in [Gen -> Seq(OpName)]
      BY <1>1, TookTyped DEF RefuseTui, Reads, Typed, EnginesOK, EngTyped
    <2>2. EnginesOK'
      BY <1>1, <2>1, InboxOnly DEF RefuseTui, Typed
    <2> QED BY <1>1, <2>2, Kept DEF RefuseTui, Typed
  <1>2. CASE ReadTui(g)
    <2>1. inbox' \in [Gen -> Seq(OpName)]
      BY <1>2, TookTyped DEF ReadTui, Reads, Typed, EnginesOK, EngTyped
    <2>2. at' \in [Gen -> Place] /\ g <= gens
      BY <1>2, StepTyped DEF ReadTui, Place, Typed
    <2>3. turn' \in [Gen -> BOOLEAN] /\ bg' \in [Gen -> BOOLEAN]
      BY <1>2 DEF ReadTui, Typed, EnginesOK, EngTyped
    <2>4. OwnOK'
      BY <1>2, <2>2 DEF ReadTui, Step, Typed, EnginesOK, OwnOK
    <2>5. EnginesOK'
      BY <1>2, <2>1, <2>2, <2>3, <2>4 DEF ReadTui, Typed, EnginesOK, EngTyped
    <2>6. TuiOK'
      <3>1. own[g] \in Session
        BY <1>2, StepTyped DEF ReadTui, Place, Typed
      <3>2. term' \in {term, term \cup {g}} /\ blind' = blind \cup {g}
        BY <1>2 DEF ReadTui
      <3> QED BY <1>2, <3>1, <3>2 DEF ReadTui, Typed, TuiOK, TuiTyped
    <2> QED BY <1>2, <2>5, <2>6, Kept DEF ReadTui, Typed
  <1>3. CASE HoldForTui(g)
    <2>1. EnginesOK'
      BY <1>3, StepTyped DEF HoldForTui, Step, Place, Typed, EnginesOK, EngTyped, OwnOK
    <2>2. own[g] \in Session
      BY <1>3, StepTyped DEF HoldForTui, Place, Typed
    <2>3. HubTyped'
      BY <1>3, <2>2, ActiveTyped DEF HoldForTui, Typed, HubTyped
    <2> QED BY <1>3, <2>1, <2>3, Kept DEF HoldForTui, Typed
  <1>4. CASE IgnoreOp(g)
    <2>1. inbox' \in [Gen -> Seq(OpName)]
      BY <1>4, TookTyped DEF IgnoreOp, Typed, EnginesOK, EngTyped
    <2>2. EnginesOK'
      BY <1>4, <2>1, InboxOnly DEF IgnoreOp, Typed
    <2>3. TuiOK'
      BY <1>4 DEF IgnoreOp, Typed, TuiOK, TuiTyped
    <2> QED BY <1>4, <2>2, <2>3, Kept DEF IgnoreOp, Typed
  <1>5. CASE TuiEnds(g)
    <2>1. inbox' \in [Gen -> Seq(OpName)]
      BY <1>5, TookTyped DEF TuiEnds, Typed, EnginesOK, EngTyped
    <2>2. at' \in [Gen -> Place] /\ g <= gens
      BY <1>5, StepTyped DEF TuiEnds, Place, Typed
    <2>3. OwnOK'
      BY <1>5, <2>2 DEF TuiEnds, Step, Typed, EnginesOK, OwnOK
    <2>4. EnginesOK'
      BY <1>5, <2>1, <2>2, <2>3 DEF TuiEnds, Typed, EnginesOK, EngTyped
    <2> QED BY <1>5, <2>4, Kept DEF TuiEnds, Typed
  <1>6. CASE TuiStops(g)
    <2>1. EnginesOK'
      BY <1>6, ReturnTyped DEF TuiStops, Typed
    <2> QED BY <1>6, <2>1, Kept DEF TuiStops, Typed
  <1>7. CASE Reopen(g)
    <2>1. at' \in [Gen -> Place] /\ g <= gens
      BY <1>7, StepTyped DEF Reopen, Place, Typed
    <2>2. OwnOK'
      BY <1>7, <2>1 DEF Reopen, Step, Typed, EnginesOK, OwnOK
    <2>3. EnginesOK'
      BY <1>7, <2>1, <2>2 DEF Reopen, Typed, EnginesOK, EngTyped
    <2> QED BY <1>7, <2>3, Kept DEF Reopen, Typed
  <1>8. CASE ReopenFails(g)
    <2>1. EnginesOK'
      BY <1>8, ReturnTyped DEF ReopenFails, Typed
    <2> QED BY <1>8, <2>1, Kept DEF ReopenFails, Typed
  <1> QED BY <1>1, <1>2, <1>3, <1>4, <1>5, <1>6, <1>7, <1>8 DEF TuiStep

\* A TUI's program that exits does.
LEMMA TuiExitsTyped ==
    ASSUME Typed, NEW g \in Gen, TuiExits(g)
    PROVE  Typed'
  <1>0. own[g] \in Session
    BY DEF TuiExits, Typed, TuiOK
  <1>1. HubTyped' /\ EnginesOK'
    BY <1>0, ForwardTyped DEF TuiExits, OpName
  <1>2. TuiOK'
    BY DEF TuiExits, Typed, TuiOK, TuiTyped
  <1> QED BY <1>1, <1>2, Kept DEF TuiExits, Typed

\* Each critical section of an engine thread keeps the state typed.
LEMMA EngineTyped ==
    ASSUME Typed, NEW g \in Gen, EngineStep(g)
    PROVE  Typed'
  <1>1. CASE ReadMessage(g)
    <2>1. PICK op \in {"message", "claimed"} :
              /\ Reads(g, op)
              /\ Took(g)
              /\ \E runs \in {turn[g], TRUE} : turn' = [turn EXCEPT ![g] = runs]
              /\ IF op = "claimed" THEN ReleaseClaim(own[g]) ELSE UNCHANGED claims
      BY <1>1 DEF ReadMessage
    <2>2. inbox' \in [Gen -> Seq(OpName)]
      BY <2>1, TookTyped DEF Reads, Typed, EnginesOK, EngTyped
    <2>3. turn' \in [Gen -> BOOLEAN]
      BY <2>1 DEF Typed, EnginesOK, EngTyped
    <2>4. EnginesOK'
      BY <1>1, <2>2, <2>3 DEF ReadMessage, Typed, EnginesOK, EngTyped, OwnOK
    <2>5. claims' \in [Session -> Nat]
      BY <2>1, ReleaseTyped DEF Typed, SetTyped
    <2>6. SetTyped'
      BY <1>1, <2>5 DEF ReadMessage, Typed, SetTyped
    <2> QED BY <1>1, <2>4, <2>6, Kept DEF ReadMessage, Typed
  <1>2. CASE ReadTune(g)
    <2>1. inbox' \in [Gen -> Seq(OpName)]
      BY <1>2, TookTyped DEF ReadTune, Reads, Typed, EnginesOK, EngTyped
    <2>2. EnginesOK'
      BY <1>2, <2>1 DEF ReadTune, Typed, EnginesOK, EngTyped, OwnOK
    <2> QED BY <1>2, <2>2, Kept DEF ReadTune, Typed
  <1>3. CASE ReadAttended(g)
    <2>1. inbox' \in [Gen -> Seq(OpName)]
      BY <1>3, TookTyped DEF ReadAttended, Reads, Typed, EnginesOK, EngTyped
    <2>2. attended' \in [Gen -> BOOLEAN]
      BY <1>3 DEF ReadAttended, Typed, EnginesOK, EngTyped
    <2>3. EnginesOK'
      BY <1>3, <2>1, <2>2 DEF ReadAttended, Typed, EnginesOK, EngTyped, OwnOK
    <2>4. TuiOK'
      BY <1>3 DEF ReadAttended, Typed, TuiOK, TuiTyped
    <2> QED BY <1>3, <2>3, <2>4, Kept DEF ReadAttended, Typed
  <1>4. CASE ReadShutdown(g)
    <2>1. EnginesOK'
      BY <1>4, ReturnTyped DEF ReadShutdown, Reads, Typed
    <2> QED BY <1>4, <2>1, Kept DEF ReadShutdown, Typed
  <1>5. CASE ReadKeep(g)
    <2>1. inbox' \in [Gen -> Seq(OpName)]
      BY <1>5, TookTyped DEF ReadKeep, Reads, Typed, EnginesOK, EngTyped
    <2>2. EnginesOK'
      BY <1>5, <2>1 DEF ReadKeep, Step, Place, Typed, EnginesOK, EngTyped, OwnOK
    <2> QED BY <1>5, <2>2, Kept DEF ReadKeep, Typed
  <1>6. CASE KeepOptions(g)
    <2>1. EnginesOK'
      BY <1>6, ReturnTyped DEF KeepOptions, Typed
    <2>2. SetTyped'
      BY <1>6 DEF KeepOptions, Typed, SetTyped
    <2> QED BY <1>6, <2>1, <2>2, Kept DEF KeepOptions, Typed
  <1>7. CASE ReadQuit(g)
    <2>1. EnginesOK'
      BY <1>7, ReturnTyped DEF ReadQuit, Reads, Typed
    <2> QED BY <1>7, <2>1, Kept DEF ReadQuit, Typed
  <1>8. CASE Drained(g)
    <2>1. EnginesOK'
      BY <1>8, StepTyped DEF Drained, Step, Place, Typed, EnginesOK, EngTyped, OwnOK
    <2> QED BY <1>8, <2>1, Kept DEF Drained, Typed
  <1>9. CASE Disconnected(g)
    <2>1. EnginesOK'
      BY <1>9, ReturnTyped DEF Disconnected, Typed
    <2> QED BY <1>9, <2>1, Kept DEF Disconnected, Typed
  <1>10. CASE Stops(g)
    <2>1. EnginesOK'
      BY <1>10, ReturnTyped DEF Stops, Typed
    <2> QED BY <1>10, <2>1, Kept DEF Stops, Typed
  <1>11. CASE Tick(g)
    <2>1. PICK runs \in BOOLEAN, works \in BOOLEAN :
              /\ turn' = [turn EXCEPT ![g] = runs]
              /\ bg' = [bg EXCEPT ![g] = works]
              /\ mark' = [mark EXCEPT ![g] = runs \/ claims[own[g]] > 0]
      BY <1>11 DEF Tick
    <2>2. turn' \in [Gen -> BOOLEAN] /\ bg' \in [Gen -> BOOLEAN]
      BY <2>1 DEF Typed, EnginesOK, EngTyped
    <2>3. (runs \/ claims[own[g]] > 0) \in BOOLEAN
      OBVIOUS
    <2>4. mark' \in [Gen -> BOOLEAN]
      BY <2>1, <2>3 DEF Typed, EnginesOK, EngTyped
    <2>5. at' \in [Gen -> Place]
      BY <1>11, StepTyped DEF Tick, Place, Typed
    <2>6. EnginesOK'
      BY <1>11, <2>2, <2>4, <2>5, StepTyped
      DEF Tick, Step, Place, Typed, EnginesOK, EngTyped, OwnOK
    <2> QED BY <1>11, <2>6, Kept DEF Tick, Typed
  <1>12. CASE SetBusy(g)
    <2>1. PICK to \in {"touch", "held"} : Step(g, "mark", to)
      BY <1>12 DEF SetBusy
    <2>2. at' \in [Gen -> Place] /\ own[g] \in Session
      BY <2>1, StepTyped DEF Place, Typed
    <2>3. EnginesOK'
      BY <1>12, <2>1, <2>2 DEF SetBusy, Step, Typed, EnginesOK, EngTyped, OwnOK
    <2>4. SetTyped'
      BY <1>12, <2>2 DEF SetBusy, Typed, SetTyped
    <2> QED BY <1>12, <2>3, <2>4, Kept DEF SetBusy, Typed
  <1>13. CASE Touch(g)
    <2>1. EnginesOK'
      BY <1>13, StepTyped DEF Touch, Step, Place, Typed, EnginesOK, EngTyped, OwnOK
    <2>2. age' \in [Session -> 0..2]
      BY <1>13, ActiveTyped, StepTyped DEF Touch, Place, Typed, HubTyped
    <2>3. HubTyped'
      BY <1>13, <2>2 DEF Touch, Typed, HubTyped
    <2> QED BY <1>13, <2>1, <2>3, Kept DEF Touch, Typed
  <1>14. CASE SetHeld(g)
    <2>1. EnginesOK'
      BY <1>14, StepTyped DEF SetHeld, Step, Place, Typed, EnginesOK, EngTyped, OwnOK
    <2>2. age' \in [Session -> 0..2] /\ held' \in [Session -> BOOLEAN]
      <3>1. bg[g] \in BOOLEAN /\ own[g] \in Session
        BY <1>14, StepTyped DEF SetHeld, Place, Typed, EnginesOK, EngTyped
      <3>2. \/ UNCHANGED <<held, age>>
            \/ /\ held' = [held EXCEPT ![own[g]] = bg[g]]
               /\ age' = [age EXCEPT ![own[g]] = 0]
        BY <1>14 DEF SetHeld
      <3>3. held' \in [Session -> BOOLEAN]
        BY <3>1, <3>2 DEF Typed, HubTyped
      <3> QED BY <3>1, <3>2, <3>3, ActiveTyped DEF Typed, HubTyped
    <2>3. HubTyped'
      BY <1>14, <2>2 DEF SetHeld, Typed, HubTyped
    <2> QED BY <1>14, <2>1, <2>3, Kept DEF SetHeld, Typed
  <1>15. CASE EndEntry(g)
    <2>1. PICK to \in {"endBusy", "gone"} : Step(g, "end", to)
      BY <1>15 DEF EndEntry
    <2>2. at' \in [Gen -> Place] /\ own[g] \in Session
      BY <2>1, StepTyped DEF Place, Typed
    <2>3. EnginesOK'
      BY <1>15, <2>1, <2>2 DEF EndEntry, Step, Typed, EnginesOK, EngTyped, OwnOK
    <2>4. HubTyped'
      <3>1. CASE EntryIsOwn(g)
        BY <1>15, <2>2, <3>1, BlankTyped DEF EndEntry, Typed
      <3>2. CASE ~EntryIsOwn(g)
        BY <1>15, <3>2 DEF EndEntry, Typed, HubTyped
      <3> QED BY <3>1, <3>2
    <2>5. SetTyped'
      BY <1>15 DEF EndEntry, Typed, SetTyped
    <2> QED BY <1>15, <2>3, <2>4, <2>5, Kept DEF EndEntry, Typed
  <1>16. CASE EndBusy(g)
    <2>1. EnginesOK'
      BY <1>16, StepTyped DEF EndBusy, Step, Place, Typed, EnginesOK, EngTyped, OwnOK
    <2>2. SetTyped'
      BY <1>16 DEF EndBusy, Typed, SetTyped
    <2> QED BY <1>16, <2>1, <2>2, Kept DEF EndBusy, Typed
  <1>17. CASE EndClaims(g)
    <2>1. EnginesOK'
      BY <1>17, StepTyped DEF EndClaims, Step, Place, Typed, EnginesOK, EngTyped, OwnOK
    <2>2. SetTyped'
      BY <1>17 DEF EndClaims, Typed, SetTyped
    <2> QED BY <1>17, <2>1, <2>2, Kept DEF EndClaims, Typed
  <1>18. CASE EndTell(g)
    <2>1. EnginesOK'
      BY <1>18, StepTyped DEF EndTell, Step, Place, Typed, EnginesOK, EngTyped, OwnOK
    <2>2. SetTyped'
      BY <1>18 DEF EndTell, Typed, SetTyped
    <2> QED BY <1>18, <2>1, <2>2, Kept DEF EndTell, Typed
  <1>19. CASE ReadExit(g)
    <2>1. inbox' \in [Gen -> Seq(OpName)]
      BY <1>19, TookTyped DEF ReadExit, Reads, Typed, EnginesOK, EngTyped
    <2>2. EnginesOK'
      BY <1>19, <2>1, InboxOnly DEF ReadExit, Typed
    <2> QED BY <1>19, <2>2, Kept DEF ReadExit, Typed
  <1> QED BY <1>1, <1>2, <1>3, <1>4, <1>5, <1>6, <1>7, <1>8, <1>9, <1>10,
             <1>11, <1>12, <1>13, <1>14, <1>15, <1>16, <1>17, <1>18, <1>19,
             TuiStepTyped DEF EngineStep

\* The minute sweep keeps the state typed.
LEMMA SweepTypedStep ==
    ASSUME Typed, SweepStep
    PROVE  Typed'
  <1>1. CASE SweepBusy
    <2>1. SweepTyped'
      BY <1>1 DEF SweepBusy, Typed, SetTyped, SweepTyped
    <2> QED BY <1>1, <2>1, Kept DEF SweepBusy, Typed
  <1>2. CASE SweepClaims
    <2>1. SweepTyped'
      BY <1>2 DEF SweepClaims, Typed, SweepTyped
    <2> QED BY <1>2, <2>1, Kept DEF SweepClaims, Typed
  <1>3. CASE SweepPick
    <2>1. PICK taken \in IdleChoices :
              /\ hosted' = [s \in Session |-> IF s \in taken THEN 0 ELSE hosted[s]]
              /\ watchers' = [s \in Session |-> IF s \in taken THEN {} ELSE watchers[s]]
              /\ age' = [s \in Session |-> IF s \in taken THEN 0 ELSE age[s]]
              /\ asleep' = [s \in Session |-> IF s \in taken THEN "plain" ELSE asleep[s]]
              /\ victim' = [s \in Session |-> IF s \in taken THEN hosted[s] ELSE 0]
              /\ sweepAt' = IF taken = {} THEN "idle" ELSE "reason"
      BY <1>3 DEF SweepPick
    <2>2. HubTyped'
      <3>1. hosted' \in [Session -> 0..MaxGen]
        BY <2>1, ConstantsAssumption DEF Typed, HubTyped
      <3>2. watchers' \in [Session -> SUBSET Client]
        BY <2>1 DEF Typed, HubTyped
      <3>3. age' \in [Session -> 0..2]
        BY <2>1 DEF Typed, HubTyped
      <3> QED BY <1>3, <3>1, <3>2, <3>3 DEF SweepPick, Typed, HubTyped
    <2>3. asleep' \in [Session -> {"awake", "plain", "tuned"}]
      BY <2>1 DEF Typed, SetTyped
    <2>4. SetTyped'
      BY <1>3, <2>3 DEF SweepPick, Typed, SetTyped
    <2>5. victim' \in [Session -> 0..MaxGen]
      BY <2>1, ConstantsAssumption DEF Typed, HubTyped
    <2>6. SweepTyped'
      BY <1>3, <2>1, <2>5 DEF SweepPick, Typed, SweepTyped
    <2> QED BY <1>3, <2>2, <2>4, <2>6, Kept DEF SweepPick, Typed
  <1>4. CASE SweepReason
    <2>1. PICK s \in Session : cur' = s /\ idleReason' = idleReason \cup {s}
      BY <1>4 DEF SweepReason
    <2>2. SetTyped'
      BY <1>4, <2>1 DEF SweepReason, Typed, SetTyped
    <2>3. SweepTyped'
      BY <1>4, <2>1 DEF SweepReason, Typed, SweepTyped
    <2> QED BY <1>4, <2>2, <2>3, Kept DEF SweepReason, Typed
  <1>5. CASE SweepShut
    <2>1. victim' \in [Session -> 0..MaxGen]
      <3>1. 0 \in 0..MaxGen
        BY ConstantsAssumption
      <3>2. victim' = [victim EXCEPT ![cur] = 0]
        BY <1>5 DEF SweepShut
      <3> QED BY <3>1, <3>2 DEF Typed, SweepTyped
    <2>2. SweepTyped'
      BY <1>5, <2>1 DEF SweepShut, Typed, SweepTyped
    <2>3. EnginesOK'
      BY <1>5, SendShutdownTyped DEF SweepShut, Typed
    <2> QED BY <1>5, <2>2, <2>3, Kept DEF SweepShut, Typed
  <1> QED BY <1>1, <1>2, <1>3, <1>4, <1>5 DEF SweepStep

\* A pending update keeps the state typed, and so does the exit it ends in.
LEMMA RestartTyped ==
    ASSUME Typed, RestartStep
    PROVE  Typed'
  <1>1. CASE RestartAsk \/ RestartHoldExpires \/ RestartHeld \/ RestartBusy
    <2>1. SweepTyped'
      BY <1>1 DEF RestartAsk, RestartHoldExpires, RestartHeld, RestartBusy,
                  Typed, SweepTyped, sweepVars
    <2>2. CASE RestartAsk
      <3>1. CallsOK'
        BY <2>2, ConstantsAssumption DEF RestartAsk, Typed, CallsOK, CallTyped, ArgOK
      <3> QED BY <2>1, <2>2, <3>1, Kept DEF RestartAsk, Typed
    <2>3. CASE ~RestartAsk
      BY <1>1, <2>1, <2>3, Kept DEF RestartHoldExpires, RestartHeld, RestartBusy, Typed
    <2> QED BY <2>2, <2>3
  <1>2. CASE RestartExit
    <2> USE <1>2, ConstantsAssumption DEF RestartExit
    <2>1. HubTyped'
      BY DEF Typed, HubTyped
    <2>2. SetTyped'
      BY DEF Typed, SetTyped
    <2>3. EnginesOK'
      <3>1. at' \in [Gen -> Place]
        BY DEF Place
      <3>2. inbox' \in [Gen -> Seq(OpName)]
        OBVIOUS
      <3>3. OwnOK'
        BY DEF Typed, EnginesOK, EngTyped, OwnOK, Gen
      <3> QED BY <3>1, <3>2, <3>3 DEF Typed, EnginesOK, EngTyped
    <2>4. CallsOK'
      <3>1. pc' \in [Thread -> Label] /\ ArgOK'
        BY DEF Label, ArgOK
      <3> QED BY <3>1 DEF Typed, CallsOK, CallTyped
    <2>5. SweepTyped'
      BY DEF Typed, SweepTyped
    <2>6. TuiOK'
      BY DEF Typed, TuiOK, TuiTyped
    <2> QED BY <2>1, <2>2, <2>3, <2>4, <2>5, <2>6 DEF Typed
  <1> QED BY <1>1, <1>2 DEF RestartStep

\* Every step keeps the state typed.
LEMMA NextTyped ==
    ASSUME Typed, [Next]_vars
    PROVE  Typed'
  <1>1. CASE \E c \in Client : ClientOp(c) \/ ClientStep(c)
    BY <1>1, ClientOpTyped, ClientStepTyped
  <1>2. CASE \E d \in Sender : SenderStep(d) \/ \E s \in Session : SendOp(d, s)
    BY <1>2, SenderTyped
  <1>3. CASE \E g \in Gen : EngineStep(g) \/ TuiExits(g)
    BY <1>3, EngineTyped, TuiExitsTyped
  <1>4. CASE MinutesPass
    <2>1. age' \in [Session -> 0..2]
      BY <1>4 DEF MinutesPass, Typed, HubTyped
    <2>2. HubTyped'
      BY <1>4, <2>1 DEF MinutesPass, Typed, HubTyped
    <2> QED BY <1>4, <2>2, Kept DEF MinutesPass, Typed
  <1>5. CASE SweepStep
    BY <1>5, SweepTypedStep
  <1>6. CASE RestartStep
    BY <1>6, RestartTyped
  <1>7. CASE UNCHANGED vars
    BY <1>7, Kept DEF vars, Typed
  <1> QED BY <1>1, <1>2, <1>3, <1>4, <1>5, <1>6, <1>7 DEF Next

\* The daemon's first state is typed.
LEMMA InitTyped == Init => Typed
  <1> SUFFICES ASSUME Init PROVE Typed
    OBVIOUS
  <1> USE ConstantsAssumption DEF Init
  <1>1. HubTyped
    BY DEF HubTyped
  <1>2. SetTyped
    BY DEF SetTyped
  <1>3. EnginesOK
    <2>1. at \in [Gen -> Place]
      BY DEF Place
    <2>2. inbox \in [Gen -> Seq(OpName)]
      OBVIOUS
    <2>3. OwnOK
      BY DEF OwnOK, Gen
    <2> QED BY <2>1, <2>2, <2>3 DEF EnginesOK, EngTyped
  <1>4. CallsOK
    <2>1. pc \in [Thread -> Label] /\ ArgOK
      BY DEF Label, ArgOK
    <2> QED BY <2>1 DEF CallsOK, CallTyped
  <1>5. SweepTyped
    BY DEF SweepTyped
  <1>6. TuiOK
    BY DEF TuiOK, TuiTyped
  <1> QED BY <1>1, <1>2, <1>3, <1>4, <1>5, <1>6 DEF Typed

\* Every reachable state is typed: no op of the hub leaves a count negative, a
\* set with anything but sessions, or a channel with anything but ops.
THEOREM TypeCorrect == Spec => []TypeOK
  <1>1. Typed => TypeOK
    BY DEF Typed, TypeOK, EnginesOK, CallsOK, TuiOK
  <1> QED BY <1>1, InitTyped, NextTyped, PTL DEF Spec

-----------------------------------------------------------------------------
(* No entry is kept attended by a client that left *)

\* A client inside an op is connected: `pump` handles one op at a time, and
\* `remove_client` runs after the last.
ConnOK == \A c \in Client : pc[c] \notin {"idle", "unwatch"} => c \in conn

\* A session without an entry has no watchers: `unwatch` finds nothing to do.
UnhostedOK == \A s \in Session : hosted[s] = 0 => watchers[s] = {}

\* WatchersConnected rests on both: a client that unwatches a session closed
\* meanwhile leaves its watchers alone, and a woken session gets a watcher
\* long after the op that woke it began.
Watched == Typed /\ ConnOK /\ UnhostedOK /\ WatchersConnected

LEMMA InitWatched == Init => Watched
  BY InitTyped DEF Watched, Init, ConnOK, UnhostedOK, WatchersConnected

\* A step that leaves the watchers, the entries and the connections alone, and
\* starts or ends no removal.
LEMMA WatchedKept ==
    ASSUME Watched, Typed', UNCHANGED <<hosted, watchers, conn, leaving>>,
           NEW t \in Thread, pc[t] \notin {"idle", "unwatch"} \/ (t \in Client => t \in conn),
           pc[t] # "unwatch", NEW label, pc' = [pc EXCEPT ![t] = label]
    PROVE  Watched'
  <1>1. ConnOK'
    BY DEF Watched, ConnOK, Typed, CallsOK, CallTyped, Thread
  <1>2. UnhostedOK'
    BY DEF Watched, UnhostedOK
  <1>3. WatchersConnected'
    BY DEF Watched, WatchersConnected
  <1> QED BY <1>1, <1>2, <1>3 DEF Watched

\* A watch by a connected client, or an unwatch by any.
LEMMA WatchedSet ==
    ASSUME Watched, NEW c \in Client, NEW s \in Session, NEW watch \in BOOLEAN,
           SetWatch(c, s, watch), watch => c \in conn,
           UNCHANGED hosted
    PROVE  /\ UnhostedOK'
           /\ \A r \in Session : \A d \in watchers'[r] :
                 d \in watchers[r] \/ (d = c /\ c \in conn)
           /\ ~watch => c \notin watchers'[s]
  BY DEF Watched, UnhostedOK, SetWatch, Typed, HubTyped

LEMMA NextWatched ==
    ASSUME Watched, [Next]_vars
    PROVE  Watched'
  <1>0. Typed /\ Typed'
    BY NextTyped DEF Watched
  <1> USE <1>0
  <1>1. ASSUME NEW c \in Client, NEW s \in Session,
               \/ OpenOp(c, s) \/ DecideOp(c, s) \/ MessageOp(c, s) \/ TuneOp(c, s)
               \/ \E force \in BOOLEAN : TuiOp(c, s, force)
        PROVE  Watched'
    <2>1. PICK label : pc' = [pc EXCEPT ![c] = label]
      BY <1>1 DEF OpenOp, DecideOp, MessageOp, TuneOp, TuiOp, Begin
    <2>2. pc[c] = "idle" /\ c \in conn
      BY <1>1 DEF OpenOp, DecideOp, MessageOp, TuneOp, TuiOp, Begin
    <2>3. UNCHANGED <<hosted, watchers, conn, leaving>>
      BY <1>1 DEF OpenOp, DecideOp, MessageOp, TuneOp, TuiOp, hubVars
    <2> QED BY <2>1, <2>2, <2>3, WatchedKept DEF Thread
  <1>2. ASSUME NEW c \in Client, NEW s \in Session, CloseOp(c, s) PROVE Watched'
    <2>1. ConnOK'
      BY <1>2 DEF CloseOp, Begin, Watched, ConnOK
    <2>2. UnhostedOK' /\ WatchersConnected'
      BY <1>2 DEF CloseOp, Begin, Blank, Watched, UnhostedOK, WatchersConnected,
                  Typed, HubTyped
    <2> QED BY <2>1, <2>2 DEF Watched
  <1>3. ASSUME NEW c \in Client, NEW s \in Session, NEW watch \in BOOLEAN,
               WatchOp(c, s, watch)
        PROVE  Watched'
    <2>1. pc[c] = "idle" /\ c \in conn /\ pc' = [pc EXCEPT ![c] = "idle"]
          /\ UNCHANGED <<hosted, leaving, conn>> /\ SetWatch(c, s, watch)
      BY <1>3 DEF WatchOp, Begin
    <2>2. ConnOK' /\ WatchersConnected'
      BY <2>1, WatchedSet DEF Watched, ConnOK, WatchersConnected
    <2> QED BY <2>1, <2>2, WatchedSet DEF Watched
  <1>4. ASSUME NEW c \in Client, Disconnect(c) PROVE Watched'
    <2>1. UnhostedOK' /\ ConnOK'
      BY <1>4 DEF Disconnect, Begin, Watched, ConnOK, UnhostedOK, hubVars,
                  Typed, CallsOK, CallTyped, Thread
    <2>2. \A s \in Session : c \in watchers[s] =>
             pc'[c] = "unwatch" /\ s \in leaving'[c]
      BY <1>4 DEF Disconnect, Begin, Typed, CallsOK, CallTyped, Thread
    <2>3. WatchersConnected'
      BY <1>4, <2>2 DEF Disconnect, Begin, Watched, WatchersConnected, hubVars
    <2> QED BY <2>1, <2>3 DEF Watched
  <1>5. ASSUME NEW c \in Client, Reconnect(c) PROVE Watched'
    BY <1>5 DEF Reconnect, Watched, ConnOK, UnhostedOK, WatchersConnected, hubVars
  <1>6. ASSUME NEW c \in Client,
               WakeAsleep(c) \/ Lookup(c) \/ TakeOptions(c) \/ Spawn(c)
                 \/ SpawnFails(c) \/ OpenFails(c) \/ Forget(c) \/ ForwardMessage(c) \/ Shut(c)
        PROVE  Watched'
    <2>0. Opened(c) => \E label : pc' = [pc EXCEPT ![c] = label]
      BY DEF Opened, GoTo, Finish, Typed, CallsOK, CallTyped, Thread
    <2>1. PICK label : pc' = [pc EXCEPT ![c] = label]
      BY <1>6, <2>0 DEF WakeAsleep, Lookup, TakeOptions, Spawn, SpawnFails, OpenFails, Forget,
                        ForwardMessage, Shut, GoTo, Finish
    <2>2. pc[c] \notin {"idle", "unwatch"}
      BY <1>6 DEF WakeAsleep, Lookup, TakeOptions, Spawn, SpawnFails, OpenFails, Forget,
                  ForwardMessage, Shut
    <2>3. UNCHANGED <<hosted, watchers, conn, leaving>>
      BY <1>6 DEF WakeAsleep, Lookup, TakeOptions, Spawn, SpawnFails, OpenFails, Forget,
                  ForwardMessage, Shut, hubVars
    <2> QED BY <2>1, <2>2, <2>3, WatchedKept DEF Thread
  <1>7. ASSUME NEW c \in Client, Host(c) PROVE Watched'
    <2>1. ConnOK'
      BY <1>7 DEF Host, GoTo, Watched, ConnOK
    <2>2. UnhostedOK' /\ WatchersConnected'
      BY <1>7 DEF Host, GoTo, Blank, Watched, UnhostedOK, WatchersConnected,
                  Typed, HubTyped
    <2> QED BY <2>1, <2>2 DEF Watched
  <1>8. ASSUME NEW c \in Client, WakeWatch(c) PROVE Watched'
    <2>1. c \in conn /\ arg[c] \in Session
      BY <1>8 DEF WakeWatch, Watched, ConnOK, Typed, CallsOK, ArgOK, Thread
    <2>2. /\ SetWatch(c, arg[c], TRUE) /\ pc[c] = "wakeWatch"
          /\ pc' = [pc EXCEPT ![c] = "forward"]
          /\ UNCHANGED <<hosted, leaving, conn>>
      BY <1>8 DEF WakeWatch, GoTo
    <2>3. /\ UnhostedOK'
          /\ \A r \in Session : \A d \in watchers'[r] :
                d \in watchers[r] \/ (d = c /\ c \in conn)
      BY <2>1, <2>2, WatchedSet
    <2>4. ConnOK'
      BY <2>1, <2>2 DEF Watched, ConnOK
    <2>5. WatchersConnected'
      BY <2>1, <2>2, <2>3 DEF Watched, WatchersConnected
    <2> QED BY <2>3, <2>4, <2>5 DEF Watched
  <1>9. ASSUME NEW c \in Client, Unwatch(c) PROVE Watched'
    <2>1. PICK s \in leaving[c] :
              /\ SetWatch(c, s, FALSE)
              /\ leaving' = [leaving EXCEPT ![c] = @ \ {s}]
              /\ pc' = [pc EXCEPT ![c] = IF leaving[c] = {s} THEN "idle" ELSE "unwatch"]
      BY <1>9 DEF Unwatch, GoTo
    <2>2. s \in Session /\ pc[c] = "unwatch" /\ UNCHANGED <<hosted, conn>>
      BY <1>9 DEF Unwatch, Typed, CallsOK, CallTyped
    <2>3. ConnOK'
      BY <2>1, <2>2 DEF Watched, ConnOK, Typed, CallsOK, CallTyped, Thread
    <2>4. /\ UnhostedOK' /\ c \notin watchers'[s]
          /\ \A r \in Session : \A d \in watchers'[r] :
                d \in watchers[r] \/ (d = c /\ c \in conn)
      BY <2>1, <2>2, WatchedSet
    <2>5. ASSUME NEW r \in leaving[c], r # s
          PROVE  pc'[c] = "unwatch" /\ r \in leaving'[c]
      BY <2>1, <2>5 DEF Typed, CallsOK, CallTyped, Thread
    <2>6. WatchersConnected'
      BY <2>1, <2>2, <2>4, <2>5 DEF Watched, WatchersConnected
    <2> QED BY <2>3, <2>4, <2>6 DEF Watched
  <1>10. ASSUME NEW d \in Sender, SenderStep(d) \/ \E s \in Session : SendOp(d, s)
         PROVE  Watched'
    <2>1. PICK label : pc' = [pc EXCEPT ![d] = label]
      BY <1>10 DEF SenderStep, MarkBusy, Deliver, Unclaim, SendOp, Begin, GoTo, Finish
    <2>2. pc[d] # "unwatch" /\ d \notin Client
      BY <1>10, ConstantsAssumption
      DEF SenderStep, MarkBusy, Deliver, Unclaim, SendOp, Begin
    <2>3. UNCHANGED <<hosted, watchers, conn, leaving>>
      BY <1>10 DEF SenderStep, MarkBusy, Deliver, Unclaim, SendOp, hubVars
    <2> QED BY <2>1, <2>2, <2>3, WatchedKept DEF Thread
  <1>11. ASSUME NEW g \in Gen, EngineStep(g) \/ TuiExits(g) PROVE Watched'
    <2>1. UNCHANGED callVars
      BY <1>11 DEF EngineStep, ReadMessage, ReadTune, ReadAttended, ReadShutdown,
                   ReadKeep, KeepOptions, ReadQuit, ReadExit, Drained, Disconnected, Stops,
                   Tick, SetBusy, Touch, SetHeld, EndEntry, EndBusy, EndClaims, EndTell,
                   TuiStep, RefuseTui, ReadTui, HoldForTui, IgnoreOp, TuiEnds, TuiStops,
                   Reopen, ReopenFails, TuiExits
    <2>2. CASE EndEntry(g) /\ EntryIsOwn(g)
      BY <2>1, <2>2 DEF EndEntry, Blank, callVars, Watched, ConnOK, UnhostedOK,
                        WatchersConnected, Typed, HubTyped
    <2>3. CASE ~(EndEntry(g) /\ EntryIsOwn(g))
      <3>1. UNCHANGED <<hosted, watchers>>
        BY <1>11, <2>3
        DEF EngineStep, ReadMessage, ReadTune, ReadAttended, ReadShutdown,
            ReadKeep, KeepOptions, ReadQuit, ReadExit, Drained, Disconnected, Stops,
            Tick, SetBusy, Touch, SetHeld, EndEntry, EndBusy, EndClaims, EndTell,
            TuiStep, RefuseTui, ReadTui, HoldForTui, IgnoreOp, TuiEnds, TuiStops,
            Reopen, ReopenFails, TuiExits, hubVars
      <3> QED BY <2>1, <3>1 DEF callVars, Watched, ConnOK, UnhostedOK, WatchersConnected
    <2> QED BY <2>2, <2>3
  <1>12. CASE MinutesPass \/ UNCHANGED vars
    BY <1>12 DEF MinutesPass, vars, hubVars, callVars, Watched, ConnOK, UnhostedOK,
                 WatchersConnected
  <1>13. CASE SweepStep
    <2>1. UNCHANGED callVars
      BY <1>13 DEF SweepStep, SweepBusy, SweepClaims, SweepPick, SweepReason, SweepShut
    <2>2. CASE SweepPick
      BY <2>1, <2>2 DEF SweepPick, callVars, Watched, ConnOK, UnhostedOK, WatchersConnected
    <2>3. CASE ~SweepPick
      <3>1. UNCHANGED hubVars
        BY <1>13, <2>3 DEF SweepStep, SweepBusy, SweepClaims, SweepReason, SweepShut
      <3> QED BY <2>1, <3>1 DEF hubVars, callVars, Watched, ConnOK, UnhostedOK,
                                WatchersConnected
    <2> QED BY <2>2, <2>3
  <1>14. CASE RestartStep
    <2>1. CASE RestartExit
      BY <2>1 DEF RestartExit, Watched, ConnOK, UnhostedOK, WatchersConnected
    <2>2. CASE ~RestartExit
      BY <1>14, <2>2 DEF RestartStep, RestartAsk, RestartHoldExpires, RestartHeld,
                         RestartBusy, hubVars, callVars, Watched, ConnOK, UnhostedOK,
                         WatchersConnected
    <2> QED BY <2>1, <2>2
  <1> QED BY <1>1, <1>2, <1>3, <1>4, <1>5, <1>6, <1>7, <1>8, <1>9, <1>10, <1>11,
             <1>12, <1>13, <1>14 DEF Next, ClientOp, ClientStep

\* However an entry's watchers came and went, each is a connected client or one
\* whose removal has yet to reach the session (`set_watch`, `remove_client`).
THEOREM WatchersStayConnected == Spec => []WatchersConnected
  <1>1. Watched => WatchersConnected
    BY DEF Watched
  <1> QED BY <1>1, InitWatched, NextWatched, PTL DEF Spec

-----------------------------------------------------------------------------
(* Which engine is whose *)

\* What a channel will have said of being watched, to an engine that `now`
\* takes itself to be.
Heard(q, now) ==
    \/ \E i \in 1..Len(q) :
          q[i] = "attend" /\ \A j \in 1..Len(q) : j > i => q[j] # "unattend"
    \/ now /\ \A j \in 1..Len(q) : q[j] # "unattend"

\* The op sent last has the last word, if it speaks of being watched.
LEMMA HeardOfSent ==
    ASSUME NEW q \in Seq(OpName), NEW op \in OpName, NEW now \in BOOLEAN
    PROVE  /\ op = "attend" => Heard(q \o <<op>>, now)
           /\ op = "unattend" => ~Heard(q \o <<op>>, now)
           /\ op \notin {"attend", "unattend"} => (Heard(q \o <<op>>, now) <=> Heard(q, now))
  <1> DEFINE p == q \o <<op>>
  <1>1. /\ Len(p) = Len(q) + 1 /\ Len(q) \in Nat
        /\ p[Len(q) + 1] = op
        /\ \A i \in 1..Len(q) : p[i] = q[i]
    OBVIOUS
  <1> HIDE DEF p
  <1>2. 1..Len(p) = 1..Len(q) \cup {Len(q) + 1}
    BY <1>1
  <1>3. \A i \in 1..Len(q) : ~(i > Len(q) + 1) /\ Len(q) + 1 > i
    BY <1>1
  <1>4. op = "attend" => Heard(p, now)
    BY <1>1, <1>2, <1>3 DEF Heard
  <1>5. op = "unattend" => ~Heard(p, now)
    BY <1>1, <1>2, <1>3 DEF Heard
  <1>6. ASSUME op \notin {"attend", "unattend"}
        PROVE  Heard(p, now) <=> Heard(q, now)
    BY <1>1, <1>2, <1>3, <1>6 DEF Heard
  <1> QED BY <1>4, <1>5, <1>6 DEF p

\* An engine that reads its next op heard of it before, and has still.
LEMMA HeardOfRead ==
    ASSUME NEW q \in Seq(OpName), q # <<>>, NEW now \in BOOLEAN, NEW then \in BOOLEAN,
           Head(q) = "attend" => then,
           Head(q) = "unattend" => ~then,
           Head(q) \notin {"attend", "unattend"} => then = now
    PROVE  Heard(Tail(q), then) <=> Heard(q, now)
  <1> DEFINE p == Tail(q)
  <1>1. /\ Len(p) = Len(q) - 1 /\ Len(q) \in Nat /\ Len(q) > 0
        /\ \A i \in 1..Len(p) : p[i] = q[i + 1]
        /\ Head(q) = q[1]
    OBVIOUS
  <1> HIDE DEF p
  <1>2. \A i \in 1..Len(p) : i + 1 \in 1..Len(q)
    BY <1>1
  <1>3. \A i \in 1..Len(q) : i = 1 \/ (i - 1 \in 1..Len(p) /\ q[i] = p[i - 1])
    BY <1>1
  <1>4. 1 \in 1..Len(q)
    BY <1>1
  <1>5. (\A j \in 1..Len(p) : p[j] # "unattend")
            <=> (\A j \in 1..Len(q) : j > 1 => q[j] # "unattend")
    BY <1>1, <1>2, <1>3
  <1>6. ASSUME Heard(p, then) PROVE Heard(q, now)
    <2>1. ASSUME NEW i \in 1..Len(p), p[i] = "attend",
                 \A j \in 1..Len(p) : j > i => p[j] # "unattend"
          PROVE  Heard(q, now)
      <3>1. \A j \in 1..Len(q) : j > i + 1 => q[j] # "unattend"
        BY <1>3, <2>1
      <3> QED BY <1>1, <1>2, <2>1, <3>1 DEF Heard
    <2>2. ASSUME then, \A j \in 1..Len(p) : p[j] # "unattend"
          PROVE  Heard(q, now)
      <3>1. CASE Head(q) = "attend"
        BY <1>1, <1>4, <1>5, <2>2, <3>1 DEF Heard
      <3>2. CASE Head(q) # "attend"
        <4>1. q[1] # "attend" /\ q[1] # "unattend" /\ now
          BY <1>1, <2>2, <3>2
        <4>2. \A j \in 1..Len(q) : j = 1 \/ j > 1
          BY <1>1
        <4>3. \A j \in 1..Len(q) : q[j] # "unattend"
          BY <1>5, <2>2, <4>1, <4>2
        <4> QED BY <4>1, <4>3 DEF Heard
      <3> QED BY <3>1, <3>2
    <2> QED BY <1>6, <2>1, <2>2 DEF Heard
  <1>7. ASSUME Heard(q, now) PROVE Heard(p, then)
    <2>1. ASSUME NEW i \in 1..Len(q), q[i] = "attend",
                 \A j \in 1..Len(q) : j > i => q[j] # "unattend"
          PROVE  Heard(p, then)
      <3>1. CASE i = 1
        BY <1>1, <1>5, <2>1, <3>1 DEF Heard
      <3>2. CASE i # 1
        <4>1. \A j \in 1..Len(p) : j > i - 1 => p[j] # "unattend"
          BY <1>1, <1>2, <2>1
        <4> QED BY <1>3, <2>1, <3>2, <4>1 DEF Heard
      <3> QED BY <3>1, <3>2
    <2>2. ASSUME now, \A j \in 1..Len(q) : q[j] # "unattend"
          PROVE  Heard(p, then)
      <3>1. then /\ \A j \in 1..Len(p) : p[j] # "unattend"
        BY <1>1, <1>2, <1>4, <2>2
      <3> QED BY <3>1 DEF Heard
    <2> QED BY <1>7, <2>1, <2>2 DEF Heard
  <1> QED BY <1>6, <1>7 DEF p

\* An engine that has not started has heard nothing and has nothing to read.
FreshOK == \A g \in Gen : g > gens => inbox[g] = <<>> /\ ~told[g]

\* The last word said to an engine of being watched, read or still unread.
Told(g) == Heard(inbox[g], told[g])

\* It is said as often as the first watcher comes and the last one leaves.
ToldInSync ==
    \A s \in jucode : HostedRuns(s) => (Told(hosted[s]) <=> watchers[s] # {})

USE DEF tuiVars

\* Whoever holds the sending end of a channel has that of an engine of its
\* own session.
RefsOK ==
    /\ \A s \in Session : /\ hosted[s] # 0 => hosted[s] <= gens /\ own[hosted[s]] = s
                          /\ victim[s] # 0 => victim[s] <= gens /\ own[victim[s]] = s
    /\ \A t \in Thread : pc[t] \in {"host", "shut"} =>
          new[t] # 0 /\ new[t] <= gens /\ own[new[t]] = arg[t]
    /\ sweepAt = "shut" => cur \in Session

\* The engine a thread has started and is about to host: nobody else can send
\* to it, so JuCode's runs on.
Unhosted(t) ==
    /\ hosted[arg[t]] # new[t] /\ victim[arg[t]] # new[t]
    /\ \A u \in Thread \ {t} : pc[u] \in {"host", "shut"} => new[u] # new[t]

Awaits(t) ==
    /\ inbox[new[t]] = <<>> /\ ~told[new[t]]
    /\ arg[t] \in jucode => HoldsLock(new[t]) /\ at[new[t]] # "keep"

HostingOK == \A t \in Thread : pc[t] = "host" => Unhosted(t) /\ Awaits(t)

\* The session's lock: one of JuCode's engines has it.
OneRuns ==
    \A g, h \in Gen :
        g # h /\ own[g] = own[h] => ~(HoldsLock(g) /\ HoldsLock(h))

Linked ==
    /\ Typed /\ jucode \subseteq Session
    /\ FreshOK /\ RefsOK /\ HostingOK /\ OneRuns /\ ToldInSync

LEMMA ToldIs ==
    \A g \in Gen : /\ Told(g) <=> Heard(inbox[g], told[g])
                   /\ Told(g)' <=> Heard(inbox'[g], told'[g])
  BY DEF Told

\* The links of a hosted session, a victim and a thread that hosts or shuts.
LEMMA LinksTyped ==
    ASSUME Linked
    PROVE  /\ \A s \in Session : hosted[s] # 0 => hosted[s] \in Gen
           /\ \A s \in Session : victim[s] # 0 => victim[s] \in Gen
           /\ \A t \in Thread : pc[t] \in {"host", "shut"} => new[t] \in Gen /\ arg[t] \in Session
  BY DEF Linked, RefsOK, Typed, HubTyped, SweepTyped, CallsOK, CallTyped, ArgOK, Gen

-----------------------------------------------------------------------------
(* What keeps the links *)

\* Entries and victims go, victims and threads that shut take what was hosted,
\* and no thread comes to host an engine.
Handed ==
    /\ \A s \in Session : /\ hosted'[s] \in {hosted[s], 0}
                          /\ victim'[s] \in {victim[s], hosted[s], 0}
    /\ \A t \in Thread : pc'[t] \in {"host", "shut"} =>
          \/ pc'[t] = pc[t] /\ arg'[t] = arg[t] /\ new'[t] = new[t]
          \/ pc'[t] = "shut" /\ arg'[t] \in Session
             /\ new'[t] = hosted[arg'[t]] /\ new'[t] # 0
    /\ sweepAt' = "shut" => cur' \in Session

\* The links hold after a step that starts and hosts no engine, says nothing
\* to one that is not hosted yet, and tells one that is of its first and last
\* watcher.
LEMMA LinkedKept ==
    ASSUME Linked, Typed', Handed, UNCHANGED <<gens, own, jucode>>,
           (\A h \in Gen : HoldsLock(h)' => HoldsLock(h)) \/ OneRuns',
           FreshOK',
           \A t \in Thread : pc'[t] = "host" => Awaits(t)',
           ToldInSync'
    PROVE  Linked'
  <1>1. RefsOK'
    <2>1. ASSUME NEW s \in Session
          PROVE  /\ hosted'[s] # 0 => hosted'[s] <= gens /\ own[hosted'[s]] = s
                 /\ victim'[s] # 0 => victim'[s] <= gens /\ own[victim'[s]] = s
      BY <2>1 DEF Linked, RefsOK, Handed
    <2>2. ASSUME NEW t \in Thread, pc'[t] \in {"host", "shut"}
          PROVE  new'[t] # 0 /\ new'[t] <= gens /\ own[new'[t]] = arg'[t]
      BY <2>2 DEF Linked, RefsOK, Handed
    <2> QED BY <2>1, <2>2 DEF RefsOK, Handed
  <1>2. HostingOK'
    <2>1. ASSUME NEW t \in Thread, pc'[t] = "host"
          PROVE  Unhosted(t)'
      <3>1. /\ pc[t] = "host" /\ arg'[t] = arg[t] /\ new'[t] = new[t]
            /\ Unhosted(t)
        BY <2>1 DEF Handed, Linked, HostingOK
      <3>2. new[t] # 0 /\ own[new[t]] = arg[t] /\ arg[t] \in Session
        BY <3>1, LinksTyped DEF Linked, RefsOK
      <3>3. hosted'[arg[t]] # new[t] /\ victim'[arg[t]] # new[t]
        BY <3>1, <3>2 DEF Unhosted, Handed
      <3>4. ASSUME NEW u \in Thread \ {t}, pc'[u] \in {"host", "shut"}
            PROVE  new'[u] # new[t]
        BY <3>1, <3>2, <3>4 DEF Unhosted, Handed, Linked, RefsOK
      <3> QED BY <3>1, <3>3, <3>4 DEF Unhosted
    <2> QED BY <2>1 DEF HostingOK
  <1>3. OneRuns'
    BY DEF Linked, OneRuns
  <1> QED BY <1>1, <1>2, <1>3 DEF Linked

\* No thread comes to host or shut an engine, and the map stays.
Unmoved ==
    /\ \A t \in Thread : pc'[t] \in {"host", "shut"} =>
          pc'[t] = pc[t] /\ arg'[t] = arg[t] /\ new'[t] = new[t]
    /\ UNCHANGED <<gens, own, jucode, hosted, watchers>>
    /\ \A s \in Session : victim'[s] \in {victim[s], 0}
    /\ sweepAt' = "shut" => cur' \in Session

\* A step that leaves the channels alone, too, and ends no engine.
LEMMA LinkedQuiet ==
    ASSUME Linked, Typed', Unmoved, UNCHANGED <<inbox, told>>,
           \A h \in Gen : Receiving(h)' <=> Receiving(h),
           \A h \in Gen : Gave(h)' <=> Gave(h),
           \A h \in Gen : at'[h] = "keep" => at[h] = "keep"
    PROVE  Linked'
  <1>1. Handed
    BY DEF Unmoved, Handed
  <1>2. FreshOK'
    BY DEF Unmoved, Linked, FreshOK
  <1>3. ASSUME NEW t \in Thread, pc'[t] = "host" PROVE Awaits(t)'
    <2>1. Awaits(t) /\ new'[t] = new[t] /\ arg'[t] = arg[t] /\ new[t] \in Gen
      BY <1>3, LinksTyped DEF Unmoved, Linked, HostingOK
    <2> QED BY <2>1 DEF Awaits, HoldsLock, Unmoved
  <1>4. ToldInSync'
    <2>1. ASSUME NEW s \in jucode, HostedRuns(s)'
          PROVE  Told(hosted[s])' <=> (watchers[s] # {})
      <3>1. HostedRuns(s)
        BY <2>1, LinksTyped DEF Unmoved, HostedRuns, Linked
      <3>2. Told(hosted[s])' <=> Told(hosted[s])
        BY DEF Told, Unmoved
      <3> QED BY <3>1, <3>2 DEF Linked, ToldInSync
    <2> QED BY <2>1 DEF ToldInSync, Unmoved
  <1> QED BY <1>1, <1>2, <1>3, <1>4, LinkedKept DEF Unmoved, HoldsLock

\* An op that is not of being watched goes to an engine whose thread runs and
\* that is not about to be hosted (`forward`, `shut`).
LEMMA LinkedSent ==
    ASSUME Linked, Typed', Unmoved, UNCHANGED <<at, told>>,
           NEW g \in Gen, g <= gens, NEW op \in OpName \ {"attend", "unattend"},
           Enqueue(g, <<op>>),
           \A t \in Thread : pc'[t] = "host" => new[t] # g
    PROVE  Linked'
  <1> DEFINE Same(h) == inbox'[h] = inbox[h]
  <1>0. inbox \in [Gen -> Seq(OpName)]
    BY DEF Linked, Typed, EnginesOK, EngTyped
  <1>1. inbox'[g] = inbox[g] \o <<op>> /\ \A h \in Gen : h # g => Same(h)
    BY <1>0 DEF Enqueue
  <1>2. Handed
    BY DEF Unmoved, Handed
  <1>3. FreshOK'
    <2>1. \A h \in Gen : h > gens => h # g
      BY DEF Gen, Linked, Typed, EnginesOK, EngTyped
    <2> QED BY <1>1, <2>1 DEF Unmoved, Linked, FreshOK
  <1>4. ASSUME NEW t \in Thread, pc'[t] = "host" PROVE Awaits(t)'
    <2>1. Awaits(t) /\ new'[t] = new[t] /\ arg'[t] = arg[t] /\ new[t] \in Gen
      BY <1>4, LinksTyped DEF Unmoved, Linked, HostingOK
    <2> QED BY <1>1, <1>4, <2>1 DEF Awaits, HoldsLock, Unmoved, Receiving, Gave
  <1>5. ToldInSync'
    <2>1. ASSUME NEW s \in jucode, HostedRuns(s)'
          PROVE  Told(hosted[s])' <=> (watchers[s] # {})
      <3>1. HostedRuns(s) /\ hosted[s] \in Gen
        BY <2>1, LinksTyped DEF Unmoved, HostedRuns, Linked, Receiving
      <3>2. told[hosted[s]] \in BOOLEAN
        BY <3>1 DEF Linked, Typed, TuiOK, TuiTyped
      <3>3. Heard(inbox'[hosted[s]], told[hosted[s]])
               <=> Heard(inbox[hosted[s]], told[hosted[s]])
        <4>1. CASE hosted[s] = g
          <5>1. inbox[g] \in Seq(OpName) /\ told[g] \in BOOLEAN
            BY <1>0, <3>2, <4>1
          <5>2. Heard(inbox[g] \o <<op>>, told[g]) <=> Heard(inbox[g], told[g])
            BY <5>1, HeardOfSent
          <5> QED BY <1>1, <4>1, <5>2
        <4>2. CASE hosted[s] # g
          BY <1>1, <3>1, <4>2
        <4> QED BY <4>1, <4>2
      <3>4. Told(hosted[s])' <=> Told(hosted[s])
        BY <3>1, <3>3, ToldIs DEF Unmoved
      <3> QED BY <3>1, <3>4 DEF Linked, ToldInSync
    <2> QED BY <2>1 DEF ToldInSync, Unmoved
  <1> QED BY <1>2, <1>3, <1>4, <1>5, LinkedKept DEF Unmoved, HoldsLock, Receiving, Gave

\* The engine of an entry is one that nobody is about to host.
LEMMA HostedIsHosted ==
    ASSUME Linked, NEW s \in Session, hosted[s] # 0
    PROVE  /\ hosted[s] \in Gen /\ hosted[s] <= gens
           /\ \A t \in Thread : pc[t] = "host" => new[t] # hosted[s]
  BY LinksTyped DEF Linked, RefsOK, HostingOK, Unhosted

\* `forward`, of any op that is not of being watched.
LEMMA LinkedForward ==
    ASSUME Linked, Typed', Unmoved, UNCHANGED <<at, told>>,
           NEW s \in Session, NEW op \in OpName \ {"attend", "unattend"}, Forward(s, op)
    PROVE  Linked'
  <1>1. CASE UNCHANGED inbox
    BY <1>1, LinkedQuiet DEF Receiving, Gave
  <1>2. CASE hosted[s] # 0 /\ Enqueue(hosted[s], <<op>>)
    BY <1>2, HostedIsHosted, LinkedSent DEF Unmoved
  <1> QED BY <1>1, <1>2 DEF Forward

\* `set_watch`: an engine that runs hears of the first and of the last watcher.
LEMMA LinkedWatch ==
    ASSUME Linked, Typed', NEW c \in Client, NEW s \in Session, NEW watch \in BOOLEAN,
           SetWatch(c, s, watch),
           \A t \in Thread : pc'[t] \in {"host", "shut"} =>
               pc'[t] = pc[t] /\ arg'[t] = arg[t] /\ new'[t] = new[t],
           UNCHANGED <<gens, own, jucode, hosted, victim, sweepAt, cur, at, told>>
    PROVE  Linked'
  <1> DEFINE g == hosted[s]
             now == IF watch THEN watchers[s] \cup {c} ELSE watchers[s] \ {c}
             op == IF watch THEN "attend" ELSE "unattend"
  <1>0. /\ inbox \in [Gen -> Seq(OpName)] /\ watchers \in [Session -> SUBSET Client]
        /\ op \in OpName
    BY DEF Linked, Typed, EnginesOK, EngTyped, HubTyped, OpName
  <1>1. Handed
    BY DEF Handed, Linked, RefsOK
  <1>2. \/ UNCHANGED inbox
        \/ /\ g # 0 /\ Receiving(g) /\ AttendedChanges(s, now)
           /\ Enqueue(g, <<op>>)
    BY DEF SetWatch
  <1>3. \A h \in Gen : h # g \/ g = 0 => inbox'[h] = inbox[h]
    BY <1>0, <1>2 DEF Enqueue
  <1>4. FreshOK'
    <2>1. \A h \in Gen : h > gens => h # g \/ g = 0
      BY HostedIsHosted DEF Gen, Linked, Typed, EnginesOK, EngTyped
    <2> QED BY <1>3, <2>1 DEF Linked, FreshOK
  <1>5. ASSUME NEW t \in Thread, pc'[t] = "host" PROVE Awaits(t)'
    <2>1. Awaits(t) /\ new'[t] = new[t] /\ arg'[t] = arg[t] /\ new[t] \in Gen
          /\ pc[t] = "host"
      BY <1>5, LinksTyped DEF Linked, HostingOK
    <2>2. inbox'[new[t]] = inbox[new[t]]
      BY <1>3, <2>1, HostedIsHosted
    <2> QED BY <2>1, <2>2 DEF Awaits, HoldsLock, Receiving, Gave
  <1>6. ToldInSync'
    <2>1. ASSUME NEW r \in jucode, HostedRuns(r)'
          PROVE  Told(hosted[r])' <=> (watchers'[r] # {})
      <3>1. HostedRuns(r) /\ hosted[r] \in Gen /\ r \in Session
            /\ told[hosted[r]] \in BOOLEAN
        BY <2>1, LinksTyped DEF HostedRuns, Linked, Receiving, Typed, TuiOK, TuiTyped
      <3>2. Told(hosted[r]) <=> (watchers[r] # {})
        BY <3>1 DEF Linked, ToldInSync
      <3>3. CASE r # s
        <4>1. hosted[r] # g \/ g = 0
          BY <3>1, <3>3 DEF Linked, RefsOK, HostedRuns
        <4>2. inbox'[hosted[r]] = inbox[hosted[r]] /\ watchers'[r] = watchers[r]
          BY <1>0, <1>3, <3>1, <3>3, <4>1 DEF SetWatch
        <4>3. Told(hosted[r])' <=> Told(hosted[r])
          BY <3>1, <4>2, ToldIs
        <4> QED BY <3>2, <4>2, <4>3
      <3>4. CASE r = s
        <4>1. g # 0 /\ Receiving(g) /\ watchers'[s] = now
          BY <1>0, <3>1, <3>4 DEF SetWatch, HostedRuns
        <4>2. CASE AttendedChanges(s, now)
          <5>1. Enqueue(g, <<op>>)
            BY <4>1, <4>2 DEF SetWatch
          <5>2. inbox'[g] = inbox[g] \o <<op>>
            BY <1>0, <3>1, <3>4, <5>1 DEF Enqueue
          <5>3. Told(g)' <=> watch
            <6>1. inbox[g] \in Seq(OpName) /\ told[g] \in BOOLEAN /\ g \in Gen
              BY <1>0, <3>1, <3>4
            <6>2. /\ op = "attend" => Heard(inbox'[g], told[g])
                  /\ op = "unattend" => ~Heard(inbox'[g], told[g])
              BY <1>0, <5>2, <6>1, HeardOfSent
            <6> QED BY <6>1, <6>2, ToldIs
          <5>4. watch <=> (now # {})
            BY <4>2 DEF AttendedChanges
          <5> QED BY <3>4, <4>1, <5>3, <5>4
        <4>3. CASE ~AttendedChanges(s, now)
          <5>1. inbox' = inbox
            BY <4>1, <4>3 DEF SetWatch
          <5>2. Told(g)' <=> Told(g)
            BY <3>1, <3>4, <5>1, ToldIs
          <5> QED BY <3>2, <3>4, <4>1, <4>3, <5>2 DEF AttendedChanges
        <4> QED BY <4>2, <4>3
      <3> QED BY <3>3, <3>4
    <2> QED BY <2>1 DEF ToldInSync
  <1> QED BY <1>1, <1>4, <1>5, <1>6, LinkedKept DEF HoldsLock, Receiving, Gave

-----------------------------------------------------------------------------
(* Every step keeps the links *)

\* What a client's op and the critical sections of its thread do.
LEMMA ClientLinked ==
    ASSUME Linked, Typed', NEW c \in Client, ClientOp(c) \/ ClientStep(c),
           ~Spawn(c), ~Host(c)
    PROVE  Linked'
  <1> USE DEF Thread
  <1>0. /\ pc \in [Thread -> Label] /\ arg \in [Thread -> Session \cup {NoSession}]
        /\ new \in [Thread -> 0..MaxGen] /\ c \in Thread
    BY DEF Linked, Typed, CallsOK, CallTyped
  <1>1. ASSUME NEW s \in Session, OpenOp(c, s) \/ DecideOp(c, s) \/ MessageOp(c, s)
        PROVE  Linked'
    <2>1. /\ pc'[c] \notin {"host", "shut"}
          /\ \A t \in Thread \ {c} : pc'[t] = pc[t] /\ arg'[t] = arg[t] /\ new'[t] = new[t]
      BY <1>0, <1>1 DEF OpenOp, DecideOp, MessageOp, Begin
    <2>2. UNCHANGED <<hubVars, engVars, tuiVars, sweepVars, jucode>>
      BY <1>1 DEF OpenOp, DecideOp, MessageOp
    <2>3. Unmoved
      BY <2>1, <2>2 DEF Unmoved, hubVars, engVars, sweepVars, Linked, RefsOK
    <2> QED BY <2>2, <2>3, LinkedQuiet DEF engVars, Receiving, Gave
  <1>2. ASSUME NEW s \in Session, TuneOp(c, s) PROVE Linked'
    <2>1. /\ pc'[c] \notin {"host", "shut"}
          /\ \A t \in Thread \ {c} : pc'[t] = pc[t] /\ arg'[t] = arg[t] /\ new'[t] = new[t]
      BY <1>0, <1>2 DEF TuneOp, Begin
    <2>2. Unmoved
      BY <1>2, <2>1 DEF TuneOp, Unmoved, sweepVars, Linked, RefsOK
    <2> QED BY <1>2, <2>2, LinkedForward DEF TuneOp, OpName
  <1>11. ASSUME NEW s \in Session, NEW force \in BOOLEAN, TuiOp(c, s, force)
         PROVE  Linked'
    <2>1. /\ pc'[c] \notin {"host", "shut"}
          /\ \A t \in Thread \ {c} : pc'[t] = pc[t] /\ arg'[t] = arg[t] /\ new'[t] = new[t]
      BY <1>0, <1>11 DEF TuiOp, Begin
    <2>2. Unmoved
      BY <1>11, <2>1 DEF TuiOp, Unmoved, sweepVars, Linked, RefsOK
    <2>3. PICK op \in {"tui", "force"} : Forward(s, op)
      BY <1>11 DEF TuiOp
    <2> QED BY <1>11, <2>2, <2>3, LinkedForward DEF TuiOp, OpName
  <1>3. ASSUME NEW s \in Session, CloseOp(c, s) PROVE Linked'
    <2>0. /\ hosted[s] # 0 /\ UNCHANGED <<engVars, tuiVars, sweepVars, jucode>>
          /\ hosted' = [hosted EXCEPT ![s] = 0]
          /\ watchers' = [watchers EXCEPT ![s] = {}]
      BY <1>3 DEF CloseOp, Blank
    <2>1. /\ pc'[c] = "shut" /\ arg'[c] = s /\ new'[c] = hosted[s]
          /\ \A t \in Thread \ {c} : pc'[t] = pc[t] /\ arg'[t] = arg[t] /\ new'[t] = new[t]
      BY <1>0, <1>3 DEF CloseOp, Begin
    <2>2. Handed
      BY <2>0, <2>1 DEF Handed, sweepVars, Linked, RefsOK, Typed, HubTyped
    <2>3. FreshOK' /\ \A t \in Thread : pc'[t] = "host" => Awaits(t)'
      BY <2>0, <2>1 DEF engVars, Linked, FreshOK, HostingOK, Awaits, HoldsLock, Receiving, Gave
    <2>4. ToldInSync'
      <3>1. ASSUME NEW r \in jucode, HostedRuns(r)'
            PROVE  Told(hosted[r])' <=> (watchers'[r] # {})
        <4>1. r # s /\ hosted'[r] = hosted[r] /\ watchers'[r] = watchers[r]
          BY <2>0, <3>1 DEF HostedRuns, Linked, Typed, HubTyped
        <4>2. HostedRuns(r) /\ (Told(hosted[r])' <=> Told(hosted[r]))
          BY <2>0, <3>1, <4>1 DEF HostedRuns, Told, engVars, Receiving
        <4> QED BY <4>1, <4>2 DEF Linked, ToldInSync
      <3> QED BY <2>0, <3>1 DEF ToldInSync
    <2> QED BY <2>0, <2>2, <2>3, <2>4, LinkedKept DEF engVars, HoldsLock, Receiving, Gave
  <1>4. ASSUME NEW s \in Session, NEW watch \in BOOLEAN, WatchOp(c, s, watch)
        PROVE  Linked'
    <2>1. /\ pc'[c] \notin {"host", "shut"}
          /\ \A t \in Thread \ {c} : pc'[t] = pc[t] /\ arg'[t] = arg[t] /\ new'[t] = new[t]
      BY <1>0, <1>4 DEF WatchOp, Begin
    <2> QED BY <1>4, <2>1, LinkedWatch DEF WatchOp, sweepVars
  <1>5. ASSUME Disconnect(c) \/ Reconnect(c) PROVE Linked'
    <2>1. /\ pc'[c] \notin {"host", "shut"}
          /\ \A t \in Thread \ {c} : pc'[t] = pc[t] /\ arg'[t] = arg[t] /\ new'[t] = new[t]
      BY <1>0, <1>5 DEF Disconnect, Reconnect, Begin
    <2>2. UNCHANGED <<hubVars, engVars, tuiVars, sweepVars, jucode>>
      BY <1>5 DEF Disconnect, Reconnect
    <2>3. Unmoved
      BY <2>1, <2>2 DEF Unmoved, hubVars, engVars, sweepVars, Linked, RefsOK
    <2> QED BY <2>2, <2>3, LinkedQuiet DEF engVars, Receiving, Gave
  <1>6. ASSUME WakeAsleep(c) \/ Lookup(c) \/ TakeOptions(c) \/ SpawnFails(c)
                 \/ OpenFails(c) \/ Forget(c)
        PROVE  Linked'
    <2>0. Opened(c) => /\ pc'[c] \notin {"host", "shut"}
                       /\ \A t \in Thread \ {c} :
                             pc'[t] = pc[t] /\ arg'[t] = arg[t] /\ new'[t] = new[t]
      <3>1. after[c] \in {"reply", "watch", "forward"}
        BY <1>0 DEF Linked, Typed, CallsOK, CallTyped
      <3>2. Opened(c) => \/ Finish(c)
                         \/ GoTo(c, "wakeWatch") /\ UNCHANGED new
                         \/ GoTo(c, "forward") /\ UNCHANGED new
        BY <3>1 DEF Opened
      <3> QED BY <1>0, <3>2 DEF Finish, GoTo
    <2>1. /\ pc'[c] \notin {"host", "shut"}
          /\ \A t \in Thread \ {c} : pc'[t] = pc[t] /\ arg'[t] = arg[t] /\ new'[t] = new[t]
      BY <1>0, <1>6, <2>0
      DEF WakeAsleep, Lookup, TakeOptions, SpawnFails, OpenFails, Forget, Finish, GoTo
    <2>2. UNCHANGED <<hubVars, engVars, tuiVars, sweepVars, jucode>>
      BY <1>6 DEF WakeAsleep, Lookup, TakeOptions, SpawnFails, OpenFails, Forget
    <2>3. Unmoved
      BY <2>1, <2>2 DEF Unmoved, hubVars, engVars, sweepVars, Linked, RefsOK
    <2> QED BY <2>2, <2>3, LinkedQuiet DEF engVars, Receiving, Gave
  <1>7. ASSUME WakeWatch(c) PROVE Linked'
    <2>1. /\ pc'[c] \notin {"host", "shut"} /\ arg[c] \in Session
          /\ \A t \in Thread \ {c} : pc'[t] = pc[t] /\ arg'[t] = arg[t] /\ new'[t] = new[t]
      BY <1>0, <1>7 DEF WakeWatch, GoTo, Linked, Typed, CallsOK, ArgOK
    <2> QED BY <1>7, <2>1, LinkedWatch DEF WakeWatch, sweepVars
  <1>8. ASSUME ForwardMessage(c) PROVE Linked'
    <2>1. /\ pc'[c] \notin {"host", "shut"} /\ arg[c] \in Session
          /\ \A t \in Thread \ {c} : pc'[t] = pc[t] /\ arg'[t] = arg[t] /\ new'[t] = new[t]
      BY <1>0, <1>8 DEF ForwardMessage, Finish, Linked, Typed, CallsOK, ArgOK
    <2>2. Unmoved
      BY <1>8, <2>1 DEF ForwardMessage, Unmoved, sweepVars, Linked, RefsOK
    <2> QED BY <1>8, <2>1, <2>2, LinkedForward DEF ForwardMessage, OpName
  <1>9. ASSUME Shut(c) PROVE Linked'
    <2>1. /\ pc[c] = "shut" /\ pc'[c] \notin {"host", "shut"} /\ SendShutdown(new[c], arg[c])
          /\ \A t \in Thread \ {c} : pc'[t] = pc[t] /\ arg'[t] = arg[t] /\ new'[t] = new[t]
      BY <1>0, <1>9 DEF Shut, Finish
    <2>2. Unmoved
      BY <1>9, <2>1 DEF Shut, Unmoved, hubVars, sweepVars, Linked, RefsOK
    <2>3. CASE UNCHANGED inbox
      BY <1>9, <2>2, <2>3, LinkedQuiet DEF Shut, Receiving, Gave
    <2>4. CASE Enqueue(new[c], <<ShutOp(arg[c])>>)
      <3>1. new[c] \in Gen /\ new[c] <= gens
        BY <2>1, LinksTyped DEF Linked, RefsOK
      <3>2. \A t \in Thread : pc'[t] = "host" => new[t] # new[c]
        BY <2>1 DEF Linked, HostingOK, Unhosted
      <3>3. ShutOp(arg[c]) \in OpName \ {"attend", "unattend"}
        BY DEF ShutOp, OpName
      <3> QED BY <1>9, <2>2, <2>4, <3>1, <3>2, <3>3, LinkedSent DEF Shut
    <2> QED BY <2>1, <2>3, <2>4 DEF SendShutdown
  <1>10. ASSUME Unwatch(c) PROVE Linked'
    <2>1. PICK s \in leaving[c] :
              SetWatch(c, s, FALSE) /\ (GoTo(c, "idle") \/ GoTo(c, "unwatch"))
      BY <1>10 DEF Unwatch
    <2>2. s \in Session
      BY DEF Linked, Typed, CallsOK, CallTyped
    <2>3. \A t \in Thread : pc'[t] \in {"host", "shut"} =>
              pc'[t] = pc[t] /\ arg'[t] = arg[t] /\ new'[t] = new[t]
      BY <1>0, <1>10, <2>1 DEF Unwatch, GoTo
    <2> QED BY <1>10, <2>1, <2>2, <2>3, LinkedWatch DEF Unwatch, sweepVars
  <1> QED BY <1>1, <1>2, <1>3, <1>4, <1>5, <1>6, <1>7, <1>8, <1>9, <1>10, <1>11
          DEF ClientOp, ClientStep

\* The engine that a thread starts is nobody else's; JuCode's has the
\* session's lock, so no other of it runs.
LEMMA SpawnLinked ==
    ASSUME Linked, Typed', NEW c \in Client, Spawn(c)
    PROVE  Linked'
  <1> DEFINE g == gens + 1
             s == arg[c]
  <1>0. /\ pc \in [Thread -> Label] /\ arg \in [Thread -> Session \cup {NoSession}]
        /\ new \in [Thread -> 0..MaxGen] /\ c \in Thread /\ s \in Session
        /\ at \in [Gen -> Place] /\ own \in [Gen -> Session \cup {NoSession}]
        /\ gens \in Nat /\ g \in Gen
    <2>1. /\ pc \in [Thread -> Label] /\ arg \in [Thread -> Session \cup {NoSession}]
          /\ new \in [Thread -> 0..MaxGen] /\ c \in Thread
          /\ at \in [Gen -> Place] /\ own \in [Gen -> Session \cup {NoSession}]
          /\ gens \in 0..MaxGen
      BY DEF Thread, Linked, Typed, CallsOK, CallTyped, EnginesOK, EngTyped
    <2>2. s \in Session /\ gens < MaxGen
      BY <2>1 DEF Spawn, Linked, Typed, CallsOK, ArgOK
    <2> QED BY <2>1, <2>2, ConstantsAssumption DEF Gen
  <1>1. /\ gens' = g /\ at'[g] = "ops" /\ own'[g] = s
        /\ \A h \in Gen \ {g} : at'[h] = at[h] /\ own'[h] = own[h]
        /\ pc'[c] = "host" /\ new'[c] = g /\ arg' = arg
        /\ \A t \in Thread \ {c} : pc'[t] = pc[t] /\ new'[t] = new[t]
        /\ UNCHANGED <<hosted, watchers, victim, sweepAt, cur, inbox, told, jucode>>
        /\ \A h \in Gen : own[h] = s => ~HoldsLock(h)
    BY <1>0 DEF Spawn, GoTo, hubVars, sweepVars
  <1>2. \A h \in Gen : h <= gens => h # g /\ h <= g
    BY <1>0 DEF Gen
  <1>3. \A h \in Gen : h > g => h > gens
    BY <1>0 DEF Gen
  <1>4. g > gens /\ g # 0
    BY <1>0
  <1> HIDE DEF g
  <1>5. FreshOK'
    BY <1>1, <1>3 DEF Linked, FreshOK
  <1>6. RefsOK'
    <2>1. ASSUME NEW r \in Session
          PROVE  /\ hosted[r] # 0 => hosted[r] <= g /\ own'[hosted[r]] = r
                 /\ victim[r] # 0 => victim[r] <= g /\ own'[victim[r]] = r
      BY <1>1, <1>2, LinksTyped DEF Linked, RefsOK
    <2>2. ASSUME NEW t \in Thread, pc'[t] \in {"host", "shut"}
          PROVE  new'[t] # 0 /\ new'[t] <= g /\ own'[new'[t]] = arg[t]
      <3>1. CASE t = c
        BY <1>0, <1>1, <1>4, <3>1 DEF Gen
      <3>2. CASE t # c
        BY <1>1, <1>2, <2>2, <3>2, LinksTyped DEF Linked, RefsOK
      <3> QED BY <3>1, <3>2
    <2> QED BY <1>1, <2>1, <2>2 DEF Linked, RefsOK
  <1>7. HostingOK'
    <2>0. \A r \in Session : hosted[r] # g /\ victim[r] # g
      BY <1>2, <1>4, LinksTyped DEF Linked, RefsOK
    <2>1. \A t \in Thread : pc[t] \in {"host", "shut"} => new[t] # g
      BY <1>2, LinksTyped DEF Linked, RefsOK
    <2>2. ASSUME NEW t \in Thread, pc'[t] = "host"
          PROVE  Unhosted(t)' /\ Awaits(t)'
      <3>1. CASE t = c
        <4>1. Unhosted(c)'
          BY <1>0, <1>1, <2>0, <2>1 DEF Unhosted
        <4>2. Awaits(c)'
          BY <1>0, <1>1, <1>4 DEF Awaits, Linked, FreshOK, HoldsLock, Receiving, Gave
        <4> QED BY <3>1, <4>1, <4>2
      <3>2. CASE t # c
        <4>1. Unhosted(t) /\ Awaits(t) /\ new[t] # g /\ new[t] \in Gen
          BY <1>1, <2>1, <2>2, <3>2, LinksTyped DEF Linked, HostingOK
        <4>2. Unhosted(t)'
          BY <1>1, <3>2, <4>1 DEF Unhosted
        <4>3. Awaits(t)'
          BY <1>1, <3>2, <4>1 DEF Awaits, HoldsLock, Receiving, Gave
        <4> QED BY <4>2, <4>3
      <3> QED BY <3>1, <3>2
    <2> QED BY <2>2 DEF HostingOK
  <1>8. OneRuns'
    <2>1. ASSUME NEW h \in Gen, own'[h] = s, h # g
          PROVE  ~HoldsLock(h)'
      BY <1>1, <2>1 DEF HoldsLock, Receiving, Gave
    <2>2. ASSUME NEW h \in Gen, NEW k \in Gen, h # g, k # g, h # k, own'[h] = own'[k]
          PROVE  ~(HoldsLock(h)' /\ HoldsLock(k)')
      BY <1>1, <2>2 DEF Linked, OneRuns, HoldsLock, Receiving, Gave
    <2> QED BY <1>1, <2>1, <2>2 DEF OneRuns
  <1>9. ToldInSync'
    <2>1. ASSUME NEW r \in jucode, HostedRuns(r)'
          PROVE  Told(hosted[r])' <=> (watchers[r] # {})
      <3>1. hosted[r] \in Gen /\ hosted[r] # g /\ r \in Session
        BY <1>1, <1>2, <2>1, LinksTyped DEF HostedRuns, Linked, RefsOK
      <3>2. HostedRuns(r)
        BY <1>1, <2>1, <3>1 DEF HostedRuns, Receiving
      <3>3. Told(hosted[r])' <=> Told(hosted[r])
        BY <1>1 DEF Told
      <3> QED BY <3>2, <3>3 DEF Linked, ToldInSync
    <2> QED BY <1>1, <2>1 DEF ToldInSync
  <1> QED BY <1>1, <1>5, <1>6, <1>7, <1>8, <1>9 DEF Linked

\* `host` writes a running engine over one that, if it is JuCode's, has
\* let go of the session; the new one has heard nothing, and nobody watches yet.
LEMMA HostLinked ==
    ASSUME Linked, Typed', NEW c \in Client, Host(c)
    PROVE  /\ Linked'
           /\ new[c] # 0
           /\ arg[c] \in jucode /\ hosted[arg[c]] # 0 => ~HoldsLock(hosted[arg[c]])
  <1> DEFINE g == new[c]
             s == arg[c]
  <1>0. /\ c \in Thread /\ pc[c] = "host" /\ s \in Session /\ g \in Gen
        /\ own[g] = s /\ g <= gens /\ g # 0
        /\ Unhosted(c) /\ Awaits(c)
    BY LinksTyped DEF Host, Thread, Linked, HostingOK, RefsOK
  <1>1. /\ hosted'[s] = g /\ watchers'[s] = {}
        /\ \A r \in Session \ {s} : hosted'[r] = hosted[r] /\ watchers'[r] = watchers[r]
        /\ pc'[c] = "forget" /\ UNCHANGED <<arg, new>>
        /\ \A t \in Thread \ {c} : pc'[t] = pc[t]
        /\ UNCHANGED <<gens, own, at, victim, sweepAt, cur, inbox, told, jucode>>
    BY <1>0 DEF Host, GoTo, Blank, engVars, sweepVars, Linked, Typed, HubTyped, CallsOK,
                CallTyped
  <1>2. FreshOK' /\ OneRuns'
    BY <1>1 DEF Linked, FreshOK, OneRuns, HoldsLock, Receiving, Gave
  <1>3. RefsOK'
    BY <1>0, <1>1 DEF Linked, RefsOK
  <1>4. HostingOK'
    <2>1. ASSUME NEW t \in Thread, pc'[t] = "host" PROVE Unhosted(t)' /\ Awaits(t)'
      <3>1. t # c /\ pc[t] = "host" /\ Unhosted(t) /\ Awaits(t)
        BY <1>1, <2>1 DEF Linked, HostingOK
      <3>2. new[t] # g /\ arg[t] \in Session
        BY <1>0, <3>1, LinksTyped DEF Unhosted
      <3>3. Unhosted(t)'
        BY <1>1, <3>1, <3>2 DEF Unhosted
      <3>4. Awaits(t)'
        BY <1>1, <3>1 DEF Awaits, HoldsLock, Receiving, Gave
      <3> QED BY <3>3, <3>4
    <2> QED BY <2>1 DEF HostingOK
  <1>5. ToldInSync'
    <2>1. ~Told(g)'
      BY <1>0, <1>1 DEF Awaits, Told, Heard
    <2>2. ASSUME NEW r \in jucode, HostedRuns(r)', r # s
          PROVE  Told(hosted[r])' <=> (watchers'[r] # {})
      <3>1. HostedRuns(r) /\ hosted'[r] = hosted[r] /\ watchers'[r] = watchers[r]
        BY <1>1, <2>2 DEF HostedRuns, Receiving, Linked
      <3>2. Told(hosted[r])' <=> Told(hosted[r])
        BY <1>1, <3>1 DEF Told
      <3> QED BY <3>1, <3>2 DEF Linked, ToldInSync
    <2> QED BY <1>1, <2>1, <2>2 DEF ToldInSync
  <1>6. ASSUME s \in jucode, hosted[s] # 0 PROVE ~HoldsLock(hosted[s])
    <2>1. hosted[s] \in Gen /\ own[hosted[s]] = s /\ hosted[s] # g
      BY <1>0, <1>6, LinksTyped DEF Linked, RefsOK, Unhosted
    <2>2. HoldsLock(g)
      BY <1>0, <1>6 DEF Awaits
    <2> QED BY <1>0, <1>6, <2>1, <2>2 DEF Linked, OneRuns
  <1> QED BY <1>0, <1>1, <1>2, <1>3, <1>4, <1>5, <1>6 DEF Linked

\* What an engine's thread says of the map, the sweep and the other threads:
\* nothing, but for the entry it takes with it.
LEMMA EngineLeaves ==
    ASSUME NEW g \in Gen, EngineStep(g)
    PROVE  /\ UNCHANGED <<gens, own, jucode, callVars, victim, sweepAt, cur>>
           /\ ~(EndEntry(g) /\ EntryIsOwn(g)) => UNCHANGED <<hosted, watchers>>
  <1> USE DEF sweepVars, hubVars
  <1>1. CASE ReadMessage(g) \/ ReadTune(g) \/ ReadAttended(g) \/ ReadShutdown(g)
               \/ ReadKeep(g) \/ KeepOptions(g) \/ ReadQuit(g)
    BY <1>1 DEF ReadMessage, ReadTune, ReadAttended, ReadShutdown, ReadKeep,
                KeepOptions, ReadQuit
  <1>2. CASE Drained(g) \/ Disconnected(g) \/ Stops(g) \/ Tick(g) \/ SetBusy(g) \/ Touch(g)
               \/ SetHeld(g)
    BY <1>2 DEF Drained, Disconnected, Stops, Tick, SetBusy, Touch, SetHeld
  <1>3. CASE EndEntry(g) \/ EndBusy(g) \/ EndClaims(g) \/ EndTell(g)
    BY <1>3 DEF EndEntry, EndBusy, EndClaims, EndTell
  <1>4. CASE ReadExit(g) \/ TuiStep(g)
    BY <1>4 DEF ReadExit, TuiStep, RefuseTui, ReadTui, HoldForTui, IgnoreOp, TuiEnds,
                TuiStops, Reopen, ReopenFails
  <1> QED BY <1>1, <1>2, <1>3, <1>4 DEF EngineStep

\* An engine reads its next op: of being watched it knows what it would have
\* heard, and it was not about to be hosted.
LEMMA ReadLinked ==
    ASSUME Linked, Typed', NEW g \in Gen, NEW op, Took(g),
           at[g] \in {"ops", "surface"}, inbox[g] # <<>>, op = Head(inbox[g]),
           UNCHANGED <<gens, own, jucode, callVars, hosted, watchers, victim, sweepAt, cur>>,
           \/ UNCHANGED at
           \/ \E to \in {"give", "reopen"} : at' = [at EXCEPT ![g] = to]
           \/ at[g] = "ops" /\ at' = [at EXCEPT ![g] = "keep"],
           \/ op \notin {"attend", "unattend"} /\ UNCHANGED told
           \/ told' = [told EXCEPT ![g] = (op = "attend")]
              /\ op \in {"attend", "unattend"}
    PROVE  Linked'
  <1>0. /\ inbox \in [Gen -> Seq(OpName)] /\ told \in [Gen -> BOOLEAN]
        /\ at \in [Gen -> Place] /\ gens \in Nat
    BY DEF Linked, Typed, TuiOK, TuiTyped, EnginesOK, EngTyped
  <1>1. /\ inbox'[g] = Tail(inbox[g])
        /\ \A h \in Gen \ {g} : inbox'[h] = inbox[h] /\ told'[h] = told[h]
                               /\ at'[h] = at[h]
    BY <1>0 DEF Took
  <1>2. \A t \in Thread : pc[t] = "host" => new[t] # g
    BY <1>0 DEF Linked, HostingOK, Awaits
  <1>3. Handed
    BY DEF Handed, callVars, Linked, RefsOK
  <1>4. \A h \in Gen : /\ Receiving(h)' <=> Receiving(h)
                       /\ HoldsLock(h)' => HoldsLock(h)
    BY <1>0 DEF HoldsLock, Receiving, Gave
  <1>5. FreshOK'
    <2>1. ~(g > gens)
      BY <1>0 DEF Gen, Linked, Typed, EnginesOK, OwnOK
    <2> QED BY <1>1, <2>1 DEF Linked, FreshOK
  <1>6. ASSUME NEW t \in Thread, pc'[t] = "host" PROVE Awaits(t)'
    <2>1. Awaits(t) /\ new[t] # g /\ new[t] \in Gen
      BY <1>2, <1>6, LinksTyped DEF callVars, Linked, HostingOK
    <2> QED BY <1>1, <2>1 DEF Awaits, HoldsLock, Receiving, Gave, callVars
  <1>7. ToldInSync'
    <2>1. ASSUME NEW r \in jucode, HostedRuns(r)'
          PROVE  Told(hosted[r])' <=> (watchers[r] # {})
      <3>1. HostedRuns(r) /\ hosted[r] \in Gen /\ r \in Session
        BY <1>4, <2>1, LinksTyped DEF HostedRuns, Linked
      <3>2. Told(hosted[r]) <=> (watchers[r] # {})
        BY <3>1 DEF Linked, ToldInSync
      <3>3. CASE hosted[r] # g
        <4>1. Told(hosted[r])' <=> Told(hosted[r])
          BY <1>1, <3>1, <3>3, ToldIs
        <4> QED BY <3>2, <4>1
      <3>4. CASE hosted[r] = g
        <4>1. own[g] = r
          BY <3>1, <3>4 DEF Linked, RefsOK, HostedRuns
        <4>2. /\ inbox[g] \in Seq(OpName) /\ told[g] \in BOOLEAN
              /\ told'[g] \in BOOLEAN
              /\ op = "attend" => told'[g]
              /\ op = "unattend" => ~told'[g]
              /\ op \notin {"attend", "unattend"} => told'[g] = told[g]
          BY <1>0, <4>1
        <4>3. Heard(Tail(inbox[g]), told'[g]) <=> Heard(inbox[g], told[g])
          BY <1>0, <4>2, HeardOfRead
        <4>4. Told(g)' <=> Told(g)
          BY <1>1, <4>3, ToldIs
        <4> QED BY <3>2, <3>4, <4>4
      <3> QED BY <3>3, <3>4
    <2> QED BY <2>1 DEF ToldInSync
  <1> QED BY <1>3, <1>4, <1>5, <1>6, <1>7, LinkedKept

\* An engine's thread stops reading its channel.  JuCode's does not while it
\* waits to be hosted.
LEMMA ReturnLinked ==
    ASSUME Linked, Typed', NEW g \in Gen, Return(g), at[g] # "none",
           UNCHANGED <<gens, own, jucode, callVars, hosted, watchers, victim, sweepAt, cur,
                       told>>,
           \A t \in Thread : pc[t] = "host" /\ new[t] = g => arg[t] \notin jucode
    PROVE  Linked'
  <1>0. /\ inbox \in [Gen -> Seq(OpName)] /\ at \in [Gen -> Place] /\ gens \in Nat
    BY DEF Linked, Typed, EnginesOK, EngTyped
  <1>1. /\ inbox'[g] = <<>> /\ at'[g] = "end"
        /\ \A h \in Gen \ {g} : inbox'[h] = inbox[h] /\ at'[h] = at[h]
    BY <1>0 DEF Return
  <1>2. Handed
    BY DEF Handed, callVars, Linked, RefsOK
  <1>3. \A h \in Gen : /\ Receiving(h)' => h # g /\ Receiving(h)
                       /\ HoldsLock(h)' => HoldsLock(h)
    BY <1>1 DEF HoldsLock, Receiving, Gave
  <1>4. FreshOK'
    BY <1>1 DEF Linked, FreshOK
  <1>5. ASSUME NEW t \in Thread, pc'[t] = "host" PROVE Awaits(t)'
    <2>1. Awaits(t) /\ new[t] \in Gen /\ (new[t] = g => arg[t] \notin jucode)
      BY <1>5, LinksTyped DEF callVars, Linked, HostingOK
    <2>2. CASE new[t] = g
      BY <1>1, <2>1, <2>2 DEF Awaits, callVars
    <2>3. CASE new[t] # g
      BY <1>1, <2>1, <2>3 DEF Awaits, HoldsLock, Receiving, Gave, callVars
    <2> QED BY <2>2, <2>3
  <1>6. ToldInSync'
    <2>1. ASSUME NEW r \in jucode, HostedRuns(r)'
          PROVE  Told(hosted[r])' <=> (watchers[r] # {})
      <3>1. HostedRuns(r) /\ hosted[r] \in Gen /\ hosted[r] # g
        BY <1>3, <2>1, LinksTyped DEF HostedRuns, Linked
      <3>2. Told(hosted[r])' <=> Told(hosted[r])
        BY <1>1, <3>1, ToldIs
      <3> QED BY <3>1, <3>2 DEF Linked, ToldInSync
    <2> QED BY <2>1 DEF ToldInSync
  <1> QED BY <1>2, <1>3, <1>4, <1>5, <1>6, LinkedKept

\* What an engine's thread does around its session's TUI: the lock goes with
\* the conversation, and is taken again only from nobody.
LEMMA TuiLinked ==
    ASSUME Linked, Typed', NEW g \in Gen, TuiStep(g)
    PROVE  Linked'
  <1>0. UNCHANGED <<gens, own, jucode, callVars, hosted, watchers, victim, sweepAt, cur>>
    BY DEF TuiStep, RefuseTui, ReadTui, HoldForTui, IgnoreOp, TuiEnds, TuiStops, Reopen,
           ReopenFails, hubVars, sweepVars
  <1>1. at \in [Gen -> Place] /\ gens \in Nat
    BY DEF Linked, Typed, EnginesOK, EngTyped
  <1>2. CASE RefuseTui(g) \/ ReadTui(g)
    <2>1. PICK op \in {"tui", "force"} : Reads(g, op) /\ Took(g)
      BY <1>2 DEF RefuseTui, ReadTui
    <2>2. /\ UNCHANGED told
          /\ \/ UNCHANGED at
             \/ \E to \in {"give", "reopen"} : at' = [at EXCEPT ![g] = to]
      BY <1>2 DEF RefuseTui, ReadTui, Step
    <2> QED BY <1>0, <2>1, <2>2, ReadLinked DEF Reads
  <1>3. CASE HoldForTui(g)
    <2>1. at[g] = "give" /\ at' = [at EXCEPT ![g] = "surface"] /\ UNCHANGED <<inbox, told>>
      BY <1>3 DEF HoldForTui, Step
    <2>2. /\ \A h \in Gen : Receiving(h)' <=> Receiving(h)
          /\ \A h \in Gen : Gave(h)' <=> Gave(h)
          /\ \A h \in Gen : at'[h] = "keep" => at[h] = "keep"
      BY <1>1, <2>1 DEF Receiving, Gave
    <2>3. Unmoved
      BY <1>0 DEF Unmoved, callVars, Linked, RefsOK
    <2> QED BY <2>1, <2>2, <2>3, LinkedQuiet
  <1>4. CASE IgnoreOp(g)
    <2> DEFINE op == Head(inbox[g])
    <2>1. at[g] = "surface" /\ inbox[g] # <<>> /\ Took(g) /\ UNCHANGED at
      BY <1>4 DEF IgnoreOp
    <2>2. \/ op \notin {"attend", "unattend"} /\ UNCHANGED told
          \/ told' = [told EXCEPT ![g] = (op = "attend")] /\ op \in {"attend", "unattend"}
      BY <1>4 DEF IgnoreOp
    <2> QED BY <1>0, <2>1, <2>2, ReadLinked
  <1>5. CASE TuiEnds(g)
    <2>1. /\ at[g] = "surface" /\ inbox[g] # <<>> /\ Head(inbox[g]) = "exit" /\ Took(g)
          /\ at' = [at EXCEPT ![g] = "reopen"] /\ UNCHANGED told
      BY <1>5 DEF TuiEnds, Step
    <2> QED BY <1>0, <2>1, ReadLinked
  <1>6. CASE TuiStops(g) \/ ReopenFails(g)
    <2>1. Return(g) /\ at[g] \in {"surface", "reopen"} /\ UNCHANGED told
      BY <1>6 DEF TuiStops, ReopenFails
    <2>2. \A t \in Thread : pc[t] = "host" /\ new[t] = g => arg[t] \notin jucode
      BY <2>1 DEF Linked, HostingOK, Awaits, HoldsLock, Gave
    <2> QED BY <1>0, <2>1, <2>2, ReturnLinked
  <1>7. CASE Reopen(g)
    <2>1. /\ at[g] = "reopen" /\ at' = [at EXCEPT ![g] = "ops"] /\ UNCHANGED <<inbox, told>>
          /\ \A h \in Gen : own[h] = own[g] => ~HoldsLock(h)
      BY <1>7 DEF Reopen, Step
    <2>2. /\ \A h \in Gen : Receiving(h)' <=> Receiving(h)
          /\ \A h \in Gen \ {g} : HoldsLock(h)' <=> HoldsLock(h)
          /\ \A h \in Gen : HoldsLock(h) => HoldsLock(h)'
          /\ \A h \in Gen : at'[h] = "keep" => at[h] = "keep"
      BY <1>0, <1>1, <2>1 DEF HoldsLock, Receiving, Gave
    <2>3. OneRuns'
      BY <1>0, <2>1, <2>2 DEF Linked, OneRuns
    <2>4. Handed
      BY <1>0 DEF Handed, callVars, Linked, RefsOK
    <2>5. FreshOK'
      BY <1>0, <2>1 DEF Linked, FreshOK
    <2>6. ASSUME NEW t \in Thread, pc'[t] = "host" PROVE Awaits(t)'
      <3>1. Awaits(t) /\ new[t] \in Gen
        BY <1>0, <2>6, LinksTyped DEF callVars, Linked, HostingOK
      <3> QED BY <1>0, <2>1, <2>2, <3>1 DEF Awaits, callVars
    <2>7. ToldInSync'
      BY <1>0, <2>1, <2>2, LinksTyped DEF Linked, ToldInSync, HostedRuns, Told
    <2> QED BY <1>0, <2>3, <2>4, <2>5, <2>6, <2>7, LinkedKept
  <1> QED BY <1>2, <1>3, <1>4, <1>5, <1>6, <1>7 DEF TuiStep

\* What an engine's thread does.
LEMMA EngineLinked ==
    ASSUME Linked, Typed', NEW g \in Gen, EngineStep(g)
    PROVE  Linked'
  <1>0. /\ UNCHANGED <<gens, own, jucode, callVars, victim, sweepAt, cur>>
        /\ ~(EndEntry(g) /\ EntryIsOwn(g)) => UNCHANGED <<hosted, watchers>>
    BY EngineLeaves
  <1>1. at \in [Gen -> Place] /\ own[g] \in Session \cup {NoSession}
    BY DEF Linked, Typed, EnginesOK, EngTyped
  <1>2. \A t \in Thread : pc[t] = "host" /\ new[t] = g => own[g] = arg[t]
    BY DEF Linked, RefsOK
  <1>3. CASE ReadMessage(g)
    <2>1. PICK op \in {"message", "claimed"} : Reads(g, op) /\ Took(g)
      BY <1>3 DEF ReadMessage
    <2>2. UNCHANGED <<at, told, hosted, watchers>>
      BY <1>3 DEF ReadMessage, hubVars
    <2> QED BY <1>0, <2>1, <2>2, ReadLinked DEF Reads
  <1>4. CASE ReadTune(g) \/ ReadExit(g)
    <2>1. PICK op \in {"tune", "exit"} : Reads(g, op) /\ Took(g)
      BY <1>4 DEF ReadTune, ReadExit
    <2>2. UNCHANGED <<at, told, hosted, watchers>>
      BY <1>4 DEF ReadTune, ReadExit, hubVars
    <2> QED BY <1>0, <2>1, <2>2, ReadLinked DEF Reads
  <1>5. CASE ReadAttended(g)
    <2>1. PICK op \in {"attend", "unattend"} :
              /\ Reads(g, op) /\ Took(g)
              /\ told' = [told EXCEPT ![g] = (op = "attend")]
      BY <1>5 DEF ReadAttended
    <2>2. UNCHANGED <<at, hosted, watchers>>
      BY <1>5 DEF ReadAttended, hubVars
    <2> QED BY <1>0, <2>1, <2>2, ReadLinked DEF Reads
  <1>6. CASE ReadKeep(g)
    BY <1>0, <1>6, ReadLinked DEF ReadKeep, Reads, Step, hubVars
  <1>7. CASE ReadShutdown(g) \/ ReadQuit(g)
    <2>1. Return(g) /\ at[g] = "ops" /\ inbox[g] # <<>> /\ UNCHANGED <<told, hosted, watchers>>
      BY <1>7 DEF ReadShutdown, ReadQuit, Reads, hubVars
    <2>2. \A t \in Thread : pc[t] = "host" => new[t] # g
      BY <2>1 DEF Linked, HostingOK, Awaits
    <2> QED BY <1>0, <2>1, <2>2, ReturnLinked
  <1>8. CASE KeepOptions(g)
    <2>1. Return(g) /\ at[g] = "keep" /\ UNCHANGED <<told, hosted, watchers>>
      BY <1>8 DEF KeepOptions, hubVars
    <2>2. \A t \in Thread : pc[t] = "host" /\ new[t] = g => arg[t] \notin jucode
      BY <2>1 DEF Linked, HostingOK, Awaits
    <2> QED BY <1>0, <2>1, <2>2, ReturnLinked
  <1>9. CASE Disconnected(g)
    <2>1. Return(g) /\ at[g] = "ops" /\ ~HasSender(g) /\ UNCHANGED <<told, hosted, watchers>>
      BY <1>9 DEF Disconnected, hubVars
    <2>2. \A t \in Thread : pc[t] = "host" => new[t] # g
      BY <2>1 DEF HasSender
    <2> QED BY <1>0, <2>1, <2>2, ReturnLinked
  <1>10. CASE Stops(g)
    <2>1. /\ Return(g) /\ at[g] = "tick" /\ own[g] \notin jucode
          /\ UNCHANGED <<told, hosted, watchers>>
      BY <1>10 DEF Stops, hubVars
    <2> QED BY <1>0, <1>2, <2>1, ReturnLinked
  <1>11. CASE \/ Drained(g) \/ Tick(g) \/ SetBusy(g) \/ Touch(g) \/ SetHeld(g)
              \/ EndBusy(g) \/ EndClaims(g) \/ EndTell(g)
              \/ (EndEntry(g) /\ ~EntryIsOwn(g))
    <2>1. \/ at[g] \in {"ops", "tick", "mark", "touch", "held"}
             /\ (\E to \in {"ops", "tick", "mark", "touch", "held"} : at' = [at EXCEPT ![g] = to])
          \/ at[g] \in {"end", "endBusy", "endClaims", "endTell"}
             /\ (\E to \in {"endBusy", "endClaims", "endTell", "gone"} :
                    at' = [at EXCEPT ![g] = to])
      BY <1>11 DEF Step, Drained, Tick, SetBusy, Touch, SetHeld, EndBusy, EndClaims, EndTell,
                   EndEntry
    <2>2. /\ \A h \in Gen : Receiving(h)' <=> Receiving(h)
          /\ \A h \in Gen : Gave(h)' <=> Gave(h)
          /\ \A h \in Gen : at'[h] = "keep" => at[h] = "keep"
      BY <1>1, <2>1 DEF Receiving, Gave
    <2>3. UNCHANGED <<inbox, told, hosted, watchers>>
      BY <1>11 DEF Drained, Tick, SetBusy, Touch, SetHeld, EndBusy, EndClaims, EndTell,
                   EndEntry, hubVars
    <2>4. Unmoved
      BY <1>0, <2>3 DEF Unmoved, callVars, Linked, RefsOK
    <2> QED BY <2>2, <2>3, <2>4, LinkedQuiet
  <1>12. CASE EndEntry(g) /\ EntryIsOwn(g)
    <2>1. /\ own[g] \in Session /\ at[g] = "end"
          /\ hosted' = [hosted EXCEPT ![own[g]] = 0]
          /\ watchers' = [watchers EXCEPT ![own[g]] = {}]
          /\ UNCHANGED <<inbox, told>>
          /\ \E to \in {"endBusy", "gone"} : at' = [at EXCEPT ![g] = to]
      BY <1>1, <1>12 DEF EndEntry, Step, Blank, Linked, Typed, EnginesOK, OwnOK
    <2>2. /\ hosted'[own[g]] = 0
          /\ \A r \in Session \ {own[g]} : hosted'[r] = hosted[r] /\ watchers'[r] = watchers[r]
      BY <2>1 DEF Linked, Typed, HubTyped
    <2>3. Handed
      BY <1>0, <2>2 DEF Handed, callVars, Linked, RefsOK
    <2>4. /\ \A h \in Gen : Receiving(h)' <=> Receiving(h)
          /\ \A h \in Gen : HoldsLock(h)' <=> HoldsLock(h)
          /\ \A h \in Gen : at'[h] = "keep" => at[h] = "keep"
      BY <1>0, <1>1, <2>1 DEF HoldsLock, Receiving, Gave
    <2>5. FreshOK'
      BY <1>0, <2>1 DEF Linked, FreshOK
    <2>6. ASSUME NEW t \in Thread, pc'[t] = "host" PROVE Awaits(t)'
      <3>1. Awaits(t) /\ new[t] \in Gen
        BY <1>0, <2>6, LinksTyped DEF callVars, Linked, HostingOK
      <3> QED BY <1>0, <2>1, <2>4, <3>1 DEF Awaits, callVars
    <2>7. ToldInSync'
      <3>1. ASSUME NEW r \in jucode, HostedRuns(r)'
            PROVE  Told(hosted[r])' <=> (watchers'[r] # {})
        <4>1. r # own[g] /\ hosted'[r] = hosted[r] /\ watchers'[r] = watchers[r]
          BY <2>2, <3>1 DEF HostedRuns, Linked
        <4>2. hosted[r] \in Gen
          BY <3>1, <4>1, LinksTyped DEF HostedRuns, Linked
        <4>3. HostedRuns(r)
          BY <2>4, <3>1, <4>1, <4>2 DEF HostedRuns
        <4>4. Told(hosted[r])' <=> Told(hosted[r])
          BY <2>1, <4>1 DEF Told
        <4> QED BY <4>1, <4>3, <4>4 DEF Linked, ToldInSync
      <3> QED BY <1>0, <3>1 DEF ToldInSync
    <2> QED BY <1>0, <2>3, <2>4, <2>5, <2>6, <2>7, LinkedKept
  <1>13. CASE TuiStep(g)
    BY <1>13, TuiLinked
  <1> QED BY <1>3, <1>4, <1>5, <1>6, <1>7, <1>8, <1>9, <1>10, <1>11, <1>12, <1>13
          DEF EngineStep

\* What a delivery does.
LEMMA SenderLinked ==
    ASSUME Linked, Typed', NEW d \in Sender,
           SenderStep(d) \/ \E s \in Session : SendOp(d, s)
    PROVE  Linked'
  <1>0. /\ pc \in [Thread -> Label] /\ arg \in [Thread -> Session \cup {NoSession}]
        /\ new \in [Thread -> 0..MaxGen] /\ d \in Thread
    BY DEF Thread, Linked, Typed, CallsOK, CallTyped
  <1>1. /\ pc'[d] \notin {"host", "shut"}
        /\ \A t \in Thread \ {d} : pc'[t] = pc[t] /\ arg'[t] = arg[t] /\ new'[t] = new[t]
    BY <1>0 DEF SenderStep, SendOp, MarkBusy, Deliver, Unclaim, Begin, GoTo, Finish
  <1>2. UNCHANGED <<gens, own, at, told, hosted, watchers, sweepVars, jucode>>
    BY DEF SenderStep, SendOp, MarkBusy, Deliver, Unclaim, hubVars, engVars
  <1>3. Unmoved
    BY <1>1, <1>2 DEF Unmoved, sweepVars, Linked, RefsOK
  <1>4. CASE UNCHANGED inbox
    BY <1>2, <1>3, <1>4, LinkedQuiet DEF Receiving, Gave
  <1>5. CASE Deliver(d)
    <2>1. arg[d] \in Session
      BY <1>0, <1>5 DEF Deliver, Linked, Typed, CallsOK, ArgOK
    <2> QED BY <1>2, <1>3, <1>5, <2>1, LinkedForward DEF Deliver, OpName
  <1> QED BY <1>4, <1>5 DEF SenderStep, SendOp, MarkBusy, Unclaim, engVars

\* What the minute sweep does: the engines it takes out of the map get their
\* shutdown later.
LEMMA SweepLinked ==
    ASSUME Linked, Typed', SweepStep
    PROVE  Linked'
  <1>1. CASE SweepBusy \/ SweepClaims \/ SweepReason
    <2>1. UNCHANGED <<hubVars, engVars, tuiVars, callVars, victim, jucode>>
          /\ (sweepAt' = "shut" => cur' \in Session)
      BY <1>1 DEF SweepBusy, SweepClaims, SweepReason
    <2>2. Unmoved
      BY <2>1 DEF Unmoved, hubVars, engVars, callVars
    <2> QED BY <2>1, <2>2, LinkedQuiet DEF engVars, Receiving, Gave
  <1>2. CASE SweepPick
    <2>1. PICK taken \in IdleChoices :
              /\ hosted' = [s \in Session |-> IF s \in taken THEN 0 ELSE hosted[s]]
              /\ watchers' = [s \in Session |-> IF s \in taken THEN {} ELSE watchers[s]]
              /\ victim' = [s \in Session |-> IF s \in taken THEN hosted[s] ELSE 0]
              /\ sweepAt' = IF taken = {} THEN "idle" ELSE "reason"
      BY <1>2 DEF SweepPick
    <2>2. UNCHANGED <<engVars, tuiVars, callVars, jucode>>
      BY <1>2 DEF SweepPick
    <2>3. Handed
      BY <2>1, <2>2 DEF Handed, callVars
    <2>4. FreshOK' /\ \A t \in Thread : pc'[t] = "host" => Awaits(t)'
      BY <2>2 DEF engVars, callVars, Linked, FreshOK, HostingOK, Awaits, HoldsLock, Receiving, Gave
    <2>5. ToldInSync'
      <3>1. ASSUME NEW r \in jucode, HostedRuns(r)'
            PROVE  Told(hosted[r])' <=> (watchers'[r] # {})
        <4>1. hosted'[r] = hosted[r] /\ watchers'[r] = watchers[r]
          BY <2>1, <3>1 DEF HostedRuns, Linked
        <4>2. HostedRuns(r) /\ (Told(hosted[r])' <=> Told(hosted[r]))
          BY <2>2, <3>1, <4>1 DEF HostedRuns, Told, engVars, Receiving
        <4> QED BY <4>1, <4>2 DEF Linked, ToldInSync
      <3> QED BY <2>2, <3>1 DEF ToldInSync
    <2> QED BY <2>2, <2>3, <2>4, <2>5, LinkedKept DEF engVars, HoldsLock, Receiving, Gave
  <1>3. CASE SweepShut
    <2>1. /\ cur \in Session /\ SendShutdown(victim[cur], cur)
          /\ victim' = [victim EXCEPT ![cur] = 0]
          /\ UNCHANGED <<hubVars, gens, at, own, told, callVars, jucode>>
          /\ sweepAt' # "shut"
      BY <1>3 DEF SweepShut, Linked, RefsOK
    <2>2. Unmoved
      BY <2>1 DEF Unmoved, hubVars, callVars, Linked, Typed, SweepTyped
    <2>3. CASE UNCHANGED inbox
      BY <2>1, <2>2, <2>3, LinkedQuiet DEF Receiving, Gave
    <2>4. CASE victim[cur] = 0 /\ Enqueue(victim[cur], <<ShutOp(cur)>>)
      <3>1. inbox' = inbox
        BY <2>4 DEF Enqueue, Gen, Linked, Typed, EnginesOK, EngTyped
      <3> QED BY <2>1, <2>2, <3>1, LinkedQuiet DEF Receiving, Gave
    <2>5. CASE victim[cur] # 0 /\ Enqueue(victim[cur], <<ShutOp(cur)>>)
      <3>1. victim[cur] \in Gen /\ victim[cur] <= gens
        BY <2>1, <2>5, LinksTyped DEF Linked, RefsOK
      <3>2. \A t \in Thread : pc'[t] = "host" => new[t] # victim[cur]
        BY <2>1, <2>5 DEF callVars, Linked, HostingOK, Unhosted, RefsOK
      <3>3. ShutOp(cur) \in OpName \ {"attend", "unattend"}
        BY DEF ShutOp, OpName
      <3> QED BY <2>1, <2>2, <2>5, <3>1, <3>2, <3>3, LinkedSent
    <2> QED BY <2>1, <2>3, <2>4, <2>5 DEF SendShutdown
  <1> QED BY <1>1, <1>2, <1>3 DEF SweepStep

\* What a pending update does, up to the exit.
LEMMA RestartLinked ==
    ASSUME Linked, Typed', RestartStep
    PROVE  Linked'
  <1>1. CASE RestartAsk \/ RestartHoldExpires \/ RestartHeld \/ RestartBusy
    <2>1. UNCHANGED <<hubVars, engVars, tuiVars, pc, arg, new, sweepVars, jucode>>
      BY <1>1 DEF RestartAsk, RestartHoldExpires, RestartHeld, RestartBusy, callVars
    <2>2. Unmoved
      BY <2>1 DEF Unmoved, hubVars, engVars, sweepVars, Linked, RefsOK
    <2> QED BY <2>1, <2>2, LinkedQuiet DEF engVars, Receiving, Gave
  <1>2. CASE RestartExit
    <2>1. /\ \A s \in Session : hosted'[s] = 0 /\ victim'[s] = 0
          /\ \A t \in Thread : pc'[t] = "idle"
          /\ \A g \in Gen : at'[g] \in {"gone", "none"} /\ inbox'[g] = <<>>
          /\ sweepAt' = "idle" /\ UNCHANGED <<gens, own, told, jucode>>
      BY <1>2 DEF RestartExit
    <2>2. Handed
      BY <2>1 DEF Handed
    <2>3. FreshOK' /\ ToldInSync'
      BY <2>1 DEF Linked, FreshOK, ToldInSync, HostedRuns
    <2> QED BY <2>1, <2>2, <2>3, LinkedKept DEF HoldsLock, Receiving, Gave
  <1> QED BY <1>1, <1>2 DEF RestartStep

LEMMA NextLinked ==
    ASSUME Linked, [Next]_vars
    PROVE  Linked'
  <1>0. Typed'
    BY NextTyped DEF Linked
  <1>1. CASE \E c \in Client : ClientOp(c) \/ ClientStep(c)
    BY <1>0, <1>1, ClientLinked, SpawnLinked, HostLinked
  <1>2. CASE \E d \in Sender : SenderStep(d) \/ \E s \in Session : SendOp(d, s)
    BY <1>0, <1>2, SenderLinked
  <1>3. CASE \E g \in Gen : EngineStep(g)
    BY <1>0, <1>3, EngineLinked
  <1>7. ASSUME NEW g \in Gen, TuiExits(g) PROVE Linked'
    <2>1. own[g] \in Session
      BY <1>7 DEF TuiExits, Linked, Typed, TuiOK
    <2>2. UNCHANGED <<gens, own, jucode, callVars, hosted, watchers, sweepVars, at, told>>
      BY <1>7 DEF TuiExits
    <2>3. Unmoved
      BY <2>2 DEF Unmoved, callVars, sweepVars, Linked, RefsOK
    <2> QED BY <1>0, <1>7, <2>1, <2>2, <2>3, LinkedForward DEF TuiExits, OpName
  <1>4. CASE SweepStep
    BY <1>0, <1>4, SweepLinked
  <1>5. CASE RestartStep
    BY <1>0, <1>5, RestartLinked
  <1>6. CASE MinutesPass \/ UNCHANGED vars
    <2>1. UNCHANGED <<hosted, watchers, engVars, tuiVars, callVars, sweepVars, jucode>>
      BY <1>6 DEF MinutesPass, vars, hubVars
    <2>2. Unmoved
      BY <2>1 DEF Unmoved, engVars, callVars, sweepVars, Linked, RefsOK
    <2> QED BY <1>0, <2>1, <2>2, LinkedQuiet DEF engVars, Receiving, Gave
  <1> QED BY <1>1, <1>2, <1>3, <1>4, <1>5, <1>6, <1>7 DEF Next

LEMMA InitLinked == Init => Linked
  <1> SUFFICES ASSUME Init PROVE Linked
    OBVIOUS
  <1>1. Typed /\ jucode \subseteq Session
    BY InitTyped, ConstantsAssumption DEF Init
  <1>2. FreshOK /\ RefsOK /\ HostingOK
    BY DEF Init, FreshOK, RefsOK, HostingOK
  <1>3. OneRuns /\ ToldInSync
    BY <1>1 DEF Init, OneRuns, HoldsLock, ToldInSync, HostedRuns, Receiving
  <1> QED BY <1>1, <1>2, <1>3 DEF Linked

-----------------------------------------------------------------------------
(* What JuCode's engine takes itself to be *)

\* An engine that opened no TUI, or has read of being watched since, takes itself
\* for what it was last told.
HearsOK ==
    \A g \in Gen : /\ Gave(g) => g \in blind
                   /\ g > gens => ~attended[g] /\ ~told[g]
                   /\ own[g] \in jucode /\ g \notin blind => attended[g] = told[g]

Hears == Linked /\ HearsOK

\* A step that says nothing to an engine and opens no TUI.
LEMMA HearsKept ==
    ASSUME Typed, HearsOK, UNCHANGED <<gens, own, jucode, attended, told, blind>>,
           \A g \in Gen : Gave(g)' => Gave(g)
    PROVE  HearsOK'
  BY DEF HearsOK

LEMMA InitHears == Init => Hears
  BY InitLinked DEF Hears, Init, HearsOK, Gave

\* What an engine's thread does.
LEMMA EngineHears ==
    ASSUME Typed, HearsOK, NEW g \in Gen, EngineStep(g)
    PROVE  HearsOK'
  <1>0. /\ at \in [Gen -> Place] /\ attended \in [Gen -> BOOLEAN]
        /\ told \in [Gen -> BOOLEAN] /\ (at[g] # "none" => ~(g > gens))
    BY DEF Typed, EnginesOK, EngTyped, OwnOK, TuiOK, TuiTyped, Gen
  <1>1. CASE ReadAttended(g)
    <2>1. PICK op \in {"attend", "unattend"} :
              /\ attended' = [attended EXCEPT ![g] = own[g] \in jucode /\ op = "attend"]
              /\ told' = [told EXCEPT ![g] = (op = "attend")]
      BY <1>1 DEF ReadAttended
    <2>2. at[g] = "ops" /\ blind' = blind \ {g} /\ UNCHANGED <<gens, own, jucode, at>>
      BY <1>1 DEF ReadAttended, Reads
    <2> QED BY <1>0, <2>1, <2>2 DEF HearsOK, Gave
  <1>2. CASE ReadTui(g)
    <2>1. /\ blind' = blind \cup {g} /\ UNCHANGED <<gens, own, jucode, attended, told>>
          /\ \E to \in {"give", "reopen"} : at' = [at EXCEPT ![g] = to]
      BY <1>2 DEF ReadTui, Step
    <2> QED BY <1>0, <2>1 DEF HearsOK, Gave
  <1>3. CASE IgnoreOp(g)
    <2>1. /\ at[g] = "surface" /\ UNCHANGED <<gens, own, jucode, attended, blind, at>>
          /\ \A h \in Gen \ {g} : told'[h] = told[h]
      BY <1>0, <1>3 DEF IgnoreOp
    <2> QED BY <1>0, <2>1 DEF HearsOK, Gave
  <1>4. CASE Reopen(g)
    <2>1. /\ at[g] = "reopen" /\ at' = [at EXCEPT ![g] = "ops"]
          /\ attended' = [attended EXCEPT ![g] = FALSE]
          /\ UNCHANGED <<gens, own, jucode, told, blind>>
      BY <1>4 DEF Reopen, Step
    <2> QED BY <1>0, <2>1 DEF HearsOK, Gave
  <1>5. CASE HoldForTui(g) \/ TuiEnds(g)
    <2>1. /\ at[g] \in {"give", "surface"}
          /\ \E to \in {"surface", "reopen"} : at' = [at EXCEPT ![g] = to]
          /\ UNCHANGED <<gens, own, jucode, attended, told, blind>>
      BY <1>5 DEF HoldForTui, TuiEnds, Step
    <2>2. \A h \in Gen : Gave(h)' => Gave(h)
      BY <1>0, <2>1 DEF Gave
    <2> QED BY <2>1, <2>2, HearsKept
  <1>6. CASE \/ ReadShutdown(g) \/ KeepOptions(g) \/ ReadQuit(g) \/ Disconnected(g)
             \/ Stops(g) \/ TuiStops(g) \/ ReopenFails(g)
    <2>1. Return(g) /\ UNCHANGED <<gens, own, jucode, attended, told, blind>>
      BY <1>6 DEF ReadShutdown, KeepOptions, ReadQuit, Disconnected, Stops, TuiStops,
                  ReopenFails
    <2>2. \A h \in Gen : Gave(h)' => Gave(h)
      BY <1>0, <2>1 DEF Return, Gave
    <2> QED BY <2>1, <2>2, HearsKept
  <1>7. CASE ReadMessage(g) \/ ReadTune(g) \/ ReadExit(g) \/ RefuseTui(g)
    BY <1>7, HearsKept DEF ReadMessage, ReadTune, ReadExit, RefuseTui, Gave
  <1>8. CASE \/ ReadKeep(g) \/ Drained(g) \/ Tick(g) \/ SetBusy(g) \/ Touch(g) \/ SetHeld(g)
             \/ EndEntry(g) \/ EndBusy(g) \/ EndClaims(g) \/ EndTell(g)
    <2>1. /\ \E to \in {"ops", "tick", "mark", "touch", "held", "keep", "endBusy",
                         "endClaims", "endTell", "gone"} : at' = [at EXCEPT ![g] = to]
          /\ UNCHANGED <<gens, own, jucode, attended, told, blind>>
      BY <1>8 DEF ReadKeep, Drained, Tick, SetBusy, Touch, SetHeld, EndEntry, EndBusy,
                  EndClaims, EndTell, Step
    <2>2. \A h \in Gen : Gave(h)' => Gave(h)
      BY <1>0, <2>1 DEF Gave
    <2> QED BY <2>1, <2>2, HearsKept
  <1> QED BY <1>1, <1>2, <1>3, <1>4, <1>5, <1>6, <1>7, <1>8 DEF EngineStep, TuiStep

LEMMA NextHears ==
    ASSUME Hears, [Next]_vars
    PROVE  Hears'
  <1>0. Linked' /\ Typed /\ HearsOK
    BY NextLinked DEF Hears, Linked
  <1>1. ASSUME NEW c \in Client, Spawn(c) PROVE HearsOK'
    <2> DEFINE g == gens + 1
    <2>1. /\ gens' = g /\ gens \in Nat /\ g \in Gen
          /\ at' = [at EXCEPT ![g] = "ops"] /\ own' = [own EXCEPT ![g] = arg[c]]
          /\ UNCHANGED <<attended, told, blind, jucode>>
      BY <1>0, <1>1, ConstantsAssumption DEF Spawn, Typed, EnginesOK, EngTyped, Gen
    <2>2. \A h \in Gen : h > g => h > gens
      BY <2>1 DEF Gen
    <2>3. g > gens
      BY <2>1
    <2>9. ~(g > g)
      BY <2>1
    <2> HIDE DEF g
    <2>4. \A h \in Gen \ {g} : own'[h] = own[h] /\ (Gave(h)' => Gave(h))
      BY <1>0, <2>1 DEF Typed, EnginesOK, EngTyped, Gave
    <2>5. at'[g] = "ops" /\ ~attended[g] /\ ~told[g]
      BY <1>0, <2>1, <2>3 DEF Typed, EnginesOK, EngTyped, HearsOK
    <2>6. attended[g] = told[g]
      BY <1>0, <2>1, <2>5 DEF Typed, EnginesOK, EngTyped, TuiOK, TuiTyped
    <2>7. ASSUME NEW h \in Gen \ {g}
          PROVE  /\ Gave(h)' => h \in blind
                 /\ h > g => ~attended[h] /\ ~told[h]
                 /\ own'[h] \in jucode /\ h \notin blind => attended[h] = told[h]
      BY <1>0, <2>2, <2>4, <2>7 DEF HearsOK
    <2>8. \A h \in Gen : h = g => ~(at'[h] \in {"give", "surface", "reopen"}) /\ ~(h > g)
      BY <2>5, <2>9
    <2>10. /\ \A h \in Gen : Gave(h)' => h \in blind
           /\ \A h \in Gen : h > g => ~attended[h] /\ ~told[h]
           /\ \A h \in Gen : own'[h] \in jucode /\ h \notin blind => attended[h] = told[h]
      BY <2>6, <2>7, <2>8 DEF Gave
    <2> QED BY <2>1, <2>10 DEF HearsOK
  <1>2. ASSUME NEW c \in Client, ClientOp(c) \/ ClientStep(c), ~Spawn(c) PROVE HearsOK'
    <2>1. UNCHANGED <<gens, own, at, jucode, attended, told, blind>>
      BY <1>2 DEF ClientOp, ClientStep, OpenOp, DecideOp, MessageOp, TuneOp, CloseOp, WatchOp,
                  TuiOp, Disconnect, Reconnect, WakeAsleep, Lookup, TakeOptions, SpawnFails,
                  OpenFails, Host, Forget, WakeWatch, ForwardMessage, Shut, Unwatch, engVars
    <2> QED BY <1>0, <2>1, HearsKept DEF Gave
  <1>3. CASE \E d \in Sender : SenderStep(d) \/ \E s \in Session : SendOp(d, s)
    <2>1. UNCHANGED <<gens, own, at, jucode, attended, told, blind>>
      BY <1>3 DEF SenderStep, SendOp, MarkBusy, Deliver, Unclaim, engVars
    <2> QED BY <1>0, <2>1, HearsKept DEF Gave, Hears
  <1>4. CASE \E g \in Gen : EngineStep(g) \/ TuiExits(g)
    <2>1. ASSUME NEW g \in Gen, TuiExits(g) PROVE HearsOK'
      <3>1. UNCHANGED <<gens, own, at, jucode, attended, told, blind>>
        BY <2>1 DEF TuiExits
      <3> QED BY <1>0, <3>1, HearsKept DEF Gave
    <2> QED BY <1>0, <1>4, <2>1, EngineHears DEF Hears
  <1>5. CASE SweepStep \/ MinutesPass \/ UNCHANGED vars
    <2>1. UNCHANGED <<gens, own, at, jucode, attended, told, blind>>
      BY <1>5 DEF SweepStep, SweepBusy, SweepClaims, SweepPick, SweepReason, SweepShut,
                  MinutesPass, vars, engVars
    <2> QED BY <1>0, <2>1, HearsKept DEF Gave, Hears
  <1>6. CASE RestartStep
    <2>1. CASE RestartExit
      <3>1. /\ UNCHANGED <<gens, own, jucode, attended, told, blind>>
            /\ \A g \in Gen : ~Gave(g)'
        BY <2>1 DEF RestartExit, Gave
      <3> QED BY <1>0, <3>1, HearsKept DEF Hears
    <2>2. CASE ~RestartExit
      <3>1. UNCHANGED <<gens, own, at, jucode, attended, told, blind>>
        BY <1>6, <2>2 DEF RestartStep, RestartAsk, RestartHoldExpires, RestartHeld,
                          RestartBusy, engVars
      <3> QED BY <1>0, <3>1, HearsKept DEF Gave, Hears
    <2> QED BY <2>1, <2>2
  <1> QED BY <1>0, <1>1, <1>2, <1>3, <1>4, <1>5, <1>6 DEF Next, Hears

\* What JuCode's engine takes itself to be, or is told in its channel, is
\* whether its session has a watcher, for every interleaving of watches,
\* disconnects, wakes, closes and sweeps with the engine's reading: the change
\* is sent under the lock that makes it (set_watch).  Not so from the time a
\* session's TUI opens to the next word the engine reads once it is back, which
\* the formula leaves out.
THEOREM StaysInSync == Spec => []AttendedInSync
  <1>1. ASSUME Hears, NEW s \in jucode, HostedRuns(s), hosted[s] \notin blind
        PROVE  LastHeard(hosted[s]) <=> watchers[s] # {}
    <2>1. hosted[s] \in Gen /\ own[hosted[s]] = s /\ (Told(hosted[s]) <=> watchers[s] # {})
      BY <1>1, LinksTyped DEF Hears, Linked, RefsOK, ToldInSync, HostedRuns
    <2>2. attended[hosted[s]] = told[hosted[s]]
      BY <1>1, <2>1 DEF Hears, HearsOK
    <2>3. LastHeard(hosted[s]) <=> Told(hosted[s])
      BY <2>2 DEF LastHeard, Told, Heard
    <2> QED BY <2>1, <2>3
  <1>2. Hears => AttendedInSync
    BY <1>1 DEF AttendedInSync
  <1> QED BY <1>2, InitHears, NextHears, PTL DEF Spec

\* How an entry of the map can change.
LEMMA EntryChanges ==
    ASSUME Linked, [Next]_vars, NEW s \in Session, hosted'[s] # hosted[s]
    PROVE  \/ \E c \in Client : Host(c) /\ arg[c] = s /\ hosted'[s] = new[c]
           \/ /\ hosted'[s] = 0
              /\ \/ victim'[s] = hosted[s]
                 \/ \E c \in Client : pc'[c] = "shut" /\ new'[c] = hosted[s]
                 \/ at[hosted[s]] = "end"
                 \/ restart = "announced"
  <1>0. /\ pc \in [Thread -> Label] /\ new \in [Thread -> 0..MaxGen]
        /\ hosted \in [Session -> 0..MaxGen]
    BY DEF Linked, Typed, CallsOK, CallTyped, HubTyped
  <1>1. ASSUME NEW c \in Client, Host(c)
        PROVE  arg[c] = s /\ hosted'[s] = new[c]
    BY <1>0, <1>1 DEF Host
  <1>2. ASSUME NEW c \in Client, NEW r \in Session, CloseOp(c, r)
        PROVE  hosted'[s] = 0 /\ pc'[c] = "shut" /\ new'[c] = hosted[s]
    BY <1>0, <1>2 DEF CloseOp, Begin, Thread
  <1>3. ASSUME NEW c \in Client, ClientOp(c) \/ ClientStep(c)
        PROVE  Host(c) \/ \E r \in Session : CloseOp(c, r)
    <2>1. ASSUME \/ \E r \in Session : \/ OpenOp(c, r) \/ DecideOp(c, r) \/ MessageOp(c, r)
                                       \/ TuneOp(c, r)
                                       \/ \E watch \in BOOLEAN : WatchOp(c, r, watch)
                                       \/ \E force \in BOOLEAN : TuiOp(c, r, force)
                 \/ Disconnect(c) \/ Reconnect(c)
          PROVE  FALSE
      BY <2>1 DEF OpenOp, DecideOp, MessageOp, TuneOp, WatchOp, TuiOp, Disconnect, Reconnect, hubVars
    <2>2. ASSUME \/ WakeAsleep(c) \/ Lookup(c) \/ TakeOptions(c) \/ Spawn(c) \/ SpawnFails(c)
                 \/ OpenFails(c) \/ Forget(c) \/ WakeWatch(c) \/ ForwardMessage(c) \/ Shut(c) \/ Unwatch(c)
          PROVE  FALSE
      BY <2>2 DEF WakeAsleep, Lookup, TakeOptions, Spawn, SpawnFails, OpenFails, Forget, WakeWatch,
                  ForwardMessage, Shut, Unwatch, hubVars
    <2> QED BY <1>3, <2>1, <2>2 DEF ClientOp, ClientStep
  <1>4. ASSUME NEW d \in Sender, SenderStep(d) \/ \E r \in Session : SendOp(d, r)
        PROVE  FALSE
    BY <1>4 DEF SenderStep, SendOp, MarkBusy, Deliver, Unclaim, hubVars
  <1>5. ASSUME NEW g \in Gen, EngineStep(g)
        PROVE  hosted'[s] = 0 /\ at[hosted[s]] = "end"
    <2>1. EndEntry(g) /\ EntryIsOwn(g)
      BY <1>5, EngineLeaves
    <2> QED BY <1>0, <2>1 DEF EndEntry, Step, EntryIsOwn
  <1>12. ASSUME NEW g \in Gen, TuiExits(g)
         PROVE  FALSE
    BY <1>12 DEF TuiExits
  <1>6. ASSUME SweepStep
        PROVE  hosted'[s] = 0 /\ victim'[s] = hosted[s]
    <2>1. SweepPick
      BY <1>6 DEF SweepStep, SweepBusy, SweepClaims, SweepReason, SweepShut, hubVars
    <2> QED BY <2>1 DEF SweepPick
  <1>7. ASSUME RestartStep
        PROVE  hosted'[s] = 0 /\ restart = "announced"
    BY <1>7 DEF RestartStep, RestartAsk, RestartHoldExpires, RestartHeld, RestartBusy,
                RestartExit, hubVars
  <1>8. ASSUME MinutesPass \/ UNCHANGED vars
        PROVE  FALSE
    BY <1>8 DEF MinutesPass, vars, hubVars
  <1>9. CASE \E c \in Client : ClientOp(c) \/ ClientStep(c)
    BY <1>1, <1>2, <1>3, <1>9
  <1>10. CASE \E d \in Sender : SenderStep(d) \/ \E r \in Session : SendOp(d, r)
    BY <1>4, <1>10
  <1>11. CASE \E g \in Gen : EngineStep(g) \/ TuiExits(g)
    BY <1>5, <1>11, <1>12
  <1> QED BY <1>6, <1>7, <1>8, <1>9, <1>10, <1>11 DEF Next

\* However many opens race, an entry of a session on JuCode's engine is written
\* over only when the engine behind it has let go of the session, at its end or
\* to its TUI: one of them has the session's lock, and that is the one about to
\* be hosted (host, spawn).
THEOREM SuccessionIsLocked == Spec => LockedSuccession
  <1>1. ASSUME Linked, [Next]_vars, NEW s \in jucode,
               hosted[s] # 0, hosted'[s] \notin {0, hosted[s]}
        PROVE  ~HoldsLock(hosted[s])
    <2>1. s \in Session /\ Typed'
      BY <1>1, NextTyped DEF Linked
    <2>2. PICK c \in Client : Host(c) /\ arg[c] = s
      BY <1>1, <2>1, EntryChanges
    <2> QED BY <1>1, <2>1, <2>2, HostLinked
  <1>2. Linked /\ [Next]_vars =>
            [\A s \in jucode : (hosted[s] # 0 /\ hosted'[s] \notin {0, hosted[s]})
                                  => ~HoldsLock(hosted[s])]_vars
    BY <1>1
  <1> QED BY <1>2, InitLinked, NextLinked, PTL DEF Spec, LockedSuccession

\* An entry goes only with the generation it was of, however many engines of
\* the session end meanwhile: the end of an older one leaves it (session_ended),
\* and an open only ever writes a started engine there (host).
THEOREM OwnEndUnhosts == Spec => OnlyOwnEndUnhosts
  <1>1. ASSUME Linked, [Next]_vars, NEW s \in Session, hosted[s] # 0, hosted'[s] = 0
        PROVE  \/ victim'[s] = hosted[s]
               \/ \E c \in Client : pc'[c] = "shut" /\ new'[c] = hosted[s]
               \/ at[hosted[s]] = "end"
               \/ restart = "announced"
    <2>1. ASSUME NEW c \in Client, Host(c) PROVE new[c] # 0
      BY <1>1, <2>1, HostLinked, NextTyped DEF Linked
    <2> QED BY <1>1, <2>1, EntryChanges
  <1>2. Linked /\ [Next]_vars =>
            [\A s \in Session : (hosted[s] # 0 /\ hosted'[s] = 0) =>
                \/ victim'[s] = hosted[s]
                \/ \E c \in Client : pc'[c] = "shut" /\ new'[c] = hosted[s]
                \/ at[hosted[s]] = "end"
                \/ restart = "announced"]_vars
    BY <1>1
  <1> QED BY <1>2, InitLinked, NextLinked, PTL DEF Spec, OnlyOwnEndUnhosts

-----------------------------------------------------------------------------
(* What the sweep takes is at rest *)

NoMessage(q) == \A i \in 1..Len(q) : ~IsMessage(q[i])

\* An engine that has not started, or whose `run` has returned, has nothing, and
\* none works while a TUI has its conversation.
Still(g) ==
    /\ ~Receiving(g) => ~turn[g] /\ ~bg[g] /\ inbox[g] = <<>>
    /\ Gave(g) => ~turn[g] /\ ~bg[g]

DeadOK == \A g \in Gen : Still(g)

\* The age is an entry's.
AbsentOK == \A s \in Session : hosted[s] = 0 => age[s] = 0

\* A session that a thread is opening has not been left alone.
OpenersOK == \A t \in Thread : pc[t] \in {"options", "spawn", "host"} => age[arg[t]] = 0

\* A sweep that is under way leaves s out, and so will the next.
Spares(s) == s \in busy /\ (sweepAt \in {"claims", "pick"} => s \in spared)

\* A session that was left alone for minutes, and since: its engine is the only
\* one it has, nobody has sent it a message, and a turn it runs has been going
\* on since then, or began when background work ended, which shows in `held`
\* until the session is active again.
Rested(s) ==
    age[s] # 0 =>
        /\ at[hosted[s]] \notin {"endBusy", "endClaims", "endTell"}
        /\ \A h \in Gen : own[h] = s /\ h # hosted[s] => at[h] \in {"none", "gone"}
        /\ NoMessage(inbox[hosted[s]])
        /\ at[hosted[s]] = "mark" /\ turn[hosted[s]] => mark[hosted[s]]
        /\ ~held[s] => /\ bg[hosted[s]] => at[hosted[s]] \in {"mark", "touch", "held"}
                       /\ turn[hosted[s]] => Spares(s)

Restful ==
    /\ Linked /\ DeadOK /\ AbsentOK /\ OpenersOK
    /\ \A s \in Session : Rested(s)

\* A step that makes s active, or leaves it and its engines as they are.
Undisturbed(s) ==
    age'[s] # 0 =>
        /\ age[s] # 0 /\ hosted'[s] = hosted[s] /\ held'[s] = held[s]
        /\ at'[hosted[s]] = at[hosted[s]] /\ mark'[hosted[s]] = mark[hosted[s]]
        /\ turn'[hosted[s]] = turn[hosted[s]] /\ bg'[hosted[s]] = bg[hosted[s]]
        /\ NoMessage(inbox[hosted[s]]) => NoMessage(inbox'[hosted[s]])
        /\ \A h \in Gen : own'[h] = s => own[h] = s /\ at'[h] = at[h]
        /\ Spares(s) => Spares(s)'

LEMMA UndisturbedRests ==
    ASSUME NEW s \in Session, Rested(s), Undisturbed(s)
    PROVE  Rested(s)'
<1> SUFFICES ASSUME age'[s] # 0
             PROVE  Rested(s)'
  BY DEF Rested
<1>1. /\ age[s] # 0 /\ hosted'[s] = hosted[s] /\ held'[s] = held[s]
      /\ at'[hosted[s]] = at[hosted[s]] /\ mark'[hosted[s]] = mark[hosted[s]]
      /\ turn'[hosted[s]] = turn[hosted[s]] /\ bg'[hosted[s]] = bg[hosted[s]]
      /\ NoMessage(inbox[hosted[s]]) => NoMessage(inbox'[hosted[s]])
      /\ \A h \in Gen : own'[h] = s => own[h] = s /\ at'[h] = at[h]
      /\ Spares(s) => Spares(s)'
  BY DEF Undisturbed
<1> QED BY <1>1 DEF Rested

\* What the channel of an engine at rest takes without a message.
LEMMA SentNoMessage ==
    ASSUME NEW q \in Seq(OpName), NEW op \in OpName, ~IsMessage(op), NoMessage(q)
    PROVE  NoMessage(q \o <<op>>)
<1> SUFFICES ASSUME NEW i \in 1..Len(q \o <<op>>) PROVE ~IsMessage((q \o <<op>>)[i])
  BY DEF NoMessage
<1>1. CASE i \in 1..Len(q)
  <2>1. (q \o <<op>>)[i] = q[i] BY <1>1
  <2> QED BY <1>1, <2>1 DEF NoMessage
<1>2. CASE i \notin 1..Len(q)
  <2>1. (q \o <<op>>)[i] = op BY <1>2
  <2> QED BY <2>1
<1> QED BY <1>1, <1>2

LEMMA ReadNoMessage ==
    ASSUME NEW q \in Seq(OpName), q # <<>>, NoMessage(q)
    PROVE  NoMessage(Tail(q)) /\ ~IsMessage(Head(q))
<1>1. ASSUME NEW i \in 1..Len(Tail(q)) PROVE ~IsMessage(Tail(q)[i])
  <2>1. i + 1 \in 1..Len(q) /\ Tail(q)[i] = q[i + 1] BY <1>1
  <2> QED BY <2>1 DEF NoMessage
<1>2. 1 \in 1..Len(q) /\ Head(q) = q[1] OBVIOUS
<1> QED BY <1>1, <1>2 DEF NoMessage

LEMMA InitRestful == Init => Restful
<1> SUFFICES ASSUME Init PROVE Restful OBVIOUS
<1>1. Linked BY InitLinked
<1>2. DeadOK /\ AbsentOK BY DEF Init, DeadOK, Still, Gave, AbsentOK
<1>3. OpenersOK BY DEF Init, OpenersOK
<1>4. \A s \in Session : Rested(s) BY DEF Init, Rested
<1> QED BY <1>1, <1>2, <1>3, <1>4 DEF Restful

\* The engine of an entry, and a thread that opens, serve a session.
LEMMA RestTypes ==
    ASSUME Restful
    PROVE  /\ \A s \in Session : hosted[s] # 0 =>
                 hosted[s] \in Gen /\ hosted[s] <= gens /\ own[hosted[s]] = s
           /\ inbox \in [Gen -> Seq(OpName)] /\ at \in [Gen -> Place]
           /\ turn \in [Gen -> BOOLEAN] /\ bg \in [Gen -> BOOLEAN] /\ mark \in [Gen -> BOOLEAN]
           /\ own \in [Gen -> Session \cup {NoSession}] /\ gens \in 0..MaxGen
           /\ age \in [Session -> 0..2] /\ held \in [Session -> BOOLEAN]
           /\ hosted \in [Session -> 0..MaxGen]
           /\ pc \in [Thread -> Label] /\ arg \in [Thread -> Session \cup {NoSession}]
           /\ \A g \in Gen : at[g] # "none" => g <= gens /\ own[g] \in Session
           /\ \A t \in Thread : pc[t] \notin {"idle", "unwatch"} => arg[t] \in Session
BY LinksTyped DEF Restful, Linked, RefsOK, Typed, HubTyped, EnginesOK, EngTyped, OwnOK, CallsOK,
   CallTyped, ArgOK

\* An engine at work for a session that was left alone is the hosted one.
LEMMA RestIsHosted ==
    ASSUME Restful, NEW s \in Session, age[s] # 0
    PROVE  /\ hosted[s] # 0 /\ hosted[s] \in Gen /\ own[hosted[s]] = s
           /\ \A h \in Gen : own[h] = s /\ at[h] \notin {"none", "gone"} => h = hosted[s]
BY RestTypes DEF Restful, AbsentOK, Rested

-----------------------------------------------------------------------------
(* The threads of clients and deliveries *)

\* A step of a thread: it makes a session active, or sends its engine no message;
\* and it only comes to open one that has no entry.
LEMMA ThreadRests ==
    ASSUME Restful, Linked', UNCHANGED <<gens, at, own, turn, bg, mark, sweepAt, spared>>,
           busy \subseteq busy',
           \A s \in Session : age'[s] # 0 =>
               /\ age'[s] = age[s] /\ hosted'[s] = hosted[s] /\ held'[s] = held[s]
               /\ NoMessage(inbox[hosted[s]]) => NoMessage(inbox'[hosted[s]]),
           \A g \in Gen : ~Receiving(g) => inbox'[g] = inbox[g],
           \A t \in Thread : pc'[t] \in {"options", "spawn", "host"} => age'[arg'[t]] = 0
    PROVE  Restful'
<1>1. DeadOK' BY DEF Restful, DeadOK, Still, Gave, Receiving
<1>2. AbsentOK' BY DEF Restful, AbsentOK
<1>3. OpenersOK' BY DEF OpenersOK
<1>4. ASSUME NEW s \in Session PROVE Rested(s)'
  <2>1. Spares(s) => Spares(s)' BY DEF Spares
  <2>2. Undisturbed(s) BY <2>1 DEF Undisturbed
  <2> QED BY <2>2, UndisturbedRests DEF Restful
<1> QED BY <1>1, <1>2, <1>3, <1>4 DEF Restful

\* One that leaves the channels and the entries alone.
LEMMA ThreadIdles ==
    ASSUME Restful, Linked', UNCHANGED <<hubVars, engVars, sweepVars>>,
           busy \subseteq busy',
           \A t \in Thread : pc'[t] \in {"options", "spawn", "host"} => age'[arg'[t]] = 0
    PROVE  Restful'
BY ThreadRests DEF hubVars, engVars, sweepVars

\* An op sent to the engine of g, while its thread runs.
LEMMA SendKeeps ==
    ASSUME Restful, NEW g \in Gen, NEW op \in OpName,
           UNCHANGED inbox \/ (Receiving(g) /\ Enqueue(g, <<op>>))
    PROVE  /\ \A h \in Gen : h # g \/ ~IsMessage(op) =>
                 (NoMessage(inbox[h]) => NoMessage(inbox'[h]))
           /\ \A h \in Gen : ~Receiving(h) => inbox'[h] = inbox[h]
<1>1. inbox \in [Gen -> Seq(OpName)] BY RestTypes
<1>2. CASE UNCHANGED inbox BY <1>2
<1>3. CASE Receiving(g) /\ Enqueue(g, <<op>>)
  <2>1. inbox'[g] = inbox[g] \o <<op>> /\ \A h \in Gen : h # g => inbox'[h] = inbox[h]
    BY <1>1, <1>3 DEF Enqueue
  <2>2. inbox[g] \in Seq(OpName) BY <1>1
  <2>3. ~IsMessage(op) /\ NoMessage(inbox[g]) => NoMessage(inbox'[g])
    BY <2>1, <2>2, SentNoMessage
  <2>4. \A h \in Gen : ~Receiving(h) => h # g BY <1>3
  <2> QED BY <2>1, <2>3, <2>4
<1> QED BY <1>2, <1>3

\* `forward` makes its session active; no other has that engine.
LEMMA ForwardRests ==
    ASSUME Restful, NEW s \in Session, NEW op \in OpName, Forward(s, op)
    PROVE  /\ \A r \in Session : age'[r] # 0 =>
                 /\ age'[r] = age[r]
                 /\ NoMessage(inbox[hosted[r]]) => NoMessage(inbox'[hosted[r]])
           /\ \A g \in Gen : ~Receiving(g) => inbox'[g] = inbox[g]
           /\ \A r \in Session : age[r] = 0 => age'[r] = 0
<1>0. age \in [Session -> 0..2] BY RestTypes
<1>1. CASE hosted[s] = 0
  BY <1>1 DEF Forward
<1>2. CASE hosted[s] # 0
  <2> DEFINE g == hosted[s]
  <2>1. g \in Gen /\ own[g] = s BY <1>2, RestTypes
  <2>2. /\ age' = [age EXCEPT ![s] = 0]
        /\ UNCHANGED inbox \/ (Receiving(g) /\ Enqueue(g, <<op>>))
    BY <1>2 DEF Forward
  <2>3. /\ \A h \in Gen : h # g => (NoMessage(inbox[h]) => NoMessage(inbox'[h]))
        /\ \A h \in Gen : ~Receiving(h) => inbox'[h] = inbox[h]
    <3> HIDE DEF g
    <3> QED BY <2>1, <2>2, SendKeeps
  <2>4. ASSUME NEW r \in Session, age'[r] # 0
        PROVE  age'[r] = age[r] /\ hosted[r] \in Gen /\ hosted[r] # g
    <3>1. r # s /\ age'[r] = age[r] BY <1>0, <2>2, <2>4
    <3>2. hosted[r] \in Gen /\ own[hosted[r]] = r BY <2>4, <3>1, RestIsHosted
    <3> QED BY <2>1, <3>1, <3>2
  <2>5. \A r \in Session : age[r] = 0 => age'[r] = 0 BY <1>0, <2>2
  <2> QED BY <2>3, <2>4, <2>5
<1> QED BY <1>1, <1>2

\* `set_watch` sends no message.
LEMMA WatchRests ==
    ASSUME Restful, NEW c \in Client, NEW s \in Session, NEW watch \in BOOLEAN,
           SetWatch(c, s, watch)
    PROVE  /\ \A r \in Session : age'[r] # 0 =>
                 /\ age'[r] = age[r]
                 /\ NoMessage(inbox[hosted[r]]) => NoMessage(inbox'[hosted[r]])
           /\ \A g \in Gen : ~Receiving(g) => inbox'[g] = inbox[g]
           /\ \A r \in Session : age[r] = 0 => age'[r] = 0
<1>0. age \in [Session -> 0..2] BY RestTypes
<1>1. CASE hosted[s] = 0
  BY <1>1 DEF SetWatch
<1>2. CASE hosted[s] # 0
  <2> DEFINE g == hosted[s]
             op == IF watch THEN "attend" ELSE "unattend"
  <2>1. g \in Gen /\ op \in OpName /\ ~IsMessage(op) BY <1>2, RestTypes DEF OpName, IsMessage
  <2>2. /\ age' = [age EXCEPT ![s] = 0] \/ age' = age
        /\ UNCHANGED inbox \/ (Receiving(g) /\ Enqueue(g, <<op>>))
    BY <1>2 DEF SetWatch
  <2>3. /\ \A h \in Gen : NoMessage(inbox[h]) => NoMessage(inbox'[h])
        /\ \A h \in Gen : ~Receiving(h) => inbox'[h] = inbox[h]
    <3> HIDE DEF g, op
    <3> QED BY <2>1, <2>2, SendKeeps
  <2>4. ASSUME NEW r \in Session, age'[r] # 0
        PROVE  age'[r] = age[r] /\ hosted[r] \in Gen
    <3>1. age'[r] = age[r] BY <1>0, <2>2, <2>4
    <3> QED BY <2>4, <3>1, RestIsHosted
  <2>5. \A r \in Session : age[r] = 0 => age'[r] = 0 BY <1>0, <2>2
  <2> QED BY <2>3, <2>4, <2>5
<1> QED BY <1>1, <1>2

\* A thread that has opened its session goes on to use it.
LEMMA OpenedOpens ==
    ASSUME Restful, NEW c \in Thread, Opened(c)
    PROVE  /\ pc'[c] \notin {"options", "spawn", "host"}
           /\ \A t \in Thread : t # c => pc'[t] = pc[t] /\ arg'[t] = arg[t]
<1>1. /\ pc \in [Thread -> Label] /\ arg \in [Thread -> Session \cup {NoSession}]
      /\ after \in [Thread -> {"reply", "watch", "forward"}]
  BY DEF Restful, Linked, Typed, CallsOK, CallTyped
<1>2. CASE after[c] = "reply" BY <1>1, <1>2 DEF Opened, Finish
<1>3. CASE after[c] = "watch" BY <1>1, <1>3 DEF Opened, GoTo
<1>4. CASE after[c] = "forward" BY <1>1, <1>4 DEF Opened, GoTo
<1> QED BY <1>1, <1>2, <1>3, <1>4

\* The other threads still open what they opened.
LEMMA OthersOpen ==
    ASSUME Restful, NEW c \in Thread,
           pc'[c] \in {"options", "spawn", "host"} => age'[arg'[c]] = 0,
           \A t \in Thread : t # c => pc'[t] = pc[t] /\ arg'[t] = arg[t],
           \A r \in Session : age[r] = 0 => age'[r] = 0
    PROVE  \A t \in Thread : pc'[t] \in {"options", "spawn", "host"} => age'[arg'[t]] = 0
<1>1. ASSUME NEW t \in Thread, t # c, pc'[t] \in {"options", "spawn", "host"}
      PROVE  age'[arg'[t]] = 0
  <2>1. pc[t] \in {"options", "spawn", "host"} /\ arg'[t] = arg[t] BY <1>1
  <2>2. age[arg[t]] = 0 /\ arg[t] \in Session BY <2>1, RestTypes DEF Restful, OpenersOK
  <2> QED BY <2>1, <2>2
<1> QED BY <1>1

LEMMA ClientRests ==
    ASSUME Restful, Linked', NEW c \in Client, ClientOp(c) \/ ClientStep(c), ~Spawn(c)
    PROVE  Restful'
<1>0. /\ pc \in [Thread -> Label] /\ arg \in [Thread -> Session \cup {NoSession}]
      /\ c \in Thread /\ hosted \in [Session -> 0..MaxGen] /\ age \in [Session -> 0..2]
      /\ held \in [Session -> BOOLEAN]
  BY RestTypes DEF Thread
<1>1. ASSUME NEW s \in Session, OpenOp(c, s) \/ DecideOp(c, s) \/ MessageOp(c, s)
      PROVE  Restful'
  <2>1. /\ pc'[c] \notin {"options", "spawn", "host"}
        /\ \A t \in Thread : t # c => pc'[t] = pc[t] /\ arg'[t] = arg[t]
    BY <1>0, <1>1 DEF OpenOp, DecideOp, MessageOp, Begin
  <2>2. UNCHANGED <<hubVars, setVars, engVars, sweepVars>>
    BY <1>1 DEF OpenOp, DecideOp, MessageOp
  <2>3. \A t \in Thread : pc'[t] \in {"options", "spawn", "host"} => age'[arg'[t]] = 0
    BY <1>0, <2>1, <2>2, OthersOpen DEF hubVars
  <2> QED BY <2>2, <2>3, ThreadIdles DEF setVars
<1>2. ASSUME WakeAsleep(c) \/ TakeOptions(c) \/ SpawnFails(c) \/ OpenFails(c) PROVE Restful'
  <2>1. UNCHANGED <<hubVars, setVars, engVars, sweepVars>>
    BY <1>2 DEF WakeAsleep, TakeOptions, SpawnFails, OpenFails
  <2>2. /\ \/ pc'[c] \notin {"options", "spawn", "host"}
           \/ pc[c] = "options" /\ arg'[c] = arg[c]
        /\ \A t \in Thread : t # c => pc'[t] = pc[t] /\ arg'[t] = arg[t]
    BY <1>0, <1>2 DEF WakeAsleep, TakeOptions, SpawnFails, OpenFails, GoTo, Finish
  <2>3. pc'[c] \in {"options", "spawn", "host"} => age'[arg'[c]] = 0
    BY <1>0, <2>1, <2>2 DEF hubVars, Restful, OpenersOK
  <2>4. \A t \in Thread : pc'[t] \in {"options", "spawn", "host"} => age'[arg'[t]] = 0
    BY <1>0, <2>1, <2>2, <2>3, OthersOpen DEF hubVars
  <2> QED BY <2>1, <2>4, ThreadIdles DEF setVars
<1>3. ASSUME Lookup(c) PROVE Restful'
  <2>1. UNCHANGED <<hubVars, setVars, engVars, sweepVars>> /\ arg[c] \in Session
    BY <1>0, <1>3, RestTypes DEF Lookup
  <2>2. CASE hosted[arg[c]] # 0
    <3>1. Opened(c) BY <1>3, <2>2 DEF Lookup
    <3>2. \A t \in Thread : pc'[t] \in {"options", "spawn", "host"} => age'[arg'[t]] = 0
      BY <1>0, <2>1, <3>1, OpenedOpens, OthersOpen DEF hubVars
    <3> QED BY <2>1, <3>2, ThreadIdles DEF setVars
  <2>3. CASE hosted[arg[c]] = 0
    <3>1. arg'[c] = arg[c] /\ \A t \in Thread : t # c => pc'[t] = pc[t] /\ arg'[t] = arg[t]
      BY <1>0, <1>3, <2>3 DEF Lookup, GoTo
    <3>2. age'[arg'[c]] = 0
      BY <2>1, <2>3, <3>1 DEF hubVars, Restful, AbsentOK
    <3>3. \A t \in Thread : pc'[t] \in {"options", "spawn", "host"} => age'[arg'[t]] = 0
      BY <1>0, <2>1, <3>1, <3>2, OthersOpen DEF hubVars
    <3> QED BY <2>1, <3>3, ThreadIdles DEF setVars
  <2> QED BY <2>2, <2>3
<1>4. ASSUME Host(c) PROVE Restful'
  <2> DEFINE s == arg[c]
  <2>1. /\ s \in Session /\ age' = [age EXCEPT ![s] = 0]
        /\ hosted' = [hosted EXCEPT ![s] = new[c]] /\ held' = [held EXCEPT ![s] = FALSE]
        /\ UNCHANGED <<setVars, engVars, sweepVars>>
        /\ pc'[c] = "forget" /\ \A t \in Thread : t # c => pc'[t] = pc[t] /\ arg'[t] = arg[t]
    BY <1>0, <1>4, RestTypes DEF Host, Blank, GoTo
  <2>2. \A r \in Session : /\ age'[r] # 0 => r # s
                           /\ age[r] = 0 => age'[r] = 0
    BY <1>0, <2>1
  <2>3. \A t \in Thread : pc'[t] \in {"options", "spawn", "host"} => age'[arg'[t]] = 0
    BY <1>0, <2>1, <2>2, OthersOpen
  <2>4. \A r \in Session : age'[r] # 0 =>
            age'[r] = age[r] /\ hosted'[r] = hosted[r] /\ held'[r] = held[r]
    BY <1>0, <2>1, <2>2
  <2> QED BY <2>1, <2>3, <2>4, ThreadRests DEF setVars, engVars, sweepVars
<1>5. ASSUME Forget(c) PROVE Restful'
  <2>1. UNCHANGED <<hubVars, busy, engVars, sweepVars>> /\ Opened(c)
    BY <1>5 DEF Forget
  <2>2. \A t \in Thread : pc'[t] \in {"options", "spawn", "host"} => age'[arg'[t]] = 0
    BY <1>0, <2>1, OpenedOpens, OthersOpen DEF hubVars
  <2> QED BY <2>1, <2>2, ThreadIdles
<1>6. ASSUME NEW s \in Session, NEW watch \in BOOLEAN,
             WatchOp(c, s, watch) \/ (WakeWatch(c) /\ s = arg[c] /\ watch = TRUE)
      PROVE  Restful'
  <2>1. /\ SetWatch(c, s, watch)
        /\ UNCHANGED <<hosted, held, setVars, gens, at, own, turn, bg, mark, sweepVars>>
        /\ pc'[c] \in {"idle", "forward"}
        /\ \A t \in Thread : t # c => pc'[t] = pc[t] /\ arg'[t] = arg[t]
    BY <1>0, <1>6 DEF WatchOp, WakeWatch, Begin, GoTo
  <2>2. /\ \A r \in Session : age'[r] # 0 =>
              /\ age'[r] = age[r]
              /\ NoMessage(inbox[hosted[r]]) => NoMessage(inbox'[hosted[r]])
        /\ \A g \in Gen : ~Receiving(g) => inbox'[g] = inbox[g]
        /\ \A r \in Session : age[r] = 0 => age'[r] = 0
    BY <2>1, WatchRests
  <2>3. \A t \in Thread : pc'[t] \in {"options", "spawn", "host"} => age'[arg'[t]] = 0
    BY <1>0, <2>1, <2>2, OthersOpen
  <2> QED BY <2>1, <2>2, <2>3, ThreadRests DEF setVars, sweepVars
<1>7. ASSUME NEW s \in Session, NEW op \in OpName,
             \/ TuneOp(c, s) /\ op = "tune"
             \/ \E force \in BOOLEAN :
                    TuiOp(c, s, force) /\ op = IF force THEN "force" ELSE "tui"
             \/ ForwardMessage(c) /\ s = arg[c] /\ op = "message"
      PROVE  Restful'
  <2>1. /\ Forward(s, op)
        /\ UNCHANGED <<hosted, held, setVars, gens, at, own, turn, bg, mark, sweepVars>>
        /\ pc'[c] = "idle"
        /\ \A t \in Thread : t # c => pc'[t] = pc[t] /\ arg'[t] = arg[t]
    BY <1>0, <1>7 DEF TuneOp, TuiOp, ForwardMessage, Begin, Finish
  <2>2. /\ \A r \in Session : age'[r] # 0 =>
              /\ age'[r] = age[r]
              /\ NoMessage(inbox[hosted[r]]) => NoMessage(inbox'[hosted[r]])
        /\ \A g \in Gen : ~Receiving(g) => inbox'[g] = inbox[g]
        /\ \A r \in Session : age[r] = 0 => age'[r] = 0
    BY <2>1, ForwardRests
  <2>3. \A t \in Thread : pc'[t] \in {"options", "spawn", "host"} => age'[arg'[t]] = 0
    BY <1>0, <2>1, <2>2, OthersOpen
  <2> QED BY <2>1, <2>2, <2>3, ThreadRests DEF setVars, sweepVars
<1>8. ASSUME NEW s \in Session, CloseOp(c, s) PROVE Restful'
  <2>1. /\ age' = [age EXCEPT ![s] = 0]
        /\ hosted' = [hosted EXCEPT ![s] = 0] /\ held' = [held EXCEPT ![s] = FALSE]
        /\ UNCHANGED <<setVars, engVars, sweepVars>>
        /\ pc'[c] = "shut" /\ \A t \in Thread : t # c => pc'[t] = pc[t] /\ arg'[t] = arg[t]
    BY <1>0, <1>8 DEF CloseOp, Blank, Begin
  <2>2. \A r \in Session : /\ age'[r] # 0 => r # s
                           /\ age[r] = 0 => age'[r] = 0
    BY <1>0, <2>1
  <2>3. \A t \in Thread : pc'[t] \in {"options", "spawn", "host"} => age'[arg'[t]] = 0
    BY <1>0, <2>1, <2>2, OthersOpen
  <2>4. \A r \in Session : age'[r] # 0 =>
            age'[r] = age[r] /\ hosted'[r] = hosted[r] /\ held'[r] = held[r]
    BY <1>0, <2>1, <2>2
  <2> QED BY <2>1, <2>3, <2>4, ThreadRests DEF setVars, engVars, sweepVars
<1>9. ASSUME Shut(c) PROVE Restful'
  <2> DEFINE g == new[c]
             op == ShutOp(arg[c])
  <2>1. /\ SendShutdown(g, arg[c]) /\ pc[c] = "shut"
        /\ UNCHANGED <<hubVars, setVars, gens, at, own, turn, bg, mark, sweepVars>>
        /\ pc'[c] = "idle" /\ \A t \in Thread : t # c => pc'[t] = pc[t] /\ arg'[t] = arg[t]
    BY <1>0, <1>9 DEF Shut, Finish
  <2>2. g \in Gen /\ op \in OpName /\ ~IsMessage(op)
    BY <1>0, <2>1, LinksTyped DEF Restful, ShutOp, OpName, IsMessage
  <2>3. UNCHANGED inbox \/ (Receiving(g) /\ Enqueue(g, <<op>>))
    BY <2>1 DEF SendShutdown
  <2>4. /\ \A h \in Gen : NoMessage(inbox[h]) => NoMessage(inbox'[h])
        /\ \A h \in Gen : ~Receiving(h) => inbox'[h] = inbox[h]
    <3> HIDE DEF g, op
    <3> QED BY <2>2, <2>3, SendKeeps
  <2>5. \A t \in Thread : pc'[t] \in {"options", "spawn", "host"} => age'[arg'[t]] = 0
    BY <1>0, <2>1, OthersOpen DEF hubVars
  <2>6. \A r \in Session : age'[r] # 0 => age[r] # 0 /\ hosted[r] \in Gen
    BY <2>1, RestIsHosted DEF hubVars
  <2> QED BY <2>1, <2>4, <2>5, <2>6, ThreadRests DEF hubVars, setVars, sweepVars
<1>10. ASSUME Disconnect(c) \/ Reconnect(c) PROVE Restful'
  <2>1. /\ UNCHANGED <<hubVars, setVars, engVars, sweepVars>>
        /\ pc'[c] \in {"idle", "unwatch"}
        /\ \A t \in Thread : t # c => pc'[t] = pc[t] /\ arg'[t] = arg[t]
    BY <1>0, <1>10 DEF Disconnect, Reconnect, Begin
  <2>2. \A t \in Thread : pc'[t] \in {"options", "spawn", "host"} => age'[arg'[t]] = 0
    BY <1>0, <2>1, OthersOpen DEF hubVars
  <2> QED BY <2>1, <2>2, ThreadIdles DEF setVars
<1>11. ASSUME Unwatch(c) PROVE Restful'
  <2>1. PICK s \in leaving[c] :
            /\ SetWatch(c, s, FALSE)
            /\ pc'[c] \in {"idle", "unwatch"}
            /\ \A t \in Thread : t # c => pc'[t] = pc[t] /\ arg'[t] = arg[t]
    BY <1>0, <1>11 DEF Unwatch, GoTo
  <2>2. /\ s \in Session
        /\ UNCHANGED <<hosted, held, setVars, gens, at, own, turn, bg, mark, sweepVars>>
    BY <1>11 DEF Unwatch, Restful, Linked, Typed, CallsOK, CallTyped
  <2>3. /\ \A r \in Session : age'[r] # 0 =>
              /\ age'[r] = age[r]
              /\ NoMessage(inbox[hosted[r]]) => NoMessage(inbox'[hosted[r]])
        /\ \A g \in Gen : ~Receiving(g) => inbox'[g] = inbox[g]
        /\ \A r \in Session : age[r] = 0 => age'[r] = 0
    BY <2>1, <2>2, WatchRests
  <2>4. \A t \in Thread : pc'[t] \in {"options", "spawn", "host"} => age'[arg'[t]] = 0
    BY <1>0, <2>1, <2>3, OthersOpen
  <2> QED BY <2>2, <2>3, <2>4, ThreadRests DEF setVars, sweepVars
<1>12. WakeWatch(c) \/ ForwardMessage(c) => arg[c] \in Session
  BY <1>0, RestTypes DEF WakeWatch, ForwardMessage
<1>13. {"tune", "message", "force", "tui"} \subseteq OpName BY DEF OpName
<1>14. CASE ClientOp(c)
  BY <1>1, <1>6, <1>7, <1>8, <1>10, <1>13, <1>14 DEF ClientOp
<1>15. CASE ClientStep(c)
  BY <1>2, <1>3, <1>4, <1>5, <1>6, <1>7, <1>9, <1>11, <1>12, <1>13, <1>15 DEF ClientStep
<1> QED BY <1>14, <1>15

\* A new engine serves a session that nobody has left alone.
LEMMA SpawnRests ==
    ASSUME Restful, Linked', NEW c \in Client, Spawn(c)
    PROVE  Restful'
<1> DEFINE g == gens + 1
           s == arg[c]
<1>1. /\ g \in Gen /\ s \in Session /\ c \in Thread /\ pc[c] = "spawn"
      /\ at' = [at EXCEPT ![g] = "ops"] /\ own' = [own EXCEPT ![g] = s]
      /\ UNCHANGED <<hubVars, setVars, sweepVars, inbox, turn, bg, mark>>
      /\ pc' = [pc EXCEPT ![c] = "host"] /\ arg' = arg
  BY RestTypes, ConstantsAssumption DEF Spawn, GoTo, Thread, Gen
<1>2. age[s] = 0 BY <1>1 DEF Restful, OpenersOK
<1>3. at'[g] = "ops" /\ \A h \in Gen : h # g => at'[h] = at[h] /\ own'[h] = own[h]
  <2> HIDE DEF g, s
  <2> QED BY <1>1, RestTypes
<1>4. own'[g] = s
  <2> HIDE DEF g, s
  <2> QED BY <1>1, RestTypes
<1>5. DeadOK'
  <2> HIDE DEF g, s
  <2> QED BY <1>1, <1>3 DEF Restful, DeadOK, Still, Gave, Receiving
<1>6. AbsentOK' BY <1>1 DEF Restful, AbsentOK, hubVars
<1>7. OpenersOK'
  <2>1. ASSUME NEW t \in Thread, pc'[t] \in {"options", "spawn", "host"}
        PROVE  age[arg[t]] = 0
    <3>1. CASE t = c BY <1>2, <3>1
    <3>2. CASE t # c
      <4>1. pc'[t] = pc[t] BY <1>1, <3>2, RestTypes
      <4> QED BY <2>1, <4>1 DEF Restful, OpenersOK
    <3> QED BY <3>1, <3>2
  <2> QED BY <1>1, <2>1 DEF OpenersOK, hubVars
<1>8. ASSUME NEW r \in Session PROVE Rested(r)'
  <2>1. CASE age[r] = 0
    BY <1>1, <2>1 DEF hubVars, Rested
  <2>2. CASE age[r] # 0
    <3>1. hosted[r] \in Gen /\ hosted[r] # g /\ r # s
      BY <1>2, <2>2, RestIsHosted, RestTypes
    <3>2. Spares(r) => Spares(r)' BY <1>1 DEF Spares, setVars, sweepVars
    <3>3. \A h \in Gen : own'[h] = r => own[h] = r /\ at'[h] = at[h]
      <4> HIDE DEF g, s
      <4> QED BY <1>3, <1>4, <3>1
    <3>4. at'[hosted[r]] = at[hosted[r]]
      <4> HIDE DEF g, s
      <4> QED BY <1>3, <3>1
    <3>5. Undisturbed(r)
      BY <1>1, <2>2, <3>2, <3>3, <3>4 DEF Undisturbed, hubVars
    <3> QED BY <3>5, UndisturbedRests DEF Restful
  <2> QED BY <2>1, <2>2
<1> QED BY <1>5, <1>6, <1>7, <1>8 DEF Restful

LEMMA SenderRests ==
    ASSUME Restful, Linked', NEW d \in Sender, SenderStep(d) \/ \E s \in Session : SendOp(d, s)
    PROVE  Restful'
<1>0. /\ pc \in [Thread -> Label] /\ arg \in [Thread -> Session \cup {NoSession}]
      /\ d \in Thread
  BY RestTypes DEF Thread
<1>1. ASSUME MarkBusy(d) \/ Unclaim(d) \/ \E s \in Session : SendOp(d, s) PROVE Restful'
  <2>1. /\ UNCHANGED <<hubVars, engVars, sweepVars>> /\ busy \subseteq busy'
        /\ pc'[d] \in {"deliver", "idle", "markBusy"}
        /\ \A t \in Thread : t # d => pc'[t] = pc[t] /\ arg'[t] = arg[t]
    BY <1>0, <1>1 DEF MarkBusy, Unclaim, SendOp, Begin, GoTo, Finish
  <2>2. \A t \in Thread : pc'[t] \in {"options", "spawn", "host"} => age'[arg'[t]] = 0
    BY <1>0, <2>1, OthersOpen DEF hubVars
  <2> QED BY <2>1, <2>2, ThreadIdles
<1>2. ASSUME Deliver(d) PROVE Restful'
  <2>1. /\ Forward(arg[d], "claimed") /\ arg[d] \in Session /\ "claimed" \in OpName
        /\ UNCHANGED <<hosted, held, setVars, gens, at, own, turn, bg, mark, sweepVars>>
        /\ pc'[d] \in {"idle", "unclaim"}
        /\ \A t \in Thread : t # d => pc'[t] = pc[t] /\ arg'[t] = arg[t]
    BY <1>0, <1>2, RestTypes DEF Deliver, GoTo, Finish, OpName
  <2>2. /\ \A r \in Session : age'[r] # 0 =>
              /\ age'[r] = age[r]
              /\ NoMessage(inbox[hosted[r]]) => NoMessage(inbox'[hosted[r]])
        /\ \A g \in Gen : ~Receiving(g) => inbox'[g] = inbox[g]
        /\ \A r \in Session : age[r] = 0 => age'[r] = 0
    BY <2>1, ForwardRests
  <2>3. \A t \in Thread : pc'[t] \in {"options", "spawn", "host"} => age'[arg'[t]] = 0
    BY <1>0, <2>1, <2>2, OthersOpen
  <2> QED BY <2>1, <2>2, <2>3, ThreadRests DEF setVars, sweepVars
<1> QED BY <1>1, <1>2 DEF SenderStep

-----------------------------------------------------------------------------
(* The engines' threads *)

\* What a step of an engine's thread leaves alone: other engines, other sessions.
Alone(g) ==
    /\ \A h \in Gen : h # g =>
          /\ at'[h] = at[h] /\ inbox'[h] = inbox[h] /\ mark'[h] = mark[h]
          /\ turn'[h] = turn[h] /\ bg'[h] = bg[h]
    /\ \A r \in Session : r # own[g] =>
          /\ age'[r] = age[r] /\ hosted'[r] = hosted[r] /\ held'[r] = held[r]
          /\ r \in busy => r \in busy'
    /\ \A r \in Session : age'[r] \in {age[r], 0} /\ hosted'[r] \in {hosted[r], 0}
    /\ hosted'[own[g]] = 0 => age'[own[g]] = 0 \/ hosted[own[g]] = 0
    /\ UNCHANGED <<own, sweepAt, spared, pc, arg>>

\* The rest of it holds if it holds of the engine and its session.
LEMMA EngineAlone ==
    ASSUME Restful, Linked', NEW g \in Gen, at[g] \notin {"none", "gone"}, Alone(g),
           Still(g)',
           age[own[g]] # 0 /\ hosted[own[g]] = g => Rested(own[g])'
    PROVE  Restful'
<1>1. own[g] \in Session BY RestTypes
<1>2. DeadOK'
  <2>1. ASSUME NEW h \in Gen, h # g PROVE Still(h)'
    BY <2>1 DEF Restful, DeadOK, Still, Gave, Receiving, Alone
  <2> QED BY <2>1 DEF DeadOK
<1>3. AbsentOK'
  <2>1. ASSUME NEW r \in Session, hosted'[r] = 0 PROVE age'[r] = 0
    <3>1. CASE r = own[g] BY <2>1, <3>1 DEF Alone, Restful, AbsentOK
    <3>2. CASE r # own[g] BY <2>1, <3>2 DEF Alone, Restful, AbsentOK
    <3> QED BY <3>1, <3>2
  <2> QED BY <2>1 DEF AbsentOK
<1>4. OpenersOK'
  <2>1. ASSUME NEW t \in Thread, pc[t] \in {"options", "spawn", "host"} PROVE age'[arg[t]] = 0
    <3>1. age[arg[t]] = 0 /\ arg[t] \in Session BY <2>1, RestTypes DEF Restful, OpenersOK
    <3> QED BY <3>1 DEF Alone
  <2> QED BY <2>1 DEF OpenersOK, Alone
<1>5. ASSUME NEW r \in Session PROVE Rested(r)'
  <2>1. CASE r # own[g]
    <3>1. ASSUME age'[r] # 0 PROVE age[r] # 0 /\ hosted[r] \in Gen /\ hosted[r] # g
      BY <2>1, <3>1, RestIsHosted DEF Alone
    <3>2. Spares(r) => Spares(r)' BY <2>1 DEF Spares, Alone
    <3>3. \A h \in Gen : own'[h] = r => own[h] = r /\ at'[h] = at[h]
      BY <2>1 DEF Alone
    <3>4. Undisturbed(r) BY <2>1, <3>1, <3>2, <3>3 DEF Undisturbed, Alone
    <3> QED BY <3>4, UndisturbedRests DEF Restful
  <2>2. CASE r = own[g] /\ age[r] = 0
    BY <2>2 DEF Alone, Rested
  <2>3. CASE r = own[g] /\ age[r] # 0
    <3>1. hosted[r] = g /\ own'[g] = r BY <2>3, RestIsHosted DEF Alone
    <3>2. Rested(own[g])' BY <2>3, <3>1
    <3> QED BY <3>1, <3>2 DEF Rested
  <2> QED BY <2>1, <2>2, <2>3
<1> QED BY <1>2, <1>3, <1>4, <1>5 DEF Restful

\* An engine that reads an op, starts a poll or leaves its options.
LEMMA ReadRests ==
    ASSUME Restful, Linked', NEW g \in Gen,
           \/ ReadMessage(g) \/ ReadTune(g) \/ ReadAttended(g) \/ ReadKeep(g) \/ Drained(g)
           \/ ReadExit(g) \/ RefuseTui(g)
    PROVE  Restful'
<1> DEFINE s == own[g]
<1>0. /\ inbox \in [Gen -> Seq(OpName)] /\ at \in [Gen -> Place] /\ turn \in [Gen -> BOOLEAN]
      /\ at[g] = "ops" /\ inbox[g] \in Seq(OpName)
  BY RestTypes DEF ReadMessage, ReadTune, ReadAttended, ReadKeep, Drained, ReadExit, RefuseTui,
                   Reads, Step
<1>1. /\ UNCHANGED <<hubVars, busy, own, bg, mark, callVars, sweepVars>>
      /\ at' = [at EXCEPT ![g] = at'[g]] /\ at'[g] \in {"ops", "tick", "keep"}
      /\ (Took(g) /\ inbox[g] # <<>>) \/ UNCHANGED inbox
      /\ turn' = turn \/ (ReadMessage(g) /\ \E runs \in BOOLEAN : turn' = [turn EXCEPT ![g] = runs])
  <2>1. CASE ReadMessage(g) BY <1>0, <2>1 DEF ReadMessage, Reads, setVars
  <2>2. CASE ReadTune(g) BY <1>0, <2>2 DEF ReadTune, Reads, setVars
  <2>3. CASE ReadAttended(g) BY <1>0, <2>3 DEF ReadAttended, Reads, setVars
  <2>4. CASE ReadKeep(g) BY <1>0, <2>4 DEF ReadKeep, Reads, Step, setVars
  <2>5. CASE Drained(g) BY <1>0, <2>5 DEF Drained, Step, setVars
  <2>6. CASE ReadExit(g) \/ RefuseTui(g) BY <1>0, <2>6 DEF ReadExit, RefuseTui, Reads, setVars
  <2> QED BY <2>1, <2>2, <2>3, <2>4, <2>5, <2>6
<1>2. \A h \in Gen : h # g => inbox'[h] = inbox[h] /\ turn'[h] = turn[h] /\ at'[h] = at[h]
  <2>1. \A h \in Gen : h # g => inbox'[h] = inbox[h] BY <1>0, <1>1 DEF Took
  <2>2. \A h \in Gen : h # g => turn'[h] = turn[h] BY <1>0, <1>1
  <2>3. \A h \in Gen : h # g => at'[h] = at[h] BY <1>0, <1>1
  <2> QED BY <2>1, <2>2, <2>3
<1>3. Alone(g) BY <1>1, <1>2 DEF Alone, hubVars, callVars, sweepVars
<1>4. Still(g)' BY <1>1 DEF Still, Receiving, Gave
<1>5. ASSUME age[s] # 0, hosted[s] = g PROVE Rested(s)'
  <2>0. s \in Session BY <1>0, RestTypes
  <2>1. Rested(s) BY <2>0 DEF Restful
  <2>2. NoMessage(inbox[g]) BY <1>5, <2>1 DEF Rested
  <2>3. ~ReadMessage(g)
    <3>1. SUFFICES ASSUME ReadMessage(g) PROVE FALSE OBVIOUS
    <3>2. inbox[g] # <<>> /\ IsMessage(Head(inbox[g])) BY <3>1 DEF ReadMessage, Reads, IsMessage
    <3> QED BY <1>0, <2>2, <3>2, ReadNoMessage
  <2>4. NoMessage(inbox'[g])
    <3>1. CASE UNCHANGED inbox BY <2>2, <3>1
    <3>2. CASE Took(g) /\ inbox[g] # <<>>
      <4>1. inbox'[g] = Tail(inbox[g]) BY <1>0, <3>2 DEF Took
      <4> QED BY <1>0, <2>2, <3>2, <4>1, ReadNoMessage
    <3> QED BY <1>1, <3>1, <3>2
  <2>5. Spares(s) => Spares(s)' BY <1>1 DEF Spares, sweepVars
  <2>6. \A h \in Gen : own[h] = s /\ h # g => at'[h] \in {"none", "gone"}
    BY <1>2, <1>5, <2>1 DEF Rested
  <2>7. /\ age' = age /\ hosted' = hosted /\ held' = held /\ own' = own /\ bg' = bg /\ turn' = turn
    BY <1>1, <2>3 DEF hubVars
  <2>9. s' = s BY <1>1
  <2> HIDE DEF s
  <2>8. ~held[s] => ~bg[g] /\ (turn[g] => Spares(s))
    BY <1>0, <1>5, <2>1 DEF Rested
  <2> QED BY <1>1, <1>5, <2>4, <2>5, <2>6, <2>7, <2>8, <2>9 DEF Rested
<1> QED BY <1>0, <1>3, <1>4, <1>5, EngineAlone

\* An engine whose `run` returns.
LEMMA ReturnRests ==
    ASSUME Restful, Linked', NEW g \in Gen,
           \/ ReadShutdown(g) \/ KeepOptions(g) \/ ReadQuit(g) \/ Disconnected(g) \/ Stops(g)
           \/ TuiStops(g) \/ ReopenFails(g)
    PROVE  Restful'
<1> DEFINE s == own[g]
<1>0. /\ inbox \in [Gen -> Seq(OpName)] /\ at \in [Gen -> Place] /\ turn \in [Gen -> BOOLEAN]
      /\ bg \in [Gen -> BOOLEAN] /\ mark \in [Gen -> BOOLEAN]
  BY RestTypes
<1>1. /\ at[g] \notin {"none", "gone"}
      /\ Return(g)
      /\ UNCHANGED <<hubVars, busy, own, callVars, sweepVars>>
  BY DEF ReadShutdown, KeepOptions, ReadQuit, Disconnected, Stops, TuiStops, ReopenFails, Reads,
         setVars
<1>2. /\ at'[g] = "end" /\ inbox'[g] = <<>> /\ ~turn'[g] /\ ~bg'[g]
      /\ \A h \in Gen : h # g =>
          /\ at'[h] = at[h] /\ inbox'[h] = inbox[h] /\ mark'[h] = mark[h]
          /\ turn'[h] = turn[h] /\ bg'[h] = bg[h]
  BY <1>0, <1>1 DEF Return
<1>3. Alone(g) BY <1>1, <1>2 DEF Alone, hubVars, callVars, sweepVars
<1>4. ASSUME age[s] # 0, hosted[s] = g PROVE Rested(s)'
  <2>0. s \in Session BY <1>1, RestTypes
  <2>1. Rested(s) BY <2>0 DEF Restful
  <2>2. \A h \in Gen : own[h] = s /\ h # g => at'[h] \in {"none", "gone"}
    BY <1>2, <1>4, <2>1 DEF Rested
  <2>3. NoMessage(inbox'[g]) BY <1>2 DEF NoMessage
  <2>4. age' = age /\ hosted' = hosted /\ held' = held /\ own' = own
    BY <1>1 DEF hubVars
  <2>5. s' = s BY <1>1
  <2> HIDE DEF s
  <2> QED BY <1>2, <1>4, <2>2, <2>3, <2>4, <2>5 DEF Rested
<1>5. Still(g)' BY <1>2 DEF Still, Gave
<1> QED BY <1>1, <1>3, <1>4, <1>5, EngineAlone

\* The tick: with no background work the turn goes on or ends; what ends leaves
\* the session marked until `set_held`, or makes it active.
LEMMA TickRests ==
    ASSUME Restful, Linked', NEW g \in Gen, Tick(g)
    PROVE  Restful'
<1> DEFINE s == own[g]
<1>0. /\ at \in [Gen -> Place] /\ turn \in [Gen -> BOOLEAN]
      /\ bg \in [Gen -> BOOLEAN] /\ mark \in [Gen -> BOOLEAN]
  BY RestTypes
<1>1. PICK runs \in BOOLEAN, works \in BOOLEAN :
          /\ Polls(g, runs, works)
          /\ turn' = [turn EXCEPT ![g] = runs] /\ bg' = [bg EXCEPT ![g] = works]
          /\ mark' = [mark EXCEPT ![g] = runs \/ claims[own[g]] > 0]
  BY DEF Tick
<1>2. /\ at[g] = "tick" /\ at' = [at EXCEPT ![g] = "mark"]
      /\ UNCHANGED <<hubVars, setVars, own, inbox, callVars, sweepVars>>
  BY DEF Tick, Step
<1>3. /\ at'[g] = "mark" /\ turn'[g] = runs /\ bg'[g] = works /\ (runs => mark'[g])
      /\ \A h \in Gen : h # g =>
          at'[h] = at[h] /\ mark'[h] = mark[h] /\ turn'[h] = turn[h] /\ bg'[h] = bg[h]
  BY <1>0, <1>1, <1>2
<1>4. Alone(g) BY <1>2, <1>3 DEF Alone, hubVars, setVars, callVars, sweepVars
<1>5. Still(g)' BY <1>3 DEF Still, Receiving, Gave
<1>6. ASSUME age[s] # 0, hosted[s] = g PROVE Rested(s)'
  <2>0. s \in Session BY <1>2, RestTypes
  <2>1. Rested(s) BY <2>0 DEF Restful
  <2>2. \A h \in Gen : own[h] = s /\ h # g => at'[h] \in {"none", "gone"}
    BY <1>3, <1>6, <2>1 DEF Rested
  <2>3. NoMessage(inbox[g]) BY <1>6, <2>1 DEF Rested
  <2>4. ~held[s] => ~bg[g] /\ (turn[g] => Spares(s)) BY <1>2, <1>6, <2>1 DEF Rested
  <2>5. ~bg[g] /\ runs => turn[g] BY <1>1 DEF Polls
  <2>6. Spares(s) => Spares(s)' BY <1>2 DEF Spares, setVars, sweepVars
  <2>7. age' = age /\ hosted' = hosted /\ held' = held /\ own' = own /\ inbox' = inbox
    BY <1>2 DEF hubVars
  <2>8. s' = s BY <1>2
  <2> HIDE DEF s
  <2> QED BY <1>3, <1>6, <2>2, <2>3, <2>4, <2>5, <2>6, <2>7, <2>8 DEF Rested
<1> QED BY <1>2, <1>4, <1>5, <1>6, EngineAlone

\* `set_busy` takes a mark away only when the turn is over.
LEMMA BusyRests ==
    ASSUME Restful, Linked', NEW g \in Gen, SetBusy(g)
    PROVE  Restful'
<1> DEFINE s == own[g]
<1>0. at \in [Gen -> Place] /\ mark \in [Gen -> BOOLEAN] BY RestTypes
<1>1. /\ at[g] = "mark" /\ at'[g] \in {"touch", "held"}
      /\ \A h \in Gen : h # g => at'[h] = at[h] /\ mark'[h] = mark[h]
      /\ busy' = IF mark[g] THEN busy \cup {s} ELSE busy \ {s}
      /\ UNCHANGED <<hubVars, own, inbox, turn, bg, callVars, sweepVars>>
  BY <1>0 DEF SetBusy, Step
<1>2. Alone(g)
  <2>1. \A r \in Session : r # s => (r \in busy => r \in busy') BY <1>1
  <2> QED BY <1>1, <2>1 DEF Alone, hubVars, callVars, sweepVars
<1>3. Still(g)' BY <1>1 DEF Still, Receiving, Gave
<1>4. ASSUME age[s] # 0, hosted[s] = g PROVE Rested(s)'
  <2>0. s \in Session BY <1>1, RestTypes
  <2>1. Rested(s) BY <2>0 DEF Restful
  <2>2. \A h \in Gen : own[h] = s /\ h # g => at'[h] \in {"none", "gone"}
    BY <1>1, <1>4, <2>1 DEF Rested
  <2>3. NoMessage(inbox[g]) BY <1>4, <2>1 DEF Rested
  <2>4. turn[g] => mark[g] BY <1>1, <1>4, <2>1 DEF Rested
  <2>5. ~held[s] /\ turn[g] => Spares(s) BY <1>4, <2>1 DEF Rested
  <2>6. mark[g] /\ Spares(s) => Spares(s)' BY <1>1 DEF Spares, sweepVars
  <2>7. /\ age' = age /\ hosted' = hosted /\ held' = held /\ own' = own /\ inbox' = inbox
        /\ turn' = turn /\ bg' = bg
    BY <1>1 DEF hubVars
  <2>8. s' = s BY <1>1
  <2> HIDE DEF s
  <2> QED BY <1>1, <1>4, <2>2, <2>3, <2>4, <2>5, <2>6, <2>7, <2>8 DEF Rested
<1> QED BY <1>1, <1>2, <1>3, <1>4, EngineAlone

\* What makes a session active.
LEMMA ActiveRests ==
    ASSUME Restful, Linked', NEW g \in Gen, Touch(g) \/ SetHeld(g) \/ EndEntry(g)
    PROVE  Restful'
<1> DEFINE s == own[g]
<1>0. /\ at \in [Gen -> Place] /\ age \in [Session -> 0..2] /\ held \in [Session -> BOOLEAN]
      /\ hosted \in [Session -> 0..MaxGen]
  BY RestTypes
<1>1. /\ at[g] \in {"touch", "held", "end"} /\ at'[g] \in {"held", "ops", "endBusy", "gone"}
      /\ at[g] = "end" \/ at'[g] \in {"held", "ops"}
      /\ \A h \in Gen : h # g => at'[h] = at[h]
      /\ UNCHANGED <<busy, own, inbox, turn, bg, mark, callVars, sweepVars>>
  BY <1>0 DEF Touch, SetHeld, EndEntry, Step, setVars
<1>2. s \in Session BY <1>1, RestTypes
<1>3. /\ age' = age \/ age' = [age EXCEPT ![s] = 0]
      /\ hosted' = hosted \/ (hosted' = [hosted EXCEPT ![s] = 0] /\ age' = [age EXCEPT ![s] = 0])
      /\ held' = held \/ held' = [held EXCEPT ![s] = FALSE] \/ held' = [held EXCEPT ![s] = bg[g]]
  BY <1>2 DEF Touch, SetHeld, EndEntry, Blank
<1>4. Alone(g)
  <2>1. \A r \in Session : age'[r] \in {age[r], 0} /\ (r # s => age'[r] = age[r])
    BY <1>0, <1>3
  <2>2. /\ \A r \in Session : hosted'[r] \in {hosted[r], 0} /\ (r # s => hosted'[r] = hosted[r])
        /\ hosted'[s] = 0 => age'[s] = 0 \/ hosted[s] = 0
    BY <1>0, <1>2, <1>3
  <2>3. \A r \in Session : r # s => held'[r] = held[r] BY <1>0, <1>3
  <2> HIDE DEF s
  <2>4. s = own[g] BY DEF s
  <2> QED BY <1>1, <2>1, <2>2, <2>3, <2>4 DEF Alone, callVars, sweepVars
<1>5. Still(g)'
  BY <1>1 DEF Restful, DeadOK, Still, Gave, Receiving
<1>6. ASSUME age[s] # 0, hosted[s] = g PROVE Rested(s)'
  <2>1. Rested(s) BY <1>2 DEF Restful
  <2>2. g # 0 /\ s' = s BY <1>1, <1>2, <1>6, RestIsHosted
  <2>3. CASE Touch(g) \/ EndEntry(g)
    <3>1. age' = [age EXCEPT ![s] = 0]
      BY <1>6, <2>3 DEF Touch, EndEntry, EntryIsOwn, Blank
    <3>2. age'[s] = 0 BY <1>0, <1>2, <3>1
    <3> HIDE DEF s
    <3> QED BY <2>2, <3>2 DEF Rested
  <2>4. CASE SetHeld(g) /\ held[s] # bg[g]
    <3>1. age' = [age EXCEPT ![s] = 0] BY <1>6, <2>2, <2>4 DEF SetHeld
    <3>2. age'[s] = 0 BY <1>0, <1>2, <3>1
    <3> HIDE DEF s
    <3> QED BY <2>2, <3>2 DEF Rested
  <2>5. CASE SetHeld(g) /\ held[s] = bg[g]
    <3>1. held' = held /\ age' = age /\ hosted' = hosted /\ at'[g] = "ops"
      BY <1>0, <2>5 DEF SetHeld, Step
    <3>2. \A h \in Gen : own[h] = s /\ h # g => at'[h] \in {"none", "gone"}
      BY <1>1, <1>6, <2>1 DEF Rested
    <3>3. NoMessage(inbox[g]) /\ (~held[s] /\ turn[g] => Spares(s))
      BY <1>6, <2>1 DEF Rested
    <3>4. Spares(s) => Spares(s)' BY <1>1 DEF Spares, sweepVars
    <3> HIDE DEF s
    <3> QED BY <1>1, <1>6, <2>2, <2>5, <3>1, <3>2, <3>3, <3>4 DEF Rested
  <2> QED BY <2>3, <2>4, <2>5
<1> QED BY <1>1, <1>4, <1>5, <1>6, EngineAlone

\* The rest of `session_ended` is of a session with no entry, or another's.
LEMMA EndRests ==
    ASSUME Restful, Linked', NEW g \in Gen, EndBusy(g) \/ EndClaims(g) \/ EndTell(g)
    PROVE  Restful'
<1> DEFINE s == own[g]
<1>0. at \in [Gen -> Place] BY RestTypes
<1>1. /\ at[g] \in {"endBusy", "endClaims", "endTell"} /\ at'[g] \in {"endClaims", "endTell", "gone"}
      /\ \A h \in Gen : h # g => at'[h] = at[h]
      /\ \A r \in Session : r # s => (r \in busy => r \in busy')
      /\ UNCHANGED <<hubVars, own, inbox, turn, bg, mark, callVars, sweepVars>>
  BY <1>0 DEF EndBusy, EndClaims, EndTell, Step
<1>2. Alone(g) BY <1>1 DEF Alone, hubVars, callVars, sweepVars
<1>3. Still(g)'
  BY <1>1 DEF Restful, DeadOK, Still, Gave, Receiving
<1>4. ~(age[s] # 0 /\ hosted[s] = g)
  <2>1. s \in Session BY <1>1, RestTypes
  <2> QED BY <1>1, <2>1 DEF Restful, Rested
<1> QED BY <1>1, <1>2, <1>3, <1>4, EngineAlone

\* An engine that gives its conversation to a TUI has no turn or work left, and
\* what it reads meanwhile starts none.
LEMMA TuiRests ==
    ASSUME Restful, Linked', NEW g \in Gen,
           ReadTui(g) \/ HoldForTui(g) \/ IgnoreOp(g) \/ TuiEnds(g) \/ Reopen(g)
    PROVE  Restful'
<1> DEFINE s == own[g]
<1>0. /\ inbox \in [Gen -> Seq(OpName)] /\ at \in [Gen -> Place] /\ turn \in [Gen -> BOOLEAN]
      /\ bg \in [Gen -> BOOLEAN] /\ age \in [Session -> 0..2] /\ held \in [Session -> BOOLEAN]
  BY RestTypes
<1>1. /\ at[g] \in {"ops", "give", "surface", "reopen"}
      /\ at' = [at EXCEPT ![g] = at'[g]] /\ at'[g] \in {"give", "surface", "reopen", "ops"}
      /\ UNCHANGED <<hosted, busy, own, mark, callVars, sweepVars>>
      /\ (Took(g) /\ inbox[g] # <<>>) \/ UNCHANGED inbox
  <2>1. CASE ReadTui(g) BY <1>0, <2>1 DEF ReadTui, Step, Reads, hubVars, setVars
  <2>2. CASE HoldForTui(g) BY <1>0, <2>2 DEF HoldForTui, Step, setVars
  <2>3. CASE IgnoreOp(g) BY <1>0, <2>3 DEF IgnoreOp, hubVars, setVars
  <2>4. CASE TuiEnds(g) BY <1>0, <2>4 DEF TuiEnds, Step, hubVars, setVars
  <2>5. CASE Reopen(g) BY <1>0, <2>5 DEF Reopen, Step, hubVars, setVars
  <2> QED BY <2>1, <2>2, <2>3, <2>4, <2>5
<1>2. s \in Session BY <1>1, RestTypes
<1>3. /\ ~turn'[g] /\ ~bg'[g]
      /\ \A h \in Gen : h # g => turn'[h] = turn[h] /\ bg'[h] = bg[h]
  <2>1. CASE ReadTui(g) BY <1>0, <2>1 DEF ReadTui
  <2>2. CASE HoldForTui(g) \/ IgnoreOp(g) \/ TuiEnds(g) \/ Reopen(g)
    <3>1. Gave(g) /\ UNCHANGED <<turn, bg>>
      BY <2>2 DEF HoldForTui, IgnoreOp, TuiEnds, Reopen, Step, Gave
    <3> QED BY <3>1 DEF Restful, DeadOK, Still
  <2> QED BY <2>1, <2>2
<1>4. \/ UNCHANGED <<age, held>>
      \/ age' = [age EXCEPT ![s] = 0] /\ held' = [held EXCEPT ![s] = TRUE]
  BY <1>1 DEF ReadTui, HoldForTui, IgnoreOp, TuiEnds, Reopen, hubVars
<1>5. \A h \in Gen : h # g => inbox'[h] = inbox[h] /\ at'[h] = at[h]
  <2>1. \A h \in Gen : h # g => inbox'[h] = inbox[h] BY <1>0, <1>1 DEF Took
  <2>2. \A h \in Gen : h # g => at'[h] = at[h] BY <1>0, <1>1
  <2> QED BY <2>1, <2>2
<1>6. Alone(g)
  <2>1. \A r \in Session : age'[r] \in {age[r], 0} /\ (r # s => age'[r] = age[r] /\ held'[r] = held[r])
    BY <1>0, <1>4
  <2> QED BY <1>1, <1>3, <1>5, <2>1, RestTypes DEF Alone, callVars, sweepVars
<1>7. Still(g)' BY <1>1, <1>3 DEF Still, Receiving
<1>8. ASSUME age[s] # 0, hosted[s] = g PROVE Rested(s)'
  <2>1. Rested(s) BY <1>2 DEF Restful
  <2>2. \A h \in Gen : own[h] = s /\ h # g => at'[h] \in {"none", "gone"}
    BY <1>5, <1>8, <2>1 DEF Rested
  <2>3. NoMessage(inbox'[g])
    <3>1. NoMessage(inbox[g]) BY <1>8, <2>1 DEF Rested
    <3>2. CASE UNCHANGED inbox BY <3>1, <3>2
    <3>3. CASE Took(g) /\ inbox[g] # <<>>
      <4>1. inbox'[g] = Tail(inbox[g]) BY <1>0, <3>3 DEF Took
      <4> QED BY <1>0, <3>1, <3>3, <4>1, ReadNoMessage
    <3> QED BY <1>1, <3>2, <3>3
  <2>4. hosted' = hosted /\ own' = own /\ s' = s BY <1>1
  <2> HIDE DEF s
  <2> QED BY <1>1, <1>3, <1>8, <2>2, <2>3, <2>4 DEF Rested
<1> QED BY <1>1, <1>6, <1>7, <1>8, EngineAlone

LEMMA EngineRests ==
    ASSUME Restful, Linked', NEW g \in Gen, EngineStep(g)
    PROVE  Restful'
BY ReadRests, ReturnRests, TickRests, BusyRests, ActiveRests, EndRests, TuiRests
   DEF EngineStep, TuiStep

\* A TUI's exit makes its session active.
LEMMA ExitRests ==
    ASSUME Restful, Linked', NEW g \in Gen, TuiExits(g)
    PROVE  Restful'
<1>1. /\ Forward(own[g], "exit") /\ own[g] \in Session /\ "exit" \in OpName
      /\ UNCHANGED <<hosted, held, setVars, gens, at, own, turn, bg, mark, pc, arg, sweepVars>>
  <2>1. own[g] \in Session BY DEF TuiExits, Restful, Linked, Typed, TuiOK
  <2> QED BY <2>1 DEF TuiExits, OpName, callVars
<1>2. /\ \A r \in Session : age'[r] # 0 =>
            /\ age'[r] = age[r]
            /\ NoMessage(inbox[hosted[r]]) => NoMessage(inbox'[hosted[r]])
      /\ \A h \in Gen : ~Receiving(h) => inbox'[h] = inbox[h]
      /\ \A r \in Session : age[r] = 0 => age'[r] = 0
  BY <1>1, ForwardRests
<1>3. ASSUME NEW t \in Thread, pc'[t] \in {"options", "spawn", "host"}
      PROVE  age'[arg'[t]] = 0
  <2>1. pc[t] \in {"options", "spawn", "host"} /\ arg'[t] = arg[t] BY <1>1, <1>3
  <2>2. age[arg[t]] = 0 /\ arg[t] \in Session BY <2>1, RestTypes DEF Restful, OpenersOK
  <2> QED BY <1>2, <2>1, <2>2
<1> QED BY <1>1, <1>2, <1>3, ThreadRests DEF setVars, sweepVars

-----------------------------------------------------------------------------
(* The sweep, the clock and the update *)

\* Minutes pass while no thread and no engine is in the middle of anything.
LEMMA MinutesRest ==
    ASSUME Restful, Linked', MinutesPass
    PROVE  Restful'
<1>1. /\ AtRest /\ UNCHANGED <<hosted, watchers, held, setVars, engVars, callVars, sweepVars>>
      /\ age' = [s \in Session |-> IF s \in Live /\ age[s] < 2 THEN age[s] + 1 ELSE age[s]]
  BY DEF MinutesPass
<1>2. DeadOK' BY <1>1 DEF Restful, DeadOK, Still, Gave, Receiving, engVars
<1>3. \A s \in Session : hosted[s] = 0 => age'[s] = 0
  BY <1>1 DEF Restful, AbsentOK, Live
<1>4. AbsentOK' BY <1>1, <1>3 DEF AbsentOK
<1>5. OpenersOK' BY <1>1 DEF OpenersOK, AtRest, callVars
<1>6. ASSUME NEW s \in Session, age'[s] # 0 PROVE Rested(s)'
  <2> DEFINE g == hosted[s]
  <2>1. g # 0 /\ g \in Gen /\ own[g] = s BY <1>3, <1>6, RestTypes
  <2>2. at[g] \in {"none", "gone"} \/
          ( /\ at[g] = "ops" /\ inbox[g] = <<>>
            /\ (s \in busy) = (turn[g] \/ claims[s] > 0) /\ held[s] = bg[g] ) \/
          ( at[g] = "surface" /\ inbox[g] = <<>> )
    BY <1>1, <2>1 DEF AtRest
  <2>3. \A h \in Gen : own[h] = s /\ h # g => at[h] \in {"none", "gone"}
    BY <1>1 DEF AtRest
  <2>4. turn[g] => at[g] \notin {"none", "gone", "surface"}
    BY <2>1 DEF Restful, DeadOK, Still, Gave, Receiving
  <2>5. /\ at[g] \in {"none", "gone"} => inbox[g] = <<>> /\ ~bg[g]
        /\ at[g] = "surface" => ~bg[g]
    BY <2>1 DEF Restful, DeadOK, Still, Gave, Receiving
  <2>6. NoMessage(inbox[g]) BY <2>2, <2>5 DEF NoMessage
  <2>7. turn[g] => Spares(s) BY <1>1, <2>2, <2>4 DEF Spares, AtRest
  <2>8. ~held[s] => ~bg[g]
    <3>1. bg[g] \in BOOLEAN /\ held[s] \in BOOLEAN BY <2>1, RestTypes
    <3> QED BY <2>2, <2>5, <3>1
  <2>9. Spares(s) => Spares(s)' BY <1>1 DEF Spares, setVars, sweepVars
  <2>10. hosted' = hosted /\ held' = held /\ at' = at /\ own' = own /\ inbox' = inbox
         /\ turn' = turn /\ bg' = bg /\ mark' = mark
    BY <1>1 DEF engVars
  <2>11. at[g] # "mark" /\ at[g] \notin {"endBusy", "endClaims", "endTell"} BY <2>2
  <2> HIDE DEF g
  <2>12. g = hosted[s] BY DEF g
  <2> QED BY <2>3, <2>6, <2>7, <2>8, <2>9, <2>10, <2>11, <2>12 DEF Rested
<1>7. \A s \in Session : Rested(s)' BY <1>6 DEF Rested
<1> QED BY <1>2, <1>4, <1>5, <1>7 DEF Restful

\* The sweep only leaves more sessions out, until it has taken those it takes.
LEMMA SweepRests ==
    ASSUME Restful, Linked', SweepStep
    PROVE  Restful'
<1>1. CASE SweepBusy \/ SweepClaims \/ SweepReason
  <2>1. UNCHANGED <<hubVars, busy, engVars, callVars>>
    BY <1>1 DEF SweepBusy, SweepClaims, SweepReason, setVars
  <2>2. DeadOK' /\ AbsentOK' /\ OpenersOK'
    BY <2>1 DEF Restful, DeadOK, Still, Gave, AbsentOK, OpenersOK, Receiving, hubVars, engVars, callVars
  <2>3. ASSUME NEW s \in Session PROVE Rested(s)'
    <3>1. Spares(s) => Spares(s)'
      <4>1. CASE SweepBusy BY <2>1, <4>1 DEF SweepBusy, Spares
      <4>2. CASE SweepClaims BY <2>1, <4>2 DEF SweepClaims, Spares
      <4>3. CASE SweepReason BY <2>1, <4>3 DEF SweepReason, Spares
      <4> QED BY <1>1, <4>1, <4>2, <4>3
    <3>2. Undisturbed(s) BY <2>1, <3>1 DEF Undisturbed, hubVars, engVars
    <3> QED BY <3>2, UndisturbedRests DEF Restful
  <2> QED BY <2>2, <2>3 DEF Restful
<1>2. CASE SweepPick
  <2>1. /\ UNCHANGED <<held, busy, engVars, callVars>>
        /\ \A s \in Session : \/ hosted'[s] = 0 /\ age'[s] = 0
                              \/ hosted'[s] = hosted[s] /\ age'[s] = age[s]
        /\ sweepAt' \in {"idle", "reason"}
    BY <1>2 DEF SweepPick
  <2>2. DeadOK' BY <2>1 DEF Restful, DeadOK, Still, Gave, Receiving, engVars
  <2>3. AbsentOK' BY <2>1 DEF Restful, AbsentOK
  <2>4. OpenersOK'
    <3>1. \A t \in Thread : pc[t] \in {"options", "spawn", "host"} =>
              arg[t] \in Session /\ age[arg[t]] = 0
      BY RestTypes DEF Restful, OpenersOK
    <3> QED BY <2>1, <3>1 DEF OpenersOK, callVars
  <2>5. ASSUME NEW s \in Session PROVE Rested(s)'
    <3>1. Spares(s) => Spares(s)' BY <2>1 DEF Spares
    <3>2. Undisturbed(s) BY <2>1, <3>1 DEF Undisturbed, engVars
    <3> QED BY <3>2, UndisturbedRests DEF Restful
  <2> QED BY <2>2, <2>3, <2>4, <2>5 DEF Restful
<1>3. CASE SweepShut
  <2> DEFINE g == victim[cur]
             op == ShutOp(cur)
  <2>1. /\ SendShutdown(g, cur)
        /\ UNCHANGED <<hubVars, setVars, gens, at, own, turn, bg, mark, callVars, spared>>
        /\ sweepAt = "shut" /\ sweepAt' \in {"idle", "reason"}
    BY <1>3 DEF SweepShut
  <2>2. op \in OpName /\ ~IsMessage(op) BY DEF ShutOp, OpName, IsMessage
  <2>3. UNCHANGED inbox \/ (Receiving(g) /\ Enqueue(g, <<op>>))
    BY <2>1 DEF SendShutdown
  <2>4. /\ \A h \in Gen : NoMessage(inbox[h]) => NoMessage(inbox'[h])
        /\ \A h \in Gen : ~Receiving(h) => inbox'[h] = inbox[h]
    <3>1. CASE UNCHANGED inbox BY <3>1
    <3>2. CASE g \in Gen
      <4> HIDE DEF g, op
      <4> QED BY <2>2, <2>3, <3>2, SendKeeps
    <3>3. CASE Enqueue(g, <<op>>) /\ g \notin Gen
      <4>1. inbox' = inbox BY <3>3, RestTypes DEF Enqueue
      <4> QED BY <4>1
    <3> QED BY <2>3, <3>1, <3>2, <3>3
  <2>5. DeadOK' BY <2>1, <2>4 DEF Restful, DeadOK, Still, Gave, Receiving
  <2>6. AbsentOK' /\ OpenersOK' BY <2>1 DEF Restful, AbsentOK, OpenersOK, hubVars, callVars
  <2>7. ASSUME NEW s \in Session PROVE Rested(s)'
    <3>1. Spares(s) => Spares(s)' BY <2>1 DEF Spares, setVars
    <3>2. age[s] # 0 => hosted[s] \in Gen BY RestIsHosted
    <3>3. Undisturbed(s) BY <2>1, <2>4, <3>1, <3>2 DEF Undisturbed, hubVars
    <3> QED BY <3>3, UndisturbedRests DEF Restful
  <2> QED BY <2>5, <2>6, <2>7 DEF Restful
<1> QED BY <1>1, <1>2, <1>3 DEF SweepStep

LEMMA RestartRests ==
    ASSUME Restful, Linked', RestartStep \/ UNCHANGED vars
    PROVE  Restful'
<1>1. CASE RestartExit
  <2>1. /\ \A s \in Session : age'[s] = 0
        /\ \A t \in Thread : pc'[t] = "idle"
        /\ \A g \in Gen : ~turn'[g] /\ ~bg'[g] /\ inbox'[g] = <<>>
    BY <1>1 DEF RestartExit
  <2>2. DeadOK' /\ AbsentOK' /\ OpenersOK' BY <2>1 DEF DeadOK, Still, Gave, AbsentOK, OpenersOK
  <2>3. \A s \in Session : Rested(s)' BY <2>1 DEF Rested
  <2> QED BY <2>2, <2>3 DEF Restful
<1>2. CASE RestartAsk \/ RestartHoldExpires \/ RestartHeld \/ RestartBusy \/ UNCHANGED vars
  <2>1. UNCHANGED <<hubVars, setVars, engVars, pc, arg, sweepVars>>
    BY <1>2 DEF RestartAsk, RestartHoldExpires, RestartHeld, RestartBusy, callVars, vars
  <2>2. \A t \in Thread : pc'[t] \in {"options", "spawn", "host"} => age'[arg'[t]] = 0
    BY <2>1 DEF hubVars, Restful, OpenersOK
  <2> QED BY <2>1, <2>2, ThreadIdles DEF setVars
<1> QED BY <1>1, <1>2 DEF RestartStep

LEMMA NextRestful ==
    ASSUME Restful, [Next]_vars
    PROVE  Restful'
<1>0. Linked' BY NextLinked DEF Restful
<1>1. CASE \E c \in Client : ClientOp(c) \/ ClientStep(c)
  BY <1>0, <1>1, ClientRests, SpawnRests
<1>2. CASE \E d \in Sender : SenderStep(d) \/ \E s \in Session : SendOp(d, s)
  BY <1>0, <1>2, SenderRests
<1>3. CASE \E g \in Gen : EngineStep(g) \/ TuiExits(g)
  BY <1>0, <1>3, EngineRests, ExitRests
<1>4. CASE MinutesPass BY <1>0, <1>4, MinutesRest
<1>5. CASE SweepStep BY <1>0, <1>5, SweepRests
<1>6. CASE RestartStep \/ UNCHANGED vars BY <1>0, <1>6, RestartRests
<1> QED BY <1>1, <1>2, <1>3, <1>4, <1>5, <1>6 DEF Next

\* Only the sweep's pick makes a victim, of a session that was left alone.
LEMMA TakesRested ==
    ASSUME Restful, [Next]_vars, NEW s \in Session, SweepTakes(s)
    PROVE  age[s] # 0 /\ ~held[s] /\ sweepAt = "pick" /\ s \notin spared
<1>0. victim \in [Session -> 0..MaxGen] /\ victim'[s] # victim[s]
  BY DEF SweepTakes, Restful, Linked, Typed, SweepTyped
<1>1. ASSUME NEW c \in Client, ClientOp(c) \/ ClientStep(c) PROVE FALSE
  <2>1. UNCHANGED victim
    BY <1>1 DEF ClientOp, ClientStep, OpenOp, DecideOp, MessageOp, TuneOp, CloseOp, WatchOp,
                TuiOp, Disconnect, Reconnect, WakeAsleep, Lookup, TakeOptions, Spawn, SpawnFails,
                OpenFails, Host, Forget, WakeWatch, ForwardMessage, Shut, Unwatch, sweepVars
  <2> QED BY <1>0, <2>1
<1>2. ASSUME NEW d \in Sender, SenderStep(d) \/ \E r \in Session : SendOp(d, r) PROVE FALSE
  BY <1>0, <1>2 DEF SenderStep, MarkBusy, Deliver, Unclaim, SendOp, sweepVars
<1>3. ASSUME NEW g \in Gen, EngineStep(g) \/ TuiExits(g) PROVE FALSE
  <2>1. UNCHANGED victim
    BY <1>3 DEF EngineStep, TuiStep, ReadExit, RefuseTui, ReadTui, HoldForTui, IgnoreOp, TuiEnds,
                TuiStops, Reopen, ReopenFails, TuiExits, ReadMessage, ReadTune, ReadAttended, ReadShutdown, ReadKeep,
                KeepOptions, ReadQuit, Drained, Disconnected, Stops, Tick, SetBusy, Touch,
                SetHeld, EndEntry, EndBusy, EndClaims, EndTell, sweepVars
  <2> QED BY <1>0, <2>1
<1>4. ASSUME MinutesPass \/ UNCHANGED vars \/ RestartStep PROVE FALSE
  <2>1. \A r \in Session : victim'[r] \in {victim[r], 0}
    BY <1>4 DEF MinutesPass, vars, RestartStep, RestartAsk, RestartHoldExpires, RestartHeld,
                RestartBusy, RestartExit, sweepVars
  <2> QED BY <2>1 DEF SweepTakes
<1>5. ASSUME SweepBusy \/ SweepClaims \/ SweepReason \/ SweepShut PROVE FALSE
  BY <1>0, <1>5 DEF SweepBusy, SweepClaims, SweepReason, SweepShut, SweepTakes
<1>6. SweepPick
  BY <1>1, <1>2, <1>3, <1>4, <1>5 DEF Next, SweepStep
<1>7. PICK taken \in IdleChoices : victim' = [r \in Session |-> IF r \in taken THEN hosted[r] ELSE 0]
  BY <1>6 DEF SweepPick
<1>8. s \in taken BY <1>7 DEF SweepTakes
<1>9. \A r \in taken : r \in Idle /\ age[r] \in {1, 2} BY <1>7 DEF IdleChoices
<1> QED BY <1>6, <1>8, <1>9 DEF Idle, SweepPick

\* The sweep never cuts a turn short or drops a message, although it reads the
\* busy set and the claims before it takes the sessions lock: a message or the
\* end of background work makes its session active first, and a turn that goes
\* on is busy since before the sweep looked (close_idle).
THEOREM IdleCloseIsSafe == Spec => IdleCloseCutsNoTurn
  <1>1. ASSUME Restful, [Next]_vars, NEW s \in Session, SweepTakes(s)
        PROVE  ~turn[hosted[s]] /\ Unread(hosted[s]) = {}
    <2>1. age[s] # 0 /\ ~held[s] /\ sweepAt = "pick" /\ s \notin spared
      BY <1>1, TakesRested
    <2>2. Rested(s) BY <1>1 DEF Restful
    <2>3. ~turn[hosted[s]] BY <2>1, <2>2 DEF Rested, Spares
    <2>4. NoMessage(inbox[hosted[s]]) BY <2>1, <2>2 DEF Rested
    <2> QED BY <2>3, <2>4 DEF Unread, NoMessage
  <1>2. Restful /\ [Next]_vars =>
            [\A s \in Session : SweepTakes(s) => ~turn[hosted[s]] /\ Unread(hosted[s]) = {}]_vars
    BY <1>1
  <1> QED BY <1>2, InitRestful, NextRestful, PTL DEF Spec, IdleCloseCutsNoTurn

=============================================================================
