---------------------------- MODULE ScheduledRuns ----------------------------
(***************************************************************************)
(* A scheduled task and its runs (crates/daemon/src/schedules.rs).  A run  *)
(* is claimed under the schedules' lock and started by a thread of its     *)
(* own, which makes a session and prompts it; the session's thread reports *)
(* how it goes; the minute sweep stops runs that take too long or cost too *)
(* much; clients switch the task on and off.  Each takes the lock anew for *)
(* every look at the task and for every change, and an action is one such  *)
(* critical section.  A run and its session have one number: the code      *)
(* makes a new session for every run.                                      *)
(***************************************************************************)
EXTENDS Naturals

CONSTANTS
    MaxFailures,    \* MAX_FAILURES
    MaxRuns,        \* bound: runs claimed
    MaxUpsets       \* bound: changes by clients and restarts of the daemon

ASSUME RunsAssumption ==
    /\ {MaxFailures, MaxRuns} \subseteq Nat \ {0}
    /\ MaxUpsets \in Nat

VARIABLES
    task,       \* the task: exists, enabled, failures
    last,       \* its last_run: run, session, status, followed
    fired,      \* the scheduler took the task as due and has yet to claim
    start,      \* per run: where its starting thread is
    engine,     \* per run: its session's engine
    awaited,    \* the last run's session has background work that comes back
    decided,    \* per run: the change its session's thread is about to make
    settle,     \* where settle_runs is: the session, and the change it decided on
    stop,       \* the run the sweep is about to stop, for its time or its cost
    stale,      \* a session's change has hit a failed run, or another one's
    overtaken,  \* the sweep has put the last run back in background over a follow-up
    upsets

runsVars == <<task, last, fired, start, engine, awaited, decided, settle, stop, stale,
              overtaken, upsets>>

\* Runs count from 1; 0 is no run, and no session.
Run == 1..MaxRuns
Status == {"running", "waiting", "background", "done", "failed"}
Going == {"running", "waiting", "background"}
Change == Status \cup {"follow", "toDone", "toBackground", "none"}

RunsTypeOK ==
    /\ task \in [exists : BOOLEAN, enabled : BOOLEAN, failures : Nat]
    /\ last \in [run : 0..MaxRuns, session : 0..MaxRuns, status : Status,
                 followed : BOOLEAN]
    /\ fired \in BOOLEAN
    /\ start \in [Run -> {"none", "create", "name", "prompt"}]
    /\ engine \in [Run -> {"none", "open", "ended"}]
    /\ awaited \in BOOLEAN
    /\ decided \in [Run -> Change]
    /\ settle \in [session : 0..MaxRuns, change : {"none", "toDone", "toBackground"}]
    /\ stale \in BOOLEAN
    /\ overtaken \in BOOLEAN
    /\ stop \in 0..MaxRuns
    /\ upsets \in 0..MaxUpsets

\* settle_runs has no session in hand.
Unsettled == [session |-> 0, change |-> "none"]

NoRun == [run |-> 0, session |-> 0, status |-> "done", followed |-> FALSE]

RunsInit ==
    /\ \E enabled \in BOOLEAN :
           task = [exists |-> TRUE, enabled |-> enabled, failures |-> 0]
    /\ last = NoRun
    /\ fired = FALSE
    /\ start = [r \in Run |-> "none"]
    /\ engine = [r \in Run |-> "none"]
    /\ awaited = FALSE
    /\ decided = [r \in Run |-> "none"]
    /\ settle = Unsettled
    /\ stop = 0
    /\ stale = FALSE
    /\ overtaken = FALSE
    /\ upsets = 0

-----------------------------------------------------------------------------
(* What the changes do to the task, under the lock *)

\* Its latest run is not over.
Running == task.exists /\ last.status \in Going

\* fail_run, of the run in `session`: any run that has this session now.
FailRun(session) ==
    IF task.exists /\ last.run # 0 /\ last.session = session /\ last.status # "failed"
      THEN LET count == task.failures + (IF task.enabled THEN 1 ELSE 0)
               off == task.enabled /\ count >= MaxFailures
           IN  /\ last' = [last EXCEPT !.status = "failed"]
               /\ task' = [task EXCEPT !.failures = count, !.enabled = @ /\ ~off]
      ELSE UNCHANGED <<task, last>>

\* The last run gets this status, whichever run is the last by now.
SetStatus(status) ==
    IF task.exists
      THEN /\ last' = [last EXCEPT !.status = status]
           /\ task' = [task EXCEPT !.failures = IF status = "done" THEN 0 ELSE @]
      ELSE UNCHANGED <<task, last>>

\* run_activity's second half: only from the status it has read.
SetStatusFrom(before, status) ==
    IF last.status = before THEN SetStatus(status) ELSE UNCHANGED <<task, last>>

\* The change a thread decided on when it last had the lock.
Apply(change, r) ==
    CASE change = "follow" ->
             /\ last' = IF task.exists THEN [last EXCEPT !.followed = TRUE, !.status = "done"]
                        ELSE last
             /\ UNCHANGED task
      [] change = "failed" -> FailRun(r)
      [] change = "toDone" -> SetStatusFrom("background", "done")
      [] change = "toBackground" -> SetStatusFrom("done", "background")
      [] OTHER -> SetStatus(change)

-----------------------------------------------------------------------------
(* Claiming and starting a run *)

\* The task's next time comes: the scheduler moves the task to the one after,
\* which a one-off task has not, so it is off from now on.
Fire ==
    /\ ~fired /\ settle = Unsettled /\ task.exists /\ task.enabled
    /\ \E once \in BOOLEAN : task' = [task EXCEPT !.enabled = ~once]
    /\ fired' = TRUE
    /\ UNCHANGED <<last, start, engine, awaited, decided, settle, stop, stale,
                   overtaken, upsets>>

\* A new run becomes the last one, unless that is still going: the claim.
ClaimRun ==
    IF task.exists /\ ~Running
      THEN /\ last.run < MaxRuns
           /\ last' = [run |-> last.run + 1, session |-> 0, status |-> "running",
                       followed |-> FALSE]
           /\ start' = [start EXCEPT ![last.run + 1] = "create"]
           /\ overtaken' = FALSE
      ELSE UNCHANGED <<last, start, overtaken>>

\* The due task is claimed; or this time is skipped, or the task is gone.
ClaimFired ==
    /\ fired /\ fired' = FALSE
    /\ ClaimRun
    /\ UNCHANGED <<task, engine, awaited, decided, settle, stop, stale, upsets>>

\* A client runs the task now, be it switched off.
RunNow ==
    /\ task.exists /\ ~Running
    /\ ClaimRun
    /\ UNCHANGED <<task, fired, engine, awaited, decided, settle, stop, stale, upsets>>

\* open_run's session is made and hosted.
CreateSession(r) ==
    /\ start[r] = "create"
    /\ start' = [start EXCEPT ![r] = "name"]
    /\ engine' = [engine EXCEPT ![r] = "open"]
    /\ UNCHANGED <<task, last, fired, awaited, decided, settle, stop, stale, overtaken,
                   upsets>>

\* The run names its session: it is the last run, the code trusts.
Name(r) ==
    /\ start[r] = "name"
    /\ last' = IF task.exists THEN [last EXCEPT !.session = r] ELSE last
    /\ awaited' = FALSE
    /\ start' = [start EXCEPT ![r] = "prompt"]
    /\ UNCHANGED <<task, fired, engine, decided, settle, stop, stale, overtaken, upsets>>

\* The mode and the prompt go to the session.
Prompt(r) ==
    /\ start[r] = "prompt" /\ engine[r] = "open"
    /\ start' = [start EXCEPT ![r] = "none"]
    /\ UNCHANGED <<task, last, fired, engine, awaited, decided, settle, stop, stale,
                   overtaken, upsets>>

\* Its session is not made (the directory is gone, the engine does not start),
\* or its engine has ended before the prompt.
CannotStart(r) == start[r] = "create" \/ (start[r] = "prompt" /\ engine[r] = "ended")

\* (Slip: the start's error is returned and the run left as it is.)
ReturnsError(r) ==
    /\ CannotStart(r)
    /\ start' = [start EXCEPT ![r] = "none"]
    /\ UNCHANGED <<task, last, fired, engine, awaited, decided, settle, stop, stale,
                   overtaken, upsets>>

\* start_run fails the run; it looks for one without a session.
StartFails(r) ==
    /\ CannotStart(r)
    /\ FailRun(0)
    /\ start' = [start EXCEPT ![r] = "none"]
    /\ UNCHANGED <<fired, engine, awaited, decided, settle, stop, stale, overtaken,
                   upsets>>

Starter(r) ==
    CreateSession(r) \/ Name(r) \/ Prompt(r) \/ StartFails(r)

-----------------------------------------------------------------------------
(* The session's thread: it looks at the run, then changes it *)

\* (Slip: a run the user has followed up is observed all the same.)
ObservedStill(r) == task.exists /\ last.session = r /\ last.status # "failed"

\* The run in session r is the last run, and neither failed nor the user's.
Observed(r) ==
    task.exists /\ last.session = r /\ last.status # "failed" /\ ~last.followed

\* The turn works, waits for an approval, ends with an action put off (waiting
\* too), or ends (`over`).
Observe(r) ==
    /\ engine[r] = "open" /\ decided[r] = "none" /\ Observed(r)
    /\ \E change \in {"running", "waiting", "failed",
                      IF awaited THEN "background" ELSE "done"} :
        /\ change # last.status
        /\ decided' = [decided EXCEPT ![r] = change]
    /\ UNCHANGED <<task, last, fired, start, engine, awaited, settle, stop, stale,
                   overtaken, upsets>>

\* The user writes in a session whose run's turn has ended.
UserMessage(r) ==
    /\ engine[r] = "open" /\ decided[r] = "none"
    /\ Observed(r) /\ last.status \in {"done", "background"}
    /\ decided' = [decided EXCEPT ![r] = "follow"]
    /\ UNCHANGED <<task, last, fired, start, engine, awaited, settle, stop, stale,
                   overtaken, upsets>>

\* run_activity's first half: what the background work says of the run.  (It
\* also waits for a turn that is going; whether one is, is left open here.)
Activity(r) ==
    CASE Observed(r) /\ last.status = "done" /\ awaited -> "toBackground"
      [] Observed(r) /\ last.status = "background" /\ ~awaited -> "toDone"
      [] OTHER -> "none"

\* (What goes on in the sessions of earlier runs is left out: nothing reads it.)
Latest(r) == task.exists /\ last.session = r

\* Background work that comes back to the session starts or ends.
SetBackground(r) ==
    /\ Latest(r) /\ engine[r] = "open" /\ decided[r] = "none"
    /\ awaited' = ~awaited
    /\ UNCHANGED <<task, last, fired, start, engine, decided, settle, stop, stale,
                   overtaken, upsets>>

\* After that, and whenever the engine is ready: run_activity.
RunActivity(r) ==
    /\ engine[r] = "open" /\ decided[r] = "none" /\ Activity(r) # "none"
    /\ decided' = [decided EXCEPT ![r] = Activity(r)]
    /\ UNCHANGED <<task, last, fired, start, engine, awaited, settle, stop, stale,
                   overtaken, upsets>>

\* The engine ends: a run that was working, or waiting on work, fails.
EngineEnds(r) ==
    /\ Latest(r) \/ start[r] = "name"
    /\ engine[r] = "open" /\ decided[r] = "none"
    /\ engine' = [engine EXCEPT ![r] = "ended"]
    /\ awaited' = (awaited /\ ~Latest(r))
    /\ IF Latest(r) /\ last.status \in {"running", "background"}
         THEN decided' = [decided EXCEPT ![r] = "failed"]
         ELSE UNCHANGED decided
    /\ UNCHANGED <<task, last, fired, start, settle, stop, stale, overtaken, upsets>>

\* A client opens the session again.
Reopen(r) ==
    /\ Latest(r) /\ engine[r] = "ended" /\ decided[r] = "none"
    /\ engine' = [engine EXCEPT ![r] = "open"]
    /\ UNCHANGED <<task, last, fired, start, awaited, decided, settle, stop, stale,
                   overtaken, upsets>>

\* The change the thread decided on is made.  A status is set whatever the
\* run's status is by now, and whichever run is the last.
Report(r) ==
    /\ decided[r] # "none"
    /\ Apply(decided[r], r)
    /\ stale' = \/ stale
                \/ /\ decided[r] # "failed"
                   /\ last.session # r \/ last.status = "failed"
    /\ decided' = [decided EXCEPT ![r] = "none"]
    /\ UNCHANGED <<fired, start, engine, awaited, settle, stop, overtaken, upsets>>

-----------------------------------------------------------------------------
(* The sweep *)

\* (Slip: only runs with an open engine are stopped.)
PicksHosted ==
    /\ stop = 0 /\ Running /\ last.session # 0 /\ engine[last.session] = "open"
    /\ stop' = last.session
    /\ UNCHANGED <<task, last, fired, start, engine, awaited, decided, settle, stale,
                   overtaken, upsets>>

\* time_out_runs finds the run in a session going for RUN_TIMEOUT_MS, or
\* check_budgets finds that it costs too much...
Pick ==
    /\ stop = 0 /\ Running /\ last.session # 0
    /\ stop' = last.session
    /\ UNCHANGED <<task, last, fired, start, engine, awaited, decided, settle, stale,
                   overtaken, upsets>>

\* ... and, its session interrupted, fails the run.
StopRun ==
    /\ stop # 0
    /\ FailRun(stop)
    /\ stop' = 0
    /\ UNCHANGED <<fired, start, engine, awaited, decided, settle, stale, overtaken,
                   upsets>>

\* settle_runs, on the thread that starts due tasks, lists the runs that wait on
\* background work...
SettlePick ==
    /\ settle = Unsettled /\ ~fired /\ task.exists
    /\ last.session # 0 /\ last.status = "background"
    /\ settle' = [session |-> last.session, change |-> "none"]
    /\ UNCHANGED <<task, last, fired, start, engine, awaited, decided, stop, stale,
                   overtaken, upsets>>

\* ... and takes the lock anew to look at the run, in run_activity: it may be
\* done by now, and wait again (or its session may be busy with a turn) ...
SettleLook ==
    /\ settle.session # 0 /\ settle.change = "none"
    /\ \E change \in {Activity(settle.session), "none"} :
           settle' = IF change = "none" THEN Unsettled ELSE [settle EXCEPT !.change = change]
    /\ UNCHANGED <<task, last, fired, start, engine, awaited, decided, stop, stale,
                   overtaken, upsets>>

\* ... and once more to move it on, from the status it has read: of a follow-up
\* in between it sees nothing.
Settle ==
    /\ settle.change # "none"
    /\ Apply(settle.change, 0)
    /\ settle' = Unsettled
    /\ overtaken' = (overtaken \/ (last.followed /\ last'.status # last.status))
    /\ UNCHANGED <<fired, start, engine, awaited, decided, stop, stale, upsets>>

-----------------------------------------------------------------------------
(* Clients, and the daemon *)

\* (Slip: the failures so far still count.)
SavesOnly(enabled) ==
    /\ task.exists /\ upsets < MaxUpsets /\ upsets' = upsets + 1
    /\ task' = [task EXCEPT !.enabled = enabled]
    /\ UNCHANGED <<last, fired, start, engine, awaited, decided, settle, stop, stale,
                   overtaken>>

\* A client switches the task on or off: switched on again, its failures so
\* far no longer count.
SaveSchedule(enabled) ==
    /\ task.exists /\ upsets < MaxUpsets /\ upsets' = upsets + 1
    /\ task' = [task EXCEPT !.enabled = enabled,
                            !.failures = IF enabled /\ ~task.enabled THEN 0 ELSE @]
    /\ UNCHANGED <<last, fired, start, engine, awaited, decided, settle, stop, stale,
                   overtaken>>

\* The task goes, its record of the last run with it; the session stays.
DeleteSchedule ==
    /\ task.exists /\ upsets < MaxUpsets /\ upsets' = upsets + 1
    /\ task' = [exists |-> FALSE, enabled |-> FALSE, failures |-> 0]
    /\ last' = NoRun
    /\ UNCHANGED <<fired, start, engine, awaited, decided, settle, stop, stale,
                   overtaken>>

\* The daemon stops, its threads and engines with it, and starts on the saved
\* schedules: a run that was going failed, unless it waits on an action that is
\* put off, and kept.
Restart ==
    /\ upsets < MaxUpsets /\ upsets' = upsets + 1
    /\ \/ Running /\ last' = [last EXCEPT !.status = "failed"]
       \/ ~Running /\ UNCHANGED last
       \/ last.status = "waiting" /\ last.session # 0 /\ UNCHANGED last
    /\ fired' = FALSE
    /\ start' = [r \in Run |-> "none"]
    /\ engine' = [r \in Run |-> IF engine[r] = "none" THEN "none" ELSE "ended"]
    /\ awaited' = FALSE
    /\ decided' = [r \in Run |-> "none"]
    /\ settle' = Unsettled
    /\ stop' = 0
    /\ UNCHANGED <<task, stale, overtaken>>

RunsNext ==
    \/ Fire \/ ClaimFired \/ RunNow
    \/ \E r \in Run : \/ Starter(r)
                      \/ Observe(r) \/ UserMessage(r) \/ SetBackground(r) \/ RunActivity(r)
                      \/ EngineEnds(r) \/ Reopen(r) \/ Report(r)
    \/ Pick \/ StopRun \/ SettlePick \/ SettleLook \/ Settle
    \/ \E enabled \in BOOLEAN : SaveSchedule(enabled)
    \/ DeleteSchedule \/ Restart

RunsSpec == RunsInit /\ [][RunsNext]_runsVars

\* The clock and the daemon's thread that sweeps every minute go on.  Nothing
\* is asked of the threads that start runs and of the sessions.
RunsFairSpec == RunsSpec /\ WF_runsVars(Pick) /\ WF_runsVars(StopRun)

-----------------------------------------------------------------------------
(* Properties *)

\* A task that has failed MAX_FAILURES times in a row is off, whoever
\* switched it on meanwhile (fail_run, save_schedule).
SwitchedOffInTime == task.enabled => task.failures < MaxFailures

\* A run without a session is one whose start is under way: the sweep stops
\* only runs with a session, so any other would hold the task up for good.
\* (start_run, time_out_runs; a stale report may set such a run going again.)
StartIsUnderWay ==
    ~stale /\ Running /\ last.session = 0 => start[last.run] \in {"create", "name"}

\* Once the user has written in a session whose run had ended, the run stays
\* over, so no timeout and no budget is applied there any more, unless the
\* sweep had read the run as done and waiting again and writes that only after
\* the message (observe_run_event, run_activity).
FollowedRunIsOver == ~stale /\ last.followed /\ ~overtaken => ~Running

\* A run in a session does not go on for ever, so later times run again,
\* whatever its session, its start, the user and a restart do (time_out_runs).
RunsEnd ==
    \A r \in Run : (Running /\ last.run = r /\ last.session # 0)
                   ~> ~(Running /\ last.run = r)

=============================================================================
