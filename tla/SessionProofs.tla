--------------------------- MODULE SessionProofs ---------------------------
(***************************************************************************)
(* Proofs about sessions: the lock of a session (SessionLock), and the     *)
(* sessions no client starts, those of scheduled tasks (ScheduledRuns) and *)
(* those another session hands work to (SubSessions).  All hold for any    *)
(* number of processes, engines, runs, calls, messages and mishaps.        *)
(*                                                                         *)
(* The lock excludes whatever dies, unless the read of a stale lock file   *)
(* and its removal have another engine's new file between them: only this  *)
(* makes an engine remove a file of one that lives.                        *)
(*                                                                         *)
(* A task that keeps failing is switched off in time: the count is         *)
(* compared and the switch turned in one critical section (fail_run), and  *)
(* switching on starts the count anew (save_schedule).  While no change    *)
(* was made to a run other than the one it was seen in, a run that is      *)
(* starting is one that is under way, and a run the user has followed up   *)
(* is over for good.                                                       *)
(*                                                                         *)
(* A parent is told when its child's engine goes, and a child told to be   *)
(* done asks nothing and has one message's reply.                          *)
(***************************************************************************)
EXTENDS SessionLock, ScheduledRuns, SubSessions, TLAPS

-----------------------------------------------------------------------------
\* --- the lock of a session ---

\* Its process was not killed.
Alive(e) == Of[e] \notin dead

\* The engine created the file of s and has not let go of it.
Owns(e, s) == Holds(e, s) \/ (want[e] = s /\ pc[e] = "release")

\* An engine that lets go of a session is on another one.
Switching == \A e \in Engine : pc[e] \notin {"idle", "killed"} =>
                want[e] \in Session /\ mine[e] # want[e]

\* A killed engine holds nothing, ...
Buried == \A e \in Engine : ~Alive(e) => mine[e] = None /\ want[e] = None /\ pc[e] = "killed"

\* ... and a pid in a file is of its creator's process, ...
Signed ==
    \A s \in Session : file[s].pid # None => file[s].by \in Engine /\ file[s].pid = Of[file[s].by]

\* ... so that a pid that is known to have gone was of one that holds nothing.
Departed == \A e \in Engine : pc[e] = "remove" => seen[e] \in dead

\* OneHolder alone says nothing of the files; it is kept because every owner's
\* file is its own, and a file has one creator.
Owned ==
    \A s \in Session \ snatched : \A e \in Engine : Owns(e, s) => file[s].by = e

LockInv == TypeOK /\ Switching /\ Buried /\ Signed /\ Departed /\ Owned

LEMMA LockInit ==
    ASSUME Init
    PROVE  LockInv
  BY LockAssumption DEF Init, LockInv, TypeOK, Switching, Buried, Signed, Departed, Alive,
         Owned, Owns, Holds, NoFile

LEMMA NoFileTyped ==
    NoFile \in [by : Engine \cup {None}, pid : Process \cup {None}]
  BY DEF NoFile

\* Nothing an engine does in one command keeps the state from being typed.
LEMMA LockTyped ==
    ASSUME LockInv, [Next]_vars
    PROVE  TypeOK'
  <1> USE LockAssumption DEF LockInv, TypeOK
  <1>1. ASSUME NEW e \in Engine, Create(e) PROVE TypeOK'
    <2>1. [by |-> e, pid |-> None] \in [by : Engine \cup {None}, pid : Process \cup {None}]
      OBVIOUS
    <2>2. file' \in [Session -> [by : Engine \cup {None}, pid : Process \cup {None}]]
      BY <1>1, <2>1 DEF Create
    <2> QED BY <1>1, <2>2 DEF Create, At, GoTo
  <1>2. ASSUME NEW e \in Engine, WritePid(e) PROVE TypeOK'
    BY <1>2 DEF WritePid, At, GoTo
  <1>3. ASSUME NEW e \in Engine, Loads(e) PROVE TypeOK'
    BY <1>3 DEF Loads, At, GoTo, Finish
  <1>4. ASSUME NEW e \in Engine, LoadFails(e) \/ Release(e) PROVE TypeOK'
    <2>1. file' \in [Session -> [by : Engine \cup {None}, pid : Process \cup {None}]]
      BY <1>4, NoFileTyped DEF LoadFails, Release
    <2> QED BY <1>4, <2>1 DEF LoadFails, Release, At, GoTo, Finish
  <1>5. ASSUME NEW e \in Engine, ReadPid(e) PROVE TypeOK'
    BY <1>5 DEF ReadPid, At, GoTo, Switching, IsStale
  <1>6. ASSUME NEW e \in Engine, Remove(e) PROVE TypeOK'
    <2>1. file' \in [Session -> [by : Engine \cup {None}, pid : Process \cup {None}]]
      BY <1>6, NoFileTyped DEF Remove
    <2> QED BY <1>6, <2>1 DEF Remove, At, GoTo
  <1>7. ASSUME NEW e \in Engine, Decide(e) \/ CreateFails(e) PROVE TypeOK'
    BY <1>7 DEF Decide, CreateFails, At, GoTo, Finish
  <1>8. ASSUME NEW e \in Engine, Deadline(e) \/ Close(e) PROVE TypeOK'
    <2>1. file' \in [Session -> [by : Engine \cup {None}, pid : Process \cup {None}]]
      BY <1>8, NoFileTyped DEF Deadline, Close
    <2> QED BY <1>8, <2>1 DEF Deadline, Close, At
  <1>9. ASSUME NEW e \in Engine, NEW s \in Session, Resume(e, s) PROVE TypeOK'
    BY <1>9 DEF Resume, At, GoTo
  <1>10. ASSUME NEW p \in Process, Crash(p) PROVE TypeOK'
    <2>1. /\ seen' \in [Engine -> Process \cup {None}] /\ late' \in [Engine -> BOOLEAN]
          /\ pc' \in [Engine -> {"idle", "create", "write", "load", "release", "read",
                                 "remove", "decide", "drop", "killed"}]
      BY <1>10 DEF Crash
    <2>2. mine' \in [Engine -> Session \cup {None}] /\ want' \in [Engine -> Session \cup {None}]
      BY <1>10 DEF Crash
    <2>3. crashes' \in 0..MaxCrashes /\ dead' \subseteq Process
      BY <1>10 DEF Crash
    <2>4. UNCHANGED <<file, snatched>>
      BY <1>10 DEF Crash
    <2> QED BY <2>1, <2>2, <2>3, <2>4
  <1>11. CASE UNCHANGED vars
    BY <1>11 DEF vars
  <1> QED BY <1>1, <1>2, <1>3, <1>4, <1>5, <1>6, <1>7, <1>8, <1>9, <1>10, <1>11
          DEF Next, Acquire

\* A session being let go of is never the one the engine is on.
LEMMA LockSwitching ==
    ASSUME LockInv, [Next]_vars
    PROVE  Switching'
  <1> USE LockAssumption DEF LockInv, TypeOK, Switching
  <1>1. ASSUME NEW e \in Engine,
               Create(e) \/ WritePid(e) \/ ReadPid(e) \/ Remove(e)
        PROVE  Switching'
    BY <1>1 DEF Create, WritePid, ReadPid, Remove, At, GoTo
  <1>2. ASSUME NEW e \in Engine, Loads(e) PROVE Switching'
    BY <1>2 DEF Loads, At, GoTo, Finish
  <1>3. ASSUME NEW e \in Engine,
               LoadFails(e) \/ Release(e) \/ Decide(e) \/ CreateFails(e)
        PROVE  Switching'
    BY <1>3 DEF LoadFails, Release, Decide, CreateFails, At,
           GoTo, Finish
  <1>4. ASSUME NEW e \in Engine, Deadline(e) \/ Close(e) PROVE Switching'
    BY <1>4 DEF Deadline, Close, At
  <1>5. ASSUME NEW e \in Engine, NEW s \in Session, Resume(e, s) PROVE Switching'
    BY <1>5 DEF Resume, At, GoTo
  <1>6. ASSUME NEW p \in Process, Crash(p) PROVE Switching'
    BY <1>6 DEF Crash
  <1>7. CASE UNCHANGED vars
    BY <1>7 DEF vars
  <1> QED BY <1>1, <1>2, <1>3, <1>4, <1>5, <1>6, <1>7 DEF Next, Acquire

\* The killed stay so.
LEMMA LockBuried ==
    ASSUME LockInv, [Next]_vars
    PROVE  Buried'
  <1> USE LockAssumption DEF LockInv, TypeOK, Switching, Buried, Alive
  <1>1. ASSUME NEW e \in Engine, Create(e) PROVE Buried'
    BY <1>1 DEF Create, At, GoTo, NoFile
  <1>2. ASSUME NEW e \in Engine, WritePid(e) PROVE Buried'
    BY <1>2 DEF WritePid, At, GoTo
  <1>3. ASSUME NEW e \in Engine, Loads(e) PROVE Buried'
    BY <1>3 DEF Loads, At, GoTo, Finish
  <1>4. ASSUME NEW e \in Engine, LoadFails(e) \/ Release(e) PROVE Buried'
    BY <1>4 DEF LoadFails, Release, At, GoTo, Finish, NoFile
  <1>5. ASSUME NEW e \in Engine, ReadPid(e) PROVE Buried'
    BY <1>5 DEF ReadPid, IsStale, At, GoTo
  <1>6. ASSUME NEW e \in Engine, Remove(e) PROVE Buried'
    BY <1>6 DEF Remove, Renewed, At, GoTo, NoFile
  <1>7. ASSUME NEW e \in Engine, Decide(e) \/ CreateFails(e) PROVE Buried'
    BY <1>7 DEF Decide, CreateFails, At, GoTo, Finish
  <1>8. ASSUME NEW e \in Engine, Deadline(e) PROVE Buried'
    BY <1>8 DEF Deadline
  <1>9. ASSUME NEW e \in Engine, Close(e) PROVE Buried'
    BY <1>9 DEF Close, At, NoFile
  <1>10. ASSUME NEW e \in Engine, NEW s \in Session, Resume(e, s) PROVE Buried'
    BY <1>10 DEF Resume, At, GoTo
  <1>11. ASSUME NEW p \in Process, Crash(p) PROVE Buried'
    BY <1>11 DEF Crash
  <1>12. CASE UNCHANGED vars
    BY <1>12 DEF vars
  <1> QED BY <1>1, <1>2, <1>3, <1>4, <1>5, <1>6, <1>7, <1>8, <1>9, <1>10, <1>11, <1>12
          DEF Next, Acquire

\* An engine writes its own pid, into its own file.
LEMMA LockSigned ==
    ASSUME LockInv, [Next]_vars
    PROVE  Signed'
  <1> USE LockAssumption DEF LockInv, TypeOK, Switching, Signed
  <1>1. ASSUME NEW e \in Engine, Create(e) PROVE Signed'
    <2> SUFFICES ASSUME NEW s \in Session, file'[s].pid # None
                 PROVE  file'[s].by \in Engine /\ file'[s].pid = Of[file'[s].by]
      BY DEF Signed
    <2>1. file'[s] # file[s] => s = want[e]
      BY <1>1 DEF Create
    <2>2. CASE file'[s] = file[s]
      BY <2>2
    <2>3. CASE s = want[e]
      BY <1>1, <2>3 DEF Create, NoFile
    <2> QED BY <2>1, <2>2, <2>3
  <1>2. ASSUME NEW e \in Engine, WritePid(e) PROVE Signed'
    <2> SUFFICES ASSUME NEW s \in Session, file'[s].pid # None
                 PROVE  file'[s].by \in Engine /\ file'[s].pid = Of[file'[s].by]
      BY DEF Signed
    <2>1. file'[s] # file[s] => s = want[e]
      BY <1>2 DEF WritePid
    <2>2. CASE file'[s] = file[s]
      BY <2>2
    <2>3. CASE s = want[e]
      BY <1>2, <2>3 DEF WritePid
    <2> QED BY <2>1, <2>2, <2>3
  <1>3. ASSUME NEW e \in Engine, Loads(e) PROVE Signed'
    BY <1>3 DEF Loads, At, GoTo, Finish
  <1>4. ASSUME NEW e \in Engine, LoadFails(e) \/ Release(e) PROVE Signed'
    <2>1. file' = [file EXCEPT ![want[e]] = NoFile]
      BY <1>4 DEF LoadFails, Release
    <2> QED BY <2>1 DEF NoFile
  <1>5. ASSUME NEW e \in Engine, ReadPid(e) PROVE Signed'
    BY <1>5 DEF ReadPid, IsStale, At, GoTo
  <1>6. ASSUME NEW e \in Engine, Remove(e) PROVE Signed'
    BY <1>6 DEF Remove, Renewed, At, GoTo, NoFile
  <1>7. ASSUME NEW e \in Engine, Decide(e) \/ CreateFails(e) PROVE Signed'
    BY <1>7 DEF Decide, CreateFails, At, GoTo, Finish
  <1>8. ASSUME NEW e \in Engine, Deadline(e) PROVE Signed'
    BY <1>8 DEF Deadline
  <1>9. ASSUME NEW e \in Engine, Close(e) PROVE Signed'
    BY <1>9 DEF Close, At, NoFile
  <1>10. ASSUME NEW e \in Engine, NEW s \in Session, Resume(e, s) PROVE Signed'
    BY <1>10 DEF Resume, At, GoTo
  <1>11. ASSUME NEW p \in Process, Crash(p) PROVE Signed'
    BY <1>11 DEF Crash
  <1>12. CASE UNCHANGED vars
    BY <1>12 DEF vars
  <1> QED BY <1>1, <1>2, <1>3, <1>4, <1>5, <1>6, <1>7, <1>8, <1>9, <1>10, <1>11, <1>12
          DEF Next, Acquire

\* A pid is taken for stale when its process has gone, and the dead stay dead.
LEMMA LockDeparted ==
    ASSUME LockInv, [Next]_vars
    PROVE  Departed'
  <1> USE LockAssumption DEF LockInv, TypeOK, Departed
  <1>1. ASSUME NEW e \in Engine, Create(e) PROVE Departed'
    BY <1>1 DEF Create, At, GoTo, NoFile
  <1>2. ASSUME NEW e \in Engine, WritePid(e) PROVE Departed'
    BY <1>2 DEF WritePid, At, GoTo
  <1>3. ASSUME NEW e \in Engine, Loads(e) PROVE Departed'
    BY <1>3 DEF Loads, At, GoTo, Finish
  <1>4. ASSUME NEW e \in Engine, LoadFails(e) \/ Release(e) PROVE Departed'
    BY <1>4 DEF LoadFails, Release, At, GoTo, Finish, NoFile
  <1>5. ASSUME NEW e \in Engine, ReadPid(e) PROVE Departed'
    BY <1>5 DEF ReadPid, IsStale, At, GoTo
  <1>6. ASSUME NEW e \in Engine, Remove(e) PROVE Departed'
    BY <1>6 DEF Remove, Renewed, At, GoTo, NoFile
  <1>7. ASSUME NEW e \in Engine, Decide(e) \/ CreateFails(e) PROVE Departed'
    BY <1>7 DEF Decide, CreateFails, At, GoTo, Finish
  <1>8. ASSUME NEW e \in Engine, Deadline(e) PROVE Departed'
    BY <1>8 DEF Deadline
  <1>9. ASSUME NEW e \in Engine, Close(e) PROVE Departed'
    BY <1>9 DEF Close, At, NoFile
  <1>10. ASSUME NEW e \in Engine, NEW s \in Session, Resume(e, s) PROVE Departed'
    BY <1>10 DEF Resume, At, GoTo
  <1>11. ASSUME NEW p \in Process, Crash(p) PROVE Departed'
    BY <1>11 DEF Crash
  <1>12. CASE UNCHANGED vars
    BY <1>12 DEF vars
  <1> QED BY <1>1, <1>2, <1>3, <1>4, <1>5, <1>6, <1>7, <1>8, <1>9, <1>10, <1>11, <1>12
          DEF Next, Acquire

\* A lock file is removed by its creator, or for one whose process has gone, or
\* else it was snatched.
LEMMA LockOwned ==
    ASSUME LockInv, [Next]_vars
    PROVE  Owned'
  <1> USE LockAssumption DEF LockInv, TypeOK, Switching, Owned, Owns, Holds
  <1>1. ASSUME NEW e \in Engine, Create(e) PROVE Owned'
    BY <1>1 DEF Create, At, GoTo, NoFile
  <1>2. ASSUME NEW e \in Engine, WritePid(e) PROVE Owned'
    BY <1>2 DEF WritePid, At, GoTo
  <1>3. ASSUME NEW e \in Engine, Loads(e) PROVE Owned'
    BY <1>3 DEF Loads, At, GoTo, Finish
  <1>4. ASSUME NEW e \in Engine, LoadFails(e) \/ Release(e) PROVE Owned'
    BY <1>4 DEF LoadFails, Release, At, GoTo, Finish, NoFile
  <1>5. ASSUME NEW e \in Engine, ReadPid(e) PROVE Owned'
    BY <1>5 DEF ReadPid, IsStale, At, GoTo
  <1>6. ASSUME NEW e \in Engine, Remove(e) PROVE Owned'
    <2>1. want[e] \in Session /\ seen[e] \in dead
      BY <1>6 DEF At, Remove, Departed
    <2>2. ASSUME NEW s \in Session, s = want[e], s \notin snatched',
                 NEW d \in Engine, Owns(d, s)
          PROVE  FALSE
      <3>1. s \notin snatched /\ ~Renewed(e, s)
        BY <1>6, <2>2 DEF Remove
      <3>2. file[s].by = d
        BY <2>2, <3>1
      <3>3. file[s].pid = seen[e]
        <4>1. file[s] # NoFile
          BY <3>2 DEF NoFile
        <4> QED BY <3>1, <4>1 DEF Renewed
      <3>4. file[s].pid # None
        BY <2>1, <3>3
      <3>5. ~Alive(d)
        BY <2>1, <3>2, <3>3, <3>4 DEF Signed, Alive
      <3> QED BY <2>2, <3>5 DEF Buried
    <2> QED BY <1>6, <2>1, <2>2 DEF Remove, At, GoTo
  <1>7. ASSUME NEW e \in Engine, Decide(e) \/ CreateFails(e) PROVE Owned'
    BY <1>7 DEF Decide, CreateFails, At, GoTo, Finish
  <1>8. ASSUME NEW e \in Engine, Deadline(e) PROVE Owned'
    BY <1>8 DEF Deadline
  <1>9. ASSUME NEW e \in Engine, Close(e) PROVE Owned'
    BY <1>9 DEF Close, At, NoFile
  <1>10. ASSUME NEW e \in Engine, NEW s \in Session, Resume(e, s) PROVE Owned'
    BY <1>10 DEF Resume, At, GoTo
  <1>11. ASSUME NEW p \in Process, Crash(p) PROVE Owned'
    BY <1>11 DEF Crash
  <1>12. CASE UNCHANGED vars
    BY <1>12 DEF vars
  <1> QED BY <1>1, <1>2, <1>3, <1>4, <1>5, <1>6, <1>7, <1>8, <1>9, <1>10, <1>11, <1>12
          DEF Next, Acquire

\* The invariant is kept.
LEMMA LockStep ==
    LockInv /\ [Next]_vars => LockInv'
  <1>1. ASSUME LockInv, [Next]_vars PROVE LockInv'
    BY <1>1, LockTyped, LockSwitching, LockBuried, LockSigned, LockDeparted, LockOwned DEF LockInv
  <1> QED BY <1>1

\* No session has two holders, whatever they resume, close, fail to load or wait
\* for, and whichever of them are killed at whatever call, unless its new lock file
\* was removed for a stale one (SessionLock::acquire, Drop, resume_session_events).
THEOREM LockExcludes ==
    Spec => []OneHolder
  <1>1. LockInv => OneHolder
    BY LockAssumption DEF LockInv, Owned, Owns, OneHolder
  <1>0. Init => LockInv BY LockInit
  <1> QED BY <1>0, <1>1, LockStep, PTL DEF Spec

\* Nor does any holder lose its file but so.
THEOREM LockStays ==
    Spec => []HolderHasFile
  <1>1. LockInv => HolderHasFile
    BY DEF LockInv, Owned, Owns, HolderHasFile
  <1>0. Init => LockInv BY LockInit
  <1> QED BY <1>0, <1>1, LockStep, PTL DEF Spec

-----------------------------------------------------------------------------
\* --- scheduled runs ---

TaskTyped == task \in [exists : BOOLEAN, enabled : BOOLEAN, failures : Nat]

Counted == TaskTyped /\ SwitchedOffInTime

\* A failed run is counted, and the task switched off at the last failure it
\* may have; a run whose end changes nothing leaves the task alone (fail_run).
LEMMA FailRunCounts ==
    ASSUME Counted, NEW session, FailRun(session)
    PROVE  Counted'
<1> USE RunsAssumption DEF Counted, TaskTyped, SwitchedOffInTime
<1> DEFINE count == task.failures + (IF task.enabled THEN 1 ELSE 0)
           off == task.enabled /\ count >= MaxFailures
<1>1. \/ UNCHANGED task
      \/ task' = [task EXCEPT !.failures = count, !.enabled = task.enabled /\ ~off]
  BY DEF FailRun
<1>2. CASE UNCHANGED task
  BY <1>2
<1>3. CASE task' = [task EXCEPT !.failures = count, !.enabled = task.enabled /\ ~off]
  <2>1. count \in Nat
    OBVIOUS
  <2>2. task'.enabled => ~(count >= MaxFailures)
    BY <1>3
  <2>3. task'.failures = count
    BY <1>3
  <2>4. task' \in [exists : BOOLEAN, enabled : BOOLEAN, failures : Nat]
    BY <1>3, <2>1
  <2> QED
    BY <2>1, <2>2, <2>3, <2>4
<1> QED
  BY <1>1, <1>2, <1>3

\* A status that is set can only clear the count (observe_run_event).
LEMMA SetStatusCounts ==
    ASSUME Counted, NEW becomes, SetStatus(becomes)
    PROVE  Counted'
BY RunsAssumption DEF SetStatus, Counted, TaskTyped, SwitchedOffInTime

\* What a thread does to a run it looked at earlier counts right, too.
LEMMA ApplyCounts ==
    ASSUME Counted, NEW change \in Change, NEW r, Apply(change, r)
    PROVE  Counted'
<1>1. CASE change = "follow"
  BY <1>1 DEF Apply, Counted, TaskTyped, SwitchedOffInTime
<1>2. CASE change = "failed"
  BY <1>2, FailRunCounts DEF Apply
<1>3. CASE change \in {"toDone", "toBackground"}
  <2>1. \/ UNCHANGED task
        \/ \E becomes : SetStatus(becomes)
    BY <1>3 DEF Apply, SetStatusFrom
  <2> QED
    BY <2>1, SetStatusCounts DEF Counted, TaskTyped, SwitchedOffInTime
<1>4. CASE change \in {"running", "waiting", "background", "done", "none"}
  BY <1>4, SetStatusCounts DEF Apply
<1> QED
  BY <1>1, <1>2, <1>3, <1>4 DEF Change, Status

\* Every step counts the failures of the task right.
LEMMA CountedStays ==
    ASSUME decided \in [Run -> Change], settle.change \in {"none", "toDone", "toBackground"},
           Counted, [RunsNext]_runsVars
    PROVE  Counted'
<1> USE DEF Counted, TaskTyped, SwitchedOffInTime
<1>1. ASSUME NEW r \in Run, StartFails(r)
      PROVE  Counted'
  BY <1>1, FailRunCounts DEF StartFails
<1>2. ASSUME NEW r \in Run, Report(r)
      PROVE  Counted'
  BY <1>2, ApplyCounts DEF Report
<1>3. ASSUME StopRun
      PROVE  Counted'
  BY <1>3, FailRunCounts DEF StopRun
<1>4. ASSUME Settle
      PROVE  Counted'
  BY <1>4, ApplyCounts DEF Settle, Change
<1>5. ASSUME Fire
      PROVE  Counted'
  BY <1>5 DEF Fire
<1>6. ASSUME NEW enabled \in BOOLEAN, SaveSchedule(enabled)
      PROVE  Counted'
  <2>1. 0 < MaxFailures
    BY RunsAssumption
  <2>2. CASE enabled /\ ~task.enabled
    <3>1. task' = [task EXCEPT !.enabled = enabled, !.failures = 0]
      BY <1>6, <2>2 DEF SaveSchedule
    <3> QED
      BY <2>1, <3>1
  <2>3. CASE ~(enabled /\ ~task.enabled)
    <3>1. task' = [task EXCEPT !.enabled = enabled, !.failures = task.failures]
      BY <1>6, <2>3 DEF SaveSchedule
    <3> QED
      BY <2>3, <3>1
  <2> QED
    BY <2>2, <2>3
<1>7. ASSUME DeleteSchedule
      PROVE  Counted'
  BY <1>7 DEF DeleteSchedule
<1>8. ASSUME NEW r \in Run,
             CreateSession(r) \/ Name(r) \/ Prompt(r) \/ Observe(r) \/ UserMessage(r)
               \/ SetBackground(r) \/ RunActivity(r) \/ EngineEnds(r) \/ Reopen(r)
      PROVE  Counted'
  BY <1>8 DEF CreateSession, Name, Prompt, Observe, UserMessage, SetBackground,
              RunActivity, EngineEnds, Reopen
<1>9. ASSUME ClaimFired \/ RunNow \/ Pick \/ SettlePick \/ SettleLook \/ Restart
      PROVE  Counted'
  BY <1>9 DEF ClaimFired, RunNow, Pick, SettlePick, SettleLook, Restart
<1>10. CASE UNCHANGED runsVars
  BY <1>10 DEF runsVars
<1> QED
  BY <1>1, <1>2, <1>3, <1>4, <1>5, <1>6, <1>7, <1>8, <1>9, <1>10
  DEF RunsNext, Starter

-----------------------------------------------------------------------------
(* Types *)

LastTyped == last \in [run : 0..MaxRuns, session : 0..MaxRuns, status : Status,
                        followed : BOOLEAN]

LEMMA FailRunTyped ==
    ASSUME LastTyped, NEW session, FailRun(session)
    PROVE  LastTyped'
BY DEF FailRun, LastTyped, Status

LEMMA SetStatusTyped ==
    ASSUME LastTyped, NEW becomes \in Status, SetStatus(becomes)
    PROVE  LastTyped'
BY DEF SetStatus, LastTyped

LEMMA ApplyTyped ==
    ASSUME LastTyped, NEW change \in Change \ {"none"}, NEW r, Apply(change, r)
    PROVE  LastTyped'
<1>1. CASE change = "follow"
  BY <1>1 DEF Apply, LastTyped, Status
<1>2. CASE change = "failed"
  BY <1>2, FailRunTyped DEF Apply
<1>3. CASE change \in {"toDone", "toBackground"}
  <2>1. \/ UNCHANGED last
        \/ \E becomes \in Status : SetStatus(becomes)
    BY <1>3 DEF Apply, SetStatusFrom, Status
  <2> QED
    BY <2>1, SetStatusTyped DEF LastTyped
<1>4. CASE change \in {"running", "waiting", "background", "done"}
  BY <1>4, SetStatusTyped DEF Apply, Status
<1> QED
  BY <1>1, <1>2, <1>3, <1>4 DEF Change, Status

LEMMA ClaimTyped ==
    ASSUME RunsTypeOK, ClaimRun
    PROVE  /\ LastTyped' /\ overtaken' \in BOOLEAN
           /\ start' \in [Run -> {"none", "create", "name", "prompt"}]
<1> USE RunsAssumption
<1>1. CASE task.exists /\ ~Running
  <2>1. last.run \in 0..MaxRuns /\ last.run < MaxRuns
    BY <1>1 DEF RunsTypeOK, ClaimRun
  <2>2. last.run + 1 \in 0..MaxRuns
    BY <2>1
  <2>3. last' = [run |-> last.run + 1, session |-> 0, status |-> "running",
                 followed |-> FALSE]
    BY <1>1 DEF ClaimRun
  <2>4. 0 \in 0..MaxRuns
    OBVIOUS
  <2>5. LastTyped'
    BY <2>2, <2>3, <2>4 DEF LastTyped, Status
  <2>6. start' = [start EXCEPT ![last.run + 1] = "create"]
    BY <1>1 DEF ClaimRun
  <2> QED
    BY <1>1, <2>5, <2>6 DEF RunsTypeOK, ClaimRun
<1>2. CASE ~(task.exists /\ ~Running)
  BY <1>2 DEF RunsTypeOK, ClaimRun, LastTyped
<1> QED
  BY <1>1, <1>2

\* The change run_activity decides on is one of its own two.
LEMMA ActivityIsChange ==
    ASSUME NEW r, Activity(r) # "none"
    PROVE  Activity(r) \in {"toDone", "toBackground"}
BY DEF Activity

LEMMA TypesStay ==
    ASSUME RunsTypeOK, Counted, [RunsNext]_runsVars
    PROVE  RunsTypeOK'
<1> USE RunsAssumption
<1> DEFINE Rest == /\ fired \in BOOLEAN
                   /\ start \in [Run -> {"none", "create", "name", "prompt"}]
                   /\ engine \in [Run -> {"none", "open", "ended"}]
                   /\ awaited \in BOOLEAN
                   /\ decided \in [Run -> Change]
                   /\ settle \in [session : 0..MaxRuns, change : {"none", "toDone", "toBackground"}]
                   /\ stale \in BOOLEAN /\ overtaken \in BOOLEAN
                   /\ stop \in 0..MaxRuns
                   /\ upsets \in 0..MaxUpsets
<1>0. /\ RunsTypeOK <=> TaskTyped /\ LastTyped /\ Rest
      /\ RunsTypeOK' <=> TaskTyped' /\ LastTyped' /\ Rest'
  BY DEF RunsTypeOK, TaskTyped, LastTyped
<1> HIDE DEF Rest
<1>1. TaskTyped'
  <2>1. settle.change \in {"none", "toDone", "toBackground"}
    BY DEF RunsTypeOK
  <2> QED
    BY <2>1, CountedStays DEF Counted, RunsTypeOK
<1>2. LastTyped' /\ Rest'
  <2>1. ASSUME NEW r \in Run, StartFails(r)
        PROVE  LastTyped' /\ Rest'
    BY <1>0, <2>1, FailRunTyped DEF StartFails, Rest
  <2>2. ASSUME NEW r \in Run, Report(r)
        PROVE  LastTyped' /\ Rest'
    <3>1. decided[r] \in Change \ {"none"}
      BY <1>0, <2>2 DEF Report, Rest
    <3> QED
      BY <1>0, <2>2, <3>1, ApplyTyped DEF Report, Rest, Change
  <2>3. ASSUME StopRun
        PROVE  LastTyped' /\ Rest'
    BY <1>0, <2>3, FailRunTyped DEF StopRun, Rest
  <2>4. ASSUME Settle
        PROVE  LastTyped' /\ Rest'
    <3>1. /\ settle.change \in {"toDone", "toBackground"}
          /\ Apply(settle.change, 0) /\ settle' = Unsettled
          /\ overtaken' = (overtaken \/ (last.followed /\ last'.status # last.status))
          /\ UNCHANGED <<fired, start, engine, awaited, decided, stop, stale, upsets>>
      BY <1>0, <2>4 DEF Settle, Rest
    <3>2. LastTyped'
      BY <1>0, <3>1, ApplyTyped DEF Change
    <3>3. Unsettled \in [session : 0..MaxRuns, change : {"none", "toDone", "toBackground"}]
      BY DEF Unsettled
    <3> QED
      BY <1>0, <3>1, <3>2, <3>3 DEF Rest
  <2>5. ASSUME Fire \/ Pick
        PROVE  LastTyped' /\ Rest'
    <3>1. last' = last BY <2>5 DEF Fire, Pick
    <3>2. LastTyped' BY <1>0, <3>1 DEF LastTyped
    <3>3. CASE Fire BY <1>0, <3>2, <3>3 DEF Fire, Rest
    <3>4. CASE Pick
      <4>1. last.session \in 0..MaxRuns BY <1>0 DEF LastTyped
      <4> QED BY <1>0, <3>2, <3>4, <4>1 DEF Pick, Rest
    <3> QED
      BY <2>5, <3>3, <3>4
  <2>14. ASSUME DeleteSchedule \/ (\E on \in BOOLEAN : SaveSchedule(on))
         PROVE  LastTyped' /\ Rest'
    <3>1. /\ upsets < MaxUpsets /\ upsets' = upsets + 1
          /\ last' \in {last, NoRun}
          /\ UNCHANGED <<fired, start, engine, awaited, decided, settle, stop, stale,
                         overtaken>>
      BY <2>14, Zenon DEF DeleteSchedule, SaveSchedule
    <3>2. 0 \in 0..MaxRuns
      OBVIOUS
    <3>3. LastTyped'
      <4>1. CASE last' = last
        BY <1>0, <4>1 DEF LastTyped
      <4>2. CASE last' = NoRun
        BY <4>2, <3>2 DEF NoRun, LastTyped, Status
      <4> QED
        BY <3>1, <4>1, <4>2
    <3>4. upsets' \in 0..MaxUpsets
      BY <1>0, <3>1 DEF Rest
    <3> QED
      BY <1>0, <3>1, <3>3, <3>4 DEF Rest
  <2>6. ASSUME ClaimFired \/ RunNow
        PROVE  LastTyped' /\ Rest'
    BY <1>0, <2>6, ClaimTyped DEF ClaimFired, RunNow, Rest
  <2>7. ASSUME NEW r \in Run, CreateSession(r) \/ Prompt(r) \/ SetBackground(r) \/ Reopen(r)
        PROVE  LastTyped' /\ Rest'
    <3>1. last' = last BY <2>7 DEF CreateSession, Prompt, SetBackground, Reopen
    <3>2. LastTyped' BY <1>0, <3>1 DEF LastTyped
    <3>3. CASE CreateSession(r) BY <1>0, <3>2, <3>3 DEF CreateSession, Rest
    <3>4. CASE Prompt(r) BY <1>0, <3>2, <3>4 DEF Prompt, Rest
    <3>5. CASE SetBackground(r) BY <1>0, <3>2, <3>5 DEF SetBackground, Rest
    <3>6. CASE Reopen(r) BY <1>0, <3>2, <3>6 DEF Reopen, Rest
    <3> QED
      BY <2>7, <3>3, <3>4, <3>5, <3>6
  <2>8. ASSUME NEW r \in Run, Name(r)
        PROVE  LastTyped' /\ Rest'
    <3>1. r \in 0..MaxRuns
      BY DEF Run
    <3>2. last' = [last EXCEPT !.session = r] \/ last' = last
      BY <2>8 DEF Name
    <3>3. LastTyped'
      BY <1>0, <3>1, <3>2 DEF LastTyped
    <3> QED
      BY <1>0, <2>8, <3>3 DEF Name, Rest
  <2>9. ASSUME NEW r \in Run, Observe(r) \/ UserMessage(r) \/ EngineEnds(r)
        PROVE  LastTyped' /\ Rest'
    <3>1. last' = last BY <2>9 DEF Observe, UserMessage, EngineEnds
    <3>2. LastTyped' BY <1>0, <3>1 DEF LastTyped
    <3>3. CASE Observe(r) BY <1>0, <3>2, <3>3 DEF Observe, Rest, Change, Status
    <3>4. CASE UserMessage(r) BY <1>0, <3>2, <3>4 DEF UserMessage, Rest, Change
    <3>5. CASE EngineEnds(r) BY <1>0, <3>2, <3>5 DEF EngineEnds, Rest, Change, Status
    <3> QED
      BY <2>9, <3>3, <3>4, <3>5
  <2>10. ASSUME NEW r \in Run, RunActivity(r)
         PROVE  LastTyped' /\ Rest'
    BY <1>0, <2>10, ActivityIsChange DEF RunActivity, Rest, LastTyped, Change
  <2>11. ASSUME SettlePick \/ SettleLook
         PROVE  LastTyped' /\ Rest'
    <3>1. UNCHANGED <<last, fired, start, engine, awaited, decided, stop, stale, overtaken,
                      upsets>>
      BY <2>11 DEF SettlePick, SettleLook
    <3>2. LastTyped'
      BY <1>0, <3>1 DEF LastTyped
    <3>3. settle' \in [session : 0..MaxRuns, change : {"none", "toDone", "toBackground"}]
      <4>1. CASE SettlePick
        BY <1>0, <4>1 DEF SettlePick, LastTyped
      <4>2. CASE SettleLook
        <5>1. PICK change \in {Activity(settle.session), "none"} :
                  settle' = IF change = "none" THEN Unsettled
                            ELSE [settle EXCEPT !.change = change]
          BY <4>2 DEF SettleLook
        <5>2. change \in {"none", "toDone", "toBackground"}
          BY ActivityIsChange
        <5> QED
          BY <1>0, <5>1, <5>2 DEF Rest, Unsettled
      <4> QED
        BY <2>11, <4>1, <4>2
    <3> QED
      BY <1>0, <3>1, <3>2, <3>3 DEF Rest
  <2>12. ASSUME Restart
         PROVE  LastTyped' /\ Rest'
    <3>1. last' = [last EXCEPT !.status = "failed"] \/ last' = last
      BY <2>12 DEF Restart
    <3>2. LastTyped'
      BY <1>0, <3>1 DEF LastTyped, Status
    <3>3. upsets' \in 0..MaxUpsets
      BY <1>0, <2>12 DEF Restart, Rest
    <3>4. 0 \in 0..MaxRuns
      OBVIOUS
    <3>5. /\ start' = [s \in Run |-> "none"]
          /\ engine' = [s \in Run |-> IF engine[s] = "none" THEN "none" ELSE "ended"]
          /\ decided' = [s \in Run |-> "none"]
      BY <2>12 DEF Restart
    <3>6. settle' \in [session : 0..MaxRuns, change : {"none", "toDone", "toBackground"}]
      BY <2>12 DEF Restart, Unsettled
    <3> QED
      <4>1. /\ fired' = FALSE /\ awaited' = FALSE /\ stop' = 0
            /\ UNCHANGED <<stale, overtaken>>
        BY <2>12 DEF Restart
      <4>2. start' \in [Run -> {"none", "create", "name", "prompt"}]
        BY <3>5
      <4>3. engine' \in [Run -> {"none", "open", "ended"}]
        BY <3>5
      <4>4. decided' \in [Run -> Change]
        BY <3>5 DEF Change
      <4> QED
        BY <1>0, <3>2, <3>3, <3>4, <3>6, <4>1, <4>2, <4>3, <4>4 DEF Rest
  <2>13. CASE UNCHANGED runsVars
    BY <1>0, <2>13 DEF runsVars, Rest, LastTyped
  <2> QED
    BY <2>1, <2>2, <2>3, <2>4, <2>5, <2>6, <2>7, <2>8, <2>9, <2>10, <2>11, <2>12, <2>13,
       <2>14
    DEF RunsNext, Starter
<1> QED
  BY <1>0, <1>1, <1>2

-----------------------------------------------------------------------------
(* Both together are inductive *)

LEMMA Starts == RunsInit => RunsTypeOK /\ Counted
<1> SUFFICES ASSUME RunsInit
             PROVE  RunsTypeOK /\ Counted
  OBVIOUS
<1>1. PICK enabled \in BOOLEAN :
          task = [exists |-> TRUE, enabled |-> enabled, failures |-> 0]
  BY DEF RunsInit
<1>2. /\ MaxFailures \in Nat /\ 0 < MaxFailures
      /\ 0 \in 0..MaxRuns /\ 0 \in 0..MaxUpsets
  BY RunsAssumption
<1>3. Counted
  BY <1>1, <1>2 DEF Counted, TaskTyped, SwitchedOffInTime
<1>4. last \in [run : 0..MaxRuns, session : 0..MaxRuns, status : Status,
                followed : BOOLEAN]
  BY <1>2 DEF RunsInit, NoRun, Status
<1> QED
  BY <1>2, <1>3, <1>4 DEF RunsInit, RunsTypeOK, Counted, TaskTyped, Change, Unsettled

\* The state of a task, its runs and its threads is typed, for every number of
\* runs and failures: above all, a thread carries a change that is its own to
\* make (ScheduledRuns).
THEOREM RunsTypes == RunsSpec => []RunsTypeOK
<1>1. RunsTypeOK /\ Counted /\ [RunsNext]_runsVars => (RunsTypeOK /\ Counted)'
  BY TypesStay, CountedStays DEF RunsTypeOK
<1> QED
  BY Starts, <1>1, PTL DEF RunsSpec

\* A task that has failed MAX_FAILURES times in a row is off, for every
\* MaxFailures and every number of runs (fail_run, save_schedule).
THEOREM SwitchesOff == RunsSpec => []SwitchedOffInTime
<1>1. RunsTypeOK /\ Counted /\ [RunsNext]_runsVars => (RunsTypeOK /\ Counted)'
  BY TypesStay, CountedStays DEF RunsTypeOK
<1>2. Counted => SwitchedOffInTime
  BY DEF Counted
<1> QED
  BY Starts, <1>1, <1>2, PTL DEF RunsSpec

-----------------------------------------------------------------------------
(* Which run a start, a change and the sweep may still touch *)

\* Runs beyond the last one have not begun.
Numbered ==
    task.exists =>
        /\ last.session <= last.run
        /\ \A r \in Run : r > last.run => start[r] = "none" /\ decided[r] = "none"

\* A run whose session is not named yet is nobody's: its session's thread has
\* seen nothing of it.
Unnamed ==
    \A r \in Run : start[r] \in {"create", "name"} => decided[r] = "none" /\ last.session # r

RunIsClaimed == ~stale /\ Running => last.run # 0

\* The thread of a session whose run the user has followed up may only have
\* the end of its engine to report.
FollowedIsQuiet ==
    ~stale /\ last.followed /\ last.session # 0 => decided[last.session] \in {"none", "failed"}

\* The sweep has a change in hand only for a run that is claimed, and there is
\* one since.
SweepIsLate == settle.change # "none" /\ task.exists => last.run # 0

\* Only a run in a session ends, or waits on work left going.
OverHasSession ==
    ~stale /\ last.status \in {"done", "background"} /\ last.run # 0 => last.session # 0

RunsInv ==
    /\ Numbered /\ Unnamed /\ RunIsClaimed /\ FollowedIsQuiet /\ SweepIsLate
    /\ OverHasSession
    /\ StartIsUnderWay /\ FollowedRunIsOver

\* To fail a run changes nothing of it but its status, and leaves no run going
\* in that session (fail_run).
LEMMA FailRunEnds ==
    ASSUME RunsTypeOK, NEW session, FailRun(session)
    PROVE  /\ task'.exists = task.exists
           /\ last'.run = last.run /\ last'.session = last.session
           /\ last'.followed = last.followed
           /\ last'.status \in {last.status, "failed"}
           /\ task.exists /\ last.run # 0 /\ last.session = session => last'.status = "failed"
BY DEF FailRun, RunsTypeOK

\* A status that is set changes nothing else of the run.
LEMMA SetStatusSets ==
    ASSUME RunsTypeOK, NEW becomes, SetStatus(becomes)
    PROVE  /\ task'.exists = task.exists
           /\ last'.run = last.run /\ last'.session = last.session
           /\ last'.followed = last.followed
           /\ last'.status \in {last.status, becomes}
BY DEF SetStatus, RunsTypeOK

\* What a session's thread reports: the run keeps its number and its session,
\* and is the user's from then on if that is the report.
LEMMA ReportSets ==
    ASSUME RunsTypeOK, NEW r \in Run, Report(r)
    PROVE  /\ task'.exists = task.exists
           /\ last'.run = last.run /\ last'.session = last.session
           /\ decided[r] = "failed" => /\ last'.followed = last.followed
                                    /\ last'.status \in {last.status, "failed"}
           /\ decided[r] = "follow" /\ task.exists =>
                  last'.followed /\ last'.status = "done"
           /\ decided[r] = "follow" /\ ~task.exists => UNCHANGED last
           /\ decided[r] # "follow" => last'.followed = last.followed
<1>1. decided[r] \in Change /\ decided[r] # "none" /\ Apply(decided[r], r)
  BY DEF Report, RunsTypeOK
<1>2. CASE decided[r] = "follow"
  BY <1>1, <1>2 DEF Apply, RunsTypeOK
<1>3. CASE decided[r] = "failed"
  BY <1>1, <1>3, FailRunEnds DEF Apply
<1>4. CASE decided[r] \in {"toDone", "toBackground"}
  <2>1. \/ UNCHANGED <<task, last>>
        \/ \E becomes : SetStatus(becomes)
    BY <1>1, <1>4 DEF Apply, SetStatusFrom
  <2> QED
    BY <1>4, <2>1, SetStatusSets
<1>5. CASE decided[r] \in {"running", "waiting", "background", "done"}
  BY <1>1, <1>5, SetStatusSets DEF Apply
<1> QED
  BY <1>1, <1>2, <1>3, <1>4, <1>5 DEF Change, Status

\* Every step leaves each run to its own starter and its own session.
LEMMA RunsStay ==
    ASSUME RunsTypeOK, RunsTypeOK', RunsInv, [RunsNext]_runsVars
    PROVE  RunsInv'
<1> USE RunsAssumption DEF RunsInv, Numbered, Unnamed, RunIsClaimed, FollowedIsQuiet,
        SweepIsLate, OverHasSession, StartIsUnderWay, FollowedRunIsOver, Running, Going, RunsTypeOK, Run
<1>1. ASSUME Fire \/ Pick \/ (\E on \in BOOLEAN : SaveSchedule(on))
      PROVE  RunsInv'
  <2>1. task'.exists = task.exists /\ UNCHANGED <<last, start, decided, settle, stale, overtaken>>
    <3>1. UNCHANGED <<last, start, decided, settle, stale, overtaken>>
      BY <1>1 DEF Fire, Pick, SaveSchedule
    <3>2. CASE Fire
      BY <3>2 DEF Fire
    <3>3. CASE Pick
      BY <3>3 DEF Pick
    <3>4. ASSUME NEW on \in BOOLEAN, SaveSchedule(on)
          PROVE  task'.exists = task.exists
      BY <3>4 DEF SaveSchedule
    <3> QED
      BY <1>1, <3>1, <3>2, <3>3, <3>4
  <2> QED
    BY <2>1
<1>2. ASSUME ClaimFired \/ RunNow
      PROVE  RunsInv'
  <2>1. ClaimRun /\ UNCHANGED <<task, engine, awaited, decided, settle, stop, stale>>
    BY <1>2 DEF ClaimFired, RunNow
  <2>2. CASE task.exists /\ ~Running
    <3>1. /\ last' = [run |-> last.run + 1, session |-> 0, status |-> "running",
                      followed |-> FALSE]
          /\ start' = [start EXCEPT ![last.run + 1] = "create"]
          /\ last.run + 1 \in Run
      BY <2>1, <2>2 DEF ClaimRun
    <3> QED
      BY <2>1, <2>2, <3>1
  <2>3. CASE ~(task.exists /\ ~Running)
    BY <2>1, <2>3 DEF ClaimRun
  <2> QED
    BY <2>2, <2>3
<1>3. ASSUME NEW r \in Run, CreateSession(r) \/ Prompt(r) \/ SetBackground(r) \/ Reopen(r)
      PROVE  RunsInv'
  <2>1. CASE CreateSession(r)
    BY <2>1 DEF CreateSession
  <2>2. CASE Prompt(r)
    BY <2>2 DEF Prompt
  <2>3. CASE SetBackground(r)
    BY <2>3 DEF SetBackground
  <2>4. CASE Reopen(r)
    BY <2>4 DEF Reopen
  <2> QED
    BY <1>3, <2>1, <2>2, <2>3, <2>4
<1>4. ASSUME NEW r \in Run, Name(r)
      PROVE  RunsInv'
  <2>1. /\ start[r] = "name" /\ start' = [start EXCEPT ![r] = "prompt"]
        /\ last' = IF task.exists THEN [last EXCEPT !.session = r] ELSE last
        /\ UNCHANGED <<task, decided, settle, stale, overtaken>>
    BY <1>4 DEF Name
  <2>2. decided[r] = "none" /\ (task.exists => r <= last.run)
    <3>1. decided[r] = "none"
      BY <2>1
    <3>2. CASE task.exists
      <4>1. ~(r > last.run)
        BY <2>1, <3>2
      <4> QED
        BY <3>1, <4>1
    <3> QED
      BY <3>1, <3>2
  <2>3. CASE task.exists
    <3>1. /\ last'.run = last.run /\ last'.session = r
          /\ last'.status = last.status /\ last'.followed = last.followed
      BY <2>1, <2>3
    <3>2. Numbered' /\ Unnamed'
      BY <2>1, <2>2, <3>1
    <3>3. RunIsClaimed' /\ FollowedIsQuiet' /\ SweepIsLate' /\ OverHasSession'
          /\ FollowedRunIsOver'
      BY <2>1, <2>2, <3>1
    <3>4. StartIsUnderWay'
      BY <3>1
    <3> QED
      BY <3>2, <3>3, <3>4
  <2>4. CASE ~task.exists
    BY <2>1, <2>4
  <2> QED
    BY <2>3, <2>4
<1>5. ASSUME NEW r \in Run, StartFails(r)
      PROVE  RunsInv'
  <2>1. FailRun(0) /\ start' = [start EXCEPT ![r] = "none"] /\ start[r] # "none"
        /\ UNCHANGED <<decided, settle, stale, overtaken>>
    BY <1>5 DEF StartFails, CannotStart
  <2> QED
    BY <2>1, FailRunEnds
<1>6. ASSUME NEW r \in Run, Observe(r) \/ UserMessage(r) \/ EngineEnds(r)
      PROVE  RunsInv'
  <2>1. UNCHANGED <<task, last, start, settle, stale, overtaken>>
    BY <1>6 DEF Observe, UserMessage, EngineEnds
  <2>2. \/ UNCHANGED decided
        \/ /\ task.exists /\ last.session = r
           /\ \E change \in Change : decided' = [decided EXCEPT ![r] = change]
           /\ ~last.followed \/ decided'[r] = "failed"
    <3>1. CASE Observe(r)
      <4>1. PICK change \in {"running", "waiting", "failed",
                             IF awaited THEN "background" ELSE "done"} :
                decided' = [decided EXCEPT ![r] = change]
        BY <3>1 DEF Observe
      <4>2. change \in Change
        BY DEF Change, Status
      <4> QED
        BY <3>1, <4>1, <4>2 DEF Observe, Observed
    <3>2. CASE UserMessage(r)
      BY <3>2 DEF UserMessage, Observed, Change
    <3>3. CASE EngineEnds(r)
      BY <3>3 DEF EngineEnds, Latest, Change, Status
    <3> QED
      BY <1>6, <3>1, <3>2, <3>3
  <2> QED
    BY <2>1, <2>2
<1>7. ASSUME NEW r \in Run, RunActivity(r)
      PROVE  RunsInv'
  <2>1. Observed(r) /\ UNCHANGED <<task, last, start, settle, stale, overtaken>>
        /\ \E change \in Change : decided' = [decided EXCEPT ![r] = change]
    <3>1. Activity(r) # "none" /\ UNCHANGED <<task, last, start, settle, stale, overtaken>>
          /\ decided' = [decided EXCEPT ![r] = Activity(r)]
      BY <1>7 DEF RunActivity
    <3>2. Observed(r)
      BY <3>1 DEF Activity
    <3>3. Activity(r) \in Change
      BY <3>1, ActivityIsChange DEF Change
    <3> QED
      BY <3>1, <3>2, <3>3
  <2>2. task.exists /\ last.session = r /\ ~last.followed
    BY <2>1 DEF Observed
  <2> QED
    BY <2>1, <2>2
<1>8. ASSUME NEW r \in Run, Report(r)
      PROVE  RunsInv'
  <2>1. /\ decided' = [decided EXCEPT ![r] = "none"] /\ decided[r] # "none"
        /\ stale' = \/ stale
                    \/ decided[r] # "failed" /\ (last.session # r \/ last.status = "failed")
        /\ UNCHANGED <<start, settle, overtaken>>
    BY <1>8 DEF Report
  <2>2. OverHasSession'
    <3>1. CASE decided[r] = "failed"
      BY <1>8, <2>1, <3>1, ReportSets
    <3>2. CASE decided[r] # "failed" /\ ~stale'
      <4>1. last.session = r /\ last'.session = last.session
        BY <1>8, <2>1, <3>2, ReportSets
      <4> QED
        BY <4>1
    <3> QED
      BY <3>1, <3>2
  <2>3. Numbered' /\ Unnamed' /\ RunIsClaimed' /\ FollowedIsQuiet' /\ SweepIsLate'
    BY <1>8, <2>1, ReportSets
  <2>4. StartIsUnderWay' /\ FollowedRunIsOver'
    BY <1>8, <2>1, ReportSets
  <2> QED
    BY <2>2, <2>3, <2>4
<1>9. ASSUME StopRun
      PROVE  RunsInv'
  <2>1. FailRun(stop) /\ UNCHANGED <<start, decided, settle, stale, overtaken>>
    BY <1>9 DEF StopRun
  <2> QED
    BY <2>1, FailRunEnds
<1>10. ASSUME SettlePick \/ SettleLook
       PROVE  RunsInv'
  <2>1. UNCHANGED <<task, last, start, decided, stale, overtaken>>
    BY <1>10 DEF SettlePick, SettleLook
  <2>2. settle'.change # "none" /\ task.exists => last.run # 0
    <3>1. CASE SettlePick
      BY <3>1 DEF SettlePick
    <3>2. CASE SettleLook
      <4>1. PICK change \in {Activity(settle.session), "none"} :
                settle' = IF change = "none" THEN Unsettled
                          ELSE [settle EXCEPT !.change = change]
        BY <3>2 DEF SettleLook
      <4>2. settle.session # 0
        BY <3>2 DEF SettleLook
      <4>3. CASE change = "none"
        BY <4>1, <4>3 DEF Unsettled
      <4>4. CASE change # "none"
        BY <4>1, <4>2, <4>4 DEF Activity, Observed
      <4> QED
        BY <4>3, <4>4
    <3> QED
      BY <1>10, <3>1, <3>2
  <2> QED
    BY <2>1, <2>2
<1>11. ASSUME Settle
       PROVE  RunsInv'
  <2>1. /\ settle.change \in {"toDone", "toBackground"}
        /\ settle' = Unsettled /\ UNCHANGED <<start, decided, stale>>
        /\ overtaken' = (overtaken \/ (last.followed /\ last'.status # last.status))
        /\ \/ UNCHANGED <<task, last>>
           \/ settle.change = "toDone" /\ last.status = "background" /\ SetStatus("done")
           \/ settle.change = "toBackground" /\ last.status = "done" /\ SetStatus("background")
    BY <1>11 DEF Settle, Apply, SetStatusFrom
  <2>2. CASE UNCHANGED <<task, last>>
    BY <2>1, <2>2 DEF Unsettled
  <2>3. CASE settle.change = "toDone" /\ last.status = "background" /\ SetStatus("done")
    BY <2>1, <2>3, SetStatusSets DEF Unsettled
  <2>4. CASE settle.change = "toBackground" /\ last.status = "done" /\ SetStatus("background")
    BY <2>1, <2>4, SetStatusSets DEF Unsettled
  <2> QED
    BY <2>1, <2>2, <2>3, <2>4
<1>12. ASSUME DeleteSchedule
       PROVE  RunsInv'
  BY <1>12 DEF DeleteSchedule, NoRun
<1>13. ASSUME Restart
       PROVE  RunsInv'
  BY <1>13 DEF Restart, Unsettled
<1>14. CASE UNCHANGED runsVars
  BY <1>14 DEF runsVars
<1> QED
  BY <1>1, <1>2, <1>3, <1>4, <1>5, <1>6, <1>7, <1>8, <1>9, <1>10, <1>11, <1>12, <1>13,
     <1>14
  DEF RunsNext, Starter

LEMMA RunsInvHolds == RunsSpec => []RunsInv
<1>1. RunsInit => RunsInv
  BY RunsAssumption
  DEF RunsInit, NoRun, Unsettled, RunsInv, Numbered, Unnamed, RunIsClaimed, FollowedIsQuiet,
      SweepIsLate, OverHasSession, StartIsUnderWay, FollowedRunIsOver, Running, Going, Run
<1> QED
  BY <1>1, RunsTypes, RunsStay, PTL DEF RunsSpec

\* A run without a session is one whose start is under way, however many runs
\* are claimed, fail to start, are stopped by the sweep or cut off by a restart
\* meanwhile: such a run has no session the sweep could stop, and would hold
\* the task up for good (start_run, time_out_runs).
THEOREM StartsAreUnderWay == RunsSpec => []StartIsUnderWay
BY RunsInvHolds, PTL DEF RunsInv

\* A run that the user has followed up stays over: no report its session's
\* thread had decided on earlier and no late start sets it going again, and no
\* sweep but one that had read it as done and waiting before the message
\* (observe_run_event, run_activity, settle_runs).
THEOREM FollowedStaysOver == RunsSpec => []FollowedRunIsOver
BY RunsInvHolds, PTL DEF RunsInv

-----------------------------------------------------------------------------
\* --- sub-sessions ---

ChildStatus == {"none", "running", "waiting_approval", "done", "failed", "closed"}
Told == [status : ChildStatus, reply : SUBSET Nat, running : BOOLEAN, erred : BOOLEAN]
Ends == {"done", "failed"}

-----------------------------------------------------------------------------
\* What an event does to what the parent is told.

LEMMA PublishedTold ==
    ASSUME NEW s \in Told, NEW e, said \in Nat
    PROVE  Published(s, e) \in Told
  <1> DEFINE t == Tracked(s, e)
             over == e = "ready" /\ s.running
  <1>1. t \in Told /\ t.status = s.status /\ t.reply = s.reply
    BY DEF Tracked, Told
  <1> HIDE DEF t
  <1>2. Became(t, e) \in ChildStatus
    BY <1>1 DEF Became, Told, ChildStatus
  <1>3. Heard(t, e) \in SUBSET Nat
    BY <1>1 DEF Heard, Told
  <1>4. ChildObserved(t, e, over, over /\ s.erred) \in Told
    BY <1>1, <1>2, <1>3 DEF ChildObserved, Told, ChildStatus
  <1> QED BY <1>4 DEF Published, t

LEMMA PublishedIs ==
    ASSUME NEW s \in Told, NEW e
    PROVE  /\ s.status = "none" => /\ Published(s, e).status = "none"
                                  /\ Published(s, e).reply = s.reply
           /\ s.status # "none" => /\ \/ Published(s, e).status = Became(s, e)
                                     \/ (e = "ready" /\ Published(s, e).status \in Ends)
                                  /\ Published(s, e).reply = Heard(s, e)
  <1> DEFINE t == Tracked(s, e)
             over == e = "ready" /\ s.running
  <1>1. t.status = s.status /\ t.reply = s.reply
    BY DEF Tracked
  <1> HIDE DEF t
  <1>2. Became(t, e) = Became(s, e) /\ Heard(t, e) = Heard(s, e)
    BY <1>1 DEF Became, Heard
  <1>3. Published(s, e) = ChildObserved(t, e, over, over /\ s.erred)
    BY DEF Published, t
  <1>4. CASE s.status = "none"
    BY <1>1, <1>3, <1>4 DEF ChildObserved
  <1>5. CASE s.status # "none"
    <2>1. ChildObserved(t, e, over, over /\ s.erred).reply = Heard(s, e)
      BY <1>1, <1>2, <1>5 DEF ChildObserved
    <2>2. CASE ~over \/ Became(s, e) = "closed"
      BY <1>1, <1>2, <1>3, <1>5, <2>1, <2>2 DEF ChildObserved
    <2>3. CASE over /\ Became(s, e) # "closed"
      BY <1>1, <1>2, <1>3, <1>5, <2>1, <2>3 DEF ChildObserved, Ends
    <2> QED BY <2>2, <2>3
  <1> QED BY <1>4, <1>5

\* An event neither makes an entry nor removes one, and without an entry it changes nothing
\* the parent is told.
LEMMA PublishedListed ==
    ASSUME NEW s \in Told, NEW e
    PROVE  /\ Published(s, e).status = "none" <=> s.status = "none"
           /\ s.status = "none" => Published(s, e).reply = s.reply
  BY PublishedIs DEF Became, Ends

\* A turn is told to be over by "ready" alone, and by no sign of work or of a question.
LEMMA PublishedOver ==
    ASSUME NEW s \in Told, NEW e, e # "ready"
    PROVE  /\ s.status \notin Ends => Published(s, e).status \notin Ends
           /\ e \in Waits \cup Works => Published(s, e).status \notin Ends
  BY PublishedIs DEF Became, Ends

\* A reply is begun by "assistant_start", and added to by "assistant_delta".
LEMMA PublishedReply ==
    ASSUME NEW s \in Told, NEW e
    PROVE  /\ Published(s, e).reply \subseteq s.reply \cup {said}
           /\ e # "assistant_delta" => Published(s, e).reply \subseteq s.reply
           /\ e = "assistant_start" /\ s.status # "none" => Published(s, e).reply = {}
  BY PublishedIs DEF Heard

-----------------------------------------------------------------------------
\* A session without an entry has no engine at work, ...
Unhosted == ~hosted => inbox = 0 /\ queued = 0 /\ turn = "off" /\ aside = {}

\* ... there is no child before it is listed, and what is not there has no reply.
Listed ==
    /\ status = "none" <=> starting \in {"no", "created", "failed"}
    /\ status = "none" => reply = {}
    /\ \A c \in Call : call[c] # "idle" => starting = "done"
    /\ starting = "no" => ~hosted /\ ~leaving

SubInv == SubTypeOK /\ Unhosted /\ Listed /\ StoppedIsTold /\ DoneIsOver

LEMMA NowTold == SubTypeOK => Now \in Told
  BY DEF SubTypeOK, Now, Told, ChildStatus

LEMMA Bounds == MaxReplies \in Nat /\ MaxMishaps \in Nat
  BY SubSessionsAssumption DEF SubSessionsAssumption

LEMMA SubStarts == SubInit => SubInv
  <1> SUFFICES ASSUME SubInit PROVE SubInv
    OBVIOUS
  <1>1. SubTypeOK
    <2>1. call \in [Call -> {"idle", "checked", "set"}]
      BY DEF SubInit
    <2>2. said \in 0..MaxReplies /\ mishaps \in 0..MaxMishaps
      BY Bounds DEF SubInit
    <2>3. inbox \in Nat /\ queued \in Nat /\ messages \in Nat
      BY DEF SubInit
    <2>4. /\ running \in BOOLEAN /\ erred \in BOOLEAN
          /\ hosted \in BOOLEAN /\ leaving \in BOOLEAN /\ unsent \in BOOLEAN
      BY DEF SubInit
    <2>5. reply \subseteq 0..MaxReplies /\ aside \subseteq {"work", "action"}
      BY DEF SubInit
    <2> QED BY <2>1, <2>2, <2>3, <2>4, <2>5 DEF SubInit, SubTypeOK
  <1>2. Unhosted /\ Listed /\ StoppedIsTold /\ DoneIsOver
    BY DEF SubInit, Unhosted, Listed, StoppedIsTold, DoneIsOver
  <1> QED BY <1>1, <1>2 DEF SubInv

\* The events of the engine's own steps, and what they keep: an event leaves the child listed
\* or not, types what is told, and takes no text from elsewhere.
LEMMA EventKeeps ==
    ASSUME SubInv, NEW e, Publishes(e)
    PROVE  /\ status' \in ChildStatus /\ running' \in BOOLEAN /\ erred' \in BOOLEAN
           /\ status' = "none" <=> status = "none"
           /\ status = "none" => reply' = {}
           /\ reply' \subseteq {said}
           /\ e = "assistant_start" => reply' = {}
           /\ e # "ready" /\ status \notin Ends => status' \notin Ends
           /\ e \in Waits \cup Works => status' \notin Ends
  <1> DEFINE p == Published(Now, e)
  <1>1. Now \in Told /\ said \in Nat
    BY NowTold DEF SubInv, SubTypeOK
  <1>2. p \in Told
    BY <1>1, PublishedTold
  <1>3. /\ p.status = "none" <=> Now.status = "none"
        /\ Now.status = "none" => p.reply = Now.reply
    BY <1>1, PublishedListed
  <1>4. e # "ready" => /\ Now.status \notin Ends => p.status \notin Ends
                       /\ e \in Waits \cup Works => p.status \notin Ends
    BY <1>1, PublishedOver
  <1>5. /\ p.reply \subseteq Now.reply \cup {said}
        /\ e = "assistant_start" /\ Now.status # "none" => p.reply = {}
    BY <1>1, PublishedReply
  <1>6. Now.status = status /\ Now.reply = reply
    BY DEF Now
  <1>7. status' = p.status /\ reply' = p.reply /\ running' = p.running /\ erred' = p.erred
    BY DEF Publishes, Becomes
  <1>8. e \in Waits \cup Works => e # "ready"
    BY DEF Waits, Works
  <1>9. status = "none" => reply = {}
    BY DEF SubInv, Listed
  <1>10. reply \subseteq {said}
    BY DEF SubInv, DoneIsOver
  <1> HIDE DEF p
  <1>11. status' \in ChildStatus /\ running' \in BOOLEAN /\ erred' \in BOOLEAN
    BY <1>2, <1>7 DEF Told
  <1> QED BY <1>3, <1>4, <1>5, <1>6, <1>7, <1>8, <1>9, <1>10, <1>11

\* What a step of the engine has to keep for the rest to follow.
Child(status_, reply_, said_, turn_) ==
    /\ status_ \in ChildStatus
    /\ status_ = "none" <=> status = "none"
    /\ status_ = "none" => reply_ = {}
    /\ reply_ \subseteq {said_}
    /\ turn_ = "asks" => status_ \notin Ends

LEMMA EngineKeeps ==
    ASSUME SubInv, EngineOnly, hosted, Child(status', reply', said', turn'),
           running' \in BOOLEAN, erred' \in BOOLEAN, inbox' \in Nat, queued' \in Nat,
           turn' \in {"off", "on", "asks"}, aside' \subseteq {"work", "action"},
           said' \in 0..MaxReplies, mishaps' \in 0..MaxMishaps
    PROVE  SubInv'
  <1>1. /\ hosted' = hosted /\ leaving' = leaving /\ kind' = kind /\ messages' = messages
        /\ starting' = starting /\ call' = call /\ unsent' = unsent
    BY DEF EngineOnly, parent
  <1>2. reply' \subseteq 0..MaxReplies
    BY DEF Child
  <1>3. SubTypeOK'
    BY <1>1, <1>2 DEF SubInv, SubTypeOK, Child, ChildStatus
  <1>4. Unhosted' /\ StoppedIsTold'
    BY <1>1 DEF Unhosted, StoppedIsTold
  <1>5. Listed'
    BY <1>1 DEF SubInv, Listed, Child
  <1>6. DoneIsOver'
    BY DEF DoneIsOver, Child, Ends
  <1> QED BY <1>3, <1>4, <1>5, <1>6 DEF SubInv

\* An engine that has something to do is the hosted one.
LEMMA HostedWorks ==
    ASSUME SubInv, turn # "off" \/ inbox > 0 \/ queued > 0 \/ aside # {}
    PROVE  hosted
  <1> SUFFICES ASSUME ~hosted PROVE FALSE
    OBVIOUS
  <1>1. inbox = 0 /\ queued = 0 /\ turn = "off" /\ aside = {}
    BY DEF SubInv, Unhosted
  <1> QED BY <1>1

\* A mishap stays within its bound.
LEMMA MishapKeeps == SubInv /\ Mishap => mishaps' \in 0..MaxMishaps
  BY Bounds DEF SubInv, SubTypeOK, Mishap

\* A child that hears nothing is what it was.
LEMMA SilenceKeeps ==
    ASSUME SubInv, UNCHANGED <<child, said>>, turn' = "asks" => turn = "asks"
    PROVE  Child(status', reply', said', turn') /\ running' \in BOOLEAN /\ erred' \in BOOLEAN
  BY DEF SubInv, SubTypeOK, Listed, DoneIsOver, Child, child, ChildStatus, Ends

\* Nor does an event change more, when the engine asks nothing but by a question, and the
\* reply of the model is its last.
LEMMA EventIsOfChild ==
    ASSUME SubInv, NEW e, Publishes(e),
           \/ e \in Waits \cup Works
           \/ turn' # "asks"
           \/ turn = "asks" /\ e # "ready",
           said' = said \/ e = "assistant_start"
    PROVE  Child(status', reply', said', turn') /\ running' \in BOOLEAN /\ erred' \in BOOLEAN
  <1>1. turn = "asks" => status \notin Ends
    BY DEF SubInv, DoneIsOver, Ends
  <1>2. e = "assistant_start" => reply' \subseteq {said'}
    BY EventKeeps
  <1>3. said' = said => reply' \subseteq {said'}
    BY EventKeeps
  <1> QED BY <1>1, <1>2, <1>3, EventKeeps DEF Child

\* A turn begins after what was told before, s: the news of a decision, or nothing.
LEMMA BeginKeeps ==
    ASSUME SubInv, NEW s \in Told, Begins(s), said' = said,
           s.status = "none" <=> status = "none", s.reply \subseteq {said},
           s.status = "none" => s.reply = {}
    PROVE  /\ Child(status', reply', said', turn')
           /\ running' \in BOOLEAN /\ erred' \in BOOLEAN
           /\ turn' \in {"on", "off"} /\ mishaps' \in 0..MaxMishaps
  <1> DEFINE asked == Published(s, "user_message")
             failed == Published(asked, "error")
             over == Published(failed, "ready")
             Good(r) == /\ r \in Told /\ r.reply \subseteq {said}
                        /\ r.status = "none" <=> status = "none"
                        /\ r.status = "none" => r.reply = {}
  <1>1. ASSUME NEW r, Good(r), NEW e PROVE Good(Published(r, e))
    <2>1. said \in Nat
      BY DEF SubInv, SubTypeOK
    <2>2. Published(r, e) \in Told
      BY <1>1, <2>1, PublishedTold
    <2> QED BY <1>1, <2>2, PublishedListed, PublishedReply
  <1>2. Good(asked) /\ Good(failed) /\ Good(over)
    BY <1>1
  <1>3. \/ turn' = "on" /\ Becomes(asked) /\ mishaps' = mishaps
        \/ turn' = "off" /\ Mishap /\ Becomes(failed)
        \/ turn' = "off" /\ Mishap /\ Becomes(over)
    BY DEF Begins
  <1> HIDE DEF asked, failed, over
  <1>4. ASSUME NEW r, Good(r), Becomes(r), turn' \in {"on", "off"}
        PROVE  /\ Child(status', reply', said', turn')
               /\ running' \in BOOLEAN /\ erred' \in BOOLEAN
    BY <1>4 DEF Becomes, Child, Told
  <1>5. mishaps \in 0..MaxMishaps
    BY DEF SubInv, SubTypeOK
  <1> HIDE DEF Good
  <1> QED BY <1>2, <1>3, <1>4, <1>5, MishapKeeps

LEMMA EngineStepKeeps == SubInv /\ EngineStep => SubInv'
  <1> SUFFICES ASSUME SubInv, EngineStep PROVE SubInv'
    OBVIOUS
  <1>a. /\ inbox \in Nat /\ queued \in Nat /\ aside \subseteq {"work", "action"}
        /\ turn \in {"off", "on", "asks"}
        /\ said \in 0..MaxReplies /\ mishaps \in 0..MaxMishaps /\ MaxReplies \in Nat
    BY Bounds DEF SubInv, SubTypeOK
  <1>b. /\ Now \in Told /\ Now.status = status /\ Now.reply = reply
        /\ reply \subseteq {said} /\ (status = "none" => reply = {})
    BY NowTold DEF SubInv, Now, DoneIsOver, Listed
  <1>1. CASE Reads
    <2>1. /\ hosted /\ inbox' = inbox - 1 /\ inbox' \in Nat /\ EngineOnly
          /\ aside' = aside /\ said' = said
      BY <1>1, <1>a DEF Reads
    <2>2. CASE Begins(Now) /\ queued' = queued
      BY <2>1, <2>2, <1>a, <1>b, BeginKeeps, EngineKeeps
    <2>3. CASE turn # "off" /\ queued' = queued + 1 /\ UNCHANGED <<child, turn, mishaps>>
      <3>1. Child(status', reply', said', turn') /\ running' \in BOOLEAN /\ erred' \in BOOLEAN
        BY <2>1, <2>3, SilenceKeeps
      <3> QED BY <2>1, <2>3, <3>1, <1>a, EngineKeeps
    <2> QED BY <1>1, <2>2, <2>3 DEF Reads
  <1>2. CASE Continues
    <2>1. /\ hosted /\ queued' \in Nat /\ EngineOnly /\ Begins(Now)
          /\ inbox' = inbox /\ aside' = aside /\ said' = said
      BY <1>2, <1>a, HostedWorks DEF Continues
    <2> QED BY <2>1, <1>a, <1>b, BeginKeeps, EngineKeeps
  <1>3. CASE Replies
    <2>1. /\ Publishes("assistant_start") /\ said' \in 0..MaxReplies /\ EngineOnly
          /\ turn' = "on" /\ aside' \subseteq aside
          /\ inbox' = inbox /\ queued' = queued /\ mishaps' = mishaps
      BY <1>3, <1>a DEF Replies
    <2>2. hosted
      BY <1>3, HostedWorks DEF Replies
    <2>3. Child(status', reply', said', turn') /\ running' \in BOOLEAN /\ erred' \in BOOLEAN
      BY <2>1, EventIsOfChild
    <2> QED BY <2>1, <2>2, <2>3, <1>a, EngineKeeps
  <1>4. CASE SaysMore
    <2>1. /\ Publishes("assistant_delta") /\ turn # "off" /\ EngineOnly
          /\ said' = said /\ turn = "on" /\ UNCHANGED <<inbox, queued, turn, aside, mishaps>>
      BY <1>4, <1>a DEF SaysMore, childEngine
    <2>2. Child(status', reply', said', turn') /\ running' \in BOOLEAN /\ erred' \in BOOLEAN
      BY <2>1, EventIsOfChild DEF Waits, Works
    <2> QED BY <2>1, <2>2, <1>a, HostedWorks, EngineKeeps
  <1>5. CASE UsesTool
    <2>1. /\ Publishes("tool_start") /\ turn # "off" /\ EngineOnly
          /\ said' = said /\ UNCHANGED <<inbox, queued, turn, aside, mishaps>>
      BY <1>5, <1>a DEF UsesTool, childEngine
    <2>2. Child(status', reply', said', turn') /\ running' \in BOOLEAN /\ erred' \in BOOLEAN
      BY <2>1, EventIsOfChild DEF Waits, Works
    <2> QED BY <2>1, <2>2, <1>a, HostedWorks, EngineKeeps
  <1>6. CASE Asks
    <2>1. /\ Publishes("approval_request") /\ turn # "off" /\ EngineOnly
          /\ said' = said /\ UNCHANGED <<inbox, queued, aside>>
          /\ turn' = "asks" /\ mishaps' \in 0..MaxMishaps
      BY <1>6, <1>a, MishapKeeps DEF Asks, childEngine
    <2>2. Child(status', reply', said', turn') /\ running' \in BOOLEAN /\ erred' \in BOOLEAN
      BY <2>1, EventIsOfChild DEF Waits, Works
    <2> QED BY <2>1, <2>2, <1>a, HostedWorks, EngineKeeps
  <1>7. CASE Defers
    <2>1. /\ Publishes("action_deferred") /\ turn # "off" /\ EngineOnly
          /\ said' = said /\ UNCHANGED <<inbox, queued, turn>>
          /\ aside' \subseteq {"work", "action"} /\ mishaps' \in 0..MaxMishaps
      BY <1>7, <1>a, MishapKeeps DEF Defers, childEngine
    <2>2. Child(status', reply', said', turn') /\ running' \in BOOLEAN /\ erred' \in BOOLEAN
      BY <2>1, EventIsOfChild DEF Waits, Works
    <2> QED BY <2>1, <2>2, <1>a, HostedWorks, EngineKeeps
  <1>8. CASE Answered
    <2>1. /\ turn # "off" /\ turn' = "on" /\ EngineOnly
          /\ UNCHANGED <<inbox, queued, aside, said, mishaps>>
          /\ Publishes("tool_start") \/ UNCHANGED child
      BY <1>8 DEF Answered
    <2>2. Child(status', reply', said', turn') /\ running' \in BOOLEAN /\ erred' \in BOOLEAN
      BY <2>1, EventIsOfChild, SilenceKeeps
    <2> QED BY <2>1, <2>2, <1>a, HostedWorks, EngineKeeps
  <1>9. CASE Decided
    <2>1. /\ aside # {} /\ aside' \subseteq aside /\ EngineOnly /\ inbox' = inbox /\ said' = said
      BY <1>9 DEF Decided
    <2>2. CASE Begins(Published(Now, "action_decided")) /\ queued' = queued
      <3> DEFINE s == Published(Now, "action_decided")
      <3>1. s \in Told
        BY <1>a, <1>b, PublishedTold
      <3>2. /\ s.status = "none" <=> Now.status = "none"
            /\ s.status = "none" => s.reply = Now.reply
        BY <1>b, PublishedListed
      <3>3. s.reply \subseteq Now.reply
        BY <1>b, PublishedReply
      <3> HIDE DEF s
      <3>4. /\ s.reply \subseteq {said}
            /\ s.status = "none" <=> status = "none"
            /\ s.status = "none" => s.reply = {}
        BY <1>b, <3>2, <3>3
      <3>5. Begins(s)
        BY <2>2 DEF s
      <3>6. /\ Child(status', reply', said', turn')
            /\ running' \in BOOLEAN /\ erred' \in BOOLEAN
            /\ turn' \in {"on", "off"} /\ mishaps' \in 0..MaxMishaps
        BY <2>1, <3>1, <3>4, <3>5, BeginKeeps
      <3> QED BY <2>1, <2>2, <3>6, <1>a, EngineKeeps, HostedWorks
    <2>3. CASE queued' = queued + 1 /\ Publishes("action_decided") /\ UNCHANGED <<turn, mishaps>>
      <3>1. Child(status', reply', said', turn') /\ running' \in BOOLEAN /\ erred' \in BOOLEAN
        BY <2>1, <2>3, EventIsOfChild DEF Works
      <3> QED BY <2>1, <2>3, <3>1, <1>a, EngineKeeps, HostedWorks
    <2> QED BY <1>9, <2>2, <2>3 DEF Decided
  <1>10. CASE LeavesWork
    <2>1. /\ turn # "off" /\ EngineOnly /\ UNCHANGED <<child, inbox, queued, turn, said>>
          /\ aside' \subseteq {"work", "action"} /\ mishaps' \in 0..MaxMishaps
      BY <1>10, <1>a, MishapKeeps DEF LeavesWork
    <2>2. Child(status', reply', said', turn') /\ running' \in BOOLEAN /\ erred' \in BOOLEAN
      BY <2>1, SilenceKeeps
    <2> QED BY <2>1, <2>2, <1>a, HostedWorks, EngineKeeps
  <1>11. CASE WorkUsesTool
    <2>1. /\ Publishes("nested_tool_start") /\ aside # {} /\ EngineOnly
          /\ UNCHANGED <<inbox, queued, turn, aside, said, mishaps>>
      BY <1>11 DEF WorkUsesTool, childEngine
    <2>2. Child(status', reply', said', turn') /\ running' \in BOOLEAN /\ erred' \in BOOLEAN
      BY <2>1, EventIsOfChild DEF Works
    <2> QED BY <2>1, <2>2, <1>a, HostedWorks, EngineKeeps
  <1>12. CASE WorkEnds
    <2>1. /\ aside # {} /\ aside' \subseteq aside /\ EngineOnly
          /\ UNCHANGED <<child, inbox, queued, turn, said, mishaps>>
      BY <1>12 DEF WorkEnds
    <2>2. Child(status', reply', said', turn') /\ running' \in BOOLEAN /\ erred' \in BOOLEAN
      BY <2>1, SilenceKeeps
    <2> QED BY <2>1, <2>2, <1>a, HostedWorks, EngineKeeps
  <1>13. CASE Finishes
    <2>1. /\ turn # "off" /\ turn' = "off" /\ EngineOnly /\ UNCHANGED <<inbox, queued, aside, said>>
          /\ mishaps' \in 0..MaxMishaps
      BY <1>13, <1>a, MishapKeeps DEF Finishes
    <2> DEFINE err == Published(Now, "error")
               Good(r) == /\ r \in Told /\ r.reply \subseteq {said}
                          /\ r.status = "none" <=> status = "none"
                          /\ r.status = "none" => r.reply = {}
    <2>2. Good(Now)
      BY <1>b
    <2>3. ASSUME NEW r, Good(r), NEW e PROVE Good(Published(r, e))
      <3>1. Published(r, e) \in Told
        BY <2>3, <1>a, PublishedTold
      <3> QED BY <2>3, <3>1, PublishedListed, PublishedReply
    <2>4. /\ Good(Published(Now, "ready")) /\ Good(err) /\ Good(Published(err, "ready"))
      BY <2>2, <2>3
    <2>5. \/ Becomes(Now) \/ Becomes(Published(Now, "ready"))
          \/ Becomes(err) \/ Becomes(Published(err, "ready"))
      BY <1>13 DEF Finishes
    <2>6. ASSUME NEW r, Good(r), Becomes(r)
          PROVE  /\ Child(status', reply', said', turn')
                 /\ running' \in BOOLEAN /\ erred' \in BOOLEAN
      BY <2>1, <2>6 DEF Becomes, Child, Told
    <2> HIDE DEF Good, err
    <2>7. Child(status', reply', said', turn') /\ running' \in BOOLEAN /\ erred' \in BOOLEAN
      BY <2>2, <2>4, <2>5, <2>6
    <2> QED BY <2>1, <2>7, <1>a, HostedWorks, EngineKeeps
  <1> QED BY <1>1, <1>2, <1>3, <1>4, <1>5, <1>6, <1>7, <1>8, <1>9, <1>10, <1>11, <1>12, <1>13
          DEF EngineStep

-----------------------------------------------------------------------------
\* The steps of the parent, of the user and of the engine's thread, one lemma for those that
\* leave the child as it was told, and one for those that tell of it.

LEMMA ParentKeeps ==
    ASSUME SubInv,
           \/ \E k \in {"jucode", "cli"} : Creates(k)
           \/ Lists \/ Started
           \/ \E c \in Call : SendChecks(c) \/ SendSets(c) \/ SendDelivers(c)
    PROVE  SubInv'
  <1>a. /\ inbox \in Nat /\ messages \in Nat /\ inbox + 1 \in Nat /\ messages + 1 \in Nat
        /\ call \in [Call -> {"idle", "checked", "set"}]
    BY DEF SubInv, SubTypeOK
  <1>1. ASSUME NEW k \in {"jucode", "cli"}, Creates(k) PROVE SubInv'
    <2>1. SubTypeOK'
      BY <1>1 DEF SubInv, SubTypeOK, Creates, child, childEngine
    <2>2. Unhosted' /\ StoppedIsTold' /\ DoneIsOver'
      BY <1>1 DEF SubInv, Creates, Unhosted, StoppedIsTold, DoneIsOver, child, childEngine
    <2>3. Listed'
      BY <1>1 DEF SubInv, Creates, Listed, child
    <2> QED BY <2>1, <2>2, <2>3 DEF SubInv
  <1>2. CASE Lists
    <2>1. SubTypeOK'
      BY <1>2 DEF SubInv, SubTypeOK, Lists, childEngine
    <2>2. Unhosted' /\ DoneIsOver'
      BY <1>2 DEF SubInv, Lists, Unhosted, DoneIsOver, childEngine
    <2>3. Listed'
      BY <1>2 DEF SubInv, Lists, Listed
    <2>4. StoppedIsTold'
      BY <1>2 DEF Lists, StoppedIsTold, Sending
    <2> QED BY <2>1, <2>2, <2>3, <2>4 DEF SubInv
  <1>3. CASE Started
    <2>1. SubTypeOK'
      BY <1>3, <1>a DEF SubInv, SubTypeOK, Started, Delivers
    <2>2. Unhosted' /\ DoneIsOver'
      BY <1>3 DEF SubInv, Started, Delivers, Unhosted, DoneIsOver
    <2>3. Listed'
      BY <1>3 DEF SubInv, Started, Listed
    <2>4. StoppedIsTold'
      BY <1>3 DEF Started, Delivers, StoppedIsTold
    <2> QED BY <2>1, <2>2, <2>3, <2>4 DEF SubInv
  <1>4. ASSUME NEW c \in Call, SendChecks(c) PROVE SubInv'
    <2>1. /\ call' \in [Call -> {"idle", "checked", "set"}]
          /\ \A b \in Call : call'[b] = "set" <=> call[b] = "set"
          /\ starting' = starting /\ starting = "done"
      BY <1>4, <1>a DEF SendChecks
    <2>2. SubTypeOK'
      BY <1>4, <2>1 DEF SubInv, SubTypeOK, SendChecks, child, childEngine
    <2>3. Unhosted' /\ DoneIsOver' /\ Listed'
      BY <1>4, <2>1 DEF SubInv, SendChecks, Unhosted, DoneIsOver, Listed, child, childEngine
    <2>4. Sending' <=> Sending
      BY <2>1 DEF Sending
    <2>5. StoppedIsTold'
      BY <1>4, <2>4 DEF SubInv, SendChecks, StoppedIsTold, child
    <2> QED BY <2>2, <2>3, <2>5 DEF SubInv
  <1>5. ASSUME NEW c \in Call, SendSets(c) PROVE SubInv'
    <2>1. call' \in [Call -> {"idle", "checked", "set"}] /\ call'[c] = "set"
      BY <1>5, <1>a DEF SendSets
    <2>2. starting = "done" /\ starting' = starting
      BY <1>5 DEF SubInv, Listed, SendSets
    <2>3. SubTypeOK'
      BY <1>5, <2>1, <2>2 DEF SubInv, SubTypeOK, SendSets, childEngine
    <2>4. Unhosted' /\ DoneIsOver' /\ Listed'
      BY <1>5, <2>2 DEF SubInv, SendSets, Unhosted, DoneIsOver, Listed, childEngine
    <2>5. StoppedIsTold'
      BY <2>1 DEF StoppedIsTold, Sending
    <2> QED BY <2>3, <2>4, <2>5 DEF SubInv
  <1>6. ASSUME NEW c \in Call, SendDelivers(c) PROVE SubInv'
    <2>1. call' \in [Call -> {"idle", "checked", "set"}]
      BY <1>6, <1>a DEF SendDelivers
    <2>2. starting = "done" /\ starting' = starting
      BY <1>6 DEF SubInv, Listed, SendDelivers
    <2>3. SubTypeOK'
      BY <1>6, <1>a, <2>1, <2>2 DEF SubInv, SubTypeOK, SendDelivers, Delivers, child
    <2>4. Unhosted' /\ DoneIsOver' /\ Listed'
      BY <1>6, <2>2 DEF SubInv, SendDelivers, Delivers, Unhosted, DoneIsOver, Listed, child
    <2>5. StoppedIsTold'
      BY <1>6 DEF SendDelivers, Delivers, StoppedIsTold
    <2> QED BY <2>3, <2>4, <2>5 DEF SubInv
  <1> QED BY <1>1, <1>2, <1>3, <1>4, <1>5, <1>6

LEMMA HostKeeps ==
    ASSUME SubInv, UserWrites \/ Opens \/ Closes \/ ClosesIdle \/ ThreadEnds
    PROVE  SubInv'
  <1>a. /\ inbox \in Nat /\ messages \in Nat /\ inbox + 1 \in Nat /\ messages + 1 \in Nat
        /\ said \in Nat
    BY DEF SubInv, SubTypeOK
  <1>1. CASE UserWrites
    <2>1. SubTypeOK'
      BY <1>1, <1>a DEF SubInv, SubTypeOK, UserWrites, Delivers, child, parent
    <2>2. Unhosted' /\ StoppedIsTold' /\ DoneIsOver' /\ Listed'
      BY <1>1 DEF SubInv, UserWrites, Delivers, Unhosted, StoppedIsTold, DoneIsOver, Listed,
                  child, parent
    <2> QED BY <2>1, <2>2 DEF SubInv
  <1>2. CASE Opens
    <2>1. /\ starting # "no" /\ ~hosted /\ hosted' = TRUE /\ said' = said
          /\ UNCHANGED <<kind, leaving, inbox, queued, turn, aside, starting, call, unsent,
                         messages>>
          /\ Publishes("ready") \/ UNCHANGED child
      BY <1>2 DEF Opens, childEngine, parent
    <2>2. mishaps' \in 0..MaxMishaps /\ turn' = "off"
      BY <1>2, <2>1, MishapKeeps DEF Opens, SubInv, Unhosted
    <2>3. Child(status', reply', said', turn') /\ running' \in BOOLEAN /\ erred' \in BOOLEAN
      BY <2>1, <2>2, EventIsOfChild, SilenceKeeps
    <2>4. reply' \subseteq 0..MaxReplies
      BY <2>1, <2>3 DEF Child, SubInv, SubTypeOK
    <2>5. SubTypeOK'
      BY <2>1, <2>2, <2>3, <2>4 DEF SubInv, SubTypeOK, Child, ChildStatus
    <2>6. Unhosted' /\ StoppedIsTold'
      BY <2>1 DEF Unhosted, StoppedIsTold
    <2>7. Listed' /\ DoneIsOver'
      BY <2>1, <2>2, <2>3 DEF SubInv, Listed, DoneIsOver, Child
    <2> QED BY <2>5, <2>6, <2>7 DEF SubInv
  <1>3. CASE Closes \/ ClosesIdle
    <2>1. /\ hosted /\ Stops /\ mishaps' \in 0..MaxMishaps
          /\ UNCHANGED <<status, reply, running, erred, kind, starting, call, unsent,
                         messages, said>>
      BY <1>3, MishapKeeps DEF Closes, ClosesIdle, child, parent, SubInv, SubTypeOK
    <2>2. SubTypeOK'
      BY <2>1 DEF SubInv, SubTypeOK, Stops
    <2>3. Unhosted' /\ StoppedIsTold' /\ DoneIsOver' /\ Listed'
      BY <2>1 DEF SubInv, Stops, Unhosted, StoppedIsTold, DoneIsOver, Listed
    <2> QED BY <2>2, <2>3 DEF SubInv
  <1>4. CASE ThreadEnds
    <2>1. /\ leaving /\ leaving' = FALSE
          /\ UNCHANGED <<reply, running, erred, kind, hosted, inbox, queued, turn, aside,
                         starting, call, unsent, messages, said, mishaps>>
          /\ \/ hosted /\ status' = status
             \/ ~hosted /\ Ended
      BY <1>4 DEF ThreadEnds, childEngine, parent
    <2>2. /\ status' \in ChildStatus
          /\ status' = "none" <=> status = "none"
          /\ status' \in Ends => status \in Ends
          /\ ~hosted => status' \notin {"running", "waiting_approval"}
      BY <2>1 DEF Ended, SubInv, SubTypeOK, ChildStatus, Ends
    <2>3. SubTypeOK'
      BY <2>1, <2>2 DEF SubInv, SubTypeOK, ChildStatus
    <2>4. Unhosted' /\ StoppedIsTold' /\ DoneIsOver' /\ Listed'
      BY <2>1, <2>2 DEF SubInv, Unhosted, StoppedIsTold, DoneIsOver, Listed, Ends
    <2> QED BY <2>3, <2>4 DEF SubInv
  <1> QED BY <1>1, <1>2, <1>3, <1>4

LEMMA StutterKeeps == SubInv /\ UNCHANGED subVars => SubInv'
  BY DEF SubInv, SubTypeOK, Unhosted, Listed, StoppedIsTold, Sending, DoneIsOver, subVars, child,
         childEngine, parent

LEMMA SubHolds == SubSpec => []SubInv
  <1>1. SubInv /\ [SubNext]_subVars => SubInv'
    <2> SUFFICES ASSUME SubInv, [SubNext]_subVars PROVE SubInv'
      OBVIOUS
    <2>1. CASE UNCHANGED subVars
      BY <2>1, StutterKeeps
    <2>2. CASE EngineStep
      BY <2>2, EngineStepKeeps
    <2> QED BY <2>1, <2>2, ParentKeeps, HostKeeps DEF SubNext
  <1> QED BY SubStarts, <1>1, PTL DEF SubSpec

\* The state of a child, of its engine and of the calls about it is typed: whatever is sent,
\* closed and opened again in between (subsessions.rs, hub.rs).
THEOREM SubTypes == SubSpec => []SubTypeOK
  <1>1. SubInv => SubTypeOK
    BY DEF SubInv
  <1> QED BY SubHolds, <1>1, PTL

\* A parent is told that a child's session closed, however many calls it makes at once and
\* however often the user closes and opens the child: session_ended reaches the child's
\* entry before anyone can take it for one at work (subsessions.rs, ended).
THEOREM StopIsTold == SubSpec => []StoppedIsTold
  <1>1. SubInv => StoppedIsTold
    BY DEF SubInv
  <1> QED BY SubHolds, <1>1, PTL

\* A child told to be done or to have failed has no turn that waits for an answer (an action
\* it put off may be open), and the reply a parent reads is of one message of the model,
\* however many turns and messages there were (observe).
THEOREM DoneStaysOver == SubSpec => []DoneIsOver
  <1>1. SubInv => DoneIsOver
    BY DEF SubInv
  <1> QED BY SubHolds, <1>1, PTL

=============================================================================
