----------------------------- MODULE SessionLock -----------------------------
(***************************************************************************)
(* The lock file of a session on JuCode's engine                           *)
(* (crates/agent-core/src/session.rs, `SessionLock`) and the engine's      *)
(* `/resume`, which takes it (core.rs, `resume_session_events`).  Engines  *)
(* run in processes (the daemon has many, each TUI one) that share nothing *)
(* but the files; a process may be killed between any two of its system    *)
(* calls.  An action is one system call.                                   *)
(***************************************************************************)
EXTENDS Naturals, FiniteSets

CONSTANTS
    Session,    \* the sessions of one directory
    Engine,     \* JuCode engines
    Process,    \* the processes they run in, known by their pids
    Of,         \* the process of each engine
    MaxCrashes, \* bound: processes killed
    None        \* no session, no pid, no file

ASSUME LockAssumption ==
    /\ Of \in [Engine -> Process]
    /\ MaxCrashes \in Nat
    /\ None \notin Session \cup Process \cup Engine

VARIABLES
    file,       \* per session: who created the lock file, and the pid in it
    mine,       \* the session each engine is on; None: a new one of its own
    want,       \* the session it resumes
    pc,         \* its next system call
    seen,       \* the dead process's pid it read from the lock file
    late,       \* LOCK_WAIT has passed since its acquire began
    dead,       \* the processes killed
    crashes,
    snatched    \* history: the sessions of which a new lock file was removed as stale

vars == <<file, mine, want, pc, seen, late, dead, crashes, snatched>>

NoFile == [by |-> None, pid |-> None]

TypeOK ==
    /\ file \in [Session -> [by : Engine \cup {None}, pid : Process \cup {None}]]
    /\ mine \in [Engine -> Session \cup {None}]
    /\ want \in [Engine -> Session \cup {None}]
    /\ pc \in [Engine -> {"idle", "create", "write", "load", "release", "read",
                          "remove", "decide", "drop", "killed"}]
    /\ seen \in [Engine -> Process \cup {None}]
    /\ late \in [Engine -> BOOLEAN]
    /\ dead \subseteq Process
    /\ crashes \in 0..MaxCrashes
    /\ snatched \subseteq Session

Init ==
    /\ file = [s \in Session |-> NoFile]
    /\ mine = [e \in Engine |-> None]
    /\ want = [e \in Engine |-> None]
    /\ pc = [e \in Engine |-> "idle"]
    /\ seen = [e \in Engine |-> None]
    /\ late = [e \in Engine |-> FALSE]
    /\ dead = {}
    /\ crashes = 0
    /\ snatched = {}

-----------------------------------------------------------------------------
(* Acquiring *)

At(e, label) == pc[e] = label /\ Of[e] \notin dead

GoTo(e, label) == pc' = [pc EXCEPT ![e] = label]

\* The command is over, for good or ill.
Finish(e) ==
    /\ GoTo(e, "idle")
    /\ want' = [want EXCEPT ![e] = None]
    /\ seen' = [seen EXCEPT ![e] = None]
    /\ late' = [late EXCEPT ![e] = FALSE]

\* `/resume s`, unless the engine is on s already.
Resume(e, s) ==
    /\ At(e, "idle") /\ mine[e] # s
    /\ want' = [want EXCEPT ![e] = s]
    /\ GoTo(e, "create")
    /\ UNCHANGED <<file, mine, seen, late, dead, crashes, snatched>>

\* Only one process creates the file; to the others it exists already.
Create(e) ==
    /\ At(e, "create")
    /\ IF file[want[e]] = NoFile
         THEN /\ file' = [file EXCEPT ![want[e]] = [by |-> e, pid |-> None]]
              /\ late' = [late EXCEPT ![e] = FALSE]
              /\ GoTo(e, "write")
         ELSE /\ GoTo(e, "read")
              /\ UNCHANGED <<file, late>>
    /\ UNCHANGED <<mine, want, seen, dead, crashes, snatched>>

\* The directory cannot be written.
CreateFails(e) ==
    /\ At(e, "create")
    /\ Finish(e)
    /\ UNCHANGED <<file, mine, dead, crashes, snatched>>

\* Its pid goes into the file it created, which may be out of the directory by
\* now.  A write that fails (a full disk) is ignored.
WritePid(e) ==
    /\ At(e, "write")
    /\ \/ /\ file[want[e]].by = e
          /\ file' = [file EXCEPT ![want[e]].pid = Of[e]]
       \/ UNCHANGED file
    /\ GoTo(e, "load")
    /\ UNCHANGED <<mine, want, seen, late, dead, crashes, snatched>>

\* The conversation loads, and the engine is on it...
Loads(e) ==
    /\ At(e, "load")
    /\ mine' = [mine EXCEPT ![e] = want[e]]
    /\ IF mine[e] = None
         THEN Finish(e)
         ELSE /\ want' = [want EXCEPT ![e] = mine[e]]
              /\ GoTo(e, "release")
              /\ UNCHANGED <<seen, late>>
    /\ UNCHANGED <<file, dead, crashes, snatched>>

\* ... and only then lets go of the one it was on: its file goes by its name.
Release(e) ==
    /\ At(e, "release")
    /\ file' = [file EXCEPT ![want[e]] = NoFile]
    /\ Finish(e)
    /\ UNCHANGED <<mine, dead, crashes, snatched>>

\* The conversation does not load: the new lock is dropped.
LoadFails(e) ==
    /\ At(e, "load")
    /\ file' = [file EXCEPT ![want[e]] = NoFile]
    /\ Finish(e)
    /\ UNCHANGED <<mine, dead, crashes, snatched>>

\* (Slip: a file without a pid is taken for stale as well.)
StaleIfUnnamed(pid) == pid = None \/ pid \in dead

\* The pid read belongs to no process.
IsStale(pid) == pid # None /\ pid \in dead

\* Who holds it?  A file that is gone, or not written yet, names nobody.
ReadPid(e) ==
    /\ At(e, "read")
    /\ IF IsStale(file[want[e]].pid)
         THEN GoTo(e, "remove") /\ seen' = [seen EXCEPT ![e] = file[want[e]].pid]
         ELSE GoTo(e, "decide") /\ UNCHANGED seen
    /\ UNCHANGED <<file, mine, want, late, dead, crashes, snatched>>

\* The file of s is not the one whose pid the engine read any more.
Renewed(e, s) == file[s] # NoFile /\ file[s].pid # seen[e]

\* A stale lock is removed: whatever file has its name now, though another may
\* have removed the stale one meanwhile and created its own.
Remove(e) ==
    /\ At(e, "remove")
    /\ file' = [file EXCEPT ![want[e]] = NoFile]
    /\ snatched' = IF Renewed(e, want[e]) THEN snatched \cup {want[e]} ELSE snatched
    /\ GoTo(e, IF file[want[e]] = NoFile THEN "decide" ELSE "create")
    /\ seen' = [seen EXCEPT ![e] = None]
    /\ UNCHANGED <<mine, want, late, dead, crashes>>

\* LOCK_WAIT runs out.
Deadline(e) ==
    /\ pc[e] \in {"create", "read", "remove", "decide"} /\ ~late[e]
    /\ late' = [late EXCEPT ![e] = TRUE]
    /\ UNCHANGED <<file, mine, want, pc, seen, dead, crashes, snatched>>

\* (Slip: the wait starts over with every retry.)
RetriesForEver(e) ==
    /\ At(e, "decide")
    /\ GoTo(e, "create") /\ late' = [late EXCEPT ![e] = FALSE]
    /\ UNCHANGED <<file, mine, want, seen, dead, crashes, snatched>>

\* Another holds it: try again in 100 ms, or, after LOCK_WAIT, give up.
Decide(e) ==
    /\ At(e, "decide")
    /\ IF late[e] THEN Finish(e) ELSE GoTo(e, "create") /\ UNCHANGED <<want, seen, late>>
    /\ UNCHANGED <<file, mine, dead, crashes, snatched>>

-----------------------------------------------------------------------------
(* Holders that stop *)

\* The engine ends: its lock is dropped, and the file removed by its name.
Close(e) ==
    /\ At(e, "idle") /\ mine[e] # None
    /\ file' = [file EXCEPT ![mine[e]] = NoFile]
    /\ mine' = [mine EXCEPT ![e] = None]
    /\ UNCHANGED <<want, pc, seen, late, dead, crashes, snatched>>

\* A process is killed: its engines are gone and its lock files stay.
Crash(p) ==
    /\ p \notin dead /\ crashes < MaxCrashes
    /\ crashes' = crashes + 1
    /\ dead' = dead \cup {p}
    /\ mine' = [e \in Engine |-> IF Of[e] = p THEN None ELSE mine[e]]
    /\ want' = [e \in Engine |-> IF Of[e] = p THEN None ELSE want[e]]
    /\ pc' = [e \in Engine |-> IF Of[e] = p THEN "killed" ELSE pc[e]]
    /\ seen' = [e \in Engine |-> IF Of[e] = p THEN None ELSE seen[e]]
    /\ late' = [e \in Engine |-> IF Of[e] = p THEN FALSE ELSE late[e]]
    /\ UNCHANGED <<file, snatched>>

Acquire(e) ==
    \/ Create(e) \/ CreateFails(e) \/ WritePid(e)
    \/ Loads(e) \/ LoadFails(e) \/ Release(e) \/ ReadPid(e) \/ Remove(e) \/ Decide(e)

Next ==
    \/ \E e \in Engine : \/ Acquire(e) \/ Deadline(e) \/ Close(e)
                         \/ \E s \in Session : Resume(e, s)
    \/ \E p \in Process : Crash(p)

Spec == Init /\ [][Next]_vars

\* A live process goes on with its calls, and its clock with it.
FairSpec == Spec /\ \A e \in Engine : WF_vars(Acquire(e)) /\ WF_vars(Deadline(e))

-----------------------------------------------------------------------------
(* Properties *)

\* The engine has s open, or is about to load it.
Holds(e, s) == mine[e] = s \/ (want[e] = s /\ pc[e] \in {"write", "load"})

\* No two engines hold one session, though their processes die at any call:
\* neither resumes, and then appends to, the conversation of the other.  The read
\* of a stale file and its removal are two calls, so a third engine's new file may
\* be removed in between; the sessions to which that happened are left out
\* (SessionLock::acquire).
OneHolder ==
    \A s \in Session \ snatched :
        \A d, e \in Engine : Holds(d, s) /\ Holds(e, s) => d = e

\* An engine's lock file is its own as long as it holds the session: nobody
\* takes a live process's lock for a stale one (acquire).
HolderHasFile ==
    \A s \in Session \ snatched : \A e \in Engine : Holds(e, s) => file[s].by = e

\* Every resume ends, though two engines may wait for each other's session.
AcquireReturns ==
    \A e \in Engine : (pc[e] = "create") ~> (pc[e] \in {"idle", "killed"})

=============================================================================
