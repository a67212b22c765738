------------------------------- MODULE Login -------------------------------
(***************************************************************************)
(* The JuCode login of this computer (crates/agent-core/src/oauth.rs) in   *)
(* auth.json, a file every process shares (config.rs, AuthStore).  The     *)
(* refresh token is single use: the gateway takes it once and answers with *)
(* the next one.  A session check and a logout hold a mutex of their       *)
(* process and a lock on auth.lock from the reload to the save; the lock   *)
(* goes when the process dies.  An engine keeps the store it last loaded   *)
(* (core.rs, self.auth), and a sign-in, an API key and a provider's login  *)
(* save that copy without the lock.                                        *)
(*                                                                         *)
(* Of a token bundle the model keeps the device login it belongs to, how   *)
(* often it was rotated and the computer it was made on; of auth.json the  *)
(* bundle.  The gateway is external: it is modelled by the answers         *)
(* oauth.rs distinguishes.                                                 *)
(***************************************************************************)
EXTENDS Naturals

CONSTANTS
    Process, Thread,    \* processes of this computer and their threads
    HomeOf,             \* the process of a thread
    Engine,             \* the threads that run an agent core
    NoLogin, NoThread,
    MaxDevices,         \* bound: device logins, the first one's included
    MaxOps,             \* bound: operations begun
    MaxSpends,          \* bound: rotations of a device login
    MaxMishaps          \* bound: crashes, lost answers, failed saves, expiries

Device == 1..MaxDevices
Token == [dev : Device, n : 0..MaxSpends, at : {"here", "other", "none"}]

ASSUME LoginAssumption ==
    /\ HomeOf \in [Thread -> Process]
    /\ Engine \subseteq Thread
    /\ NoThread \notin Thread /\ NoLogin \notin Token
    /\ MaxDevices \in Nat \ {0} /\ MaxSpends \in Nat
    /\ MaxOps \in Nat /\ MaxMishaps \in Nat

VARIABLES
    file,      \* the login in auth.json
    rotations, revoked, \* the gateway: how often a device login was rotated; those revoked
    issued,    \* device logins made
    revoking,  \* device logins a spawned thread is about to revoke
    pc, job, refused,
    read,      \* the store a session check or a logout works on
    auth,      \* the store a thread last got: self.auth of an engine
    mutex,     \* SESSION_REFRESH of each process
    lock,      \* the thread that has auth.lock
    crossed,   \* an engine has changed auth.json since auth.lock was taken
    lost,      \* tokens that have expired, or are left in auth.json although spent
    ops, mishaps

remote == <<rotations, revoked>>
vars == <<file, remote, issued, revoking, pc, job, refused, read, auth, mutex, lock, crossed,
          lost, ops, mishaps>>

TypeOK ==
    /\ file \in Token \cup {NoLogin}
    /\ rotations \in [Device -> 0..MaxSpends] /\ revoked \subseteq Device
    /\ issued \in Device
    /\ revoking \subseteq Device
    /\ pc \in [Thread -> {"idle", "mutex", "lock", "claim", "check", "present", "revoke", "save",
                          "login"}]
    /\ job \in [Thread -> {"session", "logout"}]
    /\ refused \in [Thread -> Token \cup {NoLogin}]
    /\ read \in [Thread -> Token \cup {NoLogin}]
    /\ auth \in [Thread -> Token \cup {NoLogin}]
    /\ mutex \in [Process -> Thread \cup {NoThread}]
    /\ lock \in Thread \cup {NoThread}
    /\ crossed \in BOOLEAN
    /\ lost \subseteq Device \X (0..MaxSpends)
    /\ ops \in 0..MaxOps /\ mishaps \in 0..MaxMishaps

Init ==
    /\ file \in {NoLogin} \cup [dev : {1}, n : {0}, at : {"here", "other", "none"}]
    /\ rotations = [d \in Device |-> 0] /\ revoked = {}
    /\ issued = 1
    /\ revoking = {}
    /\ pc = [t \in Thread |-> "idle"]
    /\ job = [t \in Thread |-> "session"]
    /\ refused = [t \in Thread |-> NoLogin]
    /\ read = [t \in Thread |-> NoLogin]
    /\ auth = [t \in Thread |-> NoLogin]
    /\ mutex = [p \in Process |-> NoThread]
    /\ lock = NoThread
    /\ crossed = FALSE
    /\ lost = {}
    /\ ops = 0 /\ mishaps = 0

-----------------------------------------------------------------------------
(* jucode_tokens: a login copied from another computer is none. *)
Ours(tk) == tk # NoLogin /\ tk.at # "other"

SameToken(a, b) == a # NoLogin /\ b # NoLogin /\ a.dev = b.dev /\ a.n = b.n

(* A rotated token, and the one it comes from. *)
Succeeds(a, b) == a # NoLogin /\ b # NoLogin /\ a.dev = b.dev /\ a.n = b.n + 1

(* What the gateway thinks of a token. *)
Accepted(tk) == tk # NoLogin /\ tk.dev \notin revoked /\ tk.n = rotations[tk.dev]

(* A call that returns: the guards go, and the store it worked on. *)
Returns(t) ==
    /\ pc' = [pc EXCEPT ![t] = "idle"]
    /\ job' = [job EXCEPT ![t] = "session"]
    /\ refused' = [refused EXCEPT ![t] = NoLogin]
    /\ read' = [read EXCEPT ![t] = NoLogin]
    /\ mutex' = [mutex EXCEPT ![HomeOf[t]] = NoThread]
    /\ lock' = NoThread

Mishap == mishaps < MaxMishaps /\ mishaps' = mishaps + 1
Begins == ops < MaxOps /\ ops' = ops + 1

-----------------------------------------------------------------------------
(* ensure_session; and refresh_refused, which the daemon's gateway calls   *)
(* with the access token it was last given and a server refused.           *)
Checks(t, r) ==
    /\ pc[t] = "idle" /\ Begins
    /\ t \in Engine => r = NoLogin
    /\ pc' = [pc EXCEPT ![t] = "mutex"]
    /\ refused' = [refused EXCEPT ![t] = r]
    /\ UNCHANGED <<file, remote, issued, revoking, job, read, auth, mutex, lock, crossed, lost,
                   mishaps>>

LogsOut(t) ==
    /\ pc[t] = "idle" /\ Begins
    /\ pc' = [pc EXCEPT ![t] = "mutex"]
    /\ job' = [job EXCEPT ![t] = "logout"]
    /\ UNCHANGED <<file, remote, issued, revoking, refused, read, auth, mutex, lock, crossed,
                   lost, mishaps>>

TakesMutex(t) ==
    /\ pc[t] = "mutex" /\ mutex[HomeOf[t]] = NoThread
    /\ mutex' = [mutex EXCEPT ![HomeOf[t]] = t]
    /\ pc' = [pc EXCEPT ![t] = "lock"]
    /\ UNCHANGED <<file, remote, issued, revoking, job, refused, read, auth, lock, crossed,
                   lost, ops, mishaps>>

\* (Slip: the lock is not waited for.)
LoadsUnlocked(t) ==
    /\ pc[t] = "lock"
    /\ lock' = t
    /\ crossed' = FALSE
    /\ read' = [read EXCEPT ![t] = file]
    /\ pc' = [pc EXCEPT ![t] =
                CASE job[t] = "logout" -> "revoke"
                  [] job[t] = "session" /\ file # NoLogin /\ file.at = "none" -> "claim"
                  [] OTHER -> "check"]
    /\ UNCHANGED <<file, remote, issued, revoking, job, refused, auth, mutex, lost, ops, mishaps>>

\* (Slip: a logout does not take the lock.)
LoadsToLogOut(t) ==
    /\ pc[t] = "lock"
    /\ lock = NoThread \/ job[t] = "logout"
    /\ lock' = t
    /\ crossed' = FALSE
    /\ read' = [read EXCEPT ![t] = file]
    /\ pc' = [pc EXCEPT ![t] =
                CASE job[t] = "logout" -> "revoke"
                  [] job[t] = "session" /\ file # NoLogin /\ file.at = "none" -> "claim"
                  [] OTHER -> "check"]
    /\ UNCHANGED <<file, remote, issued, revoking, job, refused, auth, mutex, lost, ops, mishaps>>

(* lock_auth_refresh, and the reload that follows at once. *)
Loads(t) ==
    /\ pc[t] = "lock" /\ lock = NoThread
    /\ lock' = t
    /\ crossed' = FALSE
    /\ read' = [read EXCEPT ![t] = file]
    /\ pc' = [pc EXCEPT ![t] =
                CASE job[t] = "logout" -> "revoke"
                  [] job[t] = "session" /\ file # NoLogin /\ file.at = "none" -> "claim"
                  [] OTHER -> "check"]
    /\ UNCHANGED <<file, remote, issued, revoking, job, refused, auth, mutex, lost, ops, mishaps>>

(* claim_jucode_login: a login saved before computers were recorded. *)
Claims(t) ==
    /\ pc[t] = "claim"
    /\ LET claimed == [dev |-> read[t].dev, n |-> read[t].n, at |-> "here"] IN
       \/ /\ file' = claimed
          /\ read' = [read EXCEPT ![t] = claimed]
          /\ pc' = [pc EXCEPT ![t] = "check"]
          /\ UNCHANGED <<job, refused, mutex, lock, mishaps>>
       \/ Returns(t) /\ Mishap /\ UNCHANGED file
    /\ UNCHANGED <<remote, issued, revoking, auth, crossed, lost, ops>>

(* What session finds in the store: a copied login or none is an error, an *)
(* access token that is still good is returned, a session whose refresh    *)
(* token has expired is over, and else the refresh token is presented.     *)
(* Time is left out: an access token may be good or not at any look.       *)
Decides(t) ==
    /\ pc[t] = "check"
    /\ \/ ~Ours(read[t]) /\ Returns(t) /\ UNCHANGED <<auth, lost, mishaps>>
       \/ /\ Ours(read[t]) /\ ~SameToken(read[t], refused[t])
          /\ auth' = [auth EXCEPT ![t] = read[t]]
          /\ Returns(t) /\ UNCHANGED <<lost, mishaps>>
       \/ /\ Ours(read[t]) /\ Mishap
          /\ lost' = lost \cup {<<read[t].dev, read[t].n>>}
          /\ read' = [read EXCEPT ![t] = NoLogin]
          /\ pc' = [pc EXCEPT ![t] = "save"]
          /\ UNCHANGED <<job, refused, auth, mutex, lock>>
       \/ /\ Ours(read[t])
          /\ pc' = [pc EXCEPT ![t] = "present"]
          /\ UNCHANGED <<job, refused, read, auth, mutex, lock, lost, mishaps>>
    /\ UNCHANGED <<file, remote, issued, revoking, crossed, ops>>

\* (Slip: any failure ends the login.)
PresentsOnce(t) ==
    /\ pc[t] = "present"
    /\ LET tk == read[t]
           Rotates == /\ Accepted(tk) /\ tk.n < MaxSpends
                      /\ rotations' = [rotations EXCEPT ![tk.dev] = @ + 1]
           Rotated == [dev |-> tk.dev, n |-> tk.n + 1, at |-> tk.at]
       IN \/ /\ Rotates
             /\ read' = [read EXCEPT ![t] = Rotated]
             /\ pc' = [pc EXCEPT ![t] = "save"]
             /\ UNCHANGED <<job, refused, mutex, lock, lost, mishaps>>
          \/ /\ Rotates
             /\ lost' = lost \cup {<<tk.dev, tk.n>>}
             /\ Returns(t) /\ Mishap
          \/ /\ ~Accepted(tk)
             /\ read' = [read EXCEPT ![t] = NoLogin]
             /\ pc' = [pc EXCEPT ![t] = "save"]
             /\ UNCHANGED <<rotations, job, refused, mutex, lock, lost, mishaps>>
          \/ /\ read' = [read EXCEPT ![t] = NoLogin]
             /\ pc' = [pc EXCEPT ![t] = "save"]
             /\ UNCHANGED <<rotations, job, refused, mutex, lock, lost, mishaps>>
    /\ UNCHANGED <<file, revoked, issued, revoking, auth, crossed, ops>>

(* refresh: the gateway takes the token and answers with the next one, or  *)
(* refuses it (400, 401), which clears the login; or the answer does not   *)
(* come, and the call fails with the login as it was.  send_with_retry     *)
(* repeats only requests that were never seen.                             *)
Presents(t) ==
    /\ pc[t] = "present"
    /\ LET tk == read[t]
           Rotates == /\ Accepted(tk) /\ tk.n < MaxSpends
                      /\ rotations' = [rotations EXCEPT ![tk.dev] = @ + 1]
           Rotated == [dev |-> tk.dev, n |-> tk.n + 1, at |-> tk.at]
       IN \/ /\ Rotates
             /\ read' = [read EXCEPT ![t] = Rotated]
             /\ pc' = [pc EXCEPT ![t] = "save"]
             /\ UNCHANGED <<job, refused, mutex, lock, lost, mishaps>>
          \/ /\ Rotates
             /\ lost' = lost \cup {<<tk.dev, tk.n>>}
             /\ Returns(t) /\ Mishap
          \/ /\ ~Accepted(tk)
             /\ read' = [read EXCEPT ![t] = NoLogin]
             /\ pc' = [pc EXCEPT ![t] = "save"]
             /\ UNCHANGED <<rotations, job, refused, mutex, lock, lost, mishaps>>
          \/ Returns(t) /\ UNCHANGED <<rotations, lost, mishaps>>
    /\ UNCHANGED <<file, revoked, issued, revoking, auth, crossed, ops>>

(* logout's revoke is best effort. *)
Revokes(t) ==
    /\ pc[t] = "revoke"
    /\ read' = [read EXCEPT ![t] = NoLogin]
    /\ pc' = [pc EXCEPT ![t] = "save"]
    /\ \/ Ours(read[t]) /\ revoked' = revoked \cup {read[t].dev}
       \/ UNCHANGED revoked
    /\ UNCHANGED <<file, rotations, issued, revoking, job, refused, auth, mutex, lock, crossed,
                   lost, ops, mishaps>>

(* The save that ends a check or a logout, and the return.  A token the    *)
(* gateway rotated is lost when it cannot be saved.                        *)
Saves(t) ==
    /\ pc[t] = "save"
    /\ \/ /\ file' = read[t]
          /\ auth' = IF read[t] = NoLogin THEN auth ELSE [auth EXCEPT ![t] = read[t]]
          /\ UNCHANGED <<lost, mishaps>>
       \/ /\ Mishap
          /\ lost' = IF read[t] = NoLogin THEN lost ELSE lost \cup {<<read[t].dev, read[t].n - 1>>}
          /\ UNCHANGED <<file, auth>>
    /\ Returns(t)
    /\ UNCHANGED <<remote, issued, revoking, crossed, ops>>

-----------------------------------------------------------------------------
(* An engine without the lock. *)

Crosses == crossed' = (lock # NoThread /\ (crossed \/ file' # file))

(* The store is loaded: an engine opens, or looks for a provider's login.  *)
Opens(t) ==
    /\ t \in Engine /\ pc[t] = "idle"
    /\ auth' = [auth EXCEPT ![t] = file]
    /\ UNCHANGED <<file, remote, issued, revoking, pc, job, refused, read, mutex, lock, crossed,
                   lost, ops, mishaps>>

(* An API key, or a provider's login made, refreshed or dropped, is saved  *)
(* with the rest of the engine's copy.                                     *)
SavesCopy(t) ==
    /\ t \in Engine /\ pc[t] = "idle" /\ Begins
    /\ file' = auth[t]
    /\ Crosses
    /\ lost' = IF auth[t] = NoLogin \/ Accepted(auth[t]) THEN lost
               ELSE lost \cup {<<auth[t].dev, auth[t].n>>}
    /\ UNCHANGED <<remote, issued, revoking, pc, job, refused, read, auth, mutex, lock, mishaps>>

(* apply_login_result: the browser has come back with a new device login.  *)
(* The one on file is revoked on a thread, and the copy is saved.          *)
SignsIn(t) ==
    /\ t \in Engine /\ pc[t] = "idle" /\ Begins /\ issued < MaxDevices
    /\ issued' = issued + 1
    /\ auth' = [auth EXCEPT ![t] = [dev |-> issued + 1, n |-> 0, at |-> "here"]]
    /\ revoking' = IF Ours(file) THEN revoking \cup {file.dev} ELSE revoking
    /\ pc' = [pc EXCEPT ![t] = "login"]
    /\ UNCHANGED <<file, remote, job, refused, read, mutex, lock, crossed, lost, mishaps>>

SavesLogin(t) ==
    /\ pc[t] = "login"
    /\ pc' = [pc EXCEPT ![t] = "idle"]
    /\ \/ file' = auth[t] /\ Crosses /\ UNCHANGED mishaps
       \/ Mishap /\ UNCHANGED <<file, crossed>>
    /\ UNCHANGED <<remote, issued, revoking, job, refused, read, auth, mutex, lock, lost, ops>>

RevokesReplaced(d) ==
    /\ d \in revoking
    /\ revoking' = revoking \ {d}
    /\ \/ revoked' = revoked \cup {d}
       \/ UNCHANGED revoked
    /\ UNCHANGED <<file, rotations, issued, pc, job, refused, read, auth, mutex, lock, crossed,
                   lost, ops, mishaps>>

(* A process dies: its locks go with it.  Its engines load the store when  *)
(* they are opened again.                                                  *)
Dies(p) ==
    /\ Mishap
    /\ LET gone == {t \in Thread : HomeOf[t] = p}
           unsaved == {t \in gone : pc[t] = "save" /\ read[t] # NoLogin}
           Clean(f, v) == [t \in Thread |-> IF t \in gone THEN v ELSE f[t]]
       IN /\ pc' = Clean(pc, "idle")
          /\ job' = Clean(job, "session")
          /\ refused' = Clean(refused, NoLogin)
          /\ read' = Clean(read, NoLogin)
          /\ auth' = Clean(auth, NoLogin)
          /\ mutex' = [mutex EXCEPT ![p] = NoThread]
          /\ lock' = IF lock \in gone THEN NoThread ELSE lock
          /\ lost' = lost \cup {<<read[t].dev, read[t].n - 1>> : t \in unsaved}
    /\ UNCHANGED <<file, remote, issued, revoking, crossed, ops>>

Works(t) ==
    \/ TakesMutex(t) \/ Loads(t) \/ Claims(t) \/ Decides(t) \/ Presents(t) \/ Revokes(t)
    \/ Saves(t) \/ SavesLogin(t)

Next ==
    \/ \E t \in Thread :
        \/ \E r \in {NoLogin, auth[t]} : Checks(t, r)
        \/ LogsOut(t) \/ Works(t) \/ Opens(t) \/ SavesCopy(t) \/ SignsIn(t)
    \/ \E d \in Device : RevokesReplaced(d)
    \/ \E p \in Process : Dies(p)

Spec == Init /\ [][Next]_vars

-----------------------------------------------------------------------------
(* The login on file is one the gateway takes.  Where it is not, its       *)
(* device was signed out, its rotation is being saved, or its answer was   *)
(* lost or an engine wrote it back: no two checks spend one token          *)
(* (session, lock_auth_refresh).                                           *)
SavedLoginWorks ==
    \/ file = NoLogin \/ Accepted(file)
    \/ file.dev \in revoked
    \/ \E t \in Thread : /\ pc[t] = "save" /\ lock = t
                         /\ Succeeds(read[t], file)
    \/ <<file.dev, file.n>> \in lost

(* A login the gateway takes leaves auth.json by a logout, by its expiry,  *)
(* by the engines' saves without the lock, or in a check such a save       *)
(* crossed (session, logout).                                              *)
GoodLoginStays ==
    [][Accepted(file) /\ file' # file =>
        \/ SameToken(file', file)
        \/ crossed
        \/ \E t \in Thread : SavesCopy(t) \/ SavesLogin(t)
        \/ \E t \in Thread : Saves(t) /\ job[t] = "logout"
        \/ <<file.dev, file.n>> \in lost]_vars

(* Once signed out, a computer is signed in by a login; a check under way  *)
(* does not bring the old one back (logout).                               *)
SignedOutStays ==
    [][file = NoLogin /\ file' # NoLogin =>
        crossed \/ \E t \in Thread : SavesCopy(t) \/ SavesLogin(t)]_vars

=============================================================================
