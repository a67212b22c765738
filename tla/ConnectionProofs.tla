-------------------------- MODULE ConnectionProofs --------------------------
(***************************************************************************)
(* Proofs about what the agent core connects to.                           *)
(*                                                                         *)
(* The account it is signed in to (Login), for any number of processes,    *)
(* threads and devices: a login that is saved works, and none is lost to   *)
(* another thread's refresh.                                               *)
(*                                                                         *)
(* A tool server (ToolServer), for any number of threads, ops and events:  *)
(* which connection an entry has, and that what the server says of its     *)
(* list is kept, whatever the threads that refresh the copy do in between. *)
(***************************************************************************)
EXTENDS Login, ToolServer, SequenceTheorems, TLAPS

-----------------------------------------------------------------------------
(* --- the login --- *)

(* What a thread does with auth.lock. *)
Section == {"claim", "check", "present", "revoke", "save"}

(* A token the gateway takes, or is known not to take. *)
Settled(tk) ==
    \/ tk = NoLogin \/ Accepted(tk)
    \/ tk.dev \in revoked
    \/ <<tk.dev, tk.n>> \in lost

(* The lock keeps one thread at a time between its reload and its save. *)
Excluded == \A t \in Thread : pc[t] \in Section <=> lock = t

(* What a thread read, and what it is about to save. *)
LockReads ==
    \A t \in Thread :
        /\ pc[t] \notin Section => read[t] = NoLogin
        /\ pc[t] \in Section \ {"save"} => Settled(read[t])
        /\ pc[t] \in {"claim", "present"} => read[t] # NoLogin
        /\ pc[t] = "revoke" => job[t] = "logout"
        /\ pc[t] = "save" /\ read[t] # NoLogin =>
              read[t].n >= 1 /\ rotations[read[t].dev] = read[t].n

Current ==
    \/ Settled(file)
    \/ \E t \in Thread : pc[t] = "save" /\ Succeeds(read[t], file)

(* A device login that is being saved is nobody else's, and never used. *)
Fresh ==
    \A t \in Thread : pc[t] = "login" =>
        /\ auth[t] # NoLogin /\ auth[t].n = 0 /\ rotations[auth[t].dev] = 0
        /\ file # NoLogin => file.dev # auth[t].dev
        /\ \A u \in Thread : read[u] # NoLogin => read[u].dev # auth[t].dev
        /\ \A u \in Thread : u # t /\ auth[u] # NoLogin => auth[u].dev # auth[t].dev

(* Device logins are used once they are made. *)
Known ==
    /\ file # NoLogin => file.dev <= issued
    /\ \A t \in Thread : read[t] # NoLogin => read[t].dev <= issued
    /\ \A t \in Thread : auth[t] # NoLogin => auth[t].dev <= issued
    /\ \A d \in Device : d > issued => rotations[d] = 0

(* What a thread with the lock knows of auth.json, while no engine writes. *)
Uncrossed ==
    \A t \in Thread : pc[t] \in Section /\ ~crossed =>
        /\ pc[t] # "save" => read[t] = file
        /\ pc[t] = "save" /\ read[t] # NoLogin =>
              Succeeds(read[t], file)
        /\ pc[t] = "save" /\ read[t] = NoLogin =>
              job[t] = "logout" \/ ~Accepted(file) \/ <<file.dev, file.n>> \in lost

IInv == TypeOK /\ Excluded /\ LockReads /\ Current /\ Fresh /\ Known /\ Uncrossed

(* A check begins: no lock and no store yet.                               *)
LEMMA ChecksKeeps ==
    ASSUME IInv, NEW t \in Thread, NEW r \in {NoLogin, auth[t]}, Checks(t, r)
    PROVE  IInv'
  <1>1. TypeOK'
    <2>1. file' \in Token \cup {NoLogin}
      BY LoginAssumption DEF IInv, TypeOK, remote, Checks, Begins, Token, Device, LockReads
    <2>2. rotations' \in [Device -> 0..MaxSpends] /\ revoked' \subseteq Device
      BY LoginAssumption DEF IInv, TypeOK, remote, Checks, Begins, Token, Device, LockReads
    <2>3. issued' \in Device /\ revoking' \subseteq Device
      BY LoginAssumption DEF IInv, TypeOK, remote, Checks, Begins, Token, Device, LockReads
    <2>4. read' \in [Thread -> Token \cup {NoLogin}]
      BY LoginAssumption DEF IInv, TypeOK, remote, Checks, Begins, Token, Device, LockReads
    <2>5. auth' \in [Thread -> Token \cup {NoLogin}]
      BY LoginAssumption DEF IInv, TypeOK, remote, Checks, Begins, Token, Device, LockReads
    <2>6. refused' \in [Thread -> Token \cup {NoLogin}]
      BY LoginAssumption DEF IInv, TypeOK, remote, Checks, Begins, Token, Device, LockReads
    <2>7. lost' \subseteq Device \X (0..MaxSpends)
      BY LoginAssumption DEF IInv, TypeOK, remote, Checks, Begins, Token, Device, LockReads
    <2>8. QED
      BY <2>1, <2>2, <2>3, <2>4, <2>5, <2>6, <2>7, LoginAssumption
      DEF IInv, TypeOK, remote, Checks, Begins
  <1>2. Excluded'
    BY LoginAssumption DEF IInv, TypeOK, remote, Checks, Begins, Excluded, LockReads, Section
  <1>3. LockReads'
    BY LoginAssumption
    DEF IInv, TypeOK, remote, Checks, Begins, LockReads, Excluded, Section, Settled, Accepted,
       Token, Device
  <1>4. Current'
    BY LoginAssumption
    DEF IInv, TypeOK, remote, Checks, Begins, Current, Excluded, LockReads, Section, Settled,
       Accepted, Succeeds, Token, Device
  <1>5. Fresh'
    BY LoginAssumption DEF IInv, TypeOK, remote, Checks, Begins, Fresh, Token, Device
  <1>6. Known'
    BY LoginAssumption DEF IInv, TypeOK, remote, Checks, Begins, Known, Token, Device
  <1>7. Uncrossed'
    BY LoginAssumption
    DEF IInv, TypeOK, remote, Checks, Begins, Uncrossed, Excluded, LockReads, Section, Accepted,
       Succeeds, Token, Device
  <1>8. QED
    BY <1>1, <1>2, <1>3, <1>4, <1>5, <1>6, <1>7 DEF IInv

(* A logout begins.                                                        *)
LEMMA LogsOutKeeps ==
    ASSUME IInv, NEW t \in Thread, LogsOut(t)
    PROVE  IInv'
  <1>1. TypeOK'
    BY LoginAssumption DEF IInv, TypeOK, remote, LogsOut, Begins, Token, Device
  <1>2. Excluded'
    BY LoginAssumption DEF IInv, TypeOK, remote, LogsOut, Begins, Excluded, LockReads, Section
  <1>3. LockReads'
    BY LoginAssumption
    DEF IInv, TypeOK, remote, LogsOut, Begins, LockReads, Excluded, Section, Settled, Accepted,
       Token, Device
  <1>4. Current'
    BY LoginAssumption
    DEF IInv, TypeOK, remote, LogsOut, Begins, Current, Excluded, LockReads, Section, Settled,
       Accepted, Succeeds, Token, Device
  <1>5. Fresh'
    BY LoginAssumption DEF IInv, TypeOK, remote, LogsOut, Begins, Fresh, Token, Device
  <1>6. Known'
    BY LoginAssumption DEF IInv, TypeOK, remote, LogsOut, Begins, Known, Token, Device
  <1>7. Uncrossed'
    BY LoginAssumption
    DEF IInv, TypeOK, remote, LogsOut, Begins, Uncrossed, Excluded, LockReads, Section, Accepted,
       Succeeds, Token, Device
  <1>8. QED
    BY <1>1, <1>2, <1>3, <1>4, <1>5, <1>6, <1>7 DEF IInv

(* The mutex of a process is taken.                                        *)
LEMMA TakesMutexKeeps ==
    ASSUME IInv, NEW t \in Thread, TakesMutex(t)
    PROVE  IInv'
  <1>1. TypeOK'
    BY LoginAssumption DEF IInv, TypeOK, remote, TakesMutex, Token, Device
  <1>2. Excluded'
    BY LoginAssumption DEF IInv, TypeOK, remote, TakesMutex, Excluded, LockReads, Section
  <1>3. LockReads'
    BY LoginAssumption
    DEF IInv, TypeOK, remote, TakesMutex, LockReads, Excluded, Section, Settled, Accepted, Token,
       Device
  <1>4. Current'
    BY LoginAssumption
    DEF IInv, TypeOK, remote, TakesMutex, Current, Excluded, LockReads, Section, Settled, Accepted,
       Succeeds, Token, Device
  <1>5. Fresh'
    BY LoginAssumption DEF IInv, TypeOK, remote, TakesMutex, Fresh, Token, Device
  <1>6. Known'
    BY LoginAssumption DEF IInv, TypeOK, remote, TakesMutex, Known, Token, Device
  <1>7. Uncrossed'
    BY LoginAssumption
    DEF IInv, TypeOK, remote, TakesMutex, Uncrossed, Excluded, LockReads, Section, Accepted,
       Succeeds, Token, Device
  <1>8. QED
    BY <1>1, <1>2, <1>3, <1>4, <1>5, <1>6, <1>7 DEF IInv

(* auth.lock is taken, and the store is what is on file.                   *)
LEMMA LoadsKeeps ==
    ASSUME IInv, NEW t \in Thread, Loads(t)
    PROVE  IInv'
  <1>1. TypeOK'
    BY LoginAssumption DEF IInv, TypeOK, remote, Loads, Token, Device
  <1>2. Excluded'
    BY LoginAssumption DEF IInv, TypeOK, remote, Loads, Excluded, LockReads, Section
  <1>3. LockReads'
    BY LoginAssumption
    DEF IInv, TypeOK, remote, Loads, Excluded, LockReads, Current, Section, Settled, Accepted,
       Token, Device
  <1>4. Current'
    BY LoginAssumption
    DEF IInv, TypeOK, remote, Loads, Current, Excluded, LockReads, Section, Settled, Accepted,
       Succeeds, Token, Device
  <1>5. Fresh'
    BY LoginAssumption DEF IInv, TypeOK, remote, Loads, Fresh, Token, Device
  <1>6. Known'
    BY LoginAssumption DEF IInv, TypeOK, remote, Loads, Known, Token, Device
  <1>7. Uncrossed'
    BY LoginAssumption
    DEF IInv, TypeOK, remote, Loads, Uncrossed, Excluded, LockReads, Section, Accepted, Succeeds,
       Token, Device
  <1>8. QED
    BY <1>1, <1>2, <1>3, <1>4, <1>5, <1>6, <1>7 DEF IInv

(* The login on file is marked as this computer's, or the save fails.      *)
LEMMA ClaimsKeeps ==
    ASSUME IInv, NEW t \in Thread, Claims(t)
    PROVE  IInv'
  <1> DEFINE c == [dev |-> read[t].dev, n |-> read[t].n, at |-> "here"]
  <1>9. /\ read[t] \in Token /\ c \in Token /\ read[t] # NoLogin /\ c # NoLogin
        /\ c.dev = read[t].dev /\ c.n = read[t].n /\ lock = t /\ pc[t] = "claim"
    BY LoginAssumption DEF IInv, TypeOK, Claims, LockReads, Excluded, Section, Token
  <1>10. \/ /\ file' = c /\ read' = [read EXCEPT ![t] = c]
            /\ pc' = [pc EXCEPT ![t] = "check"] /\ UNCHANGED <<job, lock>>
         \/ Returns(t) /\ UNCHANGED file
    BY DEF Claims
  <1>11. UNCHANGED <<remote, issued, auth, crossed, lost>>
    BY DEF Claims
  <1> HIDE DEF c
  <1>1. TypeOK'
    <2>1. file' \in Token \cup {NoLogin}
      BY LoginAssumption DEF IInv, TypeOK, remote, Claims, Returns, Mishap, Token, Device, LockReads
    <2>2. rotations' \in [Device -> 0..MaxSpends] /\ revoked' \subseteq Device
      BY LoginAssumption DEF IInv, TypeOK, remote, Claims, Returns, Mishap, Token, Device, LockReads
    <2>3. issued' \in Device /\ revoking' \subseteq Device
      BY LoginAssumption DEF IInv, TypeOK, remote, Claims, Returns, Mishap, Token, Device, LockReads
    <2>4. read' \in [Thread -> Token \cup {NoLogin}]
      BY LoginAssumption DEF IInv, TypeOK, remote, Claims, Returns, Mishap, Token, Device, LockReads
    <2>5. auth' \in [Thread -> Token \cup {NoLogin}]
      BY LoginAssumption DEF IInv, TypeOK, remote, Claims, Returns, Mishap, Token, Device, LockReads
    <2>6. refused' \in [Thread -> Token \cup {NoLogin}]
      BY LoginAssumption DEF IInv, TypeOK, remote, Claims, Returns, Mishap, Token, Device, LockReads
    <2>7. lost' \subseteq Device \X (0..MaxSpends)
      BY LoginAssumption DEF IInv, TypeOK, remote, Claims, Returns, Mishap, Token, Device, LockReads
    <2>8. QED
      BY <2>1, <2>2, <2>3, <2>4, <2>5, <2>6, <2>7, LoginAssumption
      DEF IInv, TypeOK, remote, Claims, Returns, Mishap
  <1>2. Excluded'
    BY LoginAssumption
    DEF IInv, TypeOK, remote, Claims, Returns, Mishap, Excluded, LockReads, Section
  <1>3. LockReads'
    BY <1>9, <1>10, <1>11
    DEF IInv, TypeOK, remote, Returns, Excluded, LockReads, Section, Settled, Accepted
  <1>4. Current'
    BY <1>9, <1>10, <1>11
    DEF IInv, TypeOK, remote, Returns, Excluded, LockReads, Current, Section, Settled, Accepted,
       Succeeds
  <1>5. Fresh'
    BY <1>9, <1>10, <1>11 DEF IInv, TypeOK, remote, Returns, Fresh, LockReads, Section
  <1>6. Known'
    BY <1>9, <1>10, <1>11 DEF IInv, TypeOK, remote, Returns, Known
  <1>7. Uncrossed'
    BY <1>9, <1>10, <1>11
    DEF IInv, TypeOK, remote, Returns, Excluded, LockReads, Uncrossed, Section, Accepted, Succeeds
  <1>8. QED
    BY <1>1, <1>2, <1>3, <1>4, <1>5, <1>6, <1>7 DEF IInv

(* A check finds what to do: nothing, an expired session, a refresh.       *)
LEMMA DecidesKeeps ==
    ASSUME IInv, NEW t \in Thread, Decides(t)
    PROVE  IInv'
  <1>1. TypeOK'
    <2>1. file' \in Token \cup {NoLogin}
      BY LoginAssumption
      DEF IInv, TypeOK, remote, Decides, Returns, Mishap, Ours, Token, Device, LockReads
    <2>2. rotations' \in [Device -> 0..MaxSpends] /\ revoked' \subseteq Device
      BY LoginAssumption
      DEF IInv, TypeOK, remote, Decides, Returns, Mishap, Ours, Token, Device, LockReads
    <2>3. issued' \in Device /\ revoking' \subseteq Device
      BY LoginAssumption
      DEF IInv, TypeOK, remote, Decides, Returns, Mishap, Ours, Token, Device, LockReads
    <2>4. read' \in [Thread -> Token \cup {NoLogin}]
      BY LoginAssumption
      DEF IInv, TypeOK, remote, Decides, Returns, Mishap, Ours, Token, Device, LockReads
    <2>5. auth' \in [Thread -> Token \cup {NoLogin}]
      BY LoginAssumption
      DEF IInv, TypeOK, remote, Decides, Returns, Mishap, Ours, Token, Device, LockReads
    <2>6. refused' \in [Thread -> Token \cup {NoLogin}]
      BY LoginAssumption
      DEF IInv, TypeOK, remote, Decides, Returns, Mishap, Ours, Token, Device, LockReads
    <2>7. lost' \subseteq Device \X (0..MaxSpends)
      BY LoginAssumption
      DEF IInv, TypeOK, remote, Decides, Returns, Mishap, Ours, Token, Device, LockReads
    <2>8. QED
      BY <2>1, <2>2, <2>3, <2>4, <2>5, <2>6, <2>7, LoginAssumption
      DEF IInv, TypeOK, remote, Decides, Returns, Mishap, Ours
  <1>2. Excluded'
    BY LoginAssumption
    DEF IInv, TypeOK, remote, Decides, Returns, Mishap, Ours, Excluded, LockReads, Section
  <1>3. LockReads'
    BY LoginAssumption
    DEF IInv, TypeOK, remote, Decides, Returns, Mishap, Ours, LockReads, Excluded, Section,
       Settled, Accepted, Token, Device
  <1>4. Current'
    BY LoginAssumption
    DEF IInv, TypeOK, remote, Decides, Returns, Mishap, Ours, Current, Excluded, LockReads,
       Section, Settled, Accepted, Succeeds, Token, Device
  <1>5. Fresh'
    BY LoginAssumption DEF IInv, TypeOK, remote, Decides, Returns, Ours, Fresh, LockReads, Section
  <1>6. Known'
    BY LoginAssumption
    DEF IInv, TypeOK, remote, Decides, Returns, Mishap, Ours, Known, Token, Device
  <1>7. Uncrossed'
    BY LoginAssumption
    DEF IInv, TypeOK, remote, Decides, Returns, Mishap, Ours, Uncrossed, Excluded, LockReads,
       Section, Accepted, Succeeds, Token, Device
  <1>8. QED
    BY <1>1, <1>2, <1>3, <1>4, <1>5, <1>6, <1>7 DEF IInv

(* The gateway rotates the token, refuses it, or is not heard.             *)
LEMMA PresentsKeeps ==
    ASSUME IInv, NEW t \in Thread, Presents(t)
    PROVE  IInv'
  <1> DEFINE tk == read[t]
             next == [dev |-> tk.dev, n |-> tk.n + 1, at |-> tk.at]
  <1>9. /\ tk \in Token /\ tk # NoLogin /\ tk.dev \in Device /\ tk.n \in 0..MaxSpends
        /\ next.dev = tk.dev /\ next.n = tk.n + 1 /\ lock = t /\ pc[t] = "present"
        /\ tk.n < MaxSpends => next \in Token /\ next # NoLogin
    BY LoginAssumption DEF IInv, TypeOK, Presents, LockReads, Excluded, Section, Token, Device
  <1> DEFINE Rotates == /\ Accepted(tk) /\ tk.n < MaxSpends
                        /\ rotations' = [rotations EXCEPT ![tk.dev] = @ + 1]
  <1>10. \/ Rotates /\ read' = [read EXCEPT ![t] = next] /\ pc' = [pc EXCEPT ![t] = "save"]
            /\ UNCHANGED <<job, lock, lost>>
         \/ Rotates /\ lost' = lost \cup {<<tk.dev, tk.n>>} /\ Returns(t)
         \/ ~Accepted(tk) /\ read' = [read EXCEPT ![t] = NoLogin]
            /\ pc' = [pc EXCEPT ![t] = "save"] /\ UNCHANGED <<rotations, job, lock, lost>>
         \/ Returns(t) /\ UNCHANGED <<rotations, lost>>
    BY DEF Presents
  <1>11. UNCHANGED <<file, revoked, issued, revoking, auth, crossed>>
    BY DEF Presents
  <1>12. Rotates =>
           /\ rotations' \in [Device -> 0..MaxSpends]
           /\ rotations[tk.dev] = tk.n /\ rotations'[tk.dev] = tk.n + 1 /\ tk.dev \notin revoked
           /\ \A d \in Device : d # tk.dev => rotations'[d] = rotations[d]
           /\ next \in Token /\ next # NoLogin
    BY <1>9, LoginAssumption DEF IInv, TypeOK, Accepted, Device
  <1>13. \/ Rotates /\ read' = [read EXCEPT ![t] = next] /\ pc' = [pc EXCEPT ![t] = "save"]
            /\ UNCHANGED <<job, lock, lost>>
         \/ Rotates /\ lost' = lost \cup {<<tk.dev, tk.n>>}
            /\ read' = [read EXCEPT ![t] = NoLogin] /\ pc' = [pc EXCEPT ![t] = "idle"]
            /\ job' = [job EXCEPT ![t] = "session"] /\ lock' = NoThread
         \/ /\ read' = [read EXCEPT ![t] = NoLogin] /\ UNCHANGED <<rotations, lost>>
            /\ \/ ~Accepted(tk) /\ pc' = [pc EXCEPT ![t] = "save"] /\ UNCHANGED <<job, lock>>
               \/ /\ pc' = [pc EXCEPT ![t] = "idle"] /\ lock' = NoThread
                  /\ job' = [job EXCEPT ![t] = "session"]
    BY <1>10 DEF Returns
  <1>14. \A u \in Thread : pc[u] \in Section => u = t
    BY <1>9 DEF IInv, Excluded
  <1> HIDE DEF next, Rotates
  <1>1. TypeOK'
    <2>1. file' \in Token \cup {NoLogin}
      BY LoginAssumption
      DEF IInv, TypeOK, remote, Presents, Returns, Mishap, Token, Device, LockReads
    <2>2. rotations' \in [Device -> 0..MaxSpends] /\ revoked' \subseteq Device
      BY <1>11, <1>12, <1>13 DEF IInv, TypeOK, remote
    <2>3. issued' \in Device /\ revoking' \subseteq Device
      BY LoginAssumption
      DEF IInv, TypeOK, remote, Presents, Returns, Mishap, Token, Device, LockReads
    <2>4. read' \in [Thread -> Token \cup {NoLogin}]
      BY <1>9, <1>12, <1>13 DEF IInv, TypeOK
    <2>5. auth' \in [Thread -> Token \cup {NoLogin}]
      BY LoginAssumption
      DEF IInv, TypeOK, remote, Presents, Returns, Mishap, Token, Device, LockReads
    <2>6. refused' \in [Thread -> Token \cup {NoLogin}]
      BY LoginAssumption
      DEF IInv, TypeOK, remote, Presents, Returns, Mishap, Token, Device, LockReads
    <2>7. lost' \subseteq Device \X (0..MaxSpends)
      BY LoginAssumption
      DEF IInv, TypeOK, remote, Presents, Returns, Mishap, Token, Device, LockReads
    <2>8. QED
      BY <2>1, <2>2, <2>3, <2>4, <2>5, <2>6, <2>7, LoginAssumption
      DEF IInv, TypeOK, remote, Presents, Returns, Mishap
  <1>2. Excluded'
    BY LoginAssumption
    DEF IInv, TypeOK, remote, Presents, Returns, Mishap, Excluded, LockReads, Section
  <1>3. LockReads'
    BY <1>9, <1>11, <1>12, <1>13, <1>14, LoginAssumption
    DEF IInv, TypeOK, Token, LockReads, Section, Settled, Accepted
  <1>4. Current'
    BY <1>9, <1>11, <1>12, <1>13, <1>14, LoginAssumption
    DEF IInv, TypeOK, Token, Current, Section, Settled, Accepted, Succeeds
  <1>5. Fresh'
    BY <1>9, <1>11, <1>12, <1>13, <1>14, LoginAssumption
    DEF IInv, TypeOK, Token, Fresh
  <1>6. Known'
    BY <1>9, <1>11, <1>12, <1>13, <1>14, LoginAssumption
    DEF IInv, TypeOK, Token, Device, Known
  <1>7. Uncrossed'
    BY <1>9, <1>11, <1>12, <1>13, <1>14, LoginAssumption
    DEF IInv, TypeOK, Token, Uncrossed, Section, Accepted, Succeeds
  <1>8. QED
    BY <1>1, <1>2, <1>3, <1>4, <1>5, <1>6, <1>7 DEF IInv

(* A logout revokes its device and drops the login.                        *)
LEMMA RevokesKeeps ==
    ASSUME IInv, NEW t \in Thread, Revokes(t)
    PROVE  IInv'
  <1>1. TypeOK'
    BY LoginAssumption DEF IInv, TypeOK, remote, Revokes, Ours, Token, Device
  <1>2. Excluded'
    BY LoginAssumption DEF IInv, TypeOK, remote, Revokes, Ours, Excluded, LockReads, Section
  <1>3. LockReads'
    BY LoginAssumption
    DEF IInv, TypeOK, remote, Revokes, Ours, LockReads, Excluded, Section, Settled, Accepted,
       Token, Device
  <1>4. Current'
    BY LoginAssumption
    DEF IInv, TypeOK, remote, Revokes, Ours, Current, Excluded, LockReads, Section, Settled,
       Accepted, Succeeds, Token, Device
  <1>5. Fresh'
    BY LoginAssumption DEF IInv, TypeOK, remote, Revokes, Ours, Fresh, Token, Device
  <1>6. Known'
    BY LoginAssumption DEF IInv, TypeOK, remote, Revokes, Ours, Known, Token, Device
  <1>7. Uncrossed'
    BY LoginAssumption
    DEF IInv, TypeOK, remote, Revokes, Ours, Uncrossed, Excluded, LockReads, Section, Accepted,
       Succeeds, Token, Device
  <1>8. QED
    BY <1>1, <1>2, <1>3, <1>4, <1>5, <1>6, <1>7 DEF IInv

(* A check or a logout saves; a rotated token it cannot save is lost.      *)
LEMMA SavesKeeps ==
    ASSUME IInv, NEW t \in Thread, Saves(t)
    PROVE  IInv'
  <1>9. /\ pc[t] = "save" /\ lock = t /\ read[t] \in Token \cup {NoLogin}
        /\ \A u \in Thread : pc[u] \in Section => u = t
    BY DEF IInv, TypeOK, Saves, Excluded, Section
  <1>10. \/ /\ file' = read[t] /\ UNCHANGED lost
            /\ auth' = IF read[t] = NoLogin THEN auth ELSE [auth EXCEPT ![t] = read[t]]
         \/ /\ UNCHANGED <<file, auth>>
            /\ lost' = IF read[t] = NoLogin THEN lost
                       ELSE lost \cup {<<read[t].dev, read[t].n - 1>>}
    BY DEF Saves
  <1>11. /\ UNCHANGED <<rotations, revoked, issued, crossed>>
         /\ pc' = [pc EXCEPT ![t] = "idle"] /\ read' = [read EXCEPT ![t] = NoLogin]
    BY DEF Saves, Returns, remote
  <1>1. TypeOK'
    <2>1. file' \in Token \cup {NoLogin}
      BY LoginAssumption DEF IInv, TypeOK, remote, Saves, Returns, Mishap, Token, Device, LockReads
    <2>2. rotations' \in [Device -> 0..MaxSpends] /\ revoked' \subseteq Device
      BY LoginAssumption DEF IInv, TypeOK, remote, Saves, Returns, Mishap, Token, Device, LockReads
    <2>3. issued' \in Device /\ revoking' \subseteq Device
      BY LoginAssumption DEF IInv, TypeOK, remote, Saves, Returns, Mishap, Token, Device, LockReads
    <2>4. read' \in [Thread -> Token \cup {NoLogin}]
      BY LoginAssumption DEF IInv, TypeOK, remote, Saves, Returns, Mishap, Token, Device, LockReads
    <2>5. auth' \in [Thread -> Token \cup {NoLogin}]
      BY LoginAssumption DEF IInv, TypeOK, remote, Saves, Returns, Mishap, Token, Device, LockReads
    <2>6. refused' \in [Thread -> Token \cup {NoLogin}]
      BY LoginAssumption DEF IInv, TypeOK, remote, Saves, Returns, Mishap, Token, Device, LockReads
    <2>7. lost' \subseteq Device \X (0..MaxSpends)
      BY LoginAssumption DEF IInv, TypeOK, remote, Saves, Returns, Mishap, Token, Device, LockReads
    <2>8. QED
      BY <2>1, <2>2, <2>3, <2>4, <2>5, <2>6, <2>7, LoginAssumption
      DEF IInv, TypeOK, remote, Saves, Returns, Mishap
  <1>2. Excluded'
    BY LoginAssumption
    DEF IInv, TypeOK, remote, Saves, Returns, Mishap, Excluded, LockReads, Section
  <1>3. LockReads'
    BY LoginAssumption
    DEF IInv, TypeOK, remote, Saves, Returns, Mishap, LockReads, Excluded, Section, Settled,
       Accepted, Token, Device
  <1>4. Current'
    <2>1. CASE file' = read[t]
      BY <2>1, <1>9, <1>10, <1>11, LoginAssumption DEF IInv, LockReads, Current, Settled, Accepted
    <2>2. CASE file' = file /\ Settled(file)
      BY <2>2, <1>10, <1>11 DEF Current, Settled, Accepted
    <2>3. CASE file' = file /\ ~Settled(file)
      <3>1. Succeeds(read[t], file) /\ file \in Token
        BY <2>3, <1>9 DEF IInv, TypeOK, Current, Section, Settled
      <3>2. <<file.dev, file.n>> = <<read[t].dev, read[t].n - 1>>
        BY <3>1, LoginAssumption DEF Succeeds, Token
      <3>3. CASE UNCHANGED <<file, auth>> /\ <<read[t].dev, read[t].n - 1>> \in lost'
        BY <3>2, <3>3 DEF Current, Settled
      <3>4. CASE file' = read[t]
        BY <2>1, <3>4
      <3>5. QED
        BY <3>1, <3>3, <3>4, <1>10 DEF Succeeds
    <2>4. QED
      BY <2>1, <2>2, <2>3, <1>10
  <1>5. Fresh'
    <2> SUFFICES ASSUME NEW u \in Thread, pc'[u] = "login"
                 PROVE  /\ auth'[u] # NoLogin /\ auth'[u].n = 0 /\ rotations'[auth'[u].dev] = 0
                        /\ file' # NoLogin => file'.dev # auth'[u].dev
                        /\ \A v \in Thread : read'[v] # NoLogin => read'[v].dev # auth'[u].dev
                        /\ \A v \in Thread : v # u /\ auth'[v] # NoLogin =>
                              auth'[v].dev # auth'[u].dev
      BY DEF Fresh
    <2>1. u # t /\ pc[u] = "login" /\ auth'[u] = auth[u]
      BY <1>9, <1>10, <1>11 DEF IInv, TypeOK
    <2>2. QED
      BY <2>1, <1>9, <1>10, <1>11 DEF IInv, TypeOK, Fresh
  <1>6. Known'
    BY LoginAssumption DEF IInv, TypeOK, remote, Saves, Returns, Mishap, Known, Token, Device
  <1>7. Uncrossed'
    BY LoginAssumption
    DEF IInv, TypeOK, remote, Saves, Returns, Mishap, Uncrossed, Excluded, LockReads, Section,
       Accepted, Succeeds, Token, Device
  <1>8. QED
    BY <1>1, <1>2, <1>3, <1>4, <1>5, <1>6, <1>7 DEF IInv

(* An engine gets the store as it is on file.                              *)
LEMMA OpensKeeps ==
    ASSUME IInv, NEW t \in Thread, Opens(t)
    PROVE  IInv'
  <1>1. TypeOK'
    BY LoginAssumption DEF IInv, TypeOK, remote, Opens, Token, Device
  <1>2. Excluded'
    BY LoginAssumption DEF IInv, TypeOK, remote, Opens, Excluded, LockReads, Section
  <1>3. LockReads'
    BY LoginAssumption
    DEF IInv, TypeOK, remote, Opens, LockReads, Excluded, Section, Settled, Accepted, Token, Device
  <1>4. Current'
    BY LoginAssumption
    DEF IInv, TypeOK, remote, Opens, Current, Excluded, LockReads, Section, Settled, Accepted,
       Succeeds, Token, Device
  <1>5. Fresh'
    BY LoginAssumption DEF IInv, TypeOK, remote, Opens, Fresh, Token, Device
  <1>6. Known'
    BY LoginAssumption DEF IInv, TypeOK, remote, Opens, Known, Token, Device
  <1>7. Uncrossed'
    BY LoginAssumption
    DEF IInv, TypeOK, remote, Opens, Uncrossed, Excluded, LockReads, Section, Accepted, Succeeds,
       Token, Device
  <1>8. QED
    BY <1>1, <1>2, <1>3, <1>4, <1>5, <1>6, <1>7 DEF IInv

(* An engine saves its copy: a spent login is then lost.                   *)
LEMMA SavesCopyKeeps ==
    ASSUME IInv, NEW t \in Thread, SavesCopy(t)
    PROVE  IInv'
  <1>9. /\ pc[t] = "idle" /\ file' = auth[t] /\ Crosses
        /\ UNCHANGED <<rotations, revoked, pc, job, read, lock>>
    BY DEF SavesCopy, remote
  <1>10. lost \subseteq lost'
    BY DEF SavesCopy
  <1>11. \A u \in Thread : pc[u] \in Section /\ ~crossed' => ~crossed /\ file' = file
    BY <1>9, LoginAssumption DEF IInv, Excluded, Crosses
  <1>1. TypeOK'
    <2>1. file' \in Token \cup {NoLogin}
      BY LoginAssumption
      DEF IInv, TypeOK, remote, SavesCopy, Begins, Crosses, Token, Device, LockReads
    <2>2. rotations' \in [Device -> 0..MaxSpends] /\ revoked' \subseteq Device
      BY LoginAssumption
      DEF IInv, TypeOK, remote, SavesCopy, Begins, Crosses, Token, Device, LockReads
    <2>3. issued' \in Device /\ revoking' \subseteq Device
      BY LoginAssumption
      DEF IInv, TypeOK, remote, SavesCopy, Begins, Crosses, Token, Device, LockReads
    <2>4. read' \in [Thread -> Token \cup {NoLogin}]
      BY LoginAssumption
      DEF IInv, TypeOK, remote, SavesCopy, Begins, Crosses, Token, Device, LockReads
    <2>5. auth' \in [Thread -> Token \cup {NoLogin}]
      BY LoginAssumption
      DEF IInv, TypeOK, remote, SavesCopy, Begins, Crosses, Token, Device, LockReads
    <2>6. refused' \in [Thread -> Token \cup {NoLogin}]
      BY LoginAssumption
      DEF IInv, TypeOK, remote, SavesCopy, Begins, Crosses, Token, Device, LockReads
    <2>7. lost' \subseteq Device \X (0..MaxSpends)
      BY LoginAssumption
      DEF IInv, TypeOK, remote, SavesCopy, Begins, Crosses, Token, Device, LockReads
    <2>8. QED
      BY <2>1, <2>2, <2>3, <2>4, <2>5, <2>6, <2>7, LoginAssumption
      DEF IInv, TypeOK, remote, SavesCopy, Begins, Crosses
  <1>2. Excluded'
    BY LoginAssumption
    DEF IInv, TypeOK, remote, SavesCopy, Begins, Crosses, Excluded, LockReads, Section
  <1>3. LockReads'
    BY LoginAssumption
    DEF IInv, TypeOK, remote, SavesCopy, Begins, Crosses, LockReads, Excluded, Section, Settled,
       Accepted, Token, Device
  <1>4. Current'
    BY LoginAssumption
    DEF IInv, TypeOK, remote, SavesCopy, Begins, Crosses, Current, Excluded, LockReads, Section,
       Settled, Accepted, Succeeds, Token, Device
  <1>5. Fresh'
    BY LoginAssumption
    DEF IInv, TypeOK, remote, SavesCopy, Begins, Crosses, Fresh, Token, Device
  <1>6. Known'
    BY LoginAssumption
    DEF IInv, TypeOK, remote, SavesCopy, Begins, Crosses, Known, Token, Device
  <1>7. Uncrossed'
    BY <1>9, <1>10, <1>11 DEF IInv, Uncrossed, Accepted, Succeeds
  <1>8. QED
    BY <1>1, <1>2, <1>3, <1>4, <1>5, <1>6, <1>7 DEF IInv

(* A new device login, which nobody else has.                              *)
LEMMA SignsInKeeps ==
    ASSUME IInv, NEW t \in Thread, SignsIn(t)
    PROVE  IInv'
  <1> DEFINE new == [dev |-> issued + 1, n |-> 0, at |-> "here"]
  <1>9. /\ issued' = issued + 1 /\ issued' \in Device /\ issued \in Nat
        /\ new \in Token /\ new # NoLogin /\ new.dev = issued + 1 /\ new.n = 0
    BY LoginAssumption DEF IInv, TypeOK, SignsIn, Token, Device
  <1>10. /\ auth' = [auth EXCEPT ![t] = new] /\ pc' = [pc EXCEPT ![t] = "login"]
         /\ UNCHANGED <<file, rotations, revoked, read>>
    BY DEF SignsIn, remote
  <1> HIDE DEF new
  <1>1. TypeOK'
    <2>1. file' \in Token \cup {NoLogin}
      BY LoginAssumption DEF IInv, TypeOK, remote, SignsIn, Begins, Ours, Token, Device, LockReads
    <2>2. rotations' \in [Device -> 0..MaxSpends] /\ revoked' \subseteq Device
      BY LoginAssumption DEF IInv, TypeOK, remote, SignsIn, Begins, Ours, Token, Device, LockReads
    <2>3. issued' \in Device /\ revoking' \subseteq Device
      BY <1>9 DEF IInv, TypeOK, SignsIn, Ours, Token
    <2>4. read' \in [Thread -> Token \cup {NoLogin}]
      BY LoginAssumption DEF IInv, TypeOK, remote, SignsIn, Begins, Ours, Token, Device, LockReads
    <2>5. auth' \in [Thread -> Token \cup {NoLogin}]
      BY LoginAssumption DEF IInv, TypeOK, remote, SignsIn, Begins, Ours, Token, Device, LockReads
    <2>6. refused' \in [Thread -> Token \cup {NoLogin}]
      BY LoginAssumption DEF IInv, TypeOK, remote, SignsIn, Begins, Ours, Token, Device, LockReads
    <2>7. lost' \subseteq Device \X (0..MaxSpends)
      BY LoginAssumption DEF IInv, TypeOK, remote, SignsIn, Begins, Ours, Token, Device, LockReads
    <2>8. QED
      BY <2>1, <2>2, <2>3, <2>4, <2>5, <2>6, <2>7, LoginAssumption
      DEF IInv, TypeOK, remote, SignsIn, Begins, Ours
  <1>2. Excluded'
    BY LoginAssumption DEF IInv, TypeOK, remote, SignsIn, Begins, Ours, Excluded, LockReads, Section
  <1>3. LockReads'
    BY LoginAssumption
    DEF IInv, TypeOK, remote, SignsIn, Begins, Ours, LockReads, Excluded, Section, Settled,
       Accepted, Token, Device
  <1>4. Current'
    BY LoginAssumption
    DEF IInv, TypeOK, remote, SignsIn, Begins, Ours, Current, Excluded, LockReads, Section,
       Settled, Accepted, Succeeds, Token, Device
  <1>5. Fresh'
    <2>1. /\ file # NoLogin => file.dev # issued + 1
          /\ \A u \in Thread : read[u] # NoLogin => read[u].dev # issued + 1
          /\ \A u \in Thread : auth[u] # NoLogin => auth[u].dev # issued + 1
          /\ rotations[issued + 1] = 0
      BY <1>9 DEF IInv, TypeOK, Known, Token, Device
    <2>2. QED
      BY <2>1, <1>9, <1>10 DEF IInv, TypeOK, Fresh
  <1>6. Known'
    BY LoginAssumption DEF IInv, TypeOK, remote, SignsIn, Begins, Ours, Known, Token, Device
  <1>7. Uncrossed'
    BY LoginAssumption
    DEF IInv, TypeOK, remote, SignsIn, Begins, Ours, Uncrossed, Excluded, LockReads, Section,
       Accepted, Succeeds, Token, Device
  <1>8. QED
    BY <1>1, <1>2, <1>3, <1>4, <1>5, <1>6, <1>7 DEF IInv

(* The new login is saved without the lock.                                *)
LEMMA SavesLoginKeeps ==
    ASSUME IInv, NEW t \in Thread, SavesLogin(t)
    PROVE  IInv'
  <1>9. /\ pc[t] = "login" /\ pc' = [pc EXCEPT ![t] = "idle"]
        /\ \/ file' = auth[t] /\ Crosses
           \/ UNCHANGED <<file, crossed>>
        /\ UNCHANGED <<rotations, revoked, issued, job, read, auth, lock, lost>>
    BY DEF SavesLogin, remote
  <1>10. \A u \in Thread : pc'[u] \in Section => pc[u] = pc'[u]
    BY <1>9 DEF IInv, TypeOK, Section
  <1>11. \A u \in Thread : pc[u] \in Section /\ ~crossed' => ~crossed /\ file' = file
    BY <1>9, LoginAssumption DEF IInv, Excluded, Crosses
  <1>1. TypeOK'
    <2>1. file' \in Token \cup {NoLogin}
      BY LoginAssumption
      DEF IInv, TypeOK, remote, SavesLogin, Mishap, Crosses, Token, Device, LockReads
    <2>2. rotations' \in [Device -> 0..MaxSpends] /\ revoked' \subseteq Device
      BY LoginAssumption
      DEF IInv, TypeOK, remote, SavesLogin, Mishap, Crosses, Token, Device, LockReads
    <2>3. issued' \in Device /\ revoking' \subseteq Device
      BY LoginAssumption
      DEF IInv, TypeOK, remote, SavesLogin, Mishap, Crosses, Token, Device, LockReads
    <2>4. read' \in [Thread -> Token \cup {NoLogin}]
      BY LoginAssumption
      DEF IInv, TypeOK, remote, SavesLogin, Mishap, Crosses, Token, Device, LockReads
    <2>5. auth' \in [Thread -> Token \cup {NoLogin}]
      BY LoginAssumption
      DEF IInv, TypeOK, remote, SavesLogin, Mishap, Crosses, Token, Device, LockReads
    <2>6. refused' \in [Thread -> Token \cup {NoLogin}]
      BY LoginAssumption
      DEF IInv, TypeOK, remote, SavesLogin, Mishap, Crosses, Token, Device, LockReads
    <2>7. lost' \subseteq Device \X (0..MaxSpends)
      BY LoginAssumption
      DEF IInv, TypeOK, remote, SavesLogin, Mishap, Crosses, Token, Device, LockReads
    <2>8. pc' \in [Thread -> {"idle", "mutex", "lock", "claim", "check", "present", "revoke",
                              "save", "login"}]
      BY <1>9 DEF IInv, TypeOK
    <2>9. crossed' \in BOOLEAN
      BY <1>9 DEF IInv, TypeOK, Crosses
    <2>10. mishaps' \in 0..MaxMishaps
      BY LoginAssumption DEF IInv, TypeOK, SavesLogin, Mishap
    <2>11. job' \in [Thread -> {"session", "logout"}] /\ ops' \in 0..MaxOps
      BY DEF IInv, TypeOK, SavesLogin
    <2>12. mutex' \in [Process -> Thread \cup {NoThread}] /\ lock' \in Thread \cup {NoThread}
      BY DEF IInv, TypeOK, SavesLogin
    <2>13. QED
      BY <2>1, <2>2, <2>3, <2>4, <2>5, <2>6, <2>7, <2>8, <2>9, <2>10, <2>11, <2>12 DEF TypeOK
  <1>2. Excluded'
    BY LoginAssumption
    DEF IInv, TypeOK, remote, SavesLogin, Mishap, Crosses, Excluded, LockReads, Section
  <1>3. LockReads'
    BY LoginAssumption
    DEF IInv, TypeOK, remote, SavesLogin, Mishap, Crosses, LockReads, Excluded, Section, Settled,
       Accepted, Token, Device
  <1>4. Current'
    <2>1. CASE file' = file
      <3>1. \A u \in Thread : pc[u] = "save" => pc'[u] = "save"
        BY <1>9 DEF IInv, TypeOK
      <3>2. QED
        BY <2>1, <3>1, <1>9 DEF IInv, Current, Settled, Accepted, Succeeds
    <2>2. CASE file' = auth[t]
      BY <2>2, <1>9 DEF IInv, Fresh, Current, Settled, Accepted
    <2>3. QED
      BY <2>1, <2>2, <1>9
  <1>5. Fresh'
    BY LoginAssumption
    DEF IInv, TypeOK, remote, SavesLogin, Mishap, Crosses, Fresh, Token, Device
  <1>6. Known'
    BY LoginAssumption
    DEF IInv, TypeOK, remote, SavesLogin, Mishap, Crosses, Known, Token, Device
  <1>7. Uncrossed'
    BY <1>9, <1>10, <1>11 DEF IInv, Uncrossed, Accepted, Succeeds
  <1>8. QED
    BY <1>1, <1>2, <1>3, <1>4, <1>5, <1>6, <1>7 DEF IInv

(* The login that was replaced is revoked.                                 *)
LEMMA RevokesReplacedKeeps ==
    ASSUME IInv, NEW d \in Device, RevokesReplaced(d)
    PROVE  IInv'
  <1>1. TypeOK'
    BY LoginAssumption DEF IInv, TypeOK, remote, RevokesReplaced, Token, Device
  <1>2. Excluded'
    BY LoginAssumption DEF IInv, TypeOK, remote, RevokesReplaced, Excluded, LockReads, Section
  <1>3. LockReads'
    BY LoginAssumption
    DEF IInv, TypeOK, remote, RevokesReplaced, LockReads, Excluded, Section, Settled, Accepted,
       Token, Device
  <1>4. Current'
    BY LoginAssumption
    DEF IInv, TypeOK, remote, RevokesReplaced, Current, Excluded, LockReads, Section, Settled,
       Accepted, Succeeds, Token, Device
  <1>5. Fresh'
    BY LoginAssumption DEF IInv, TypeOK, remote, RevokesReplaced, Fresh, Token, Device
  <1>6. Known'
    BY LoginAssumption DEF IInv, TypeOK, remote, RevokesReplaced, Known, Token, Device
  <1>7. Uncrossed'
    BY LoginAssumption
    DEF IInv, TypeOK, remote, RevokesReplaced, Uncrossed, Excluded, LockReads, Section, Accepted,
       Succeeds, Token, Device
  <1>8. QED
    BY <1>1, <1>2, <1>3, <1>4, <1>5, <1>6, <1>7 DEF IInv

(* A process dies; a token it had not saved is lost.                       *)
LEMMA DiesKeeps ==
    ASSUME IInv, NEW p \in Process, Dies(p)
    PROVE  IInv'
  <1> DEFINE gone == {t \in Thread : HomeOf[t] = p}
  <1>9. /\ pc' = [t \in Thread |-> IF t \in gone THEN "idle" ELSE pc[t]]
        /\ read' = [t \in Thread |-> IF t \in gone THEN NoLogin ELSE read[t]]
        /\ lost' = lost \cup {<<read[t].dev, read[t].n - 1>> :
                                t \in {u \in gone : pc[u] = "save" /\ read[u] # NoLogin}}
        /\ UNCHANGED <<file, rotations, revoked>>
    BY DEF Dies, remote
  <1>1. TypeOK'
    <2>1. file' \in Token \cup {NoLogin}
      BY LoginAssumption DEF IInv, TypeOK, remote, Dies, Mishap, Token, Device, LockReads
    <2>2. rotations' \in [Device -> 0..MaxSpends] /\ revoked' \subseteq Device
      BY LoginAssumption DEF IInv, TypeOK, remote, Dies, Mishap, Token, Device, LockReads
    <2>3. issued' \in Device /\ revoking' \subseteq Device
      BY LoginAssumption DEF IInv, TypeOK, remote, Dies, Mishap, Token, Device, LockReads
    <2>4. read' \in [Thread -> Token \cup {NoLogin}]
      BY LoginAssumption DEF IInv, TypeOK, remote, Dies, Mishap, Token, Device, LockReads
    <2>5. auth' \in [Thread -> Token \cup {NoLogin}]
      BY LoginAssumption DEF IInv, TypeOK, remote, Dies, Mishap, Token, Device, LockReads
    <2>6. refused' \in [Thread -> Token \cup {NoLogin}]
      BY LoginAssumption DEF IInv, TypeOK, remote, Dies, Mishap, Token, Device, LockReads
    <2>7. lost' \subseteq Device \X (0..MaxSpends)
      BY LoginAssumption DEF IInv, TypeOK, remote, Dies, Mishap, Token, Device, LockReads
    <2>8. QED
      BY <2>1, <2>2, <2>3, <2>4, <2>5, <2>6, <2>7, LoginAssumption
      DEF IInv, TypeOK, remote, Dies, Mishap
  <1>2. Excluded'
    BY LoginAssumption DEF IInv, TypeOK, remote, Dies, Mishap, Excluded, LockReads, Section
  <1>3. LockReads'
    BY LoginAssumption
    DEF IInv, TypeOK, remote, Dies, Mishap, LockReads, Excluded, Section, Settled, Accepted, Token,
       Device
  <1>4. Current'
    <2>1. CASE Settled(file)
      BY <2>1, <1>9 DEF Current, Settled, Accepted
    <2>2. CASE ~Settled(file)
      <3>1. PICK t \in Thread : pc[t] = "save" /\ Succeeds(read[t], file)
        BY <2>2 DEF IInv, Current
      <3>2. file \in Token /\ read[t] \in Token
        BY <3>1 DEF IInv, TypeOK, Succeeds
      <3>3. CASE t \in gone
        <4>1. <<read[t].dev, read[t].n - 1>> \in lost'
          BY <3>1, <3>3, <1>9 DEF Succeeds
        <4>2. read[t].dev = file.dev /\ read[t].n - 1 = file.n
          BY <3>1, <3>2, LoginAssumption DEF Succeeds, Token
        <4>3. QED
          BY <4>1, <4>2, <1>9 DEF Current, Settled
      <3>4. CASE t \notin gone
        BY <3>1, <3>4, <1>9 DEF Current, Succeeds
      <3>5. QED
        BY <3>3, <3>4
    <2>3. QED
      BY <2>1, <2>2
  <1>5. Fresh'
    BY LoginAssumption DEF IInv, TypeOK, remote, Dies, Mishap, Fresh, Token, Device
  <1>6. Known'
    BY LoginAssumption DEF IInv, TypeOK, remote, Dies, Mishap, Known, Token, Device
  <1>7. Uncrossed'
    BY LoginAssumption
    DEF IInv, TypeOK, remote, Dies, Mishap, Uncrossed, Excluded, LockReads, Section, Accepted,
       Succeeds, Token, Device
  <1>8. QED
    BY <1>1, <1>2, <1>3, <1>4, <1>5, <1>6, <1>7 DEF IInv

(* Nothing of the invariant changes with none of the variables.            *)
LEMMA StutterKeeps ==
    ASSUME IInv, UNCHANGED vars
    PROVE  IInv'
  <1>1. UNCHANGED <<file, rotations, revoked, issued, revoking, pc, job, refused, read, auth,
                    mutex, lock, crossed, lost, ops, mishaps>>
    BY DEF vars, remote
  <1>2. TypeOK' /\ Excluded'
    BY <1>1 DEF IInv, TypeOK, Excluded
  <1>3. LockReads' /\ Current'
    BY <1>1 DEF IInv, LockReads, Current, Settled, Accepted
  <1>4. Fresh' /\ Known' /\ Uncrossed'
    BY <1>1 DEF IInv, Fresh, Known, Uncrossed, Accepted
  <1>5. QED
    BY <1>2, <1>3, <1>4 DEF IInv

(* The invariant holds at the start.                                       *)
LEMMA Starts ==
    Init => IInv
  <1> SUFFICES ASSUME Init PROVE IInv
    OBVIOUS
  <1>1. 1 \in Device /\ \A d \in Device : rotations[d] = 0
    BY LoginAssumption DEF Init, Device
  <1>2. file # NoLogin => file \in Token /\ file.dev = 1 /\ file.n = 0
    BY <1>1, LoginAssumption DEF Init, Token
  <1>3. TypeOK
    <2>1. file \in Token \cup {NoLogin} /\ issued \in Device /\ revoking \subseteq Device
      BY <1>1, <1>2 DEF Init
    <2>2. rotations \in [Device -> 0..MaxSpends] /\ revoked \subseteq Device
      BY <1>1, LoginAssumption DEF Init
    <2>3. ops \in 0..MaxOps /\ mishaps \in 0..MaxMishaps
      BY LoginAssumption DEF Init
    <2>4. lost \subseteq Device \X (0..MaxSpends) /\ crossed \in BOOLEAN
      BY DEF Init
    <2>5. mutex \in [Process -> Thread \cup {NoThread}] /\ lock \in Thread \cup {NoThread}
      BY DEF Init
    <2>6. /\ refused \in [Thread -> Token \cup {NoLogin}]
          /\ read \in [Thread -> Token \cup {NoLogin}]
          /\ auth \in [Thread -> Token \cup {NoLogin}]
          /\ pc \in [Thread -> {"idle", "mutex", "lock", "claim", "check", "present",
                                "revoke", "save", "login"}]
          /\ job \in [Thread -> {"session", "logout"}]
      BY DEF Init
    <2>7. QED
      BY <2>1, <2>2, <2>3, <2>4, <2>5, <2>6 DEF TypeOK
  <1>4. Excluded /\ LockReads
    BY LoginAssumption DEF Init, Excluded, LockReads, Section
  <1>5. Current
    BY <1>1, <1>2 DEF Init, Current, Settled, Accepted
  <1>6. Fresh /\ Uncrossed
    BY DEF Init, Fresh, Uncrossed, Section
  <1>7. Known
    BY <1>1, <1>2 DEF Init, Known
  <1>8. QED
    BY <1>3, <1>4, <1>5, <1>6, <1>7 DEF IInv

(* Every step keeps the invariant.                                         *)
LEMMA Inductive ==
    IInv /\ [Next]_vars => IInv'
  <1> SUFFICES ASSUME IInv, [Next]_vars PROVE IInv'
    OBVIOUS
  <1>1. CASE UNCHANGED vars
    BY <1>1, StutterKeeps
  <1>2. ASSUME NEW t \in Thread, NEW r \in {NoLogin, auth[t]}, Checks(t, r) PROVE IInv'
    BY <1>2, ChecksKeeps
  <1>3. ASSUME NEW t \in Thread, Works(t) PROVE IInv'
    BY <1>3, TakesMutexKeeps, LoadsKeeps, ClaimsKeeps, DecidesKeeps, PresentsKeeps,
       RevokesKeeps, SavesKeeps, SavesLoginKeeps DEF Works
  <1>4. ASSUME NEW t \in Thread, LogsOut(t) \/ Opens(t) \/ SavesCopy(t) \/ SignsIn(t)
        PROVE  IInv'
    BY <1>4, LogsOutKeeps, OpensKeeps, SavesCopyKeeps, SignsInKeeps
  <1>5. ASSUME NEW d \in Device, RevokesReplaced(d) PROVE IInv'
    BY <1>5, RevokesReplacedKeeps
  <1>6. ASSUME NEW p \in Process, Dies(p) PROVE IInv'
    BY <1>6, DiesKeeps
  <1>7. QED
    BY <1>1, <1>2, <1>3, <1>4, <1>5, <1>6 DEF Next

(* The invariant holds for any number of processes, threads and devices:   *)
(* auth.lock keeps one thread between its reload and its save, so what it  *)
(* read stays what is on file until an engine saves without the lock.      *)
THEOREM Invariant ==
    Spec => []IInv
  BY Starts, Inductive, PTL DEF Spec

(* The types of the state hold in every reachable state.                   *)
THEOREM TypeCorrect ==
    Spec => []TypeOK
  <1>1. IInv => TypeOK
    BY DEF IInv
  <1>2. QED
    BY <1>1, Invariant, PTL

(* The login on file is one the gateway takes, or is accounted for: a token *)
(* is spent once, by the one thread with auth.lock (session).              *)
THEOREM LoginWorks ==
    Spec => []SavedLoginWorks
  <1>1. IInv => SavedLoginWorks
    BY DEF IInv, Current, Settled, Excluded, Section, SavedLoginWorks
  <1>2. QED
    BY <1>1, Invariant, PTL

(* Who changes auth.json.                                                  *)
LEMMA Writers ==
    ASSUME IInv, [Next]_vars, file' # file
    PROVE  \E t \in Thread :
              \/ SavesCopy(t) \/ SavesLogin(t)
              \/ Claims(t) /\ file' = [dev |-> read[t].dev, n |-> read[t].n, at |-> "here"]
              \/ Saves(t) /\ file' = read[t]
  BY DEF vars, remote, Next, Works, Checks, LogsOut, TakesMutex, Loads, Claims, Decides,
     Presents, Revokes, Saves, Opens, SavesCopy, SignsIn, SavesLogin, RevokesReplaced, Dies

(* A login the gateway takes is only taken off the file by a logout, an    *)
(* expiry, or an engine that saves without the lock (session, logout).     *)
THEOREM LoginStays ==
    Spec => GoodLoginStays
  <1> DEFINE Allowed ==
        \/ SameToken(file', file)
        \/ crossed
        \/ \E t \in Thread : SavesCopy(t) \/ SavesLogin(t)
        \/ \E t \in Thread : Saves(t) /\ job[t] = "logout"
        \/ <<file.dev, file.n>> \in lost
  <1>1. ASSUME IInv, [Next]_vars, Accepted(file), file' # file, ~crossed
        PROVE  Allowed
    <2>1. PICK t \in Thread :
              \/ SavesCopy(t) \/ SavesLogin(t)
              \/ Claims(t) /\ file' = [dev |-> read[t].dev, n |-> read[t].n, at |-> "here"]
              \/ Saves(t) /\ file' = read[t]
      BY <1>1, Writers
    <2>2. file # NoLogin /\ file \in Token /\ rotations[file.dev] = file.n
      BY <1>1 DEF IInv, TypeOK, Accepted
    <2>3. CASE Claims(t) /\ file' = [dev |-> read[t].dev, n |-> read[t].n, at |-> "here"]
      <3>1. read[t] = file
        BY <1>1, <2>3 DEF IInv, Uncrossed, Section, Claims
      <3>2. file' # NoLogin
        BY <2>2, <2>3, <3>1, LoginAssumption DEF Token
      <3>3. SameToken(file', file)
        BY <2>2, <2>3, <3>1, <3>2 DEF SameToken
      <3>4. QED
        BY <3>3
    <2>4. CASE Saves(t) /\ file' = read[t]
      <3>1. pc[t] = "save"
        BY <2>4 DEF Saves
      <3>2. CASE read[t] = NoLogin
        BY <1>1, <2>4, <3>1, <3>2 DEF IInv, Uncrossed, Section
      <3>3. CASE read[t] # NoLogin
        <4>1. Succeeds(read[t], file) /\ rotations[read[t].dev] = read[t].n
          BY <1>1, <3>1, <3>3 DEF IInv, Uncrossed, LockReads, Section
        <4>2. QED
          BY <2>2, <4>1, LoginAssumption DEF Succeeds, Token, Device
      <3>4. QED
        BY <3>2, <3>3
    <2>5. QED
      BY <2>1, <2>3, <2>4
  <1>2. IInv /\ [Next]_vars => [Accepted(file) /\ file' # file => Allowed]_vars
    BY <1>1
  <1>3. QED
    BY <1>2, Invariant, PTL DEF Spec, GoodLoginStays

(* A check under way does not sign a computer in again (logout).           *)
THEOREM SignedOut ==
    Spec => SignedOutStays
  <1> DEFINE Allowed == crossed \/ \E t \in Thread : SavesCopy(t) \/ SavesLogin(t)
  <1>1. ASSUME IInv, [Next]_vars, file = NoLogin, file' # NoLogin, ~crossed
        PROVE  Allowed
    <2>1. PICK t \in Thread :
              \/ SavesCopy(t) \/ SavesLogin(t)
              \/ Claims(t) /\ file' = [dev |-> read[t].dev, n |-> read[t].n, at |-> "here"]
              \/ Saves(t) /\ file' = read[t]
      BY <1>1, Writers
    <2>2. CASE Claims(t)
      BY <1>1, <2>2 DEF IInv, Uncrossed, LockReads, Section, Claims
    <2>3. CASE Saves(t) /\ file' = read[t]
      BY <1>1, <2>3 DEF IInv, Uncrossed, Section, Saves, Succeeds
    <2>4. QED
      BY <2>1, <2>2, <2>3
  <1>2. IInv /\ [Next]_vars => [file = NoLogin /\ file' # NoLogin => Allowed]_vars
    BY <1>1
  <1>3. QED
    BY <1>2, Invariant, PTL DEF Spec, SignedOutStays

-----------------------------------------------------------------------------
(* --- a tool server --- *)

Place == [at : {"off", "start", "look", "ask", "wait", "got", "failed", "done"},
          conn : 0..MaxToolOps, id : Nat, news : List, got : List]

Written == [kind : {"changed", "answer"}, id : Nat, list : List]

\* The thread of a connection is at work.
On(c) == thread[c].at # "off"

\* The entry against the connections that are still made: each is for a generation that
\* the entry had since it was there, and only the last op's is for the present one.
Entered ==
    /\ generation <= toolOps
    /\ state = "connected" => client # 0
    /\ \A c \in Conn :
        /\ c > toolOps => ~On(c)
        /\ On(c) => client # c /\ thread[c].conn = c
        /\ On(c) /\ ~removed[c] =>
            set # 0 /\ made[c] <= generation /\ (made[c] = generation => c = set /\ enabled)

\* No list is known that the server did not have yet, and no id was used that is to come.
Bounded ==
    /\ \A c \in Conn :
        /\ list[c] \in 1..(events + 1)
        /\ copy[c] <= list[c] /\ owed[c] <= list[c] /\ changed[c] <= list[c]
        /\ \A id \in asked[c] : id <= ids[c]
        /\ \A i \in DOMAIN lines[c] : lines[c][i].list <= list[c] /\ lines[c][i].id <= ids[c]
    /\ \A t \in ToolThread : thread[t].at # "off" =>
        /\ thread[t].conn \in Conn
        /\ thread[t].news <= list[thread[t].conn] /\ thread[t].got <= list[thread[t].conn]
        /\ t \in Conn => thread[t].at # "look"

\* Notifications are read in the order of the changes.
InOrder ==
    \A c \in Conn : \A i \in DOMAIN lines[c] : lines[c][i].kind = "changed" =>
        /\ changed[c] < lines[c][i].list
        /\ \A j \in DOMAIN lines[c] :
              i < j /\ lines[c][j].kind = "changed" => lines[c][i].list < lines[c][j].list

\* No answer but the present list, or none, is on its way to a request.
Awaits(c, id) ==
    \A i \in DOMAIN lines[c] :
        lines[c][i].kind = "answer" /\ lines[c][i].id = id => lines[c][i].list \in {0, list[c]}

\* Thread t is to bring the present list of c, or to fail.
Fetches(t, c) ==
    /\ thread[t].conn = c /\ (thread[t].news = list[c] \/ t = c)
    /\ \/ thread[t].at \in {"start", "ask"}
       \/ thread[t].at = "wait" /\ Awaits(c, thread[t].id)
       \/ thread[t].at = "got" /\ thread[t].got \in {0, list[c]}

\* A notification of the present list is to be read.
Noted(c) == \E i \in DOMAIN lines[c] : lines[c][i].kind = "changed" /\ lines[c][i].list = list[c]

\* The present list is had, owed or known to have changed, or will be.
Accounted(c) ==
    \/ list[c] \in {copy[c], owed[c], changed[c]}
    \/ Noted(c)
    \/ \E t \in ToolThread : Fetches(t, c)

\* The entry has the connection, or may get it.
Usable(c) == client = c \/ thread[c].at \in {"start", "ask", "wait", "got", "done"}

ListsAccounted == \A c \in Conn : Usable(c) => Accounted(c)

\* The inductive invariant.
Kept == ToolTypeOK /\ Entered /\ Bounded /\ InOrder /\ ListsAccounted

-----------------------------------------------------------------------------
LEMMA Threads == Conn \subseteq ToolThread /\ User \subseteq ToolThread /\ Conn \cap User = {} /\ Poller \in ToolThread
BY ServerAssumption DEF ToolThread, Conn

\* A thread goes somewhere, and no other.
LEMMA ThreadGoes ==
    ASSUME ToolTypeOK, NEW t \in ToolThread, NEW f \in Place, Goes(t, f)
    PROVE  /\ thread' \in [ToolThread -> Place] /\ thread'[t] = f
           /\ \A u \in ToolThread : u # t => thread'[u] = thread[u]
BY DEF ToolTypeOK, Goes, Place

\* ... and At names a place on the connection it is at.
LEMMA AtPlace ==
    ASSUME ToolTypeOK, NEW t \in ToolThread,
           NEW w \in {"off", "start", "look", "ask", "wait", "got", "failed", "done"}
    PROVE  /\ At(t, w) \in Place /\ At(t, w).at = w /\ At(t, w).conn = thread[t].conn
           /\ At(t, w).id = thread[t].id
           /\ At(t, w).news = thread[t].news /\ At(t, w).got = thread[t].got
<1>1. thread[t] \in Place BY DEF ToolTypeOK, Place
<1>2. At(t, w) = [thread[t] EXCEPT !.at = w] BY DEF At
<1> QED BY <1>1, <1>2 DEF Place

LEMMA OffPlace == Off \in Place /\ Off.at = "off" /\ Off.conn = 0 /\ Off.news = 0 /\ Off.got = 0
BY ServerAssumption DEF Off, Place, List

LEMMA LineTyped ==
    ASSUME ToolTypeOK, NEW c \in Conn
    PROVE  /\ lines[c] \in Seq(Written)
           /\ \A i \in DOMAIN lines[c] :
                /\ i \in Nat /\ lines[c][i] \in Written
                /\ lines[c][i].list \in Nat /\ lines[c][i].id \in Nat
<1>1. lines[c] \in Seq(Written) BY DEF ToolTypeOK, Written
<1>2. ASSUME NEW i \in DOMAIN lines[c]
      PROVE  /\ i \in Nat /\ lines[c][i] \in Written
             /\ lines[c][i].list \in Nat /\ lines[c][i].id \in Nat
  <2>1. i \in Nat /\ lines[c][i] \in Written BY <1>1, <1>2
  <2> QED BY <2>1 DEF Written, List
<1> QED BY <1>1, <1>2

\* A thread that stands where it stood, on a connection whose server said nothing, fetches
\* as it did.
LEMMA FetchStays ==
    ASSUME NEW t, NEW c, Fetches(t, c), thread'[t] = thread[t],
           list'[c] = list[c], lines'[c] = lines[c]
    PROVE  Fetches(t, c)'
BY DEF Fetches, Awaits

-----------------------------------------------------------------------------
(* The engine's ops. *)

LEMMA ConnectsKept ==
    ASSUME Kept, Op, NEW b \in BOOLEAN, Connects(b), UNCHANGED Others
    PROVE  Kept'
<1> DEFINE o == toolOps + 1
           g == IF set = 0 THEN 1 ELSE generation + 1
           new == [Off EXCEPT !.at = "start", !.conn = o]
<1>1. /\ o \in Conn /\ toolOps' = o /\ o = toolOps' /\ o \in ToolThread /\ ~On(o) /\ o # 0
      /\ thread[Poller].at = "off" /\ toolOps < MaxToolOps
  <2>1. toolOps \in Nat /\ MaxToolOps \in Nat /\ toolOps < MaxToolOps /\ toolOps' = o /\ thread[Poller].at = "off"
    BY ServerAssumption DEF Kept, Op, ToolTypeOK
  <2>2. o \in Conn /\ o > toolOps /\ o # 0 BY <2>1 DEF Conn
  <2> QED BY <2>1, <2>2, Threads DEF Kept, Entered
<1>2. /\ set' = o /\ enabled' = b /\ generation' = g /\ client' = 0
      /\ state' = IF b THEN "connecting" ELSE "disabled"
      /\ made' = [made EXCEPT ![o] = g]
      /\ IF b THEN Goes(o, new) ELSE UNCHANGED thread
  BY <1>1 DEF Connects
<1>3. UNCHANGED <<removed, runs, list, asked, lines, pending, changed, copy, ids, owed, events>>
  BY DEF Others, server, peer
<1>4. /\ g \in 1..o /\ (set # 0 => generation < g)
      /\ generation \in Nat /\ MaxToolOps \in Nat /\ toolOps \in Nat
  BY ServerAssumption DEF Kept, ToolTypeOK, Entered
<1>5. new \in Place /\ new.at = "start" /\ new.conn = o /\ new.news = 0 /\ new.got = 0
  <2>1. o \in 0..MaxToolOps BY <1>1, <1>4 DEF Conn
  <2> HIDE DEF o
  <2> QED BY <2>1, OffPlace DEF Place
<1> HIDE DEF new
<1>6. /\ thread' \in [ToolThread -> Place]
      /\ \A u \in ToolThread : u # o => thread'[u] = thread[u]
      /\ b => thread'[o] = new
      /\ ~b => thread'[o] = thread[o]
  <2>1. CASE b BY <1>1, <1>2, <1>5, <2>1, ThreadGoes DEF Kept
  <2>2. CASE ~b BY <1>2, <2>2 DEF Kept, ToolTypeOK, Place
  <2> QED BY <2>1, <2>2
<1>7. ToolTypeOK'
  <2>1. set' \in 0..MaxToolOps /\ enabled' \in BOOLEAN /\ generation' \in 0..MaxToolOps
        /\ client' \in 0..MaxToolOps /\ toolOps' \in 0..MaxToolOps /\ made' \in [Conn -> 0..MaxToolOps]
        /\ state' \in {"disabled", "connecting", "connected", "failed"}
    <3>1. made \in [Conn -> 0..MaxToolOps] BY DEF Kept, ToolTypeOK
    <3>2. o \in 0..MaxToolOps /\ 0 \in 0..MaxToolOps /\ g \in 0..MaxToolOps BY <1>1, <1>4 DEF Conn
    <3> HIDE DEF o, g
    <3>3. made' \in [Conn -> 0..MaxToolOps] BY <3>1, <3>2, <1>2
    <3>4. state' \in {"disabled", "connecting", "connected", "failed"} BY <1>2
    <3> QED BY <3>2, <3>3, <3>4, <1>1, <1>2
  <2> QED BY <2>1, <1>3, <1>6 DEF Kept, ToolTypeOK, Place
<1>8. Entered'
  <2>1. generation' <= toolOps' /\ state' # "connected" BY <1>1, <1>2, <1>4
  <2>2. ASSUME NEW c \in Conn PROVE
          /\ c > toolOps' => ~On(c)'
          /\ On(c)' => client' # c /\ thread'[c].conn = c
          /\ On(c)' /\ ~removed'[c] =>
              set' # 0 /\ made'[c] <= generation' /\ (made'[c] = generation' => c = set' /\ enabled')
    <3>1. CASE c = o
      <4>1. On(c)' => b BY <3>1, <1>1, <1>6 DEF On
      <4>2. made'[c] = g BY <3>1, <1>2 DEF Kept, ToolTypeOK
      <4> QED BY <3>1, <4>1, <4>2, <1>1, <1>2, <1>4, <1>5, <1>6 DEF On
    <3>2. CASE c # o
      <4>1. thread'[c] = thread[c] /\ made'[c] = made[c] /\ removed'[c] = removed[c]
        BY <3>2, <1>2, <1>3, <1>6, Threads DEF Kept, ToolTypeOK
      <4>2. made[c] \in Nat /\ c \in Nat /\ c # 0
        <5>1. made \in [Conn -> 0..MaxToolOps] BY DEF Kept, ToolTypeOK
        <5> QED BY <5>1 DEF Conn
      <4> QED BY <3>2, <4>1, <4>2, <1>1, <1>2, <1>4 DEF Kept, Entered, On
    <3> QED BY <3>1, <3>2
  <2> QED BY <2>1, <2>2 DEF Entered
<1>9. Bounded'
  <2>1. ASSUME NEW t \in ToolThread, thread'[t].at # "off" PROVE
          /\ thread'[t].conn \in Conn
          /\ thread'[t].news <= list'[thread'[t].conn] /\ thread'[t].got <= list'[thread'[t].conn]
          /\ t \in Conn => thread'[t].at # "look"
    <3>1. CASE t = o /\ b
      <4>1. list[o] \in Nat BY <1>1 DEF Kept, ToolTypeOK, List
      <4> QED BY <3>1, <4>1, <1>1, <1>3, <1>5, <1>6
    <3>2. CASE thread'[t] = thread[t] BY <2>1, <3>2, <1>3 DEF Kept, Bounded
    <3> QED BY <3>1, <3>2, <1>6
  <2> QED BY <2>1, <1>3 DEF Kept, Bounded
<1>10. InOrder' BY <1>3 DEF Kept, InOrder
<1>11. ListsAccounted'
  <2> SUFFICES ASSUME NEW c \in Conn, Usable(c)' PROVE Accounted(c)'
    BY DEF ListsAccounted
  <2>1. CASE c = o
    <3>1. thread'[o] = new BY <2>1, <1>1, <1>2, <1>6 DEF Usable, On
    <3> QED BY <2>1, <3>1, <1>1, <1>5 DEF Accounted, Fetches
  <2>2. CASE c # o
    <3>1. thread'[c] = thread[c] BY <2>2, <1>6, Threads
    <3>2. Usable(c) BY <3>1, <1>2 DEF Usable, Conn
    <3>3. Accounted(c) BY <3>2 DEF Kept, ListsAccounted
    <3>4. ASSUME NEW t \in ToolThread, Fetches(t, c) PROVE Fetches(t, c)'
      <4>1. t # o BY <3>4, <1>1 DEF Fetches, On
      <4> QED BY <3>4, <4>1, <1>3, <1>6, FetchStays
    <3> QED BY <3>3, <3>4, <1>3 DEF Accounted, Noted
  <2> QED BY <2>1, <2>2
<1> QED BY <1>7, <1>8, <1>9, <1>10, <1>11 DEF Kept

LEMMA RemoveKept == ASSUME Kept, Remove PROVE Kept'
<1>1. /\ set' = 0 /\ enabled' = FALSE /\ state' = "disabled" /\ generation' = 0 /\ client' = 0
      /\ removed' = [c \in Conn |-> removed[c] \/ On(c)]
      /\ toolOps < MaxToolOps /\ toolOps' = toolOps + 1
  BY DEF Remove, Op, On
<1>2. UNCHANGED <<made, runs, list, asked, lines, pending, changed, copy, ids, owed, thread, events>>
  BY DEF Remove, server, peer
<1>3. ToolTypeOK'
  <2>1. removed' \in [Conn -> BOOLEAN] BY <1>1, Zenon DEF On
  <2>2. enabled' \in BOOLEAN BY <1>1
  <2>3. toolOps \in 0..MaxToolOps /\ MaxToolOps \in Nat BY ServerAssumption DEF Kept, ToolTypeOK
  <2>4. set' = 0 /\ generation' = 0 /\ client' = 0 /\ toolOps < MaxToolOps /\ toolOps' = toolOps + 1
    BY <1>1
  <2>5. set' \in 0..MaxToolOps /\ generation' \in 0..MaxToolOps /\ client' \in 0..MaxToolOps
        /\ toolOps' \in 0..MaxToolOps
    BY <2>3, <2>4
  <2>6. state' \in {"disabled", "connecting", "connected", "failed"} BY <1>1
  <2> QED BY <2>1, <2>2, <2>5, <2>6, <1>2 DEF Kept, ToolTypeOK
<1>4. Entered'
  <2>1. toolOps \in Nat /\ \A c \in Conn : c \in Nat /\ c # 0 BY DEF Kept, ToolTypeOK, Conn
  <2>2. \A c \in Conn : removed'[c] <=> removed[c] \/ On(c) BY <1>1
  <2>3. \A c \in Conn : On(c)' <=> On(c) BY <1>2 DEF On
  <2>4. \A c \in Conn : /\ c > toolOps => ~On(c)
                        /\ On(c) => thread[c].conn = c
    BY DEF Kept, Entered
  <2> QED BY <2>1, <2>2, <2>3, <2>4, <1>1, <1>2 DEF Entered
<1>5. Bounded' BY <1>2 DEF Kept, Bounded
<1>6. InOrder' BY <1>2 DEF Kept, InOrder
<1>7. ListsAccounted'
  <2>1. \A c \in Conn : Usable(c)' => Usable(c) BY <1>1, <1>2 DEF Usable, Conn
  <2>2. \A c \in Conn : Accounted(c) => Accounted(c)'
    BY <1>2, FetchStays DEF Accounted, Noted
  <2> QED BY <2>1, <2>2 DEF Kept, ListsAccounted
<1> QED BY <1>3, <1>4, <1>5, <1>6, <1>7 DEF Kept

-----------------------------------------------------------------------------
(* The threads. *)

\* What does not touch the entry leaves it as it was with its connections.
LEMMA EnteredStays ==
    ASSUME Entered, UNCHANGED <<entry, made, removed, toolOps>>,
           \A c \in Conn : On(c)' => On(c) /\ thread'[c].conn = thread[c].conn
    PROVE  Entered'
BY DEF Entered, entry

\* The move of one thread on its connection, servers and entry left alone: what is to be
\* shown of the lists.
LEMMA Moves ==
    ASSUME Kept, NEW t \in ToolThread, NEW f \in Place, Goes(t, f),
           thread[t].at # "off" \/ t \notin Conn,
           UNCHANGED <<entry, made, removed, list, lines, toolOps>>,
           f.at # "off" /\ t \in Conn => f.conn = thread[t].conn
    PROVE  /\ Entered'
           /\ \A c \in Conn : (c = t => f.at \in {"off", "failed"} \/ Usable(c)) =>
                (Usable(c)' => Usable(c))
           /\ \A u \in ToolThread, c \in Conn : u # t /\ Fetches(u, c) => Fetches(u, c)'
<1>1. /\ thread' \in [ToolThread -> Place] /\ thread'[t] = f
      /\ \A u \in ToolThread : u # t => thread'[u] = thread[u]
  BY ThreadGoes DEF Kept
<1>2. Entered' BY <1>1, EnteredStays, Threads DEF Kept, On
<1>3. ASSUME NEW c \in Conn, c = t => f.at \in {"off", "failed"} \/ Usable(c), Usable(c)'
      PROVE  Usable(c)
  BY <1>1, <1>3, Threads DEF Usable, entry
<1>4. ASSUME NEW u \in ToolThread, NEW c \in Conn, u # t, Fetches(u, c) PROVE Fetches(u, c)'
  BY <1>1, <1>4, FetchStays
<1> QED BY <1>2, <1>3, <1>4

LEMMA SpawnsKept == ASSUME Kept, NEW c \in Conn, Spawns(c) PROVE Kept'
<1>1. /\ thread[c].at = "start" /\ c \in ToolThread
      /\ UNCHANGED <<set, enabled, state, generation, client, made, removed, list, asked, lines,
                     pending, changed, copy, ids, owed, toolOps>>
  BY Threads DEF Spawns, entry, peer
<1>2. PICK w \in {"ask", "failed"} :
        /\ Goes(c, At(c, w))
        /\ runs' \in {runs, [runs EXCEPT ![c] = TRUE]}
        /\ events' = events \/ (events < MaxEvents /\ events' = events + 1)
  BY DEF Spawns, Event
<1> DEFINE f == At(c, w)
<1>3. /\ f \in Place /\ f.at = w /\ f.conn = thread[c].conn /\ f.id = thread[c].id
      /\ f.news = thread[c].news /\ f.got = thread[c].got
  BY <1>1, AtPlace DEF Kept
<1> HIDE DEF f
<1>4. /\ thread' \in [ToolThread -> Place] /\ thread'[c] = f
      /\ \A u \in ToolThread : u # c => thread'[u] = thread[u]
  BY <1>1, <1>2, <1>3, ThreadGoes DEF Kept, f
<1>5. events \in Nat /\ events' \in 0..MaxEvents /\ events' >= events
  BY <1>2, ServerAssumption DEF Kept, ToolTypeOK
<1>6. ToolTypeOK'
  <2>1. runs' \in [Conn -> BOOLEAN] BY <1>2 DEF Kept, ToolTypeOK
  <2> QED BY <2>1, <1>1, <1>4, <1>5 DEF Kept, ToolTypeOK, Place
<1>7. /\ Entered'
      /\ \A d \in Conn : Usable(d)' => Usable(d)
      /\ \A u \in ToolThread, d \in Conn : u # c /\ Fetches(u, d) => Fetches(u, d)'
  <2>1. Usable(c) BY <1>1 DEF Usable
  <2>2. Goes(c, f) /\ UNCHANGED <<entry, made, removed, list, lines, toolOps>>
    BY <1>1, <1>2 DEF f, entry
  <2> QED BY <2>1, <2>2, <1>1, <1>3, Moves
<1>8. Bounded'
  <2>1. ASSUME NEW d \in Conn PROVE list'[d] \in 1..(events' + 1)
    BY <1>1, <1>5 DEF Kept, Bounded
  <2>2. ASSUME NEW t \in ToolThread, thread'[t].at # "off" PROVE
          /\ thread'[t].conn \in Conn
          /\ thread'[t].news <= list'[thread'[t].conn] /\ thread'[t].got <= list'[thread'[t].conn]
          /\ t \in Conn => thread'[t].at # "look"
    BY <2>2, <1>1, <1>3, <1>4 DEF Kept, Bounded
  <2> QED BY <2>1, <2>2, <1>1 DEF Kept, Bounded
<1>9. InOrder' BY <1>1 DEF Kept, InOrder
<1>10. ListsAccounted'
  <2> SUFFICES ASSUME NEW d \in Conn, Usable(d)' PROVE Accounted(d)'
    BY DEF ListsAccounted
  <2>1. Accounted(d) BY <1>7 DEF Kept, ListsAccounted
  <2>2. CASE \E u \in ToolThread : Fetches(u, d)
    <3>1. PICK u \in ToolThread : Fetches(u, d) BY <2>2
    <3>2. CASE u = c
      <4>1. thread[c].conn = c BY <1>1 DEF Kept, Entered, On
      <4>2. d = c BY <3>1, <3>2, <4>1 DEF Fetches
      <4>3. w = "ask"
        <5>1. client # c BY <1>1 DEF Kept, Entered, On
        <5> QED BY <5>1, <4>2, <1>1, <1>3, <1>4 DEF Usable
      <4>4. Fetches(c, c)' BY <4>1, <4>3, <1>3, <1>4 DEF Fetches
      <4> QED BY <4>2, <4>4, <1>1 DEF Accounted
    <3> QED BY <3>1, <3>2, <1>7 DEF Accounted
  <2> QED BY <2>1, <2>2, <1>1 DEF Accounted, Noted
<1> QED BY <1>6, <1>7, <1>8, <1>9, <1>10 DEF Kept

LEMMA FinishKept == ASSUME Kept, NEW c \in Conn, FinishConnect(c) PROVE Kept'
<1>1. /\ thread[c].at \in {"done", "failed"} /\ c \in ToolThread /\ Goes(c, Off) /\ Off \in Place
      /\ UNCHANGED <<set, enabled, generation, made, removed, runs, list, asked, lines,
                     pending, changed, copy, ids, owed, toolOps, events>>
  BY Threads, OffPlace DEF FinishConnect, server, peer
<1>2. \/ UNCHANGED <<state, client>>
      \/ thread[c].at = "done" /\ state' = "connected" /\ client' = c
      \/ state' = "failed" /\ client' = 0
  BY <1>1 DEF FinishConnect
<1>3. /\ thread' \in [ToolThread -> Place] /\ thread'[c] = Off
      /\ \A u \in ToolThread : u # c => thread'[u] = thread[u]
  BY <1>1, ThreadGoes DEF Kept
<1>4. c \in Nat /\ c # 0 /\ c \in 0..MaxToolOps BY ServerAssumption DEF Conn
<1>5. ToolTypeOK'
  <2>1. client' \in 0..MaxToolOps /\ state' \in {"disabled", "connecting", "connected", "failed"}
    BY <1>2, <1>4, ServerAssumption DEF Kept, ToolTypeOK
  <2> QED BY <2>1, <1>1, <1>3 DEF Kept, ToolTypeOK, Place
<1>6. Entered'
  <2>1. \A d \in Conn : On(d)' => d # c /\ On(d) /\ thread'[d] = thread[d]
    BY <1>3, OffPlace, Threads DEF On
  <2>2. \A d \in Conn : d # 0 BY DEF Conn
  <2> QED BY <2>1, <2>2, <1>1, <1>2, <1>4 DEF Kept, Entered
<1>7. Bounded'
  <2>1. ASSUME NEW t \in ToolThread, thread'[t].at # "off" PROVE
          /\ thread'[t].conn \in Conn
          /\ thread'[t].news <= list'[thread'[t].conn] /\ thread'[t].got <= list'[thread'[t].conn]
          /\ t \in Conn => thread'[t].at # "look"
    BY <2>1, <1>1, <1>3, OffPlace DEF Kept, Bounded
  <2> QED BY <2>1, <1>1 DEF Kept, Bounded
<1>8. InOrder' BY <1>1 DEF Kept, InOrder
<1>9. ListsAccounted'
  <2> SUFFICES ASSUME NEW d \in Conn, Usable(d)' PROVE Accounted(d)'
    BY DEF ListsAccounted
  <2>1. Usable(d)
    <3>1. CASE d = c
      <4>1. client # c BY <1>1 DEF Kept, Entered, On
      <4> QED BY <3>1, <4>1, <1>2, <1>3, <1>4, OffPlace DEF Usable
    <3>2. CASE d # c
      <4>1. d # 0 BY DEF Conn
      <4> QED BY <3>2, <4>1, <1>2, <1>3, Threads DEF Usable
    <3> QED BY <3>1, <3>2
  <2>2. Accounted(d) BY <2>1 DEF Kept, ListsAccounted
  <2>3. \A u \in ToolThread : Fetches(u, d) => Fetches(u, d)'
    <3> TAKE u \in ToolThread
    <3> HAVE Fetches(u, d)
    <3>1. u # c BY <1>1 DEF Fetches
    <3> QED BY <3>1, <1>1, <1>3, FetchStays
  <2> QED BY <2>2, <2>3, <1>1 DEF Accounted, Noted
<1> QED BY <1>5, <1>6, <1>7, <1>8, <1>9 DEF Kept

LEMMA UsesKept == ASSUME Kept, NEW t \in User, Uses(t) PROVE Kept'
<1> DEFINE f == [Off EXCEPT !.at = "look", !.conn = client]
<1>1. /\ thread[t].at = "off" /\ t \in ToolThread /\ t \notin Conn /\ Goes(t, f)
      /\ client \in Conn
      /\ UNCHANGED <<set, enabled, state, generation, client, made, removed, runs, list, asked,
                     lines, pending, changed, copy, ids, owed, toolOps, events>>
  <2>1. client # 0 /\ client \in 0..MaxToolOps /\ MaxToolOps \in Nat
    BY ServerAssumption DEF Uses, Kept, Entered, ToolTypeOK
  <2> QED BY <2>1, Threads DEF Uses, entry, server, peer, Conn
<1>2. f \in Place /\ f.at = "look" /\ f.conn = client /\ f.news = 0 /\ f.got = 0
  <2>1. client \in 0..MaxToolOps BY DEF Kept, ToolTypeOK
  <2> QED BY <2>1, OffPlace DEF Place
<1> HIDE DEF f
<1>3. /\ thread' \in [ToolThread -> Place] /\ thread'[t] = f
      /\ \A u \in ToolThread : u # t => thread'[u] = thread[u]
  BY <1>1, <1>2, ThreadGoes DEF Kept
<1>4. /\ Entered'
      /\ \A d \in Conn : Usable(d)' => Usable(d)
      /\ \A u \in ToolThread, d \in Conn : u # t /\ Fetches(u, d) => Fetches(u, d)'
  <2>1. UNCHANGED <<entry, made, removed, list, lines, toolOps>> BY <1>1 DEF entry
  <2> QED BY <2>1, <1>1, <1>2, Moves
<1>5. ToolTypeOK' BY <1>1, <1>3 DEF Kept, ToolTypeOK, Place
<1>6. Bounded'
  <2>1. list[client] \in Nat BY <1>1 DEF Kept, ToolTypeOK, List
  <2>2. ASSUME NEW u \in ToolThread, thread'[u].at # "off" PROVE
          /\ thread'[u].conn \in Conn
          /\ thread'[u].news <= list'[thread'[u].conn] /\ thread'[u].got <= list'[thread'[u].conn]
          /\ u \in Conn => thread'[u].at # "look"
    <3>1. CASE u = t BY <2>1, <3>1, <1>1, <1>2, <1>3
    <3>2. CASE u # t BY <2>2, <3>2, <1>1, <1>3 DEF Kept, Bounded
    <3> QED BY <3>1, <3>2
  <2> QED BY <2>2, <1>1 DEF Kept, Bounded
<1>7. InOrder' BY <1>1 DEF Kept, InOrder
<1>8. ListsAccounted'
  <2> SUFFICES ASSUME NEW d \in Conn, Usable(d)' PROVE Accounted(d)'
    BY DEF ListsAccounted
  <2>1. Accounted(d) BY <1>4 DEF Kept, ListsAccounted
  <2>2. ~Fetches(t, d) BY <1>1 DEF Fetches
  <2> QED BY <2>1, <2>2, <1>1, <1>4 DEF Accounted, Noted
<1> QED BY <1>4, <1>5, <1>6, <1>7, <1>8 DEF Kept

LEMMA TakesKept == ASSUME Kept, NEW t \in ToolThread, TakesChanged(t) PROVE Kept'
<1> DEFINE c == thread[t].conn
           took == changed[c] # 0
           f == IF took THEN [At(t, "ask") EXCEPT !.news = changed[c]] ELSE Off
<1>1. /\ thread[t].at = "look" /\ t \notin Conn /\ c \in Conn /\ Goes(t, f)
      /\ changed' = IF took THEN [changed EXCEPT ![c] = 0] ELSE changed
      /\ UNCHANGED <<set, enabled, state, generation, client, made, removed, runs, list, asked,
                     lines, pending, copy, ids, owed, toolOps, events>>
  <2>1. thread[t].at = "look" BY DEF TakesChanged
  <2>2. t \notin Conn /\ c \in Conn BY <2>1 DEF Kept, Bounded
  <2>3. /\ IF took THEN /\ Goes(t, [At(t, "ask") EXCEPT !.news = changed[c]])
                       /\ changed' = [changed EXCEPT ![c] = 0]
                  ELSE Goes(t, Off) /\ changed' = changed
        /\ UNCHANGED <<set, enabled, state, generation, client, made, removed, runs, list, asked,
                       lines, pending, copy, ids, owed, toolOps, events>>
    BY DEF TakesChanged, entry, server
  <2>4. CASE took BY <2>1, <2>2, <2>3, <2>4
  <2>5. CASE ~took BY <2>1, <2>2, <2>3, <2>5
  <2> QED BY <2>4, <2>5
<1>2. /\ changed \in [Conn -> List] /\ changed[c] \in List /\ 0 \in List
      /\ \A d \in Conn : changed[d] \in Nat /\ list[d] \in Nat
  <2> HIDE DEF f, took
  <2>1. changed \in [Conn -> List] /\ list \in [Conn -> List] BY DEF Kept, ToolTypeOK
  <2>2. 0 \in List /\ List \subseteq Nat BY ServerAssumption DEF List
  <2> QED BY <2>1, <2>2, <1>1
<1>3. /\ f \in Place
      /\ took => f.at = "ask" /\ f.conn = c /\ f.news = changed[c] /\ f.got = thread[t].got
      /\ ~took => f = Off
  <2>1. /\ At(t, "ask") \in Place /\ At(t, "ask").at = "ask" /\ At(t, "ask").conn = c
        /\ At(t, "ask").got = thread[t].got
    BY AtPlace DEF Kept
  <2> QED BY <2>1, <1>2, OffPlace DEF Place
<1> HIDE DEF f
<1>4. /\ thread' \in [ToolThread -> Place] /\ thread'[t] = f
      /\ \A u \in ToolThread : u # t => thread'[u] = thread[u]
  BY <1>1, <1>3, ThreadGoes DEF Kept
<1>5. /\ Entered'
      /\ \A d \in Conn : Usable(d)' => Usable(d)
      /\ \A u \in ToolThread, d \in Conn : u # t /\ Fetches(u, d) => Fetches(u, d)'
  <2>1. UNCHANGED <<entry, made, removed, list, lines, toolOps>> BY <1>1 DEF entry
  <2> QED BY <2>1, <1>1, <1>3, Moves
<1>6. /\ changed' \in [Conn -> List]
      /\ \A d \in Conn : changed'[d] \in {0, changed[d]} /\ (d # c => changed'[d] = changed[d])
      /\ took => changed'[c] = 0
  BY <1>1, <1>2
<1>7. ToolTypeOK' BY <1>1, <1>4, <1>6 DEF Kept, ToolTypeOK, Place
<1>8. Bounded'
  <2>1. ASSUME NEW d \in Conn PROVE changed'[d] <= list'[d]
    BY <1>1, <1>2, <1>6 DEF Kept, Bounded
  <2>2. ASSUME NEW u \in ToolThread, thread'[u].at # "off" PROVE
          /\ thread'[u].conn \in Conn
          /\ thread'[u].news <= list'[thread'[u].conn] /\ thread'[u].got <= list'[thread'[u].conn]
          /\ u \in Conn => thread'[u].at # "look"
    <3>1. CASE u = t
      <4>1. took BY <2>2, <3>1, <1>3, <1>4, OffPlace
      <4>2. changed[c] <= list[c] /\ thread[t].got <= list[c] BY <1>1 DEF Kept, Bounded
      <4> QED BY <3>1, <4>1, <4>2, <1>1, <1>3, <1>4
    <3>2. CASE u # t BY <2>2, <3>2, <1>1, <1>4 DEF Kept, Bounded
    <3> QED BY <3>1, <3>2
  <2> QED BY <2>1, <2>2, <1>1 DEF Kept, Bounded
<1>9. InOrder'
  <2> SUFFICES ASSUME NEW d \in Conn, NEW i \in DOMAIN lines[d], lines[d][i].kind = "changed"
               PROVE  /\ changed'[d] < lines[d][i].list
                      /\ \A j \in DOMAIN lines[d] :
                            i < j /\ lines[d][j].kind = "changed" => lines[d][i].list < lines[d][j].list
    BY <1>1 DEF InOrder
  <2>1. lines[d][i].list \in Nat BY LineTyped DEF Kept
  <2> QED BY <2>1, <1>2, <1>6 DEF Kept, InOrder
<1>10. ListsAccounted'
  <2> SUFFICES ASSUME NEW d \in Conn, Usable(d)' PROVE Accounted(d)'
    BY DEF ListsAccounted
  <2>1. Accounted(d) BY <1>5 DEF Kept, ListsAccounted
  <2>2. ~Fetches(t, d) BY <1>1 DEF Fetches
  <2>3. CASE list[d] = changed[d] /\ d = c /\ took
    <3>1. Fetches(t, d)' BY <2>3, <1>1, <1>3, <1>4 DEF Fetches
    <3> QED BY <3>1 DEF Accounted
  <2>4. CASE list[d] = changed[d] /\ ~(d = c /\ took)
    <3>1. changed'[d] = changed[d] BY <2>4, <1>1, <1>6
    <3> QED BY <2>4, <3>1, <1>1 DEF Accounted
  <2>5. CASE list[d] # changed[d]
    BY <2>1, <2>2, <2>5, <1>1, <1>5 DEF Accounted, Noted
  <2> QED BY <2>3, <2>4, <2>5
<1> QED BY <1>5, <1>7, <1>8, <1>9, <1>10 DEF Kept

\* A refresh that fails leaves what it was to fetch owed.
LEMMA FailsKept ==
    ASSUME Kept, NEW t \in ToolThread, thread[t].at \in {"ask", "wait", "got"}, Fails(t),
           UNCHANGED <<entry, made, removed, runs, list, asked, lines, changed, copy, toolOps>>,
           pending' \in [Conn -> SUBSET Id], ids' \in [Conn -> Nat],
           \A c \in Conn : ids[c] <= ids'[c],
           events' \in 0..MaxEvents, events <= events'
    PROVE  Kept'
<1> DEFINE c == thread[t].conn
           f == IF t \in Conn THEN At(t, "failed") ELSE Off
           n == thread[t].news
<1>1. /\ c \in Conn /\ Goes(t, f)
      /\ owed' = [owed EXCEPT ![c] = IF n > owed[c] THEN n ELSE owed[c]]
      /\ UNCHANGED <<set, enabled, state, generation, client>>
  BY DEF Fails, Kept, Bounded, ToolTypeOK, entry
<1>2. /\ f \in Place /\ f.at \in {"failed", "off"} /\ (t \in Conn => f.conn = c)
      /\ f.at # "off" => f.conn = c /\ f.news = n /\ f.got = thread[t].got
  BY AtPlace, OffPlace DEF Kept
<1> HIDE DEF f
<1>3. /\ thread' \in [ToolThread -> Place] /\ thread'[t] = f
      /\ \A u \in ToolThread : u # t => thread'[u] = thread[u]
  BY <1>1, <1>2, ThreadGoes DEF Kept
<1>4. n \in List /\ owed \in [Conn -> List] BY DEF Kept, ToolTypeOK
<1>5. /\ owed' \in [Conn -> List]
      /\ \A d \in Conn : d # c => owed'[d] = owed[d]
      /\ owed'[c] = IF n > owed[c] THEN n ELSE owed[c]
      /\ owed[c] \in Nat /\ n \in Nat /\ list[c] \in Nat /\ n <= list[c] /\ owed[c] <= list[c]
  <2>1. n \in Nat /\ \A d \in Conn : owed[d] \in Nat /\ list[d] \in Nat
    BY <1>4 DEF List, Kept, ToolTypeOK
  <2>2. n <= list[c] /\ owed[c] <= list[c] BY <1>1 DEF Kept, Bounded
  <2>3. (IF n > owed[c] THEN n ELSE owed[c]) \in List BY <1>1, <1>4
  <2> QED BY <2>1, <2>2, <2>3, <1>1, <1>4
<1>6. ToolTypeOK' BY <1>1, <1>3, <1>5 DEF Kept, ToolTypeOK, Place
<1>7. /\ Entered'
      /\ \A d \in Conn : Usable(d)' => Usable(d)
      /\ \A u \in ToolThread, d \in Conn : u # t /\ Fetches(u, d) => Fetches(u, d)'
  <2>1. UNCHANGED <<entry, made, removed, list, lines, toolOps>> BY <1>1 DEF entry
  <2>2. thread[t].at # "off" OBVIOUS
  <2>3. \A d \in Conn : d = t => f.at \in {"off", "failed"} \/ Usable(d)
    BY <1>2
  <2> QED BY <2>1, <2>2, <2>3, <1>1, <1>2, Moves
<1>8. Bounded'
  <2>1. ASSUME NEW d \in Conn PROVE
          /\ list'[d] \in 1..(events' + 1) /\ owed'[d] <= list'[d]
          /\ \A id \in asked'[d] : id <= ids'[d]
          /\ \A i \in DOMAIN lines'[d] : lines'[d][i].list <= list'[d] /\ lines'[d][i].id <= ids'[d]
    <3>1. list'[d] \in 1..(events' + 1)
      BY <1>1, ServerAssumption DEF Kept, Bounded, ToolTypeOK
    <3>2. owed'[d] <= list'[d] BY <1>1, <1>5 DEF Kept, Bounded
    <3>3. \A id \in asked'[d] : id <= ids'[d]
      <4>1. ids[d] \in Nat /\ ids'[d] \in Nat /\ asked[d] \subseteq Nat
        BY DEF Kept, ToolTypeOK, Id
      <4> QED BY <4>1 DEF Kept, Bounded
    <3>4. \A i \in DOMAIN lines'[d] : lines'[d][i].list <= list'[d] /\ lines'[d][i].id <= ids'[d]
      <4>1. ids[d] \in Nat /\ ids'[d] \in Nat BY DEF Kept, ToolTypeOK
      <4> QED BY <4>1, LineTyped DEF Kept, Bounded
    <3> QED BY <3>1, <3>2, <3>3, <3>4
  <2>2. ASSUME NEW u \in ToolThread, thread'[u].at # "off" PROVE
          /\ thread'[u].conn \in Conn
          /\ thread'[u].news <= list'[thread'[u].conn] /\ thread'[u].got <= list'[thread'[u].conn]
          /\ u \in Conn => thread'[u].at # "look"
    BY <2>2, <1>1, <1>2, <1>3 DEF Kept, Bounded
  <2> QED BY <2>1, <2>2, <1>1 DEF Kept, Bounded
<1>9. InOrder' BY <1>1 DEF Kept, InOrder
<1>10. ListsAccounted'
  <2> SUFFICES ASSUME NEW d \in Conn, Usable(d)' PROVE Accounted(d)'
    BY DEF ListsAccounted
  <2>1. Accounted(d) BY <1>7 DEF Kept, ListsAccounted
  <2>2. CASE Fetches(t, d)
    <3>1. d = c BY <2>2 DEF Fetches
    <3>2. t # d
      <4> SUFFICES ASSUME t = d PROVE FALSE OBVIOUS
      <4>1. client # d BY DEF Kept, Entered, On
      <4> QED BY <4>1, <1>1, <1>2, <1>3 DEF Usable
    <3>3. n = list[d] BY <2>2, <3>2 DEF Fetches
    <3>4. owed'[d] = list[d] BY <3>1, <3>3, <1>5
    <3> QED BY <3>4 DEF Accounted
  <2>3. CASE owed[d] = list[d]
    <3>1. owed'[d] = list[d] BY <2>3, <1>5
    <3> QED BY <3>1 DEF Accounted
  <2>4. CASE ~Fetches(t, d) /\ owed[d] # list[d]
    BY <2>1, <2>4, <1>1, <1>7 DEF Accounted, Noted
  <2> QED BY <2>2, <2>3, <2>4
<1> QED BY <1>6, <1>7, <1>8, <1>9, <1>10 DEF Kept

LEMMA GetsNoneKept == ASSUME Kept, NEW t \in ToolThread, GetsNone(t) PROVE Kept'
<1>1. /\ thread[t].at = "got" /\ Fails(t)
      /\ UNCHANGED <<entry, made, removed, runs, list, asked, lines, pending, changed, copy, ids,
                     toolOps, events>>
  BY DEF GetsNone, server
<1>2. /\ pending' \in [Conn -> SUBSET Id] /\ ids' \in [Conn -> Nat]
      /\ events \in 0..MaxEvents /\ \A c \in Conn : ids[c] \in Nat
  BY <1>1 DEF Kept, ToolTypeOK
<1>3. /\ \A c \in Conn : ids[c] <= ids'[c]
      /\ events' \in 0..MaxEvents /\ events <= events'
  BY <1>1, <1>2
<1> QED BY <1>1, <1>2, <1>3, FailsKept

LEMMA TimesOutKept == ASSUME Kept, NEW t \in ToolThread, TimesOut(t) PROVE Kept'
<1>1. /\ thread[t].at = "wait" /\ Fails(t) /\ events < MaxEvents /\ events' = events + 1
      /\ pending' = [pending EXCEPT ![thread[t].conn] = @ \ {thread[t].id}]
      /\ UNCHANGED <<entry, made, removed, runs, list, asked, lines, changed, copy, ids, toolOps>>
  BY DEF TimesOut, Event, server
<1>2. /\ pending' \in [Conn -> SUBSET Id] /\ ids' \in [Conn -> Nat]
      /\ \A c \in Conn : ids[c] \in Nat
  BY <1>1 DEF Kept, ToolTypeOK
<1>3. /\ \A c \in Conn : ids[c] <= ids'[c]
      /\ events' \in 0..MaxEvents /\ events <= events'
  BY <1>1, <1>2, ServerAssumption DEF Kept, ToolTypeOK
<1> QED BY <1>1, <1>2, <1>3, FailsKept

LEMMA RequestsKept == ASSUME Kept, NEW t \in ToolThread, Requests(t) PROVE Kept'
<1> DEFINE c == thread[t].conn
           id == ids[c] + 1
           f == [At(t, "wait") EXCEPT !.id = id]
<1>1. /\ thread[t].at = "ask" /\ c \in Conn
      /\ ids' = [ids EXCEPT ![c] = id]
      /\ UNCHANGED <<set, enabled, state, generation, client, made, removed, runs, list, lines,
                     changed, copy, toolOps, events>>
  BY DEF Requests, Kept, Bounded, entry
<1>2. /\ ids' \in [Conn -> Nat] /\ id \in Id /\ ids'[c] = id /\ ids[c] \in Nat
      /\ \A d \in Conn : d # c => ids'[d] = ids[d]
      /\ \A d \in Conn : ids[d] <= ids'[d] /\ ids[d] \in Nat
  <2>1. ids \in [Conn -> Nat] BY DEF Kept, ToolTypeOK
  <2>2. \A d \in Conn : ids[d] \in Nat BY <2>1
  <2>3. id \in Nat /\ id \in Id /\ ids[c] <= id BY <1>1, <2>2 DEF Id
  <2> HIDE DEF id
  <2>4. ids' \in [Conn -> Nat] /\ ids'[c] = id /\ \A d \in Conn : d # c => ids'[d] = ids[d]
    BY <1>1, <2>1, <2>3
  <2> QED BY <1>1, <2>2, <2>3, <2>4
<1>3. CASE ~runs[c]
  <2>1. Fails(t) /\ UNCHANGED <<pending, asked>> BY <1>3 DEF Requests
  <2>2. pending' \in [Conn -> SUBSET Id] /\ events' \in 0..MaxEvents /\ events <= events'
    BY <2>1, <1>1, ServerAssumption DEF Kept, ToolTypeOK
  <2> QED BY <2>1, <2>2, <1>1, <1>2, FailsKept DEF entry
<1>4. CASE runs[c]
  <2>1. /\ Goes(t, f)
        /\ pending' = [pending EXCEPT ![c] = @ \cup {id}]
        /\ asked' = [asked EXCEPT ![c] = @ \cup {id}]
        /\ owed' = owed
    BY <1>4 DEF Requests
  <2>2. /\ f \in Place /\ f.at = "wait" /\ f.conn = c /\ f.id = id /\ f.news = thread[t].news
        /\ f.got = thread[t].got
    BY <1>2, AtPlace DEF Kept, Place, Id
  <2> HIDE DEF f
  <2>3. /\ thread' \in [ToolThread -> Place] /\ thread'[t] = f
        /\ \A u \in ToolThread : u # t => thread'[u] = thread[u]
    BY <2>1, <2>2, ThreadGoes DEF Kept
  <2>4. ToolTypeOK'
    <3>1. pending' \in [Conn -> SUBSET Id] /\ asked' \in [Conn -> SUBSET Id]
      BY <2>1, <1>2 DEF Kept, ToolTypeOK
    <3> QED BY <3>1, <2>1, <2>3, <1>1, <1>2 DEF Kept, ToolTypeOK, Place
  <2>5. /\ Entered'
        /\ \A d \in Conn : Usable(d)' => Usable(d)
        /\ \A u \in ToolThread, d \in Conn : u # t /\ Fetches(u, d) => Fetches(u, d)'
    <3>1. UNCHANGED <<entry, made, removed, list, lines, toolOps>> BY <1>1 DEF entry
    <3>2. \A d \in Conn : d = t => Usable(d) BY <1>1 DEF Usable
    <3> QED BY <3>1, <3>2, <2>1, <2>2, <1>1, Moves
  <2>6. Bounded'
    <3>1. ASSUME NEW d \in Conn PROVE
            /\ \A k \in asked'[d] : k <= ids'[d]
            /\ \A i \in DOMAIN lines'[d] : lines'[d][i].list <= list'[d] /\ lines'[d][i].id <= ids'[d]
      <4>1. asked[d] \subseteq Nat BY DEF Kept, ToolTypeOK, Id
      <4>2. asked'[d] \subseteq asked[d] \cup (IF d = c THEN {id} ELSE {})
        BY <2>1 DEF Kept, ToolTypeOK
      <4>3. \A k \in asked'[d] : k <= ids'[d]
        BY <4>1, <4>2, <1>2 DEF Kept, Bounded
      <4>4. \A i \in DOMAIN lines'[d] : lines'[d][i].list <= list'[d] /\ lines'[d][i].id <= ids'[d]
        BY <1>1, <1>2, LineTyped DEF Kept, Bounded
      <4> QED BY <4>3, <4>4
    <3>2. ASSUME NEW u \in ToolThread, thread'[u].at # "off" PROVE
            /\ thread'[u].conn \in Conn
            /\ thread'[u].news <= list'[thread'[u].conn] /\ thread'[u].got <= list'[thread'[u].conn]
            /\ u \in Conn => thread'[u].at # "look"
      BY <3>2, <2>2, <2>3, <1>1 DEF Kept, Bounded
    <3> QED BY <3>1, <3>2, <2>1, <1>1 DEF Kept, Bounded
  <2>7. InOrder' BY <1>1 DEF Kept, InOrder
  <2>8. ListsAccounted'
    <3> SUFFICES ASSUME NEW d \in Conn, Usable(d)' PROVE Accounted(d)'
      BY DEF ListsAccounted
    <3>1. Accounted(d) BY <2>5 DEF Kept, ListsAccounted
    <3>2. CASE Fetches(t, d)
      <4>1. d = c /\ (thread[t].news = list[d] \/ t = d) BY <3>2 DEF Fetches
      <4>2. \A i \in DOMAIN lines[d] : lines[d][i].id # id
        BY <4>1, <1>2, LineTyped DEF Kept, Bounded
      <4>3. \A i \in DOMAIN lines'[d] : lines'[d][i].id # id BY <4>2, <1>1
      <4>4. Fetches(t, d)'
        BY <4>1, <4>3, <2>2, <2>3, <1>1 DEF Fetches, Awaits
      <4> QED BY <4>4 DEF Accounted
    <3>3. CASE ~Fetches(t, d)
      BY <3>1, <3>3, <2>1, <2>5, <1>1 DEF Accounted, Noted
    <3> QED BY <3>2, <3>3
  <2> QED BY <2>4, <2>5, <2>6, <2>7, <2>8 DEF Kept
<1> QED BY <1>3, <1>4

LEMMA KeepsListKept == ASSUME Kept, NEW t \in ToolThread, KeepsList(t) PROVE Kept'
<1> DEFINE c == thread[t].conn
           v == thread[t].got
           f == IF t \in Conn THEN At(t, "done") ELSE Off
           o == IF v < copy[c] /\ copy[c] > owed[c] THEN copy[c] ELSE owed[c]
<1>1. /\ thread[t].at = "got" /\ v # 0 /\ c \in Conn /\ Goes(t, f)
      /\ copy' = [copy EXCEPT ![c] = v] /\ owed' = [owed EXCEPT ![c] = o]
      /\ UNCHANGED <<set, enabled, state, generation, client, made, removed, runs, list, asked,
                     lines, pending, changed, ids, toolOps, events>>
  BY DEF KeepsList, Kept, Bounded, entry, server
<1>2. /\ f \in Place /\ f.at \in {"done", "off"} /\ (t \in Conn => f.conn = c)
      /\ f.at # "off" => f.conn = c /\ f.news = thread[t].news /\ f.got = v
  BY AtPlace, OffPlace DEF Kept
<1> HIDE DEF f
<1>3. /\ thread' \in [ToolThread -> Place] /\ thread'[t] = f
      /\ \A u \in ToolThread : u # t => thread'[u] = thread[u]
  BY <1>1, <1>2, ThreadGoes DEF Kept
<1>4. v \in List /\ owed \in [Conn -> List] /\ copy \in [Conn -> List]
  BY DEF Kept, ToolTypeOK
<1>5. /\ v \in Nat /\ v <= list[c]
      /\ \A d \in Conn : /\ owed[d] \in Nat /\ list[d] \in Nat /\ copy[d] \in Nat
                         /\ owed[d] <= list[d] /\ copy[d] <= list[d]
  <2>1. v \in Nat /\ \A d \in Conn : owed[d] \in Nat /\ list[d] \in Nat /\ copy[d] \in Nat
    BY <1>4 DEF List, Kept, ToolTypeOK
  <2> QED BY <2>1, <1>1 DEF Kept, Bounded
<1>6. o \in List BY <1>1, <1>4
<1>7. /\ owed' \in [Conn -> List] /\ copy' \in [Conn -> List]
      /\ owed'[c] = o /\ copy'[c] = v
      /\ \A d \in Conn : d # c => owed'[d] = owed[d] /\ copy'[d] = copy[d]
  BY <1>1, <1>4, <1>6
<1>8. ToolTypeOK' BY <1>1, <1>3, <1>7 DEF Kept, ToolTypeOK, Place
<1>9. /\ Entered'
      /\ \A d \in Conn : Usable(d)' => Usable(d)
      /\ \A u \in ToolThread, d \in Conn : u # t /\ Fetches(u, d) => Fetches(u, d)'
  <2>1. UNCHANGED <<entry, made, removed, list, lines, toolOps>> BY <1>1 DEF entry
  <2>2. \A d \in Conn : d = t => Usable(d) BY <1>1 DEF Usable
  <2> QED BY <2>1, <2>2, <1>1, <1>2, Moves
<1>10. Bounded'
  <2>1. ASSUME NEW d \in Conn PROVE copy'[d] <= list'[d] /\ owed'[d] <= list'[d]
    BY <1>1, <1>5, <1>7
  <2>2. ASSUME NEW u \in ToolThread, thread'[u].at # "off" PROVE
          /\ thread'[u].conn \in Conn
          /\ thread'[u].news <= list'[thread'[u].conn] /\ thread'[u].got <= list'[thread'[u].conn]
          /\ u \in Conn => thread'[u].at # "look"
    BY <2>2, <1>1, <1>2, <1>3 DEF Kept, Bounded
  <2> QED BY <2>1, <2>2, <1>1 DEF Kept, Bounded
<1>11. InOrder' BY <1>1 DEF Kept, InOrder
<1>12. ListsAccounted'
  <2> SUFFICES ASSUME NEW d \in Conn, Usable(d)' PROVE Accounted(d)'
    BY DEF ListsAccounted
  <2>1. Accounted(d) BY <1>9 DEF Kept, ListsAccounted
  <2>2. CASE Fetches(t, d)
    <3>1. d = c /\ v = list[d] BY <2>2, <1>1 DEF Fetches
    <3> QED BY <3>1, <1>1, <1>7 DEF Accounted
  <2>3. CASE list[d] \in {copy[d], owed[d]}
    <3>1. list[d] \in {copy'[d], owed'[d]} BY <2>3, <1>5, <1>7
    <3> QED BY <3>1, <1>1 DEF Accounted
  <2>4. CASE ~Fetches(t, d) /\ list[d] \notin {copy[d], owed[d]}
    BY <2>1, <2>4, <1>1, <1>9 DEF Accounted, Noted
  <2> QED BY <2>2, <2>3, <2>4
<1> QED BY <1>8, <1>9, <1>10, <1>11, <1>12 DEF Kept

-----------------------------------------------------------------------------
(* The server, and the thread that reads. *)

LEMMA LineAppended ==
    ASSUME ToolTypeOK, NEW c \in Conn, NEW l \in Written, Writes(c, l)
    PROVE  /\ lines' \in [Conn -> Seq(Written)]
           /\ \A d \in Conn : d # c => lines'[d] = lines[d]
           /\ \A i \in DOMAIN lines[c] : i \in DOMAIN lines'[c] /\ lines'[c][i] = lines[c][i]
           /\ \A i \in DOMAIN lines'[c] : i \notin DOMAIN lines[c] =>
                lines'[c][i] = l /\ \A j \in DOMAIN lines'[c] : j <= i
           /\ \E i \in DOMAIN lines'[c] : lines'[c][i] = l
<1> DEFINE q == lines[c]
           k == Len(q) + 1
<1>1. /\ lines \in [Conn -> Seq(Written)] /\ q \in Seq(Written)
      /\ lines' = [lines EXCEPT ![c] = Append(q, l)]
  BY LineTyped DEF ToolTypeOK, Writes, Written
<1>2. /\ Append(q, l) \in Seq(Written) /\ Len(q) \in Nat
      /\ DOMAIN q = 1..Len(q) /\ DOMAIN Append(q, l) = 1..k
      /\ Append(q, l)[k] = l /\ \A i \in 1..Len(q) : Append(q, l)[i] = q[i]
  BY <1>1
<1>3. /\ lines'[c] = Append(q, l) /\ lines' \in [Conn -> Seq(Written)]
      /\ \A d \in Conn : d # c => lines'[d] = lines[d]
  BY <1>1, <1>2
<1> HIDE DEF q
<1>4. \A i \in 1..k : i \notin 1..Len(q) => i = k BY <1>2
<1>5. k \in 1..k /\ \A i \in 1..Len(q) : i \in 1..k BY <1>2
<1> QED BY <1>2, <1>3, <1>4, <1>5 DEF q

LEMMA LineTaken ==
    ASSUME ToolTypeOK, NEW c \in Conn, lines[c] # <<>>, lines' = [lines EXCEPT ![c] = Tail(@)]
    PROVE  /\ lines' \in [Conn -> Seq(Written)]
           /\ \A d \in Conn : d # c => lines'[d] = lines[d]
           /\ 1 \in DOMAIN lines[c] /\ Head(lines[c]) = lines[c][1]
           /\ \A i \in DOMAIN lines'[c] :
                i \in Nat /\ i >= 1 /\ i + 1 \in DOMAIN lines[c] /\ lines'[c][i] = lines[c][i + 1]
           /\ \A j \in DOMAIN lines[c] : j # 1 =>
                \E i \in DOMAIN lines'[c] : lines'[c][i] = lines[c][j]
<1> DEFINE q == lines[c]
<1>1. /\ lines \in [Conn -> Seq(Written)] /\ q \in Seq(Written) /\ q # <<>>
      /\ lines' = [lines EXCEPT ![c] = Tail(q)]
  BY LineTyped DEF ToolTypeOK, Written
<1>2. /\ Tail(q) \in Seq(Written) /\ Len(q) \in Nat /\ Len(q) >= 1 /\ Len(Tail(q)) = Len(q) - 1
      /\ DOMAIN q = 1..Len(q) /\ DOMAIN Tail(q) = 1..(Len(q) - 1) /\ Head(q) = q[1]
      /\ \A i \in 1..(Len(q) - 1) : Tail(q)[i] = q[i + 1]
  BY <1>1
<1>3. /\ lines'[c] = Tail(q) /\ lines' \in [Conn -> Seq(Written)]
      /\ \A d \in Conn : d # c => lines'[d] = lines[d]
  BY <1>1, <1>2
<1> HIDE DEF q
<1>4. \A j \in 1..Len(q) : j # 1 => j - 1 \in 1..(Len(q) - 1) /\ Tail(q)[j - 1] = q[j]
  BY <1>2
<1>5. \A i \in 1..(Len(q) - 1) : i \in Nat /\ i >= 1 /\ i + 1 \in 1..Len(q) BY <1>2
<1>6. DOMAIN lines'[c] = 1..(Len(q) - 1) /\ DOMAIN lines[c] = 1..Len(q) BY <1>2, <1>3 DEF q
<1>7. ASSUME NEW j \in DOMAIN lines[c], j # 1
      PROVE  \E i \in DOMAIN lines'[c] : lines'[c][i] = lines[c][j]
  <2>1. j - 1 \in DOMAIN lines'[c] /\ lines'[c][j - 1] = q[j] BY <1>3, <1>4, <1>6, <1>7
  <2> QED BY <2>1 DEF q
<1>8. \A i \in DOMAIN lines'[c] : lines'[c][i] = lines[c][i + 1] BY <1>2, <1>3, <1>6 DEF q
<1>9. 1 \in DOMAIN lines[c] /\ Head(lines[c]) = lines[c][1] BY <1>2, <1>6 DEF q
<1> QED BY <1>3, <1>5, <1>6, <1>7, <1>8, <1>9

LEMMA DiesKept == ASSUME Kept, NEW c \in Conn, ServerDies(c) PROVE Kept'
<1>1. /\ runs' = [runs EXCEPT ![c] = FALSE] /\ asked' = [asked EXCEPT ![c] = {}]
      /\ events < MaxEvents /\ events' = events + 1
      /\ UNCHANGED <<set, enabled, state, generation, client, made, removed, list, lines,
                     pending, changed, copy, ids, owed, thread, toolOps>>
  BY DEF ServerDies, Event, entry, peer
<1>2. /\ runs' \in [Conn -> BOOLEAN] /\ asked' \in [Conn -> SUBSET Id]
      /\ \A d \in Conn : asked'[d] \subseteq asked[d]
      /\ events \in Nat /\ events' \in 0..MaxEvents
  BY <1>1, ServerAssumption DEF Kept, ToolTypeOK
<1>3. ToolTypeOK' BY <1>1, <1>2 DEF Kept, ToolTypeOK
<1>4. Entered' BY <1>1 DEF Kept, Entered, On
<1>5. Bounded'
  <2>1. ASSUME NEW d \in Conn PROVE list'[d] \in 1..(events' + 1) /\ \A id \in asked'[d] : id <= ids'[d]
    BY <1>1, <1>2 DEF Kept, Bounded
  <2> QED BY <2>1, <1>1 DEF Kept, Bounded
<1>6. InOrder' BY <1>1 DEF Kept, InOrder
<1>7. ListsAccounted'
  BY <1>1, FetchStays DEF Kept, ListsAccounted, Usable, Accounted, Noted
<1> QED BY <1>3, <1>4, <1>5, <1>6, <1>7 DEF Kept

LEMMA AnswersKept == ASSUME Kept, NEW c \in Conn, NEW id \in asked[c], Answers(c, id) PROVE Kept'
<1>1. /\ asked' = [asked EXCEPT ![c] = @ \ {id}] /\ c \in Conn
      /\ UNCHANGED <<set, enabled, state, generation, client, made, removed, runs, list,
                     pending, changed, copy, ids, owed, thread, toolOps>>
  BY DEF Answers, entry, peer
<1>2. PICK v \in {0, list[c]} :
        /\ Writes(c, [kind |-> "answer", id |-> id, list |-> v])
        /\ events' = events \/ (events < MaxEvents /\ events' = events + 1)
  BY DEF Answers, Event
<1> DEFINE l == [kind |-> "answer", id |-> id, list |-> v]
<1>3. /\ list \in [Conn -> List] /\ list[c] \in List /\ 0 \in List /\ id \in Nat
      /\ \A d \in Conn : list[d] \in Nat /\ ids[d] \in Nat
  BY ServerAssumption DEF Kept, ToolTypeOK, List, Id
<1>4. l \in Written /\ l.kind = "answer" /\ l.id = id /\ l.list = v
  BY <1>3 DEF Written
<1> HIDE DEF l
<1>5. /\ lines' \in [Conn -> Seq(Written)]
      /\ \A d \in Conn : d # c => lines'[d] = lines[d]
      /\ \A i \in DOMAIN lines[c] : i \in DOMAIN lines'[c] /\ lines'[c][i] = lines[c][i]
      /\ \A i \in DOMAIN lines'[c] : i \notin DOMAIN lines[c] => lines'[c][i] = l
  BY <1>2, <1>4, LineAppended DEF Kept, l
<1>6. /\ asked' \in [Conn -> SUBSET Id] /\ \A d \in Conn : asked'[d] \subseteq asked[d]
      /\ events \in Nat /\ events' \in 0..MaxEvents /\ events <= events'
  BY <1>1, <1>2, ServerAssumption DEF Kept, ToolTypeOK
<1>7. ToolTypeOK' BY <1>1, <1>5, <1>6 DEF Kept, ToolTypeOK, Written
<1>8. Entered' BY <1>1 DEF Kept, Entered, On
<1>9. Bounded'
  <2>1. ASSUME NEW d \in Conn PROVE
          /\ list'[d] \in 1..(events' + 1)
          /\ \A k \in asked'[d] : k <= ids'[d]
          /\ \A i \in DOMAIN lines'[d] : lines'[d][i].list <= list'[d] /\ lines'[d][i].id <= ids'[d]
    <3>1. list'[d] \in 1..(events' + 1) BY <1>1, <1>6 DEF Kept, Bounded
    <3>2. \A k \in asked'[d] : k <= ids'[d] BY <1>1, <1>6 DEF Kept, Bounded
    <3>3. \A i \in DOMAIN lines[d] : lines[d][i].list <= list[d] /\ lines[d][i].id <= ids[d]
      BY DEF Kept, Bounded
    <3>4. l.list <= list[c] /\ l.id <= ids[c] BY <1>3, <1>4 DEF Kept, Bounded
    <3>5. ASSUME NEW i \in DOMAIN lines'[d]
          PROVE  lines'[d][i].list <= list'[d] /\ lines'[d][i].id <= ids'[d]
      <4>1. CASE d # c BY <4>1, <3>3, <1>1, <1>5
      <4>2. CASE d = c /\ i \in DOMAIN lines[c] BY <4>2, <3>3, <1>1, <1>5
      <4>3. CASE d = c /\ i \notin DOMAIN lines[c]
        <5>1. lines'[d][i] = l BY <4>3, <1>5
        <5> QED BY <5>1, <4>3, <3>4, <1>1
      <4> QED BY <4>1, <4>2, <4>3
    <3> QED BY <3>1, <3>2, <3>5
  <2> QED BY <2>1, <1>1 DEF Kept, Bounded
<1>10. InOrder'
  <2> SUFFICES ASSUME NEW d \in Conn, NEW i \in DOMAIN lines'[d], lines'[d][i].kind = "changed"
               PROVE  /\ changed'[d] < lines'[d][i].list
                      /\ \A j \in DOMAIN lines'[d] : i < j /\ lines'[d][j].kind = "changed" =>
                            lines'[d][i].list < lines'[d][j].list
    BY DEF InOrder
  <2>1. \A j \in DOMAIN lines'[d] : lines'[d][j].kind = "changed" =>
            j \in DOMAIN lines[d] /\ lines'[d][j] = lines[d][j]
    BY <1>4, <1>5
  <2>2. i \in DOMAIN lines[d] /\ lines'[d][i] = lines[d][i] /\ lines[d][i].kind = "changed"
    BY <2>1
  <2>3. /\ changed[d] < lines[d][i].list
        /\ \A j \in DOMAIN lines[d] : i < j /\ lines[d][j].kind = "changed" =>
              lines[d][i].list < lines[d][j].list
    BY <2>2 DEF Kept, InOrder
  <2> QED BY <2>1, <2>2, <2>3, <1>1
<1>11. ListsAccounted'
  <2> SUFFICES ASSUME NEW d \in Conn, Usable(d) PROVE Accounted(d)'
    BY <1>1 DEF ListsAccounted, Usable
  <2>1. Accounted(d) BY DEF Kept, ListsAccounted
  <2>2. Noted(d) => Noted(d)' BY <1>1, <1>5 DEF Noted
  <2>3. \A k : Awaits(d, k) => Awaits(d, k)' BY <1>1, <1>4, <1>5 DEF Awaits
  <2>4. \A u \in ToolThread : Fetches(u, d) => Fetches(u, d)' BY <2>3, <1>1 DEF Fetches
  <2> QED BY <2>1, <2>2, <2>4, <1>1 DEF Accounted
<1> QED BY <1>7, <1>8, <1>9, <1>10, <1>11 DEF Kept

LEMMA ChangesKept == ASSUME Kept, NEW c \in Conn, Changes(c) PROVE Kept'
<1> DEFINE n == list[c] + 1
           l == [kind |-> "changed", id |-> 0, list |-> n]
<1>1. /\ list' = [list EXCEPT ![c] = n] /\ Writes(c, l)
      /\ events < MaxEvents /\ events' = events + 1
      /\ UNCHANGED <<set, enabled, state, generation, client, made, removed, runs, asked,
                     pending, changed, copy, ids, owed, thread, toolOps>>
  BY DEF Changes, Event, entry, peer
<1>2. /\ events \in Nat /\ events' \in 0..MaxEvents /\ list \in [Conn -> List]
      /\ \A d \in Conn : /\ list[d] \in Nat /\ ids[d] \in Nat /\ changed[d] \in Nat
                         /\ copy[d] \in Nat /\ owed[d] \in Nat
                         /\ list[d] \in 1..(events + 1)
  <2>1. events \in Nat /\ events' \in 0..MaxEvents BY <1>1, ServerAssumption DEF Kept, ToolTypeOK
  <2> QED BY <2>1 DEF Kept, ToolTypeOK, Bounded, List
<1>3. n \in List /\ n \in Nat BY <1>1, <1>2, ServerAssumption DEF List
<1>4. /\ list' \in [Conn -> List] /\ list'[c] = n
      /\ \A d \in Conn : d # c => list'[d] = list[d]
      /\ \A d \in Conn : list[d] <= list'[d] /\ list'[d] \in Nat /\ list'[d] \in 1..(events' + 1)
  BY <1>1, <1>2, <1>3
<1>5. l \in Written /\ l.kind = "changed" /\ l.id = 0 /\ l.list = n BY <1>3 DEF Written
<1> HIDE DEF l
<1>6. /\ lines' \in [Conn -> Seq(Written)]
      /\ \A d \in Conn : d # c => lines'[d] = lines[d]
      /\ \A i \in DOMAIN lines[c] : i \in DOMAIN lines'[c] /\ lines'[c][i] = lines[c][i]
      /\ \A i \in DOMAIN lines'[c] : i \notin DOMAIN lines[c] =>
            lines'[c][i] = l /\ \A j \in DOMAIN lines'[c] : j <= i
      /\ \E i \in DOMAIN lines'[c] : lines'[c][i] = l
  BY <1>1, <1>5, LineAppended DEF Kept
<1>7. ToolTypeOK' BY <1>1, <1>2, <1>4, <1>6 DEF Kept, ToolTypeOK, Written
<1>8. Entered' BY <1>1 DEF Kept, Entered, On
<1>9. Bounded'
  <2>1. ASSUME NEW d \in Conn PROVE
          /\ copy'[d] <= list'[d] /\ owed'[d] <= list'[d] /\ changed'[d] <= list'[d]
          /\ \A i \in DOMAIN lines'[d] : lines'[d][i].list <= list'[d] /\ lines'[d][i].id <= ids'[d]
    <3>1. copy'[d] <= list'[d] /\ owed'[d] <= list'[d] /\ changed'[d] <= list'[d]
      <4>1. copy[d] <= list[d] /\ owed[d] <= list[d] /\ changed[d] <= list[d]
        BY DEF Kept, Bounded
      <4> QED BY <4>1, <1>1, <1>2, <1>4
    <3>2. ASSUME NEW i \in DOMAIN lines[d]
          PROVE  lines[d][i].list <= list'[d] /\ lines[d][i].id <= ids'[d]
      <4>1. lines[d][i].list <= list[d] /\ lines[d][i].id <= ids[d] BY DEF Kept, Bounded
      <4>2. lines[d][i].list \in Nat BY LineTyped DEF Kept
      <4> QED BY <4>1, <4>2, <1>1, <1>2, <1>4
    <3>3. ASSUME NEW i \in DOMAIN lines'[d]
          PROVE  lines'[d][i].list <= list'[d] /\ lines'[d][i].id <= ids'[d]
      <4>1. CASE d # c BY <4>1, <3>2, <1>6
      <4>2. CASE d = c /\ i \in DOMAIN lines[c] BY <4>2, <3>2, <1>6
      <4>3. CASE d = c /\ i \notin DOMAIN lines[c]
        <5>1. lines'[d][i] = l BY <4>3, <1>6
        <5> QED BY <5>1, <4>3, <1>1, <1>2, <1>3, <1>4, <1>5
      <4> QED BY <4>1, <4>2, <4>3
    <3> QED BY <3>1, <3>3
  <2>2. ASSUME NEW u \in ToolThread, thread'[u].at # "off" PROVE
          /\ thread'[u].conn \in Conn
          /\ thread'[u].news <= list'[thread'[u].conn] /\ thread'[u].got <= list'[thread'[u].conn]
          /\ u \in Conn => thread'[u].at # "look"
    <3>1. /\ thread[u].conn \in Conn /\ thread[u].news \in Nat /\ thread[u].got \in Nat
          /\ thread[u].news <= list[thread[u].conn] /\ thread[u].got <= list[thread[u].conn]
          /\ u \in Conn => thread[u].at # "look"
      <4>1. thread[u] \in Place BY DEF Kept, ToolTypeOK, Place
      <4>2. thread[u].news \in Nat /\ thread[u].got \in Nat BY <4>1 DEF Place, List
      <4> QED BY <2>2, <4>2, <1>1 DEF Kept, Bounded
    <3> QED BY <3>1, <1>1, <1>2, <1>4
  <2> QED BY <2>1, <2>2, <1>1, <1>4 DEF Kept, Bounded
<1>10. InOrder'
  <2> SUFFICES ASSUME NEW d \in Conn, NEW i \in DOMAIN lines'[d], lines'[d][i].kind = "changed"
               PROVE  /\ changed'[d] < lines'[d][i].list
                      /\ \A j \in DOMAIN lines'[d] : i < j /\ lines'[d][j].kind = "changed" =>
                            lines'[d][i].list < lines'[d][j].list
    BY DEF InOrder
  <2>1. CASE d # c BY <2>1, <1>1, <1>6 DEF Kept, InOrder
  <2>2. CASE d = c /\ i \in DOMAIN lines[c]
    <3>1. lines'[d][i] = lines[c][i] /\ lines[c][i].list \in Nat /\ lines[c][i].list <= list[c]
      BY <2>2, <1>6, LineTyped DEF Kept, Bounded
    <3>2. /\ changed[c] < lines[c][i].list
          /\ \A j \in DOMAIN lines[c] : i < j /\ lines[c][j].kind = "changed" =>
                lines[c][i].list < lines[c][j].list
      BY <2>2, <3>1 DEF Kept, InOrder
    <3>3. lines[c][i].list < l.list BY <3>1, <1>2, <1>5
    <3> QED BY <2>2, <3>1, <3>2, <3>3, <1>1, <1>6
  <2>3. CASE d = c /\ i \notin DOMAIN lines[c]
    <3>1. lines'[d][i] = l /\ \A j \in DOMAIN lines'[c] : j <= i BY <2>3, <1>6
    <3>2. changed'[d] < l.list BY <2>3, <1>1, <1>2, <1>5 DEF Kept, Bounded
    <3>3. \A j \in DOMAIN lines'[d] : i \in Nat /\ j \in Nat
      BY <2>3, <1>6
    <3> QED BY <2>3, <3>1, <3>2, <3>3
  <2> QED BY <2>1, <2>2, <2>3
<1>11. ListsAccounted'
  <2> SUFFICES ASSUME NEW d \in Conn, Usable(d) PROVE Accounted(d)'
    BY <1>1 DEF ListsAccounted, Usable
  <2>1. CASE d = c
    <3>1. Noted(c)' BY <1>4, <1>5, <1>6 DEF Noted
    <3> QED BY <2>1, <3>1 DEF Accounted
  <2>2. CASE d # c
    <3>1. Accounted(d) BY DEF Kept, ListsAccounted
    <3>2. list'[d] = list[d] /\ lines'[d] = lines[d] BY <2>2, <1>4, <1>6
    <3>3. \A u \in ToolThread : Fetches(u, d) => Fetches(u, d)' BY <3>2, <1>1, FetchStays
    <3> QED BY <3>1, <3>2, <3>3, <1>1 DEF Accounted, Noted
  <2> QED BY <2>1, <2>2
<1> QED BY <1>7, <1>8, <1>9, <1>10, <1>11 DEF Kept

\* Requests answered with v: each thread stands, or waited and got it.
LEMMA AnsweredMove ==
    ASSUME Kept, NEW c \in Conn, NEW S, NEW v \in List, v <= list[c],
           thread' = Answered(c, S, v),
           UNCHANGED <<entry, made, removed, toolOps, list>>
    PROVE  /\ thread' \in [ToolThread -> Place]
           /\ \A u \in ToolThread :
                \/ thread'[u] = thread[u]
                \/ /\ thread[u].at = "wait" /\ thread[u].conn = c /\ thread[u].id \in S
                   /\ thread'[u].at = "got" /\ thread'[u].conn = c /\ thread'[u].got = v
                   /\ thread'[u].news = thread[u].news
           /\ Entered'
           /\ \A d \in Conn : Usable(d)' => Usable(d)
           /\ \A u \in ToolThread : thread'[u].at # "off" =>
                /\ thread'[u].conn \in Conn
                /\ thread'[u].news <= list'[thread'[u].conn] /\ thread'[u].got <= list'[thread'[u].conn]
                /\ u \in Conn => thread'[u].at # "look"
<1> DEFINE e(u) == [At(u, "got") EXCEPT !.got = v]
           hit(u) == thread[u].at = "wait" /\ thread[u].conn = c /\ thread[u].id \in S
<1>1. ASSUME NEW u \in ToolThread
      PROVE  /\ e(u) \in Place /\ e(u).at = "got" /\ e(u).conn = thread[u].conn
             /\ e(u).news = thread[u].news /\ e(u).got = v
  BY AtPlace DEF Kept, Place
<1> HIDE DEF e
<1>2. thread' = [u \in ToolThread |-> IF hit(u) THEN e(u) ELSE thread[u]] BY DEF Answered, e
<1>3. \A u \in ToolThread : thread[u] \in Place BY DEF Kept, ToolTypeOK, Place
<1>4. thread' \in [ToolThread -> Place] BY <1>1, <1>2, <1>3
<1>5. \A u \in ToolThread : thread'[u] = thread[u] \/ (hit(u) /\ thread'[u] = e(u)) BY <1>2
<1>6. Entered'
  <2>1. \A d \in Conn : On(d)' => On(d) /\ thread'[d].conn = thread[d].conn
    BY <1>1, <1>5, Threads DEF On
  <2> QED BY <2>1, EnteredStays DEF Kept
<1>7. \A d \in Conn : Usable(d)' => Usable(d) BY <1>5, Threads DEF Usable, entry
<1>8. ASSUME NEW u \in ToolThread, thread'[u].at # "off" PROVE
        /\ thread'[u].conn \in Conn
        /\ thread'[u].news <= list'[thread'[u].conn] /\ thread'[u].got <= list'[thread'[u].conn]
        /\ u \in Conn => thread'[u].at # "look"
  <2>1. CASE thread'[u] = thread[u] BY <2>1, <1>8 DEF Kept, Bounded
  <2>2. CASE hit(u) /\ thread'[u] = e(u)
    <3>1. thread[u].news <= list[c] BY <2>2 DEF Kept, Bounded
    <3> QED BY <2>2, <3>1, <1>1
  <2> QED BY <2>1, <2>2, <1>5
<1> QED BY <1>1, <1>4, <1>5, <1>6, <1>7, <1>8

LEMMA ReadsKept == ASSUME Kept, NEW c \in Conn, Reads(c) PROVE Kept'
<1> DEFINE l == Head(lines[c])
           mine == pending[c] \cap {l.id}
<1>1. /\ lines[c] # <<>> /\ lines' = [lines EXCEPT ![c] = Tail(@)]
      /\ IF l.kind = "changed"
         THEN changed' = [changed EXCEPT ![c] = l.list] /\ UNCHANGED <<pending, thread>>
         ELSE /\ pending' = [pending EXCEPT ![c] = @ \ mine]
              /\ thread' = Answered(c, mine, l.list)
              /\ UNCHANGED changed
      /\ UNCHANGED <<set, enabled, state, generation, client, made, removed, runs, list, asked,
                     copy, ids, owed, toolOps, events>>
  BY DEF Reads, entry
<1>2. /\ lines' \in [Conn -> Seq(Written)]
      /\ \A d \in Conn : d # c => lines'[d] = lines[d]
      /\ 1 \in DOMAIN lines[c] /\ l = lines[c][1]
      /\ \A i \in DOMAIN lines'[c] :
            i \in Nat /\ i >= 1 /\ i + 1 \in DOMAIN lines[c] /\ lines'[c][i] = lines[c][i + 1]
      /\ \A j \in DOMAIN lines[c] : j # 1 => \E i \in DOMAIN lines'[c] : lines'[c][i] = lines[c][j]
  BY <1>1, LineTaken DEF Kept
<1>3. l \in Written /\ l.list \in List /\ l.list <= list[c] BY <1>2, LineTyped DEF Kept, Bounded, Written
<1> HIDE DEF l
<1>4. /\ thread' \in [ToolThread -> Place]
      /\ \A u \in ToolThread :
            \/ thread'[u] = thread[u]
            \/ /\ l.kind # "changed"
               /\ thread[u].at = "wait" /\ thread[u].conn = c /\ thread[u].id = l.id
               /\ thread'[u].at = "got" /\ thread'[u].conn = c /\ thread'[u].got = l.list
               /\ thread'[u].news = thread[u].news
      /\ Entered'
      /\ \A d \in Conn : Usable(d)' => Usable(d)
      /\ \A u \in ToolThread : thread'[u].at # "off" =>
            /\ thread'[u].conn \in Conn
            /\ thread'[u].news <= list'[thread'[u].conn] /\ thread'[u].got <= list'[thread'[u].conn]
            /\ u \in Conn => thread'[u].at # "look"
  <2>1. CASE l.kind = "changed"
    <3>1. thread' = thread BY <2>1, <1>1
    <3>2. thread \in [ToolThread -> Place] BY DEF Kept, ToolTypeOK, Place
    <3>3. Entered' BY <3>1, <1>1, EnteredStays DEF Kept, On, entry
    <3>4. \A d \in Conn : Usable(d)' => Usable(d) BY <3>1, <1>1 DEF Usable
    <3>5. \A u \in ToolThread : thread'[u].at # "off" =>
            /\ thread'[u].conn \in Conn
            /\ thread'[u].news <= list'[thread'[u].conn] /\ thread'[u].got <= list'[thread'[u].conn]
            /\ u \in Conn => thread'[u].at # "look"
      BY <3>1, <1>1 DEF Kept, Bounded
    <3> QED BY <3>1, <3>2, <3>3, <3>4, <3>5
  <2>2. CASE l.kind # "changed"
    <3>1. thread' = Answered(c, mine, l.list) /\ \A k \in mine : k = l.id BY <2>2, <1>1
    <3>2. UNCHANGED <<entry, made, removed, toolOps, list>> BY <1>1 DEF entry
    <3> HIDE DEF mine
    <3> QED BY <2>2, <3>1, <3>2, <1>3, AnsweredMove
  <2> QED BY <2>1, <2>2
<1>5. /\ changed' \in [Conn -> List] /\ pending' \in [Conn -> SUBSET Id]
      /\ \A d \in Conn : d # c => changed'[d] = changed[d]
      /\ changed'[c] = IF l.kind = "changed" THEN l.list ELSE changed[c]
  <2>1. changed \in [Conn -> List] /\ pending \in [Conn -> SUBSET Id] BY DEF Kept, ToolTypeOK
  <2>2. CASE l.kind = "changed" BY <2>1, <2>2, <1>1, <1>3
  <2>3. CASE l.kind # "changed" BY <2>1, <2>3, <1>1
  <2> QED BY <2>2, <2>3
<1>6. ToolTypeOK' BY <1>1, <1>2, <1>4, <1>5 DEF Kept, ToolTypeOK, Place, Written
<1>7. Bounded'
  <2>1. ASSUME NEW d \in Conn PROVE
          /\ changed'[d] <= list'[d]
          /\ \A i \in DOMAIN lines'[d] : lines'[d][i].list <= list'[d] /\ lines'[d][i].id <= ids'[d]
    <3>1. CASE d = c BY <3>1, <1>1, <1>2, <1>3, <1>5 DEF Kept, Bounded
    <3>2. CASE d # c BY <3>2, <1>1, <1>2, <1>5 DEF Kept, Bounded
    <3> QED BY <3>1, <3>2
  <2> QED BY <2>1, <1>1, <1>4 DEF Kept, Bounded
<1>8. InOrder'
  <2> SUFFICES ASSUME NEW d \in Conn, NEW i \in DOMAIN lines'[d], lines'[d][i].kind = "changed"
               PROVE  /\ changed'[d] < lines'[d][i].list
                      /\ \A j \in DOMAIN lines'[d] : i < j /\ lines'[d][j].kind = "changed" =>
                            lines'[d][i].list < lines'[d][j].list
    BY DEF InOrder
  <2>1. CASE d # c BY <2>1, <1>2, <1>5 DEF Kept, InOrder
  <2>2. CASE d = c
    <3>1. /\ i + 1 \in DOMAIN lines[c] /\ lines'[c][i] = lines[c][i + 1] /\ i \in Nat
          /\ 1 < i + 1
      BY <2>2, <1>2
    <3>2. changed[c] < lines[c][i + 1].list BY <2>2, <3>1 DEF Kept, InOrder
    <3>3. l.kind = "changed" => l.list < lines[c][i + 1].list
      BY <2>2, <3>1, <1>2 DEF Kept, InOrder
    <3>4. ASSUME NEW j \in DOMAIN lines'[c], i < j, lines'[c][j].kind = "changed"
          PROVE  lines'[c][i].list < lines'[c][j].list
      <4>1. j + 1 \in DOMAIN lines[c] /\ lines'[c][j] = lines[c][j + 1] /\ j \in Nat
        BY <1>2
      <4>2. i + 1 < j + 1 BY <3>1, <3>4, <4>1
      <4> QED BY <2>2, <3>1, <3>4, <4>1, <4>2 DEF Kept, InOrder
    <3> QED BY <2>2, <3>1, <3>2, <3>3, <3>4, <1>5
  <2> QED BY <2>1, <2>2
<1>9. ListsAccounted'
  <2> SUFFICES ASSUME NEW d \in Conn, Usable(d)' PROVE Accounted(d)'
    BY DEF ListsAccounted
  <2>1. Accounted(d) BY <1>4 DEF Kept, ListsAccounted
  <2>2. CASE list[d] \in {copy[d], owed[d]} BY <2>2, <1>1 DEF Accounted
  <2>3. CASE list[d] = changed[d]
    <3>1. CASE d = c /\ l.kind = "changed"
      \* a notification that is to be read is of a newer list
      <4>1. changed[c] < l.list BY <3>1, <1>2 DEF Kept, InOrder
      <4>2. changed[c] \in Nat /\ l.list \in Nat /\ list[c] \in Nat
        BY <1>3 DEF Kept, ToolTypeOK, List
      <4> QED BY <2>3, <3>1, <4>1, <4>2, <1>3
    <3>2. CASE ~(d = c /\ l.kind = "changed")
      <4>1. changed'[d] = changed[d] BY <3>2, <1>5
      <4> QED BY <2>3, <4>1, <1>1 DEF Accounted
    <3> QED BY <3>1, <3>2
  <2>4. CASE Noted(d)
    <3>1. PICK i \in DOMAIN lines[d] : lines[d][i].kind = "changed" /\ lines[d][i].list = list[d]
      BY <2>4 DEF Noted
    <3>2. CASE d = c /\ i = 1
      <4>1. changed'[c] = list[c] BY <3>1, <3>2, <1>2, <1>5
      <4> QED BY <3>2, <4>1, <1>1 DEF Accounted
    <3>3. CASE ~(d = c /\ i = 1)
      <4>1. \E k \in DOMAIN lines'[d] : lines'[d][k] = lines[d][i] BY <3>3, <1>2
      <4>2. Noted(d)' BY <3>1, <4>1, <1>1 DEF Noted
      <4> QED BY <4>2 DEF Accounted
    <3> QED BY <3>2, <3>3
  <2>5. ASSUME NEW u \in ToolThread, Fetches(u, d) PROVE Fetches(u, d)'
    <3>1. CASE thread'[u] = thread[u]
      <4>1. \A i \in DOMAIN lines'[d] : \E j \in DOMAIN lines[d] : lines'[d][i] = lines[d][j]
        BY <1>2
      <4>2. \A k : Awaits(d, k) => Awaits(d, k)' BY <4>1, <1>1 DEF Awaits
      <4> QED BY <2>5, <3>1, <4>2, <1>1 DEF Fetches
    <3>2. CASE thread'[u] # thread[u]
      <4>1. /\ l.kind = "answer" /\ thread[u].at = "wait" /\ thread[u].conn = c
            /\ thread[u].id = l.id /\ thread'[u].news = thread[u].news
            /\ thread'[u].at = "got" /\ thread'[u].conn = c /\ thread'[u].got = l.list
        BY <3>2, <1>3, <1>4 DEF Written
      <4>2. d = c /\ Awaits(c, l.id) /\ (thread[u].news = list[c] \/ u = c)
        BY <2>5, <4>1 DEF Fetches
      <4>3. l.list \in {0, list[c]} BY <4>1, <4>2, <1>2 DEF Awaits
      <4> QED BY <4>1, <4>2, <4>3, <1>1 DEF Fetches
    <3> QED BY <3>1, <3>2
  <2> QED BY <2>1, <2>2, <2>3, <2>4, <2>5 DEF Accounted
<1> QED BY <1>4, <1>6, <1>7, <1>8, <1>9 DEF Kept

LEMMA ReadsEndKept == ASSUME Kept, NEW c \in Conn, ReadsEnd(c) PROVE Kept'
<1>1. /\ pending' = [pending EXCEPT ![c] = {}] /\ thread' = Answered(c, pending[c], 0)
      /\ UNCHANGED <<set, enabled, state, generation, client, made, removed, runs, list, asked,
                     lines, changed, copy, ids, owed, toolOps, events>>
  BY DEF ReadsEnd, entry, server
<1>2. 0 \in List /\ 0 <= list[c]
  BY ServerAssumption DEF Kept, ToolTypeOK, List
<1>3. /\ thread' \in [ToolThread -> Place]
      /\ \A u \in ToolThread :
            \/ thread'[u] = thread[u]
            \/ /\ thread[u].at = "wait" /\ thread[u].conn = c
               /\ thread'[u].at = "got" /\ thread'[u].conn = c /\ thread'[u].got = 0
               /\ thread'[u].news = thread[u].news
      /\ Entered'
      /\ \A d \in Conn : Usable(d)' => Usable(d)
      /\ \A u \in ToolThread : thread'[u].at # "off" =>
            /\ thread'[u].conn \in Conn
            /\ thread'[u].news <= list'[thread'[u].conn] /\ thread'[u].got <= list'[thread'[u].conn]
            /\ u \in Conn => thread'[u].at # "look"
  <2>1. UNCHANGED <<entry, made, removed, toolOps, list>> BY <1>1 DEF entry
  <2> QED BY <2>1, <1>1, <1>2, AnsweredMove
<1>4. ToolTypeOK'
  <2>1. pending' \in [Conn -> SUBSET Id] BY <1>1 DEF Kept, ToolTypeOK
  <2> QED BY <2>1, <1>1, <1>3 DEF Kept, ToolTypeOK, Place
<1>5. Bounded' BY <1>1, <1>3 DEF Kept, Bounded
<1>6. InOrder' BY <1>1 DEF Kept, InOrder
<1>7. ListsAccounted'
  <2> SUFFICES ASSUME NEW d \in Conn, Usable(d)' PROVE Accounted(d)'
    BY DEF ListsAccounted
  <2>1. Accounted(d) BY <1>3 DEF Kept, ListsAccounted
  <2>2. ASSUME NEW u \in ToolThread, Fetches(u, d) PROVE Fetches(u, d)'
    <3>1. CASE thread'[u] = thread[u] BY <2>2, <3>1, <1>1, FetchStays
    <3>2. CASE thread'[u] # thread[u] BY <2>2, <3>2, <1>1, <1>3 DEF Fetches
    <3> QED BY <3>1, <3>2
  <2> QED BY <2>1, <2>2, <1>1 DEF Accounted, Noted
<1> QED BY <1>3, <1>4, <1>5, <1>6, <1>7 DEF Kept

-----------------------------------------------------------------------------
LEMMA InitKept == ToolInit => Kept /\ ConnectedIsCurrent
<1> SUFFICES ASSUME ToolInit PROVE Kept /\ ConnectedIsCurrent OBVIOUS
<1>1. 0 \in List /\ 1 \in List /\ 0 \in 0..MaxToolOps /\ 0 \in 0..MaxEvents
  BY ServerAssumption DEF List
<1>2. \A t \in ToolThread : thread[t] = Off BY DEF ToolInit
<1>3. ToolTypeOK
  <2>1. thread \in [ToolThread -> Place] BY OffPlace DEF ToolInit
  <2>2. lines \in [Conn -> Seq(Written)] BY DEF ToolInit
  <2> QED BY <2>1, <2>2, <1>1 DEF ToolInit, ToolTypeOK, Place, Written
<1>4. Entered BY <1>2, OffPlace, Threads DEF ToolInit, Entered, On
<1>5. Bounded
  <2>1. \A c \in Conn : /\ list[c] = 1 /\ copy[c] = 0 /\ owed[c] = 0 /\ changed[c] = 0
                        /\ asked[c] = {} /\ lines[c] = <<>> /\ events = 0
    BY DEF ToolInit
  <2> QED BY <2>1, <1>2, OffPlace DEF Bounded
<1>6. InOrder BY DEF ToolInit, InOrder
<1>7. ListsAccounted
  <2>1. \A c \in Conn : client # c /\ thread[c].at = "off"
    BY <1>2, OffPlace, Threads DEF ToolInit, Conn
  <2> QED BY <2>1 DEF ListsAccounted, Usable
<1>8. ConnectedIsCurrent BY DEF ToolInit, ConnectedIsCurrent
<1> QED BY <1>3, <1>4, <1>5, <1>6, <1>7, <1>8 DEF Kept

LEMMA NextKept == Kept /\ [ToolNext]_toolVars => Kept'
<1> SUFFICES ASSUME Kept, [ToolNext]_toolVars PROVE Kept' OBVIOUS
<1>1. ASSUME NEW b \in BOOLEAN, Upsert(b) \/ SetEnabled(b) PROVE Kept'
  BY <1>1, ConnectsKept DEF Upsert, SetEnabled
<1>2. CASE Reload BY <1>2, ConnectsKept DEF Reload
<1>3. CASE Remove BY <1>3, RemoveKept
<1>4. ASSUME NEW t \in User, Uses(t) PROVE Kept' BY <1>4, UsesKept
<1>5. ASSUME NEW t \in ToolThread,
             TakesChanged(t) \/ Requests(t) \/ TimesOut(t) \/ KeepsList(t) \/ GetsNone(t)
      PROVE Kept'
  BY <1>5, TakesKept, RequestsKept, TimesOutKept, KeepsListKept, GetsNoneKept
<1>6. ASSUME NEW c \in Conn,
             \/ Spawns(c) \/ FinishConnect(c) \/ Changes(c) \/ ServerDies(c) \/ Reads(c) \/ ReadsEnd(c)
             \/ \E id \in asked[c] : Answers(c, id)
      PROVE Kept'
  BY <1>6, SpawnsKept, FinishKept, ChangesKept, DiesKept, ReadsKept, ReadsEndKept, AnswersKept
<1>7. CASE UNCHANGED toolVars
  <2>1. UNCHANGED <<set, enabled, state, generation, client, made, removed, runs, list, asked,
                    lines, pending, changed, copy, ids, owed, thread, toolOps, events>>
    BY <1>7 DEF toolVars, entry, server, peer
  <2>2. ToolTypeOK' BY <2>1 DEF Kept, ToolTypeOK
  <2>3. Entered' BY <2>1 DEF Kept, Entered, On
  <2>4. Bounded' BY <2>1 DEF Kept, Bounded
  <2>5. InOrder' BY <2>1 DEF Kept, InOrder
  <2>6. ListsAccounted'
    BY <2>1, FetchStays DEF Kept, ListsAccounted, Usable, Accounted, Noted
  <2> QED BY <2>2, <2>3, <2>4, <2>5, <2>6 DEF Kept
<1> QED BY <1>1, <1>2, <1>3, <1>4, <1>5, <1>6, <1>7 DEF ToolNext

\* Everything has its type, whatever happens.
THEOREM ToolTypes == ToolSpec => []ToolTypeOK
<1>1. Kept => ToolTypeOK BY DEF Kept
<1> QED BY <1>1, InitKept, NextKept, PTL DEF ToolSpec

\* What says that a connection is the entry's present one is settled when it is done: no
\* step but an op and finish_connect touches the entry.
LEMMA NextCurrent == Kept /\ ConnectedIsCurrent /\ [ToolNext]_toolVars => ConnectedIsCurrent'
<1> SUFFICES ASSUME Kept, ConnectedIsCurrent, [ToolNext]_toolVars PROVE ConnectedIsCurrent' OBVIOUS
<1>1. ASSUME NEW b \in BOOLEAN, Op, Connects(b) PROVE ConnectedIsCurrent'
  BY <1>1 DEF Connects, ConnectedIsCurrent
<1>2. CASE Remove BY <1>2 DEF Remove, ConnectedIsCurrent
<1>3. ASSUME NEW c \in Conn, FinishConnect(c) PROVE ConnectedIsCurrent'
  <2>1. thread[c].at \in {"done", "failed"} /\ UNCHANGED <<set, enabled, removed>>
    BY <1>3 DEF FinishConnect
  <2>2. CASE set # 0 /\ generation = made[c] /\ thread[c].at = "done"
    <3>1. client' = c BY <1>3, <2>2 DEF FinishConnect
    <3>2. ~removed[c] => c = set /\ enabled BY <2>1, <2>2 DEF Kept, Entered, On
    <3> QED BY <2>1, <2>2, <3>1, <3>2 DEF ConnectedIsCurrent
  <2>3. CASE set # 0 /\ generation = made[c] /\ thread[c].at # "done"
    BY <1>3, <2>1, <2>3 DEF FinishConnect, ConnectedIsCurrent
  <2>4. CASE ~(set # 0 /\ generation = made[c])
    BY <1>3, <2>1, <2>4 DEF FinishConnect, ConnectedIsCurrent
  <2> QED BY <2>2, <2>3, <2>4
<1>4. CASE UNCHANGED <<entry, removed>> BY <1>4 DEF entry, ConnectedIsCurrent
<1>5. \/ \E b \in BOOLEAN : Op /\ Connects(b)
      \/ Remove \/ \E c \in Conn : FinishConnect(c)
      \/ UNCHANGED <<entry, removed>>
  <2>1. ASSUME NEW t \in ToolThread,
               \/ Uses(t) \/ TakesChanged(t) \/ Requests(t) \/ TimesOut(t) \/ KeepsList(t)
               \/ GetsNone(t)
        PROVE UNCHANGED <<entry, removed>>
    BY <2>1 DEF Uses, TakesChanged, Requests, TimesOut, KeepsList, GetsNone
  <2>2. ASSUME NEW c \in Conn,
               \/ Spawns(c) \/ Changes(c) \/ ServerDies(c) \/ Reads(c) \/ ReadsEnd(c)
               \/ \E id \in asked[c] : Answers(c, id)
        PROVE UNCHANGED <<entry, removed>>
    BY <2>2 DEF Spawns, Changes, ServerDies, Reads, ReadsEnd, Answers
  <2>3. ASSUME NEW b \in BOOLEAN, Upsert(b) \/ SetEnabled(b)
        PROVE \E a \in BOOLEAN : Op /\ Connects(a)
    BY <2>3 DEF Upsert, SetEnabled
  <2>4. Reload => \E a \in BOOLEAN : Op /\ Connects(a) BY DEF Reload
  <2>5. UNCHANGED toolVars => UNCHANGED <<entry, removed>> BY DEF toolVars
  <2> QED BY <2>1, <2>2, <2>3, <2>4, <2>5, Threads DEF ToolNext
<1> QED BY <1>1, <1>2, <1>3, <1>4, <1>5

\* The connection in use is the one the last op on its server asked for, whatever order
\* the connections that were started for the name are made in (finish_connect).
THEOREM NewestConnects == ToolSpec => []ConnectedIsCurrent
BY InitKept, NextKept, NextCurrent, PTL DEF ToolSpec

\* A list that is accounted for is had once nothing is under way.
LEMMA KeptIsFresh == Kept => ListIsFresh
<1> SUFFICES ASSUME Kept, client # 0, Quiet(client)
             PROVE  list[client] \in {copy[client], owed[client]}
  BY DEF ListIsFresh
<1>1. client \in Conn BY ServerAssumption DEF Kept, ToolTypeOK, Conn
<1>2. Accounted(client) BY <1>1 DEF Kept, ListsAccounted, Usable
<1>3. ~Noted(client)
  <2>1. DOMAIN lines[client] = {} BY DEF Quiet
  <2> QED BY <2>1 DEF Noted
<1>4. \A t \in ToolThread : ~Fetches(t, client) BY DEF Quiet, Fetches
<1>5. list[client] # changed[client] BY <1>1 DEF Quiet, Kept, Bounded
<1> QED BY <1>2, <1>3, <1>4, <1>5 DEF Accounted

\* No change that a server tells of is lost among the threads that refresh the copy: at
\* rest it is in the copy, or a refresh that failed owes it (refresh_changed).
THEOREM NoChangeIsLost == ToolSpec => []ListIsFresh
BY InitKept, NextKept, KeptIsFresh, PTL DEF ToolSpec

=============================================================================
