----------------------------- MODULE FileProofs -----------------------------
(***************************************************************************)
(* Proofs about what is kept in files: the daemon's log of deferred        *)
(* actions (crates/daemon/src/store.rs), and the storage of a session      *)
(* (crates/agent-core/src/session.rs).                                     *)
(*                                                                         *)
(* The log, the engine and what lies between implement ActionBook: an      *)
(* action is started at most once, by a decision that is on disk, unless   *)
(* the write of that decision failed; and what is gone stays so through    *)
(* torn lines, failed writes and compactions.                              *)
(*                                                                         *)
(* The storage is shown to implement Conversation by the runs of           *)
(* SessionJournal.  What that promise amounts to is shown here: an entry   *)
(* that a finished save stored, and that was not deleted since, comes back *)
(* at every restart, however many saves stop half-way and whatever a power *)
(* cut takes.                                                              *)
(***************************************************************************)
EXTENDS DeferredActions, FiniteSetTheorems, FunctionTheorems, SequenceTheorems,
        TLAPS

-----------------------------------------------------------------------------
(* The log *)

Kinds == {"deferred", "decided", "closed", "reopened"}

\* The log m tells what l does.
Same(l, m) ==
    /\ \A k, b : Has(m, k, b) <=> Has(l, k, b)
    /\ \A b : IsClosed(m, b) <=> IsClosed(l, b)
    /\ Named(m) = Named(l)

\* It has one record more.
Plus(l, m, kind, a) ==
    /\ \A k, b : Has(m, k, b) <=> Has(l, k, b) \/ (k = kind /\ b = a)
    /\ \A b : IsClosed(m, b) <=> \/ kind = "closed" /\ b = a
                                 \/ IsClosed(l, b) /\ ~(kind = "reopened" /\ b = a)
    /\ Named(m) = Named(l) \cup {a}

LEMMA RecordIs ==
    /\ \A k, a, l, b : Record(k, a) = Record(l, b) <=> k = l /\ a = b
    /\ \A k, a : k \in Kinds => Record(k, a) # Torn
    /\ \A k \in Kinds : \A a \in Action : Record(k, a) \in Line
    /\ Torn \in Line
  <1>1. ASSUME NEW k, NEW a, NEW l, NEW b, Record(k, a) = Record(l, b) PROVE k = l /\ a = b
    <2>1. Record(k, a).kind = k /\ Record(k, a).action = a BY DEF Record
    <2>2. Record(l, b).kind = l /\ Record(l, b).action = b BY DEF Record
    <2> QED BY <1>1, <2>1, <2>2
  <1>2. ASSUME NEW k \in Kinds, NEW a \in Action PROVE Record(k, a) \in Line
    BY DEF Record, Line, Kinds
  <1>3. ASSUME NEW k \in Kinds, NEW a PROVE Record(k, a) # Torn
    BY <1>1 DEF Torn, Kinds
  <1> QED BY <1>1, <1>2, <1>3 DEF Line

\* A line that no reader can parse changes nothing.
LEMMA TornIsSame ==
    ASSUME NEW l \in Seq(Line)
    PROVE  Append(l, Torn) \in Seq(Line) /\ Same(l, Append(l, Torn))
  <1> DEFINE m == Append(l, Torn)
             N == Len(l)
  <1>1. m \in Seq(Line) BY RecordIs
  <1>2. N \in Nat /\ DOMAIN l = 1..N OBVIOUS
  <1>3. DOMAIN m = 1..(N + 1) /\ m[N + 1] = Torn /\ \A i \in 1..N : m[i] = l[i]
    OBVIOUS
  <1> HIDE DEF m
  <1>4. Parsed(m) = Parsed(l) /\ \A i \in Parsed(l) : m[i] = l[i]
    BY <1>2, <1>3 DEF Parsed
  <1>5. Same(l, m)
    BY <1>4 DEF Same, Has, IsClosed, Named
  <1> QED BY <1>1, <1>5 DEF m

LEMMA RecordIsPlus ==
    ASSUME NEW l \in Seq(Line), NEW kind \in Kinds, NEW a \in Action
    PROVE  /\ Append(l, Record(kind, a)) \in Seq(Line)
           /\ Plus(l, Append(l, Record(kind, a)), kind, a)
  <1> DEFINE r == Record(kind, a)
             m == Append(l, r)
             N == Len(l)
  <1>1. r \in Line /\ r # Torn /\ r.action = a BY RecordIs DEF Record
  <1>2. N \in Nat /\ DOMAIN l = 1..N OBVIOUS
  <1> HIDE DEF r
  <1>3. m \in Seq(Line) BY <1>1
  <1>4. DOMAIN m = 1..(N + 1) /\ m[N + 1] = r /\ \A i \in 1..N : m[i] = l[i]
    BY <1>1
  <1> HIDE DEF m
  <1>5. /\ Parsed(m) = Parsed(l) \cup {N + 1} /\ \A i \in Parsed(l) : m[i] = l[i] /\ i < N + 1
        /\ m[N + 1] = r /\ Parsed(l) \subseteq Nat /\ N + 1 \in Nat
    BY <1>1, <1>2, <1>4 DEF Parsed
  <1> HIDE DEF N
  <1>6. \A k, b : Has(m, k, b) <=> Has(l, k, b) \/ (k = kind /\ b = a)
    BY <1>5, RecordIs DEF Has, r
  <1>7. ASSUME NEW b
        PROVE  IsClosed(m, b) <=> \/ kind = "closed" /\ b = a
                                  \/ IsClosed(l, b) /\ ~(kind = "reopened" /\ b = a)
    <2>1. CASE kind = "closed" /\ b = a
      BY <1>5, <2>1 DEF IsClosed, r
    <2>2. CASE kind = "reopened" /\ b = a
      <3>1. r = Record("reopened", b) /\ r # Record("closed", b) BY <2>2, RecordIs DEF r
      <3>2. ~IsClosed(m, b) BY <1>5, <3>1 DEF IsClosed
      <3> QED BY <2>2, <3>2
    <2>3. CASE ~(kind = "closed" /\ b = a) /\ ~(kind = "reopened" /\ b = a)
      <3>1. r # Record("closed", b) /\ r # Record("reopened", b) BY <2>3, RecordIs DEF r
      <3>2. IsClosed(l, b) => IsClosed(m, b) BY <1>5, <3>1 DEF IsClosed
      <3>3. IsClosed(m, b) => IsClosed(l, b) BY <1>5, <3>1 DEF IsClosed
      <3> QED BY <2>3, <3>2, <3>3
    <2> QED BY <2>1, <2>2, <2>3
  <1>8. Named(m) = Named(l) \cup {a}
    BY <1>1, <1>5 DEF Named
  <1> QED BY <1>3, <1>6, <1>7, <1>8 DEF Plus, m, r

\* A listing of a finite set has all of it.
LEMMA ListingIs ==
    ASSUME NEW S, IsFiniteSet(S), NEW q \in SetToSeqs(S)
    PROVE  q \in Seq(S) /\ \A x \in S : \E i \in 1..Len(q) : q[i] = x
  <1> DEFINE n == Cardinality(S)
             D == 1..n
  <1>1. n \in Nat BY FS_CardinalityType
  <1>2. q \in [D -> S] /\ \A i, j \in D : i # j => q[i] # q[j] BY DEF SetToSeqs
  <1>3. IsFiniteSet(D) /\ Cardinality(D) = n
    <2>1. IsFiniteSet(1..n) /\ Cardinality(1..n) = IF 1 > n THEN 0 ELSE n - 1 + 1
      BY <1>1, FS_Interval
    <2> QED BY <1>1, <2>1
  <1> HIDE DEF D
  <1>4. q \in Injection(D, S) BY <1>2, Fun_IsInj
  <1>5. q \in Surjection(D, S) BY <1>3, <1>4, FS_Injection
  <1>6. \A x \in S : \E i \in D : q[i] = x BY <1>5, Fun_SurjectionProperties
  <1>7. q \in Seq(S) /\ Len(q) = n BY <1>1, <1>2 DEF D
  <1> QED BY <1>6, <1>7 DEF D

LEMMA NamedFinite ==
    ASSUME NEW l \in Seq(Line), NEW S, S \subseteq Named(l)
    PROVE  IsFiniteSet(S)
  <1> DEFINE P == Parsed(l)
             f == [i \in P |-> l[i].action]
  <1>1. P \subseteq 1..Len(l) /\ Len(l) \in Nat BY DEF Parsed
  <1>2. IsFiniteSet(1..Len(l)) BY <1>1, FS_Interval
  <1>3. IsFiniteSet(P) BY <1>1, <1>2, FS_Subset
  <1>4. f \in [P -> Named(l)] BY DEF Named
  <1>5. \A t \in Named(l) : \E i \in P : f[i] = t BY DEF Named
  <1> HIDE DEF f, P
  <1>6. f \in Surjection(P, Named(l)) BY <1>4, <1>5, Fun_IsSurj
  <1>7. IsFiniteSet(Named(l)) BY <1>3, <1>6, FS_Surjection
  <1> QED BY <1>7, FS_Subset

LEMMA OpenIs ==
    ASSUME NEW l
    PROVE  /\ Open(l) \subseteq Named(l) /\ Closed(l) \subseteq Named(l)
           /\ \A a : a \in Open(l) <=> IsUndecided(l, a) /\ ~IsClosed(l, a)
           /\ \A a : a \in Closed(l) <=> IsUndecided(l, a) /\ IsClosed(l, a)
  <1>1. ASSUME NEW a, IsUndecided(l, a) PROVE a \in Named(l)
    <2>1. PICK i \in Parsed(l) : l[i] = Record("deferred", a) BY <1>1 DEF IsUndecided, Has
    <2>2. l[i].action = a BY <2>1 DEF Record
    <2> QED BY <2>2 DEF Named
  <1> QED BY <1>1 DEF Open, Closed, Undecided

LEMMA DeferralNamed == \A l, k, a : Has(l, k, a) => a \in Named(l)
  <1> SUFFICES ASSUME NEW l, NEW k, NEW a, Has(l, k, a) PROVE a \in Named(l) OBVIOUS
  <1>1. PICK i \in Parsed(l) : l[i] = Record(k, a) BY DEF Has
  <1>2. l[i].action = a BY <1>1 DEF Record
  <1> QED BY <1>2 DEF Named

\* A compacted log tells of the open actions and of the closed ones that were kept.
LEMMA CompactionIs ==
    ASSUME NEW l \in Seq(Line), NEW kept \in SUBSET Closed(l), Named(l) \subseteq Action,
           NEW all \in SetToSeqs(Open(l) \cup kept), NEW put \in SetToSeqs(kept),
           NEW m, m = Compacted(all, put)
    PROVE  /\ m \in Seq(Line)
           /\ \A b : Has(m, "deferred", b) <=> b \in Open(l) \cup kept
           /\ \A b : ~Has(m, "decided", b)
           /\ \A b : IsClosed(m, b) <=> b \in kept
           /\ Named(m) = Open(l) \cup kept
  <1> DEFINE S == Open(l) \cup kept
  <1>1. S \subseteq Named(l) /\ kept \subseteq Named(l) BY OpenIs
  <1>2. IsFiniteSet(S) /\ IsFiniteSet(kept) BY <1>1, NamedFinite
  <1>3. /\ all \in SetToSeqs(S) /\ put \in SetToSeqs(kept)
        /\ m = Records("deferred", all) \o Records("closed", put)
    BY DEF Compacted
  <1> HIDE DEF S
  <1>4. all \in Seq(S) /\ \A x \in S : \E i \in 1..Len(all) : all[i] = x
    BY <1>2, <1>3, ListingIs
  <1>5. put \in Seq(kept) /\ \A x \in kept : \E i \in 1..Len(put) : put[i] = x
    BY <1>2, <1>3, ListingIs
  <1> DEFINE A == Len(all)
             B == Len(put)
             d == Records("deferred", all)
             c == Records("closed", put)
  <1>6. S \subseteq Action /\ kept \subseteq S BY <1>1 DEF S
  <1>7. /\ A \in Nat /\ B \in Nat
        /\ d \in Seq(Line) /\ Len(d) = A /\ \A i \in 1..A : d[i] = Record("deferred", all[i])
        /\ c \in Seq(Line) /\ Len(c) = B /\ \A i \in 1..B : c[i] = Record("closed", put[i])
    <2>1. \A i \in 1..A : all[i] \in Action BY <1>4, <1>6
    <2>2. \A i \in 1..B : put[i] \in Action BY <1>5, <1>6
    <2>3. A \in Nat /\ B \in Nat BY <1>4, <1>5
    <2>4. d = [i \in 1..A |-> Record("deferred", all[i])] BY <1>4 DEF Records
    <2>5. c = [i \in 1..B |-> Record("closed", put[i])] BY <1>5 DEF Records
    <2> HIDE DEF d, c, A, B
    <2>6. \A i \in 1..A : Record("deferred", all[i]) \in Line
      BY <2>1, RecordIs DEF Kinds
    <2>7. \A i \in 1..B : Record("closed", put[i]) \in Line
      BY <2>2, RecordIs DEF Kinds
    <2> QED BY <2>3, <2>4, <2>5, <2>6, <2>7
  <1>8. \A i \in 1..A : all[i] \in S BY <1>4
  <1>9. \A i \in 1..B : put[i] \in kept BY <1>5
  <1> HIDE DEF A, B, d, c
  <1>10. /\ m = d \o c /\ m \in Seq(Line) /\ DOMAIN m = 1..(A + B)
         /\ \A i \in 1..A : m[i] = Record("deferred", all[i])
         /\ \A i \in 1..B : m[A + i] = Record("closed", put[i])
    <2>1. m = d \o c BY <1>3 DEF d, c
    <2>2. m \in Seq(Line) /\ DOMAIN m = 1..(A + B)
      <3>0. d \in Seq(Line) /\ c \in Seq(Line) /\ Len(d) = A /\ Len(c) = B BY <1>7
      <3>1. m \in Seq(Line) BY <3>0, <2>1
      <3>2. Len(m) = Len(d) + Len(c) BY <3>0, <2>1, ConcatProperties
      <3> QED BY <3>0, <3>1, <3>2
    <2>3. ASSUME NEW i \in 1..A PROVE m[i] = d[i] BY <1>7, <2>1
    <2>4. ASSUME NEW i \in 1..B PROVE m[A + i] = c[i] BY <1>7, <2>1
    <2> QED BY <1>7, <2>1, <2>2, <2>3, <2>4
  <1>11. /\ \A i \in 1..A : i \in DOMAIN m
         /\ \A i \in 1..B : A + i \in DOMAIN m
         /\ \A j \in DOMAIN m : j \in 1..A \/ \E i \in 1..B : j = A + i
    <2>1. ASSUME NEW j \in 1..(A + B), j \notin 1..A PROVE \E i \in 1..B : j = A + i
      <3>1. j - A \in 1..B /\ j = A + (j - A) BY <1>7, <2>1
      <3> QED BY <3>1
    <2>2. \A i \in 1..A : i \in 1..(A + B) BY <1>7
    <2>3. \A i \in 1..B : A + i \in 1..(A + B) BY <1>7
    <2> QED BY <1>10, <2>1, <2>2, <2>3
  <1>12. Parsed(m) = DOMAIN m
    <2>1. ASSUME NEW j \in DOMAIN m PROVE m[j] # Torn
      <3>1. \A k, x : k \in {"deferred", "closed"} => Record(k, x) # Torn
        BY RecordIs DEF Kinds
      <3>2. CASE j \in 1..A
        <4>1. m[j] = Record("deferred", all[j]) BY <1>10, <3>2
        <4> QED BY <4>1, <3>1
      <3>3. CASE j \notin 1..A
        <4>1. PICK i \in 1..B : j = A + i BY <1>11, <3>3
        <4>2. m[j] = Record("closed", put[i]) BY <1>10, <4>1
        <4> QED BY <4>2, <3>1
      <3> QED BY <3>2, <3>3
    <2> QED BY <2>1 DEF Parsed
  <1> HIDE DEF d, c
  <1>13. \A j \in DOMAIN m : \/ \E x \in S : m[j] = Record("deferred", x)
                             \/ \E x \in kept : m[j] = Record("closed", x)
    BY <1>8, <1>9, <1>10, <1>11
  <1>14. \A x \in S : \E j \in DOMAIN m : m[j] = Record("deferred", x)
    BY <1>4, <1>10, <1>11 DEF A
  <1>15. \A x \in kept : \E j \in DOMAIN m : m[j] = Record("closed", x)
    BY <1>5, <1>10, <1>11 DEF B
  <1>16. \A b : Has(m, "deferred", b) <=> b \in S
    BY <1>12, <1>13, <1>14, RecordIs DEF Has
  <1>17. \A b : ~Has(m, "decided", b)
    BY <1>12, <1>13, RecordIs DEF Has
  <1>18. \A b : \A j \in DOMAIN m : m[j] # Record("reopened", b)
    BY <1>13, RecordIs
  <1>19. \A b : IsClosed(m, b) <=> b \in kept
    BY <1>12, <1>13, <1>15, <1>18, RecordIs DEF IsClosed
  <1>20. Named(m) = S
    <2>1. \A k, x : Record(k, x).action = x BY DEF Record
    <2>2. Named(m) \subseteq S BY <1>6, <1>12, <1>13, <2>1 DEF Named
    <2>3. S \subseteq Named(m) BY <1>12, <1>14, <2>1 DEF Named
    <2> QED BY <2>2, <2>3
  <1> QED BY <1>10, <1>16, <1>17, <1>19, <1>20 DEF S

-----------------------------------------------------------------------------
(* The invariant of the deferred actions *)

Op == [op : {"decide"}, action : Action, allow : BOOLEAN]
      \cup [op : {"shutdown"}, action : {Nothing}, allow : BOOLEAN]

Work == [action : Action, allow : BOOLEAN]

\* As TypeOK; a session's thread that records or decides has an action in hand.
Typed ==
    /\ file \in [lines : Seq(Line), torn : BOOLEAN] /\ entries \in Seq(Line)
    /\ up \in BOOLEAN /\ hosted \in BOOLEAN /\ queue \in Seq(Op)
    /\ engine \in {"off", "idle", "recording", "deciding"}
    /\ IF engine \in {"off", "idle"} THEN at = Nothing ELSE at \in Work
    /\ held \subseteq Action /\ shown \subseteq Action /\ started \in [Action -> Nat]
    /\ known \subseteq Action /\ late \subseteq Action /\ settled \subseteq Call
    /\ unwritten \subseteq Action

IsGone(a) == StateOf(file.lines, a) = "gone"

\* The daemon's copy has no deferral that the file has not, and waits for no decision
\* that the file has, but those it failed to write.
Copied ==
    up => /\ \A a : Has(entries, "deferred", a) => Has(file.lines, "deferred", a)
          /\ \A a \in Action \ unwritten : IsGone(a) => ~IsUndecided(entries, a)

\* What is being recorded is new to the file; what is being decided was written down,
\* or could not be.
InHand ==
    /\ Named(file.lines) \subseteq known
    /\ engine = "recording" => at.action \in held \ known
    /\ \A a \in Action : engine = "deciding" /\ at.action = a => a \in unwritten \/ IsGone(a)

\* The open actions are the engine's, as long as it runs.
Listed ==
    /\ ~up => engine = "off"
    /\ engine # "off" => Open(entries) \subseteq held \cup late \cup unwritten

\* What was started is gone, and not the engine's to start again.
Once ==
    \A a \in Action \ unwritten :
        started[a] # 0 => IsGone(a) /\ a \notin held

IInv == Typed /\ Copied /\ InHand /\ Listed /\ Once

LEMMA WorkIs == Nothing \notin Work /\ \A a, b : [action |-> a, allow |-> b] # Nothing
  <1>1. \A a, b : DOMAIN [action |-> a, allow |-> b] = {"action", "allow"} OBVIOUS
  <1>2. DOMAIN Nothing = {} BY DEF Nothing
  <1>3. \A a, b : [action |-> a, allow |-> b] # Nothing BY <1>1, <1>2
  <1>4. \A w \in Work : w = [action |-> w.action, allow |-> w.allow] BY DEF Work
  <1> QED BY <1>3, <1>4

LEMMA TypedIsTypeOK == Typed => TypeOK
  <1> SUFFICES ASSUME Typed PROVE TypeOK OBVIOUS
  <1>1. at = Nothing <=> engine \in {"off", "idle"} BY WorkIs DEF Typed
  <1>2. queue \in Seq(Decision)
    <2>1. Op \subseteq Decision BY DEF Op, Decision
    <2>2. \A i \in 1..Len(queue) : queue[i] \in Decision BY <2>1 DEF Typed
    <2> QED BY <2>2 DEF Typed
  <1> QED BY <1>1, <1>2 DEF Typed, TypeOK

LEMMA InitBooks == Init => IInv /\ Book!Init
  <1> SUFFICES ASSUME Init PROVE IInv /\ Book!Init OBVIOUS
  <1>1. file.lines = <<>> /\ entries = <<>> BY DEF Init, NoLog
  <1>2. DOMAIN file.lines = {} /\ DOMAIN entries = {} BY <1>1
  <1>3. Parsed(file.lines) = {} /\ Parsed(entries) = {} BY <1>2 DEF Parsed
  <1>4. Named(file.lines) = {} /\ \A k, a : ~Has(file.lines, k, a) /\ ~Has(entries, k, a)
    BY <1>3 DEF Named, Has
  <1>5. /\ file \in [lines : Seq(Line), torn : BOOLEAN]
        /\ entries \in Seq(Line) /\ queue \in Seq(Op)
    BY DEF Init, NoLog
  <1>6. Typed BY <1>5 DEF Typed, Init
  <1>7. Copied /\ InHand /\ Listed /\ Once
    BY <1>4 DEF Copied, InHand, Listed, Once, Init, IsUndecided
  <1>8. \A a \in Action : StateOf(file.lines, a) = "new"
    BY <1>4 DEF StateOf, IsUndecided, Init
  <1>9. Book!Init
    <2>1. unwritten = {} BY DEF Init
    <2> QED BY <1>8, <2>1 DEF Book!Init, Init
  <1> QED BY <1>6, <1>7, <1>9 DEF IInv

-----------------------------------------------------------------------------
(* Writes *)

LEMMA WritesIs ==
    ASSUME IInv, NEW kind \in Kinds, NEW a \in Action, NEW written \in BOOLEAN,
           Writes(kind, a, written)
    PROVE  /\ file' \in [lines : Seq(Line), torn : BOOLEAN] /\ entries' \in Seq(Line)
           /\ Same(file.lines, file'.lines) \/ Plus(file.lines, file'.lines, kind, a)
           /\ written => /\ Plus(file.lines, file'.lines, kind, a)
                         /\ Plus(entries, entries', kind, a)
           /\ ~written => kind \in Failing /\ entries' = entries
           /\ known' = known \cup Named(file'.lines)
  <1> DEFINE r == Record(kind, a)
             l == file.lines
  <1>0. l \in Seq(Line) /\ entries \in Seq(Line) /\ file.torn \in BOOLEAN
    BY DEF IInv, Typed
  <1>1. Append(l, r) \in Seq(Line) /\ Plus(l, Append(l, r), kind, a)
    BY <1>0, RecordIsPlus
  <1>2. Append(entries, r) \in Seq(Line) /\ Plus(entries, Append(entries, r), kind, a)
    BY <1>0, RecordIsPlus
  <1>3. Append(l, Torn) \in Seq(Line) /\ Same(l, Append(l, Torn))
    BY <1>0, TornIsSame
  <1>4. Same(l, l) BY DEF Same
  <1>5. CASE written
    <2>1. file' = [lines |-> Append(l, r), torn |-> FALSE] /\ entries' = Append(entries, r)
      BY <1>5 DEF Writes, Appended
    <2>2. file'.lines = Append(l, r) BY <2>1
    <2> QED BY <1>1, <1>2, <1>5, <2>1, <2>2 DEF Writes
  <1>6. CASE ~written
    <2>1. /\ kind \in Failing /\ entries' = entries
          /\ \/ file' = file
             \/ file' = [lines |-> Append(l, Torn), torn |-> TRUE]
             \/ file' = [lines |-> Append(l, r), torn |-> TRUE]
      BY <1>6 DEF Writes, CutShort
    <2> DEFINE lt == Append(l, Torn)
               lr == Append(l, r)
    <2> HIDE DEF lt, lr
    <2>2. /\ file'.lines \in {l, lt, lr}
          /\ file' \in [lines : Seq(Line), torn : BOOLEAN]
      <3>1. lt \in Seq(Line) /\ lr \in Seq(Line) BY <1>1, <1>3 DEF lt, lr
      <3>2. \/ file' = file
            \/ file' = [lines |-> lt, torn |-> TRUE]
            \/ file' = [lines |-> lr, torn |-> TRUE]
        BY <2>1 DEF lt, lr
      <3>3. file \in [lines : Seq(Line), torn : BOOLEAN] BY DEF IInv, Typed
      <3> HIDE DEF l
      <3>4. CASE file' = file BY <3>3, <3>4 DEF l
      <3>5. CASE file' = [lines |-> lt, torn |-> TRUE] BY <3>1, <3>5
      <3>6. CASE file' = [lines |-> lr, torn |-> TRUE] BY <3>1, <3>6
      <3> QED BY <3>2, <3>4, <3>5, <3>6
    <2> USE DEF lt, lr
    <2> HIDE DEF l, r
    <2>3. Same(l, file'.lines) \/ Plus(l, file'.lines, kind, a)
      BY <1>1, <1>3, <1>4, <2>2
    <2> QED BY <1>0, <1>6, <2>1, <2>2, <2>3 DEF Writes, l
  <1> QED BY <1>5, <1>6

\* Each action is as it was, or moves on.
Turns == \A b \in Action : <<StateOf(file.lines, b), StateOf(file.lines, b)'>> \in Book!Steps

\* Then the book moves on, as long as only what is not gone gets void.
LEMMA TurnsMove ==
    ASSUME Turns, UNCHANGED started, unwritten \subseteq unwritten',
           \A b \in unwritten' \ unwritten : ~IsGone(b)
    PROVE  Book!Moves
  <1> DEFINE s(b) == IF b \in unwritten THEN "void" ELSE StateOf(file.lines, b)
             t(b) == IF b \in unwritten' THEN "void" ELSE StateOf(file.lines, b)'
  <1>1. ASSUME NEW b \in Action PROVE <<s(b), t(b)>> \in Book!Steps
    <2>1. StateOf(file.lines, b) \in {"new", "open", "closed", "gone"} BY DEF StateOf
    <2>2. CASE b \in unwritten BY <2>2 DEF Book!Steps
    <2>3. CASE b \notin unwritten /\ b \in unwritten' BY <2>1, <2>3 DEF Book!Steps, IsGone
    <2>4. CASE b \notin unwritten' BY <2>4 DEF Turns
    <2> QED BY <2>2, <2>3, <2>4
  <1> QED BY <1>1 DEF Book!Moves

LEMMA GoneStays ==
    ASSUME Turns, NEW b \in Action, IsGone(b)
    PROVE  IsGone(b)'
  BY DEF Turns, IsGone, Book!Steps

\* A write moves the actions on: a deferral is of a new action, a closing and a reopening of
\* a recorded one.
LEMMA WritesMove ==
    ASSUME IInv, NEW kind \in Kinds, NEW a \in Action, NEW written \in BOOLEAN,
           Writes(kind, a, written), unwritten \subseteq unwritten',
           kind = "decided" /\ ~written => a \in unwritten' \/ IsGone(a),
           kind = "deferred" => a \notin known,
           kind \in {"closed", "reopened"} => Has(file.lines, "deferred", a)
    PROVE  /\ Turns
           /\ Named(file'.lines) \subseteq known' /\ known' \subseteq known \cup {a}
           /\ \A k, b : Has(file.lines, k, b) => Has(file'.lines, k, b)
           /\ \A k, b : Has(entries, k, b) => Has(entries', k, b)
           /\ UNCHANGED up => Copied'
  <1> DEFINE l == file.lines
             m == file'.lines
  <1>1. Named(l) \subseteq known BY DEF IInv, InHand
  <1>2. /\ Same(l, m) \/ Plus(l, m, kind, a)
        /\ known' = known \cup Named(m)
        /\ written => Plus(l, m, kind, a) /\ Plus(entries, entries', kind, a)
        /\ ~written => entries' = entries
    BY WritesIs
  <1>3. \A k, b : Has(l, k, b) => b \in Named(l)
    BY DeferralNamed
  <1> DEFINE After(b) == IF ~IsUndecided(m, b) THEN IF b \in known' THEN "gone" ELSE "new"
                         ELSE IF IsClosed(m, b) THEN "closed" ELSE "open"
  <1> HIDE DEF l, m
  <1>4. ASSUME NEW b \in Action PROVE <<StateOf(l, b), After(b)>> \in Book!Steps
    <2>1. CASE Same(l, m)
      <3>1. known' = known BY <1>1, <1>2, <2>1 DEF Same
      <3>2. After(b) = StateOf(l, b)
        BY <2>1, <3>1 DEF Same, StateOf, IsUndecided
      <3> HIDE DEF After
      <3> QED BY <3>2 DEF StateOf, Book!Steps
    <2>2. CASE Plus(l, m, kind, a) /\ b # a
      <3>1. b \in known' <=> b \in known BY <1>1, <1>2, <2>2 DEF Plus
      <3>2. IsUndecided(m, b) <=> IsUndecided(l, b) BY <2>2 DEF Plus, IsUndecided
      <3>3. IsClosed(m, b) <=> IsClosed(l, b) BY <2>2 DEF Plus
      <3>4. After(b) = StateOf(l, b)
        BY <3>1, <3>2, <3>3 DEF StateOf
      <3> HIDE DEF After
      <3> QED BY <3>4 DEF StateOf, Book!Steps
    <2>3. CASE Plus(l, m, kind, a) /\ b = a
      <3>1. a \in known' BY <1>2, <2>3 DEF Plus
      <3>2. CASE kind = "deferred"
        <4>0. a \notin known /\ a \notin Named(l) BY <1>1, <3>2
        <4>1. StateOf(l, b) = "new" BY <1>3, <2>3, <4>0 DEF StateOf, IsUndecided
        <4>2. ~IsClosed(l, b) BY <1>3, <2>3, <4>0 DEF IsClosed, Has
        <4>3. IsUndecided(m, b)
          BY <1>3, <2>3, <3>2, <4>0 DEF Plus, IsUndecided
        <4>4. ~IsClosed(m, b) BY <2>3, <3>2, <4>2 DEF Plus
        <4> QED BY <4>1, <4>3, <4>4 DEF Book!Steps
      <3>3. CASE kind = "decided"
        <4>1. ~IsUndecided(m, b)
          BY <2>3, <3>3 DEF Plus, IsUndecided
        <4> QED BY <2>3, <3>1, <4>1 DEF StateOf, Book!Steps
      <3>4. CASE kind \in {"closed", "reopened"}
        <4>1. a \in known BY <1>1, <1>3, <3>4 DEF l
        <4>2. IsUndecided(m, b) <=> IsUndecided(l, b)
          BY <2>3, <3>4 DEF Plus, IsUndecided
        <4>3. CASE IsUndecided(l, b)
          BY <2>3, <4>2, <4>3 DEF StateOf, Book!Steps
        <4>4. CASE ~IsUndecided(l, b)
          BY <2>3, <3>1, <4>1, <4>2, <4>4 DEF StateOf, Book!Steps
        <4> QED BY <4>3, <4>4
      <3> QED BY <3>2, <3>3, <3>4 DEF Kinds
    <2> QED BY <1>2, <2>1, <2>2, <2>3
  <1>5. Turns
    <2>1. \A b : StateOf(file.lines, b)' = After(b) BY DEF StateOf, m
    <2> HIDE DEF After
    <2> QED BY <1>4, <2>1 DEF Turns, l
  <1>6. Named(m) \subseteq known' /\ known' \subseteq known \cup {a}
    BY <1>1, <1>2 DEF Same, Plus
  <1>7. \A k, b : Has(l, k, b) => Has(m, k, b) BY <1>2 DEF Same, Plus
  <1>8. \A k, b : Has(entries, k, b) => Has(entries', k, b) BY <1>2 DEF Plus
  <1>9. ASSUME UNCHANGED up PROVE Copied'
    <2>1. ASSUME up, NEW b, Has(entries', "deferred", b) PROVE Has(m, "deferred", b)
      BY <1>2, <1>7, <2>1 DEF IInv, Copied, Plus, l
    <2>2. ASSUME up, NEW b \in Action, b \notin unwritten', StateOf(file.lines, b)' = "gone",
                 IsUndecided(entries', b)
          PROVE  FALSE
      <3>1. StateOf(file.lines, b)' = After(b) BY DEF StateOf, m
      <3>2. Has(m, "deferred", b) /\ Has(m, "decided", b) 
        <4>1. ~IsUndecided(m, b) BY <2>2, <3>1
        <4> QED BY <2>1, <2>2, <4>1 DEF IsUndecided
      <3>3. ~Has(entries, "decided", b) /\ ~Has(entries', "decided", b)
        BY <1>8, <2>2 DEF IsUndecided
      <3>4. ~(kind = "decided" /\ b = a /\ written) BY <1>2, <3>3 DEF Plus
      <3>5. IsGone(b) => ~IsUndecided(entries, b)
        BY <2>2 DEF IInv, Copied
      <3>6. IsGone(b) => kind = "deferred" /\ b = a
        <4>1. IsGone(b) => ~Has(entries, "deferred", b) BY <3>3, <3>5 DEF IsUndecided
        <4>2. Has(entries', "deferred", b) BY <2>2 DEF IsUndecided
        <4> QED BY <1>2, <4>1, <4>2 DEF Plus
      <3>7. IsGone(b) => b \in known BY DEF IsGone, StateOf
      <3>8. ~IsGone(b) BY <3>6, <3>7
      <3>9. ~(kind = "decided" /\ b = a) BY <2>2, <3>4, <3>8
      <3>10. Has(l, "decided", b) BY <1>2, <3>2, <3>9 DEF Same, Plus
      <3>11. b \in known BY <1>1, <1>3, <3>10
      <3>12. IsGone(b) BY <3>10, <3>11 DEF IsGone, StateOf, IsUndecided, l
      <3> QED BY <3>8, <3>12
    <2> QED BY <1>9, <2>1, <2>2 DEF Copied, IsGone, m
  <1> QED BY <1>5, <1>6, <1>7, <1>8, <1>9 DEF l, m

LEMMA OpenGrows ==
    ASSUME NEW l, NEW m, NEW kind, NEW a, Plus(l, m, kind, a)
    PROVE  /\ Open(m) \subseteq Open(l) \cup {a}
           /\ kind \in {"decided", "closed"} => Open(m) \subseteq Open(l)
  <1>1. ASSUME NEW b \in Open(m)
        PROVE  b \in Open(l) \/ (b = a /\ kind \notin {"decided", "closed"})
    <2>1. Has(m, "deferred", b) /\ ~Has(m, "decided", b) /\ ~IsClosed(m, b)
      BY OpenIs DEF IsUndecided
    <2>2. ~Has(l, "decided", b) BY <2>1 DEF Plus
    <2>3. CASE b = a
      <3>1. kind \notin {"decided", "closed"} BY <2>1, <2>3 DEF Plus
      <3> QED BY <2>3, <3>1
    <2>4. CASE b # a
      <3>1. Has(l, "deferred", b) /\ ~IsClosed(l, b) BY <2>1, <2>4 DEF Plus
      <3> QED BY <2>2, <3>1, OpenIs DEF IsUndecided
    <2> QED BY <2>3, <2>4
  <1> QED BY <1>1

LEMMA OpenHasDeferral ==
    \A l, a : a \in Open(l) \cup Closed(l) => Has(l, "deferred", a) /\ ~Has(l, "decided", a)
  BY OpenIs DEF IsUndecided

-----------------------------------------------------------------------------
(* The steps *)

Page == <<[a \in Action |-> IF a \in unwritten THEN "void" ELSE StateOf(file.lines, a)], started>>

\* The book is not touched.
LEMMA PageStays ==
    ASSUME UNCHANGED <<file, known, unwritten, started>>
    PROVE  UNCHANGED Page
  <1>1. \A a : StateOf(file.lines, a)' = StateOf(file.lines, a) BY DEF StateOf
  <1> QED BY <1>1 DEF Page

\* What the file says stays.
LEMMA FileStays ==
    ASSUME UNCHANGED <<file, known>>
    PROVE  \A a : IsGone(a)' <=> IsGone(a)
  BY DEF IsGone, StateOf

\* What was started stays so as long as nothing is started and the engine has no
\* action back that is gone.
LEMMA OnceStays ==
    ASSUME IInv, UNCHANGED started, unwritten \subseteq unwritten',
           \A a \in Action : IsGone(a) => IsGone(a)',
           \A a \in held' \ held : a \in unwritten' \/ ~IsGone(a)
    PROVE  Once'
  BY DEF IInv, Once

LEMMA DecideMoves ==
    ASSUME IInv, NEW a \in Action, NEW allow \in BOOLEAN, Decide(a, allow)
    PROVE  IInv' /\ UNCHANGED Page
  <1>1. queue' \in Seq(Op)
    <2>1. [op |-> "decide", action |-> a, allow |-> allow] \in Op BY DEF Op
    <2> QED BY <2>1 DEF Decide, IInv, Typed
  <1>2. UNCHANGED Page BY PageStays DEF Decide
  <1>3. Typed' BY <1>1 DEF Decide, Client, IInv, Typed
  <1>4. Copied' /\ InHand' /\ Listed' /\ Once'
    BY FileStays DEF Decide, Client, IInv, Copied, InHand, Listed, Once
  <1> QED BY <1>2, <1>3, <1>4 DEF IInv

LEMMA CloseSessionMoves ==
    ASSUME IInv, CloseSession
    PROVE  IInv' /\ UNCHANGED Page
  <1>1. queue' \in Seq(Op)
    <2>1. [op |-> "shutdown", action |-> Nothing, allow |-> FALSE] \in Op BY DEF Op
    <2> QED BY <2>1 DEF CloseSession, IInv, Typed
  <1>2. UNCHANGED Page BY PageStays DEF CloseSession
  <1>3. Typed' BY <1>1 DEF CloseSession, Client, IInv, Typed
  <1>4. Copied' /\ InHand' /\ Listed' /\ Once'
    BY FileStays DEF CloseSession, Client, IInv, Copied, InHand, Listed, Once
  <1> QED BY <1>2, <1>3, <1>4 DEF IInv

LEMMA CloseActionMoves ==
    ASSUME IInv, NEW a \in Action, CloseAction(a)
    PROVE  IInv' /\ Book!Moves /\ Turns
  <1>1. PICK written \in BOOLEAN : Writes("closed", a, written) BY DEF CloseAction
  <1>2. Has(file.lines, "deferred", a)
    BY OpenHasDeferral DEF CloseAction, Client, IInv, Copied
  <1>3. "closed" \in Kinds /\ UNCHANGED <<unwritten, started>> BY DEF Kinds, CloseAction
  <1>4. /\ file' \in [lines : Seq(Line), torn : BOOLEAN] /\ entries' \in Seq(Line)
        /\ written => Plus(entries, entries', "closed", a)
        /\ ~written => entries' = entries
    BY <1>1, <1>3, WritesIs
  <1>5. /\ Turns /\ Copied'
        /\ Named(file'.lines) \subseteq known' /\ known' \subseteq known \cup {a}
    BY <1>1, <1>2, <1>3, WritesMove DEF CloseAction
  <1>6. a \in known
    BY OpenIs, <1>2, DeferralNamed DEF IInv, InHand
  <1>7. Typed' BY <1>4, <1>5 DEF CloseAction, Client, IInv, Typed
  <1>8. InHand' /\ Once'
    <2>1. \A b \in Action : IsGone(b) => IsGone(b)' BY <1>5, GoneStays
    <2> QED BY <1>5, <1>6, <2>1, OnceStays DEF CloseAction, Client, IInv, InHand
  <1>9. Listed'
    <2>1. Open(entries') \subseteq Open(entries) BY <1>4, OpenGrows
    <2> QED BY <2>1 DEF CloseAction, Client, IInv, Listed
  <1> QED BY <1>3, <1>5, <1>7, <1>8, <1>9, TurnsMove DEF IInv

LEMMA ReopenActionMoves ==
    ASSUME IInv, NEW a \in Action, ReopenAction(a)
    PROVE  IInv' /\ Book!Moves /\ Turns
  <1>1. PICK written \in BOOLEAN :
          /\ Writes("reopened", a, written)
          /\ late' = IF written /\ engine # "off" THEN late \cup {a} ELSE late
    BY DEF ReopenAction
  <1>2. Has(file.lines, "deferred", a)
    BY OpenHasDeferral DEF ReopenAction, Client, IInv, Copied
  <1>3. "reopened" \in Kinds /\ UNCHANGED <<unwritten, started>> BY DEF Kinds, ReopenAction
  <1>4. /\ file' \in [lines : Seq(Line), torn : BOOLEAN] /\ entries' \in Seq(Line)
        /\ written => Plus(entries, entries', "reopened", a)
        /\ ~written => entries' = entries
    BY <1>1, <1>3, WritesIs
  <1>5. /\ Turns /\ Copied'
        /\ Named(file'.lines) \subseteq known' /\ known' \subseteq known \cup {a}
    BY <1>1, <1>2, <1>3, WritesMove DEF ReopenAction
  <1>6. a \in known
    BY OpenIs, <1>2, DeferralNamed DEF IInv, InHand
  <1>7. Typed' BY <1>1, <1>4, <1>5 DEF ReopenAction, Client, IInv, Typed
  <1>8. InHand' /\ Once'
    <2>1. \A b \in Action : IsGone(b) => IsGone(b)' BY <1>5, GoneStays
    <2> QED BY <1>5, <1>6, <2>1, OnceStays DEF ReopenAction, Client, IInv, InHand
  <1>9. Listed'
    <2>1. CASE written
      <3>1. Open(entries') \subseteq Open(entries) \cup {a} BY <1>4, <2>1, OpenGrows
      <3> QED BY <1>1, <2>1, <3>1 DEF ReopenAction, Client, IInv, Listed
    <2>2. CASE ~written
      BY <1>1, <1>4, <2>2 DEF ReopenAction, Client, IInv, Listed
    <2> QED BY <2>1, <2>2
  <1> QED BY <1>3, <1>5, <1>7, <1>8, <1>9, TurnsMove DEF IInv

LEMMA OpensMoves ==
    ASSUME IInv, Opens
    PROVE  IInv' /\ UNCHANGED Page
  <1>1. Open(entries) \subseteq Action
    BY OpenHasDeferral, DeferralNamed DEF Opens, IInv, Typed, InHand, Copied
  <1>2. UNCHANGED Page BY PageStays DEF Opens
  <1>3. Typed' BY <1>1 DEF Opens, IInv, Typed
  <1>4. Copied' /\ InHand' /\ Listed' BY FileStays DEF Opens, IInv, Copied, InHand, Listed
  <1>5. Once'
    <2>1. \A a \in Open(entries) : IsUndecided(entries, a) BY OpenIs
    <2>2. \A a \in Open(entries) \ unwritten : ~IsGone(a)
      BY <1>1, <2>1 DEF Opens, IInv, Copied
    <2> QED BY <2>2, FileStays DEF Opens, IInv, Once
  <1> QED BY <1>2, <1>3, <1>4, <1>5 DEF IInv

LEMMA HostsMoves ==
    ASSUME IInv, Hosts
    PROVE  IInv' /\ UNCHANGED Page
  <1>1. UNCHANGED Page BY PageStays DEF Hosts
  <1>2. Typed' BY DEF Hosts, IInv, Typed
  <1>3. Copied' /\ InHand' /\ Listed' /\ Once'
    BY FileStays DEF Hosts, IInv, Copied, InHand, Listed, Once
  <1> QED BY <1>1, <1>2, <1>3 DEF IInv

LEMMA DefersMoves ==
    ASSUME IInv, NEW c \in Call, Defers(c)
    PROVE  IInv' /\ UNCHANGED Page
  <1>1. PICK n \in 1..MaxIds :
          /\ \A a \in known \cup shown : a[2] < n
          /\ held' = held \cup {<<c, n>>} /\ at' = [action |-> <<c, n>>, allow |-> FALSE]
    BY DEF Defers
  <1>2. <<c, n>> \in Action BY DEF Action
  <1>3. <<c, n>> \notin known
    <2> SUFFICES ASSUME <<c, n>> \in known PROVE FALSE OBVIOUS
    <2>1. <<c, n>>[2] < n BY <1>1
    <2> QED BY <2>1
  <1>4. at' \in Work /\ at'.action = <<c, n>> BY <1>1, <1>2 DEF Work
  <1>5. UNCHANGED Page BY PageStays DEF Defers
  <1>6. Typed' BY <1>1, <1>2, <1>4 DEF Defers, IInv, Typed
  <1>7. InHand' BY <1>1, <1>3, <1>4 DEF Defers, IInv, InHand
  <1>8. Copied' BY FileStays DEF Defers, IInv, Copied
  <1>9. Listed' BY <1>1 DEF Defers, IInv, Listed
  <1>10. Once'
    <2>1. ~IsGone(<<c, n>>) BY <1>3 DEF IsGone, StateOf
    <2> QED BY <1>1, <2>1, FileStays DEF Defers, IInv, Once
  <1> QED BY <1>5, <1>6, <1>7, <1>8, <1>9, <1>10 DEF IInv

LEMMA PublishesMoves ==
    ASSUME IInv, Publishes
    PROVE  IInv' /\ Book!Moves /\ Turns
  <1> DEFINE a == at.action
  <1>0. a \in Action /\ a \in held /\ a \notin known
    BY DEF Publishes, IInv, Typed, InHand, Work
  <1>1. PICK written \in BOOLEAN : Writes("deferred", a, written) BY DEF Publishes
  <1>2. "deferred" \in Kinds BY DEF Kinds
  <1>3. UNCHANGED <<up, hosted, queue, held, settled, started, late, unwritten>>
        /\ shown' = shown \cup {a} /\ engine' = "idle" /\ at' = Nothing
    BY DEF Publishes
  <1> HIDE DEF a
  <1>4. /\ file' \in [lines : Seq(Line), torn : BOOLEAN] /\ entries' \in Seq(Line)
        /\ written => Plus(entries, entries', "deferred", a)
        /\ ~written => entries' = entries
    BY <1>0, <1>1, <1>2, WritesIs
  <1>5. /\ Turns /\ Copied'
        /\ Named(file'.lines) \subseteq known' /\ known' \subseteq known \cup {a}
    BY <1>0, <1>1, <1>2, <1>3, WritesMove
  <1>6. Typed' BY <1>0, <1>3, <1>4, <1>5 DEF IInv, Typed
  <1>7. InHand' /\ Once'
    <2>1. \A b \in Action : IsGone(b) => IsGone(b)' BY <1>5, GoneStays
    <2> QED BY <1>3, <1>5, <2>1, OnceStays DEF InHand
  <1>8. Listed'
    <2>1. Open(entries') \subseteq Open(entries) \cup {a} BY <1>4, OpenGrows
    <2>2. Open(entries) \subseteq held \cup late \cup unwritten /\ up
      BY DEF Publishes, IInv, Listed, Typed
    <2> QED BY <1>0, <1>3, <2>1, <2>2 DEF Listed
  <1> QED BY <1>3, <1>5, <1>6, <1>7, <1>8, TurnsMove DEF IInv

LEMMA HeadIs ==
    ASSUME IInv, queue # <<>>
    PROVE  /\ Head(queue) \in Op /\ Tail(queue) \in Seq(Op)
           /\ Head(queue).op = "decide" => /\ Head(queue).action \in Action
                                           /\ Head(queue).allow \in BOOLEAN
  <1>1. Head(queue) \in Op /\ Tail(queue) \in Seq(Op) BY DEF IInv, Typed
  <1> QED BY <1>1 DEF Op

LEMMA AppliesMoves ==
    ASSUME IInv, Applies
    PROVE  IInv' /\ Book!Moves /\ Turns
  <1> DEFINE h == Head(queue)
             a == h.action
  <1>0. a \in Action /\ h.allow \in BOOLEAN /\ Tail(queue) \in Seq(Op)
    BY HeadIs DEF Applies
  <1>1. PICK written \in BOOLEAN :
          /\ Writes("decided", a, written)
          /\ unwritten' = IF written \/ IsGone(a) THEN unwritten ELSE unwritten \cup {a}
    BY DEF Applies, IsGone
  <1>2. "decided" \in Kinds BY DEF Kinds
  <1>3. UNCHANGED <<up, hosted, held, settled, shown, started, late>>
        /\ queue' = Tail(queue) /\ engine = "idle"
        /\ engine' = "deciding" /\ at' = [action |-> a, allow |-> h.allow]
    BY DEF Applies
  <1> HIDE DEF a, h
  <1>4. /\ file' \in [lines : Seq(Line), torn : BOOLEAN] /\ entries' \in Seq(Line)
        /\ written => /\ Plus(file.lines, file'.lines, "decided", a)
                      /\ Plus(entries, entries', "decided", a)
        /\ ~written => entries' = entries
    BY <1>0, <1>1, <1>2, WritesIs
  <1>5. /\ Turns /\ Copied'
        /\ Named(file'.lines) \subseteq known' /\ known' \subseteq known \cup {a}
    BY <1>0, <1>1, <1>2, <1>3, WritesMove
  <1>6. at' \in Work /\ at'.action = a BY <1>0, <1>3 DEF Work
  <1>7. Typed' BY <1>0, <1>1, <1>3, <1>4, <1>5, <1>6 DEF IInv, Typed
  <1>g. \A b \in Action : IsGone(b) => IsGone(b)' BY <1>5, GoneStays
  <1>8. InHand'
    <2>1. ASSUME NEW b \in Action, b = a PROVE b \in unwritten' \/ IsGone(b)'
      <3>1. CASE written
        <4>1. Has(file'.lines, "decided", b) BY <1>4, <2>1, <3>1 DEF Plus
        <4>2. b \in known' BY <1>5, <4>1, DeferralNamed
        <4> QED BY <4>1, <4>2 DEF IsGone, StateOf, IsUndecided
      <3>2. CASE ~written
        <4>1. IsGone(a) => IsGone(b) BY <2>1
        <4> QED BY <1>1, <1>g, <2>1, <3>2, <4>1
      <3> QED BY <3>1, <3>2
    <2> QED BY <1>3, <1>5, <1>6, <2>1 DEF InHand
  <1>9. Listed'
    <2>1. Open(entries') \subseteq Open(entries) BY <1>4, OpenGrows
    <2> QED BY <1>1, <1>3, <2>1 DEF IInv, Listed
  <1>10. Once' BY <1>1, <1>3, <1>g, OnceStays
  <1>11. Book!Moves BY <1>1, <1>3, <1>5, TurnsMove
  <1> QED BY <1>5, <1>7, <1>8, <1>9, <1>10, <1>11 DEF IInv

\* A decision starts at most the action that was written down as decided, or that could
\* not be.
LEMMA DecidesMoves ==
    ASSUME IInv, Decides
    PROVE  IInv' /\ (Book!Starts \/ UNCHANGED Page)
  <1> DEFINE a == at.action
  <1>0. a \in Action /\ (a \in unwritten \/ IsGone(a))
    BY DEF Decides, IInv, Typed, InHand, Work
  <1>1. /\ UNCHANGED <<file, entries, up, hosted, queue, shown, known, late, unwritten>>
        /\ engine' = "idle" /\ at' = Nothing
        /\ \/ a \in held /\ held' = held \ {a} /\ settled' = settled \cup {a[1]}
              /\ started' = [started EXCEPT ![a] = @ + 1]
           \/ held' = held \ {a} /\ settled' = settled \cup {a[1]} /\ UNCHANGED started
           \/ UNCHANGED <<held, settled, started>>
    BY DEF Decides
  <1>2. a[1] \in Call BY <1>0 DEF Action
  <1> HIDE DEF a
  <1>3. Typed' BY <1>0, <1>1, <1>2 DEF IInv, Typed
  <1>4. Copied' /\ InHand' BY <1>1, FileStays DEF IInv, Copied, InHand
  <1>5. Listed'
    <2>1. engine # "off" /\ up BY DEF Decides, IInv, Listed, Typed
    <2>2. a \in Open(entries) => a \in unwritten BY <1>0, <2>1, OpenIs DEF IInv, Copied
    <2> QED BY <1>1, <2>1, <2>2 DEF IInv, Listed
  <1>6. CASE UNCHANGED started
    <2>1. UNCHANGED Page BY <1>1, <1>6, PageStays
    <2>2. Once' BY <1>1, <1>6, FileStays DEF IInv, Once
    <2> QED BY <1>3, <1>4, <1>5, <2>1, <2>2 DEF IInv
  <1>7. CASE a \in held /\ held' = held \ {a} /\ started' = [started EXCEPT ![a] = @ + 1]
    <2>1. started \in [Action -> Nat] BY DEF IInv, Typed
    <2>2. \A b \in Action : b # a => started'[b] = started[b] BY <1>7, <2>1
    <2>3. Once' BY <1>0, <1>1, <1>7, <2>2, FileStays DEF IInv, Once
    <2>4. a \in unwritten \/ (IsGone(a) /\ started[a] = 0)
      BY <1>0, <1>7 DEF IInv, Once
    <2> DEFINE f == [b \in Action |-> IF b \in unwritten THEN "void" ELSE StateOf(file.lines, b)]
    <2>5. f' = f
      <3>1. \A b : StateOf(file.lines, b)' = StateOf(file.lines, b) BY <1>1 DEF StateOf
      <3> QED BY <1>1, <3>1
    <2>6. f[a] = "void" \/ (f[a] = "gone" /\ started[a] = 0) BY <1>0, <2>4 DEF IsGone
    <2>7. Book!Starts BY <1>0, <1>7, <2>5, <2>6 DEF Book!Starts
    <2> QED BY <1>3, <1>4, <1>5, <2>3, <2>7 DEF IInv
  <1> QED BY <1>1, <1>6, <1>7

LEMMA StopsMoves ==
    ASSUME IInv, Stops
    PROVE  IInv' /\ UNCHANGED Page
  <1>1. <<>> \in Seq(Op) OBVIOUS
  <1>2. UNCHANGED Page BY PageStays DEF Stops
  <1>3. Typed' BY <1>1 DEF Stops, IInv, Typed
  <1>4. Copied' /\ InHand' /\ Listed' /\ Once'
    BY FileStays DEF Stops, IInv, Copied, InHand, Listed, Once
  <1> QED BY <1>2, <1>3, <1>4 DEF IInv

LEMMA CrashMoves ==
    ASSUME IInv, Crash
    PROVE  IInv' /\ Book!Moves /\ Turns
  <1> DEFINE l == file.lines
             lt == Append(l, Torn)
  <1>1. l \in Seq(Line) BY DEF IInv, Typed
  <1>2. lt \in Seq(Line) /\ Same(l, lt) BY <1>1, TornIsSame
  <1>3. file' = file \/ file' = [lines |-> lt, torn |-> TRUE] BY DEF Crash
  <1> HIDE DEF lt
  <1>4. file' \in [lines : Seq(Line), torn : BOOLEAN] /\ file'.lines \in {l, lt}
    <2>1. CASE file' = file BY <2>1 DEF IInv, Typed
    <2>2. CASE file' = [lines |-> lt, torn |-> TRUE] BY <1>2, <2>2
    <2> QED BY <1>3, <2>1, <2>2
  <1> DEFINE m == file'.lines
  <1> HIDE DEF l
  <1>5. Same(l, m) BY <1>2, <1>4 DEF Same
  <1> HIDE DEF m
  <1>6. /\ up' = FALSE /\ hosted' = FALSE /\ queue' = <<>> /\ engine' = "off" /\ at' = Nothing
        /\ held' = {} /\ settled' = {} /\ late' = {}
        /\ UNCHANGED <<entries, shown, started, known, unwritten>>
    BY DEF Crash
  <1>7. Typed'
    <2>1. queue' \in Seq(Op) BY <1>6
    <2>2. entries \in Seq(Line) /\ shown \subseteq Action /\ started \in [Action -> Nat]
          /\ known \subseteq Action /\ unwritten \subseteq Action
      BY DEF IInv, Typed
    <2> QED BY <1>4, <1>6, <2>1, <2>2 DEF Typed
  <1>8. Copied' /\ InHand' /\ Listed'
    BY <1>5, <1>6 DEF IInv, Copied, InHand, Listed, Same, l, m
  <1>9. Turns
    <2>1. \A b : StateOf(file.lines, b)' =
            IF ~IsUndecided(m, b) THEN IF b \in known' THEN "gone" ELSE "new"
            ELSE IF IsClosed(m, b) THEN "closed" ELSE "open"
      BY DEF StateOf, m
    <2>2. \A b : IsUndecided(m, b) <=> IsUndecided(l, b) BY <1>5 DEF IsUndecided, Same
    <2>3. \A b : IsClosed(m, b) <=> IsClosed(l, b) BY <1>5 DEF Same
    <2>4. \A b : StateOf(file.lines, b)' = StateOf(file.lines, b)
      BY <1>6, <2>1, <2>2, <2>3 DEF StateOf, l
    <2>5. \A b : <<StateOf(file.lines, b), StateOf(file.lines, b)>> \in Book!Steps
      BY DEF StateOf, Book!Steps
    <2> QED BY <2>4, <2>5 DEF Turns
  <1>10. Once'
    <2>1. \A b \in Action : IsGone(b) => IsGone(b)' BY <1>9, GoneStays
    <2> QED BY <1>6, <2>1, OnceStays
  <1>11. Book!Moves BY <1>6, <1>9, TurnsMove
  <1> QED BY <1>7, <1>8, <1>9, <1>10, <1>11 DEF IInv

\* What a compaction leaves out is gone; what it keeps is as it was.
LEMMA RestartMoves ==
    ASSUME IInv, Restart
    PROVE  IInv' /\ Book!Moves /\ Turns
  <1> DEFINE l == file.lines
  <1>0. PICK kept \in SUBSET Closed(l) :
          \E all \in SetToSeqs(Open(l) \cup kept), put \in SetToSeqs(kept) :
              file' = Rewritten(file, Compacted(all, put))
    BY DEF Restart
  <1>1. PICK all \in SetToSeqs(Open(l) \cup kept), put \in SetToSeqs(kept) :
          file' = Rewritten(file, Compacted(all, put))
    BY <1>0
  <1> DEFINE c == Compacted(all, put)
             m == file'.lines
  <1>2. l \in Seq(Line) /\ Named(l) \subseteq known /\ known \subseteq Action
    BY DEF IInv, Typed, InHand
  <1> HIDE DEF l, c
  <1>3. /\ c \in Seq(Line)
        /\ \A b : Has(c, "deferred", b) <=> b \in Open(l) \cup kept
        /\ \A b : ~Has(c, "decided", b)
        /\ \A b : IsClosed(c, b) <=> b \in kept
        /\ Named(c) = Open(l) \cup kept
    <2>1. Named(l) \subseteq Action BY <1>2
    <2> QED BY <1>1, <1>2, <2>1, CompactionIs DEF c
  <1>4. file' = file \/ file' = [lines |-> c, torn |-> FALSE]
    BY <1>1 DEF Rewritten, c
  <1>5. m \in {l, c} /\ file' \in [lines : Seq(Line), torn : BOOLEAN]
    <2>1. CASE file' = file BY <2>1 DEF IInv, Typed, l
    <2>2. CASE file' = [lines |-> c, torn |-> FALSE] BY <1>3, <2>2
    <2> QED BY <1>4, <2>1, <2>2
  <1> HIDE DEF m
  <1>6. /\ up' = TRUE /\ entries' = m /\ m \in Seq(Line)
        /\ UNCHANGED <<hosted, queue, engine, at, held, settled, shown, started, known, late,
                       unwritten>>
    BY <1>2, <1>3, <1>5 DEF Restart, m
  <1>7. engine = "off" BY DEF Restart, IInv, Listed, Typed
  <1>8. Typed' BY <1>5, <1>6 DEF IInv, Typed
  <1>9. Named(m) \subseteq known
    <2>1. kept \subseteq Named(l) /\ Open(l) \subseteq Named(l) BY OpenIs
    <2> QED BY <1>2, <1>3, <1>5, <2>1
  <1>10. Copied' /\ InHand' /\ Listed'
    <2>1. \A b : IsGone(b)' => ~IsUndecided(m, b) BY DEF IsGone, StateOf, m
    <2> QED BY <1>6, <1>7, <1>9, <2>1 DEF Copied, InHand, Listed, m
  <1>11. ASSUME NEW b \in Action PROVE <<StateOf(l, b), StateOf(file.lines, b)'>> \in Book!Steps
    <2>1. StateOf(file.lines, b)' =
            IF ~IsUndecided(m, b) THEN IF b \in known THEN "gone" ELSE "new"
            ELSE IF IsClosed(m, b) THEN "closed" ELSE "open"
      BY <1>6 DEF StateOf, m
    <2>2. StateOf(l, b) = IF ~IsUndecided(l, b) THEN IF b \in known THEN "gone" ELSE "new"
                         ELSE IF IsClosed(l, b) THEN "closed" ELSE "open"
      BY DEF StateOf
    <2> DEFINE x == StateOf(file.lines, b)'
               y == StateOf(l, b)
    <2> HIDE DEF x, y
    <2>3. CASE m = l BY <2>1, <2>2, <2>3 DEF Book!Steps, x, y
    <2>4. CASE m = c
      <3>1. IsUndecided(m, b) <=> b \in Open(l) \cup kept BY <1>3, <2>4 DEF IsUndecided
      <3>2. IsClosed(m, b) <=> b \in kept BY <1>3, <2>4
      <3>3. IsUndecided(l, b) => b \in known
        BY <1>2, DeferralNamed DEF IsUndecided
      <3>4. b \in Open(l) <=> IsUndecided(l, b) /\ ~IsClosed(l, b) BY OpenIs
      <3>5. b \in kept => IsUndecided(l, b) /\ IsClosed(l, b) BY OpenIs
      <3> QED BY <2>1, <2>2, <3>1, <3>2, <3>3, <3>4, <3>5 DEF Book!Steps, x, y
    <2> QED BY <1>5, <2>3, <2>4
  <1>12. Turns BY <1>11 DEF Turns, l
  <1>13. Once'
    <2>1. \A b \in Action : IsGone(b) => IsGone(b)' BY <1>12, GoneStays
    <2> QED BY <1>6, <2>1, OnceStays
  <1>14. Book!Moves BY <1>6, <1>12, TurnsMove
  <1> QED BY <1>8, <1>10, <1>12, <1>13, <1>14 DEF IInv

LEMMA ActionsStep ==
    ASSUME IInv, [Next]_vars
    PROVE  IInv' /\ [Book!Next]_Page /\ (Turns \/ UNCHANGED <<file, known>>)
  <1> DEFINE Goal == IInv' /\ [Book!Next]_Page /\ (Turns \/ UNCHANGED <<file, known>>)
  <1>1. ASSUME NEW a \in Action, NEW allow \in BOOLEAN, Decide(a, allow) PROVE Goal
    <2>1. UNCHANGED <<file, known>> BY <1>1 DEF Decide
    <2> QED BY <1>1, <2>1, DecideMoves
  <1>2. ASSUME NEW a \in Action, CloseAction(a) PROVE Goal
    BY <1>2, CloseActionMoves DEF Book!Next
  <1>3. ASSUME NEW a \in Action, ReopenAction(a) PROVE Goal
    BY <1>3, ReopenActionMoves DEF Book!Next
  <1>4. CASE CloseSession \/ Opens \/ Hosts \/ Stops
    <2>1. UNCHANGED <<file, known>> BY <1>4 DEF CloseSession, Opens, Hosts, Stops
    <2> QED BY <1>4, <2>1, CloseSessionMoves, OpensMoves, HostsMoves, StopsMoves
  <1>5. ASSUME NEW c \in Call, Defers(c) PROVE Goal
    <2>1. UNCHANGED <<file, known>> BY <1>5 DEF Defers
    <2> QED BY <1>5, <2>1, DefersMoves
  <1>6. CASE Publishes \/ Applies \/ Crash \/ Restart
    BY <1>6, PublishesMoves, AppliesMoves, CrashMoves, RestartMoves DEF Book!Next
  <1>7. CASE Decides
    <2>1. UNCHANGED <<file, known>> BY <1>7 DEF Decides
    <2> QED BY <1>7, <2>1, DecidesMoves DEF Book!Next
  <1>8. CASE UNCHANGED vars
    <2>1. UNCHANGED Page BY <1>8, PageStays DEF vars
    <2>2. Typed' BY <1>8 DEF vars, IInv, Typed
    <2>3. Copied' /\ InHand' /\ Listed' /\ Once'
      BY <1>8, FileStays DEF vars, IInv, Copied, InHand, Listed, Once
    <2>4. UNCHANGED <<file, known>> BY <1>8 DEF vars
    <2> QED BY <2>1, <2>2, <2>3, <2>4 DEF IInv
  <1> QED BY <1>1, <1>2, <1>3, <1>4, <1>5, <1>6, <1>7, <1>8 DEF Next

\* Every state of the log, the engine and what lies between is typed, for any number of
\* calls, clients' ops, crashes and failed writes (Store::open, AgentCore::decide_action).
THEOREM ActionTypes == Spec => []TypeOK
  <1>1. IInv /\ [Next]_vars => IInv' BY ActionsStep
  <1>2. IInv => TypeOK BY TypedIsTypeOK DEF IInv
  <1> QED BY InitBooks, <1>1, <1>2, PTL DEF Spec

\* What clients see as open can be decided: the session's engine has it, or it was
\* reopened since the engine started, or its decision could not be written
\* (resume_session, apply).
THEOREM ListedStaysHeld == Spec => []ListedIsHeld
  <1>1. IInv => ListedIsHeld BY DEF IInv, Listed, ListedIsHeld
  <1>2. IInv /\ [Next]_vars => IInv' BY ActionsStep
  <1> QED BY InitBooks, <1>1, <1>2, PTL DEF Spec

\* An action that is gone from the file, decided or put away for too long, never comes
\* back, whatever writes fail, crashes, torn lines and compactions there are
\* (Store::append_locked, read, compact).
THEOREM GoneIsForEver ==
    Spec => [][\A a \in Action : IsGone(a) => IsGone(a)']_vars
  <1> DEFINE A == \A a \in Action : IsGone(a) => IsGone(a)'
  <1>1. ASSUME IInv, [Next]_vars PROVE IInv' /\ A
    <2>1. IInv' /\ (Turns \/ UNCHANGED <<file, known>>) BY <1>1, ActionsStep
    <2>2. CASE Turns BY <2>1, <2>2, GoneStays
    <2>3. CASE UNCHANGED <<file, known>> BY <2>1, <2>3, FileStays
    <2> QED BY <2>1, <2>2, <2>3
  <1>2. IInv /\ [Next]_vars => IInv' /\ [A]_vars BY <1>1
  <1> HIDE DEF A
  <1>3. Spec => [][A]_vars BY InitBooks, <1>2, PTL DEF Spec
  <1> QED BY <1>3 DEF A

\* The log, the engine and the daemon implement the book: an action is started once at
\* most, and by a decision that is on disk, so that no crash offers it again, unless the
\* write of its decision failed (Store::append_locked, apply, AgentCore::decide_action).
THEOREM BookIsKept == Spec => KeepsTheBook
  <1>1. IInv /\ [Next]_vars => IInv' /\ [Book!Next]_Page BY ActionsStep
  <1> QED BY InitBooks, <1>1, PTL DEF Spec, KeepsTheBook, Book!Spec, Page

StartedAreGone == \A a \in Action \ unwritten : started[a] # 0 => IsGone(a) /\ a \notin held

\* Whatever was started is gone from the file, and no engine has it to start again,
\* unless the write of its decision failed (AgentCore::decide_action,
\* Store::open_actions).
THEOREM StartedIsGone == Spec => []StartedAreGone
  <1>1. IInv => StartedAreGone BY DEF IInv, Once, StartedAreGone
  <1>2. IInv /\ [Next]_vars => IInv' BY ActionsStep
  <1> QED BY InitBooks, <1>1, <1>2, PTL DEF Spec

-----------------------------------------------------------------------------
(* The promise of the storage *)

CONSTANT Entries
VARIABLES said, kept, safe, spoilt

Storage == INSTANCE Conversation WITH shown <- said

SafeIsKept == spoilt \/ safe \subseteq kept

LEMMA KeepStep ==
    ASSUME SafeIsKept, [Storage!Next]_<<said, kept, safe, spoilt>>
    PROVE  SafeIsKept'
  <1>1. CASE Storage!Say
    BY <1>1 DEF Storage!Say, SafeIsKept
  <1>2. CASE Storage!Prune
    BY <1>2 DEF Storage!Prune, SafeIsKept
  <1>3. CASE Storage!Store
    \* A safe entry is shown, and a shown one is not dropped.
    BY <1>3 DEF Storage!Store, SafeIsKept
  <1>8. CASE Storage!Spoil
    BY <1>8 DEF Storage!Spoil, SafeIsKept
  <1>4. CASE Storage!Commit
    BY <1>4 DEF Storage!Commit, SafeIsKept
  <1>5. CASE Storage!Lose
    BY <1>5 DEF Storage!Lose, SafeIsKept
  <1>6. CASE Storage!Restore
    BY <1>6 DEF Storage!Restore, SafeIsKept
  <1>7. CASE UNCHANGED <<said, kept, safe, spoilt>>
    BY <1>7 DEF SafeIsKept
  <1> QED BY <1>1, <1>2, <1>3, <1>4, <1>5, <1>6, <1>7, <1>8 DEF Storage!Next

\* Every store that keeps the promise gives back what it acknowledged, as long as
\* it can be read (save_for_cwd: "acknowledged records survive power loss").
THEOREM SafeSurvives == Storage!Spec => []SafeIsKept
  <1>1. Storage!Init => SafeIsKept
    BY DEF Storage!Init, SafeIsKept
  <1>2. SafeIsKept /\ [Storage!Next]_<<said, kept, safe, spoilt>> => SafeIsKept'
    BY KeepStep
  <1> QED BY <1>1, <1>2, PTL DEF Storage!Spec

=============================================================================
