------------------------- MODULE UsageLedgerProofs -------------------------
(***************************************************************************)
(* Proofs about UsageLedger: every request is counted once, a turn the     *)
(* daemon opened is written once and whole, and what is passed over in     *)
(* usage.jsonl was uploaded.                                               *)
(*                                                                         *)
(* The invariant of the first two is about the books: what counts what was *)
(* spent and on which turn.  A step of the ledger is a few simple changes  *)
(* of the books one after the other (a turn is opened, then spent on, then *)
(* closed), and the invariant is kept by each, so it is stated of any      *)
(* books, of which those of a state are an instance.                       *)
(***************************************************************************)
EXTENDS UsageLedger, FiniteSetTheorems, SequenceTheorems, TLAPS

Record == [turn : Turn, session : Session, spent : SUBSET Spend]
Request == [session : Custom, turn : Turn, spend : Spend, metered : BOOLEAN]
Worker == [tag : 0..MaxTurns, running : BOOLEAN, done : BOOLEAN, queued : 0..1,
           spent : SUBSET Spend]

\* All that was lost, for whatever reason.
All(l) == UNION {l[why] : why \in Why}
Gone == All(lost)

Books == [current |-> current, open |-> open, requests |-> requests, engine |-> engine,
          lines |-> lines, lost |-> Gone, turns |-> turns, spends |-> spends]

BooksTyped(b) ==
    /\ b.current \in [Session -> 0..MaxTurns]
    /\ b.open \subseteq Record /\ IsFiniteSet(b.open)
    /\ b.requests \subseteq Request
    /\ b.engine \in [Tagged -> Worker]
    /\ b.lines \in Seq(Line) /\ b.lost \subseteq Spend
    /\ b.turns \in 0..MaxTurns /\ b.spends \in 0..MaxSpends

\* Turn t is one of session s.
Holds(b, s, t) ==
    \/ b.current[s] = t
    \/ s \in Tagged /\ b.engine[s].tag = t
    \/ \E r \in b.open : r.session = s /\ r.turn = t
    \/ \E q \in b.requests : q.session = s /\ q.turn = t
    \/ \E i \in DOMAIN b.lines : b.lines[i].session = s /\ b.lines[i].turn = t

\* A turn is one session's.
Owned(b) ==
    \A t \in Turn, s \in Session : Holds(b, s, t) =>
        t <= b.turns /\ \A u \in Session : Holds(b, u, t) => u = s

\* A turn has one record, and none, nor a request, once it is written (TurnIsWhole).
Whole(b) ==
    /\ \A r, q \in b.open : r.turn = q.turn => r = q
    /\ \A i \in DOMAIN b.lines : b.lines[i].session \notin Tagged =>
        /\ \A j \in DOMAIN b.lines : b.lines[i].turn = b.lines[j].turn => i = j
        /\ \A r \in b.open \cup b.requests : r.turn # b.lines[i].turn
        /\ b.current[b.lines[i].session] # b.lines[i].turn

InEngine(b, n) == \E s \in Tagged : n \in b.engine[s].spent
InFlight(b, n) == \E q \in b.requests : q.spend = n /\ ~q.metered
OnRecord(b, n) == \E r \in b.open : n \in r.spent
OnLine(b, n) == \E i \in DOMAIN b.lines : n \in b.lines[i].spent

\* What was spent is somewhere,
Accounted(b) ==
    \A n \in Spend : n <= b.spends <=>
        InEngine(b, n) \/ InFlight(b, n) \/ OnRecord(b, n) \/ OnLine(b, n) \/ n \in b.lost

\* in one kind of place,
Apart(b) ==
    \A n \in Spend :
        /\ InEngine(b, n) => ~InFlight(b, n) /\ ~OnRecord(b, n) /\ ~OnLine(b, n) /\ n \notin b.lost
        /\ InFlight(b, n) => ~OnRecord(b, n) /\ ~OnLine(b, n) /\ n \notin b.lost
        /\ OnRecord(b, n) => ~OnLine(b, n) /\ n \notin b.lost
        /\ OnLine(b, n) => n \notin b.lost

\* and in one of the kind.
Once(b) ==
    /\ \A s, u \in Tagged, n \in Spend :
        n \in b.engine[s].spent /\ n \in b.engine[u].spent => s = u
    /\ \A q, r \in b.requests : q.spend = r.spend => q = r
    /\ \A q \in b.requests : q.spend <= b.spends
    /\ \A r, q \in b.open, n \in Spend : n \in r.spent /\ n \in q.spent => r = q
    /\ \A i, j \in DOMAIN b.lines, n \in Spend :
        n \in b.lines[i].spent /\ n \in b.lines[j].spent => i = j

\* The invariant.
Kept(b) == BooksTyped(b) /\ Owned(b) /\ Whole(b) /\ Accounted(b) /\ Apart(b) /\ Once(b)

-----------------------------------------------------------------------------
(* The operators the ledger is built from. *)

\* SetToSeq lists each element of a finite set once.
LEMMA SetListed ==
    ASSUME NEW S, IsFiniteSet(S)
    PROVE  /\ SetToSeq(S) \in Seq(S)
           /\ \A x \in S : \E i \in DOMAIN SetToSeq(S) : SetToSeq(S)[i] = x
           /\ \A i, j \in DOMAIN SetToSeq(S) : SetToSeq(S)[i] = SetToSeq(S)[j] => i = j
<1> DEFINE n == Cardinality(S)
           f == SetToSeq(S)
<1>1. n \in Nat /\ ExistsBijection(1..n, S) BY FS_CardinalityType
<1>2. \E g \in [1..n -> S] : IsInjective(g)
  BY <1>1 DEF ExistsBijection, Bijection, Injection
<1>3. f \in [1..n -> S] /\ IsInjective(f) BY <1>2 DEF SetToSeq
<1> HIDE DEF f
<1>4. f \in Injection(1..n, S) BY <1>3 DEF Injection
<1>5. IsFiniteSet(1..n) /\ Cardinality(1..n) = n
  <2>1. 1 \in Int /\ n \in Int BY <1>1
  <2>2. Cardinality(1..n) = (IF 1 > n THEN 0 ELSE n - 1 + 1) /\ IsFiniteSet(1..n)
    BY <2>1, FS_Interval
  <2> QED BY <1>1, <2>2
<1>6. f \in Surjection(1..n, S) BY <1>4, <1>5, FS_Injection
<1>7. f \in Seq(S) BY <1>1, <1>3
<1>8. DOMAIN f = 1..n BY <1>3
<1>9. \A x \in S : \E i \in 1..n : f[i] = x BY <1>6 DEF Surjection
<1>10. \A i, j \in 1..n : f[i] = f[j] => i = j BY <1>3, <1>8 DEF IsInjective
<1> QED BY <1>7, <1>8, <1>9, <1>10 DEF f

\* What Added makes of the records.
LEMMA AddedIs ==
    ASSUME NEW s \in Session, NEW t \in Turn, NEW what \in SUBSET Spend,
           open \subseteq Record, IsFiniteSet(open),
           \A r, q \in open : r.turn = q.turn => r = q
    PROVE  /\ Added(s, t, what) \subseteq Record /\ IsFiniteSet(Added(s, t, what))
           /\ \A r \in Added(s, t, what) : r \in open \/ (r.turn = t /\ r.session = s)
           /\ \A r, q \in Added(s, t, what) : r.turn = q.turn => r = q
           /\ \A n : (\E r \in Added(s, t, what) : n \in r.spent)
                        <=> n \in what \/ \E r \in open : n \in r.spent
           /\ \A r \in Added(s, t, what) : r.turn # t => r \in open
           /\ \A r \in Added(s, t, what) : r.turn = t =>
                \A n \in r.spent : n \in what \/ \E q \in open : q.turn = t /\ n \in q.spent
<1> DEFINE before == UNION {r.spent : r \in {q \in open : q.turn = t}}
           rest == {r \in open : r.turn # t}
           new == [turn |-> t, session |-> s, spent |-> before \cup what]
           A == Added(s, t, what)
<1>1. A = rest \cup {new} BY DEF Added
<1>2. before \subseteq Spend BY DEF Record
<1>3. new \in Record /\ new.turn = t /\ new.session = s /\ new.spent = before \cup what
  BY <1>2 DEF Record
<1>4. \A n : n \in before <=> \E q \in open : q.turn = t /\ n \in q.spent OBVIOUS
<1> HIDE DEF before, new, A
<1>5. A \subseteq Record BY <1>1, <1>3
<1>6. IsFiniteSet(A)
  <2>1. IsFiniteSet(rest) BY FS_Subset
  <2> QED BY <2>1, <1>1, FS_AddElement
<1>7. \A r \in A : r \in open \/ (r.turn = t /\ r.session = s) BY <1>1, <1>3
<1>8. \A r, q \in A : r.turn = q.turn => r = q BY <1>1, <1>3
<1>9. \A n : (\E r \in A : n \in r.spent) <=> n \in what \/ \E r \in open : n \in r.spent
  BY <1>1, <1>3, <1>4
<1>10. \A r \in A : r.turn # t => r \in open BY <1>1, <1>3
<1>11. \A r \in A : r.turn = t =>
          \A n \in r.spent : n \in what \/ \E q \in open : q.turn = t /\ n \in q.spent
  BY <1>1, <1>3, <1>4
<1> QED BY <1>5, <1>6, <1>7, <1>8, <1>9, <1>10, <1>11 DEF A

\* The lines of a session are its records, one a line.
LEMMA LinesAre ==
    ASSUME NEW s \in Session, NEW R \in SUBSET Record, IsFiniteSet(R),
           \A r, q \in R : r.turn = q.turn => r = q
    PROVE  /\ LinesOf(s, R) \in Seq(Line)
           /\ \A i \in DOMAIN LinesOf(s, R) : \E r \in R :
                /\ r.session = s /\ LinesOf(s, R)[i].session = s
                /\ LinesOf(s, R)[i].turn = r.turn /\ LinesOf(s, R)[i].spent = r.spent
           /\ \A r \in R : r.session = s => \E i \in DOMAIN LinesOf(s, R) :
                LinesOf(s, R)[i].turn = r.turn /\ LinesOf(s, R)[i].spent = r.spent
           /\ \A i, j \in DOMAIN LinesOf(s, R) : LinesOf(s, R)[i].turn = LinesOf(s, R)[j].turn => i = j
<1> DEFINE mine == {q \in R : q.session = s}
           line(r) == [turn |-> r.turn, session |-> s, spent |-> r.spent,
                       upload |-> account # Nobody]
           S == {line(r) : r \in mine}
           f == [r \in mine |-> line(r)]
           L == LinesOf(s, R)
<1>1. L = SetToSeq(S) BY DEF LinesOf
<1>2. IsFiniteSet(mine) BY FS_Subset
<1>3. \A r \in mine : /\ line(r) \in Line /\ line(r).session = s
                      /\ line(r).turn = r.turn /\ line(r).spent = r.spent
  BY DEF Line, Record
<1> HIDE DEF line, mine
<1>4. IsFiniteSet(S)
  <2>1. f \in Surjection(mine, S) BY DEF Surjection
  <2> QED BY <2>1, <1>2, FS_Surjection
<1>5. S \subseteq Line BY <1>3
<1> HIDE DEF S
<1>6. /\ L \in Seq(S)
      /\ \A x \in S : \E i \in DOMAIN L : L[i] = x
      /\ \A i, j \in DOMAIN L : L[i] = L[j] => i = j
  BY <1>1, <1>4, SetListed
<1> HIDE DEF L
<1>7. \A i \in DOMAIN L : L[i] \in S BY <1>6
<1>8. L \in Seq(Line) BY <1>5, <1>6
<1>9. \A i \in DOMAIN L : \E r \in mine : L[i] = line(r) BY <1>7 DEF S
<1>10. \A r \in mine : \E i \in DOMAIN L : L[i] = line(r) BY <1>6 DEF S
<1>11. ASSUME NEW i \in DOMAIN L, NEW j \in DOMAIN L, L[i].turn = L[j].turn PROVE i = j
  <2>1. PICK r \in mine : L[i] = line(r) BY <1>9
  <2>2. PICK q \in mine : L[j] = line(q) BY <1>9
  <2>3. r.turn = q.turn BY <2>1, <2>2, <1>3, <1>11
  <2>4. r = q BY <2>3 DEF mine
  <2> QED BY <2>1, <2>2, <2>4, <1>6
<1>12. \A r : r \in mine <=> r \in R /\ r.session = s BY DEF mine
<1> QED BY <1>3, <1>8, <1>9, <1>10, <1>11, <1>12 DEF L

-----------------------------------------------------------------------------
(* Changes of the books. *)

LEMMA Numbers ==
    /\ MaxTurns \in Nat /\ MaxSpends \in Nat /\ MaxMishaps \in Nat
    /\ Tagged \subseteq Session /\ Custom \subseteq Session /\ Events \subseteq Session
    /\ \A s \in Events \cup Custom : s \notin Tagged
BY UsageAssumption DEF Session

\* A line says what a line says.
LEMMA LineIs ==
    ASSUME NEW b, BooksTyped(b), NEW i \in DOMAIN b.lines
    PROVE  /\ b.lines[i] \in Line /\ b.lines[i].turn \in Turn /\ b.lines[i].session \in Session
           /\ i \in Nat
<1>1. b.lines \in Seq(Line) BY DEF BooksTyped
<1>2. b.lines[i] \in Line /\ i \in Nat BY <1>1
<1> QED BY <1>2 DEF Line

\* The daemon opens a turn of a session.
LEMMA TurnOpens ==
    ASSUME NEW b, NEW m, Kept(b), NEW s \in Session, b.turns < MaxTurns,
           m.turns = b.turns + 1, m.current = [b.current EXCEPT ![s] = b.turns + 1],
           m.open = b.open, m.requests = b.requests, m.engine = b.engine,
           m.lines = b.lines, m.lost = b.lost, m.spends = b.spends
    PROVE  Kept(m)
<1> DEFINE t == b.turns + 1
<1>1. /\ b.turns \in Nat /\ t \in Turn /\ t \in 0..MaxTurns
      /\ \A k \in Turn : k <= b.turns => k # t /\ k <= t
  BY Numbers DEF Kept, BooksTyped, Turn
<1> HIDE DEF t
<1>2. m.turns = t /\ m.current = [b.current EXCEPT ![s] = t] BY DEF t
<1>3. b.current \in [Session -> 0..MaxTurns] BY DEF Kept, BooksTyped
<1>4. BooksTyped(m) BY <1>1, <1>2, <1>3 DEF Kept, BooksTyped
<1>5. \A u \in Session : m.current[u] = IF u = s THEN t ELSE b.current[u] BY <1>2, <1>3
<1>6. \A k \in Turn, u \in Session : Holds(m, u, k) => Holds(b, u, k) \/ (u = s /\ k = t)
  BY <1>5 DEF Holds
<1>7. Owned(m) BY <1>1, <1>2, <1>6 DEF Kept, Owned
<1>8. Whole(m)
  <2>1. ASSUME NEW i \in DOMAIN b.lines PROVE b.lines[i].turn # t
    <3>1. Holds(b, b.lines[i].session, b.lines[i].turn) BY DEF Holds
    <3> QED BY <3>1, <1>1, LineIs DEF Kept, Owned
  <2> QED BY <2>1, <1>5, LineIs DEF Kept, Whole
<1>9. Accounted(m) /\ Apart(m) /\ Once(m)
  BY DEF Kept, Accounted, Apart, Once, InEngine, InFlight, OnRecord, OnLine
<1> QED BY <1>4, <1>7, <1>8, <1>9 DEF Kept

\* The engine's own turns and its worker: it goes to another turn, or drops what it has.
LEMMA WorkerKept ==
    ASSUME NEW b, NEW m, Kept(b), NEW s \in Tagged, NEW w \in Worker, NEW dropped,
           m.engine = [b.engine EXCEPT ![s] = w],
           \/ w.tag \in {0, b.engine[s].tag} /\ m.turns = b.turns
           \/ w.tag = b.turns + 1 /\ b.turns < MaxTurns /\ m.turns = b.turns + 1,
           \A n : n \in b.engine[s].spent <=> n \in w.spent \/ n \in dropped,
           \A n \in dropped : n \notin w.spent,
           m.lost = b.lost \cup dropped,
           m.current = b.current, m.open = b.open, m.requests = b.requests,
           m.lines = b.lines, m.spends = b.spends
    PROVE  Kept(m)
<1>1. b.turns \in Nat /\ m.turns \in 0..MaxTurns /\ b.turns <= m.turns
  BY Numbers DEF Kept, BooksTyped
<1>2. /\ b.engine \in [Tagged -> Worker] /\ m.engine \in [Tagged -> Worker]
      /\ m.engine[s] = w /\ \A u \in Tagged : u # s => m.engine[u] = b.engine[u]
  BY DEF Kept, BooksTyped
<1>3. dropped \subseteq Spend
  <2>1. b.engine[s] \in Worker BY <1>2
  <2> QED BY <2>1 DEF Worker
<1>4. BooksTyped(m) BY <1>1, <1>2, <1>3 DEF Kept, BooksTyped
<1>5. ASSUME NEW k \in Turn, NEW u \in Session, Holds(m, u, k)
      PROVE  Holds(b, u, k) \/ (u = s /\ k = b.turns + 1 /\ m.turns = b.turns + 1)
  <2>1. 0 \notin Turn BY DEF Turn
  <2> QED BY <2>1, <1>2, <1>5 DEF Holds
<1>6. Owned(m)
  <2>1. ASSUME NEW k \in Turn, NEW u \in Session, Holds(b, u, k) PROVE k <= m.turns /\ k # b.turns + 1
    <3>1. k \in Nat /\ k <= b.turns BY <2>1 DEF Turn, Kept, Owned
    <3> QED BY <3>1, <1>1, Numbers
  <2> QED BY <2>1, <1>1, <1>5 DEF Kept, Owned
<1>7. Whole(m) BY DEF Kept, Whole
<1>8. \A n \in Spend : /\ InFlight(m, n) <=> InFlight(b, n)
                       /\ OnRecord(m, n) <=> OnRecord(b, n)
                       /\ OnLine(m, n) <=> OnLine(b, n)
                       /\ n \in m.lost <=> n \in b.lost \/ n \in dropped
  BY DEF InFlight, OnRecord, OnLine
<1>9. \A n \in dropped : ~InEngine(m, n) /\ InEngine(b, n)
  <2>1. \A n \in dropped, u \in Tagged : n \in b.engine[s].spent /\ (n \in b.engine[u].spent => u = s)
    BY <1>3 DEF Kept, Once
  <2> QED BY <2>1, <1>2 DEF InEngine
<1>10. \A n \in Spend : n \notin dropped => (InEngine(m, n) <=> InEngine(b, n))
  BY <1>2 DEF InEngine
<1>11. Accounted(m) BY <1>8, <1>9, <1>10 DEF Kept, Accounted
<1>12. Apart(m) BY <1>8, <1>9, <1>10 DEF Kept, Apart
<1>13. Once(m)
  <2>1. \A u \in Tagged : \A n : n \in m.engine[u].spent => n \in b.engine[u].spent BY <1>2
  <2> QED BY <2>1 DEF Kept, Once
<1> QED BY <1>4, <1>6, <1>7, <1>11, <1>12, <1>13 DEF Kept

\* What was spent goes on a record, from where it was or as it is made.
LEMMA AddsKept ==
    ASSUME NEW b, NEW m, Kept(b), b.open = open,
           NEW s \in Session, NEW t \in Turn, NEW what \in SUBSET Spend,
           m.open = Added(s, t, what),
           m.current = b.current, m.lines = b.lines, m.lost = b.lost, m.turns = b.turns,
           m.requests \subseteq Request, m.engine \in [Tagged -> Worker],
           m.spends \in 0..MaxSpends, b.spends <= m.spends,
           \A u \in Tagged : /\ m.engine[u].tag = b.engine[u].tag
                             /\ \A n \in m.engine[u].spent : n \in b.engine[u].spent,
           \A q \in m.requests : \E r \in b.requests :
                r.session = q.session /\ r.turn = q.turn /\ r.spend = q.spend,
           \A q, r \in m.requests : q.spend = r.spend => q = r,
           Holds(b, s, t),
           s \notin Tagged => b.current[s] = t \/ \E q \in b.requests : q.turn = t,
           \A n \in what :
                /\ ~OnRecord(b, n) /\ ~OnLine(b, n) /\ n \notin b.lost
                /\ ~InEngine(m, n) /\ ~InFlight(m, n) /\ n <= m.spends,
           \A n \in Spend : n \notin what =>
                /\ InEngine(m, n) <=> InEngine(b, n)
                /\ InFlight(m, n) <=> InFlight(b, n)
                /\ n <= m.spends <=> n <= b.spends
    PROVE  Kept(m)
<1> DEFINE A == Added(s, t, what)
<1>1. /\ A \subseteq Record /\ IsFiniteSet(A)
      /\ \A r \in A : r \in open \/ (r.turn = t /\ r.session = s)
      /\ \A r, q \in A : r.turn = q.turn => r = q
      /\ \A n : (\E r \in A : n \in r.spent) <=> n \in what \/ \E r \in open : n \in r.spent
      /\ \A r \in A : r.turn # t => r \in open
      /\ \A r \in A : r.turn = t =>
            \A n \in r.spent : n \in what \/ \E q \in open : q.turn = t /\ n \in q.spent
  <2>1. /\ open \subseteq Record /\ IsFiniteSet(open)
        /\ \A r, q \in open : r.turn = q.turn => r = q
    BY DEF Kept, BooksTyped, Whole
  <2> QED BY <2>1, AddedIs
<1> HIDE DEF A
<1>2. m.open = A BY DEF A
<1>3. BooksTyped(m) BY <1>1, <1>2 DEF Kept, BooksTyped
<1>4. \A k \in Turn, u \in Session : Holds(m, u, k) => Holds(b, u, k)
  <2> SUFFICES ASSUME NEW k \in Turn, NEW u \in Session, Holds(m, u, k), ~Holds(b, u, k) PROVE FALSE
    OBVIOUS
  <2>1. ~\E r \in m.open : r.session = u /\ r.turn = k BY <1>1, <1>2 DEF Holds
  <2>2. ~\E q \in m.requests : q.session = u /\ q.turn = k BY DEF Holds
  <2> QED BY <2>1, <2>2 DEF Holds
<1>5. Owned(m) BY <1>4 DEF Kept, Owned
<1>6. Whole(m)
  <2>1. \A r, q \in m.open : r.turn = q.turn => r = q BY <1>1, <1>2
  <2>2. ASSUME NEW i \in DOMAIN b.lines, b.lines[i].session \notin Tagged PROVE
          /\ \A j \in DOMAIN b.lines : b.lines[i].turn = b.lines[j].turn => i = j
          /\ \A r \in m.open \cup m.requests : r.turn # b.lines[i].turn
          /\ m.current[b.lines[i].session] # b.lines[i].turn
    <3>1. /\ \A j \in DOMAIN b.lines : b.lines[i].turn = b.lines[j].turn => i = j
          /\ \A r \in b.open \cup b.requests : r.turn # b.lines[i].turn
          /\ b.current[b.lines[i].session] # b.lines[i].turn
      BY <2>2 DEF Kept, Whole
    <3>2. b.lines[i].turn # t
      <4> SUFFICES ASSUME b.lines[i].turn = t PROVE FALSE OBVIOUS
      <4>1. Holds(b, b.lines[i].session, t) BY DEF Holds
      <4>2. b.lines[i].session = s BY <4>1, LineIs DEF Kept, Owned
      <4> QED BY <4>2, <3>1, <2>2
    <3>3. \A r \in m.open : r.turn # b.lines[i].turn BY <3>1, <3>2, <1>1, <1>2
    <3>4. \A q \in m.requests : q.turn # b.lines[i].turn BY <3>1
    <3> QED BY <3>1, <3>3, <3>4
  <2> QED BY <2>1, <2>2 DEF Whole
<1>7. \A n : /\ OnLine(m, n) <=> OnLine(b, n)
             /\ OnRecord(m, n) <=> OnRecord(b, n) \/ n \in what
             /\ n \in m.lost <=> n \in b.lost
  BY <1>1, <1>2 DEF OnLine, OnRecord
<1>8. Accounted(m)
  <2> SUFFICES ASSUME NEW n \in Spend PROVE
        n <= m.spends <=>
            InEngine(m, n) \/ InFlight(m, n) \/ OnRecord(m, n) \/ OnLine(m, n) \/ n \in m.lost
    BY DEF Accounted
  <2>1. CASE n \in what BY <2>1, <1>7
  <2>2. CASE n \notin what
    <3>1. n <= b.spends <=>
            InEngine(b, n) \/ InFlight(b, n) \/ OnRecord(b, n) \/ OnLine(b, n) \/ n \in b.lost
      BY DEF Kept, Accounted
    <3> QED BY <2>2, <3>1, <1>7
  <2> QED BY <2>1, <2>2
<1>9. Apart(m)
  <2> SUFFICES ASSUME NEW n \in Spend PROVE
        /\ InEngine(m, n) => ~InFlight(m, n) /\ ~OnRecord(m, n) /\ ~OnLine(m, n) /\ n \notin m.lost
        /\ InFlight(m, n) => ~OnRecord(m, n) /\ ~OnLine(m, n) /\ n \notin m.lost
        /\ OnRecord(m, n) => ~OnLine(m, n) /\ n \notin m.lost
        /\ OnLine(m, n) => n \notin m.lost
    BY DEF Apart
  <2>1. CASE n \in what BY <2>1, <1>7
  <2>2. CASE n \notin what BY <2>2, <1>7 DEF Kept, Apart
  <2> QED BY <2>1, <2>2
<1>10. Once(m)
  <2>1. \A u, v \in Tagged, n \in Spend :
            n \in m.engine[u].spent /\ n \in m.engine[v].spent => u = v
    BY DEF Kept, Once
  <2>2. \A q \in m.requests : q.spend <= m.spends
    <3> SUFFICES ASSUME NEW q \in m.requests PROVE q.spend <= m.spends OBVIOUS
    <3>1. q.spend <= b.spends BY DEF Kept, Once
    <3>2. q.spend \in Nat /\ b.spends \in Nat /\ m.spends \in Nat
      BY DEF Request, Spend, Kept, BooksTyped
    <3> QED BY <3>1, <3>2
  <2>3. ASSUME NEW r \in A, NEW q \in A, NEW n \in Spend, n \in r.spent, n \in q.spent PROVE r = q
    <3>1. CASE r.turn = t /\ q.turn = t BY <3>1, <1>1
    <3>2. \A x \in A, y \in A : x.turn = t /\ y.turn # t /\ n \in x.spent /\ n \in y.spent => FALSE
      <4> SUFFICES ASSUME NEW x \in A, NEW y \in A, x.turn = t, y.turn # t, n \in x.spent, n \in y.spent
                   PROVE FALSE
        OBVIOUS
      <4>1. y \in open BY <1>1
      <4>2. n \notin what BY <4>1 DEF OnRecord
      <4>3. PICK z \in open : z.turn = t /\ n \in z.spent BY <4>2, <1>1
      <4> QED BY <4>1, <4>3 DEF Kept, Once
    <3>3. CASE r.turn # t /\ q.turn # t BY <2>3, <3>3, <1>1 DEF Kept, Once
    <3> QED BY <2>3, <3>1, <3>2, <3>3
  <2> QED BY <2>1, <2>2, <2>3, <1>2 DEF Kept, Once
<1> QED BY <1>3, <1>5, <1>6, <1>8, <1>9, <1>10 DEF Kept

\* Books that say the same.
LEMMA SameKept ==
    ASSUME NEW b, NEW m, Kept(b),
           m.current = b.current, m.open = b.open, m.requests = b.requests, m.engine = b.engine,
           m.lines = b.lines, m.lost = b.lost, m.turns = b.turns, m.spends = b.spends
    PROVE  Kept(m)
<1>1. BooksTyped(m) BY DEF Kept, BooksTyped
<1>2. Owned(m) /\ Whole(m) BY DEF Kept, Owned, Whole, Holds
<1>3. Accounted(m) /\ Apart(m) /\ Once(m)
  BY DEF Kept, Accounted, Apart, Once, InEngine, InFlight, OnRecord, OnLine
<1> QED BY <1>1, <1>2, <1>3 DEF Kept

LEMMA Joined ==
    ASSUME NEW P \in Seq(Line), NEW Q \in Seq(Line)
    PROVE  /\ P \o Q \in Seq(Line) /\ Len(P) <= Len(P \o Q)
           /\ \A i \in DOMAIN P : i \in DOMAIN (P \o Q) /\ (P \o Q)[i] = P[i]
           /\ \A i \in DOMAIN (P \o Q) : \/ i \in DOMAIN P
                                         \/ /\ i - Len(P) \in DOMAIN Q
                                            /\ (P \o Q)[i] = Q[i - Len(P)]
                                            /\ i = Len(P) + (i - Len(P))
           /\ \A j \in DOMAIN Q :
                Len(P) + j \in DOMAIN (P \o Q) /\ (P \o Q)[Len(P) + j] = Q[j]
<1> DEFINE R == P \o Q
<1>1. /\ R \in Seq(Line) /\ Len(R) = Len(P) + Len(Q)
      /\ \A i \in 1..(Len(P) + Len(Q)) : R[i] = IF i <= Len(P) THEN P[i] ELSE Q[i - Len(P)]
  BY ConcatProperties
<1>2. Len(P) \in Nat /\ Len(Q) \in Nat /\ DOMAIN P = 1..Len(P) /\ DOMAIN Q = 1..Len(Q)
  OBVIOUS
<1> HIDE DEF R
<1>3. DOMAIN R = 1..(Len(P) + Len(Q)) BY <1>1
<1>4. \A i \in 1..Len(P) : i \in DOMAIN R /\ R[i] = P[i] BY <1>1, <1>2, <1>3
<1>5. ASSUME NEW i \in DOMAIN R, i \notin 1..Len(P)
      PROVE  i - Len(P) \in 1..Len(Q) /\ R[i] = Q[i - Len(P)] /\ i = Len(P) + (i - Len(P))
  BY <1>1, <1>2, <1>3, <1>5
<1>6. ASSUME NEW j \in 1..Len(Q)
      PROVE  Len(P) + j \in DOMAIN R /\ R[Len(P) + j] = Q[j]
  <2>1. /\ Len(P) + j \in 1..(Len(P) + Len(Q)) /\ ~(Len(P) + j <= Len(P))
        /\ Len(P) + j - Len(P) = j
    BY <1>2
  <2> QED BY <2>1, <1>1, <1>3
<1>7. Len(P) <= Len(R) BY <1>1, <1>2
<1> QED BY <1>1, <1>2, <1>4, <1>5, <1>6, <1>7 DEF R

\* A request is made: its spend is new.
LEMMA RequestMade ==
    ASSUME NEW b, NEW m, Kept(b), NEW q \in Request, q.spend = b.spends + 1, ~q.metered,
           b.current[q.session] = q.turn, b.spends < MaxSpends,
           m.requests = b.requests \cup {q}, m.spends = b.spends + 1,
           m.current = b.current, m.open = b.open, m.engine = b.engine, m.lines = b.lines,
           m.lost = b.lost, m.turns = b.turns
    PROVE  Kept(m)
<1> DEFINE n == b.spends + 1
<1>1. /\ b.spends \in Nat /\ n \in Spend /\ m.spends \in 0..MaxSpends
      /\ \A k \in Spend : (k <= n <=> k <= b.spends \/ k = n) /\ (k <= b.spends => k # n)
      /\ n <= n /\ ~(n <= b.spends)
  BY Numbers DEF Kept, BooksTyped, Spend
<1> HIDE DEF n
<1>2. q.spend = n /\ m.spends = n BY DEF n
<1>3. /\ q.turn \in Turn /\ q.session \in Session /\ q.session \notin Tagged
  BY Numbers DEF Request
<1>4. BooksTyped(m) BY <1>1 DEF Kept, BooksTyped
<1>5. \A k \in Turn, u \in Session : Holds(m, u, k) => Holds(b, u, k)
  <2>1. Holds(b, q.session, q.turn) BY DEF Holds
  <2> QED BY <2>1 DEF Holds
<1>6. Owned(m) BY <1>5 DEF Kept, Owned
<1>7. Whole(m)
  <2>1. ASSUME NEW i \in DOMAIN b.lines, b.lines[i].session \notin Tagged, b.lines[i].turn = q.turn
        PROVE  FALSE
    <3>1. Holds(b, b.lines[i].session, q.turn) /\ Holds(b, q.session, q.turn) BY <2>1 DEF Holds
    <3>2. b.lines[i].session = q.session BY <3>1, <1>3, LineIs DEF Kept, Owned
    <3> QED BY <3>2, <2>1 DEF Kept, Whole
  <2> QED BY <2>1 DEF Kept, Whole
<1>8. \A k : /\ InEngine(m, k) <=> InEngine(b, k)
             /\ InFlight(m, k) <=> InFlight(b, k) \/ k = n
             /\ OnRecord(m, k) <=> OnRecord(b, k)
             /\ OnLine(m, k) <=> OnLine(b, k)
  BY <1>2 DEF InEngine, InFlight, OnRecord, OnLine
<1>9. ~InEngine(b, n) /\ ~OnRecord(b, n) /\ ~OnLine(b, n) /\ n \notin b.lost
  BY <1>1 DEF Kept, Accounted
<1>10. Accounted(m) BY <1>1, <1>2, <1>8 DEF Kept, Accounted
<1>11. Apart(m) BY <1>8, <1>9 DEF Kept, Apart
<1>12. Once(m)
  <2>1. \A r \in b.requests : r.spend \in Spend /\ r.spend <= b.spends
    BY DEF Kept, BooksTyped, Request, Once
  <2> QED BY <2>1, <1>1, <1>2 DEF Kept, Once
<1> QED BY <1>4, <1>6, <1>7, <1>10, <1>11, <1>12 DEF Kept

\* A request is through with; what it did not meter is lost.
LEMMA RequestGone ==
    ASSUME NEW b, NEW m, Kept(b), NEW q \in b.requests,
           m.requests = b.requests \ {q},
           m.lost = IF q.metered THEN b.lost ELSE b.lost \cup {q.spend},
           m.current = b.current, m.open = b.open, m.engine = b.engine, m.lines = b.lines,
           m.turns = b.turns, m.spends = b.spends
    PROVE  Kept(m)
<1>1. q \in Request /\ q.spend \in Spend BY DEF Kept, BooksTyped, Request
<1>2. BooksTyped(m) BY <1>1 DEF Kept, BooksTyped
<1>3. \A k \in Turn, u \in Session : Holds(m, u, k) => Holds(b, u, k) BY DEF Holds
<1>4. Owned(m) BY <1>3 DEF Kept, Owned
<1>5. Whole(m) BY DEF Kept, Whole
<1>6. \A k : /\ InEngine(m, k) <=> InEngine(b, k)
             /\ OnRecord(m, k) <=> OnRecord(b, k)
             /\ OnLine(m, k) <=> OnLine(b, k)
  BY DEF InEngine, OnRecord, OnLine
<1>7. \A k : InFlight(m, k) <=> InFlight(b, k) /\ ~(k = q.spend /\ ~q.metered)
  BY DEF InFlight, Kept, Once
<1>8. ~q.metered => InFlight(b, q.spend) BY DEF InFlight
<1>9. \A k : k \in m.lost <=> k \in b.lost \/ (k = q.spend /\ ~q.metered) OBVIOUS
<1>10. Accounted(m) BY <1>6, <1>7, <1>8, <1>9 DEF Kept, Accounted
<1>11. Apart(m) BY <1>1, <1>6, <1>7, <1>8, <1>9 DEF Kept, Apart
<1>12. Once(m) BY DEF Kept, Once
<1> QED BY <1>2, <1>4, <1>5, <1>10, <1>11, <1>12 DEF Kept

\* The engine's worker spends.
LEMMA WorkerSpends ==
    ASSUME NEW b, NEW m, Kept(b), NEW s \in Tagged, b.spends < MaxSpends,
           m.spends = b.spends + 1,
           m.engine = [b.engine EXCEPT ![s].spent = @ \cup {b.spends + 1}],
           m.current = b.current, m.open = b.open, m.requests = b.requests, m.lines = b.lines,
           m.lost = b.lost, m.turns = b.turns
    PROVE  Kept(m)
<1> DEFINE n == b.spends + 1
<1>1. /\ b.spends \in Nat /\ n \in Spend /\ m.spends \in 0..MaxSpends
      /\ \A k \in Spend : (k <= n <=> k <= b.spends \/ k = n) /\ (k <= b.spends => k # n)
      /\ n <= n /\ ~(n <= b.spends)
  BY Numbers DEF Kept, BooksTyped, Spend
<1>2. m.spends = n /\ m.engine = [b.engine EXCEPT ![s].spent = @ \cup {n}] OBVIOUS
<1> HIDE DEF n
<1>3. /\ b.engine \in [Tagged -> Worker] /\ m.engine \in [Tagged -> Worker]
      /\ \A u \in Tagged : /\ m.engine[u].tag = b.engine[u].tag
                           /\ \A k : k \in m.engine[u].spent <=>
                                k \in b.engine[u].spent \/ (u = s /\ k = n)
  <2>1. b.engine \in [Tagged -> Worker] BY DEF Kept, BooksTyped
  <2>2. \A u \in Tagged : b.engine[u] \in Worker BY <2>1
  <2>3. m.engine \in [Tagged -> Worker] BY <2>1, <2>2, <1>1, <1>2 DEF Worker
  <2>4. /\ \A u \in Tagged : u # s => m.engine[u] = b.engine[u]
        /\ m.engine[s].tag = b.engine[s].tag
        /\ m.engine[s].spent = b.engine[s].spent \cup {n}
    BY <2>1, <2>2, <1>2 DEF Worker
  <2> QED BY <2>1, <2>3, <2>4
<1>4. BooksTyped(m) BY <1>1, <1>3 DEF Kept, BooksTyped
<1>5. Owned(m)
  <2>1. \A k \in Turn, u \in Session : Holds(m, u, k) => Holds(b, u, k) BY <1>3 DEF Holds
  <2> QED BY <2>1 DEF Kept, Owned
<1>6. Whole(m) BY DEF Kept, Whole
<1>7. \A k : /\ InEngine(m, k) <=> InEngine(b, k) \/ k = n
             /\ InFlight(m, k) <=> InFlight(b, k)
             /\ OnRecord(m, k) <=> OnRecord(b, k)
             /\ OnLine(m, k) <=> OnLine(b, k)
  BY <1>3 DEF InEngine, InFlight, OnRecord, OnLine
<1>8. ~InEngine(b, n) /\ ~InFlight(b, n) /\ ~OnRecord(b, n) /\ ~OnLine(b, n) /\ n \notin b.lost
  BY <1>1 DEF Kept, Accounted
<1>9. Accounted(m) BY <1>1, <1>2, <1>7 DEF Kept, Accounted
<1>10. Apart(m) BY <1>7, <1>8 DEF Kept, Apart
<1>11. Once(m)
  <2>1. \A u, v \in Tagged, k \in Spend :
            k \in m.engine[u].spent /\ k \in m.engine[v].spent => u = v
    BY <1>3, <1>8 DEF Kept, Once, InEngine
  <2>2. \A q \in m.requests : q.spend <= m.spends
    <3>1. \A q \in b.requests : q.spend \in Nat /\ q.spend <= b.spends
      BY DEF Kept, BooksTyped, Request, Spend, Once
    <3> QED BY <3>1, <1>1, <1>2 DEF n
  <2> QED BY <2>1, <2>2 DEF Kept, Once
<1> QED BY <1>4, <1>5, <1>6, <1>9, <1>10, <1>11 DEF Kept

-----------------------------------------------------------------------------
(* The steps of the ledger. *)

LEMMA BooksAre ==
    /\ Books.current = current /\ Books.open = open /\ Books.requests = requests
    /\ Books.engine = engine /\ Books.lines = lines /\ Books.lost = Gone
    /\ Books.turns = turns /\ Books.spends = spends
    /\ Books'.current = current' /\ Books'.open = open' /\ Books'.requests = requests'
    /\ Books'.engine = engine' /\ Books'.lines = lines' /\ Books'.lost = Gone'
    /\ Books'.turns = turns' /\ Books'.spends = spends'
BY DEF Books

\* An engine that has something to tell is at a turn.
Working ==
    \A s \in Tagged :
        /\ engine[s].running \/ engine[s].queued = 1 => engine[s].tag # 0
        /\ engine[s].done \/ engine[s].spent # {} => engine[s].running

\* A spend is lost for one reason.
Apiece(l) == \A v, w \in Why, n \in Spend : n \in l[v] /\ n \in l[w] => v = w

\* What is lost has its reason, and the writes and kills that went wrong are told.
Losses ==
    /\ mishaps \in Nat
    /\ lost \in [Why -> SUBSET Spend] /\ Apiece(lost)
    /\ mishaps = 0 => ~torn /\ glued = {} /\ lost["crash"] = {} /\ lost["write"] = {}

\* usage.jsonl is appended to; a line that was there is what it was.
Grows ==
    /\ Len(lines) <= Len(lines')
    /\ \A i \in DOMAIN lines :
          i \in DOMAIN lines' /\ lines'[i] = lines[i] /\ (i \in glued' <=> i \in glued)

Advances == Grows /\ Losses'

\* More is lost, for one reason.
More(l, why, what) == [l EXCEPT ![why] = @ \cup what]

LEMMA LoseIs ==
    ASSUME NEW l \in [Why -> SUBSET Spend], Apiece(l), NEW why \in Why, NEW what \in SUBSET Spend,
           \A n \in what : n \notin All(l)
    PROVE  /\ More(l, why, what) \in [Why -> SUBSET Spend] /\ Apiece(More(l, why, what))
           /\ All(More(l, why, what)) = All(l) \cup what
           /\ \A w \in Why : w # why => More(l, why, what)[w] = l[w]
           /\ More(l, why, what)[why] = l[why] \cup what
<1> DEFINE k == More(l, why, what)
<1>1. /\ k \in [Why -> SUBSET Spend] /\ k[why] = l[why] \cup what
      /\ \A w \in Why : w # why => k[w] = l[w]
  BY DEF More
<1> HIDE DEF k
<1>2. \A n : n \in All(l) <=> \E w \in Why : n \in l[w] BY DEF All
<1>3. \A n : n \in All(k) <=> \E w \in Why : n \in k[w] BY DEF All
<1>4. \A n : n \in All(k) <=> n \in All(l) \/ n \in what BY <1>1, <1>2, <1>3
<1>5. Apiece(k) BY <1>1, <1>2 DEF Apiece
<1> QED BY <1>1, <1>4, <1>5 DEF k

LEMMA Unwritten ==
    ASSUME Kept(Books), Losses, UNCHANGED <<lines, torn, glued, lost>>,
           mishaps' \in {mishaps, mishaps + 1}
    PROVE  Advances
<1>1. lines \in Seq(Line) BY BooksAre DEF Kept, BooksTyped
<1>2. Grows BY <1>1 DEF Grows
<1>3. mishaps' \in Nat /\ (mishaps' = 0 => mishaps = 0) BY DEF Losses
<1> QED BY <1>2, <1>3 DEF Advances, Losses

\* An engine or a gateway thread loses what it has.
LEMMA Loses ==
    ASSUME Kept(Books), Losses, UNCHANGED <<lines, torn, glued, mishaps>>,
           NEW why \in Why, why \notin {"crash", "write"}, NEW what \in SUBSET Spend,
           \A n \in what : n \notin Gone, lost' = Losing(why, what)
    PROVE  Advances /\ Gone' = Gone \cup what
<1>1. lines \in Seq(Line) BY BooksAre DEF Kept, BooksTyped
<1>2. Grows BY <1>1 DEF Grows
<1>3. lost' = More(lost, why, what) /\ lost \in [Why -> SUBSET Spend] /\ Apiece(lost)
  BY DEF Losing, Losses, More
<1>4. /\ lost' \in [Why -> SUBSET Spend] /\ Apiece(lost')
      /\ All(lost') = All(lost) \cup what
      /\ \A w \in Why : w # why => lost'[w] = lost[w]
  <2>1. \A n \in what : n \notin All(lost) BY DEF Gone
  <2> QED BY <1>3, <2>1, LoseIs
<1>5. Losses'
  <2>1. "crash" \in Why /\ "write" \in Why BY DEF Why
  <2>2. lost'["crash"] = lost["crash"] /\ lost'["write"] = lost["write"] BY <1>4, <2>1
  <2> QED BY <1>4, <2>2 DEF Losses, Apiece
<1> QED BY <1>2, <1>4, <1>5 DEF Advances, Gone

\* The spends of a session's records that are not among those written, and the others' records.
Rest(s, R, W) == UNION {r.spent : r \in {q \in R : q.session = s /\ q \notin W}}
Others(s, R) == {r \in R : r.session # s}

\* A session's records are closed: they wait for its requests, or some go to lines, and
\* those that do not are lost.
Shut(b, s, dropped) ==
    \/ /\ current' = current /\ open' = b.open /\ lines' = lines
       /\ Gone' = Gone \cup dropped
    \/ /\ \A q \in requests : q.session # s
       /\ current' = [current EXCEPT ![s] = 0]
       /\ open' = Others(s, b.open)
       /\ \E W \in SUBSET b.open :
            /\ \A r \in W : r.session = s
            /\ lines' = lines \o LinesOf(s, W)
            /\ Gone' = b.lost \cup Rest(s, b.open, W)

LEMMA ClosesAre ==
    ASSUME NEW b, Kept(b), Losses, NEW s \in Session, NEW dropped \in SUBSET Spend,
           \A n \in dropped : n \notin Gone, Closes(s, b.open, dropped),
           b.requests = requests, b.current = current, b.lines = lines,
           b.lost = Gone \cup dropped
    PROVE  Advances /\ Shut(b, s, dropped)
<1>1. /\ lines \in Seq(Line) /\ b.open \subseteq Record /\ IsFiniteSet(b.open)
      /\ \A r, q \in b.open : r.turn = q.turn => r = q
  BY DEF Kept, BooksTyped, Whole
<1>2. /\ lost \in [Why -> SUBSET Spend] /\ Apiece(lost) /\ mishaps \in Nat
      /\ "stopped" \in Why /\ "write" \in Why /\ "crash" \in Why
  BY DEF Losses, Why
<1> DEFINE l == Losing("stopped", dropped)
<1>3. /\ l \in [Why -> SUBSET Spend] /\ Apiece(l) /\ All(l) = Gone \cup dropped
      /\ l["write"] = lost["write"] /\ l["crash"] = lost["crash"]
  <2>1. l = More(lost, "stopped", dropped) BY DEF Losing, More
  <2>2. \A n \in dropped : n \notin All(lost) BY DEF Gone
  <2> HIDE DEF l
  <2>3. /\ l \in [Why -> SUBSET Spend] /\ Apiece(l) /\ All(l) = All(lost) \cup dropped
        /\ \A w \in Why : w # "stopped" => l[w] = lost[w]
    BY <1>2, <2>1, <2>2, LoseIs
  <2> QED BY <1>2, <2>3 DEF Gone
<1> HIDE DEF l
<1>4. CASE \E q \in requests : q.session = s
  <2>1. /\ open' = b.open /\ lost' = l
        /\ UNCHANGED <<current, lines, torn, glued, mishaps>>
    BY <1>4 DEF Closes, l, file
  <2>2. Grows BY <1>1, <2>1 DEF Grows
  <2>3. Losses' BY <1>2, <1>3, <2>1 DEF Losses, Apiece
  <2>4. Gone' = Gone \cup dropped BY <1>3, <2>1 DEF Gone
  <2> QED BY <2>1, <2>2, <2>3, <2>4 DEF Advances, Shut
<1>5. CASE ~\E q \in requests : q.session = s
  <2> DEFINE mine == {r \in b.open : r.session = s}
             rest(W) == UNION {r.spent : r \in mine \ W}
  <2>1. PICK W \in SUBSET mine :
            /\ current' = [current EXCEPT ![s] = 0] /\ open' = b.open \ mine
            /\ lines' = lines \o LinesOf(s, W)
            /\ glued' = IF torn /\ W # {} THEN glued \cup {Len(lines) + 1} ELSE glued
            /\ lost' = [l EXCEPT !["write"] = @ \cup rest(W)]
            /\ \/ W = mine /\ torn' = (torn /\ mine = {}) /\ mishaps' = mishaps
               \/ mishaps' = mishaps + 1
    <3> HIDE DEF rest
    <3>1. \A W : rest(W) = UNION {r.spent : r \in mine \ W} BY DEF rest
    <3> QED BY <1>5, <3>1 DEF Closes, Appends, Mishap, l
  <2>2. \A n : n \in rest(W) => \E r \in b.open : n \in r.spent OBVIOUS
  <2>3. rest(W) \in SUBSET Spend
    <3>1. \A r \in b.open : r.spent \subseteq Spend BY <1>1 DEF Record
    <3> HIDE DEF rest
    <3> QED BY <2>2, <3>1
  <2>4. \A n \in rest(W) : n \notin All(l)
    <3>1. \A n \in rest(W) : OnRecord(b, n) /\ n \in Spend BY <2>2, <2>3 DEF OnRecord
    <3> HIDE DEF rest
    <3> QED BY <1>3, <3>1 DEF Kept, Apart
  <2>5. rest(W) = Rest(s, b.open, W)
    <3>1. mine \ W = {q \in b.open : q.session = s /\ q \notin W} OBVIOUS
    <3> QED BY <3>1 DEF Rest
  <2>6. W = mine => rest(W) = {} OBVIOUS
  <2> HIDE DEF rest
  <2>7. /\ lost' \in [Why -> SUBSET Spend] /\ Apiece(lost')
        /\ All(lost') = All(l) \cup rest(W)
        /\ lost'["crash"] = lost["crash"] /\ lost'["write"] = lost["write"] \cup rest(W)
    <3>1. lost' = More(l, "write", rest(W)) BY <2>1 DEF More
    <3>2. /\ lost' \in [Why -> SUBSET Spend] /\ Apiece(lost')
          /\ All(lost') = All(l) \cup rest(W)
          /\ \A w \in Why : w # "write" => lost'[w] = l[w]
          /\ lost'["write"] = l["write"] \cup rest(W)
      BY <1>2, <1>3, <2>3, <2>4, <3>1, LoseIs
    <3> QED BY <1>2, <1>3, <3>2
  <2>8. Losses'
    <3>1. mishaps' \in Nat /\ (mishaps' = 0 => mishaps = 0 /\ ~(mishaps' = mishaps + 1))
      BY <1>2, <2>1
    <3>2. mishaps' = 0 => ~torn' /\ glued' = {} /\ lost'["crash"] = {} /\ lost'["write"] = {}
      BY <2>1, <2>6, <2>7, <3>1 DEF Losses
    <3> QED BY <2>7, <3>1, <3>2 DEF Losses, Apiece
  <2>9. Grows
    <3>1. LinesOf(s, W) \in Seq(Line)
      <4>1. W \subseteq Record /\ IsFiniteSet(W) /\ \A r, q \in W : r.turn = q.turn => r = q
        BY <1>1, FS_Subset
      <4> QED BY <4>1, LinesAre
    <3>2. /\ Len(lines) <= Len(lines')
          /\ \A i \in DOMAIN lines : i \in DOMAIN lines' /\ lines'[i] = lines[i]
      BY <1>1, <2>1, <3>1, Joined
    <3>3. \A i \in DOMAIN lines : i # Len(lines) + 1
      <4>1. DOMAIN lines = 1..Len(lines) /\ Len(lines) \in Nat BY <1>1
      <4> QED BY <4>1
    <3> QED BY <2>1, <3>2, <3>3 DEF Grows
  <2>10. Gone' = b.lost \cup rest(W) BY <1>3, <2>7 DEF Gone
  <2>11. open' = Others(s, b.open) BY <2>1 DEF Others
  <2>12. W \in SUBSET b.open /\ \A r \in W : r.session = s OBVIOUS
  <2> QED BY <1>5, <2>1, <2>5, <2>8, <2>9, <2>10, <2>11, <2>12 DEF Advances, Shut
<1> QED BY <1>4, <1>5

\* A session's records are closed: they go to lines, or are lost.
LEMMA ClosesKept ==
    ASSUME NEW b, NEW m, Kept(b), Losses, NEW s \in Session, NEW recorded,
           NEW dropped \in SUBSET Spend, \A n \in dropped : n \notin Gone,
           Closes(s, recorded, dropped), b.open = recorded,
           b.requests = requests, b.current = current, b.lines = lines,
           b.lost = Gone \cup dropped,
           m.requests = b.requests, m.engine = b.engine, m.turns = b.turns, m.spends = b.spends,
           m.current = current', m.open = open', m.lines = lines', m.lost = Gone'
    PROVE  Kept(m) /\ Advances
<1> DEFINE mine(r) == r \in b.open /\ r.session = s
           rest(W) == Rest(s, b.open, W)
<1>1. /\ Advances
      /\ \/ /\ m.current = b.current /\ m.open = b.open /\ m.lines = b.lines /\ m.lost = b.lost
         \/ /\ \A q \in b.requests : q.session # s
            /\ m.current = [b.current EXCEPT ![s] = 0]
            /\ m.open = Others(s, b.open)
            /\ \E W \in SUBSET b.open :
                  /\ \A r \in W : r.session = s
                  /\ m.lines = b.lines \o LinesOf(s, W)
                  /\ m.lost = b.lost \cup rest(W)
  <2>1. Closes(s, b.open, dropped) OBVIOUS
  <2>2. Advances /\ Shut(b, s, dropped) BY <2>1, ClosesAre
  <2> QED BY <2>2 DEF Shut
<1>2. CASE m.current = b.current /\ m.open = b.open /\ m.lines = b.lines /\ m.lost = b.lost
  BY <1>1, <1>2, SameKept
<1>3. ASSUME \A q \in b.requests : q.session # s,
             m.current = [b.current EXCEPT ![s] = 0],
             m.open = Others(s, b.open),
             NEW W \in SUBSET b.open, \A r \in W : r.session = s,
             m.lines = b.lines \o LinesOf(s, W), m.lost = b.lost \cup rest(W)
      PROVE  Kept(m)
  <2> USE DEF Others
  <2>1. \A n : n \in rest(W) <=> \E r \in b.open : mine(r) /\ r \notin W /\ n \in r.spent
    BY DEF Rest
  <2> HIDE DEF rest
  <2>2. /\ b.current \in [Session -> 0..MaxTurns] /\ b.open \subseteq Record /\ IsFiniteSet(b.open)
        /\ b.lines \in Seq(Line) /\ b.lost \subseteq Spend
    BY DEF Kept, BooksTyped
  <2>3. /\ m.current \in [Session -> 0..MaxTurns]
        /\ \A u \in Session : m.current[u] = IF u = s THEN 0 ELSE b.current[u]
        /\ 0 \notin Turn
    BY <1>3, <2>2, Numbers DEF Turn
  <2>4. m.open \subseteq Record /\ IsFiniteSet(m.open) BY <1>3, <2>2, FS_Subset
  <2>5. \A u \in Session, k \in Turn : m.current[u] = k => b.current[u] = k BY <2>3
  <2>6. m.lost \subseteq Spend
    <3>1. \A r \in b.open : r.spent \subseteq Spend BY <2>2 DEF Record
    <3>2. rest(W) \subseteq Spend BY <2>1, <3>1
    <3> QED BY <1>3, <2>2, <3>2
  <2> DEFINE Q == LinesOf(s, W)
             n0 == Len(b.lines)
  <2>7. /\ Q \in Seq(Line)
        /\ \A i \in DOMAIN Q : \E r \in W :
              r.session = s /\ Q[i].session = s /\ Q[i].turn = r.turn /\ Q[i].spent = r.spent
        /\ \A r \in W : r.session = s =>
              \E i \in DOMAIN Q : Q[i].turn = r.turn /\ Q[i].spent = r.spent
        /\ \A i, j \in DOMAIN Q : Q[i].turn = Q[j].turn => i = j
    <3>1. W \subseteq Record /\ IsFiniteSet(W) /\ \A r, q \in W : r.turn = q.turn => r = q
      BY <2>2, FS_Subset DEF Kept, Whole
    <3> QED BY <3>1, LinesAre
  <2>8. m.lines = b.lines \o Q BY <1>3
  <2> HIDE DEF Q
  <2>9. /\ m.lines \in Seq(Line)
        /\ \A i \in DOMAIN b.lines : i \in DOMAIN m.lines /\ m.lines[i] = b.lines[i]
        /\ \A i \in DOMAIN m.lines : \/ i \in DOMAIN b.lines
                                     \/ /\ i - n0 \in DOMAIN Q /\ m.lines[i] = Q[i - n0]
                                        /\ i = n0 + (i - n0)
        /\ \A j \in DOMAIN Q : n0 + j \in DOMAIN m.lines /\ m.lines[n0 + j] = Q[j]
    BY <2>2, <2>7, <2>8, Joined
  <2> HIDE DEF n0
  <2>10. \A i \in DOMAIN m.lines :
            \/ i \in DOMAIN b.lines /\ m.lines[i] = b.lines[i]
            \/ /\ i \notin DOMAIN b.lines
               /\ \E r \in W : /\ r \in b.open /\ r.session = s /\ m.lines[i].session = s
                               /\ m.lines[i].turn = r.turn /\ m.lines[i].spent = r.spent
    <3>1. \A i \in DOMAIN b.lines : m.lines[i] = b.lines[i] BY <2>9
    <3>2. ASSUME NEW i \in DOMAIN m.lines, i \notin DOMAIN b.lines
          PROVE  \E r \in W : /\ r \in b.open /\ r.session = s /\ m.lines[i].session = s
                              /\ m.lines[i].turn = r.turn /\ m.lines[i].spent = r.spent
      <4>1. i - n0 \in DOMAIN Q /\ m.lines[i] = Q[i - n0] BY <2>9, <3>2
      <4> QED BY <2>7, <4>1
    <3> QED BY <3>1, <3>2
  <2>11. ASSUME NEW i \in DOMAIN m.lines, NEW j \in DOMAIN m.lines,
                i \notin DOMAIN b.lines, j \notin DOMAIN b.lines,
                m.lines[i].turn = m.lines[j].turn
         PROVE  i = j
    <3>1. i - n0 \in DOMAIN Q /\ m.lines[i] = Q[i - n0] /\ i = n0 + (i - n0) BY <2>9, <2>11
    <3>2. j - n0 \in DOMAIN Q /\ m.lines[j] = Q[j - n0] /\ j = n0 + (j - n0) BY <2>9, <2>11
    <3>3. i - n0 = j - n0 BY <2>7, <2>11, <3>1, <3>2
    <3> QED BY <3>1, <3>2, <3>3
  <2>12. BooksTyped(m) BY <2>2, <2>3, <2>4, <2>6, <2>9 DEF Kept, BooksTyped
  <2>13. \A k \in Turn, u \in Session : Holds(m, u, k) => Holds(b, u, k)
    <3> SUFFICES ASSUME NEW k \in Turn, NEW u \in Session, Holds(m, u, k) PROVE Holds(b, u, k)
      OBVIOUS
    <3>1. CASE \E i \in DOMAIN m.lines : m.lines[i].session = u /\ m.lines[i].turn = k
      BY <3>1, <2>10 DEF Holds
    <3>2. CASE ~\E i \in DOMAIN m.lines : m.lines[i].session = u /\ m.lines[i].turn = k
      BY <3>2, <1>3, <2>5 DEF Holds
    <3> QED BY <3>1, <3>2
  <2>14. Owned(m) BY <2>13 DEF Kept, Owned
  <2>15. Whole(m)
    <3>1. \A r, q \in m.open : r.turn = q.turn => r = q BY <1>3 DEF Kept, Whole
    <3>2. ASSUME NEW i \in DOMAIN m.lines, m.lines[i].session \notin Tagged,
                 i \in DOMAIN b.lines, m.lines[i] = b.lines[i]
          PROVE  /\ \A j \in DOMAIN m.lines : m.lines[i].turn = m.lines[j].turn => i = j
                 /\ \A r \in m.open \cup m.requests : r.turn # m.lines[i].turn
                 /\ m.current[m.lines[i].session] # m.lines[i].turn
      <4>1. /\ \A j \in DOMAIN b.lines : b.lines[i].turn = b.lines[j].turn => i = j
            /\ \A r \in b.open \cup b.requests : r.turn # b.lines[i].turn
            /\ b.current[b.lines[i].session] # b.lines[i].turn
        BY <3>2 DEF Kept, Whole
      <4>2. \A j \in DOMAIN m.lines : m.lines[i].turn = m.lines[j].turn => i = j
        BY <4>1, <3>2, <2>10
      <4>3. b.lines[i].session \in Session /\ b.lines[i].turn \in Turn
        BY <3>2, LineIs DEF Kept
      <4> QED BY <4>1, <4>2, <4>3, <3>2, <1>3, <2>5
    <3>3. ASSUME NEW i \in DOMAIN m.lines, m.lines[i].session \notin Tagged,
                 i \notin DOMAIN b.lines
          PROVE  /\ \A j \in DOMAIN m.lines : m.lines[i].turn = m.lines[j].turn => i = j
                 /\ \A r \in m.open \cup m.requests : r.turn # m.lines[i].turn
                 /\ m.current[m.lines[i].session] # m.lines[i].turn
      <4>1. PICK r \in b.open : r.session = s /\ m.lines[i].session = s /\ m.lines[i].turn = r.turn
        BY <3>3, <2>10
      <4>2. r.turn \in Turn /\ Holds(b, s, r.turn) BY <4>1, <2>2 DEF Holds, Record
      <4>3. ASSUME NEW j \in DOMAIN b.lines, b.lines[j].turn = r.turn PROVE FALSE
        <5>1. Holds(b, b.lines[j].session, r.turn) BY <4>3 DEF Holds
        <5>2. b.lines[j].session = s BY <4>2, <5>1, LineIs DEF Kept, Owned
        <5> QED BY <5>2, <4>1, <4>3, <3>3 DEF Kept, Whole
      <4>4. \A j \in DOMAIN m.lines : m.lines[i].turn = m.lines[j].turn => i = j
        BY <4>1, <4>3, <3>3, <2>10, <2>11
      <4>5. \A q \in m.open : q.turn # r.turn BY <4>1, <1>3 DEF Kept, Whole
      <4>6. ASSUME NEW q \in b.requests, q.turn = r.turn PROVE FALSE
        <5>1. q.session \in Session BY Numbers DEF Kept, BooksTyped, Request
        <5>2. Holds(b, q.session, r.turn) BY <4>6 DEF Holds
        <5>3. q.session = s BY <4>2, <5>1, <5>2 DEF Kept, Owned
        <5> QED BY <5>3, <1>3
      <4> QED BY <4>1, <4>2, <4>4, <4>5, <4>6, <2>3
    <3> QED BY <3>1, <3>2, <3>3, <2>10 DEF Whole
  <2>16. \A n : /\ InEngine(m, n) <=> InEngine(b, n)
                /\ InFlight(m, n) <=> InFlight(b, n)
                /\ OnRecord(m, n) <=> \E r \in b.open : r.session # s /\ n \in r.spent
                /\ OnLine(m, n) <=> OnLine(b, n) \/ \E r \in W : n \in r.spent
                /\ n \in m.lost <=> n \in b.lost \/ n \in rest(W)
    <3>1. \A n : OnRecord(m, n) <=> \E r \in b.open : r.session # s /\ n \in r.spent
      BY <1>3 DEF OnRecord
    <3>2. \A n : OnLine(m, n) => OnLine(b, n) \/ \E r \in W : n \in r.spent
      BY <2>10 DEF OnLine
    <3>3. \A n : OnLine(b, n) => OnLine(m, n) BY <2>9 DEF OnLine
    <3>4. ASSUME NEW n, NEW r \in W, n \in r.spent PROVE OnLine(m, n)
      <4>1. PICK i \in DOMAIN Q : Q[i].spent = r.spent BY <1>3, <2>7
      <4>2. n0 + i \in DOMAIN m.lines /\ m.lines[n0 + i] = Q[i] BY <2>9
      <4> QED BY <3>4, <4>1, <4>2 DEF OnLine
    <3> QED BY <1>3, <3>1, <3>2, <3>3, <3>4 DEF InEngine, InFlight
  <2>17. \A n : OnRecord(b, n) <=> \/ \E r \in W : n \in r.spent
                                   \/ n \in rest(W)
                                   \/ \E r \in b.open : r.session # s /\ n \in r.spent
    BY <1>3, <2>1 DEF OnRecord
  <2>18. ASSUME NEW n \in Spend
         PROVE  /\ (\E r \in W : n \in r.spent) =>
                        n \notin rest(W) /\ ~\E r \in b.open : r.session # s /\ n \in r.spent
                /\ n \in rest(W) => ~\E r \in b.open : r.session # s /\ n \in r.spent
    <3>1. \A r, q \in b.open : n \in r.spent /\ n \in q.spent => r = q BY DEF Kept, Once
    <3> QED BY <1>3, <2>1, <3>1
  <2> HIDE DEF mine
  <2>19. Accounted(m)
    <3> SUFFICES ASSUME NEW n \in Spend PROVE
          n <= m.spends <=>
              InEngine(m, n) \/ InFlight(m, n) \/ OnRecord(m, n) \/ OnLine(m, n) \/ n \in m.lost
      BY DEF Accounted
    <3>1. n <= b.spends <=>
              InEngine(b, n) \/ InFlight(b, n) \/ OnRecord(b, n) \/ OnLine(b, n) \/ n \in b.lost
      BY DEF Kept, Accounted
    <3> QED BY <2>16, <2>17, <3>1
  <2>20. Apart(m)
    <3> SUFFICES ASSUME NEW n \in Spend PROVE
          /\ InEngine(m, n) => ~InFlight(m, n) /\ ~OnRecord(m, n) /\ ~OnLine(m, n) /\ n \notin m.lost
          /\ InFlight(m, n) => ~OnRecord(m, n) /\ ~OnLine(m, n) /\ n \notin m.lost
          /\ OnRecord(m, n) => ~OnLine(m, n) /\ n \notin m.lost
          /\ OnLine(m, n) => n \notin m.lost
      BY DEF Apart
    <3>1. /\ InEngine(b, n) => ~InFlight(b, n) /\ ~OnRecord(b, n) /\ ~OnLine(b, n) /\ n \notin b.lost
          /\ InFlight(b, n) => ~OnRecord(b, n) /\ ~OnLine(b, n) /\ n \notin b.lost
          /\ OnRecord(b, n) => ~OnLine(b, n) /\ n \notin b.lost
          /\ OnLine(b, n) => n \notin b.lost
      BY DEF Kept, Apart
    <3> QED BY <2>16, <2>17, <2>18, <3>1
  <2>21. Once(m)
    <3>1. \A r, q \in m.open, n \in Spend : n \in r.spent /\ n \in q.spent => r = q
      BY <1>3 DEF Kept, Once
    <3>2. ASSUME NEW i \in DOMAIN m.lines, NEW j \in DOMAIN m.lines, NEW n \in Spend,
                 n \in m.lines[i].spent, n \in m.lines[j].spent
          PROVE  i = j
      <4>1. CASE i \in DOMAIN b.lines /\ j \in DOMAIN b.lines
        BY <4>1, <3>2, <2>9 DEF Kept, Once
      <4>2. ASSUME NEW x \in DOMAIN b.lines, NEW y \in DOMAIN m.lines, y \notin DOMAIN b.lines,
                   n \in m.lines[x].spent, n \in m.lines[y].spent
            PROVE  FALSE
        <5>1. OnLine(b, n) BY <4>2, <2>9 DEF OnLine
        <5>2. OnRecord(b, n) BY <4>2, <2>10 DEF OnRecord
        <5> QED BY <5>1, <5>2 DEF Kept, Apart
      <4>3. CASE i \notin DOMAIN b.lines /\ j \notin DOMAIN b.lines
        <5>1. PICK r \in b.open : m.lines[i].turn = r.turn /\ n \in r.spent
          BY <4>3, <3>2, <2>10
        <5>2. PICK q \in b.open : m.lines[j].turn = q.turn /\ n \in q.spent
          BY <4>3, <3>2, <2>10
        <5>3. r = q BY <5>1, <5>2 DEF Kept, Once
        <5> QED BY <4>3, <5>1, <5>2, <5>3, <2>11
      <4> QED BY <3>2, <4>1, <4>2, <4>3
    <3> QED BY <1>3, <3>1, <3>2 DEF Kept, Once
  <2> QED BY <2>12, <2>14, <2>15, <2>19, <2>20, <2>21 DEF Kept
<1> QED BY <1>1, <1>2, <1>3

LEMMA MessageKept ==
    ASSUME Kept(Books), Losses, NEW s \in Session, Message(s) PROVE Kept(Books') /\ Advances
<1>1. /\ s \in Session
      /\ UNCHANGED <<open, requests, engine, lines, torn, glued, lost, Gone, mishaps, spends>>
      /\ \/ turns < MaxTurns /\ turns' = turns + 1 /\ current' = [current EXCEPT ![s] = turns + 1]
         \/ UNCHANGED <<current, turns>>
  BY DEF Message, gateway, file, Gone
<1>2. Kept(Books')
  <2>1. CASE turns < MaxTurns /\ turns' = turns + 1 /\ current' = [current EXCEPT ![s] = turns + 1]
    BY <2>1, <1>1, BooksAre, TurnOpens
  <2>2. CASE UNCHANGED <<current, turns>> BY <2>2, <1>1, BooksAre, SameKept
  <2> QED BY <1>1, <2>1, <2>2
<1> QED BY <1>1, <1>2, Unwritten

\* The books once TurnOf has said which turn it is.
LEMMA TurnOfKept ==
    ASSUME Kept(Books), NEW s \in Session, NEW t \in Turn, TurnOf(s, t),
           NEW b, b.current = current', b.turns = turns',
           b.open = open, b.requests = requests, b.engine = engine, b.lines = lines,
           b.lost = Gone, b.spends = spends
    PROVE  Kept(b) /\ b.current[s] = t
<1>1. CASE current[s] # 0
  <2>1. t = current[s] /\ current' = current /\ turns' = turns BY <1>1 DEF TurnOf
  <2> QED BY <2>1, BooksAre, SameKept
<1>2. CASE current[s] = 0
  <2>1. /\ turns < MaxTurns /\ turns' = turns + 1 /\ t = turns + 1
        /\ current' = [current EXCEPT ![s] = turns + 1]
    BY <1>2 DEF TurnOf
  <2>2. Kept(b) BY <2>1, BooksAre, TurnOpens
  <2>3. current \in [Session -> 0..MaxTurns] BY BooksAre DEF Kept, BooksTyped
  <2> QED BY <2>1, <2>2, <2>3
<1> QED BY <1>1, <1>2

LEMMA SpendsKept ==
    ASSUME Kept(Books), Losses, NEW s \in Session, Spends(s) PROVE Kept(Books') /\ Advances
<1>1. /\ s \in Events /\ s \notin Tagged /\ spends < MaxSpends /\ spends' = spends + 1
      /\ UNCHANGED <<requests, engine, lines, torn, glued, lost, Gone, mishaps>>
  BY Numbers DEF Spends, NewSpend, gateway, engines, file, Gone
<1>2. PICK t \in Turn : TurnOf(s, t) /\ open' = Added(s, t, {spends'}) BY DEF Spends
<1> DEFINE b == [current |-> current', open |-> open, requests |-> requests, engine |-> engine,
                 lines |-> lines, lost |-> Gone, turns |-> turns', spends |-> spends]
           n == spends'
<1>3. /\ b.current = current' /\ b.open = open /\ b.requests = requests /\ b.engine = engine
      /\ b.lines = lines /\ b.lost = Gone /\ b.turns = turns' /\ b.spends = spends
  OBVIOUS
<1> HIDE DEF b
<1>4. Kept(b) /\ b.current[s] = t BY <1>2, <1>3, TurnOfKept
<1>5. /\ spends \in Nat /\ n \in Spend /\ n \in 0..MaxSpends /\ spends <= n /\ n <= n
      /\ ~(n <= spends)
      /\ \A k \in Spend : k # n => (k <= n <=> k <= spends)
  <2>1. spends \in Nat BY <1>3, <1>4, Numbers DEF Kept, BooksTyped
  <2> QED BY <1>1, <2>1, Numbers DEF Spend
<1>6. /\ ~InEngine(b, n) /\ ~InFlight(b, n) /\ ~OnRecord(b, n) /\ ~OnLine(b, n) /\ n \notin b.lost
  BY <1>3, <1>4, <1>5 DEF Kept, Accounted
<1>7. /\ \A k : InEngine(Books', k) <=> InEngine(b, k)
      /\ \A k : InFlight(Books', k) <=> InFlight(b, k)
  BY <1>1, <1>3, BooksAre DEF InEngine, InFlight
<1>8. /\ Books'.requests \subseteq Request /\ Books'.engine \in [Tagged -> Worker]
      /\ \A q, r \in Books'.requests : q.spend = r.spend => q = r
  BY <1>1, <1>3, <1>4, BooksAre DEF Kept, BooksTyped, Once
<1>9. Holds(b, s, t) BY <1>4 DEF Holds
<1>10. Kept(Books')
  <2>1. {n} \in SUBSET Spend BY <1>5
  <2>2. Books'.open = Added(s, t, {n}) BY <1>2, BooksAre
  <2>3. /\ Books'.current = b.current /\ Books'.lines = b.lines /\ Books'.lost = b.lost
        /\ Books'.turns = b.turns /\ Books'.spends = n /\ b.spends = spends
        /\ Books'.requests = b.requests /\ Books'.engine = b.engine
    BY <1>1, <1>3, BooksAre
  <2>4. \A k \in {n} : /\ ~OnRecord(b, k) /\ ~OnLine(b, k) /\ k \notin b.lost
                       /\ ~InEngine(Books', k) /\ ~InFlight(Books', k) /\ k <= Books'.spends
    BY <1>5, <1>6, <1>7, <2>3
  <2>5. \A k \in Spend : k \notin {n} =>
            /\ InEngine(Books', k) <=> InEngine(b, k)
            /\ InFlight(Books', k) <=> InFlight(b, k)
            /\ k <= Books'.spends <=> k <= b.spends
    BY <1>5, <1>7, <2>3
  <2>6. Books'.spends \in 0..MaxSpends /\ b.spends <= Books'.spends BY <1>5, <2>3
  <2> HIDE DEF n
  <2> QED BY <1>3, <1>4, <1>8, <1>9, <2>1, <2>2, <2>3, <2>4, <2>5, <2>6, AddsKept
<1> QED BY <1>1, <1>10, Unwritten

\* Closing a session's turns, nothing else of the books being changed.
LEMMA OnlyCloses ==
    ASSUME Kept(Books), Losses, NEW s \in Session, Closes(s, open, {}),
           UNCHANGED <<requests, engine, turns, spends>>
    PROVE  Kept(Books') /\ Advances
<1> DEFINE none == {}
<1>1. Books.lost = Gone \cup none /\ none \in SUBSET Spend /\ \A n \in none : n \notin Gone
  BY BooksAre
<1>2. Closes(s, open, none) OBVIOUS
<1> HIDE DEF none
<1> QED BY <1>1, <1>2, BooksAre, ClosesKept

LEMMA ReadyKept == ASSUME Kept(Books), Losses, NEW s \in Session, Ready(s) PROVE Kept(Books') /\ Advances
BY OnlyCloses DEF Ready, gateway

LEMMA ClosesLastKept ==
    ASSUME Kept(Books), Losses, NEW s \in Session, ClosesLast(s) PROVE Kept(Books') /\ Advances
BY OnlyCloses DEF ClosesLast, engines

LEMMA AsleepIs == Asleep \in Worker /\ Asleep.tag = 0 /\ Asleep.spent = {}
BY Numbers DEF Asleep, Worker

\* What an engine has not told yet is not lost.
LEMMA UntoldIs ==
    ASSUME Kept(Books), NEW s \in Tagged
    PROVE  engine[s].spent \in SUBSET Spend /\ \A n \in engine[s].spent : n \notin Gone
<1>1. engine[s] \in Worker BY BooksAre DEF Kept, BooksTyped
<1>2. engine[s].spent \in SUBSET Spend BY <1>1 DEF Worker
<1>3. \A n \in engine[s].spent : InEngine(Books, n) BY BooksAre DEF InEngine
<1> QED BY <1>2, <1>3, BooksAre DEF Kept, Apart

LEMMA EndedKept == ASSUME Kept(Books), Losses, NEW s \in Session, Ended(s) PROVE Kept(Books') /\ Advances
<1>1. UNCHANGED <<requests, turns, spends>> BY DEF Ended, gateway
<1>2. CASE s \notin Tagged BY <1>1, <1>2, OnlyCloses DEF Ended
<1>3. CASE s \in Tagged
  <2>1. Closes(s, open, engine[s].spent) /\ engine' = [engine EXCEPT ![s] = Asleep]
    BY <1>3 DEF Ended
  <2> DEFINE b == [current |-> current, open |-> open, requests |-> requests, engine |-> engine',
                   lines |-> lines, lost |-> Gone \cup engine[s].spent, turns |-> turns,
                   spends |-> spends]
  <2>2. /\ b.current = current /\ b.open = open /\ b.requests = requests /\ b.engine = engine'
        /\ b.lines = lines /\ b.lost = Gone \cup engine[s].spent /\ b.turns = turns
        /\ b.spends = spends
    OBVIOUS
  <2> HIDE DEF b
  <2>3. Kept(b)
    <3> DEFINE a == Books
               dropped == engine[s].spent
    <3>1. /\ b.engine = [a.engine EXCEPT ![s] = Asleep] /\ b.lost = a.lost \cup dropped
          /\ b.current = a.current /\ b.open = a.open /\ b.requests = a.requests
          /\ b.lines = a.lines /\ b.turns = a.turns /\ b.spends = a.spends
      BY <2>1, <2>2, BooksAre
    <3>2. /\ \A n : n \in a.engine[s].spent <=> n \in Asleep.spent \/ n \in dropped
          /\ \A n \in dropped : n \notin Asleep.spent
      BY AsleepIs, BooksAre
    <3>3. Kept(a) OBVIOUS
    <3> HIDE DEF a, dropped
    <3>4. Asleep.tag \in {0, a.engine[s].tag} BY AsleepIs
    <3> QED BY <1>3, <3>1, <3>2, <3>3, <3>4, AsleepIs, WorkerKept
  <2>4. Kept(Books') /\ Advances
    <3>1. /\ Books'.requests = b.requests /\ Books'.engine = b.engine
          /\ Books'.turns = b.turns /\ Books'.spends = b.spends
      BY <1>1, <2>2, BooksAre
    <3>2. engine[s].spent \in SUBSET Spend /\ \A n \in engine[s].spent : n \notin Gone
      BY <1>3, UntoldIs
    <3> QED BY <2>1, <2>2, <2>3, <3>1, <3>2, BooksAre, ClosesKept
  <2> QED BY <2>4
<1> QED BY <1>2, <1>3

LEMMA AskedKept == ASSUME Kept(Books), Losses, NEW s \in Session, Asked(s) PROVE Kept(Books') /\ Advances
<1>1. /\ s \in Custom /\ spends < MaxSpends /\ spends' = spends + 1
      /\ UNCHANGED <<open, engine, lines, torn, glued, lost, Gone, mishaps>>
  BY DEF Asked, NewSpend, engines, file, Gone
<1> DEFINE q(t) == [session |-> s, turn |-> t, spend |-> spends', metered |-> FALSE]
<1>2. PICK t \in Turn : TurnOf(s, t) /\ requests' = requests \cup {q(t)} BY DEF Asked
<1> DEFINE b == [current |-> current', open |-> open, requests |-> requests, engine |-> engine,
                 lines |-> lines, lost |-> Gone, turns |-> turns', spends |-> spends]
<1>3. /\ b.current = current' /\ b.open = open /\ b.requests = requests /\ b.engine = engine
      /\ b.lines = lines /\ b.lost = Gone /\ b.turns = turns' /\ b.spends = spends
  OBVIOUS
<1> HIDE DEF b
<1>4. Kept(b) /\ b.current[s] = t BY <1>2, <1>3, TurnOfKept
<1>5. spends' \in Spend BY <1>1, <1>3, <1>4, Numbers DEF Kept, BooksTyped, Spend
<1>6. /\ q(t) \in Request /\ q(t).spend = spends + 1 /\ ~q(t).metered
      /\ b.current[q(t).session] = q(t).turn
  BY <1>1, <1>4, <1>5 DEF Request
<1> HIDE DEF q
<1>7. Kept(Books')
  <2>1. /\ b.spends < MaxSpends /\ q(t).spend = b.spends + 1
        /\ Books'.requests = b.requests \cup {q(t)} /\ Books'.spends = b.spends + 1
        /\ Books'.current = b.current /\ Books'.open = b.open /\ Books'.engine = b.engine
        /\ Books'.lines = b.lines /\ Books'.lost = b.lost /\ Books'.turns = b.turns
    BY <1>1, <1>2, <1>3, <1>6, BooksAre
  <2> QED BY <1>4, <1>6, <2>1, RequestMade
<1> QED BY <1>1, <1>7, Unwritten

LEMMA FinishedKept ==
    ASSUME Kept(Books), Losses, NEW q \in requests, Finished(q) PROVE Kept(Books') /\ Advances
<1> DEFINE b == Books
           m == Books'
<1>1. /\ requests' = requests \ {q}
      /\ lost' = IF q.metered THEN lost ELSE Losing("failed", {q.spend})
      /\ UNCHANGED <<current, open, engine, lines, torn, glued, mishaps, turns, spends>>
  BY DEF Finished, engines, file
<1>2. q.spend \in Spend BY BooksAre DEF Kept, BooksTyped, Request
<1>3. CASE q.metered
  <2>1. lost' = lost /\ Gone' = Gone BY <1>1, <1>3 DEF Gone
  <2>2. Kept(Books') BY <1>1, <1>3, <2>1, BooksAre, RequestGone
  <2> QED BY <1>1, <2>1, <2>2, Unwritten
<1>4. CASE ~q.metered
  <2>1. InFlight(b, q.spend) BY <1>4, BooksAre DEF InFlight
  <2>2. {q.spend} \in SUBSET Spend /\ \A n \in {q.spend} : n \notin Gone
    BY <1>2, <2>1, BooksAre DEF Kept, Apart
  <2>3. "failed" \in Why /\ "failed" \notin {"crash", "write"} BY DEF Why
  <2>4. Advances /\ Gone' = Gone \cup {q.spend} BY <1>1, <1>4, <2>2, <2>3, Loses
  <2>5. Kept(Books') BY <1>1, <1>4, <2>4, BooksAre, RequestGone
  <2> QED BY <2>4, <2>5
<1> QED BY <1>3, <1>4

LEMMA MeteredKept ==
    ASSUME Kept(Books), Losses, NEW q \in requests, Metered(q) PROVE Kept(Books') /\ Advances
<1> DEFINE p == [q EXCEPT !.metered = TRUE]
           n == q.spend
           s == q.session
           t == q.turn
           b == Books
           m == Books'
<1>1. /\ ~q.metered /\ requests' = (requests \ {q}) \cup {p}
      /\ open' = Added(s, t, {n})
      /\ UNCHANGED <<current, engine, lines, torn, glued, lost, Gone, mishaps, turns, spends>>
  BY DEF Metered, engines, file, Gone
<1>2. /\ q \in Request /\ n \in Spend /\ s \in Session /\ t \in Turn /\ s \notin Tagged
  BY BooksAre, Numbers DEF Kept, BooksTyped, Request
<1>3. /\ p \in Request /\ p.spend = n /\ p.session = s /\ p.turn = t /\ p.metered
  BY <1>2 DEF Request
<1> HIDE DEF p, b, m
<1>4. /\ b.open = open /\ b.requests = requests /\ b.current = current
      /\ m.open = Added(s, t, {n}) /\ m.requests = (b.requests \ {q}) \cup {p}
      /\ m.current = b.current /\ m.lines = b.lines /\ m.lost = b.lost /\ m.turns = b.turns
      /\ m.engine = b.engine /\ m.spends = b.spends /\ Kept(b)
  BY <1>1, BooksAre DEF b, m
<1>5. b.spends \in 0..MaxSpends /\ b.spends <= m.spends
  BY <1>4, Numbers DEF Kept, BooksTyped
<1>6. /\ m.requests \subseteq Request /\ m.engine \in [Tagged -> Worker]
      /\ \A r \in m.requests : \E x \in b.requests :
            x.session = r.session /\ x.turn = r.turn /\ x.spend = r.spend
      /\ \A r, x \in m.requests : r.spend = x.spend => r = x
  BY <1>3, <1>4 DEF Kept, BooksTyped, Once
<1>7. Holds(b, s, t) BY <1>4 DEF Holds
<1>8. InFlight(b, n) BY <1>1, <1>4 DEF InFlight
<1>9. /\ ~OnRecord(b, n) /\ ~OnLine(b, n) /\ n \notin b.lost /\ ~InEngine(b, n) /\ n <= b.spends
  BY <1>2, <1>4, <1>8 DEF Kept, Apart, Accounted
<1>10. ~InFlight(m, n) BY <1>3, <1>4 DEF InFlight, Kept, Once
<1>11. \A k : k # n => (InFlight(m, k) <=> InFlight(b, k)) BY <1>3, <1>4 DEF InFlight
<1>12. \A k : InEngine(m, k) <=> InEngine(b, k) BY <1>4 DEF InEngine
<1>13. Kept(m)
  <2>1. {n} \in SUBSET Spend BY <1>2
  <2>2. \A k \in {n} : /\ ~OnRecord(b, k) /\ ~OnLine(b, k) /\ k \notin b.lost
                       /\ ~InEngine(m, k) /\ ~InFlight(m, k) /\ k <= m.spends
    BY <1>4, <1>9, <1>10, <1>12
  <2>3. \A k \in Spend : k \notin {n} =>
            /\ InEngine(m, k) <=> InEngine(b, k)
            /\ InFlight(m, k) <=> InFlight(b, k)
            /\ k <= m.spends <=> k <= b.spends
    BY <1>4, <1>11, <1>12
  <2>4. \E x \in b.requests : x.turn = t BY <1>4
  <2> HIDE DEF n, s, t
  <2> QED BY <1>2, <1>4, <1>5, <1>6, <1>7, <2>1, <2>2, <2>3, <2>4, AddsKept
<1> QED BY <1>1, <1>13, Unwritten DEF m

\* What a worker sent is put on the record of the turn its engine is at.
LEMMA ToldKept ==
    ASSUME NEW b, NEW m, Kept(b), b.open = open, NEW s \in Tagged, NEW w \in Worker,
           b.engine[s].tag \in Turn, w.tag = b.engine[s].tag, w.spent = {},
           m.engine = [b.engine EXCEPT ![s] = w],
           m.open = IF b.engine[s].spent = {} THEN open
                    ELSE Added(s, b.engine[s].tag, b.engine[s].spent),
           m.current = b.current, m.requests = b.requests, m.lines = b.lines, m.lost = b.lost,
           m.turns = b.turns, m.spends = b.spends
    PROVE  Kept(m)
<1> DEFINE x == b.engine[s].spent
           t == b.engine[s].tag
<1>1. CASE x = {}
  <2>1. m.lost = b.lost \cup {} /\ m.open = b.open /\ \A n : n \in x <=> n \in w.spent \/ n \in {}
    BY <1>1
  <2> QED BY <2>1, WorkerKept
<1>2. CASE x # {}
  <2>1. /\ b.engine \in [Tagged -> Worker] /\ m.engine \in [Tagged -> Worker]
        /\ b.spends \in 0..MaxSpends /\ m.requests \subseteq Request /\ s \in Session
        /\ \A u \in Tagged : u # s => m.engine[u] = b.engine[u]
        /\ m.engine[s] = w
    BY Numbers DEF Kept, BooksTyped
  <2>2. x \in SUBSET Spend
    <3>1. b.engine[s] \in Worker BY <2>1
    <3> QED BY <3>1 DEF Worker
  <2>3. /\ \A u \in Tagged : /\ m.engine[u].tag = b.engine[u].tag
                             /\ \A n \in m.engine[u].spent : n \in b.engine[u].spent
        /\ \A q \in m.requests : \E r \in b.requests :
                r.session = q.session /\ r.turn = q.turn /\ r.spend = q.spend
        /\ \A q, r \in m.requests : q.spend = r.spend => q = r
    BY <2>1 DEF Kept, Once
  <2>4. Holds(b, s, t) BY DEF Holds
  <2>5. \A n : InFlight(m, n) <=> InFlight(b, n) BY DEF InFlight
  <2>6. \A n \in x : InEngine(b, n) /\ ~InEngine(m, n)
    <3>1. \A n \in x, u \in Tagged : n \in b.engine[u].spent => u = s BY <2>2 DEF Kept, Once
    <3> QED BY <3>1, <2>1 DEF InEngine
  <2>7. \A n : n \notin x => (InEngine(m, n) <=> InEngine(b, n)) BY <2>1 DEF InEngine
  <2>8. \A n \in x : /\ ~OnRecord(b, n) /\ ~OnLine(b, n) /\ n \notin b.lost
                     /\ ~InEngine(m, n) /\ ~InFlight(m, n) /\ n <= m.spends
    BY <2>2, <2>5, <2>6 DEF Kept, Apart, Accounted
  <2>9. m.open = Added(s, t, x) /\ b.spends <= m.spends /\ m.spends \in 0..MaxSpends
    BY <1>2, <2>1, Numbers
  <2>10. \A n \in Spend : n \notin x =>
            /\ InEngine(m, n) <=> InEngine(b, n)
            /\ InFlight(m, n) <=> InFlight(b, n)
            /\ n <= m.spends <=> n <= b.spends
    BY <2>5, <2>7
  <2> HIDE DEF x, t
  <2> QED BY <2>1, <2>2, <2>3, <2>4, <2>8, <2>9, <2>10, AddsKept DEF t
<1> QED BY <1>1, <1>2

\* The engine goes on with what its worker sent: it is at the same turn or the next.
LEMMA WorkerGoesOn ==
    ASSUME Kept(Books), Losses, NEW s \in Tagged, NEW w \in Worker, engine' = [engine EXCEPT ![s] = w],
           \/ w.tag = engine[s].tag /\ turns' = turns
           \/ w.tag = turns + 1 /\ turns < MaxTurns /\ turns' = turns + 1,
           w.spent = engine[s].spent,
           UNCHANGED <<current, open, requests, lines, torn, glued, lost, Gone, mishaps, spends>>
    PROVE  Kept(Books') /\ Advances
<1> DEFINE b == Books
           m == Books'
           none == {}
<1>1. /\ m.engine = [b.engine EXCEPT ![s] = w]
      /\ m.current = b.current /\ m.open = b.open /\ m.requests = b.requests
      /\ m.lines = b.lines /\ m.spends = b.spends /\ m.lost = b.lost \cup none
      /\ w.spent = b.engine[s].spent
      /\ \/ w.tag = b.engine[s].tag /\ m.turns = b.turns
         \/ w.tag = b.turns + 1 /\ b.turns < MaxTurns /\ m.turns = b.turns + 1
  BY BooksAre
<1>2. Kept(b) OBVIOUS
<1> HIDE DEF b, m
<1>3. /\ \A n : n \in b.engine[s].spent <=> n \in w.spent \/ n \in none
      /\ \A n \in none : n \notin w.spent
  BY <1>1
<1> HIDE DEF none
<1>4. ASSUME w.tag = b.engine[s].tag, m.turns = b.turns PROVE Kept(m)
  <2>1. w.tag \in {0, b.engine[s].tag} BY <1>4
  <2> QED BY <1>1, <1>2, <1>3, <1>4, <2>1, WorkerKept
<1>5. ASSUME w.tag = b.turns + 1, b.turns < MaxTurns, m.turns = b.turns + 1 PROVE Kept(m)
  BY <1>1, <1>2, <1>3, <1>5, WorkerKept
<1> QED BY <1>1, <1>4, <1>5, Unwritten DEF m

LEMMA SubmitsKept ==
    ASSUME Kept(Books), Losses, NEW s \in Tagged, Submits(s) PROVE Kept(Books') /\ Advances
<1>1. /\ UNCHANGED <<current, open, requests, lines, torn, glued, lost, Gone, mishaps, spends>>
      /\ engine \in [Tagged -> Worker] /\ engine[s] \in Worker /\ turns \in Nat
      /\ turns < MaxTurns => turns + 1 \in 0..MaxTurns
  BY BooksAre, Numbers DEF Submits, ledger, gateway, file, Gone, Kept, BooksTyped
<1>2. CASE engine[s].running
  <2> DEFINE w == [engine[s] EXCEPT !.queued = 1]
  <2>1. engine' = [engine EXCEPT ![s] = w] /\ turns' = turns BY <1>1, <1>2 DEF Submits
  <2>2. w \in Worker /\ w.tag = engine[s].tag /\ w.spent = engine[s].spent BY <1>1 DEF Worker
  <2> HIDE DEF w
  <2> QED BY <1>1, <2>1, <2>2, WorkerGoesOn
<1>3. CASE ~engine[s].running
  <2> DEFINE t == turns + 1
             w == [engine[s] EXCEPT !.running = TRUE, !.tag = t]
  <2>1. engine' = [engine EXCEPT ![s] = w] /\ turns < MaxTurns /\ turns' = t
    BY <1>1, <1>3 DEF Submits
  <2>2. t \in 0..MaxTurns BY <1>1, <2>1
  <2> HIDE DEF t
  <2>3. w \in Worker /\ w.tag = t /\ w.spent = engine[s].spent BY <1>1, <2>2 DEF Worker
  <2> HIDE DEF w
  <2> QED BY <1>1, <2>1, <2>3, WorkerGoesOn DEF t
<1> QED BY <1>2, <1>3

LEMMA WorksKept ==
    ASSUME Kept(Books), Losses, NEW s \in Tagged, Works(s) PROVE Kept(Books') /\ Advances
<1>1. /\ UNCHANGED <<current, open, requests, lines, torn, glued, lost, Gone, mishaps, turns>>
      /\ \/ spends < MaxSpends /\ spends' = spends + 1
            /\ engine' = [engine EXCEPT ![s].spent = @ \cup {spends + 1}]
         \/ engine' = [engine EXCEPT ![s].done = TRUE] /\ spends' = spends
  BY DEF Works, NewSpend, ledger, gateway, file, Gone
<1>2. CASE spends < MaxSpends /\ spends' = spends + 1
           /\ engine' = [engine EXCEPT ![s].spent = @ \cup {spends + 1}]
  <2> DEFINE b == Books
             m == Books'
  <2>1. /\ b.spends < MaxSpends /\ m.spends = b.spends + 1
        /\ m.engine = [b.engine EXCEPT ![s].spent = @ \cup {b.spends + 1}]
        /\ m.current = b.current /\ m.open = b.open /\ m.requests = b.requests
        /\ m.lines = b.lines /\ m.lost = b.lost /\ m.turns = b.turns
    BY <1>1, <1>2, BooksAre
  <2>2. Kept(b) OBVIOUS
  <2> HIDE DEF b, m
  <2>3. Kept(m) BY <2>1, <2>2, WorkerSpends
  <2> QED BY <1>1, <2>3, Unwritten DEF m
<1>3. CASE engine' = [engine EXCEPT ![s].done = TRUE] /\ spends' = spends
  <2> DEFINE w == [engine[s] EXCEPT !.done = TRUE]
  <2>1. engine \in [Tagged -> Worker] /\ engine[s] \in Worker
    BY BooksAre DEF Kept, BooksTyped
  <2>2. engine' = [engine EXCEPT ![s] = w] BY <1>3
  <2>3. w \in Worker /\ w.tag = engine[s].tag /\ w.spent = engine[s].spent BY <2>1 DEF Worker
  <2> HIDE DEF w
  <2> QED BY <1>1, <1>3, <2>2, <2>3, WorkerGoesOn
<1> QED BY <1>1, <1>2, <1>3

\* The engine's worker is stopped: what it sent, or was about to, is lost, and the engine
\* is idle or at the next turn.
LEMMA StopsKept ==
    ASSUME Kept(Books), Losses, NEW s \in Tagged, Stops(s) PROVE Kept(Books') /\ Advances
<1> DEFINE idle == [engine[s] EXCEPT !.running = FALSE, !.done = FALSE, !.spent = {}]
           next == [Asleep EXCEPT !.running = TRUE, !.tag = turns']
<1>1. /\ engine \in [Tagged -> Worker] /\ engine[s] \in Worker /\ turns \in Nat /\ spends \in Nat
      /\ UNCHANGED <<current, open, requests, lines, torn, glued, mishaps>>
  BY BooksAre, Numbers DEF Stops, ledger, gateway, file, Kept, BooksTyped
<1>2. /\ engine[s].spent \in SUBSET Spend /\ \A n \in engine[s].spent : n \notin Gone
      /\ "stopped" \in Why /\ "stopped" \notin {"crash", "write"}
  BY UntoldIs DEF Why
<1>3. PICK w \in Worker :
          /\ engine' = [engine EXCEPT ![s] = w] /\ w.spent = {}
          /\ \/ w.tag \in {0, engine[s].tag} /\ turns' = turns
             \/ w.tag = turns + 1 /\ turns < MaxTurns /\ turns' = turns + 1
  <2>1. \/ turns' = turns /\ engine' = [engine EXCEPT ![s] = idle]
        \/ turns' = turns /\ engine' = [engine EXCEPT ![s] = Asleep]
        \/ turns < MaxTurns /\ turns' = turns + 1 /\ engine' = [engine EXCEPT ![s] = next]
    BY DEF Stops
  <2>2. idle \in Worker /\ idle.tag = engine[s].tag /\ idle.spent = {} BY <1>1 DEF Worker
  <2>3. turns < MaxTurns /\ turns' = turns + 1 =>
            next \in Worker /\ next.tag = turns + 1 /\ next.spent = {}
    <3> SUFFICES ASSUME turns < MaxTurns, turns' = turns + 1
                 PROVE  next \in Worker /\ next.tag = turns + 1 /\ next.spent = {}
      OBVIOUS
    <3>1. turns' \in 0..MaxTurns BY <1>1, Numbers
    <3> QED BY <3>1, AsleepIs DEF Worker
  <2> HIDE DEF idle, next
  <2> QED BY <2>1, <2>2, <2>3, AsleepIs
\* the books of a worker that sent what it was about to and is stopped then
<1>4. ASSUME NEW b, Kept(b), b.current = current, b.open = open, b.requests = requests,
             b.lines = lines, b.lost = Gone, b.turns = turns, b.spends = spends',
             \A u \in Tagged : u # s => b.engine[u] = engine[u], b.engine \in [Tagged -> Worker],
             b.engine[s].tag = engine[s].tag, lost' = Losing("stopped", b.engine[s].spent)
      PROVE  Kept(Books') /\ Advances
  <2> DEFINE x == b.engine[s].spent
             m == Books'
  <2>1. x \in SUBSET Spend
    <3>1. b.engine[s] \in Worker BY <1>4
    <3> QED BY <3>1 DEF Worker
  <2>2. \A n \in x : n \notin Gone
    <3>1. \A n \in x : InEngine(b, n) BY DEF InEngine
    <3> QED BY <1>4, <2>1, <3>1 DEF Kept, Apart
  <2>3. Advances /\ Gone' = Gone \cup x BY <1>1, <1>2, <1>4, <2>1, <2>2, Loses
  <2>4. m.engine = [b.engine EXCEPT ![s] = w]
    <3>1. engine' = [b.engine EXCEPT ![s] = w] BY <1>1, <1>3, <1>4
    <3> QED BY <3>1, BooksAre
  <2>5. /\ m.lost = b.lost \cup x /\ m.current = b.current /\ m.open = b.open
        /\ m.requests = b.requests /\ m.lines = b.lines /\ m.spends = b.spends
        /\ \/ w.tag \in {0, b.engine[s].tag} /\ m.turns = b.turns
           \/ w.tag = b.turns + 1 /\ b.turns < MaxTurns /\ m.turns = b.turns + 1
    BY <1>1, <1>3, <1>4, <2>3, BooksAre
  <2>6. /\ \A n : n \in b.engine[s].spent <=> n \in w.spent \/ n \in x
        /\ \A n \in x : n \notin w.spent
    BY <1>3
  <2> HIDE DEF x, m
  <2>9. Kept(b) /\ w \in Worker BY <1>3, <1>4
  <2>7. ASSUME w.tag \in {0, b.engine[s].tag}, m.turns = b.turns PROVE Kept(m)
    BY <2>4, <2>5, <2>6, <2>7, <2>9, WorkerKept
  <2>8. ASSUME w.tag = b.turns + 1, b.turns < MaxTurns, m.turns = b.turns + 1 PROVE Kept(m)
    BY <2>4, <2>5, <2>6, <2>8, <2>9, WorkerKept
  <2> QED BY <2>3, <2>5, <2>7, <2>8 DEF m
<1>5. CASE lost' = Losing("stopped", engine[s].spent) /\ spends' = spends
  BY <1>1, <1>4, <1>5, BooksAre
<1>6. CASE /\ spends < MaxSpends /\ spends' = spends + 1
           /\ lost' = Losing("stopped", engine[s].spent \cup {spends'})
  <2> DEFINE a == Books
             told == [engine EXCEPT ![s].spent = @ \cup {spends + 1}]
             b == [current |-> current, open |-> open, requests |-> requests, engine |-> told,
                   lines |-> lines, lost |-> Gone, turns |-> turns, spends |-> spends + 1]
  <2>1. /\ b.current = current /\ b.open = open /\ b.requests = requests /\ b.engine = told
        /\ b.lines = lines /\ b.lost = Gone /\ b.turns = turns /\ b.spends = spends + 1
    OBVIOUS
  <2> HIDE DEF b
  <2>2. /\ b.engine = [a.engine EXCEPT ![s].spent = @ \cup {a.spends + 1}]
        /\ a.spends < MaxSpends /\ b.spends = a.spends + 1
        /\ b.current = a.current /\ b.open = a.open /\ b.requests = a.requests
        /\ b.lines = a.lines /\ b.lost = a.lost /\ b.turns = a.turns
    BY <1>6, <2>1, BooksAre
  <2>3. Kept(a) OBVIOUS
  <2> HIDE DEF a
  <2>4. Kept(b) BY <2>2, <2>3, WorkerSpends
  <2>5. b.engine \in [Tagged -> Worker] BY <2>4 DEF Kept, BooksTyped
  <2>6. /\ \A u \in Tagged : u # s => told[u] = engine[u]
        /\ told[s].tag = engine[s].tag /\ told[s].spent = engine[s].spent \cup {spends + 1}
    BY <1>1 DEF Worker
  <2> HIDE DEF told
  <2>7. b.engine[s].tag = engine[s].tag /\ b.engine[s].spent = engine[s].spent \cup {spends'}
    BY <1>6, <2>1, <2>6
  <2>8. lost' = Losing("stopped", b.engine[s].spent) BY <1>6, <2>7
  <2> QED BY <1>4, <1>6, <2>1, <2>4, <2>5, <2>6, <2>7, <2>8
<1> QED BY <1>5, <1>6 DEF Stops, NewSpend

LEMMA PollsKept ==
    ASSUME Kept(Books), Losses, Working, NEW s \in Tagged, Polls(s) PROVE Kept(Books') /\ Advances
<1> DEFINE x == engine[s].spent
           told(t) == IF x = {} THEN open ELSE Added(s, t, x)
           asleep(t) == [Asleep EXCEPT !.tag = t]
           next == [Asleep EXCEPT !.running = TRUE, !.tag = turns']
<1>1. /\ UNCHANGED <<requests, spends>>
      /\ engine \in [Tagged -> Worker] /\ engine[s] \in Worker /\ s \in Session
      /\ turns \in Nat /\ engine[s].tag \in Turn
      /\ \/ /\ engine' = [engine EXCEPT ![s].spent = {}]
            /\ open' = told(engine[s].tag)
            /\ UNCHANGED <<current, lines, torn, glued, lost, Gone, mishaps, turns>>
         \/ /\ turns < MaxTurns /\ turns' = turns + 1
            /\ engine' = [engine EXCEPT ![s] = next]
            /\ open' = told(turns')
            /\ UNCHANGED <<current, lines, torn, glued, lost, Gone, mishaps>>
         \/ /\ engine' = [engine EXCEPT ![s] = asleep(engine[s].tag)]
            /\ Closes(s, told(engine[s].tag), {}) /\ turns' = turns
         \/ /\ turns < MaxTurns /\ turns' = turns + 1
            /\ engine' = [engine EXCEPT ![s] = next]
            /\ Closes(s, told(turns'), {})
  <2>1. /\ engine \in [Tagged -> Worker] /\ engine[s] \in Worker /\ turns \in Nat /\ s \in Session
        /\ UNCHANGED <<requests, spends>>
    BY BooksAre, Numbers DEF Kept, BooksTyped, Polls, gateway
  <2>2. engine[s].tag # 0 BY DEF Polls, Working
  <2>3. engine[s].tag \in Turn BY <2>1, <2>2, Numbers DEF Worker, Turn
  <2> HIDE DEF x
  <2> QED BY <2>1, <2>3 DEF Polls, x, file, Gone
<1>2. asleep(engine[s].tag) \in Worker /\ asleep(engine[s].tag).tag = engine[s].tag
      /\ asleep(engine[s].tag).spent = {}
  BY <1>1, AsleepIs DEF Worker
<1> DEFINE same == [engine[s] EXCEPT !.spent = {}]
           moved == [engine[s] EXCEPT !.tag = turns']
<1>3. same \in Worker /\ same.tag = engine[s].tag /\ same.spent = {} BY <1>1 DEF Worker
<1>4. turns < MaxTurns /\ turns' = turns + 1 =>
        /\ turns' \in Turn
        /\ next \in Worker /\ next.tag = turns' /\ next.spent = {}
        /\ moved \in Worker /\ moved.tag = turns' /\ moved.spent = x
  <2> SUFFICES ASSUME turns < MaxTurns, turns' = turns + 1
               PROVE  /\ turns' \in Turn
                      /\ next \in Worker /\ next.tag = turns' /\ next.spent = {}
                      /\ moved \in Worker /\ moved.tag = turns' /\ moved.spent = x
    OBVIOUS
  <2>1. turns' \in Turn /\ turns' \in 0..MaxTurns BY <1>1, Numbers DEF Turn
  <2>2. next \in Worker /\ next.tag = turns' /\ next.spent = {} BY <2>1, AsleepIs DEF Worker
  <2>3. moved \in Worker /\ moved.tag = turns' /\ moved.spent = x BY <2>1, <1>1 DEF Worker
  <2> QED BY <2>1, <2>2, <2>3
<1> HIDE DEF same, next, asleep, moved, x
\* the books once the poll is published, w being what the engine is then
<1> DEFINE book(w, R) ==
              [current |-> current, open |-> R, requests |-> requests,
               engine |-> [engine EXCEPT ![s] = w], lines |-> lines, lost |-> Gone,
               turns |-> turns', spends |-> spends]
<1>5. \A w, R : /\ book(w, R).current = current /\ book(w, R).open = R
                /\ book(w, R).requests = requests /\ book(w, R).lines = lines
                /\ book(w, R).engine = [engine EXCEPT ![s] = w]
                /\ book(w, R).lost = Gone /\ book(w, R).turns = turns'
                /\ book(w, R).spends = spends
  OBVIOUS
<1> HIDE DEF book
\* published on the turn it was at
<1>6. ASSUME NEW w \in Worker, w.tag = engine[s].tag, w.spent = {}, turns' = turns
      PROVE  Kept(book(w, told(engine[s].tag)))
  <2> DEFINE b == Books
             m == book(w, told(engine[s].tag))
  <2>1. /\ m.current = current /\ m.open = told(engine[s].tag) /\ m.requests = requests
        /\ m.lines = lines /\ m.engine = [engine EXCEPT ![s] = w] /\ m.lost = Gone
        /\ m.turns = turns' /\ m.spends = spends
    BY <1>5
  <2> HIDE DEF m
  <2>2. /\ m.current = b.current /\ m.requests = b.requests /\ m.lines = b.lines
        /\ m.engine = [b.engine EXCEPT ![s] = w] /\ m.lost = b.lost
        /\ m.turns = b.turns /\ m.spends = b.spends
        /\ b.open = open /\ w.tag = b.engine[s].tag /\ b.engine[s].tag \in Turn
    BY <1>1, <1>6, <2>1, BooksAre
  <2>3. m.open = IF b.engine[s].spent = {} THEN open
                 ELSE Added(s, b.engine[s].tag, b.engine[s].spent)
    BY <2>1, BooksAre DEF x
  <2>4. Kept(b) OBVIOUS
  <2> HIDE DEF told, b
  <2>5. Kept(m) BY <1>6, <2>2, <2>3, <2>4, ToldKept
  <2> QED BY <2>5 DEF m
\* published on the turn after
<1>7. ASSUME turns < MaxTurns, turns' = turns + 1
      PROVE  Kept(book(next, told(turns')))
  <2> DEFINE a == Books
             b == book(moved, open)
             m == book(next, told(turns'))
             none == {}
  <2>1. /\ b.current = current /\ b.open = open /\ b.requests = requests
        /\ b.lines = lines /\ b.engine = [engine EXCEPT ![s] = moved] /\ b.lost = Gone
        /\ b.turns = turns' /\ b.spends = spends
    BY <1>5
  <2>2. /\ m.current = current /\ m.open = told(turns') /\ m.requests = requests
        /\ m.lines = lines /\ m.engine = [engine EXCEPT ![s] = next] /\ m.lost = Gone
        /\ m.turns = turns' /\ m.spends = spends
    BY <1>5
  <2> HIDE DEF b, m
  <2>3. /\ b.current = a.current /\ b.open = a.open /\ b.requests = a.requests
        /\ b.lines = a.lines /\ b.engine = [a.engine EXCEPT ![s] = moved]
        /\ b.lost = a.lost \cup none /\ b.spends = a.spends
        /\ moved.tag = a.turns + 1 /\ a.turns < MaxTurns /\ b.turns = a.turns + 1
    BY <1>4, <1>7, <2>1, BooksAre
  <2>4. /\ moved \in Worker /\ \A n : n \in a.engine[s].spent <=> n \in moved.spent \/ n \in none
        /\ \A n \in none : n \notin moved.spent
    BY <1>4, <1>7, BooksAre DEF x
  <2>5. Kept(a) OBVIOUS
  <2> HIDE DEF a, none
  <2>6. Kept(b) BY <2>3, <2>4, <2>5, WorkerKept
  <2>7. b.engine[s] = moved /\ m.engine = [b.engine EXCEPT ![s] = next] BY <1>1, <2>1, <2>2
  <2>8. m.open = IF b.engine[s].spent = {} THEN open
                 ELSE Added(s, b.engine[s].tag, b.engine[s].spent)
    BY <1>4, <1>7, <2>2, <2>7
  <2>9. /\ next \in Worker /\ b.engine[s].tag \in Turn /\ next.tag = b.engine[s].tag
        /\ next.spent = {}
    BY <1>4, <1>7, <2>7
  <2>10. /\ m.current = b.current /\ m.requests = b.requests /\ m.lines = b.lines
         /\ m.lost = b.lost /\ m.turns = b.turns /\ m.spends = b.spends
    BY <2>1, <2>2
  <2> HIDE DEF told
  <2>11. Kept(m) BY <2>1, <2>6, <2>7, <2>8, <2>9, <2>10, ToldKept
  <2> QED BY <2>11 DEF m
<1> HIDE DEF told
\* the books are then these, or these closed
<1>8. ASSUME NEW w, NEW R, Kept(book(w, R)), engine' = [engine EXCEPT ![s] = w], open' = R,
             UNCHANGED <<current, lines, torn, glued, lost, Gone, mishaps>>
      PROVE  Kept(Books') /\ Advances
  <2> DEFINE b == book(w, R)
             m == Books'
  <2>1. /\ b.current = current /\ b.open = R /\ b.requests = requests /\ b.lines = lines
        /\ b.engine = [engine EXCEPT ![s] = w] /\ b.lost = Gone /\ b.turns = turns'
        /\ b.spends = spends
    BY <1>5
  <2>2. Kept(b) BY <1>8
  <2> HIDE DEF b
  <2>3. /\ m.current = b.current /\ m.open = b.open /\ m.requests = b.requests
        /\ m.engine = b.engine /\ m.lines = b.lines /\ m.lost = b.lost
        /\ m.turns = b.turns /\ m.spends = b.spends
    BY <1>1, <1>8, <2>1, BooksAre
  <2> HIDE DEF m
  <2>4. Kept(m) BY <2>2, <2>3, SameKept
  <2> QED BY <1>8, <2>4, Unwritten DEF m
<1>9. ASSUME NEW w, NEW R, Kept(book(w, R)), engine' = [engine EXCEPT ![s] = w], Closes(s, R, {})
      PROVE  Kept(Books') /\ Advances
  <2> DEFINE b == book(w, R)
             m == Books'
  <2>1. /\ b.current = current /\ b.open = R /\ b.requests = requests /\ b.lines = lines
        /\ b.engine = [engine EXCEPT ![s] = w] /\ b.lost = Gone /\ b.turns = turns'
        /\ b.spends = spends
    BY <1>5
  <2>2. Kept(b) BY <1>9
  <2> HIDE DEF b
  <2>3. /\ m.requests = b.requests /\ m.engine = b.engine /\ m.turns = b.turns
        /\ m.spends = b.spends /\ m.current = current' /\ m.open = open'
        /\ m.lines = lines' /\ m.lost = Gone'
    BY <1>1, <1>9, <2>1, BooksAre
  <2> DEFINE none == {}
  <2>4. /\ b.lost = Gone \cup none /\ none \in SUBSET Spend
        /\ \A n \in none : n \notin Gone
    BY <2>1
  <2>5. Closes(s, R, none) BY <1>9
  <2> HIDE DEF m, none
  <2>6. Kept(m) /\ Advances BY <1>1, <2>1, <2>2, <2>3, <2>4, <2>5, ClosesKept
  <2> QED BY <2>6 DEF m
<1>10. CASE /\ engine' = [engine EXCEPT ![s].spent = {}]
            /\ open' = told(engine[s].tag)
            /\ UNCHANGED <<current, lines, torn, glued, lost, Gone, mishaps, turns>>
  <2>1. engine' = [engine EXCEPT ![s] = same] BY <1>10 DEF same
  <2>2. Kept(book(same, told(engine[s].tag))) BY <1>3, <1>6, <1>10
  <2> QED BY <1>8, <1>10, <2>1, <2>2
<1>11. CASE /\ turns < MaxTurns /\ turns' = turns + 1
            /\ engine' = [engine EXCEPT ![s] = next]
            /\ open' = told(turns')
            /\ UNCHANGED <<current, lines, torn, glued, lost, Gone, mishaps>>
  <2>1. Kept(book(next, told(turns'))) BY <1>7, <1>11
  <2> QED BY <1>8, <1>11, <2>1
<1>12. CASE /\ engine' = [engine EXCEPT ![s] = asleep(engine[s].tag)]
            /\ Closes(s, told(engine[s].tag), {}) /\ turns' = turns
  <2>1. Kept(book(asleep(engine[s].tag), told(engine[s].tag))) BY <1>2, <1>6, <1>12
  <2> QED BY <1>9, <1>12, <2>1
<1>13. CASE /\ turns < MaxTurns /\ turns' = turns + 1
            /\ engine' = [engine EXCEPT ![s] = next]
            /\ Closes(s, told(turns'), {})
  <2>1. Kept(book(next, told(turns'))) BY <1>7, <1>13
  <2> QED BY <1>9, <1>13, <2>1
<1> QED BY <1>1, <1>10, <1>11, <1>12, <1>13

\* The daemon is killed: what was in memory is lost, what is written stays.
LEMMA CrashKept == ASSUME Kept(Books), Losses, Crash PROVE Kept(Books') /\ Advances
<1> DEFINE b == Books
           m == Books'
           recorded == UNION {r.spent : r \in open}
           sending == UNION {engine[s].spent : s \in Tagged}
           flying == {q.spend : q \in {r \in requests : ~r.metered}}
           gone == recorded \cup sending \cup flying
<1>1. /\ current' = [s \in Session |-> 0] /\ open' = {} /\ requests' = {}
      /\ engine' = [s \in Tagged |-> Asleep] /\ UNCHANGED <<lines, turns, spends>>
  BY DEF Crash, file
<1>2. \A n : n \in recorded <=> OnRecord(b, n) BY BooksAre DEF OnRecord
<1>3. \A n : n \in sending <=> InEngine(b, n) BY BooksAre DEF InEngine
<1>4. \A n : n \in flying <=> InFlight(b, n) BY BooksAre DEF InFlight
<1>5. gone \subseteq Spend
  <2>1. /\ open \subseteq Record /\ requests \subseteq Request
        /\ \A s \in Tagged : engine[s] \in Worker
    BY BooksAre DEF Kept, BooksTyped
  <2>2. /\ \A r \in open : r.spent \subseteq Spend
        /\ \A r \in requests : r.spend \in Spend
        /\ \A s \in Tagged : engine[s].spent \subseteq Spend
    BY <2>1 DEF Record, Request, Worker
  <2>3. recorded \subseteq Spend BY <2>2
  <2>4. sending \subseteq Spend BY <2>2
  <2>5. flying \subseteq Spend BY <2>2
  <2> HIDE DEF recorded, sending, flying
  <2> QED BY <2>3, <2>4, <2>5
<1>6. Losses' /\ Grows /\ Gone' = Gone \cup gone
  <2>1. lost' = Losing("crash", gone) /\ mishaps' = mishaps + 1 /\ UNCHANGED <<torn, glued, lines>>
    BY DEF Crash, Mishap, file
  <2>2. \A n \in gone : n \notin Gone
    <3> HIDE DEF recorded, sending, flying
    <3>1. \A n \in gone : OnRecord(b, n) \/ InEngine(b, n) \/ InFlight(b, n)
      BY <1>2, <1>3, <1>4
    <3>2. Kept(b) /\ b.lost = Gone BY BooksAre
    <3> HIDE DEF b, gone
    <3> QED BY <1>5, <3>1, <3>2 DEF Kept, Apart
  <2> HIDE DEF gone
  <2>3. /\ lost \in [Why -> SUBSET Spend] /\ Apiece(lost) /\ "crash" \in Why
        /\ mishaps \in Nat
    BY DEF Losses, Why
  <2>4. lost' = More(lost, "crash", gone) BY <2>1 DEF Losing, More
  <2>5. /\ lost' \in [Why -> SUBSET Spend] /\ Apiece(lost')
        /\ All(lost') = All(lost) \cup gone
    <3>1. \A n \in gone : n \notin All(lost) BY <2>2 DEF Gone
    <3> QED BY <1>5, <2>3, <2>4, <3>1, LoseIs
  <2>6. mishaps' \in Nat /\ mishaps' # 0 BY <2>1, <2>3
  <2>7. Losses' BY <2>5, <2>6 DEF Losses, Apiece
  <2>8. lines \in Seq(Line) BY BooksAre DEF Kept, BooksTyped
  <2>9. Grows BY <2>1, <2>8 DEF Grows
  <2> QED BY <2>5, <2>7, <2>9 DEF Gone
<1> HIDE DEF recorded, sending, flying
<1>7. \A n : n \in gone <=> InEngine(b, n) \/ InFlight(b, n) \/ OnRecord(b, n)
  BY <1>2, <1>3, <1>4
<1> HIDE DEF gone
<1>8. Kept(b) OBVIOUS
<1>9. /\ m.current = [s \in Session |-> 0] /\ m.open = {} /\ m.requests = {}
      /\ m.engine = [s \in Tagged |-> Asleep] /\ m.lost = b.lost \cup gone
      /\ m.lines = b.lines /\ m.turns = b.turns /\ m.spends = b.spends
  BY <1>1, <1>6, BooksAre
<1> HIDE DEF b, m
<1>10. BooksTyped(m)
  <2>1. IsFiniteSet(m.open) BY <1>9, FS_EmptySet
  <2> QED BY <1>5, <1>8, <1>9, <2>1, AsleepIs, Numbers DEF Kept, BooksTyped
<1>11. \A k \in Turn, u \in Session : Holds(m, u, k) => Holds(b, u, k)
  <2>1. 0 \notin Turn BY DEF Turn
  <2> QED BY <1>9, <2>1, AsleepIs DEF Holds
<1>12. Owned(m) BY <1>8, <1>9, <1>11 DEF Kept, Owned
<1>13. Whole(m)
  <2>1. \A i \in DOMAIN b.lines : m.current[b.lines[i].session] # b.lines[i].turn
    <3>1. 0 \notin Turn BY DEF Turn
    <3> QED BY <1>8, <1>9, <3>1, LineIs DEF Kept
  <2> QED BY <1>8, <1>9, <2>1 DEF Kept, Whole
<1>14. \A n : /\ ~InEngine(m, n) /\ ~InFlight(m, n) /\ ~OnRecord(m, n)
              /\ OnLine(m, n) <=> OnLine(b, n)
              /\ n \in m.lost <=>
                    n \in b.lost \/ InEngine(b, n) \/ InFlight(b, n) \/ OnRecord(b, n)
  BY <1>7, <1>9, AsleepIs DEF InEngine, InFlight, OnRecord, OnLine
<1>15. Accounted(m) BY <1>8, <1>9, <1>14 DEF Kept, Accounted
<1>16. Apart(m) BY <1>8, <1>14 DEF Kept, Apart
<1>17. Once(m) BY <1>8, <1>9, AsleepIs DEF Kept, Once
<1>18. Kept(m) BY <1>10, <1>12, <1>13, <1>15, <1>16, <1>17 DEF Kept
<1> QED BY <1>6, <1>18 DEF m, Advances

\* Of the books, the uploader and the user change nothing.
LEMMA OthersKept ==
    ASSUME Kept(Books), Losses, UNCHANGED <<current, open, requests, engine, turns, spends>>,
           UNCHANGED <<lines, torn, glued, lost>>, mishaps' \in {mishaps, mishaps + 1}
    PROVE  Kept(Books') /\ Advances
<1> DEFINE b == Books
           m == Books'
<1>1. /\ m.current = b.current /\ m.open = b.open /\ m.requests = b.requests
      /\ m.engine = b.engine /\ m.lines = b.lines /\ m.lost = b.lost
      /\ m.turns = b.turns /\ m.spends = b.spends
  BY BooksAre DEF Gone
<1>2. Kept(b) OBVIOUS
<1> HIDE DEF b, m
<1>3. Kept(m) BY <1>1, <1>2, SameKept
<1> QED BY <1>3, Unwritten DEF m

LEMMA NextKept == ASSUME Kept(Books), Losses, Working, Next PROVE Kept(Books') /\ Advances
<1>1. ASSUME NEW s \in Session,
             Message(s) \/ Spends(s) \/ Ready(s) \/ Ended(s) \/ Asked(s) \/ ClosesLast(s)
      PROVE  Kept(Books') /\ Advances
  BY <1>1, MessageKept, SpendsKept, ReadyKept, EndedKept, AskedKept, ClosesLastKept
<1>2. ASSUME NEW q \in requests, Metered(q) \/ Finished(q) PROVE Kept(Books') /\ Advances
  BY <1>2, MeteredKept, FinishedKept
<1>3. ASSUME NEW s \in Tagged, Submits(s) \/ Works(s) \/ Stops(s) \/ Polls(s)
      PROVE  Kept(Books') /\ Advances
  BY <1>3, SubmitsKept, WorksKept, StopsKept, PollsKept
<1>4. CASE Reads \/ Posts \/ Saves \/ Signs
  <2>1. /\ UNCHANGED <<current, open, requests, engine, turns, spends>>
        /\ UNCHANGED <<lines, torn, glued, lost>> /\ mishaps' \in {mishaps, mishaps + 1}
    BY <1>4 DEF Reads, Posts, Saves, Signs, Mishap, ledger, gateway, engines, file
  <2> QED BY <2>1, OthersKept
<1>5. CASE Crash BY <1>5, CrashKept
<1> QED BY <1>1, <1>2, <1>3, <1>4, <1>5 DEF Next

LEMMA WorkingStays == ASSUME Kept(Books), Working, Next PROVE Working'
<1>1. engine \in [Tagged -> Worker] /\ turns \in Nat
  BY BooksAre DEF Kept, BooksTyped
<1>2. \A s \in Tagged : engine[s] \in Worker BY <1>1
<1>3. ASSUME NEW s \in Tagged, NEW w \in Worker, engine' = [engine EXCEPT ![s] = w],
             w.running \/ w.queued = 1 => w.tag # 0, w.done \/ w.spent # {} => w.running
      PROVE  Working'
  <2>1. \A u \in Tagged : engine'[u] = IF u = s THEN w ELSE engine[u] BY <1>1, <1>3
  <2> QED BY <1>3, <2>1 DEF Working
<1> DEFINE next(t) == [Asleep EXCEPT !.running = TRUE, !.tag = t]
           asleep(t) == [Asleep EXCEPT !.tag = t]
<1>4. /\ Asleep \in Worker /\ ~Asleep.running /\ ~Asleep.done /\ Asleep.spent = {}
      /\ Asleep.queued = 0
      /\ \A t \in 0..MaxTurns : next(t) \in Worker /\ next(t).tag = t /\ next(t).running
      /\ \A t \in 0..MaxTurns : /\ asleep(t) \in Worker /\ ~asleep(t).running
                                /\ ~asleep(t).done /\ asleep(t).spent = {}
                                /\ asleep(t).queued = 0
  <2>1. /\ Asleep \in Worker /\ ~Asleep.running /\ ~Asleep.done /\ Asleep.spent = {}
        /\ Asleep.queued = 0
    BY AsleepIs DEF Asleep
  <2>2. \A t \in 0..MaxTurns : next(t) \in Worker /\ next(t).tag = t /\ next(t).running
    BY <2>1 DEF Worker
  <2>3. \A t \in 0..MaxTurns : /\ asleep(t) \in Worker /\ ~asleep(t).running
                               /\ ~asleep(t).done /\ asleep(t).spent = {}
                               /\ asleep(t).queued = 0
    BY <2>1 DEF Worker
  <2> HIDE DEF next, asleep
  <2> QED BY <2>1, <2>2, <2>3
<1> HIDE DEF next, asleep
<1>16. ASSUME NEW s \in Tagged, NEW w \in Worker, engine' = [engine EXCEPT ![s] = w],
              ~w.running, w.queued = 0, ~w.done, w.spent = {}
       PROVE  Working'
  <2>1. w.queued # 1 BY <1>16
  <2> QED BY <1>3, <1>16, <2>1
<1>5. turns < MaxTurns => turns + 1 \in 0..MaxTurns /\ turns + 1 # 0 BY <1>1, Numbers
<1>6. ASSUME NEW s \in Session, Ended(s) PROVE Working'
  <2>1. CASE s \in Tagged
    <3>1. engine' = [engine EXCEPT ![s] = Asleep] BY <1>6, <2>1 DEF Ended
    <3> QED BY <1>4, <1>16, <2>1, <3>1
  <2>2. CASE s \notin Tagged BY <1>6, <2>2 DEF Ended, Working
  <2> QED BY <2>1, <2>2
<1>7. ASSUME NEW s \in Tagged, Submits(s) PROVE Working'
  <2>1. CASE engine[s].running
    <3> DEFINE w == [engine[s] EXCEPT !.queued = 1]
    <3>1. engine' = [engine EXCEPT ![s] = w] BY <1>7, <2>1 DEF Submits
    <3>2. w \in Worker /\ w.running /\ w.tag = engine[s].tag BY <1>2, <2>1 DEF Worker
    <3> HIDE DEF w
    <3> QED BY <1>3, <2>1, <3>1, <3>2 DEF Working
  <2>2. CASE ~engine[s].running
    <3> DEFINE t == turns + 1
               w == [engine[s] EXCEPT !.running = TRUE, !.tag = t]
    <3>1. engine' = [engine EXCEPT ![s] = w] /\ t \in 0..MaxTurns /\ t # 0
      BY <1>5, <1>7, <2>2 DEF Submits
    <3> HIDE DEF t
    <3>2. w \in Worker /\ w.running /\ w.tag = t BY <1>2, <3>1 DEF Worker
    <3> HIDE DEF w
    <3> QED BY <1>3, <3>1, <3>2
  <2> QED BY <2>1, <2>2
<1>8. ASSUME NEW s \in Tagged, Works(s) PROVE Working'
  <2>1. engine[s].running /\ engine[s].tag # 0 BY <1>8 DEF Works, Working
  <2>2. CASE NewSpend /\ engine' = [engine EXCEPT ![s].spent = @ \cup {spends'}]
    <3> DEFINE n == spends'
               w == [engine[s] EXCEPT !.spent = engine[s].spent \cup {n}]
    <3>1. n \in Spend BY <2>2, BooksAre, Numbers DEF NewSpend, Kept, BooksTyped, Spend
    <3>2. engine' = [engine EXCEPT ![s] = w] BY <2>2
    <3> HIDE DEF n
    <3>3. w \in Worker /\ w.running /\ w.tag # 0 BY <1>2, <2>1, <3>1 DEF Worker
    <3> HIDE DEF w
    <3> QED BY <1>3, <3>2, <3>3
  <2>3. CASE engine' = [engine EXCEPT ![s].done = TRUE]
    <3> DEFINE w == [engine[s] EXCEPT !.done = TRUE]
    <3>1. engine' = [engine EXCEPT ![s] = w] BY <2>3
    <3>2. w \in Worker /\ w.running /\ w.tag # 0 BY <1>2, <2>1 DEF Worker
    <3> HIDE DEF w
    <3> QED BY <1>3, <3>1, <3>2
  <2> QED BY <1>8, <2>2, <2>3 DEF Works
<1>9. ASSUME NEW s \in Tagged, Polls(s) PROVE Working'
  <2>1. engine[s].tag # 0 BY <1>9 DEF Polls, Working
  <2>2. \/ /\ engine' = [engine EXCEPT ![s].spent = {}]
           /\ engine[s].running /\ ~engine[s].done
        \/ turns < MaxTurns /\ turns' = turns + 1 /\ engine' = [engine EXCEPT ![s] = next(turns')]
        \/ engine' = [engine EXCEPT ![s] = asleep(engine[s].tag)]
    BY <1>9 DEF Polls, next, asleep
  <2>3. engine[s].tag \in 0..MaxTurns BY <1>2 DEF Worker
  <2>4. CASE /\ engine' = [engine EXCEPT ![s].spent = {}]
             /\ engine[s].running /\ ~engine[s].done
    <3> DEFINE w == [engine[s] EXCEPT !.spent = {}]
    <3>1. engine' = [engine EXCEPT ![s] = w] BY <2>4
    <3>2. w \in Worker /\ w.running /\ w.tag # 0 BY <1>2, <2>1, <2>4 DEF Worker
    <3> HIDE DEF w
    <3> QED BY <1>3, <3>1, <3>2
  <2>5. CASE turns < MaxTurns /\ turns' = turns + 1 /\ engine' = [engine EXCEPT ![s] = next(turns')]
    <3>1. turns' \in 0..MaxTurns /\ turns' # 0 BY <1>5, <2>5
    <3>2. next(turns') \in Worker /\ next(turns').tag = turns' /\ next(turns').running
      BY <1>4, <3>1
    <3> QED BY <1>3, <2>5, <3>1, <3>2
  <2>6. CASE engine' = [engine EXCEPT ![s] = asleep(engine[s].tag)]
    <3>1. /\ asleep(engine[s].tag) \in Worker /\ ~asleep(engine[s].tag).running
          /\ ~asleep(engine[s].tag).done /\ asleep(engine[s].tag).spent = {}
          /\ asleep(engine[s].tag).queued = 0
      BY <1>4, <2>3
    <3> QED BY <1>16, <2>6, <3>1
  <2> QED BY <2>2, <2>4, <2>5, <2>6
<1>10. CASE Crash BY <1>4, <1>10 DEF Crash, Working
<1>15. ASSUME NEW s \in Tagged, Stops(s) PROVE Working'
  <2> DEFINE idle == [engine[s] EXCEPT !.running = FALSE, !.done = FALSE, !.spent = {}]
  <2>1. engine[s].running /\ engine[s].tag # 0 BY <1>15 DEF Stops, Working
  <2>2. \/ engine' = [engine EXCEPT ![s] = idle]
        \/ engine' = [engine EXCEPT ![s] = Asleep]
        \/ turns < MaxTurns /\ turns' = turns + 1 /\ engine' = [engine EXCEPT ![s] = next(turns')]
    BY <1>15 DEF Stops, next
  <2>3. /\ idle \in Worker /\ ~idle.running /\ ~idle.done /\ idle.spent = {} /\ idle.tag # 0
    BY <1>2, <2>1 DEF Worker
  <2> HIDE DEF idle
  <2>4. CASE engine' = [engine EXCEPT ![s] = idle] BY <1>3, <2>3, <2>4
  <2>5. CASE engine' = [engine EXCEPT ![s] = Asleep] BY <1>4, <1>16, <2>5
  <2>6. CASE turns < MaxTurns /\ turns' = turns + 1 /\ engine' = [engine EXCEPT ![s] = next(turns')]
    <3>1. turns' \in 0..MaxTurns /\ turns' # 0 BY <1>5, <2>6
    <3>2. next(turns') \in Worker /\ next(turns').tag = turns' /\ next(turns').running
      BY <1>4, <3>1
    <3> QED BY <1>3, <2>6, <3>1, <3>2
  <2> QED BY <2>2, <2>4, <2>5, <2>6
<1>11. ASSUME UNCHANGED engine PROVE Working' BY <1>11 DEF Working
<1>12. ASSUME NEW s \in Session, Message(s) \/ Spends(s) \/ Ready(s) \/ Asked(s) \/ ClosesLast(s)
       PROVE  Working'
  BY <1>11, <1>12 DEF Message, Spends, Ready, Asked, ClosesLast, engines
<1>13. ASSUME NEW q \in requests, Metered(q) \/ Finished(q) PROVE Working'
  BY <1>11, <1>13 DEF Metered, Finished, engines
<1>14. CASE Reads \/ Posts \/ Saves \/ Signs
  BY <1>11, <1>14 DEF Reads, Posts, Saves, Signs, engines
<1> QED BY <1>6, <1>7, <1>8, <1>9, <1>10, <1>12, <1>13, <1>14, <1>15 DEF Next

LEMMA InitKept == ASSUME Init PROVE Kept(Books) /\ Losses /\ Working
<1> DEFINE b == Books
<1>1. /\ b.current = [s \in Session |-> 0] /\ b.open = {} /\ b.requests = {}
      /\ b.engine = [s \in Tagged |-> Asleep] /\ b.lost = {} /\ b.lines = <<>>
      /\ b.turns = 0 /\ b.spends = 0
  <2>1. Gone = {} BY DEF Init, Gone, All
  <2> QED BY <2>1, BooksAre DEF Init
<1> HIDE DEF b
<1>2. 0 \notin Turn /\ \A n \in Spend : ~(n <= 0) BY DEF Turn, Spend
<1>3. BooksTyped(b)
  <2>1. IsFiniteSet(b.open) BY <1>1, FS_EmptySet
  <2>2. b.lines \in Seq(Line) BY <1>1
  <2>3. b.engine \in [Tagged -> Worker] BY <1>1, AsleepIs
  <2>4. b.current \in [Session -> 0..MaxTurns] /\ b.turns \in 0..MaxTurns /\ b.spends \in 0..MaxSpends
    BY <1>1, Numbers
  <2> QED BY <1>1, <2>1, <2>2, <2>3, <2>4 DEF BooksTyped
<1>4. DOMAIN b.lines = {} BY <1>1
<1>5. \A k \in Turn, u \in Session : ~Holds(b, u, k) BY <1>1, <1>2, <1>4, AsleepIs DEF Holds
<1>6. Owned(b) /\ Whole(b) BY <1>1, <1>4, <1>5 DEF Owned, Whole
<1>7. \A n : ~InEngine(b, n) /\ ~InFlight(b, n) /\ ~OnRecord(b, n) /\ ~OnLine(b, n)
  BY <1>1, <1>4, AsleepIs DEF InEngine, InFlight, OnRecord, OnLine
<1>8. Accounted(b) /\ Apart(b) BY <1>1, <1>2, <1>7 DEF Accounted, Apart
<1>9. Once(b) BY <1>1, <1>4, AsleepIs DEF Once
<1>10. Kept(b) BY <1>3, <1>6, <1>8, <1>9 DEF Kept
<1>11. Working BY DEF Init, Working, Asleep
<1>12. Losses BY DEF Init, Losses, Apiece, Why
<1> QED BY <1>10, <1>11, <1>12 DEF b

-----------------------------------------------------------------------------
(* What the books being in order shows. *)

LEMMA OneIn == ASSUME NEW x PROVE Cardinality({x}) = 1
BY FS_Singleton

LEMMA CountedOnce == ASSUME Kept(Books), Losses PROVE SpentOnce
<1> DEFINE b == Books
           inEngine(n) == {<<"engine", s>> : s \in {t \in Tagged : n \in engine[t].spent}}
           inFlight(n) == {<<"request", q.turn>> : q \in {r \in requests : r.spend = n /\ ~r.metered}}
           onRecord(n) == {<<"record", r.turn>> : r \in {q \in open : n \in q.spent}}
           onLine(n) == {<<IF i \in glued THEN "glued" ELSE "line", i>> : i \in {j \in DOMAIN lines : n \in lines[j].spent}}
           isLost(n) == {<<"lost", why>> : why \in {w \in Why : n \in lost[w]}}
<1> SUFFICES ASSUME NEW n \in 1..spends PROVE Cardinality(Places(n)) = 1
  BY DEF SpentOnce, Losses
<1>1. /\ b.open = open /\ b.requests = requests /\ b.engine = engine /\ b.lines = lines
      /\ b.lost = Gone /\ b.spends = spends
  BY BooksAre
<1>2. n \in Spend /\ n <= spends
  BY <1>1, Numbers DEF Kept, BooksTyped, Spend
<1>3. Places(n) = inEngine(n) \cup inFlight(n) \cup onRecord(n) \cup onLine(n) \cup isLost(n)
  BY DEF Places
<1>4. /\ ~InEngine(b, n) => inEngine(n) = {}
      /\ InEngine(b, n) => \E s : inEngine(n) = {<<"engine", s>>}
  <2>1. ~InEngine(b, n) => inEngine(n) = {} BY <1>1 DEF InEngine
  <2>2. ASSUME InEngine(b, n) PROVE \E s : inEngine(n) = {<<"engine", s>>}
    <3>1. PICK s \in Tagged : n \in engine[s].spent BY <1>1, <2>2 DEF InEngine
    <3>2. {t \in Tagged : n \in engine[t].spent} = {s} BY <1>1, <1>2, <3>1 DEF Kept, Once
    <3> QED BY <3>2
  <2> QED BY <2>1, <2>2
<1>5. /\ ~InFlight(b, n) => inFlight(n) = {}
      /\ InFlight(b, n) => \E t : inFlight(n) = {<<"request", t>>}
  <2>1. ~InFlight(b, n) => inFlight(n) = {} BY <1>1 DEF InFlight
  <2>2. ASSUME InFlight(b, n) PROVE \E t : inFlight(n) = {<<"request", t>>}
    <3>1. PICK q \in requests : q.spend = n /\ ~q.metered BY <1>1, <2>2 DEF InFlight
    <3>2. {r \in requests : r.spend = n /\ ~r.metered} = {q} BY <1>1, <3>1 DEF Kept, Once
    <3>3. inFlight(n) = {<<"request", r.turn>> : r \in {q}} BY <3>2
    <3>4. inFlight(n) = {<<"request", q.turn>>} BY <3>3
    <3> QED BY <3>4
  <2> QED BY <2>1, <2>2
<1>6. /\ ~OnRecord(b, n) => onRecord(n) = {}
      /\ OnRecord(b, n) => \E t : onRecord(n) = {<<"record", t>>}
  <2>1. ~OnRecord(b, n) => onRecord(n) = {} BY <1>1 DEF OnRecord
  <2>2. ASSUME OnRecord(b, n) PROVE \E t : onRecord(n) = {<<"record", t>>}
    <3>1. PICK r \in open : n \in r.spent BY <1>1, <2>2 DEF OnRecord
    <3>2. {q \in open : n \in q.spent} = {r} BY <1>1, <1>2, <3>1 DEF Kept, Once
    <3>3. onRecord(n) = {<<"record", q.turn>> : q \in {r}} BY <3>2
    <3>4. onRecord(n) = {<<"record", r.turn>>} BY <3>3
    <3> QED BY <3>4
  <2> QED BY <2>1, <2>2
<1>7. /\ ~OnLine(b, n) => onLine(n) = {}
      /\ OnLine(b, n) => \E p : onLine(n) = {p}
  <2>1. ~OnLine(b, n) => onLine(n) = {} BY <1>1 DEF OnLine
  <2>2. ASSUME OnLine(b, n) PROVE \E p : onLine(n) = {p}
    <3>1. PICK i \in DOMAIN lines : n \in lines[i].spent BY <1>1, <2>2 DEF OnLine
    <3>2. {j \in DOMAIN lines : n \in lines[j].spent} = {i} BY <1>1, <1>2, <3>1 DEF Kept, Once
    <3> DEFINE place(j) == <<IF j \in glued THEN "glued" ELSE "line", j>>
    <3>3. onLine(n) = {place(j) : j \in {i}} BY <3>2
    <3>4. onLine(n) = {place(i)} BY <3>3
    <3> QED BY <3>4
  <2> QED BY <2>1, <2>2
<1>8. /\ n \notin b.lost => isLost(n) = {}
      /\ n \in b.lost => \E why : isLost(n) = {<<"lost", why>>}
  <2>1. n \in b.lost <=> \E why \in Why : n \in lost[why] BY <1>1 DEF Gone, All
  <2>2. n \notin b.lost => isLost(n) = {} BY <2>1
  <2>3. ASSUME n \in b.lost PROVE \E why : isLost(n) = {<<"lost", why>>}
    <3>1. PICK why \in Why : n \in lost[why] BY <2>1, <2>3
    <3>2. {w \in Why : n \in lost[w]} = {why} BY <1>2, <3>1 DEF Losses, Apiece
    <3>3. isLost(n) = {<<"lost", w>> : w \in {why}} BY <3>2
    <3>4. isLost(n) = {<<"lost", why>>} BY <3>3
    <3> QED BY <3>4
  <2> QED BY <2>2, <2>3
<1>9. InEngine(b, n) \/ InFlight(b, n) \/ OnRecord(b, n) \/ OnLine(b, n) \/ n \in b.lost
  BY <1>1, <1>2 DEF Kept, Accounted
<1>10. /\ InEngine(b, n) => ~InFlight(b, n) /\ ~OnRecord(b, n) /\ ~OnLine(b, n) /\ n \notin b.lost
       /\ InFlight(b, n) => ~OnRecord(b, n) /\ ~OnLine(b, n) /\ n \notin b.lost
       /\ OnRecord(b, n) => ~OnLine(b, n) /\ n \notin b.lost
       /\ OnLine(b, n) => n \notin b.lost
  BY <1>2 DEF Kept, Apart
<1> HIDE DEF b, inEngine, inFlight, onRecord, onLine, isLost
<1>11. \E p : Places(n) = {p}
  <2>1. CASE InEngine(b, n) BY <1>3, <1>4, <1>5, <1>6, <1>7, <1>8, <1>10, <2>1
  <2>2. CASE InFlight(b, n) BY <1>3, <1>4, <1>5, <1>6, <1>7, <1>8, <1>10, <2>2
  <2>3. CASE OnRecord(b, n) BY <1>3, <1>4, <1>5, <1>6, <1>7, <1>8, <1>10, <2>3
  <2>4. CASE OnLine(b, n) BY <1>3, <1>4, <1>5, <1>6, <1>7, <1>8, <1>10, <2>4
  <2>5. CASE n \in b.lost BY <1>3, <1>4, <1>5, <1>6, <1>7, <1>8, <1>10, <2>5
  <2> QED BY <1>9, <2>1, <2>2, <2>3, <2>4, <2>5
<1> QED BY <1>11, OneIn

LEMMA WrittenWhole == ASSUME Kept(Books) PROVE TurnIsWhole
BY BooksAre DEF Kept, Whole, TurnIsWhole

-----------------------------------------------------------------------------
(* The uploader. *)

\* What the uploader read it is to send; what it is through with is uploaded, or refused.
Sending ==
    /\ sent \in 0..Len(lines)
    /\ batch \in [stage : {"none", "read", "through"}, from : SUBSET Line, end : 0..Len(lines)]
    /\ server \cup refused \subseteq Line
    /\ batch.stage = "read" =>
        \A i \in ToUpload : sent < i /\ i <= batch.end => lines[i] \in batch.from
    /\ batch.stage = "through" =>
        \A i \in ToUpload : sent < i /\ i <= batch.end => lines[i] \in server \cup refused
    /\ SentIsUploaded

Batches(end) == [stage : {"none", "read", "through"}, from : SUBSET Line, end : end]

LEMMA NoBatchIs ==
    ASSUME NEW n \in Nat
    PROVE  NoBatch \in Batches(0..n) /\ NoBatch.stage = "none"
BY DEF NoBatch, Batches

LEMMA ToUploadIs ==
    ASSUME Kept(Books), NEW i \in ToUpload
    PROVE  i \in 1..Len(lines) /\ i \notin glued /\ lines[i].upload /\ lines[i] \in Line
<1>1. lines \in Seq(Line) BY BooksAre DEF Kept, BooksTyped
<1> QED BY <1>1 DEF ToUpload

\* The lines there were are where they were.
LEMMA LinesStay ==
    ASSUME Kept(Books), Kept(Books'), Grows
    PROVE  /\ Len(lines) \in Nat /\ Len(lines') \in Nat /\ Len(lines) <= Len(lines')
           /\ \A i \in ToUpload' : i \in Nat /\ (i <= Len(lines) => i \in ToUpload /\ lines'[i] = lines[i])
<1>1. lines \in Seq(Line) /\ lines' \in Seq(Line) BY BooksAre DEF Kept, BooksTyped
<1>2. Len(lines) \in Nat /\ Len(lines') \in Nat /\ DOMAIN lines = 1..Len(lines)
      /\ DOMAIN lines' = 1..Len(lines')
  BY <1>1
<1>3. ASSUME NEW i \in ToUpload'
      PROVE  i \in Nat /\ (i <= Len(lines) => i \in ToUpload /\ lines'[i] = lines[i])
  <2>1. i \in 1..Len(lines') /\ i \notin glued' /\ lines'[i].upload BY <1>2 DEF ToUpload
  <2>2. i \in Nat BY <1>2, <2>1
  <2>3. ASSUME i <= Len(lines) PROVE i \in ToUpload /\ lines'[i] = lines[i]
    <3>1. i \in DOMAIN lines BY <1>2, <2>1, <2>2, <2>3
    <3>2. lines'[i] = lines[i] /\ i \notin glued BY <2>1, <3>1 DEF Grows
    <3> QED BY <2>1, <3>1, <3>2 DEF ToUpload
  <2> QED BY <2>2, <2>3
<1> QED BY <1>2, <1>3 DEF Grows

\* Whatever is written meanwhile, the uploader's doings stay in order.
LEMMA SendingStays ==
    ASSUME Kept(Books), Kept(Books'), Grows, Sending, UNCHANGED uploads
    PROVE  Sending'
<1>1. /\ Len(lines) \in Nat /\ Len(lines') \in Nat /\ Len(lines) <= Len(lines')
      /\ \A i \in ToUpload' : i \in Nat /\ (i <= Len(lines) => i \in ToUpload /\ lines'[i] = lines[i])
  BY LinesStay
<1>2. /\ sent \in 0..Len(lines) /\ batch \in Batches(0..Len(lines)) /\ server \cup refused \subseteq Line
      /\ batch.stage = "read" =>
            \A i \in ToUpload : sent < i /\ i <= batch.end => lines[i] \in batch.from
      /\ batch.stage = "through" =>
            \A i \in ToUpload : sent < i /\ i <= batch.end => lines[i] \in server \cup refused
      /\ \A i \in ToUpload : i <= sent => lines[i] \in server \cup refused
  BY DEF Sending, SentIsUploaded, Batches
<1>3. /\ sent' = sent /\ batch' = batch /\ server' = server /\ refused' = refused BY DEF uploads
<1>4. batch.end \in 0..Len(lines) BY <1>2 DEF Batches
<1>5. sent' \in 0..Len(lines') BY <1>1, <1>2, <1>3
<1>6. batch' \in Batches(0..Len(lines'))
  <2>1. 0..Len(lines) \subseteq 0..Len(lines') BY <1>1
  <2> QED BY <1>2, <1>3, <2>1 DEF Batches
<1>7. \A i \in ToUpload' : i <= sent \/ i <= batch.end => i \in ToUpload /\ lines'[i] = lines[i]
  <2>1. \A i \in Nat : i <= sent \/ i <= batch.end => i <= Len(lines) BY <1>1, <1>2, <1>4
  <2> QED BY <1>1, <2>1
<1>8. batch'.stage = "read" =>
            \A i \in ToUpload' : sent' < i /\ i <= batch'.end => lines'[i] \in batch'.from
  BY <1>2, <1>3, <1>7
<1>9. batch'.stage = "through" =>
            \A i \in ToUpload' : sent' < i /\ i <= batch'.end => lines'[i] \in server' \cup refused'
  BY <1>2, <1>3, <1>7
<1>10. \A i \in ToUpload' : i <= sent' => lines'[i] \in server' \cup refused'
  BY <1>2, <1>3, <1>7
<1> QED BY <1>2, <1>3, <1>5, <1>6, <1>8, <1>9, <1>10 DEF Sending, SentIsUploaded, Batches

LEMMA ReadsSends == ASSUME Kept(Books), Sending, Reads PROVE Sending'
<1> DEFINE some(end) == {lines[i] : i \in ToUpload \cap (sent + 1)..end}
<1>1. PICK end \in (sent + 1)..Len(lines) :
          batch' = [stage |-> IF some(end) = {} THEN "through" ELSE "read",
                    from |-> some(end), end |-> end]
  BY DEF Reads
<1>2. UNCHANGED <<lines, glued, sent, server, refused, ToUpload>> BY DEF Reads, file, ToUpload
<1>3. lines \in Seq(Line) /\ Len(lines) \in Nat /\ sent \in 0..Len(lines)
  BY BooksAre DEF Kept, BooksTyped, Sending
<1>4. end \in 0..Len(lines) /\ \A i \in Nat : sent < i /\ i <= end => i \in (sent + 1)..end BY <1>3
<1>5. \A i \in ToUpload : i \in 1..Len(lines) /\ i \in Nat /\ lines[i] \in Line BY <1>3, ToUploadIs
<1>6. /\ some(end) \subseteq Line
      /\ \A i \in ToUpload : sent < i /\ i <= end => lines[i] \in some(end)
  BY <1>4, <1>5
<1> HIDE DEF some
<1>7. /\ batch'.end = end /\ batch'.from = some(end)
      /\ batch'.stage \in {"read", "through"}
      /\ batch'.stage = "through" => some(end) = {}
  BY <1>1
<1>8. batch' \in Batches(0..Len(lines)) BY <1>1, <1>4, <1>6 DEF Batches
<1> QED BY <1>2, <1>6, <1>7, <1>8 DEF Sending, SentIsUploaded, Batches

LEMMA PostsSends == ASSUME Kept(Books), Sending, Posts PROVE Sending'
<1>1. /\ batch.stage = "read" /\ UNCHANGED <<lines, sent, ToUpload>>
      /\ server \subseteq server' /\ refused \subseteq refused'
      /\ server' \cup refused' \subseteq server \cup refused \cup batch.from
      /\ \/ /\ batch' = [batch EXCEPT !.stage = "through"]
            /\ batch.from \subseteq server' \cup refused'
         \/ batch' = NoBatch
  BY DEF Posts, file, ToUpload
<1>2. /\ batch \in Batches(0..Len(lines)) /\ Len(lines) \in Nat
      /\ batch.from \subseteq Line /\ server \cup refused \subseteq Line
      /\ \A i \in ToUpload : sent < i /\ i <= batch.end => lines[i] \in batch.from
      /\ \A i \in ToUpload : i <= sent => lines[i] \in server \cup refused
      /\ sent \in 0..Len(lines)
  <2>1. lines \in Seq(Line) BY BooksAre DEF Kept, BooksTyped
  <2> QED BY <1>1, <2>1 DEF Sending, SentIsUploaded, Batches
<1>3. server' \cup refused' \subseteq Line BY <1>1, <1>2
<1>4. \A i \in ToUpload : i <= sent => lines[i] \in server' \cup refused' BY <1>1, <1>2
<1>5. CASE batch' = NoBatch
  <2>1. batch' \in Batches(0..Len(lines)) /\ batch'.stage = "none" BY <1>2, <1>5, NoBatchIs
  <2> QED BY <1>1, <1>2, <1>3, <1>4, <2>1 DEF Sending, SentIsUploaded, Batches
<1>6. CASE batch' = [batch EXCEPT !.stage = "through"] /\ batch.from \subseteq server' \cup refused'
  <2>1. /\ batch' \in Batches(0..Len(lines)) /\ batch'.stage = "through"
        /\ batch'.end = batch.end
    BY <1>2, <1>6 DEF Batches
  <2>2. \A i \in ToUpload : sent < i /\ i <= batch'.end => lines[i] \in server' \cup refused'
    BY <1>2, <1>6, <2>1
  <2> QED BY <1>1, <1>2, <1>3, <1>4, <2>1, <2>2 DEF Sending, SentIsUploaded, Batches
<1> QED BY <1>1, <1>5, <1>6

LEMMA SavesSends == ASSUME Kept(Books), Sending, Saves PROVE Sending'
<1>1. /\ batch.stage = "through" /\ sent' = batch.end /\ batch' = NoBatch
      /\ UNCHANGED <<lines, server, refused, ToUpload>>
  BY DEF Saves, file, ToUpload
<1>2. lines \in Seq(Line) /\ Len(lines) \in Nat /\ sent \in 0..Len(lines) /\ batch.end \in 0..Len(lines)
  BY BooksAre DEF Kept, BooksTyped, Sending
<1>3. \A i \in ToUpload : i <= sent \/ sent < i BY <1>2, ToUploadIs
<1>4. \A i \in ToUpload : i <= batch.end => lines[i] \in server \cup refused
  BY <1>1, <1>3 DEF Sending, SentIsUploaded
<1>5. batch' \in Batches(0..Len(lines)) /\ batch'.stage = "none" BY <1>1, <1>2, NoBatchIs
<1> QED BY <1>1, <1>2, <1>4, <1>5 DEF Sending, SentIsUploaded, Batches

LEMMA CrashSends == ASSUME Kept(Books), Sending, Crash PROVE Sending'
<1>1. sent' \in {sent, 0} /\ batch' = NoBatch /\ UNCHANGED <<lines, server, refused, ToUpload>>
  BY DEF Crash, file, ToUpload
<1>2. lines \in Seq(Line) /\ Len(lines) \in Nat /\ sent \in 0..Len(lines)
  BY BooksAre DEF Kept, BooksTyped, Sending
<1>3. batch' \in Batches(0..Len(lines)) /\ batch'.stage = "none" BY <1>1, <1>2, NoBatchIs
<1>4. sent' \in 0..Len(lines) /\ \A i \in ToUpload : i <= sent' => i <= sent
  BY <1>1, <1>2, ToUploadIs
<1> QED BY <1>1, <1>3, <1>4 DEF Sending, SentIsUploaded, Batches

LEMMA SendingNext == ASSUME Kept(Books), Losses, Working, Sending, Next PROVE Sending'
<1>1. Kept(Books') /\ Grows BY NextKept DEF Advances
<1>2. ASSUME NEW s \in Session,
             Message(s) \/ Spends(s) \/ Ready(s) \/ Ended(s) \/ Asked(s) \/ ClosesLast(s)
      PROVE  Sending'
  <2>1. UNCHANGED uploads BY <1>2 DEF Message, Spends, Ready, Ended, Asked, ClosesLast
  <2> QED BY <1>1, <2>1, SendingStays
<1>3. ASSUME NEW q \in requests, Metered(q) \/ Finished(q) PROVE Sending'
  <2>1. UNCHANGED uploads BY <1>3 DEF Metered, Finished
  <2> QED BY <1>1, <2>1, SendingStays
<1>4. ASSUME NEW s \in Tagged, Submits(s) \/ Works(s) \/ Stops(s) \/ Polls(s) PROVE Sending'
  <2>1. UNCHANGED uploads BY <1>4 DEF Submits, Works, Stops, Polls
  <2> QED BY <1>1, <2>1, SendingStays
<1>5. ASSUME Signs PROVE Sending'
  <2>1. UNCHANGED uploads BY <1>5 DEF Signs
  <2> QED BY <1>1, <2>1, SendingStays
<1> QED BY <1>2, <1>3, <1>4, <1>5, ReadsSends, PostsSends, SavesSends, CrashSends DEF Next

-----------------------------------------------------------------------------
(* The theorems. *)

LedgerInv == Kept(Books) /\ Losses /\ Working /\ Sending

\* The books are in order in every reachable state, whatever the number of engines,
\* messages, gateway threads and lines: what has been counted, written or uploaded is
\* there once and belongs to its turn (usage.rs).
THEOREM LedgerHolds == Spec => []LedgerInv
<1>1. ASSUME Init PROVE LedgerInv
  <2>1. Kept(Books) /\ Losses /\ Working BY <1>1, InitKept
  <2>2. Sending
    <3>1. NoBatch \in Batches(0..0) /\ NoBatch.stage = "none" BY NoBatchIs
    <3>2. ToUpload = {} BY <1>1 DEF Init, ToUpload
    <3> QED BY <1>1, <3>1, <3>2 DEF Init, Sending, SentIsUploaded, Batches
  <2> QED BY <2>1, <2>2 DEF LedgerInv
<1>2. LedgerInv /\ [Next]_vars => LedgerInv'
  <2> SUFFICES ASSUME LedgerInv, [Next]_vars PROVE LedgerInv' OBVIOUS
  <2>1. CASE Next
    <3>1. Kept(Books) /\ Losses /\ Working /\ Sending BY DEF LedgerInv
    <3>2. Kept(Books') /\ Advances BY <2>1, <3>1, NextKept
    <3>3. Kept(Books)' BY <3>2
    <3>4. Working' BY <2>1, <3>1, WorkingStays
    <3>5. Sending' BY <2>1, <3>1, SendingNext
    <3> QED BY <3>2, <3>3, <3>4, <3>5 DEF LedgerInv, Advances
  <2>2. CASE UNCHANGED vars
    <3>1. /\ UNCHANGED <<current, open, requests, engine, turns, spends>>
          /\ UNCHANGED <<lines, torn, glued, lost>> /\ UNCHANGED mishaps /\ UNCHANGED uploads
      BY <2>2 DEF vars, ledger, gateway, engines, file
    <3>2. Kept(Books') /\ Advances BY <3>1, OthersKept DEF LedgerInv
    <3>3. Working' BY <3>1 DEF LedgerInv, Working
    <3>4. Sending' BY <3>1, <3>2, SendingStays DEF LedgerInv, Advances
    <3> QED BY <3>2, <3>3, <3>4 DEF LedgerInv, Advances
  <2> QED BY <2>1, <2>2
<1> QED BY <1>1, <1>2, PTL DEF Spec

\* Every request is counted once, whatever order its answer, the end of its turn, the poll
\* that brings it and the next message come in, and however many engines, gateway threads
\* and crashes there are: it is with an engine or a gateway thread, on a turn's record,
\* on a line of usage.jsonl, whole or one that a torn line runs into, or lost, and for one
\* reason: the daemon was killed, its line was not written, its engine's turn was stopped
\* before a poll brought it, or the gateway's answer failed.  While neither a kill nor a
\* write has gone wrong, none is lost to these or on such a line.
THEOREM SpendsCountOnce == Spec => []SpentOnce
<1>1. LedgerInv => SpentOnce BY CountedOnce DEF LedgerInv
<1> QED BY <1>1, LedgerHolds, PTL

\* A turn that the daemon opened is written in one line, and nothing is spent on it after.
THEOREM TurnsAreWhole == Spec => []TurnIsWhole
<1>1. LedgerInv => TurnIsWhole BY WrittenWhole DEF LedgerInv
<1> QED BY <1>1, LedgerHolds, PTL

\* usage.sent passes over no whole line that the account has not had, or refused for good,
\* wherever the daemon is killed or a write is cut.  A record that a torn line runs into is
\* on no whole line: it is passed over unread.
THEOREM PassedIsUploaded == Spec => []SentIsUploaded
<1>1. LedgerInv => SentIsUploaded BY DEF LedgerInv, Sending
<1> QED BY <1>1, LedgerHolds, PTL
=============================================================================
