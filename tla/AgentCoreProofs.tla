--------------------------- MODULE AgentCoreProofs ---------------------------
(***************************************************************************)
(* Proofs about JuCode's own engine (crates/agent-core): its turns         *)
(* (AgentTurn) and the journal it keeps of them (SessionJournal).          *)
(*                                                                         *)
(* Turns: no message is lost or doubled, no turn waits for an answer       *)
(* nobody can give, and a turn the engine takes to run does.  The engine's *)
(* handlers pass its state on as a record, through changes that are        *)
(* several handlers' own (a turn is stopped, another started), so the      *)
(* invariant is stated of any such record, and each change keeps it.       *)
(*                                                                         *)
(* Journal: what a finished save wrote is what a restart loads, and        *)
(* wherever a save, a kill or a power cut stops it, a restart loads a tree *)
(* with all that was acknowledged.  The invariant says so of every place   *)
(* where the file could be cut (Cuts), and, while a save runs, what the    *)
(* records still to write make of what is there (Completes).               *)
(*                                                                         *)
(* Queues are filtered, outcomes applied and journals replayed one element *)
(* after the other, and the branch of an entry is looked up parent by      *)
(* parent.  What such a recursive function computes is shown by induction, *)
(* which is itself proved below, of a set of numbers: a theorem that took  *)
(* a predicate could not be used by the provers.                           *)
(***************************************************************************)
EXTENDS AgentTurn, SessionJournal, FiniteSetTheorems, SequenceTheorems, TLAPS

-----------------------------------------------------------------------------
(* Induction over the natural numbers *)

\* A set of numbers has a least one: their intervals are well-founded by inclusion.
LEMMA LeastNumber ==
    ASSUME NEW T, T \subseteq Nat, T # {}
    PROVE  \E n \in T : \A m \in T : n <= m
<1> DEFINE W == {0..n : n \in T}
           R == StrictSubsetOrdering(Nat)
           F == FiniteSubsetsOf(Nat)
<1>1. IsWellFoundedOn(R, F) BY FS_StrictSubsetOrderingWellFounded
<1>2. W \subseteq F
  <2> SUFFICES ASSUME NEW n \in T PROVE 0..n \in F OBVIOUS
  <2>1. n \in Nat /\ 0 \in Int /\ n \in Int OBVIOUS
  <2>2. IsFiniteSet(0..n) BY <2>1, FS_Interval
  <2>3. 0..n \in SUBSET Nat BY <2>1
  <2> QED BY <2>2, <2>3 DEF FiniteSubsetsOf
<1>3. W # {} OBVIOUS
<1>4. PICK w \in W : \A v \in W : ~(<<v, w>> \in R)
  <2> HIDE DEF W, R, F
  <2> QED BY <1>1, <1>2, <1>3, WFMin
<1>5. PICK n \in T : w = 0..n OBVIOUS
<1>6. ASSUME NEW m \in T, ~(n <= m) PROVE FALSE
  <2>1. m \in Nat /\ n \in Nat /\ m < n BY <1>6
  <2>2. 0..m \subseteq 0..n /\ 0..m # 0..n
    <3>1. n \in 0..n /\ n \notin 0..m BY <2>1
    <3>2. 0..m \subseteq 0..n BY <2>1
    <3> QED BY <3>1, <3>2
  <2>3. <<0..m, 0..n>> \in R
    <3>1. 0..m \in SUBSET Nat /\ 0..n \in SUBSET Nat BY <2>1
    <3> QED BY <3>1, <2>2 DEF StrictSubsetOrdering
  <2>4. 0..m \in W OBVIOUS
  <2> QED BY <1>4, <1>5, <2>3, <2>4
<1> QED BY <1>6

LEMMA Induction ==
    ASSUME NEW P, 0 \in P, \A n \in Nat : n \in P => n + 1 \in P
    PROVE  Nat \subseteq P
<1> SUFFICES ASSUME Nat \ P # {} PROVE FALSE OBVIOUS
<1>1. PICK n \in Nat \ P : \A m \in Nat \ P : n <= m BY LeastNumber
<1>2. n # 0 /\ n - 1 \in Nat /\ n = (n - 1) + 1 BY <1>1
<1>3. n - 1 \in P BY <1>1, <1>2
<1> QED BY <1>1, <1>2, <1>3

-----------------------------------------------------------------------------
(* Sequences without repetition *)

In(q) == {q[i] : i \in 1..Len(q)}

Once(q) == \A i, j \in 1..Len(q) : q[i] = q[j] => i = j

LEMMA AppendOnce ==
    ASSUME NEW S, NEW q \in Seq(S), NEW x \in S
    PROVE  /\ Append(q, x) \in Seq(S) /\ In(Append(q, x)) = In(q) \cup {x}
           /\ Once(q) /\ x \notin In(q) => Once(Append(q, x))
<1> DEFINE r == Append(q, x)
<1>1. r \in Seq(S) /\ Len(r) = Len(q) + 1 /\ r[Len(q) + 1] = x OBVIOUS
<1>2. \A i \in 1..Len(q) : r[i] = q[i] /\ i \in 1..Len(r) OBVIOUS
<1>3. \A i \in 1..Len(r) : i \in 1..Len(q) \/ i = Len(q) + 1 BY <1>1
<1>4. Len(q) \in Nat OBVIOUS
<1> HIDE DEF r
<1>5. In(r) = In(q) \cup {x}
  <2>1. \A y \in In(r) : y \in In(q) \cup {x} BY <1>1, <1>2, <1>3 DEF In
  <2>2. \A y \in In(q) : y \in In(r) BY <1>2 DEF In
  <2>3. x \in In(r) BY <1>1, <1>4 DEF In
  <2> QED BY <2>1, <2>2, <2>3
<1>6. ASSUME Once(q), x \notin In(q) PROVE Once(r)
  <2> SUFFICES ASSUME NEW i \in 1..Len(r), NEW j \in 1..Len(r), r[i] = r[j] PROVE i = j
    BY DEF Once
  <2>1. CASE i \in 1..Len(q) /\ j \in 1..Len(q) BY <1>2, <1>6, <2>1 DEF Once
  <2>2. CASE i \in 1..Len(q) /\ j = Len(q) + 1 BY <1>1, <1>2, <1>6, <2>2 DEF In
  <2>3. CASE j \in 1..Len(q) /\ i = Len(q) + 1 BY <1>1, <1>2, <1>6, <2>3 DEF In
  <2> QED BY <1>3, <2>1, <2>2, <2>3
<1> QED BY <1>1, <1>5, <1>6 DEF r

LEMMA ConcatOnce ==
    ASSUME NEW S, NEW p \in Seq(S), NEW q \in Seq(S)
    PROVE  /\ p \o q \in Seq(S) /\ In(p \o q) = In(p) \cup In(q)
           /\ Once(p) /\ Once(q) /\ In(p) \cap In(q) = {} => Once(p \o q)
<1> DEFINE r == p \o q
<1>1. r \in Seq(S) /\ Len(r) = Len(p) + Len(q) OBVIOUS
<1>2. \A i \in 1..Len(p) : r[i] = p[i] /\ i \in 1..Len(r) OBVIOUS
<1>3. \A i \in 1..Len(q) : r[i + Len(p)] = q[i] /\ i + Len(p) \in 1..Len(r) OBVIOUS
<1>4. \A i \in 1..Len(r) : i \in 1..Len(p) \/ (i - Len(p) \in 1..Len(q) /\ r[i] = q[i - Len(p)])
  OBVIOUS
<1>5. Len(p) \in Nat /\ Len(q) \in Nat OBVIOUS
<1> HIDE DEF r
<1>6. In(r) = In(p) \cup In(q)
  <2>1. \A y \in In(r) : y \in In(p) \cup In(q) BY <1>2, <1>4 DEF In
  <2>2. \A y \in In(p) : y \in In(r) BY <1>2 DEF In
  <2>3. \A y \in In(q) : y \in In(r) BY <1>3 DEF In
  <2> QED BY <2>1, <2>2, <2>3
<1>7. ASSUME Once(p), Once(q), In(p) \cap In(q) = {} PROVE Once(r)
  <2> SUFFICES ASSUME NEW i \in 1..Len(r), NEW j \in 1..Len(r), r[i] = r[j] PROVE i = j
    BY DEF Once
  <2>1. CASE i \in 1..Len(p) /\ j \in 1..Len(p) BY <1>2, <1>7, <2>1 DEF Once
  <2>a. \A k \in 1..Len(p) : r[k] \in In(p) BY <1>2 DEF In
  <2>b. \A k \in 1..Len(r) : k \notin 1..Len(p) => r[k] \in In(q) BY <1>4 DEF In
  <2>2. CASE i \in 1..Len(p) /\ j \notin 1..Len(p) BY <2>a, <2>b, <1>7, <2>2
  <2>3. CASE i \notin 1..Len(p) /\ j \in 1..Len(p) BY <2>a, <2>b, <1>7, <2>3
  <2>4. CASE i \notin 1..Len(p) /\ j \notin 1..Len(p)
    <3>1. i - Len(p) = j - Len(p) BY <1>4, <1>7, <2>4 DEF Once
    <3> QED BY <3>1, <1>5
  <2> QED BY <2>1, <2>2, <2>3, <2>4
<1> QED BY <1>1, <1>6, <1>7 DEF r

LEMMA TailOnce ==
    ASSUME NEW S, NEW q \in Seq(S), q # <<>>
    PROVE  /\ Head(q) \in S /\ Tail(q) \in Seq(S) /\ In(q) = In(Tail(q)) \cup {Head(q)}
           /\ Once(q) => Once(Tail(q)) /\ Head(q) \notin In(Tail(q))
<1> DEFINE r == Tail(q)
<1>1. r \in Seq(S) /\ Len(r) = Len(q) - 1 /\ Head(q) = q[1] /\ Head(q) \in S /\ 1 \in 1..Len(q)
  OBVIOUS
<1>2. \A i \in 1..Len(r) : r[i] = q[i + 1] /\ i + 1 \in 1..Len(q) OBVIOUS
<1>3. \A i \in 1..Len(q) : i = 1 \/ (i - 1 \in 1..Len(r) /\ r[i - 1] = q[i]) OBVIOUS
<1>4. Len(q) \in Nat OBVIOUS
<1> HIDE DEF r
<1>5. In(q) = In(r) \cup {Head(q)}
  <2>1. \A y \in In(q) : y \in In(r) \cup {Head(q)}
    <3> SUFFICES ASSUME NEW i \in 1..Len(q) PROVE q[i] \in In(r) \cup {Head(q)} BY DEF In
    <3>1. CASE i = 1 BY <1>1, <3>1
    <3>2. CASE i - 1 \in 1..Len(r) /\ r[i - 1] = q[i] BY <3>2 DEF In
    <3> QED BY <1>3, <3>1, <3>2
  <2>2. \A y \in In(r) : y \in In(q) BY <1>2 DEF In
  <2>3. Head(q) \in In(q) BY <1>1 DEF In
  <2> QED BY <2>1, <2>2, <2>3
<1>6. ASSUME Once(q) PROVE Once(r) /\ Head(q) \notin In(r)
  <2>1. ASSUME NEW i \in 1..Len(r), NEW j \in 1..Len(r), r[i] = r[j] PROVE i = j
    <3>1. i + 1 = j + 1 BY <1>2, <1>6, <2>1 DEF Once
    <3> QED BY <3>1
  <2>2. ASSUME NEW i \in 1..Len(r), r[i] = Head(q) PROVE FALSE
    <3>1. i + 1 = 1 BY <1>1, <1>2, <1>6, <2>2 DEF Once
    <3> QED BY <3>1
  <2> QED BY <2>1, <2>2 DEF Once, In
<1> QED BY <1>1, <1>5, <1>6 DEF r

LEMMA RemoveOnce ==
    ASSUME NEW S, NEW q \in Seq(S), NEW i \in 1..Len(q)
    PROVE  /\ RemoveAt(q, i) \in Seq(S) /\ Len(RemoveAt(q, i)) = Len(q) - 1
           /\ q[i] \in S /\ In(q) = In(RemoveAt(q, i)) \cup {q[i]}
           /\ Once(q) => Once(RemoveAt(q, i)) /\ q[i] \notin In(RemoveAt(q, i))
<1> DEFINE r == RemoveAt(q, i)
           p == SubSeq(q, 1, i - 1)
           t == SubSeq(q, i + 1, Len(q))
<1>0. Len(q) \in Nat /\ i \in Nat /\ i - 1 \in Nat OBVIOUS
<1>1. p \in Seq(S) /\ Len(p) = i - 1 /\ \A k \in 1..(i - 1) : p[k] = q[k] OBVIOUS
<1>2. t \in Seq(S) /\ Len(t) = Len(q) - i /\ \A k \in 1..(Len(q) - i) : t[k] = q[k + i]
  OBVIOUS
<1>3. r = p \o t BY DEF RemoveAt
<1> HIDE DEF r, p, t
<1>4. r \in Seq(S) /\ In(r) = In(p) \cup In(t) BY <1>1, <1>2, <1>3, ConcatOnce
<1>5. Len(r) = Len(q) - 1
  <2>1. p \in Seq(S) /\ t \in Seq(S) BY <1>1, <1>2
  <2>2. Len(p \o t) = Len(p) + Len(t) BY <2>1
  <2> QED BY <2>2, <1>0, <1>1, <1>2, <1>3
<1>6. In(p) = {q[k] : k \in 1..(i - 1)} BY <1>1 DEF In
<1>7. In(t) = {q[k] : k \in (i + 1)..Len(q)}
  <2> DEFINE T == {q[k] : k \in (i + 1)..Len(q)}
  <2>1. ASSUME NEW k \in (i + 1)..Len(q) PROVE k - i \in 1..Len(t) /\ t[k - i] = q[k]
    BY <1>0, <1>2
  <2>2. ASSUME NEW k \in 1..Len(t) PROVE k + i \in (i + 1)..Len(q) /\ t[k] = q[k + i]
    BY <1>0, <1>2
  <2>3. In(t) \subseteq T BY <2>2 DEF In
  <2>4. T \subseteq In(t)
    <3> SUFFICES ASSUME NEW k \in (i + 1)..Len(q) PROVE q[k] \in In(t) OBVIOUS
    <3> QED BY <2>1 DEF In
  <2> QED BY <2>3, <2>4
<1>8. \A k \in 1..Len(q) : k \in 1..(i - 1) \/ k = i \/ k \in (i + 1)..Len(q) BY <1>0
<1>9. \A k \in 1..(i - 1) : k \in 1..Len(q) /\ k # i BY <1>0
<1>10. \A k \in (i + 1)..Len(q) : k \in 1..Len(q) /\ k # i BY <1>0
<1>11. \A k \in 1..(i - 1), l \in (i + 1)..Len(q) : k # l BY <1>0
<1>12. In(q) = In(r) \cup {q[i]}
  <2>1. \A y \in In(q) : y \in In(r) \cup {q[i]} BY <1>4, <1>6, <1>7, <1>8 DEF In
  <2>2. \A y \in In(r) : y \in In(q) BY <1>4, <1>6, <1>7, <1>9, <1>10 DEF In
  <2> QED BY <2>1, <2>2 DEF In
<1>13. ASSUME Once(q) PROVE Once(r) /\ q[i] \notin In(r)
  <2>1. q[i] \notin In(r) BY <1>4, <1>6, <1>7, <1>9, <1>10, <1>13 DEF Once
  <2>2. Once(p)
    <3>1. \A k \in 1..Len(p) : p[k] = q[k] /\ k \in 1..Len(q) BY <1>1, <1>9
    <3> QED BY <3>1, <1>13 DEF Once
  <2>3. Once(t)
    <3> SUFFICES ASSUME NEW k \in 1..Len(t), NEW l \in 1..Len(t), t[k] = t[l] PROVE k = l
      BY DEF Once
    <3>1. k + i \in 1..Len(q) /\ l + i \in 1..Len(q) /\ q[k + i] = q[l + i] BY <1>0, <1>2
    <3>2. k + i = l + i BY <3>1, <1>13 DEF Once
    <3> QED BY <3>2, <1>0
  <2>4. In(p) \cap In(t) = {} BY <1>6, <1>7, <1>9, <1>10, <1>11, <1>13 DEF Once
  <2> QED BY <2>1, <2>2, <2>3, <2>4, <1>1, <1>2, <1>3, ConcatOnce
<1>14. q[i] \in S OBVIOUS
<1> QED BY <1>4, <1>5, <1>12, <1>13, <1>14 DEF r

LEMMA OneOnce ==
    ASSUME NEW S, NEW x \in S
    PROVE  <<x>> \in Seq(S) /\ In(<<x>>) = {x} /\ Once(<<x>>)
<1>1. <<x>> \in Seq(S) /\ Len(<<x>>) = 1 /\ <<x>>[1] = x OBVIOUS
<1>2. 1..1 = {1} OBVIOUS
<1> QED BY <1>1, <1>2 DEF In, Once

LEMMA InsertOnce ==
    ASSUME NEW S, NEW q \in Seq(S), NEW i \in 1..(Len(q) + 1), NEW x \in S
    PROVE  /\ InsertAt(q, i, x) \in Seq(S) /\ In(InsertAt(q, i, x)) = In(q) \cup {x}
           /\ Once(q) /\ x \notin In(q) => Once(InsertAt(q, i, x))
<1> DEFINE p == SubSeq(q, 1, i - 1)
           t == SubSeq(q, i, Len(q))
<1>0. Len(q) \in Nat /\ i \in Nat /\ i - 1 \in Nat OBVIOUS
<1>1. p \in Seq(S) /\ Len(p) = i - 1 /\ \A k \in 1..(i - 1) : p[k] = q[k] OBVIOUS
<1>2. t \in Seq(S) /\ Len(t) = Len(q) + 1 - i
      /\ \A k \in 1..(Len(q) + 1 - i) : t[k] = q[k + i - 1]
  OBVIOUS
<1>3. InsertAt(q, i, x) = (p \o <<x>>) \o t BY DEF InsertAt
<1> HIDE DEF p, t
<1>a. <<x>> \in Seq(S) /\ In(<<x>>) = {x} /\ Once(<<x>>) BY OneOnce
<1> DEFINE o == <<x>>
           px == p \o o
<1> HIDE DEF o
<1>4. px \in Seq(S) /\ In(px) = In(p) \cup {x}
  <2>1. o \in Seq(S) /\ In(o) = {x} BY <1>a DEF o
  <2> QED BY <1>1, <2>1, ConcatOnce
<1>b. Once(p) /\ x \notin In(p) => Once(px)
  <2> SUFFICES ASSUME Once(p), x \notin In(p) PROVE Once(px) OBVIOUS
  <2>1. o \in Seq(S) /\ In(o) = {x} /\ Once(o) BY <1>a DEF o
  <2>2. In(p) \cap In(o) = {} BY <2>1
  <2> QED BY <1>1, <2>1, <2>2, ConcatOnce
<1>c. InsertAt(q, i, x) = px \o t BY <1>3 DEF o
<1> HIDE DEF px
<1>5. InsertAt(q, i, x) \in Seq(S) /\ In(InsertAt(q, i, x)) = In(p) \cup {x} \cup In(t)
  BY <1>2, <1>c, <1>4, ConcatOnce
<1>6. In(p) = {q[k] : k \in 1..(i - 1)} BY <1>1 DEF In
<1>7. In(t) = {q[k] : k \in i..Len(q)}
  <2> DEFINE T == {q[k] : k \in i..Len(q)}
  <2>1. ASSUME NEW k \in i..Len(q) PROVE k - i + 1 \in 1..Len(t) /\ t[k - i + 1] = q[k]
    BY <1>0, <1>2
  <2>2. ASSUME NEW k \in 1..Len(t) PROVE k + i - 1 \in i..Len(q) /\ t[k] = q[k + i - 1]
    BY <1>0, <1>2
  <2>3. In(t) \subseteq T BY <2>2 DEF In
  <2>4. T \subseteq In(t)
    <3> SUFFICES ASSUME NEW k \in i..Len(q) PROVE q[k] \in In(t) OBVIOUS
    <3> QED BY <2>1 DEF In
  <2> QED BY <2>3, <2>4
<1>8. \A k \in 1..Len(q) : k \in 1..(i - 1) \/ k \in i..Len(q) BY <1>0
<1>9. \A k \in 1..(i - 1) : k \in 1..Len(q) BY <1>0
<1>10. \A k \in i..Len(q) : k \in 1..Len(q) BY <1>0
<1>11. \A k \in 1..(i - 1), l \in i..Len(q) : k # l BY <1>0
<1>12. In(q) = In(p) \cup In(t)
  <2>1. \A y \in In(q) : y \in In(p) \cup In(t) BY <1>6, <1>7, <1>8 DEF In
  <2>2. \A y \in In(p) \cup In(t) : y \in In(q) BY <1>6, <1>7, <1>9, <1>10 DEF In
  <2> QED BY <2>1, <2>2
<1>13. ASSUME Once(q), x \notin In(q) PROVE Once(InsertAt(q, i, x))
  <2>1. Once(p)
    <3>1. \A k \in 1..Len(p) : p[k] = q[k] /\ k \in 1..Len(q) BY <1>1, <1>9
    <3> QED BY <3>1, <1>13 DEF Once
  <2>2. Once(t)
    <3> SUFFICES ASSUME NEW k \in 1..Len(t), NEW l \in 1..Len(t), t[k] = t[l] PROVE k = l
      BY DEF Once
    <3>1. k + i - 1 \in 1..Len(q) /\ l + i - 1 \in 1..Len(q) /\ q[k + i - 1] = q[l + i - 1]
      BY <1>0, <1>2
    <3>2. k + i - 1 = l + i - 1 BY <3>1, <1>13 DEF Once
    <3> QED BY <3>2, <1>0
  <2>3. In(p) \cap In(t) = {} BY <1>6, <1>7, <1>9, <1>10, <1>11, <1>13 DEF Once
  <2>4. Once(px) BY <2>1, <1>12, <1>13, <1>b
  <2>5. In(px) \cap In(t) = {} BY <2>3, <1>4, <1>12, <1>13
  <2> QED BY <2>2, <2>4, <2>5, <1>2, <1>c, <1>4, ConcatOnce
<1> QED BY <1>5, <1>12, <1>13

-----------------------------------------------------------------------------
(* Recursive functions *)

\* f is computed in N steps from b, the n-th by h.
Computes(f, N, D, b, h) ==
    f \in [0..N -> D] /\ f[0] = b /\ \A n \in 1..N : f[n] = h[<<n, f[n - 1]>>]

\* There is such an f.
LEMMA Recursion ==
    ASSUME NEW N \in Nat, NEW D, NEW b \in D, NEW h \in [(1..N) \X D -> D]
    PROVE  \E f : Computes(f, N, D, b, h)
<1> DEFINE Upto(k) == \E f \in [0..k -> D] : f[0] = b /\ \A n \in 1..k : f[n] = h[<<n, f[n - 1]>>]
           P == {k \in Nat : k <= N => Upto(k)}
<1>1. 0 \in P
  <2> DEFINE f == [i \in 0..0 |-> b]
  <2>1. f \in [0..0 -> D] /\ f[0] = b OBVIOUS
  <2>2. 1..0 = {} OBVIOUS
  <2>3. Upto(0) BY <2>1, <2>2
  <2> QED BY <2>3
<1>2. ASSUME NEW k \in Nat, k \in P PROVE k + 1 \in P
  <2> SUFFICES ASSUME k + 1 <= N PROVE Upto(k + 1) OBVIOUS
  <2>0. k <= N /\ k + 1 \in 1..N OBVIOUS
  <2>1. PICK g \in [0..k -> D] : g[0] = b /\ \A n \in 1..k : g[n] = h[<<n, g[n - 1]>>]
    BY <1>2, <2>0
  <2>2. k \in 0..k /\ g[k] \in D BY <2>1
  <2> DEFINE v == h[<<k + 1, g[k]>>]
             f == [i \in 0..(k + 1) |-> IF i = k + 1 THEN v ELSE g[i]]
  <2>3. v \in D BY <2>0, <2>2
  <2>4. \A i \in 0..(k + 1) : i # k + 1 => i \in 0..k OBVIOUS
  <2>5. f \in [0..(k + 1) -> D] BY <2>3, <2>4
  <2>6. f[k + 1] = v /\ \A i \in 0..k : f[i] = g[i]
    <3>1. k + 1 \in 0..(k + 1) OBVIOUS
    <3>2. \A i \in 0..k : i \in 0..(k + 1) /\ i # k + 1 OBVIOUS
    <3> QED BY <3>1, <3>2
  <2> HIDE DEF f
  <2>7. f[0] = b BY <2>1, <2>6
  <2>8. ASSUME NEW n \in 1..(k + 1) PROVE f[n] = h[<<n, f[n - 1]>>]
    <3>1. CASE n = k + 1
      <4>1. n - 1 = k BY <3>1
      <4> QED BY <3>1, <4>1, <2>2, <2>6
    <3>2. CASE n # k + 1
      <4>1. n \in 1..k /\ n \in 0..k /\ n - 1 \in 0..k BY <3>2
      <4> QED BY <4>1, <2>1, <2>6
    <3> QED BY <3>1, <3>2
  <2> QED BY <2>5, <2>7, <2>8
<1> HIDE DEF P
<1>3. N \in P BY <1>1, <1>2, Induction
<1> QED BY <1>3 DEF P, Computes

WithoutIs(q, R, f) ==
    f = [n \in 0..Len(q) |->
            IF n = 0 THEN <<>>
            ELSE (IF q[n] \in R THEN f[n - 1] ELSE Append(f[n - 1], q[n]))]

WithoutSteps(q, R, f) ==
    /\ f[0] = <<>>
    /\ \A n \in 1..Len(q) : f[n] = IF q[n] \in R THEN f[n - 1] ELSE Append(f[n - 1], q[n])

LEMMA WithoutComputes ==
    ASSUME NEW S, NEW q \in Seq(S), NEW R
    PROVE  \E f : WithoutSteps(q, R, f) /\ Without(q, R) = f[Len(q)]
<1> DEFINE N == Len(q)
           h == [x \in (1..N) \X Seq(S) |-> IF q[x[1]] \in R THEN x[2] ELSE Append(x[2], q[x[1]])]
<1>0. N \in Nat OBVIOUS
<1>1. h \in [(1..N) \X Seq(S) -> Seq(S)]
  <2> SUFFICES ASSUME NEW n \in 1..N, NEW v \in Seq(S)
               PROVE (IF q[n] \in R THEN v ELSE Append(v, q[n])) \in Seq(S)
    OBVIOUS
  <2>1. q[n] \in S OBVIOUS
  <2> QED BY <2>1
<1>2. \A n \in 1..N, v \in Seq(S) :
        h[<<n, v>>] = IF q[n] \in R THEN v ELSE Append(v, q[n])
  OBVIOUS
<1> HIDE DEF h
<1>3. PICK g \in [0..N -> Seq(S)] : g[0] = <<>> /\ \A n \in 1..N : g[n] = h[<<n, g[n - 1]>>]
  <2>1. <<>> \in Seq(S) OBVIOUS
  <2> HIDE DEF N
  <2>2. \E g : Computes(g, N, Seq(S), <<>>, h) BY <1>0, <1>1, <2>1, Recursion
  <2> QED BY <2>2 DEF Computes
<1>4. WithoutIs(q, R, g)
  <2> DEFINE G == [n \in 0..N |->
                     IF n = 0 THEN <<>>
                     ELSE (IF q[n] \in R THEN g[n - 1] ELSE Append(g[n - 1], q[n]))]
  <2>1. ASSUME NEW n \in 0..N PROVE g[n] = G[n]
    <3>1. CASE n = 0 BY <3>1, <1>3
    <3>2. CASE n # 0
      <4>1. n \in 1..N /\ n - 1 \in 0..N BY <3>2
      <4>2. g[n - 1] \in Seq(S) BY <4>1
      <4>3. g[n] = IF q[n] \in R THEN g[n - 1] ELSE Append(g[n - 1], q[n])
        BY <1>2, <1>3, <4>1, <4>2
      <4> QED BY <3>2, <4>3
    <3> QED BY <3>1, <3>2
  <2>2. g = [n \in 0..N |-> g[n]] OBVIOUS
  <2>3. g = G BY <2>1, <2>2
  <2> QED BY <2>3 DEF WithoutIs
<1> DEFINE f == CHOOSE u : WithoutIs(q, R, u)
<1>5. WithoutIs(q, R, f) BY <1>4
<1>6. Without(q, R) = f[Len(q)] BY DEF Without, WithoutIs
<1> HIDE DEF f
<1>7. WithoutSteps(q, R, f)
  <2> DEFINE G == [n \in 0..N |->
                     IF n = 0 THEN <<>>
                     ELSE (IF q[n] \in R THEN f[n - 1] ELSE Append(f[n - 1], q[n]))]
  <2>1. f = G BY <1>5 DEF WithoutIs
  <2>2. G[0] = <<>> /\ \A n \in 1..N : G[n] = IF q[n] \in R THEN f[n - 1] ELSE Append(f[n - 1], q[n])
    BY <1>0
  <2> HIDE DEF G
  <2> QED BY <2>1, <2>2 DEF WithoutSteps
<1> QED BY <1>6, <1>7

LEMMA WithoutOnce ==
    ASSUME NEW S, NEW q \in Seq(S), NEW R
    PROVE  /\ Without(q, R) \in Seq(S) /\ In(Without(q, R)) = In(q) \ R
           /\ Once(q) => Once(Without(q, R))
<1> DEFINE N == Len(q)
<1>0. PICK f : WithoutSteps(q, R, f) /\ Without(q, R) = f[Len(q)]
  BY WithoutComputes
<1>1. /\ Without(q, R) = f[N] /\ f[0] = <<>>
      /\ \A n \in 1..N : f[n] = IF q[n] \in R THEN f[n - 1] ELSE Append(f[n - 1], q[n])
  BY <1>0 DEF WithoutSteps
<1>2. N \in Nat /\ \A n \in 1..N : q[n] \in S OBVIOUS
<1> DEFINE Early(n) == {q[i] : i \in 1..n}
           Good(n) == /\ f[n] \in Seq(S) /\ In(f[n]) = Early(n) \ R
                      /\ Once(q) => Once(f[n])
           P == {n \in Nat : n <= N => Good(n)}
<1>3. 0 \in P
  <2>1. f[0] \in Seq(S) /\ Len(f[0]) = 0 BY <1>1
  <2>2. 1..0 = {} OBVIOUS
  <2>3. In(f[0]) = {} /\ Once(f[0]) /\ Early(0) = {} BY <2>1, <2>2 DEF In, Once
  <2> QED BY <2>1, <2>3
<1>4. ASSUME NEW n \in Nat, n \in P PROVE n + 1 \in P
  <2> SUFFICES ASSUME n + 1 <= N PROVE Good(n + 1) OBVIOUS
  <2>1. Good(n) /\ n + 1 \in 1..N /\ (n + 1) - 1 = n BY <1>2, <1>4
  <2> DEFINE x == q[n + 1]
  <2>2. x \in S BY <1>2, <2>1
  <2>3. f[n + 1] = IF x \in R THEN f[n] ELSE Append(f[n], x) BY <1>1, <2>1
  <2>4. Early(n + 1) = Early(n) \cup {x}
    <3>1. 1..(n + 1) = (1..n) \cup {n + 1} OBVIOUS
    <3> QED BY <3>1
  <2>5. Once(q) => x \notin Early(n)
    <3> SUFFICES ASSUME Once(q), NEW i \in 1..n, q[i] = x PROVE FALSE OBVIOUS
    <3>1. i \in 1..N /\ i # n + 1 BY <1>2, <2>1
    <3> QED BY <2>1, <3>1 DEF Once
  <2> HIDE DEF Early, x
  <2>6. CASE x \in R
    <3>1. f[n + 1] = f[n] BY <2>3, <2>6
    <3> QED BY <2>1, <2>4, <2>6, <3>1
  <2>7. CASE x \notin R
    <3>1. f[n + 1] = Append(f[n], x) BY <2>3, <2>7
    <3>2. /\ f[n + 1] \in Seq(S) /\ In(f[n + 1]) = In(f[n]) \cup {x}
          /\ Once(f[n]) /\ x \notin In(f[n]) => Once(f[n + 1])
      BY <2>1, <2>2, <3>1, AppendOnce
    <3>3. In(f[n + 1]) = Early(n + 1) \ R BY <2>1, <2>4, <2>7, <3>2
    <3>4. Once(q) => Once(f[n + 1]) BY <2>1, <2>5, <3>2
    <3> QED BY <3>2, <3>3, <3>4
  <2> QED BY <2>6, <2>7
<1> HIDE DEF P
<1>5. N \in P BY <1>2, <1>3, <1>4, Induction
<1>6. Good(N) BY <1>2, <1>5 DEF P
<1>7. Early(N) = In(q) BY DEF In
<1> QED BY <1>1, <1>6, <1>7

-----------------------------------------------------------------------------
(* The invariant, of the engine's state as a record *)

Place == {"off", "new", "top", "read", "wait", "asked", "tool", "compact"}

AgentState ==
    [at : Place, call : Call \cup {None}, stop : BOOLEAN, old : BOOLEAN,
     open : BOOLEAN, head : BOOLEAN, reads : Seq(Item)]

Event ==
    [kind : {"response", "steered"} \cup Ends, m : Item \cup {None}]

State ==
    [running : BOOLEAN, queued : Seq(Item), steered : Seq(Item \ Images),
     worker : Worker \cup {None}, parked : SUBSET Agent, goal : BOOLEAN, going : BOOLEAN,
     force : BOOLEAN, retry : BOOLEAN, retried : BOOLEAN, keep : BOOLEAN,
     deferred : SUBSET Call, decided : [Call -> {"none", "allow", "deny"}],
     agent : [Agent -> AgentState], inbox : Seq(Item \ Images), events : Seq(Event),
     asks : SUBSET Agent, fate : [Item -> {"new", "live", "recorded", "blocked", "returned"}],
     ops : Nat, mishaps : Nat]

\* What the turn's worker read, and the engine has still to hear of.
Read(s) == {s.events[i].m : i \in {j \in 1..Len(s.events) : s.events[j].kind = "steered"}}

\* What it is reading.
Reading(s) == IF s.worker = None THEN <<>> ELSE s.agent[s.worker].reads

\* The messages that are live are queued or steered, but for those of M, which the
\* engine has in hand; what was steered is in one place at most on its way to it.
Filed(s, M) ==
    /\ Once(s.queued) /\ Once(s.steered) /\ In(s.queued) \cap In(s.steered) = {}
    /\ M \cap (In(s.queued) \cup In(s.steered)) = {}
    /\ {m \in Item : s.fate[m] = "live"} = In(s.queued) \cup In(s.steered) \cup M

Steering(s) ==
    /\ Once(s.inbox) /\ Once(Reading(s))
    /\ In(s.inbox) \cup In(Reading(s)) \cup Read(s) \subseteq In(s.steered)
    /\ In(s.inbox) \cap In(Reading(s)) = {}
    /\ Read(s) \cap (In(s.inbox) \cup In(Reading(s))) = {}

\* The end of the worker's events.
HasEnded(s) == s.events # <<>> /\ s.events[Len(s.events)].kind \in Ends

\* The worker of the turn runs, or its last event is the turn's end; any other one was
\* told to stop.
Working(s) ==
    /\ s.running <=> s.worker # None
    /\ s.worker = None => s.events = <<>>
    /\ s.worker # None =>
          \/ s.agent[s.worker].at # "off" /\ ~s.agent[s.worker].stop /\ ~HasEnded(s)
          \/ s.agent[s.worker].at = "off" /\ HasEnded(s)
    /\ \A w \in Worker : w # s.worker /\ s.agent[w].at # "off" => s.agent[w].stop

\* An agent that waits for an answer waits for one to a call; those whose request the
\* engine has, unread or parked, wait.
Asking(s) ==
    /\ s.asks \cap s.parked = {}
    /\ \A a \in s.asks \cup s.parked : s.agent[a].at = "asked"
    /\ \A a \in Agent : s.agent[a].at = "asked" => s.agent[a].call \in Call
    /\ \A a \in Agent : s.agent[a].at = "read" => s.agent[a].reads # <<>>
    /\ s.worker # None /\ s.agent[s.worker].at = "asked" => s.worker \in s.asks \cup s.parked

Sound(s, M) == s \in State /\ Filed(s, M) /\ Steering(s) /\ Working(s) /\ Asking(s)

\* A deferred call was not decided, and a call is news once only: after its decision,
\* and, if that was to run it, after it has run.
Decided(s, runs, outs) ==
    /\ \A c \in s.deferred : s.decided[c] = "none"
    /\ \A c \in Call : s.decided[c] = "none" => s.fate[c] = "new"
    /\ \A c \in runs \cup In(outs) : s.decided[c] # "none" /\ s.fate[c] = "new"
    /\ Once(outs) /\ runs \cap In(outs) = {}

Gated(s, heeds, md) == \A a \in s.parked : heeds /\ Requires(md, s.agent[a].call)

OthersTyped ==
    /\ attended \in BOOLEAN /\ mode \in Modes
    /\ allowed \subseteq {"shell", "edit"} /\ outcomes \in Seq(Call) /\ acting \subseteq Call

IInv ==
    /\ Sound(Now, {}) /\ Decided(Now, acting, outcomes) /\ Gated(Now, attended, mode)
    /\ OthersTyped

-----------------------------------------------------------------------------
(* Changes that several handlers make *)

\* What the invariant says nothing of is left out: whether an agent is old, has its
\* channel or stops for compaction, the goal, and what the next turn is like.
SameBooks(s, t) ==
    /\ t.running = s.running /\ t.queued = s.queued /\ t.steered = s.steered
    /\ t.worker = s.worker /\ t.deferred = s.deferred /\ t.decided = s.decided
    /\ t.inbox = s.inbox /\ t.events = s.events /\ t.fate = s.fate

SameAsks(s, t) == t.parked = s.parked /\ t.asks = s.asks

SameAgent(x, y) == x.at = y.at /\ x.call = y.call /\ x.reads = y.reads

\* Agents are told to stop, or not: those of A.
Told(s, t, A) ==
    \A a \in Agent : /\ SameAgent(s.agent[a], t.agent[a])
                     /\ t.agent[a].stop <=> s.agent[a].stop \/ (a \in A /\ s.agent[a].at # "off")

Alike(s, t) == t \in State /\ SameBooks(s, t) /\ SameAsks(s, t) /\ Told(s, t, {})

\* What is needed of a change: parked calls stay the same, decisions stand, and what is
\* no news yet is none, but for N.
Keeps(s, t, N) ==
    /\ t.parked \subseteq s.parked /\ \A a \in t.parked : t.agent[a].call = s.agent[a].call
    /\ t.deferred = s.deferred /\ t.decided = s.decided
    /\ \A m \in Item \ N : s.fate[m] = "new" => t.fate[m] = "new"

\* A new turn finds a worker's slot.
Roomy(s) == \E w \in Worker : s.agent[w].at = "off"

LEMMA AgentTypes ==
    ASSUME NEW s \in State
    PROVE  /\ \A a \in Agent : s.agent[a] \in AgentState
           /\ s.queued \in Seq(Item) /\ s.steered \in Seq(Item) /\ s.inbox \in Seq(Item)
           /\ s.queued \in Seq(Item) /\ s.events \in Seq(Event) /\ Reading(s) \in Seq(Item)
           /\ s.worker # None => s.worker \in Worker /\ s.worker \in Agent
<1>1. /\ s.agent \in [Agent -> AgentState] /\ s.queued \in Seq(Item) /\ s.events \in Seq(Event)
      /\ s.steered \in Seq(Item \ Images) /\ s.inbox \in Seq(Item \ Images)
      /\ s.worker \in Worker \cup {None}
  BY DEF State
<1>2. s.steered \in Seq(Item) /\ s.inbox \in Seq(Item) BY <1>1
<1>3. s.worker # None => s.worker \in Worker /\ s.worker \in Agent BY <1>1 DEF Agent
<1>4. Reading(s) \in Seq(Item)
  <2>1. CASE s.worker = None BY <2>1 DEF Reading
  <2>2. CASE s.worker # None BY <2>2, <1>1, <1>3 DEF Reading, AgentState
  <2> QED BY <2>1, <2>2
<1> QED BY <1>1, <1>2, <1>3, <1>4

\* Told to stop, agents other than the worker disturb nothing.
LEMMA ToldSound ==
    ASSUME NEW s \in State, NEW t \in State, NEW M, Sound(s, M), NEW A, s.worker \notin A,
           SameBooks(s, t), SameAsks(s, t), Told(s, t, A)
    PROVE  Sound(t, M) /\ Keeps(s, t, {})
<1>1. \A a \in Agent : SameAgent(s.agent[a], t.agent[a]) BY DEF Told
<1>2. \A a \in Agent : s.agent[a].stop => t.agent[a].stop BY DEF Told
<1>3. s.worker \in Agent => (s.agent[s.worker].stop <=> t.agent[s.worker].stop) BY DEF Told
<1>4. s.asks \subseteq Agent /\ s.parked \subseteq Agent BY DEF State
<1>5. Reading(t) = Reading(s) BY <1>1, AgentTypes DEF SameBooks, Reading, SameAgent
<1>6. Filed(t, M) BY DEF Sound, Filed, SameBooks
<1>7. Steering(t)
  <2>1. Read(t) = Read(s) BY DEF SameBooks, Read
  <2> QED BY <1>5, <2>1 DEF Sound, Steering, SameBooks
<1>8. Working(t)
  <2>1. HasEnded(t) = HasEnded(s) BY DEF SameBooks, HasEnded
  <2>2. \A w \in Worker : w \in Agent BY DEF Agent
  <2>3. t.worker = s.worker /\ t.running = s.running /\ t.events = s.events BY DEF SameBooks
  <2>4. (t.running <=> t.worker # None) /\ (t.worker = None => t.events = <<>>)
    BY <2>3 DEF Sound, Working
  <2>5. t.worker # None =>
           \/ t.agent[t.worker].at # "off" /\ ~t.agent[t.worker].stop /\ ~HasEnded(t)
           \/ t.agent[t.worker].at = "off" /\ HasEnded(t)
    <3>1. s.worker # None => s.worker \in Agent BY AgentTypes
    <3> QED BY <1>1, <1>3, <2>1, <2>3, <3>1 DEF Sound, Working, SameAgent
  <2>6. \A w \in Worker : w # t.worker /\ t.agent[w].at # "off" => t.agent[w].stop
    BY <1>1, <1>2, <2>2, <2>3 DEF Sound, Working, SameAgent
  <2> QED BY <2>4, <2>5, <2>6 DEF Working
<1>9. Asking(t)
  <2>1. s.worker # None => s.worker \in Agent BY AgentTypes
  <2>2. /\ \A a \in t.asks \cup t.parked : t.agent[a].at = "asked"
        /\ \A a \in Agent : t.agent[a].at = "asked" => t.agent[a].call \in Call
        /\ \A a \in Agent : t.agent[a].at = "read" => t.agent[a].reads # <<>>
    BY <1>1, <1>4 DEF Sound, Asking, SameAsks, SameAgent
  <2>3. t.worker # None /\ t.agent[t.worker].at = "asked" => t.worker \in t.asks \cup t.parked
    BY <1>1, <2>1 DEF Sound, Asking, SameBooks, SameAsks, SameAgent
  <2>4. t.asks \cap t.parked = {} BY DEF Sound, Asking, SameAsks
  <2> QED BY <2>2, <2>3, <2>4 DEF Asking
<1>10. Keeps(s, t, {}) BY <1>1, <1>4 DEF Keeps, SameBooks, SameAsks, SameAgent
<1> QED BY <1>6, <1>7, <1>8, <1>9, <1>10 DEF Sound

LEMMA AlikeSound ==
    ASSUME NEW s \in State, NEW t, NEW M, Sound(s, M), Alike(s, t)
    PROVE  Sound(t, M) /\ Keeps(s, t, {})
<1>1. t \in State /\ SameBooks(s, t) /\ SameAsks(s, t) /\ Told(s, t, {}) BY DEF Alike
<1>2. s.worker \notin {} OBVIOUS
<1> QED BY <1>1, <1>2, ToldSound

LEMMA ToldTwice ==
    ASSUME NEW s, NEW t, NEW u, NEW A, NEW B, Told(s, t, A), Told(t, u, B)
    PROVE  Told(s, u, A \cup B)
BY DEF Told, SameAgent

LEMMA AlikeTwice ==
    ASSUME NEW s, NEW t, NEW u, Alike(s, t), Alike(t, u)
    PROVE  Alike(s, u)
BY DEF Alike, SameBooks, SameAsks, Told, SameAgent

LEMMA KeepsTwice ==
    ASSUME NEW s, NEW t, NEW u, NEW M, NEW N, Keeps(s, t, M), Keeps(t, u, N)
    PROVE  Keeps(s, u, M \cup N)
BY DEF Keeps

\* A mishap is counted.
LEMMA CountedAlike ==
    ASSUME NEW s \in State
    PROVE  /\ Alike(s, [s EXCEPT !.mishaps = @ + 1])
           /\ Alike(s, [s EXCEPT !.ops = @ + 1])
<1>1. ASSUME NEW n \in Nat
      PROVE  [s EXCEPT !.mishaps = n] \in State /\ [s EXCEPT !.ops = n] \in State
  BY DEF State
<1>2. s.mishaps + 1 \in Nat /\ s.ops + 1 \in Nat BY DEF State
<1>3. [s EXCEPT !.mishaps = @ + 1] \in State /\ [s EXCEPT !.ops = @ + 1] \in State
  BY <1>1, <1>2
<1> QED BY <1>3 DEF State, Alike, SameBooks, SameAsks, Told, SameAgent

LEMMA MishapsAre ==
    ASSUME NEW s, NEW S, NEW u \in Mishaps(s, S), S \subseteq State
    PROVE  \E t \in S : Alike(t, u)
<1>1. PICK t \in S : u = [t EXCEPT !.mishaps = @ + 1] BY DEF Mishaps
<1> QED BY <1>1, CountedAlike

\* Updated.
With(x, f, v) == [x EXCEPT ![f] = v]

Fits(f, v) == \A x \in AgentState : With(x, f, v) \in AgentState

LEMMA UpdatedIs ==
    ASSUME NEW s \in State, NEW A, NEW f, NEW v, Fits(f, v)
    PROVE  /\ Updated(s, A, f, v) \in State
           /\ SameBooks(s, Updated(s, A, f, v)) /\ SameAsks(s, Updated(s, A, f, v))
           /\ \A a \in Agent :
                Updated(s, A, f, v).agent[a] = IF a \in A /\ s.agent[a].at # "off"
                                               THEN With(s.agent[a], f, v)
                                               ELSE s.agent[a]
<1> DEFINE b == [a \in Agent |-> IF a \in A /\ s.agent[a].at # "off"
                                 THEN With(s.agent[a], f, v) ELSE s.agent[a]]
           t == [s EXCEPT !.agent = b]
<1>1. Updated(s, A, f, v) = t BY DEF Updated, With
<1>2. b \in [Agent -> AgentState] BY AgentTypes DEF Fits
<1>3. \A a \in Agent : b[a] = IF a \in A /\ s.agent[a].at # "off"
                              THEN With(s.agent[a], f, v) ELSE s.agent[a]
  OBVIOUS
<1> HIDE DEF b
<1>4. t \in State /\ t.agent = b BY <1>2 DEF State
<1>5. SameBooks(s, t) /\ SameAsks(s, t) BY DEF State, SameBooks, SameAsks
<1> QED BY <1>1, <1>3, <1>4, <1>5

LEMMA UpdatedStop ==
    ASSUME NEW s \in State, NEW A
    PROVE  /\ Updated(s, A, "stop", TRUE) \in State /\ SameBooks(s, Updated(s, A, "stop", TRUE))
           /\ SameAsks(s, Updated(s, A, "stop", TRUE)) /\ Told(s, Updated(s, A, "stop", TRUE), A)
<1> DEFINE b == [a \in Agent |-> IF a \in A /\ s.agent[a].at # "off"
                                 THEN [s.agent[a] EXCEPT !.stop = TRUE] ELSE s.agent[a]]
           t == [s EXCEPT !.agent = b]
<1>1. Updated(s, A, "stop", TRUE) = t BY DEF Updated
<1>2. ASSUME NEW a \in Agent
      PROVE  /\ b[a] \in AgentState /\ SameAgent(s.agent[a], b[a])
             /\ b[a].stop <=> s.agent[a].stop \/ (a \in A /\ s.agent[a].at # "off")
  <2>1. s.agent[a] \in AgentState BY AgentTypes
  <2>2. b[a] = IF a \in A /\ s.agent[a].at # "off"
               THEN [s.agent[a] EXCEPT !.stop = TRUE] ELSE s.agent[a]
    OBVIOUS
  <2> HIDE DEF b
  <2> QED BY <2>1, <2>2 DEF AgentState, SameAgent
<1>3. b \in [Agent -> AgentState] BY <1>2
<1> HIDE DEF b
<1>4. t \in State /\ t.agent = b BY <1>3 DEF State
<1>5. SameBooks(s, t) /\ SameAsks(s, t) BY DEF State, SameBooks, SameAsks
<1>6. Told(s, t, A) BY <1>2, <1>4 DEF Told
<1> QED BY <1>1, <1>4, <1>5, <1>6

LEMMA UpdatedAlike ==
    ASSUME NEW s \in State, NEW A, NEW f \in {"old", "open"}, NEW v \in BOOLEAN
    PROVE  Alike(s, Updated(s, A, f, v))
<1> DEFINE t == Updated(s, A, f, v)
<1>1. Fits(f, v) BY DEF Fits, With, AgentState
<1>2. /\ t \in State /\ SameBooks(s, t) /\ SameAsks(s, t)
      /\ \A a \in Agent : t.agent[a] = IF a \in A /\ s.agent[a].at # "off"
                                       THEN With(s.agent[a], f, v) ELSE s.agent[a]
  BY <1>1, UpdatedIs
<1> HIDE DEF t
<1>3. Told(s, t, {})
  <2> SUFFICES ASSUME NEW a \in Agent
               PROVE SameAgent(s.agent[a], t.agent[a]) /\ (t.agent[a].stop <=> s.agent[a].stop)
    BY DEF Told
  <2>1. s.agent[a] \in AgentState BY AgentTypes
  <2> QED BY <1>2, <2>1 DEF With, AgentState, SameAgent
<1> QED BY <1>2, <1>3 DEF Alike, t

\* Requeued, Closed and Unheard.
LEMMA RequeuedIs ==
    ASSUME NEW s \in State
    PROVE  /\ Requeued(s) \in State /\ SameAsks(s, Requeued(s)) /\ Told(s, Requeued(s), {})
           /\ Requeued(s).queued = s.steered \o s.queued
           /\ Requeued(s).steered = <<>> /\ Requeued(s).inbox = <<>>
           /\ Requeued(s).running = s.running /\ Requeued(s).worker = s.worker
           /\ Requeued(s).deferred = s.deferred /\ Requeued(s).decided = s.decided
           /\ Requeued(s).events = s.events /\ Requeued(s).fate = s.fate
<1>1. s.steered \o s.queued \in Seq(Item) BY AgentTypes
<1>2. ASSUME NEW q \in Seq(Item)
      PROVE  [s EXCEPT !.queued = q, !.steered = <<>>, !.inbox = <<>>] \in State
  <2>1. <<>> \in Seq(Item \ Images) OBVIOUS
  <2> QED BY <2>1 DEF State
<1>3. Requeued(s) = [s EXCEPT !.queued = s.steered \o s.queued, !.steered = <<>>, !.inbox = <<>>]
  BY DEF Requeued
<1>4. Requeued(s) \in State BY <1>1, <1>2, <1>3
<1> QED BY <1>3, <1>4 DEF State, SameAsks, Told, SameAgent

LEMMA ClosedIs ==
    ASSUME NEW s \in State
    PROVE  /\ Closed(s) \in State /\ SameBooks(s, Closed(s)) /\ SameAsks(s, Closed(s))
           /\ \E A \in SUBSET Sub : Told(s, Closed(s), A)
<1> DEFINE A == {a \in Sub : ~s.agent[a].old}
<1>1. Closed(s) = Updated(s, A, "stop", TRUE) BY DEF Closed
<1>2. A \in SUBSET Sub OBVIOUS
<1> HIDE DEF A
<1> QED BY <1>1, <1>2, UpdatedStop

LEMMA UnheardIs ==
    ASSUME NEW s \in State
    PROVE  /\ Unheard(s) \in State /\ SameBooks(s, Unheard(s)) /\ Told(s, Unheard(s), {})
           /\ Unheard(s).asks = {} /\ Unheard(s).parked = {}
<1> DEFINE t == Updated(s, Agent, "open", FALSE)
           u == [t EXCEPT !.asks = {}, !.parked = {}]
<1>1. Unheard(s) = u BY DEF Unheard
<1>2. PICK v \in BOOLEAN : v = FALSE OBVIOUS
<1>3. Alike(s, t) BY UpdatedAlike
<1> HIDE DEF t
<1>4. t \in State BY <1>3 DEF Alike
<1>5. u \in State BY <1>4 DEF State
<1>6. SameBooks(t, u) /\ Told(t, u, {}) /\ u.asks = {} /\ u.parked = {}
  BY <1>4 DEF State, SameBooks, Told, SameAgent
<1> HIDE DEF u
<1>7. SameBooks(s, u) BY <1>3, <1>6 DEF Alike, SameBooks
<1>8. Told(s, u, {}) BY <1>3, <1>6 DEF Alike, Told, SameAgent
<1> QED BY <1>1, <1>5, <1>6, <1>7, <1>8

\* t is s at rest: the turn is over, and what it did not read is queued again.
Rests(s, t) ==
    /\ t \in State /\ ~t.running /\ t.worker = None /\ t.events = <<>>
    /\ t.queued = s.steered \o s.queued /\ t.steered = <<>> /\ t.inbox = <<>>
    /\ t.deferred = s.deferred /\ t.decided = s.decided /\ t.fate = s.fate
    /\ SameAsks(s, t) \/ (t.asks = {} /\ t.parked = {})

LEMMA RestsSound ==
    ASSUME NEW s \in State, NEW t \in State, NEW M, NEW A, Filed(s, M), Asking(s), Rests(s, t),
           Told(s, t, A), \A w \in Worker : s.agent[w].at # "off" => w \in A \/ s.agent[w].stop
    PROVE  Sound(t, M) /\ Keeps(s, t, {})
<1>1. s.steered \in Seq(Item) /\ s.queued \in Seq(Item) BY AgentTypes
<1>2. /\ In(s.steered \o s.queued) = In(s.steered) \cup In(s.queued)
      /\ Once(s.steered \o s.queued)
  BY <1>1, ConcatOnce DEF Filed
<1>3. In(<<>>) = {} /\ Once(<<>>) BY DEF In, Once
<1>4. Filed(t, M) BY <1>2, <1>3 DEF Filed, Rests
<1>5. Steering(t)
  <2>1. Reading(t) = <<>> /\ Read(t) = {} BY DEF Rests, Reading, Read
  <2> QED BY <1>3, <2>1 DEF Steering, Rests
<1>6. Working(t)
  <2>1. \A w \in Worker : w \in Agent BY DEF Agent
  <2> QED BY <2>1 DEF Working, Rests, Told, SameAgent
<1>7. s.asks \subseteq Agent /\ s.parked \subseteq Agent BY DEF State
<1>8. Asking(t) BY <1>7 DEF Asking, Rests, SameAsks, Told, SameAgent
<1>9. Keeps(s, t, {}) BY <1>7 DEF Keeps, Rests, SameAsks, Told, SameAgent
<1> QED BY <1>4, <1>5, <1>6, <1>8, <1>9 DEF Sound

\* A room stays, whoever is told to stop.
LEMMA ToldRoom ==
    ASSUME NEW s, NEW t, NEW A, Told(s, t, A), Roomy(s)
    PROVE  Roomy(t)
BY DEF Told, SameAgent, Roomy, Agent

\* stop_current_turn.
LEMMA StoppedSound ==
    ASSUME NEW s, NEW M, Sound(s, M)
    PROVE  /\ Sound(Stopped(s), M) /\ Keeps(s, Stopped(s), {})
           /\ ~Stopped(s).running /\ Stopped(s).worker = None
           /\ Stopped(s).queued = s.steered \o s.queued
           /\ Roomy(s) => Roomy(Stopped(s))
<1> DEFINE t1 == IF s.worker = None THEN s ELSE Updated(s, {s.worker}, "stop", TRUE)
           t2 == Closed(t1)
           t3 == Requeued(t2)
           t4 == Unheard(t3)
           t5 == [t4 EXCEPT !.running = FALSE, !.worker = None, !.events = <<>>, !.going = FALSE]
<1>0. s \in State BY DEF Sound
<1>1. t1 \in State /\ SameBooks(s, t1) /\ SameAsks(s, t1) /\ Told(s, t1, {s.worker})
  <2>1. CASE s.worker = None
    <3>1. None \notin Agent BY TurnAssumption
    <3>2. t1 = s BY <2>1
    <3> QED BY <1>0, <2>1, <3>1, <3>2 DEF SameBooks, SameAsks, Told, SameAgent
  <2>2. CASE s.worker # None BY <1>0, <2>2, UpdatedStop
  <2> QED BY <2>1, <2>2
<1>6. Stopped(s) = t5 BY DEF Stopped
<1> HIDE DEF t1
<1>2. PICK A \in SUBSET Sub :
        t2 \in State /\ SameBooks(t1, t2) /\ SameAsks(t1, t2) /\ Told(t1, t2, A)
  BY <1>1, ClosedIs
<1> HIDE DEF t2
<1>3. /\ t3 \in State /\ Told(t2, t3, {})
      /\ t3.queued = t2.steered \o t2.queued /\ t3.steered = <<>> /\ t3.inbox = <<>>
      /\ t3.deferred = t2.deferred /\ t3.decided = t2.decided /\ t3.fate = t2.fate
  BY <1>2, RequeuedIs
<1> HIDE DEF t3
<1>4. /\ t4 \in State /\ SameBooks(t3, t4) /\ Told(t3, t4, {}) /\ t4.asks = {} /\ t4.parked = {}
  BY <1>3, UnheardIs
<1> HIDE DEF t4
<1>5. /\ t5 \in State /\ ~t5.running /\ t5.worker = None /\ t5.events = <<>>
      /\ t5.queued = t4.queued /\ t5.steered = t4.steered /\ t5.inbox = t4.inbox
      /\ t5.deferred = t4.deferred /\ t5.decided = t4.decided /\ t5.fate = t4.fate
      /\ t5.asks = {} /\ t5.parked = {} /\ Told(t4, t5, {})
  <2>0. <<>> \in Seq(Event) OBVIOUS
  <2>1. t5 \in State BY <1>4, <2>0 DEF State
  <2> QED BY <1>4, <2>1 DEF State, Told, SameAgent
<1> HIDE DEF t5
<1>7. Told(s, t5, {s.worker} \cup A)
  BY <1>1, <1>2, <1>3, <1>4, <1>5 DEF Told, SameAgent
<1>8. Rests(s, t5) BY <1>1, <1>2, <1>3, <1>4, <1>5 DEF Rests, SameBooks
<1>9. \A w \in Worker : s.agent[w].at # "off" => w \in {s.worker} \cup A \/ s.agent[w].stop
  BY DEF Sound, Working
<1>10. Sound(t5, M) /\ Keeps(s, t5, {}) BY <1>0, <1>5, <1>7, <1>8, <1>9, RestsSound DEF Sound
<1>11. Roomy(s) => Roomy(t5) BY <1>7, ToldRoom
<1> QED BY <1>6, <1>8, <1>10, <1>11 DEF Rests

-----------------------------------------------------------------------------
(* A turn starts *)

\* Without a turn, nobody's request matters.
LEMMA HushedSound ==
    ASSUME NEW s, NEW M, Sound(s, M), s.worker = None
    PROVE  /\ Sound(Unheard(s), M) /\ Keeps(s, Unheard(s), {})
           /\ Unheard(s).worker = None /\ Unheard(s).asks = {} /\ Unheard(s).parked = {}
           /\ Roomy(s) => Roomy(Unheard(s))
<1> DEFINE t == Unheard(s)
<1>0. s \in State BY DEF Sound
<1>1. /\ t \in State /\ SameBooks(s, t) /\ Told(s, t, {}) /\ t.asks = {} /\ t.parked = {}
  BY <1>0, UnheardIs
<1> HIDE DEF t
<1>2. Reading(t) = Reading(s) /\ Read(t) = Read(s) /\ HasEnded(t) = HasEnded(s)
  BY <1>1 DEF Reading, Read, HasEnded, SameBooks
<1>3. Filed(t, M) BY <1>1 DEF Sound, Filed, SameBooks
<1>4. Steering(t) BY <1>1, <1>2 DEF Sound, Steering, SameBooks
<1>5. Working(t)
  <2>1. \A w \in Worker : w \in Agent BY DEF Agent
  <2> QED BY <1>1, <2>1 DEF Sound, Working, SameBooks, Told, SameAgent
<1>6. Asking(t) BY <1>1 DEF Sound, Asking, SameBooks, Told, SameAgent
<1>7. Keeps(s, t, {}) BY <1>1 DEF Keeps, SameBooks
<1>8. Roomy(s) => Roomy(t) BY <1>1, ToldRoom
<1> QED BY <1>1, <1>3, <1>4, <1>5, <1>6, <1>7, <1>8 DEF Sound, SameBooks, t

LEMMA RequeuedSound ==
    ASSUME NEW s, NEW M, Sound(s, M), s.worker = None
    PROVE  /\ Sound(Requeued(s), M) /\ Keeps(s, Requeued(s), {}) /\ Requeued(s).worker = None
           /\ Roomy(s) => Roomy(Requeued(s))
<1> DEFINE t == Requeued(s)
<1>0. s \in State BY DEF Sound
<1>1. t \in State /\ Rests(s, t) /\ Told(s, t, {})
  BY <1>0, RequeuedIs DEF Rests, Sound, Working
<1> HIDE DEF t
<1>2. \A w \in Worker : s.agent[w].at # "off" => w \in {} \/ s.agent[w].stop
  <2>1. \A w \in Worker : w # None BY TurnAssumption DEF Agent
  <2> QED BY <2>1 DEF Sound, Working
<1>3. Sound(t, M) /\ Keeps(s, t, {}) BY <1>0, <1>1, <1>2, RestsSound DEF Sound
<1>4. Roomy(s) => Roomy(t) BY <1>1, ToldRoom
<1> QED BY <1>1, <1>3, <1>4 DEF Rests, t

LEMMA ClosedSound ==
    ASSUME NEW s, NEW M, Sound(s, M)
    PROVE  /\ Sound(Closed(s), M) /\ Keeps(s, Closed(s), {}) /\ Closed(s).worker = s.worker
           /\ Closed(s).running = s.running
           /\ Roomy(s) => Roomy(Closed(s))
<1> DEFINE t == Closed(s)
<1>0. s \in State BY DEF Sound
<1>1. PICK A \in SUBSET Sub : t \in State /\ SameBooks(s, t) /\ SameAsks(s, t) /\ Told(s, t, A)
  BY <1>0, ClosedIs
<1> HIDE DEF t
<1>2. s.worker \notin A BY <1>0, AgentTypes, TurnAssumption DEF Agent
<1>3. Sound(t, M) /\ Keeps(s, t, {}) BY <1>0, <1>1, <1>2, ToldSound
<1>4. Roomy(s) => Roomy(t) BY <1>1, ToldRoom
<1> QED BY <1>1, <1>3, <1>4 DEF SameBooks, t

\* A worker starts: a turn's, or one that only compacts.
LEMMA StartedSound ==
    ASSUME NEW s, NEW M, Sound(s, M), s.worker = None, NEW w \in Worker, s.agent[w].at = "off",
           NEW x \in AgentState, x.at \in {"new", "compact"}, ~x.stop, x.reads = <<>>,
           NEW t \in State, t.agent = [s.agent EXCEPT ![w] = x],
           t.worker = w, t.events = <<>>, t.running,
           t.queued = s.queued, t.steered = s.steered, t.inbox = s.inbox,
           t.deferred = s.deferred, t.decided = s.decided, t.fate = s.fate, SameAsks(s, t)
    PROVE  Sound(t, M) /\ Keeps(s, t, {})
<1>0. s \in State /\ w \in Agent /\ w # None BY TurnAssumption DEF Sound, Agent
<1>1. s.agent \in [Agent -> AgentState] BY <1>0 DEF State
<1>2. t.agent[w] = x /\ \A a \in Agent : a # w => t.agent[a] = s.agent[a] BY <1>0, <1>1
<1>3. s.asks \subseteq Agent /\ s.parked \subseteq Agent BY <1>0 DEF State
<1>4. w \notin s.asks \cup s.parked BY DEF Sound, Asking
<1>5. In(<<>>) = {} /\ Once(<<>>) BY DEF In, Once
<1>6. Reading(t) = <<>> /\ Read(t) = {} /\ ~HasEnded(t)
  BY <1>0, <1>2 DEF Reading, Read, HasEnded
<1>7. Filed(t, M) BY DEF Sound, Filed
<1>8. Steering(t) BY <1>5, <1>6 DEF Sound, Steering
<1>9. Working(t)
  <2>1. \A v \in Worker : v \in Agent /\ v # None BY TurnAssumption DEF Agent
  <2> QED BY <1>0, <1>2, <1>6, <2>1 DEF Sound, Working
<1>10. Asking(t)
  <2>1. \A a \in t.asks \cup t.parked : a \in Agent /\ a # w BY <1>3, <1>4 DEF SameAsks
  <2> QED BY <1>2, <2>1 DEF Sound, Asking, SameAsks
<1>11. Keeps(s, t, {}) BY <1>2, <1>3, <1>4 DEF Keeps, SameAsks
<1> QED BY <1>7, <1>8, <1>9, <1>10, <1>11 DEF Sound

\* The invariant, and a turn has started or there is room for one.
Starts(s, t) == Sound(t, {}) /\ Keeps(s, t, {}) /\ (t.running \/ Roomy(t))

\* spawn_current_context_turn.
LEMMA SpawnSound ==
    ASSUME NEW s, Sound(s, {}), s.worker = None, Roomy(s), NEW t \in Spawn(s)
    PROVE  Starts(s, t)
<1> DEFINE k == [s EXCEPT !.keep = FALSE]
           f == IF s.keep THEN k ELSE Updated(Requeued(k), Agent, "old", TRUE)
           r == Unheard(f)
           w == CHOOSE w \in Worker : s.agent[w].at = "off"
           x(head) == [Idle EXCEPT !.at = "new", !.open = TRUE, !.head = head]
           u(head) == [r EXCEPT !.agent[w] = x(head), !.worker = w, !.events = <<>>,
                                !.running = TRUE, !.force = FALSE]
<1>0. s \in State BY DEF Sound
<1>1. w \in Worker /\ s.agent[w].at = "off" /\ w \in Agent BY DEF Roomy, Agent
<1>2. Alike(s, k)
  <2>1. k \in State BY <1>0 DEF State
  <2> QED BY <1>0, <2>1 DEF State, Alike, SameBooks, SameAsks, Told, SameAgent
<1>3. t \in Mishaps(s, {Requeued(Closed(k)), f, r}) \/ \E head \in BOOLEAN : t = u(head)
  BY DEF Spawn
<1> HIDE DEF k, w
<1>4. Sound(k, {}) /\ Keeps(s, k, {}) /\ k.worker = None BY <1>0, <1>2, AlikeSound DEF Alike, SameBooks
<1>5. Roomy(k) /\ k.agent[w].at = "off"
  <2>1. Told(s, k, {}) BY <1>2 DEF Alike
  <2>2. Roomy(k) BY <2>1, ToldRoom
  <2> QED BY <1>1, <2>1, <2>2 DEF Told, SameAgent
<1>6. /\ Sound(f, {}) /\ Keeps(s, f, {}) /\ f.worker = None /\ Roomy(f)
      /\ f.agent[w].at = "off"
  <2>1. CASE s.keep BY <2>1, <1>4, <1>5
  <2>2. CASE ~s.keep
    <3> DEFINE q == Requeued(k)
    <3>1. Sound(q, {}) /\ Keeps(k, q, {}) /\ q.worker = None /\ Roomy(q)
      BY <1>4, <1>5, RequeuedSound
    <3>2. q.agent[w].at = "off" BY <1>1, <1>4, <1>5, RequeuedIs DEF Sound, Told, SameAgent
    <3> HIDE DEF q
    <3>3. q \in State BY <3>1 DEF Sound
    <3>4. Alike(q, Updated(q, Agent, "old", TRUE)) BY <3>3, UpdatedAlike
    <3>5. f = Updated(q, Agent, "old", TRUE) BY <2>2 DEF q
    <3> HIDE DEF f
    <3>6. Sound(f, {}) /\ Keeps(q, f, {}) BY <3>1, <3>3, <3>4, <3>5, AlikeSound
    <3>7. f.worker = None /\ Roomy(f) /\ f.agent[w].at = "off"
      <4>1. Told(q, f, {}) /\ f.worker = q.worker BY <3>4, <3>5 DEF Alike, SameBooks
      <4>2. Roomy(f) BY <3>1, <4>1, ToldRoom
      <4> QED BY <1>1, <3>1, <3>2, <4>1, <4>2 DEF Told, SameAgent
    <3>8. Keeps(s, f, {}) BY <1>4, <3>1, <3>6 DEF Keeps
    <3> QED BY <3>6, <3>7, <3>8
  <2> QED BY <2>1, <2>2
<1> HIDE DEF f
<1>7. /\ Sound(r, {}) /\ Keeps(s, r, {}) /\ r.worker = None /\ Roomy(r) /\ r.agent[w].at = "off"
      /\ r.asks = {} /\ r.parked = {}
  <2>1. /\ Sound(r, {}) /\ Keeps(f, r, {}) /\ r.worker = None /\ Roomy(r)
        /\ r.asks = {} /\ r.parked = {}
    BY <1>6, HushedSound
  <2>2. r.agent[w].at = "off" BY <1>1, <1>6, UnheardIs DEF Sound, Told, SameAgent
  <2> HIDE DEF r
  <2>3. Keeps(s, r, {}) BY <1>6, <2>1 DEF Keeps
  <2> QED BY <2>1, <2>2, <2>3
<1> HIDE DEF r
<1>8. CASE t \in Mishaps(s, {Requeued(Closed(k)), f, r})
  <2> DEFINE c == Closed(k)
             q == Requeued(c)
  <2>1. Sound(c, {}) /\ Keeps(k, c, {}) /\ c.worker = None /\ Roomy(c) BY <1>4, <1>5, ClosedSound
  <2> HIDE DEF c
  <2>2. Sound(q, {}) /\ Keeps(c, q, {}) /\ Roomy(q) BY <2>1, RequeuedSound
  <2> HIDE DEF q
  <2>3. Keeps(s, q, {}) BY <1>4, <2>1, <2>2 DEF Keeps
  <2>4. \A v \in {q, f, r} : v \in State /\ Starts(s, v)
    BY <1>6, <1>7, <2>2, <2>3 DEF Starts, Sound
  <2>5. t \in Mishaps(s, {q, f, r}) BY <1>8 DEF q, c
  <2>6. {q, f, r} \subseteq State BY <2>4
  <2>7. PICK v \in {q, f, r} : Alike(v, t) BY <2>5, <2>6, MishapsAre
  <2>8. Starts(s, v) /\ v \in State BY <2>4
  <2>9. Sound(t, {}) /\ Keeps(v, t, {}) BY <2>7, <2>8, AlikeSound DEF Starts
  <2>10. t.running \/ Roomy(t)
    BY <2>7, <2>8, ToldRoom DEF Starts, Alike, SameBooks
  <2>11. Keeps(s, t, {}) BY <2>8, <2>9 DEF Starts, Keeps
  <2> QED BY <2>9, <2>10, <2>11 DEF Starts
<1>9. ASSUME NEW head \in BOOLEAN, t = u(head)
      PROVE  Starts(s, t)
  <2>1. x(head) \in AgentState /\ x(head).at = "new" /\ ~x(head).stop /\ x(head).reads = <<>>
    <3>1. Idle \in AgentState
      <4>1. <<>> \in Seq(Item) OBVIOUS
      <4> QED BY <4>1 DEF Idle, AgentState, Place
    <3>2. Idle.stop = FALSE /\ Idle.reads = <<>> BY DEF Idle
    <3> QED BY <3>1, <3>2 DEF AgentState, Place
  <2> DEFINE y == x(head)
             v == [r EXCEPT !.agent[w] = y, !.worker = w, !.events = <<>>,
                            !.running = TRUE, !.force = FALSE]
  <2>2. t = v BY <1>9
  <2> HIDE DEF y, x
  <2>3. r \in State /\ y \in AgentState BY <1>7, <2>1 DEF Sound, y
  <2>4. <<>> \in Seq(Event) OBVIOUS
  <2>5. v \in State BY <1>1, <2>3, <2>4 DEF State
  <2>6. /\ v.agent = [r.agent EXCEPT ![w] = y] /\ v.worker = w /\ v.events = <<>> /\ v.running
        /\ v.queued = r.queued /\ v.steered = r.steered /\ v.inbox = r.inbox
        /\ v.deferred = r.deferred /\ v.decided = r.decided /\ v.fate = r.fate /\ SameAsks(r, v)
    BY <2>3 DEF State, SameAsks
  <2> HIDE DEF v
  <2>7. y.at \in {"new", "compact"} /\ ~y.stop /\ y.reads = <<>> BY <2>1 DEF y
  <2>8. Sound(v, {}) /\ Keeps(r, v, {})
    BY <1>1, <1>7, <2>3, <2>5, <2>6, <2>7, StartedSound
  <2>9. Keeps(s, v, {}) BY <1>7, <2>8 DEF Keeps
  <2> QED BY <2>2, <2>6, <2>8, <2>9 DEF Starts
<1> QED BY <1>3, <1>8, <1>9

-----------------------------------------------------------------------------
(* Messages are queued, taken, recorded *)

\* Only the queue changes, and what became of messages.
SameRest(s, t) ==
    /\ t \in State /\ t.running = s.running /\ t.worker = s.worker /\ t.steered = s.steered
    /\ t.inbox = s.inbox /\ t.events = s.events /\ t.agent = s.agent /\ SameAsks(s, t)
    /\ t.deferred = s.deferred /\ t.decided = s.decided

LEMMA RefiledSound ==
    ASSUME NEW s, NEW t, NEW M, NEW N, Sound(s, M), SameRest(s, t), Filed(t, N)
    PROVE  Sound(t, N) /\ (Roomy(s) => Roomy(t))
<1>1. Reading(t) = Reading(s) /\ Read(t) = Read(s) /\ HasEnded(t) = HasEnded(s)
  BY DEF SameRest, Reading, Read, HasEnded
<1>2. Steering(t) BY <1>1 DEF Sound, SameRest, Steering
<1>3. Working(t) BY <1>1 DEF Sound, SameRest, Working
<1>4. Asking(t) BY DEF Sound, SameRest, SameAsks, Asking
<1> QED BY <1>2, <1>3, <1>4 DEF Sound, SameRest, Roomy

\* The engine is done with a message it has in hand.
LEMMA FatedSound ==
    ASSUME NEW s, NEW m \in Item, Sound(s, {m}), NEW v \in {"recorded", "blocked", "returned"},
           NEW t, SameRest(s, t), t.queued = s.queued, t.fate = [s.fate EXCEPT ![m] = v]
    PROVE  Sound(t, {}) /\ Keeps(s, t, {}) /\ (Roomy(s) => Roomy(t))
<1>1. s \in State /\ DOMAIN s.fate = Item BY DEF Sound, State
<1>2. t.fate[m] = v /\ v # "live" /\ v # "new"
      /\ \A n \in Item : n # m => t.fate[n] = s.fate[n]
  BY <1>1
<1>3. s.fate[m] = "live" BY DEF Sound, Filed
<1>4. Filed(t, {}) BY <1>2 DEF Sound, Filed, SameRest
<1>5. Keeps(s, t, {}) BY <1>2, <1>3 DEF Keeps, SameRest, SameAsks
<1> QED BY <1>4, <1>5, RefiledSound

\* It comes to have one.
LEMMA HeldSound ==
    ASSUME NEW s, NEW m \in Item, Sound(s, {}), s.fate[m] # "live"
    PROVE  /\ Sound([s EXCEPT !.fate[m] = "live"], {m})
           /\ Keeps(s, [s EXCEPT !.fate[m] = "live"], {m})
           /\ Roomy(s) => Roomy([s EXCEPT !.fate[m] = "live"])
           /\ [s EXCEPT !.fate[m] = "live"].running = s.running
           /\ [s EXCEPT !.fate[m] = "live"].decided = s.decided
<1> DEFINE t == [s EXCEPT !.fate[m] = "live"]
<1>1. s \in State /\ s.fate \in [Item -> {"new", "live", "recorded", "blocked", "returned"}]
  BY DEF Sound, State
<1>2. t \in State BY <1>1 DEF State
<1>3. SameRest(s, t) /\ t.queued = s.queued /\ t.fate = [s.fate EXCEPT ![m] = "live"]
  BY <1>1, <1>2 DEF State, SameRest, SameAsks
<1> HIDE DEF t
<1>4. t.fate[m] = "live" /\ \A n \in Item : n # m => t.fate[n] = s.fate[n] BY <1>1, <1>3
<1>5. Filed(t, {m}) BY <1>3, <1>4 DEF Sound, Filed, SameRest
<1>6. Keeps(s, t, {m}) BY <1>3, <1>4 DEF Keeps, SameRest, SameAsks
<1>7. Sound(t, {m}) /\ (Roomy(s) => Roomy(t)) BY <1>3, <1>5, RefiledSound
<1> QED BY <1>3, <1>6, <1>7 DEF SameRest, t

\* It queues it.
LEMMA QueuedSound ==
    ASSUME NEW s, NEW m \in Item, Sound(s, {m})
    PROVE  /\ Sound([s EXCEPT !.queued = Append(@, m)], {})
           /\ Keeps(s, [s EXCEPT !.queued = Append(@, m)], {})
           /\ [s EXCEPT !.queued = Append(@, m)].running = s.running
<1> DEFINE q == Append(s.queued, m)
           t == [s EXCEPT !.queued = q]
<1>1. s \in State /\ s.queued \in Seq(Item) BY DEF Sound, State
<1>2. /\ q \in Seq(Item) /\ In(q) = In(s.queued) \cup {m}
      /\ Once(s.queued) /\ m \notin In(s.queued) => Once(q)
  BY <1>1, AppendOnce
<1> HIDE DEF q
<1>3. t \in State BY <1>1, <1>2 DEF State
<1>4. SameRest(s, t) /\ t.queued = q /\ t.fate = s.fate
  BY <1>1, <1>3 DEF State, SameRest, SameAsks
<1> HIDE DEF t
<1>5. Filed(t, {}) BY <1>2, <1>4 DEF Sound, Filed, SameRest
<1>6. Sound(t, {}) BY <1>4, <1>5, RefiledSound
<1>7. Keeps(s, t, {}) BY <1>4 DEF Keeps, SameRest, SameAsks
<1> QED BY <1>4, <1>6, <1>7 DEF SameRest, t, q

\* It takes the first one of its queue.
LEMMA TakenSound ==
    ASSUME NEW s, Sound(s, {}), s.queued # <<>>, NEW t, SameRest(s, t),
           t.queued = Tail(s.queued), t.fate = s.fate
    PROVE  /\ Head(s.queued) \in Item /\ Sound(t, {Head(s.queued)}) /\ Keeps(s, t, {})
           /\ Roomy(s) => Roomy(t)
<1>1. s \in State /\ s.queued \in Seq(Item) BY DEF Sound, State
<1> DEFINE m == Head(s.queued)
           q == Tail(s.queued)
<1>2. m \in Item /\ In(s.queued) = In(q) \cup {m} /\ (Once(s.queued) => Once(q) /\ m \notin In(q))
  BY <1>1, TailOnce
<1> HIDE DEF m, q
<1>3. t.queued = q BY DEF q
<1>4. Filed(t, {m}) BY <1>2, <1>3 DEF Sound, Filed, SameRest
<1>5. Sound(t, {m}) /\ (Roomy(s) => Roomy(t)) BY <1>4, RefiledSound
<1>6. Keeps(s, t, {}) BY DEF Keeps, SameRest, SameAsks
<1> QED BY <1>2, <1>5, <1>6 DEF m

\* start_turn, start_hooked_turn.
LEMMA StartHookedSound ==
    ASSUME NEW s, NEW m \in Item, Sound(s, {m}), s.worker = None, Roomy(s),
           NEW t \in StartHookedTurn(s, m)
    PROVE  Starts(s, t)
<1>0. s \in State /\ s.fate \in [Item -> {"new", "live", "recorded", "blocked", "returned"}]
  BY DEF Sound, State
<1> DEFINE r == [s EXCEPT !.retried = FALSE, !.fate[m] = "recorded"]
           b == [s EXCEPT !.fate[m] = "blocked"]
<1>1. /\ SameRest(s, r) /\ r.queued = s.queued /\ r.fate = [s.fate EXCEPT ![m] = "recorded"]
      /\ SameRest(s, b) /\ b.queued = s.queued /\ b.fate = [s.fate EXCEPT ![m] = "blocked"]
  <2>1. r \in State /\ b \in State BY <1>0 DEF State
  <2> QED BY <1>0, <2>1 DEF State, SameRest, SameAsks
<1>2. t \in Spawn(r) \/ t \in Mishaps(s, {b}) BY DEF StartHookedTurn, StartTurn
<1> HIDE DEF r, b
<1>3. Sound(r, {}) /\ Keeps(s, r, {}) /\ Roomy(r) /\ r.worker = None
  BY <1>1, FatedSound DEF SameRest
<1>4. Sound(b, {}) /\ Keeps(s, b, {}) /\ Roomy(b) BY <1>1, FatedSound
<1>5. CASE t \in Spawn(r)
  <2>1. Starts(r, t) BY <1>3, <1>5, SpawnSound
  <2> QED BY <1>3, <2>1 DEF Starts, Keeps
<1>6. CASE t \in Mishaps(s, {b})
  <2>1. b \in State BY <1>4 DEF Sound
  <2>2. Alike(b, t) BY <1>6, <2>1, MishapsAre
  <2>3. Sound(t, {}) /\ Keeps(b, t, {}) BY <1>4, <2>1, <2>2, AlikeSound
  <2>4. Roomy(t) BY <1>4, <2>2, ToldRoom DEF Alike
  <2> QED BY <1>4, <2>3, <2>4 DEF Starts, Keeps
<1> QED BY <1>2, <1>5, <1>6

\* submit_user_message.
LEMMA SubmitSound ==
    ASSUME NEW s, NEW m \in Item, Sound(s, {m}), s.running \/ Roomy(s), NEW t \in Submit(s, m)
    PROVE  Starts(s, t)
<1>1. CASE s.running
  <2>1. t = [s EXCEPT !.queued = Append(@, m)] BY <1>1 DEF Submit
  <2>2. Sound(t, {}) /\ Keeps(s, t, {}) /\ t.running = s.running BY <2>1, QueuedSound
  <2> QED BY <1>1, <2>2 DEF Starts
<1>2. CASE ~s.running
  <2>1. s.worker = None BY <1>2 DEF Sound, Working
  <2>2. t \in StartHookedTurn(s, m) BY <1>2 DEF Submit
  <2> QED BY <1>2, <2>1, <2>2, StartHookedSound
<1> QED BY <1>1, <1>2

\* restart_with_first.
LEMMA RestartSound ==
    ASSUME NEW s, Sound(s, {}), s.queued # <<>>, Roomy(s), NEW t \in RestartWithFirst(s)
    PROVE  Starts(s, t)
<1> DEFINE u == Stopped(s)
           v == [u EXCEPT !.queued = Tail(@)]
<1>1. /\ Sound(u, {}) /\ Keeps(s, u, {}) /\ u.worker = None /\ u.queued = s.steered \o s.queued
      /\ Roomy(u)
  BY StoppedSound
<1>2. t \in StartHookedTurn(v, Head(u.queued)) BY DEF RestartWithFirst
<1> HIDE DEF u
<1>3. u.queued # <<>>
  <2>1. s.steered \in Seq(Item) /\ s.queued \in Seq(Item) BY AgentTypes DEF Sound
  <2> QED BY <1>1, <2>1
<1>4. SameRest(u, v) /\ v.queued = Tail(u.queued) /\ v.fate = u.fate
  <2>1. u \in State /\ Tail(u.queued) \in Seq(Item) BY <1>1, <1>3 DEF Sound, State
  <2>2. v \in State BY <2>1 DEF State
  <2> QED BY <2>1, <2>2 DEF State, SameRest, SameAsks
<1> HIDE DEF v
<1>5. Head(u.queued) \in Item /\ Sound(v, {Head(u.queued)}) /\ Keeps(u, v, {}) /\ Roomy(v)
  BY <1>1, <1>3, <1>4, TakenSound
<1>6. Starts(v, t) BY <1>1, <1>2, <1>4, <1>5, StartHookedSound DEF SameRest
<1> QED BY <1>1, <1>5, <1>6 DEF Starts, Keeps

-----------------------------------------------------------------------------
(* Waiting agents get their answers *)

\* Those of A do: they start their call, go on without it, or end.
Answered(s, t, A) ==
    /\ t \in State /\ t.running = s.running /\ t.queued = s.queued /\ t.steered = s.steered
    /\ t.worker = s.worker /\ t.inbox = s.inbox /\ t.events = s.events
    /\ t.decided = s.decided /\ t.fate = s.fate
    /\ \A a \in Agent \ A : t.agent[a] = s.agent[a]
    /\ \A a \in A : \/ /\ t.agent[a].at \in {"tool", "top"} /\ t.agent[a].reads = s.agent[a].reads
                       /\ t.agent[a].stop = s.agent[a].stop
                    \/ t.agent[a] = Idle /\ s.agent[a].stop

Waiting(s) == {a \in Agent : s.agent[a].at = "asked"}

LEMMA GrantedIs ==
    ASSUME NEW s \in State, NEW A \in SUBSET Waiting(s)
    PROVE  /\ Answered(s, Granted(s, A), A) /\ SameAsks(s, Granted(s, A))
           /\ Granted(s, A).deferred = s.deferred
<1> DEFINE gone == {a \in A : s.agent[a].stop}
           B == A \ gone
           f == "at"
           v == "tool"
           t == Updated(s, B, f, v)
           b == [a \in Agent |-> IF a \in gone THEN Idle ELSE t.agent[a]]
           u == [t EXCEPT !.agent = b]
<1>1. Granted(s, A) = u BY DEF Granted
<1>2. Fits(f, v) BY DEF Fits, With, AgentState, Place
<1> HIDE DEF f, v
<1>3. /\ t \in State /\ SameBooks(s, t) /\ SameAsks(s, t)
      /\ \A a \in Agent : t.agent[a] = IF a \in B /\ s.agent[a].at # "off"
                                       THEN With(s.agent[a], f, v) ELSE s.agent[a]
  BY <1>2, UpdatedIs
<1> HIDE DEF t
<1>4. Idle \in AgentState
  <2>1. <<>> \in Seq(Item) OBVIOUS
  <2> QED BY <2>1 DEF Idle, AgentState, Place
<1>5. b \in [Agent -> AgentState] BY <1>3, <1>4, AgentTypes
<1>6. u \in State /\ u.agent = b BY <1>3, <1>5 DEF State
<1>7. SameBooks(t, u) /\ SameAsks(t, u) BY <1>3 DEF State, SameBooks, SameAsks
<1> HIDE DEF u
<1>8. \A a \in Agent \ A : u.agent[a] = s.agent[a] BY <1>3, <1>6
<1>9. ASSUME NEW a \in A
      PROVE \/ /\ u.agent[a].at \in {"tool", "top"} /\ u.agent[a].reads = s.agent[a].reads
               /\ u.agent[a].stop = s.agent[a].stop
            \/ u.agent[a] = Idle /\ s.agent[a].stop
  <2>1. a \in Agent /\ s.agent[a] \in AgentState /\ s.agent[a].at = "asked"
    BY AgentTypes DEF Waiting
  <2>2. CASE a \in gone BY <2>1, <2>2, <1>6
  <2>3. CASE a \notin gone
    <3>1. u.agent[a] = With(s.agent[a], f, v) BY <2>1, <2>3, <1>3, <1>6
    <3> QED BY <2>1, <3>1 DEF With, AgentState, f, v
  <2> QED BY <2>2, <2>3
<1>10. Answered(s, u, A) BY <1>3, <1>6, <1>7, <1>8, <1>9 DEF Answered, SameBooks
<1> QED BY <1>1, <1>3, <1>7, <1>10 DEF SameBooks, SameAsks

LEMMA RefusedIs ==
    ASSUME NEW s \in State, NEW A \in SUBSET Waiting(s)
    PROVE  /\ Answered(s, Refused(s, A), A) /\ SameAsks(s, Refused(s, A))
           /\ Refused(s, A).deferred = s.deferred
<1> DEFINE f == "at"
           v == "top"
           t == Updated(s, A, f, v)
           g == "call"
           u == Updated(t, A, g, None)
<1>1. Refused(s, A) = u BY DEF Refused
<1>2. Fits(f, v) BY DEF Fits, With, AgentState, Place
<1>3. Fits(g, None) BY DEF Fits, With, AgentState
<1> HIDE DEF f, v, g
<1>4. /\ t \in State /\ SameBooks(s, t) /\ SameAsks(s, t)
      /\ \A a \in Agent : t.agent[a] = IF a \in A /\ s.agent[a].at # "off"
                                       THEN With(s.agent[a], f, v) ELSE s.agent[a]
  BY <1>2, UpdatedIs
<1> HIDE DEF t
<1>5. /\ u \in State /\ SameBooks(t, u) /\ SameAsks(t, u)
      /\ \A a \in Agent : u.agent[a] = IF a \in A /\ t.agent[a].at # "off"
                                       THEN With(t.agent[a], g, None) ELSE t.agent[a]
  BY <1>3, <1>4, UpdatedIs
<1> HIDE DEF u
<1>6. \A a \in Agent \ A : u.agent[a] = s.agent[a] BY <1>4, <1>5
<1>7. ASSUME NEW a \in A
      PROVE  /\ u.agent[a].at = "top" /\ u.agent[a].reads = s.agent[a].reads
             /\ u.agent[a].stop = s.agent[a].stop
  <2>1. a \in Agent /\ s.agent[a] \in AgentState /\ s.agent[a].at = "asked"
    BY AgentTypes DEF Waiting
  <2>2. t.agent[a] = With(s.agent[a], f, v) BY <2>1, <1>4
  <2>3. /\ t.agent[a].at = "top" /\ t.agent[a].reads = s.agent[a].reads
        /\ t.agent[a].stop = s.agent[a].stop /\ t.agent[a] \in AgentState
    BY <2>1, <2>2, <1>4, AgentTypes DEF With, AgentState, f, v
  <2>4. u.agent[a] = With(t.agent[a], g, None) BY <2>1, <2>3, <1>5
  <2> QED BY <2>3, <2>4 DEF With, AgentState, g
<1>8. Answered(s, u, A) BY <1>4, <1>5, <1>6, <1>7 DEF Answered, SameBooks
<1> QED BY <1>1, <1>4, <1>5, <1>8 DEF SameBooks, SameAsks

LEMMA AnsweredTwice ==
    ASSUME NEW s, NEW t, NEW u, NEW A \in SUBSET Agent, NEW B \in SUBSET Agent, A \cap B = {},
           Answered(s, t, A), Answered(t, u, B)
    PROVE  Answered(s, u, A \cup B)
BY DEF Answered

\* Those who waited and got an answer are no longer waiting for one.
LEMMA AnsweredSound ==
    ASSUME NEW s, NEW M, Sound(s, M), NEW A \in SUBSET (s.asks \cup s.parked),
           NEW t, Answered(s, t, A), t.asks \cap t.parked = {},
           t.asks \cup t.parked = (s.asks \cup s.parked) \ A
    PROVE  Sound(t, M) /\ (Roomy(s) => Roomy(t))
<1>0. s \in State /\ s.asks \subseteq Agent /\ s.parked \subseteq Agent BY DEF Sound, State
<1>1. \A a \in A : a \in Agent /\ s.agent[a].at = "asked" BY <1>0 DEF Sound, Asking
<1>2. Idle.at = "off" /\ Idle.reads = <<>> BY DEF Idle
<1>3. s.worker # None => s.worker \in Agent /\ s.worker \in Worker
  BY <1>0, AgentTypes
<1>4. s.worker \in A => ~s.agent[s.worker].stop
  BY <1>1, <1>3, TurnAssumption DEF Sound, Working
<1>5. s.worker # None =>
        /\ t.agent[s.worker].reads = s.agent[s.worker].reads
        /\ t.agent[s.worker].stop = s.agent[s.worker].stop
        /\ t.agent[s.worker].at = "off" <=> s.agent[s.worker].at = "off"
  BY <1>1, <1>3, <1>4 DEF Answered
<1>6. Reading(t) = Reading(s) BY <1>5 DEF Answered, Reading
<1>7. Read(t) = Read(s) /\ HasEnded(t) = HasEnded(s) BY DEF Answered, Read, HasEnded
<1>8. Filed(t, M) BY DEF Sound, Filed, Answered
<1>9. Steering(t) BY <1>6, <1>7 DEF Sound, Steering, Answered
<1>10. Working(t)
  <2>1. ASSUME NEW w \in Worker, w # t.worker, t.agent[w].at # "off" PROVE t.agent[w].stop
    <3>1. w \in Agent BY DEF Agent
    <3>2. CASE w \in A BY <1>1, <1>2, <2>1, <3>1, <3>2 DEF Answered, Sound, Working
    <3>3. CASE w \notin A BY <2>1, <3>1, <3>3 DEF Answered, Sound, Working
    <3> QED BY <3>2, <3>3
  <2>2. /\ t.running <=> t.worker # None
        /\ t.worker = None => t.events = <<>>
    BY DEF Answered, Sound, Working
  <2>3. t.worker # None => \/ t.agent[t.worker].at # "off" /\ ~t.agent[t.worker].stop /\ ~HasEnded(t)
                           \/ t.agent[t.worker].at = "off" /\ HasEnded(t)
    BY <1>5, <1>7 DEF Answered, Sound, Working
  <2> QED BY <2>1, <2>2, <2>3 DEF Working
<1>11. Asking(t)
  <2>1. ASSUME NEW a \in Agent
        PROVE  /\ t.agent[a].at = "asked" => a \notin A /\ t.agent[a] = s.agent[a]
               /\ t.agent[a].at = "read" => a \notin A /\ t.agent[a] = s.agent[a]
    BY <1>2 DEF Answered
  <2>2. \A a \in t.asks \cup t.parked : t.agent[a] = s.agent[a] /\ a \in s.asks \cup s.parked
    BY <1>0 DEF Answered
  <2>3. \A a \in t.asks \cup t.parked : t.agent[a].at = "asked" BY <2>2 DEF Sound, Asking
  <2>4. t.worker # None /\ t.agent[t.worker].at = "asked" => t.worker \in t.asks \cup t.parked
    BY <1>3, <2>1 DEF Sound, Asking, Answered
  <2> QED BY <2>1, <2>3, <2>4 DEF Sound, Asking
<1>12. Roomy(s) => Roomy(t)
  <2>1. \A w \in Worker : w \in Agent BY DEF Agent
  <2>2. \A w \in Worker : s.agent[w].at = "off" => w \notin A BY <1>1
  <2> QED BY <2>1, <2>2 DEF Roomy, Answered
<1> QED BY <1>8, <1>9, <1>10, <1>11, <1>12 DEF Sound, Answered

LEMMA AnsweredThen ==
    ASSUME NEW s, NEW t, NEW u, NEW A \in SUBSET Agent,
           \/ Answered(s, t, {}) /\ Answered(t, u, A)
           \/ Answered(s, t, A) /\ Answered(t, u, {})
    PROVE  Answered(s, u, A)
<1>1. {} \in SUBSET Agent /\ {} \cup A = A /\ A \cup {} = A /\ {} \cap A = {} /\ A \cap {} = {}
  OBVIOUS
<1>2. CASE Answered(s, t, {}) /\ Answered(t, u, A)
  <2>1. Answered(s, u, {} \cup A) BY <1>1, <1>2, AnsweredTwice
  <2> QED BY <2>1, <1>1
<1>3. CASE Answered(s, t, A) /\ Answered(t, u, {})
  <2>1. Answered(s, u, A \cup {}) BY <1>1, <1>3, AnsweredTwice
  <2> QED BY <2>1, <1>1
<1> QED BY <1>2, <1>3

\* Calls are deferred: those that were not decided.
Defers(s, t) ==
    /\ s.deferred \subseteq t.deferred /\ t.decided = s.decided /\ t.fate = s.fate
    /\ \A c \in t.deferred : c \in s.deferred \/ s.decided[c] = "none"

LEMMA DeferredIs ==
    ASSUME NEW s \in State, NEW A \in SUBSET Waiting(s), \A a \in A : s.agent[a].call \in Call
    PROVE  /\ Answered(s, Deferred(s, A), A) /\ SameAsks(s, Deferred(s, A))
           /\ Defers(s, Deferred(s, A))
<1> DEFINE yes == {a \in A : s.decided[s.agent[a].call] = "allow"}
           new == {s.agent[a].call : a \in {b \in A : s.decided[s.agent[b].call] = "none"}}
           t == Granted(s, yes)
           u == Refused(t, A \ yes)
           v == [u EXCEPT !.deferred = @ \cup new]
<1>1. Deferred(s, A) = v BY DEF Deferred
<1>2. new \subseteq Call /\ \A c \in new : s.decided[c] = "none" OBVIOUS
<1>3. yes \in SUBSET Waiting(s) /\ A \subseteq Agent /\ yes \subseteq A BY DEF Waiting
<1> HIDE DEF new, yes
<1>4. Answered(s, t, yes) /\ SameAsks(s, t) /\ t.deferred = s.deferred BY <1>3, GrantedIs
<1> HIDE DEF t
<1>5. t \in State /\ A \ yes \in SUBSET Waiting(t)
  BY <1>3, <1>4 DEF Answered, Waiting
<1>6. Answered(t, u, A \ yes) /\ SameAsks(t, u) /\ u.deferred = t.deferred
  BY <1>5, RefusedIs
<1> HIDE DEF u
<1>7. Answered(s, u, A)
  <2>1. Answered(s, u, yes \cup (A \ yes))
    <3>1. yes \in SUBSET Agent /\ A \ yes \in SUBSET Agent /\ yes \cap (A \ yes) = {} BY <1>3
    <3> QED BY <3>1, <1>4, <1>6, AnsweredTwice
  <2>2. yes \cup (A \ yes) = A BY <1>3
  <2> QED BY <2>1, <2>2
<1>8. u \in State /\ u.deferred \subseteq Call BY <1>7 DEF Answered, State
<1>9. v \in State BY <1>2, <1>8 DEF State
<1>10. v.deferred = u.deferred \cup new /\ SameAsks(u, v) /\ Answered(u, v, {})
  BY <1>8, <1>9 DEF State, SameAsks, Answered
<1> HIDE DEF v
<1>11. Answered(s, v, A) BY <1>3, <1>7, <1>10, AnsweredThen
<1>12. Defers(s, v) BY <1>2, <1>4, <1>6, <1>10, <1>11 DEF Defers, Answered
<1> QED BY <1>1, <1>4, <1>6, <1>10, <1>11, <1>12 DEF SameAsks

\* poll_approval_requests.
LEMMA ApprovalsSound ==
    ASSUME NEW s, Sound(s, {}), Gated(s, attended, mode), OthersTyped
    PROVE  /\ Sound(Approvals(s), {}) /\ Defers(s, Approvals(s))
           /\ Gated(Approvals(s), attended, mode)
           /\ Approvals(s).running = s.running /\ (Roomy(s) => Roomy(Approvals(s)))
<1> DEFINE free == {a \in s.asks : \/ Tool(s.agent[a].call) \in allowed
                                   \/ ~Requires(mode, s.agent[a].call)}
           gated == s.asks \ free
           r == [s EXCEPT !.asks = {}]
           t == Granted(r, free)
           p == [t EXCEPT !.parked = @ \cup gated]
           d == Deferred(t, gated)
<1>0. s \in State /\ s.asks \subseteq Agent /\ s.parked \subseteq Agent BY DEF Sound, State
<1>1. Approvals(s) = IF attended THEN p ELSE d BY DEF Approvals
<1>2. \A a \in gated : Requires(mode, s.agent[a].call) OBVIOUS
<1>3. free \subseteq s.asks OBVIOUS
<1> HIDE DEF free
<1>4. s.asks \subseteq Waiting(s) /\ s.parked \subseteq Waiting(s) /\ s.asks \cap s.parked = {}
  BY <1>0 DEF Sound, Asking, Waiting
<1>5. /\ r \in State /\ r.asks = {} /\ r.parked = s.parked /\ r.deferred = s.deferred
      /\ Answered(s, r, {})
  <2>1. r \in State BY <1>0 DEF State
  <2> QED BY <1>0, <2>1 DEF State, Answered
<1> HIDE DEF r
<1>6. free \in SUBSET Waiting(r) BY <1>3, <1>4, <1>5 DEF Answered, Waiting
<1>7. Answered(r, t, free) /\ SameAsks(r, t) /\ t.deferred = r.deferred BY <1>5, <1>6, GrantedIs
<1> HIDE DEF t
<1>8. t \in State /\ Answered(s, t, free)
  <2>1. free \in SUBSET Agent BY <1>0, <1>3
  <2>2. Answered(s, t, free) BY <2>1, <1>5, <1>7, AnsweredThen
  <2> QED BY <2>2 DEF Answered
<1>9. \A a \in gated \cup s.parked : a \in Agent /\ t.agent[a] = s.agent[a] /\ a \notin free
  BY <1>0, <1>3, <1>4, <1>8 DEF Answered
<1>10. t.asks = {} /\ t.parked = s.parked BY <1>5, <1>7 DEF SameAsks
<1>11. CASE attended
  <2>1. p \in State BY <1>0, <1>8 DEF State
  <2>2. p.parked = s.parked \cup gated /\ p.asks = {} /\ p.deferred = t.deferred /\ Answered(t, p, {})
    BY <1>8, <1>10, <2>1 DEF State, Answered
  <2> HIDE DEF p
  <2>3. Answered(s, p, free)
    <3>1. free \in SUBSET Agent BY <1>0, <1>3
    <3> QED BY <3>1, <1>8, <2>2, AnsweredThen
  <2>4. p.asks \cup p.parked = (s.asks \cup s.parked) \ free BY <1>3, <1>4, <2>2
  <2>5. Sound(p, {}) /\ (Roomy(s) => Roomy(p))
    <3>1. free \in SUBSET (s.asks \cup s.parked) /\ p.asks \cap p.parked = {} BY <1>3, <2>2
    <3> QED BY <2>3, <2>4, <3>1, AnsweredSound
  <2>6. Defers(s, p) BY <1>5, <1>7, <2>2, <2>3 DEF Defers, Answered
  <2>7. Gated(p, attended, mode)
    <3>1. \A a \in p.parked : p.agent[a] = s.agent[a] BY <1>9, <2>2, <2>3 DEF Answered
    <3> QED BY <1>2, <1>11, <2>2, <3>1 DEF Gated
  <2>8. p.running = s.running BY <2>3 DEF Answered
  <2>9. Approvals(s) = p BY <1>1, <1>11
  <2> QED BY <2>5, <2>6, <2>7, <2>8, <2>9
<1>12. CASE ~attended
  <2>1. gated \in SUBSET Waiting(t) /\ \A a \in gated : t.agent[a].call \in Call
    BY <1>0, <1>4, <1>9 DEF Waiting, Sound, Asking
  <2>2. Answered(t, d, gated) /\ SameAsks(t, d) /\ Defers(t, d) BY <1>8, <2>1, DeferredIs
  <2> HIDE DEF d
  <2>3. Answered(s, d, s.asks)
    <3>1. free \cup gated = s.asks /\ free \cap gated = {} BY <1>3
    <3>2. free \in SUBSET Agent /\ gated \in SUBSET Agent BY <1>0, <1>3
    <3> HIDE DEF gated
    <3>3. Answered(s, d, free \cup gated) BY <3>1, <3>2, <1>8, <2>2, AnsweredTwice
    <3> QED BY <3>1, <3>3
  <2>4. s.parked = {} BY <1>12 DEF Gated
  <2>5. d.asks = {} /\ d.parked = {} BY <1>10, <2>2, <2>4 DEF SameAsks
  <2>6. Sound(d, {}) /\ (Roomy(s) => Roomy(d))
    <3>1. /\ s.asks \in SUBSET (s.asks \cup s.parked) /\ d.asks \cap d.parked = {}
          /\ d.asks \cup d.parked = (s.asks \cup s.parked) \ s.asks
      BY <2>4, <2>5
    <3> QED BY <2>3, <3>1, AnsweredSound
  <2>7. Defers(s, d) BY <1>5, <1>7, <1>8, <2>2 DEF Defers, Answered
  <2>8. Gated(d, attended, mode) BY <2>5 DEF Gated
  <2>9. d.running = s.running BY <2>3 DEF Answered
  <2>10. Approvals(s) = d BY <1>1, <1>12
  <2> QED BY <2>6, <2>7, <2>8, <2>9, <2>10
<1> QED BY <1>11, <1>12

-----------------------------------------------------------------------------
(* The worker's events *)

\* What the session has heard.
Hears(s, t) ==
    /\ t \in State /\ t.running = s.running /\ t.worker = s.worker /\ t.queued = s.queued
    /\ t.steered = Without(s.steered, Read(s)) /\ t.inbox = s.inbox /\ t.agent = s.agent
    /\ t.fate = [m \in Item |-> IF m \in Read(s) THEN "recorded" ELSE s.fate[m]]
    /\ t.events = <<>> /\ SameAsks(s, t) /\ t.deferred = s.deferred /\ t.decided = s.decided

LEMMA HeardIs ==
    ASSUME NEW s \in State
    PROVE  Hears(s, Heard(s, s.events))
<1> DEFINE es == s.events
           read == {es[i].m : i \in {j \in DOMAIN es : es[j].kind = "steered"}}
           answered == \E i \in DOMAIN es : es[i].kind = "response"
           f == [m \in Item |-> IF m \in read THEN "recorded" ELSE s.fate[m]]
           st == Without(s.steered, read)
           r == s.retried /\ ~answered
           t == [s EXCEPT !.steered = st, !.fate = f, !.retried = r, !.events = <<>>]
<1>1. read = Read(s)
  <2>1. es \in Seq(Event) BY DEF State
  <2>2. DOMAIN es = 1..Len(es) BY <2>1
  <2> QED BY <2>2 DEF Read
<1>2. Heard(s, es) = t BY DEF Heard
<1>3. st \in Seq(Item \ Images)
  <2>1. s.steered \in Seq(Item \ Images) BY DEF State
  <2> HIDE DEF read
  <2> QED BY <2>1, WithoutOnce
<1>4. r \in BOOLEAN BY DEF State
<1>5. f \in [Item -> {"new", "live", "recorded", "blocked", "returned"}] BY DEF State
<1>6. f = [m \in Item |-> IF m \in Read(s) THEN "recorded" ELSE s.fate[m]] BY <1>1
<1>7. st = Without(s.steered, Read(s)) BY <1>1
<1>8. <<>> \in Seq(Event) OBVIOUS
<1> HIDE DEF read, answered, f, st, r
<1>9. t \in State BY <1>3, <1>4, <1>5, <1>8 DEF State
<1>10. /\ t.running = s.running /\ t.worker = s.worker /\ t.queued = s.queued /\ t.steered = st
       /\ t.inbox = s.inbox /\ t.agent = s.agent /\ t.fate = f /\ t.events = <<>>
       /\ SameAsks(s, t) /\ t.deferred = s.deferred /\ t.decided = s.decided
  BY DEF State, SameAsks
<1> HIDE DEF t
<1> QED BY <1>2, <1>6, <1>7, <1>9, <1>10 DEF Hears

LEMMA HearsFiled ==
    ASSUME NEW s, Sound(s, {}), NEW t, Hears(s, t)
    PROVE  /\ Filed(t, {}) /\ Steering(t) /\ Asking(t) /\ Keeps(s, t, {})
           /\ Reading(t) = Reading(s) /\ Read(t) = {}
<1>1. s \in State /\ t \in State BY DEF Sound, Hears
<1>2. In(t.steered) = In(s.steered) \ Read(s) /\ (Once(s.steered) => Once(t.steered))
  <2>1. s.steered \in Seq(Item) BY <1>1, AgentTypes
  <2> QED BY <2>1, WithoutOnce DEF Hears
<1>3. \A m \in Item : t.fate[m] = IF m \in Read(s) THEN "recorded" ELSE s.fate[m] BY DEF Hears
<1>4. Read(s) \subseteq In(s.steered) BY DEF Sound, Steering
<1>5. In(s.steered) \subseteq Item /\ In(s.queued) \subseteq Item
  <2>1. s.steered \in Seq(Item) /\ s.queued \in Seq(Item) BY <1>1, AgentTypes
  <2> QED BY <2>1 DEF In
<1>6. Filed(t, {}) BY <1>2, <1>3, <1>4, <1>5 DEF Sound, Filed, Hears
<1>7. Reading(t) = Reading(s) /\ Read(t) = {} BY DEF Hears, Reading, Read
<1>8. Steering(t) BY <1>2, <1>7 DEF Sound, Steering, Hears
<1>9. Asking(t) BY DEF Sound, Asking, Hears, SameAsks
<1>10. Keeps(s, t, {})
  <2>1. \A m \in Item : s.fate[m] = "new" => m \notin Read(s) BY <1>4, <1>5 DEF Sound, Filed
  <2> QED BY <1>3, <2>1 DEF Keeps, Hears, SameAsks
<1> QED BY <1>6, <1>7, <1>8, <1>9, <1>10

\* The turn is over.
LEMMA EndedSound ==
    ASSUME NEW s \in State, Filed(s, {}), Asking(s), NEW met \in BOOLEAN,
           \A w \in Worker : s.agent[w].at # "off" => s.agent[w].stop
    PROVE  /\ Sound(Ended(s, met), {}) /\ Keeps(s, Ended(s, met), {})
           /\ Roomy(s) => Roomy(Ended(s, met))
<1> DEFINE c == Closed(s)
           q == Requeued(c)
           g == q.goal /\ ~met
           t == [q EXCEPT !.running = FALSE, !.worker = None, !.events = <<>>, !.going = FALSE,
                          !.goal = g]
<1>1. PICK A \in SUBSET Sub : c \in State /\ SameBooks(s, c) /\ SameAsks(s, c) /\ Told(s, c, A)
  BY ClosedIs
<1>2. Ended(s, met) = t BY DEF Ended
<1> HIDE DEF c
<1>3. /\ q \in State /\ SameAsks(c, q) /\ Told(c, q, {})
      /\ q.queued = c.steered \o c.queued /\ q.steered = <<>> /\ q.inbox = <<>>
      /\ q.deferred = c.deferred /\ q.decided = c.decided /\ q.fate = c.fate
  BY <1>1, RequeuedIs
<1> HIDE DEF q
<1>4. g \in BOOLEAN BY <1>3 DEF State
<1> HIDE DEF g
<1>5. t \in State
  <2>1. <<>> \in Seq(Event) OBVIOUS
  <2> QED BY <1>3, <1>4, <2>1 DEF State
<1>6. /\ ~t.running /\ t.worker = None /\ t.events = <<>>
      /\ t.queued = q.queued /\ t.steered = q.steered /\ t.inbox = q.inbox /\ t.fate = q.fate
      /\ t.deferred = q.deferred /\ t.decided = q.decided /\ SameAsks(q, t) /\ t.agent = q.agent
  BY <1>3 DEF State, SameAsks
<1> HIDE DEF t
<1>7. Told(s, t, A) BY <1>1, <1>3, <1>6 DEF Told, SameAgent
<1>8. Rests(s, t) BY <1>1, <1>3, <1>5, <1>6 DEF Rests, SameBooks, SameAsks
<1>9. Sound(t, {}) /\ Keeps(s, t, {}) BY <1>5, <1>7, <1>8, RestsSound
<1>10. Roomy(s) => Roomy(t) BY <1>7, ToldRoom
<1> QED BY <1>2, <1>9, <1>10

LEMMA AgainSound ==
    ASSUME NEW s \in State, Filed(s, {}), Steering(s), Asking(s), NEW midTurn \in BOOLEAN,
           \A w \in Worker : s.agent[w].at # "off" => s.agent[w].stop
    PROVE  /\ Sound(Again(s, midTurn), {}) /\ Keeps(s, Again(s, midTurn), {})
           /\ Roomy(s) => Roomy(Again(s, midTurn))
<1> DEFINE c == IF midTurn THEN s ELSE Closed(s)
           k == c.keep \/ midTurn
           t == [c EXCEPT !.keep = k, !.running = FALSE, !.worker = None, !.events = <<>>,
                          !.retried = TRUE, !.retry = TRUE, !.force = TRUE]
<1>1. PICK A \in SUBSET Sub : c \in State /\ SameBooks(s, c) /\ SameAsks(s, c) /\ Told(s, c, A)
  <2>1. CASE midTurn
    <3>1. {} \in SUBSET Sub /\ Told(s, s, {}) /\ c = s BY <2>1 DEF Told, SameAgent
    <3> QED BY <3>1 DEF SameBooks, SameAsks
  <2>2. CASE ~midTurn BY <2>2, ClosedIs
  <2> QED BY <2>1, <2>2
<1>2. Again(s, midTurn) = t BY DEF Again
<1> HIDE DEF c
<1>3. k \in BOOLEAN BY <1>1 DEF State
<1> HIDE DEF k
<1>4. t \in State
  <2>1. <<>> \in Seq(Event) OBVIOUS
  <2> QED BY <1>1, <1>3, <2>1 DEF State
<1>5. /\ ~t.running /\ t.worker = None /\ t.events = <<>>
      /\ t.queued = c.queued /\ t.steered = c.steered /\ t.inbox = c.inbox /\ t.fate = c.fate
      /\ t.deferred = c.deferred /\ t.decided = c.decided /\ SameAsks(c, t) /\ t.agent = c.agent
  BY <1>1 DEF State, SameAsks
<1> HIDE DEF t
<1>6. Told(s, t, A) BY <1>1, <1>5 DEF Told
<1>7. Filed(t, {}) BY <1>1, <1>5 DEF Filed, SameBooks
<1>8. Steering(t)
  <2>1. Reading(t) = <<>> /\ Read(t) = {} BY <1>5 DEF Reading, Read
  <2>2. In(<<>>) = {} /\ Once(<<>>) BY DEF In, Once
  <2> QED BY <1>1, <1>5, <2>1, <2>2 DEF Steering, SameBooks
<1>9. Working(t)
  <2>1. \A w \in Worker : w \in Agent BY DEF Agent
  <2> QED BY <1>5, <1>6, <2>1 DEF Working, Told, SameAgent
<1>10. s.asks \subseteq Agent /\ s.parked \subseteq Agent BY DEF State
<1>11. Asking(t) BY <1>1, <1>5, <1>6, <1>10 DEF Asking, SameAsks, Told, SameAgent
<1>12. Keeps(s, t, {})
  BY <1>1, <1>5, <1>6, <1>10 DEF Keeps, SameBooks, SameAsks, Told, SameAgent
<1>13. Roomy(s) => Roomy(t) BY <1>6, ToldRoom
<1> QED BY <1>2, <1>4, <1>7, <1>8, <1>9, <1>11, <1>12, <1>13 DEF Sound

LEMMA DrainedSound ==
    ASSUME NEW s, Sound(s, {}), Roomy(s), NEW folds \in BOOLEAN, NEW met \in BOOLEAN
    PROVE  Starts(s, Drained(s, folds, met)) /\ Roomy(Drained(s, folds, met))
<1> DEFINE t == Heard(s, s.events)
           end == IF s.events = <<>> THEN "none" ELSE Last(s.events).kind
           d == Drained(s, folds, met)
<1>0. s \in State BY DEF Sound
<1>1. Hears(s, t) BY <1>0, HeardIs
<1>2. /\ d = CASE end \in {"done", "error"} -> Ended(t, met)
               [] end = "mid-turn" -> Again(t, TRUE)
               [] end = "overflow" -> IF ~t.retried /\ folds THEN Again(t, FALSE)
                                      ELSE Ended(t, met)
               [] OTHER -> t
  BY DEF Drained
<1>3. HasEnded(s) <=> end \in Ends BY DEF HasEnded, Last, Ends
<1> HIDE DEF t, end, d
<1>4. /\ Filed(t, {}) /\ Steering(t) /\ Asking(t) /\ Keeps(s, t, {})
      /\ Reading(t) = Reading(s) /\ Read(t) = {}
  BY <1>1, HearsFiled
<1>5. t \in State /\ Roomy(t) BY <1>1 DEF Hears, Roomy
<1>6. CASE end \in Ends
  <2>1. HasEnded(s) BY <1>3, <1>6
  <2>2. \A w \in Worker : t.agent[w].at # "off" => t.agent[w].stop
    BY <1>1, <2>1 DEF Hears, Sound, Working, HasEnded
  <2>3. d = Ended(t, met) \/ \E midTurn \in BOOLEAN : d = Again(t, midTurn)
    BY <1>2, <1>6 DEF Ends
  <2>4. Sound(d, {}) /\ Keeps(t, d, {}) /\ Roomy(d)
    BY <2>2, <2>3, <1>4, <1>5, EndedSound, AgainSound
  <2>5. Keeps(s, d, {}) BY <1>4, <2>4 DEF Keeps
  <2> QED BY <2>4, <2>5 DEF Starts, d
<1>7. CASE end \notin Ends
  <2>1. d = t BY <1>2, <1>7 DEF Ends
  <2>2. ~HasEnded(s) /\ ~HasEnded(t) /\ t.events = <<>> BY <1>1, <1>3, <1>7 DEF Hears, HasEnded
  <2>3. Working(t) BY <1>1, <2>2 DEF Hears, Sound, Working
  <2>4. Sound(t, {}) BY <1>4, <1>5, <2>3 DEF Sound
  <2> QED BY <1>4, <1>5, <2>1, <2>4 DEF Starts, d
<1> QED BY <1>6, <1>7

-----------------------------------------------------------------------------
(* The outcomes of actions, one after the other *)

Tells(t, c) == Submit([t EXCEPT !.fate[c] = "live"], c)

News(n, T) == UNION {Tells(t, outcomes[n]) : t \in T}

TellingIs(s, f) ==
    f = [n \in 0..Len(outcomes) |-> IF n = 0 THEN {s} ELSE News(n, f[n - 1])]

\* t is s after the first n outcomes.
ToldOf(s, t, n) ==
    /\ Sound(t, {}) /\ Keeps(s, t, {outcomes[i] : i \in 1..n}) /\ (t.running \/ Roomy(t))

LEMMA TellsSound ==
    ASSUME NEW s, outcomes \in Seq(Call), Once(outcomes),
           \A c \in In(outcomes) : s.fate[c] = "new",
           NEW n \in 1..Len(outcomes), NEW t, ToldOf(s, t, n - 1), NEW u \in Tells(t, outcomes[n])
    PROVE  ToldOf(s, u, n)
<1> DEFINE c == outcomes[n]
           r == [t EXCEPT !.fate[c] = "live"]
           before == {outcomes[i] : i \in 1..(n - 1)}
<1>1. c \in Call /\ c \in Item /\ c \in In(outcomes) BY DEF Item, In
<1>2. c \notin before
  <2> SUFFICES ASSUME NEW i \in 1..(n - 1), outcomes[i] = c PROVE FALSE OBVIOUS
  <2>1. i \in 1..Len(outcomes) /\ i # n OBVIOUS
  <2> QED BY <2>1 DEF Once
<1>3. {outcomes[i] : i \in 1..n} = before \cup {c}
  <2>1. 1..n = 1..(n - 1) \cup {n} OBVIOUS
  <2> QED BY <2>1
<1>4. Sound(t, {}) /\ Keeps(s, t, before) /\ (t.running \/ Roomy(t)) BY DEF ToldOf
<1>5. u \in Submit(r, c) BY DEF Tells
<1> HIDE DEF c, before
<1>6. t.fate[c] = "new" BY <1>1, <1>2, <1>4 DEF Keeps
<1>7. /\ Sound(r, {c}) /\ Keeps(t, r, {c}) /\ (Roomy(t) => Roomy(r)) /\ r.running = t.running
  BY <1>1, <1>4, <1>6, HeldSound
<1> HIDE DEF r
<1>8. Starts(r, u) BY <1>1, <1>4, <1>5, <1>7, SubmitSound
<1>9. Keeps(s, u, before \cup {c}) BY <1>4, <1>7, <1>8 DEF Starts, Keeps
<1> QED BY <1>3, <1>8, <1>9 DEF ToldOf, Starts

LEMMA OutcomesSound ==
    ASSUME NEW s, Sound(s, {}), s.running \/ Roomy(s), outcomes \in Seq(Call), Once(outcomes),
           \A c \in In(outcomes) : s.fate[c] = "new", NEW t \in Outcomes(s)
    PROVE  Sound(t, {}) /\ Keeps(s, t, In(outcomes)) /\ (t.running \/ Roomy(t))
<1> DEFINE N == Len(outcomes)
           All(n) == {u \in State : ToldOf(s, u, n)}
<1>0. N \in Nat /\ s \in State BY DEF Sound
<1>1. ToldOf(s, s, 0)
  <2>1. {outcomes[i] : i \in 1..0} = {} OBVIOUS
  <2>2. Keeps(s, s, {}) BY DEF Keeps
  <2> QED BY <2>1, <2>2 DEF ToldOf
<1>2. ASSUME NEW n \in 1..N, NEW T, T \subseteq All(n - 1) PROVE News(n, T) \subseteq All(n)
  <2> SUFFICES ASSUME NEW v \in T, NEW u \in Tells(v, outcomes[n]) PROVE u \in All(n)
    BY DEF News
  <2>1. ToldOf(s, v, n - 1) BY <1>2
  <2>2. ToldOf(s, u, n) BY <2>1, TellsSound
  <2> QED BY <2>2 DEF ToldOf, Sound
\* Every set of states there is to compute is one of states.
<1> DEFINE h == [x \in (1..N) \X SUBSET State |-> News(x[1], x[2]) \cap State]
<1>3. h \in [(1..N) \X SUBSET State -> SUBSET State] OBVIOUS
<1>4. \A n \in 1..N, T \in SUBSET State : h[<<n, T>>] = News(n, T) \cap State OBVIOUS
<1> HIDE DEF h
<1>5. PICK g : Computes(g, N, SUBSET State, {s}, h)
  <2>1. {s} \in SUBSET State BY <1>0
  <2> HIDE DEF N
  <2> QED BY <1>0, <1>3, <2>1, Recursion
<1>6. /\ g \in [0..N -> SUBSET State] /\ g[0] = {s}
      /\ \A n \in 1..N : g[n] = h[<<n, g[n - 1]>>]
  BY <1>5 DEF Computes
<1>7. \A n \in 1..N : g[n] = News(n, g[n - 1]) \cap State
  <2> SUFFICES ASSUME NEW n \in 1..N PROVE g[n] = News(n, g[n - 1]) \cap State OBVIOUS
  <2>1. n - 1 \in 0..N OBVIOUS
  <2>2. g[n - 1] \in SUBSET State BY <1>6, <2>1
  <2> QED BY <1>4, <1>6, <2>2
<1> DEFINE P == {n \in Nat : n <= N => g[n] \subseteq All(n)}
<1>8. N \in P /\ \A n \in 0..N : g[n] \subseteq All(n)
  <2>1. 0 \in P BY <1>0, <1>1, <1>6
  <2>2. ASSUME NEW n \in Nat, n \in P PROVE n + 1 \in P
    <3> SUFFICES ASSUME n + 1 <= N PROVE g[n + 1] \subseteq All(n + 1) OBVIOUS
    <3>1. n + 1 \in 1..N /\ (n + 1) - 1 = n /\ n <= N BY <1>0
    <3>2. g[n] \subseteq All(n) BY <2>2, <3>1
    <3> HIDE DEF All
    <3>3. News(n + 1, g[n]) \subseteq All(n + 1) BY <1>2, <3>1, <3>2
    <3>4. g[n + 1] = News(n + 1, g[n]) \cap State BY <1>7, <3>1
    <3> QED BY <3>3, <3>4
  <2> HIDE DEF P
  <2>3. Nat \subseteq P BY <2>1, <2>2, Induction
  <2> QED BY <1>0, <2>3 DEF P
<1>9. TellingIs(s, g)
  <2> DEFINE G == [n \in 0..N |-> IF n = 0 THEN {s} ELSE News(n, g[n - 1])]
  <2>1. ASSUME NEW n \in 0..N PROVE g[n] = G[n]
    <3>1. CASE n = 0 BY <3>1, <1>6
    <3>2. CASE n # 0
      <4>1. n \in 1..N /\ n - 1 \in 0..N BY <3>2
      <4>2. g[n - 1] \subseteq All(n - 1) BY <1>8, <4>1
      <4> HIDE DEF All
      <4>3. News(n, g[n - 1]) \subseteq All(n) BY <1>2, <4>1, <4>2
      <4>4. News(n, g[n - 1]) \subseteq State BY <4>3 DEF All
      <4> QED BY <3>2, <4>1, <4>4, <1>7
    <3> QED BY <3>1, <3>2
  <2>2. g = [n \in 0..N |-> g[n]] BY <1>6
  <2>3. g = G BY <2>1, <2>2
  <2> QED BY <2>3 DEF TellingIs
<1> DEFINE f == CHOOSE u : TellingIs(s, u)
<1>10. TellingIs(s, f) BY <1>9
<1>11. Outcomes(s) = f[N] BY DEF Outcomes, TellingIs, News, Tells
<1> HIDE DEF f
<1>12. f[0] = {s} /\ \A n \in 1..N : f[n] = News(n, f[n - 1])
  <2> DEFINE G == [n \in 0..N |-> IF n = 0 THEN {s} ELSE News(n, f[n - 1])]
  <2>1. f = G BY <1>10 DEF TellingIs
  <2>2. G[0] = {s} /\ \A n \in 1..N : G[n] = News(n, f[n - 1]) BY <1>0
  <2> HIDE DEF G
  <2> QED BY <2>1, <2>2
<1> DEFINE Q == {n \in Nat : n <= N => f[n] \subseteq All(n)}
<1>13. f[N] \subseteq All(N)
  <2>1. 0 \in Q BY <1>0, <1>1, <1>12
  <2>2. ASSUME NEW n \in Nat, n \in Q PROVE n + 1 \in Q
    <3> SUFFICES ASSUME n + 1 <= N PROVE f[n + 1] \subseteq All(n + 1) OBVIOUS
    <3>1. n + 1 \in 1..N /\ (n + 1) - 1 = n /\ n <= N BY <1>0
    <3>2. f[n] \subseteq All(n) BY <2>2, <3>1
    <3> HIDE DEF All
    <3>3. News(n + 1, f[n]) \subseteq All(n + 1) BY <1>2, <3>1, <3>2
    <3> QED BY <1>12, <3>1, <3>3
  <2> HIDE DEF Q
  <2>3. Nat \subseteq Q BY <2>1, <2>2, Induction
  <2> QED BY <1>0, <2>3 DEF Q
<1>14. ToldOf(s, t, N) BY <1>11, <1>13
<1>15. {outcomes[i] : i \in 1..N} = In(outcomes) BY DEF In
<1> QED BY <1>14, <1>15 DEF ToldOf

\* What a poll does at its end.
LEMMA ContinuedSound ==
    ASSUME NEW s, Sound(s, {}), s.running \/ Roomy(s), NEW t \in Continued(s)
    PROVE  Sound(t, {}) /\ Keeps(s, t, {})
<1>0. s \in State BY DEF Sound
<1>1. CASE s.running
  <2>1. t = s BY <1>1 DEF Continued
  <2> QED BY <2>1 DEF Keeps
<1>2. CASE ~s.running /\ s.retry
  <2> DEFINE r == [s EXCEPT !.retry = FALSE]
  <2>1. t \in Spawn(r) BY <1>2 DEF Continued
  <2>2. Alike(s, r)
    <3>1. r \in State BY <1>0 DEF State
    <3> QED BY <1>0, <3>1 DEF State, Alike, SameBooks, SameAsks, Told, SameAgent
  <2> HIDE DEF r
  <2>3. Sound(r, {}) /\ Keeps(s, r, {}) BY <1>0, <2>2, AlikeSound
  <2>4. r.worker = None /\ Roomy(r)
    <3>1. Told(s, r, {}) /\ r.worker = s.worker BY <2>2 DEF Alike, SameBooks
    <3>2. Roomy(r) BY <1>2, <3>1, ToldRoom
    <3> QED BY <1>2, <3>1, <3>2 DEF Sound, Working
  <2>5. Starts(r, t) BY <2>1, <2>3, <2>4, SpawnSound
  <2> QED BY <2>3, <2>5 DEF Starts, Keeps
<1>3. CASE ~s.running /\ ~s.retry /\ s.queued # <<>>
  <2> DEFINE r == [s EXCEPT !.going = FALSE, !.queued = Tail(@)]
             m == Head(s.queued)
  <2>1. t \in StartHookedTurn(r, m) BY <1>3 DEF Continued
  <2>2. SameRest(s, r) /\ r.queued = Tail(s.queued) /\ r.fate = s.fate
    <3>1. s.queued \in Seq(Item) BY <1>0 DEF State
    <3>2. Tail(s.queued) \in Seq(Item) BY <1>3, <3>1
    <3>3. r \in State BY <1>0, <3>2 DEF State
    <3> QED BY <1>0, <3>3 DEF State, SameRest, SameAsks
  <2> HIDE DEF r
  <2>3. m \in Item /\ Sound(r, {m}) /\ Keeps(s, r, {}) /\ Roomy(r) BY <1>3, <2>2, TakenSound
  <2>4. r.worker = None BY <1>3, <2>2 DEF SameRest, Sound, Working
  <2>5. Starts(r, t) BY <2>1, <2>3, <2>4, StartHookedSound
  <2> QED BY <2>3, <2>5 DEF Starts, Keeps
<1>4. CASE ~s.running /\ ~s.retry /\ s.queued = <<>>
  <2> DEFINE r == [s EXCEPT !.going = TRUE]
  <2>1. t \in Spawn(r) \/ t = s BY <1>4 DEF Continued
  <2>2. CASE t = s BY <2>2 DEF Keeps
  <2>3. CASE t \in Spawn(r)
    <3>1. Alike(s, r)
      <4>1. r \in State BY <1>0 DEF State
      <4> QED BY <1>0, <4>1 DEF State, Alike, SameBooks, SameAsks, Told, SameAgent
    <3> HIDE DEF r
    <3>2. Sound(r, {}) /\ Keeps(s, r, {}) BY <1>0, <3>1, AlikeSound
    <3>3. r.worker = None /\ Roomy(r)
      <4>1. Told(s, r, {}) /\ r.worker = s.worker BY <3>1 DEF Alike, SameBooks
      <4>2. Roomy(r) BY <1>4, <4>1, ToldRoom
      <4> QED BY <1>4, <4>1, <4>2 DEF Sound, Working
    <3>4. Starts(r, t) BY <2>3, <3>2, <3>3, SpawnSound
    <3> QED BY <3>2, <3>4 DEF Starts, Keeps
  <2> QED BY <2>1, <2>2, <2>3
<1> QED BY <1>1, <1>2, <1>3, <1>4


-----------------------------------------------------------------------------
(* Each step of the engine preserves the invariant *)

\* A call put to the user was not decided before.
Stands == \A c \in Call : c \notin deferred /\ c \in deferred' => decided[c] = "none"

Holds == IInv' /\ Stands

LEMMA BecomesIs ==
    ASSUME NEW s \in State, Becomes(s)
    PROVE  Now' = s
BY DEF Becomes, Now, State

LEMMA NowIs ==
    ASSUME IInv
    PROVE  /\ Now \in State /\ Sound(Now, {})
           /\ Now.running = running /\ Now.queued = queued /\ Now.steered = steered
           /\ Now.worker = worker /\ Now.parked = parked /\ Now.deferred = deferred
           /\ Now.decided = decided /\ Now.agent = agent /\ Now.inbox = inbox
           /\ Now.events = events /\ Now.asks = asks /\ Now.fate = fate
           /\ Now.ops = ops /\ Now.mishaps = mishaps
           /\ Room <=> Roomy(Now)
BY DEF IInv, Sound, Now, Room, Roomy, Live

\* A step that leaves what is parked and deferred, and makes no call news.
LEMMA Carries ==
    ASSUME IInv, NEW t, Now' = t, NEW N, N \cap Call = {}, Sound(t, {}), Keeps(Now, t, N),
           UNCHANGED Others
    PROVE  Holds
<1>1. attended' = attended /\ mode' = mode /\ acting' = acting /\ outcomes' = outcomes
      /\ allowed' = allowed
  BY DEF Others
<1>2. Decided(t, acting, outcomes)
  <2>1. Decided(Now, acting, outcomes) /\ OthersTyped BY DEF IInv
  <2>2. t.deferred = Now.deferred /\ t.decided = Now.decided BY DEF Keeps
  <2>3. \A c \in Call : Now.fate[c] = "new" => t.fate[c] = "new" BY DEF Keeps, Item
  <2>4. \A c \in acting \cup In(outcomes) : c \in Call BY <2>1 DEF OthersTyped, In
  <2> QED BY <2>1, <2>2, <2>3, <2>4 DEF Decided
<1>3. Gated(t, attended, mode) BY DEF IInv, Gated, Keeps
<1>4. IInv' BY <1>1, <1>2, <1>3 DEF IInv, OthersTyped
<1>5. Stands
  <2>1. deferred' = t.deferred BY DEF Now
  <2>2. t.deferred = deferred BY NowIs DEF Keeps
  <2> QED BY <2>1, <2>2 DEF Stands
<1> QED BY <1>4, <1>5 DEF Holds

\* One of the engine's.
LEMMA Carried ==
    ASSUME IInv, NEW s, NEW N, N \cap Call = {}, Sound(s, {}), Keeps(Now, s, N), Becomes(s),
           UNCHANGED Others
    PROVE  Holds
<1>1. Now' = s BY BecomesIs DEF Sound
<1> QED BY <1>1, Carries

\* An op is counted.
LEMMA ThenIs ==
    ASSUME IInv
    PROVE  /\ Sound(Then, {}) /\ Keeps(Now, Then, {}) /\ Then \in State
           /\ Then.running = running /\ Then.worker = worker /\ Then.queued = queued
           /\ Then.agent = agent /\ Then.fate = fate /\ Then.parked = parked
           /\ Then.asks = asks /\ Then.deferred = deferred /\ Then.decided = decided
           /\ Room => Roomy(Then)
<1>1. Now \in State /\ Sound(Now, {}) BY NowIs
<1>2. Alike(Now, Then) BY <1>1, CountedAlike DEF Then
<1>3. Sound(Then, {}) /\ Keeps(Now, Then, {}) BY <1>1, <1>2, AlikeSound
<1>4. Then.fate = fate /\ Then.agent = agent /\ Then.parked = parked
      /\ Then.queued = queued /\ Then.running = running /\ Then.worker = worker
      /\ Then.asks = asks /\ Then.deferred = deferred /\ Then.decided = decided
  BY DEF Then, Now
<1>5. Room => Roomy(Then) BY <1>4 DEF Room, Roomy, Live
<1> QED BY <1>3, <1>4, <1>5 DEF Sound

LEMMA UserMessageKeeps ==
    ASSUME IInv, NEW m \in Msg, UserMessage(m)
    PROVE  Holds
<1> DEFINE r == [Now EXCEPT !.fate[m] = "live"]
<1>1. PICK s \in Submit(r, m) : Becomes(s) BY DEF UserMessage
<1>2. m \in Item /\ {m} \cap Call = {} BY TurnAssumption DEF Item
<1>3. Sound(Now, {}) /\ Now.fate[m] # "live" /\ Roomy(Now) BY NowIs DEF UserMessage
<1>4. Sound(r, {m}) /\ Keeps(Now, r, {m}) /\ Roomy(r) BY <1>2, <1>3, HeldSound
<1> HIDE DEF r
<1>5. Sound(s, {}) /\ Keeps(r, s, {}) BY <1>1, <1>2, <1>4, SubmitSound DEF Starts
<1>6. Keeps(Now, s, {m}) BY <1>4, <1>5 DEF Keeps
<1> QED BY <1>1, <1>2, <1>5, <1>6, Carried DEF UserMessage

LEMMA InterruptKeeps ==
    ASSUME IInv, Interrupt
    PROVE  Holds
<1>1. Sound(Then, {}) /\ Keeps(Now, Then, {}) BY ThenIs
<1> DEFINE s == Stopped(Then)
<1>2. Sound(s, {}) /\ Keeps(Then, s, {}) BY <1>1, StoppedSound
<1>3. Becomes(s) /\ UNCHANGED Others BY DEF Interrupt
<1> HIDE DEF s
<1>4. Keeps(Now, s, {}) BY <1>1, <1>2 DEF Keeps
<1> QED BY <1>2, <1>3, <1>4, Carried

\* The queue with its i-th message ahead of the others.
LEMMA FirstIs ==
    ASSUME IInv, NEW i \in DOMAIN queued
    PROVE  /\ First(i) \in Seq(Item) /\ First(i) # <<>> /\ In(First(i)) = In(queued)
           /\ Once(First(i)) /\ Head(First(i)) = queued[i]
<1>1. queued \in Seq(Item) /\ Once(queued) /\ i \in 1..Len(queued)
  BY NowIs DEF State, Sound, Filed
<1> DEFINE r == RemoveAt(queued, i)
           x == queued[i]
<1>2. r \in Seq(Item) /\ x \in Item /\ In(queued) = In(r) \cup {x} /\ Once(r) /\ x \notin In(r)
  BY <1>1, RemoveOnce
<1> HIDE DEF r, x
<1> DEFINE p == <<x>>
<1>3. p \in Seq(Item) /\ In(p) = {x} /\ Once(p) BY <1>2, OneOnce
<1>4. First(i) = p \o r BY DEF First, r, x
<1>5. Head(p \o r) = x /\ p \o r # <<>> BY <1>2
<1> HIDE DEF p
<1>6. p \o r \in Seq(Item) /\ In(p \o r) = {x} \cup In(r) /\ Once(p \o r)
  <2>1. In(p) \cap In(r) = {} BY <1>2, <1>3
  <2> QED BY <1>2, <1>3, <2>1, ConcatOnce
<1> QED BY <1>2, <1>4, <1>5, <1>6 DEF x

\* The queue in another order.
LEMMA SortedSound ==
    ASSUME NEW s, Sound(s, {}), NEW q \in Seq(Item), Once(q), In(q) = In(s.queued),
           NEW t, t = [s EXCEPT !.queued = q]
    PROVE  Sound(t, {}) /\ Keeps(s, t, {}) /\ (Roomy(s) => Roomy(t)) /\ t.queued = q
<1>1. s \in State BY DEF Sound
<1>2. t \in State BY <1>1 DEF State
<1>3. SameRest(s, t) /\ t.queued = q /\ t.fate = s.fate
  BY <1>1, <1>2 DEF State, SameRest, SameAsks
<1>4. Filed(t, {}) BY <1>3 DEF Sound, Filed, SameRest
<1>5. Keeps(s, t, {}) BY <1>3 DEF Keeps, SameRest, SameAsks
<1> QED BY <1>3, <1>4, <1>5, RefiledSound

LEMMA InterruptSendKeeps ==
    ASSUME IInv, NEW i \in DOMAIN queued, InterruptSend(i)
    PROVE  Holds
<1> DEFINE q == First(i)
           r == [Then EXCEPT !.queued = q]
<1>1. Sound(Then, {}) /\ Keeps(Now, Then, {}) /\ Then.queued = queued /\ Roomy(Then)
  BY ThenIs DEF InterruptSend
<1>2. q \in Seq(Item) /\ q # <<>> /\ In(q) = In(queued) /\ Once(q) BY FirstIs
<1>3. PICK s \in RestartWithFirst(r) : Becomes(s) BY DEF InterruptSend
<1> HIDE DEF q
<1>4. Sound(r, {}) /\ Keeps(Then, r, {}) /\ Roomy(r) /\ r.queued = q
  BY <1>1, <1>2, SortedSound
<1> HIDE DEF r
<1>5. Sound(s, {}) /\ Keeps(r, s, {}) BY <1>2, <1>3, <1>4, RestartSound DEF Starts
<1>6. Keeps(Now, s, {}) BY <1>1, <1>4, <1>5 DEF Keeps
<1>7. {} \cap Call = {} OBVIOUS
<1> QED BY <1>3, <1>5, <1>6, <1>7, Carried DEF InterruptSend

LEMMA UnqueueKeeps ==
    ASSUME IInv, NEW i \in DOMAIN queued, Unqueue(i)
    PROVE  Holds
<1> DEFINE m == queued[i]
           q == RemoveAt(queued, i)
           t == [Then EXCEPT !.queued = q, !.fate[m] = "returned"]
<1>1. Sound(Then, {}) /\ Keeps(Now, Then, {}) /\ Then.queued = queued /\ Then.fate = fate
      /\ Then \in State
  BY ThenIs
<1>2. queued \in Seq(Item) /\ i \in 1..Len(queued) BY NowIs DEF State
<1>3. /\ q \in Seq(Item) /\ m \in Item /\ In(queued) = In(q) \cup {m}
      /\ Once(queued) => Once(q) /\ m \notin In(q)
  BY <1>2, RemoveOnce
<1>4. Becomes(t) /\ UNCHANGED Others BY <1>1 DEF Unqueue
<1> HIDE DEF q, m
<1>5. fate \in [Item -> {"new", "live", "recorded", "blocked", "returned"}] BY <1>1 DEF State
<1>6. t \in State BY <1>1, <1>3, <1>5 DEF State
<1>7. SameRest(Then, t) /\ t.queued = q /\ t.fate = [fate EXCEPT ![m] = "returned"]
  BY <1>1, <1>6 DEF State, SameRest, SameAsks
<1> HIDE DEF t
<1>8. t.fate[m] = "returned" /\ \A n \in Item : n # m => t.fate[n] = fate[n] BY <1>3, <1>5, <1>7
<1>9. fate[m] = "live" /\ m \notin In(Then.steered)
  <2>1. m \in In(Then.queued) BY <1>1, <1>3
  <2> QED BY <1>1, <1>3, <2>1 DEF Sound, Filed
<1>10. Filed(t, {}) BY <1>1, <1>3, <1>7, <1>8, <1>9 DEF Sound, Filed, SameRest
<1>11. Sound(t, {}) BY <1>1, <1>7, <1>10, RefiledSound
<1>12. Keeps(Then, t, {}) BY <1>1, <1>7, <1>8, <1>9 DEF Keeps, SameRest, SameAsks
<1>13. Keeps(Now, t, {}) BY <1>1, <1>12 DEF Keeps
<1> QED BY <1>4, <1>11, <1>13, Carried

LEMMA QueueMoveKeeps ==
    ASSUME IInv, NEW i \in DOMAIN queued, NEW j \in DOMAIN queued, QueueMove(i, j)
    PROVE  Holds
<1> DEFINE m == queued[i]
           r == RemoveAt(queued, i)
           q == InsertAt(r, j, m)
           t == [Then EXCEPT !.queued = q]
<1>1. Sound(Then, {}) /\ Keeps(Now, Then, {}) /\ Then.queued = queued BY ThenIs
<1>2. queued \in Seq(Item) /\ i \in 1..Len(queued) /\ j \in 1..Len(queued) /\ Once(queued)
  BY NowIs DEF State, Sound, Filed
<1>3. /\ r \in Seq(Item) /\ m \in Item /\ In(queued) = In(r) \cup {m} /\ Once(r) /\ m \notin In(r)
      /\ Len(r) = Len(queued) - 1
  BY <1>2, RemoveOnce
<1>4. Becomes(t) /\ UNCHANGED Others BY <1>1 DEF QueueMove
<1> HIDE DEF m, r
<1>5. j \in 1..(Len(r) + 1) BY <1>2, <1>3
<1>6. q \in Seq(Item) /\ In(q) = In(r) \cup {m} /\ Once(q) BY <1>3, <1>5, InsertOnce
<1> HIDE DEF q
<1>7. Sound(t, {}) /\ Keeps(Then, t, {}) BY <1>1, <1>3, <1>6, SortedSound
<1> HIDE DEF t
<1>8. Keeps(Now, t, {}) BY <1>1, <1>7 DEF Keeps
<1> QED BY <1>4, <1>7, <1>8, Carried

LEMMA SetGoalKeeps ==
    ASSUME IInv, NEW b \in BOOLEAN, SetGoal(b)
    PROVE  Holds
<1> DEFINE t == [Then EXCEPT !.goal = b]
<1>1. Then \in State /\ Sound(Then, {}) /\ Keeps(Now, Then, {}) BY ThenIs
<1>2. Becomes(t) /\ UNCHANGED Others BY DEF SetGoal
<1>3. t \in State BY <1>1 DEF State
<1>4. Alike(Then, t) BY <1>1, <1>3 DEF State, Alike, SameBooks, SameAsks, Told, SameAgent
<1> HIDE DEF t
<1>5. Sound(t, {}) /\ Keeps(Then, t, {}) BY <1>1, <1>4, AlikeSound
<1>6. Keeps(Now, t, {}) BY <1>1, <1>5 DEF Keeps
<1> QED BY <1>2, <1>5, <1>6, Carried

LEMMA ContinueTurnKeeps ==
    ASSUME IInv, ContinueTurn
    PROVE  Holds
<1> DEFINE r == [Then EXCEPT !.retried = FALSE]
<1>1. Then \in State /\ Sound(Then, {}) /\ Keeps(Now, Then, {}) /\ Roomy(Then) /\ ~Then.running
  BY ThenIs DEF ContinueTurn
<1>2. PICK s \in Spawn(r) : Becomes(s) BY DEF ContinueTurn
<1>3. r \in State BY <1>1 DEF State
<1>4. Alike(Then, r) BY <1>1, <1>3 DEF State, Alike, SameBooks, SameAsks, Told, SameAgent
<1>5. r.worker = None /\ Roomy(r)
  BY <1>1, <1>4, ToldRoom DEF Sound, Working, Alike, SameBooks
<1> HIDE DEF r
<1>6. Sound(r, {}) /\ Keeps(Then, r, {}) BY <1>1, <1>4, AlikeSound
<1>7. Sound(s, {}) /\ Keeps(r, s, {}) BY <1>2, <1>5, <1>6, SpawnSound DEF Starts
<1>8. Keeps(Now, s, {}) BY <1>1, <1>6, <1>7 DEF Keeps
<1>9. {} \cap Call = {} OBVIOUS
<1> QED BY <1>2, <1>7, <1>8, <1>9, Carried DEF ContinueTurn

LEMMA CompactKeeps ==
    ASSUME IInv, Compact
    PROVE  Holds
<1> DEFINE w == CHOOSE w \in Worker : ~Live(w)
           x == [Idle EXCEPT !.at = "compact"]
           t == [Then EXCEPT !.agent[w] = x, !.worker = w, !.events = <<>>, !.running = TRUE,
                             !.going = FALSE]
<1>1. Then \in State /\ Sound(Then, {}) /\ Keeps(Now, Then, {}) /\ ~Then.running
      /\ Then.agent = agent
  BY ThenIs DEF Compact
<1>2. w \in Worker /\ agent[w].at = "off" BY DEF Compact, Room, Live
<1>3. Becomes(t) /\ UNCHANGED Others BY DEF Compact
<1> HIDE DEF w
<1>4. <<>> \in Seq(Item) /\ <<>> \in Seq(Event) OBVIOUS
<1>5. x \in AgentState /\ x.at = "compact" /\ ~x.stop /\ x.reads = <<>>
  BY <1>4 DEF Idle, AgentState, Place
<1> HIDE DEF x
<1>6. Then.agent \in [Agent -> AgentState] /\ w \in Agent BY <1>1, <1>2 DEF State, Agent
<1>7. [Then.agent EXCEPT ![w] = x] \in [Agent -> AgentState] BY <1>5, <1>6
<1>8. t \in State /\ t.agent = [Then.agent EXCEPT ![w] = x]
  BY <1>1, <1>2, <1>4, <1>7 DEF State
<1>9. /\ t.worker = w /\ t.events = <<>> /\ t.running /\ t.queued = Then.queued
      /\ t.steered = Then.steered /\ t.inbox = Then.inbox /\ t.deferred = Then.deferred
      /\ t.decided = Then.decided /\ t.fate = Then.fate /\ SameAsks(Then, t)
  BY <1>1 DEF State, SameAsks
<1> HIDE DEF t
<1>10. Then.worker = None BY <1>1 DEF Sound, Working
<1>11. Sound(t, {}) /\ Keeps(Then, t, {})
  BY <1>1, <1>2, <1>5, <1>8, <1>9, <1>10, StartedSound
<1>12. Keeps(Now, t, {}) BY <1>1, <1>11 DEF Keeps
<1> QED BY <1>3, <1>11, <1>12, Carried

\* steer: what is steered waits in the inbox of the turn's worker.
LEMMA SteeredSound ==
    ASSUME NEW s, NEW m \in Item \ Images, Sound(s, {m}), NEW t,
           t = [s EXCEPT !.inbox = Append(@, m), !.steered = Append(@, m)]
    PROVE  Sound(t, {}) /\ Keeps(s, t, {})
<1> DEFINE p == Append(s.inbox, m)
           q == Append(s.steered, m)
<1>1. s \in State /\ s.inbox \in Seq(Item \ Images) /\ s.steered \in Seq(Item \ Images)
  BY DEF Sound, State
<1>2. /\ p \in Seq(Item \ Images) /\ In(p) = In(s.inbox) \cup {m}
      /\ Once(s.inbox) /\ m \notin In(s.inbox) => Once(p)
  BY <1>1, AppendOnce
<1>3. /\ q \in Seq(Item \ Images) /\ In(q) = In(s.steered) \cup {m}
      /\ Once(s.steered) /\ m \notin In(s.steered) => Once(q)
  BY <1>1, AppendOnce
<1>4. t = [s EXCEPT !.inbox = p, !.steered = q] OBVIOUS
<1> HIDE DEF p, q
<1>5. t \in State
  <2> DEFINE u == [s EXCEPT !.inbox = p]
  <2>1. u \in State BY <1>1, <1>2 DEF State
  <2>2. t = [u EXCEPT !.steered = q] BY <1>4
  <2> HIDE DEF u
  <2>3. [u EXCEPT !.steered = q] \in State BY <1>3, <2>1 DEF State
  <2> QED BY <2>2, <2>3
<1>6. /\ t.running = s.running /\ t.queued = s.queued /\ t.worker = s.worker
      /\ t.steered = q /\ t.inbox = p /\ t.events = s.events /\ t.agent = s.agent
      /\ t.fate = s.fate /\ t.deferred = s.deferred /\ t.decided = s.decided /\ SameAsks(s, t)
  BY <1>1, <1>4 DEF State, SameAsks
<1>7. Reading(t) = Reading(s) /\ Read(t) = Read(s) /\ HasEnded(t) = HasEnded(s)
  BY <1>6 DEF Reading, Read, HasEnded
<1>8. m \notin In(s.queued) /\ m \notin In(s.steered) BY DEF Sound, Filed
<1>9. Filed(t, {}) BY <1>3, <1>6, <1>8 DEF Sound, Filed
<1>10. Steering(t)
  <2>1. /\ Once(s.inbox) /\ Once(Reading(s))
        /\ In(s.inbox) \subseteq In(s.steered) /\ In(Reading(s)) \subseteq In(s.steered)
        /\ Read(s) \subseteq In(s.steered) /\ In(s.inbox) \cap In(Reading(s)) = {}
        /\ Read(s) \cap In(s.inbox) = {} /\ Read(s) \cap In(Reading(s)) = {}
    BY DEF Sound, Steering
  <2>2. m \notin In(s.inbox) /\ m \notin In(Reading(s)) /\ m \notin Read(s) BY <1>8, <2>1
  <2>3. In(p) \cap In(Reading(s)) = {} /\ Read(s) \cap In(p) = {} BY <1>2, <2>1, <2>2
  <2>4. In(p) \cup In(Reading(s)) \cup Read(s) \subseteq In(q) BY <1>2, <1>3, <2>1
  <2>5. Once(p) BY <1>2, <2>1, <2>2
  <2> QED BY <1>6, <1>7, <2>1, <2>3, <2>4, <2>5 DEF Steering
<1>11. Working(t) BY <1>6, <1>7 DEF Sound, Working
<1>12. Asking(t) BY <1>6 DEF Sound, Asking, SameAsks
<1>13. Keeps(s, t, {}) BY <1>6 DEF Keeps, SameAsks
<1> QED BY <1>5, <1>9, <1>10, <1>11, <1>12, <1>13 DEF Sound

LEMMA SteerKeeps ==
    ASSUME IInv, NEW i \in DOMAIN queued, Steer(i)
    PROVE  Holds
<1> DEFINE q == First(i)
           r == [Then EXCEPT !.queued = q]
           rest == [r EXCEPT !.queued = Tail(@)]
           m == queued[i]
           x == [rest EXCEPT !.inbox = Append(@, m), !.steered = Append(@, m)]
           b == [rest EXCEPT !.fate[m] = "blocked"]
<1>1. Sound(Then, {}) /\ Keeps(Now, Then, {}) /\ Then.queued = queued /\ Roomy(Then)
  BY ThenIs DEF Steer
<1>2. q \in Seq(Item) /\ q # <<>> /\ In(q) = In(queued) /\ Once(q) /\ Head(q) = m BY FirstIs
<1>3. \/ m \in Images /\ \E t \in RestartWithFirst(r) : Becomes(t)
      \/ m \notin Images /\ Becomes(x)
      \/ \E t \in Mishaps(rest, {b}) : Becomes(t)
  BY DEF Steer
<1>4. UNCHANGED Others /\ {} \cap Call = {} BY DEF Steer
<1> HIDE DEF q, m
<1>5. Sound(r, {}) /\ Keeps(Then, r, {}) /\ Roomy(r) /\ r.queued = q
  BY <1>1, <1>2, SortedSound
<1> HIDE DEF r
<1>6. SameRest(r, rest) /\ rest.queued = Tail(r.queued) /\ rest.fate = r.fate
  <2>1. r \in State /\ Tail(r.queued) \in Seq(Item) BY <1>2, <1>5 DEF Sound
  <2>2. rest \in State BY <2>1 DEF State
  <2> QED BY <2>1, <2>2 DEF State, SameRest, SameAsks
<1> HIDE DEF rest
<1>7. m \in Item /\ Sound(rest, {m}) /\ Keeps(r, rest, {}) BY <1>2, <1>5, <1>6, TakenSound
<1>8. ASSUME NEW s, Sound(s, {}), Becomes(s), Keeps(r, s, {}) \/ Keeps(rest, s, {}) PROVE Holds
  <2>1. Keeps(Now, s, {}) BY <1>1, <1>5, <1>7, <1>8 DEF Keeps
  <2> QED BY <1>4, <1>8, <2>1, Carried
<1>9. CASE m \in Images /\ \E t \in RestartWithFirst(r) : Becomes(t)
  <2>1. PICK s \in RestartWithFirst(r) : Becomes(s) BY <1>9
  <2>2. Sound(s, {}) /\ Keeps(r, s, {}) BY <1>2, <1>5, <2>1, RestartSound DEF Starts
  <2> QED BY <1>8, <2>1, <2>2
<1>10. CASE m \notin Images /\ Becomes(x)
  <2>1. Sound(x, {}) /\ Keeps(rest, x, {}) BY <1>7, <1>10, SteeredSound
  <2> QED BY <1>8, <1>10, <2>1
<1>11. CASE \E t \in Mishaps(rest, {b}) : Becomes(t)
  <2>1. PICK s \in Mishaps(rest, {b}) : Becomes(s) BY <1>11
  <2>2. rest \in State /\ rest.fate \in [Item -> {"new", "live", "recorded", "blocked", "returned"}]
    BY <1>7 DEF Sound, State
  <2>3. SameRest(rest, b) /\ b.queued = rest.queued /\ b.fate = [rest.fate EXCEPT ![m] = "blocked"]
    <3>1. b \in State BY <2>2 DEF State
    <3> QED BY <2>2, <3>1 DEF State, SameRest, SameAsks
  <2> HIDE DEF b
  <2>4. Sound(b, {}) /\ Keeps(rest, b, {}) BY <1>7, <2>3, FatedSound
  <2>5. b \in State BY <2>4 DEF Sound
  <2>6. Alike(b, s) BY <2>1, <2>5, MishapsAre
  <2>7. Sound(s, {}) /\ Keeps(b, s, {}) BY <2>4, <2>5, <2>6, AlikeSound
  <2>8. Keeps(rest, s, {}) BY <2>4, <2>7 DEF Keeps
  <2> QED BY <1>8, <2>1, <2>7, <2>8
<1> QED BY <1>3, <1>9, <1>10, <1>11

-----------------------------------------------------------------------------
(* Answers *)

Leaves(s, r, A) == r = [s EXCEPT !.parked = @ \ A]

Unparks(s, t, A) ==
    /\ Sound(t, {}) /\ t.parked = s.parked \ A /\ t.decided = s.decided /\ t.fate = s.fate
    /\ \A a \in t.parked : t.agent[a] = s.agent[a]

\* Some of the parked calls are answered, and leave.
LEMMA UnparkedSound ==
    ASSUME NEW s, Sound(s, {}), NEW A \in SUBSET s.parked, NEW r, Leaves(s, r, A),
           NEW t, Answered(r, t, A), SameAsks(r, t)
    PROVE  Unparks(s, t, A)
<1>1. s \in State /\ s.parked \subseteq Agent /\ s.asks \subseteq Agent BY DEF Sound, State
<1>2. s.asks \cap s.parked = {} BY DEF Sound, Asking
<1>3. r \in State BY <1>1 DEF State, Leaves
<1>4. r.parked = s.parked \ A /\ r.asks = s.asks /\ Answered(s, r, {})
  BY <1>1, <1>3 DEF State, Answered, Leaves
<1>5. A \in SUBSET Agent /\ A \in SUBSET (s.asks \cup s.parked) BY <1>1
<1>6. Answered(s, t, A) BY <1>4, <1>5, AnsweredThen
<1>7. t.parked = s.parked \ A /\ t.asks = s.asks BY <1>4 DEF SameAsks
<1>8. t.asks \cap t.parked = {} /\ t.asks \cup t.parked = (s.asks \cup s.parked) \ A
  BY <1>2, <1>7
<1>9. Sound(t, {}) BY <1>5, <1>6, <1>8, AnsweredSound
<1>10. \A a \in t.parked : a \in Agent \ A BY <1>1, <1>7
<1> QED BY <1>4, <1>6, <1>7, <1>9, <1>10 DEF Answered, Unparks

\* Parked calls that leave disturb what is parked no more than that.
LEMMA ParkedWait ==
    ASSUME NEW s, Sound(s, {}), NEW A \in SUBSET s.parked, NEW r, Leaves(s, r, A)
    PROVE  /\ r \in State /\ A \in SUBSET Waiting(r) /\ r.deferred = s.deferred
           /\ r.decided = s.decided /\ r.fate = s.fate /\ r.agent = s.agent
           /\ \A a \in A : r.agent[a].call \in Call
<1>1. s \in State /\ s.parked \subseteq Agent BY DEF Sound, State
<1>2. r \in State BY <1>1 DEF State, Leaves
<1>3. r.agent = s.agent /\ r.deferred = s.deferred /\ r.decided = s.decided /\ r.fate = s.fate
  BY <1>1 DEF State, Leaves
<1>4. \A a \in A : a \in Agent /\ s.agent[a].at = "asked" /\ s.agent[a].call \in Call
  BY <1>1 DEF Sound, Asking
<1> QED BY <1>2, <1>3, <1>4 DEF Waiting

\* What follows once parked calls were answered, from what the engine does besides.
LEMMA AnswersHold ==
    ASSUME IInv, NEW s, s \in {Now, Then}, NEW A \in SUBSET parked, NEW r,
           Leaves(s, r, A), NEW t, Answered(r, t, A), SameAsks(r, t), Defers(r, t),
           Becomes(t), outcomes' = outcomes, acting' = acting, mode' \in Modes,
           attended' \in BOOLEAN, allowed' \subseteq {"shell", "edit"},
           \A a \in parked \ A : attended' /\ Requires(mode', agent[a].call)
    PROVE  Holds
<1>1. /\ Sound(s, {}) /\ s.parked = parked /\ s.agent = agent /\ s.deferred = deferred
      /\ s.decided = decided /\ s.fate = fate
  <2>1. CASE s = Now BY <2>1, NowIs
  <2>2. CASE s = Then BY <2>2, ThenIs
  <2> QED BY <2>1, <2>2
<1>2. r.deferred = deferred /\ r.decided = decided /\ r.fate = fate BY <1>1, ParkedWait
<1>3. /\ Sound(t, {}) /\ t.parked = parked \ A /\ t.decided = decided /\ t.fate = fate
      /\ \A a \in t.parked : t.agent[a] = agent[a]
  <2>1. A \in SUBSET s.parked BY <1>1
  <2>2. Unparks(s, t, A) BY <1>1, <2>1, UnparkedSound
  <2> QED BY <1>1, <2>2 DEF Unparks
<1>4. Now' = t BY <1>3, BecomesIs DEF Sound
<1>5. \A c \in t.deferred : c \in deferred \/ decided[c] = "none" BY <1>2 DEF Defers
<1>6. Decided(t, acting, outcomes)
  <2>1. Decided(Now, acting, outcomes) BY DEF IInv
  <2> QED BY <1>1, <1>3, <1>5, <2>1, NowIs DEF Decided
<1>7. Gated(t, attended', mode') BY <1>3 DEF Gated
<1>8. IInv' BY <1>3, <1>4, <1>6, <1>7 DEF IInv, OthersTyped
<1>9. Stands
  <2>1. deferred' = t.deferred BY <1>4 DEF Now
  <2> QED BY <1>5, <2>1 DEF Stands
<1> QED BY <1>8, <1>9 DEF Holds

\* The call a parked agent waits for is parked with it.
LEMMA ParkedIs ==
    ASSUME IInv
    PROVE  /\ \A a \in parked : a \in Agent /\ agent[a].call \in Call
                                /\ attended /\ Requires(mode, agent[a].call)
           /\ attended \in BOOLEAN /\ mode \in Modes /\ allowed \subseteq {"shell", "edit"}
<1>1. Now.parked \subseteq Agent BY NowIs DEF State
<1>2. \A a \in Now.parked : Now.agent[a].at = "asked" BY NowIs DEF Sound, Asking
<1>3. \A a \in Now.parked : Now.agent[a].call \in Call BY <1>1, <1>2, NowIs DEF Sound, Asking
<1> QED BY <1>1, <1>3, NowIs DEF IInv, OthersTyped, Gated

LEMMA ApproveKeeps ==
    ASSUME IInv, NEW a \in Agent, NEW allow \in BOOLEAN, NEW always \in BOOLEAN,
           Approve(a, allow, always)
    PROVE  Holds
<1> DEFINE s == IF always THEN Then ELSE Now
           A == {a}
           r == [s EXCEPT !.parked = @ \ A]
           t == IF allow THEN Granted(r, A) ELSE Refused(r, A)
<1>1. a \in parked /\ Becomes(t) /\ UNCHANGED <<mode, attended, outcomes, acting>>
  BY DEF Approve
<1>2. allowed' \subseteq {"shell", "edit"} BY ParkedIs DEF Approve, Tool
<1>3. s \in {Now, Then} /\ A \in SUBSET parked BY <1>1
<1>4. Sound(s, {}) /\ s.parked = parked BY NowIs, ThenIs
<1> HIDE DEF s, A
<1>5. Leaves(s, r, A) BY DEF Leaves
<1> HIDE DEF r
<1>6. r \in State /\ A \in SUBSET Waiting(r)
  <2>1. A \in SUBSET s.parked BY <1>3, <1>4
  <2> QED BY <1>4, <1>5, <2>1, ParkedWait
<1>7. Answered(r, t, A) /\ SameAsks(r, t) /\ t.deferred = r.deferred
  BY <1>6, GrantedIs, RefusedIs
<1>8. t.decided = r.decided /\ t.fate = r.fate BY <1>7 DEF Answered
<1> HIDE DEF t
<1>9. Defers(r, t) BY <1>7, <1>8 DEF Defers
<1>10. \A b \in parked \ A : attended' /\ Requires(mode', agent[b].call) BY <1>1, ParkedIs
<1>11. mode' \in Modes /\ attended' \in BOOLEAN BY <1>1, ParkedIs
<1> QED BY <1>1, <1>2, <1>3, <1>5, <1>7, <1>9, <1>10, <1>11, AnswersHold

LEMMA SetApprovalModeKeeps ==
    ASSUME IInv, NEW m \in Modes, SetApprovalMode(m)
    PROVE  Holds
<1> DEFINE A == {a \in parked : ~Requires(m, agent[a].call)}
           r == [Then EXCEPT !.parked = @ \ A]
           t == Granted(r, A)
<1>1. Becomes(t) /\ UNCHANGED <<attended, allowed, outcomes, acting>> /\ mode' = m
  BY DEF SetApprovalMode
<1>2. \A b \in parked \ A : attended' /\ Requires(mode', agent[b].call) BY <1>1, ParkedIs
<1>3. A \in SUBSET parked OBVIOUS
<1> HIDE DEF A
<1>4. Leaves(Then, r, A) BY DEF Leaves
<1> HIDE DEF r
<1>5. r \in State /\ A \in SUBSET Waiting(r) BY <1>3, <1>4, ThenIs, ParkedWait
<1>6. Answered(r, t, A) /\ SameAsks(r, t) /\ t.deferred = r.deferred BY <1>5, GrantedIs
<1>7. t.decided = r.decided /\ t.fate = r.fate BY <1>6 DEF Answered
<1> HIDE DEF t
<1>8. Defers(r, t) BY <1>6, <1>7 DEF Defers
<1>9. mode' \in Modes /\ attended' \in BOOLEAN /\ allowed' \subseteq {"shell", "edit"}
  BY <1>1, ParkedIs
<1>10. Then \in {Now, Then} /\ outcomes' = outcomes /\ acting' = acting BY <1>1
<1> QED BY <1>1, <1>2, <1>3, <1>4, <1>6, <1>8, <1>9, <1>10, AnswersHold

LEMMA SetAttendedKeeps ==
    ASSUME IInv, NEW b \in BOOLEAN, SetAttended(b)
    PROVE  Holds
<1>1. b # attended /\ attended' = b /\ UNCHANGED <<mode, allowed, outcomes, acting>>
  BY DEF SetAttended
<1>2. mode' \in Modes /\ attended' \in BOOLEAN /\ allowed' \subseteq {"shell", "edit"}
  BY <1>1, ParkedIs
<1>3. CASE b
  <2>1. Becomes(Now) BY <1>3 DEF SetAttended
  <2>2. parked = {} BY <1>1, <1>3, ParkedIs
  <2>3. Now' = Now BY <2>1, NowIs, BecomesIs
  <2>4. Gated(Now, attended', mode') BY <2>2, NowIs DEF Gated
  <2>5. IInv' BY <1>1, <1>2, <2>3, <2>4 DEF IInv, OthersTyped
  <2>6. Stands BY <2>1 DEF Stands, Becomes, Now
  <2> QED BY <2>5, <2>6 DEF Holds
<1>4. CASE ~b
  <2> DEFINE A == parked
             r == [Then EXCEPT !.parked = @ \ A]
             t == Deferred(r, A)
  <2>1. r = [Then EXCEPT !.parked = {}]
    <3>1. Then.parked = parked BY ThenIs
    <3> QED BY <3>1
  <2>2. Becomes(t) BY <1>4, <2>1 DEF SetAttended
  <2>3. A \in SUBSET parked OBVIOUS
  <2>4. \A a \in parked \ A : attended' /\ Requires(mode', agent[a].call) OBVIOUS
  <2> HIDE DEF A
  <2>5. Leaves(Then, r, A) BY DEF Leaves
  <2> HIDE DEF r
  <2>6. r \in State /\ A \in SUBSET Waiting(r) /\ \A a \in A : r.agent[a].call \in Call
    BY <2>3, <2>5, ThenIs, ParkedWait
  <2>7. Answered(r, t, A) /\ SameAsks(r, t) /\ Defers(r, t) BY <2>6, DeferredIs
  <2> HIDE DEF t
  <2>8. Then \in {Now, Then} /\ outcomes' = outcomes /\ acting' = acting BY <1>1
  <2> QED BY <1>2, <2>2, <2>3, <2>4, <2>5, <2>7, <2>8, AnswersHold
<1> QED BY <1>3, <1>4

-----------------------------------------------------------------------------
(* Deferred actions, and polling *)

LEMMA DecideActionKeeps ==
    ASSUME IInv, NEW c \in Call, NEW allow \in BOOLEAN, DecideAction(c, allow)
    PROVE  Holds
<1> DEFINE v == IF allow THEN "allow" ELSE "deny"
           D == deferred \ {c}
           d == [decided EXCEPT ![c] = v]
           s == [Now EXCEPT !.deferred = D, !.decided = d]
           r == [s EXCEPT !.fate[c] = "live"]
<1>1. /\ c \in deferred /\ Room /\ UNCHANGED <<mode, attended, allowed, outcomes>>
      /\ acting' = IF allow THEN acting \cup {c} ELSE acting
      /\ allow => Becomes(s)
      /\ ~allow => \E t \in Submit(r, c) : Becomes(t)
  BY NowIs DEF DecideAction
<1>2. Now \in State /\ Sound(Now, {}) /\ Decided(Now, acting, outcomes) /\ OthersTyped
      /\ decided \in [Call -> {"none", "allow", "deny"}] /\ Roomy(Now)
  BY <1>1, NowIs DEF IInv, State
<1>3. /\ c \in Call /\ c \in Item /\ decided[c] = "none" /\ fate[c] = "new"
      /\ c \notin acting \cup In(outcomes)
  BY <1>1, <1>2, NowIs DEF Decided, Item
<1>4. /\ d \in [Call -> {"none", "allow", "deny"}] /\ d[c] # "none"
      /\ \A e \in Call : e # c => d[e] = decided[e]
  BY <1>2
<1>5. D \subseteq Call /\ D \subseteq deferred /\ c \notin D BY <1>2, NowIs DEF State
<1> HIDE DEF d, D
<1>6. s \in State BY <1>2, <1>4, <1>5 DEF State
<1>7. /\ s.running = running /\ s.queued = queued /\ s.steered = steered /\ s.worker = worker
      /\ s.inbox = inbox /\ s.events = events /\ s.agent = agent /\ s.fate = fate
      /\ s.parked = parked /\ s.asks = asks /\ s.deferred = D /\ s.decided = d
  BY DEF Now
<1> HIDE DEF s
<1>8. Sound(s, {}) /\ Roomy(s)
  <2>1. Reading(s) = Reading(Now) /\ Read(s) = Read(Now) /\ HasEnded(s) = HasEnded(Now)
    BY <1>7, NowIs DEF Reading, Read, HasEnded
  <2>2. Filed(s, {}) BY <1>2, <1>7, NowIs DEF Sound, Filed
  <2>3. Steering(s) BY <1>2, <1>7, <2>1, NowIs DEF Sound, Steering
  <2>4. Working(s) BY <1>2, <1>7, <2>1, NowIs DEF Sound, Working
  <2>5. Asking(s) BY <1>2, <1>7, NowIs DEF Sound, Asking
  <2>6. Roomy(s) BY <1>2, <1>7, NowIs DEF Roomy
  <2> QED BY <1>6, <2>2, <2>3, <2>4, <2>5, <2>6 DEF Sound
\* The rest is the same for both answers.
<1>9. ASSUME NEW t, NEW N, Sound(t, {}), Keeps(s, t, N), N \subseteq {c}, Becomes(t),
             N # {} => ~allow
      PROVE  Holds
  <2>1. t.parked \subseteq parked /\ \A a \in t.parked : t.agent[a].call = agent[a].call
    BY <1>7, <1>9 DEF Keeps
  <2>2. t.deferred = D /\ t.decided = d BY <1>7, <1>9 DEF Keeps
  <2>3. \A m \in Item : fate[m] = "new" /\ m \notin N => t.fate[m] = "new"
    BY <1>7, <1>9 DEF Keeps
  <2>4. Now' = t BY <1>9, BecomesIs DEF Sound
  <2>5. Gated(t, attended', mode')
    <3>1. attended' = attended /\ mode' = mode BY <1>1
    <3> QED BY <2>1, <3>1, NowIs DEF IInv, Gated
  <2>6. Decided(t, acting', outcomes')
    <3>1. /\ \A e \in deferred : decided[e] = "none"
          /\ \A e \in Call : decided[e] = "none" => fate[e] = "new"
          /\ \A e \in acting \cup In(outcomes) : decided[e] # "none" /\ fate[e] = "new"
          /\ Once(outcomes) /\ acting \cap In(outcomes) = {}
      BY <1>2, NowIs DEF Decided
    <3>2. \A e \in acting \cup In(outcomes) : e \in Call /\ e \in Item /\ e # c
      BY <1>2, <1>3 DEF OthersTyped, In, Item
    <3>3. \A e \in t.deferred : t.decided[e] = "none" BY <1>4, <1>5, <2>2, <3>1
    <3>4. \A e \in Call : t.decided[e] = "none" => t.fate[e] = "new"
      BY <1>4, <1>9, <2>2, <2>3, <3>1 DEF Item
    <3>5. \A e \in acting \cup In(outcomes) : t.decided[e] # "none" /\ t.fate[e] = "new"
      BY <1>4, <1>9, <2>2, <2>3, <3>1, <3>2
    <3>6. allow => t.decided[c] # "none" /\ t.fate[c] = "new"
      BY <1>3, <1>4, <1>9, <2>2, <2>3
    <3>7. outcomes' = outcomes /\ acting' = IF allow THEN acting \cup {c} ELSE acting BY <1>1
    <3> QED BY <1>3, <3>1, <3>3, <3>4, <3>5, <3>6, <3>7 DEF Decided
  <2>7. OthersTyped' BY <1>1, <1>2 DEF OthersTyped
  <2>8. IInv' BY <1>9, <2>4, <2>5, <2>6, <2>7 DEF IInv
  <2>9. deferred' = D BY <2>2, <2>4 DEF Now
  <2> QED BY <1>5, <2>8, <2>9 DEF Holds, Stands
<1>10. CASE allow
  <2>1. Keeps(s, s, {}) BY DEF Keeps
  <2>2. {} \subseteq {c} OBVIOUS
  <2>3. Becomes(s) BY <1>1, <1>10
  <2> QED BY <1>8, <1>9, <2>1, <2>2, <2>3
<1>11. CASE ~allow
  <2>1. PICK t \in Submit(r, c) : Becomes(t) BY <1>1, <1>11
  <2>2. s.fate[c] # "live" BY <1>3, <1>7
  <2>3. Sound(r, {c}) /\ Keeps(s, r, {c}) /\ Roomy(r) BY <1>3, <1>8, <2>2, HeldSound
  <2> HIDE DEF r
  <2>4. Sound(t, {}) /\ Keeps(r, t, {}) BY <1>3, <2>1, <2>3, SubmitSound DEF Starts
  <2>5. Keeps(s, t, {c}) BY <2>3, <2>4 DEF Keeps
  <2>6. {c} \subseteq {c} OBVIOUS
  <2> QED BY <1>9, <1>11, <2>1, <2>4, <2>5, <2>6
<1> QED BY <1>10, <1>11

LEMMA PollKeeps ==
    ASSUME IInv, Poll
    PROVE  Holds
<1>1. PICK folds \in {FALSE, events # <<>>}, met \in {FALSE, goal} :
         \E s \in Outcomes(Approvals(Drained(Now, folds, met))) :
            \E t \in Continued(s) : Becomes(t)
  BY DEF Poll
<1> DEFINE d == Drained(Now, folds, met)
           p == Approvals(d)
<1>2. PICK s \in Outcomes(p) : \E t \in Continued(s) : Becomes(t) BY <1>1
<1>3. PICK t \in Continued(s) : Becomes(t) BY <1>2
<1>4. /\ Now \in State /\ Sound(Now, {}) /\ Roomy(Now) /\ Decided(Now, acting, outcomes)
      /\ Gated(Now, attended, mode) /\ OthersTyped
  BY NowIs DEF Poll, IInv
<1>5. /\ outcomes' = <<>> /\ UNCHANGED <<mode, attended, allowed, acting>> BY DEF Poll
<1>6. folds \in BOOLEAN /\ met \in BOOLEAN
  <2>1. Now.goal \in BOOLEAN BY <1>4 DEF State
  <2> QED BY <2>1 DEF Now
<1>7. Sound(d, {}) /\ Keeps(Now, d, {}) /\ Roomy(d) BY <1>4, <1>6, DrainedSound DEF Starts
<1> HIDE DEF d
<1>8. Gated(d, attended, mode) BY <1>4, <1>7 DEF Gated, Keeps
<1>9. Sound(p, {}) /\ Defers(d, p) /\ Gated(p, attended, mode) /\ Roomy(p)
  BY <1>4, <1>7, <1>8, ApprovalsSound
<1> HIDE DEF p
<1>10. /\ \A c \in p.deferred : p.decided[c] = "none"
       /\ \A c \in Call : p.decided[c] = "none" => p.fate[c] = "new"
       /\ \A c \in acting \cup In(outcomes) : p.decided[c] # "none" /\ p.fate[c] = "new"
       /\ Once(outcomes) /\ acting \cap In(outcomes) = {}
       /\ p.decided = decided
       /\ \A c \in p.deferred : c \in deferred \/ decided[c] = "none"
  <2>1. /\ \A c \in deferred : decided[c] = "none"
        /\ \A c \in Call : decided[c] = "none" => fate[c] = "new"
        /\ \A c \in acting \cup In(outcomes) : decided[c] # "none" /\ fate[c] = "new"
        /\ Once(outcomes) /\ acting \cap In(outcomes) = {}
    BY <1>4, NowIs DEF Decided
  <2>2. d.deferred = deferred /\ d.decided = decided
        /\ \A m \in Item : fate[m] = "new" => d.fate[m] = "new"
    BY <1>7, NowIs DEF Keeps
  <2>3. p.decided = decided /\ p.fate = d.fate
        /\ \A c \in p.deferred : c \in deferred \/ decided[c] = "none"
    BY <1>9, <2>2 DEF Defers
  <2>4. \A c \in acting \cup In(outcomes) : c \in Call BY <1>4 DEF OthersTyped, In
  <2> QED BY <2>1, <2>2, <2>3, <2>4 DEF Item
<1>11. outcomes \in Seq(Call) BY <1>4 DEF OthersTyped
<1>12. Sound(s, {}) /\ Keeps(p, s, In(outcomes)) /\ (s.running \/ Roomy(s))
  BY <1>2, <1>9, <1>10, <1>11, OutcomesSound
<1>13. Sound(t, {}) /\ Keeps(s, t, {}) BY <1>3, <1>12, ContinuedSound
<1>14. /\ t.parked \subseteq p.parked /\ \A a \in t.parked : t.agent[a].call = p.agent[a].call
       /\ t.deferred = p.deferred /\ t.decided = p.decided
       /\ \A m \in Item \ In(outcomes) : p.fate[m] = "new" => t.fate[m] = "new"
  BY <1>12, <1>13 DEF Keeps
<1>15. Now' = t BY <1>3, <1>13, BecomesIs DEF Sound
<1>16. Gated(t, attended, mode) BY <1>9, <1>14 DEF Gated
<1>17. Decided(t, acting, <<>>)
  <2>1. In(<<>>) = {} /\ Once(<<>>) BY DEF In, Once
  <2>2. \A c \in Call : p.decided[c] = "none" => c \in Item \ In(outcomes) BY <1>10 DEF Item
  <2>3. \A c \in acting : c \in Item \ In(outcomes) BY <1>4, <1>10 DEF OthersTyped, Item
  <2> QED BY <1>10, <1>14, <2>1, <2>2, <2>3 DEF Decided
<1>18. OthersTyped'
  <2>1. <<>> \in Seq(Call) OBVIOUS
  <2> QED BY <1>4, <1>5, <2>1 DEF OthersTyped
<1>19. IInv' BY <1>5, <1>13, <1>15, <1>16, <1>17, <1>18 DEF IInv
<1>20. deferred' = p.deferred BY <1>14, <1>15 DEF Now
<1> QED BY <1>10, <1>19, <1>20 DEF Holds, Stands

LEMMA ActionRunsKeeps ==
    ASSUME IInv, NEW c \in Call, ActionRuns(c)
    PROVE  Holds
<1>1. /\ c \in acting /\ acting' = acting \ {c} /\ outcomes' = Append(outcomes, c)
      /\ UNCHANGED <<mode, attended, allowed>> /\ Becomes(Now)
  BY DEF ActionRuns
<1>2. Now' = Now BY <1>1, NowIs, BecomesIs
<1>3. outcomes \in Seq(Call) /\ Decided(Now, acting, outcomes) BY DEF IInv, OthersTyped
<1> DEFINE o == Append(outcomes, c)
<1>4. o \in Seq(Call) /\ In(o) = In(outcomes) \cup {c} /\ (c \notin In(outcomes) => Once(o))
  BY <1>3, AppendOnce DEF Decided
<1> HIDE DEF o
<1>5. outcomes' = o BY <1>1 DEF o
<1>6. Decided(Now, acting', outcomes') BY <1>1, <1>3, <1>4, <1>5 DEF Decided
<1>7. OthersTyped' BY <1>1, <1>4, <1>5 DEF IInv, OthersTyped
<1>8. Gated(Now, attended', mode') BY <1>1 DEF IInv
<1>9. IInv' BY <1>2, <1>6, <1>7, <1>8, NowIs DEF IInv
<1>10. Stands BY <1>1 DEF Stands, Becomes, Now
<1> QED BY <1>9, <1>10 DEF Holds

-----------------------------------------------------------------------------
(* Each step of an agent does *)

\* An agent of s is as x in t, and the engine has done nothing.
Moves(s, t, a, x) ==
    /\ t \in State /\ t.agent = [s.agent EXCEPT ![a] = x] /\ x \in AgentState
    /\ t.running = s.running /\ t.queued = s.queued /\ t.steered = s.steered
    /\ t.worker = s.worker /\ t.parked = s.parked /\ t.deferred = s.deferred
    /\ t.decided = s.decided /\ t.fate = s.fate
    /\ t.asks = s.asks \/ (x.at = "asked" /\ t.asks = s.asks \cup {a})

\* The agent does not wait for an answer, or is let go; a turn worker goes on as it was
\* told, and the one of the turn, if it ends, says so.
MayMove(s, t, a, x) ==
    /\ a \notin s.asks \cup s.parked
    /\ x.at = "asked" => x.call \in Call /\ a \in t.asks
    /\ x.at = "read" => x.reads # <<>>
    /\ a \in Worker => s.agent[a].at # "off" /\ (x.at # "off" => x.stop = s.agent[a].stop)
    /\ IF a = s.worker THEN HasEnded(t) <=> x.at = "off" ELSE t.events = s.events

LEMMA MovesSound ==
    ASSUME NEW s, Sound(s, {}), NEW a \in Agent, NEW x, NEW t, Moves(s, t, a, x),
           MayMove(s, t, a, x), Steering(t)
    PROVE  Sound(t, {}) /\ Keeps(s, t, {})
<1>1. s \in State /\ s.agent \in [Agent -> AgentState] /\ s.asks \subseteq Agent
      /\ s.parked \subseteq Agent /\ s.worker \in Worker \cup {None}
  BY DEF Sound, State
<1>2. t.agent[a] = x /\ \A b \in Agent : b # a => t.agent[b] = s.agent[b] BY <1>1 DEF Moves
<1>3. Worker \subseteq Agent /\ None \notin Agent BY TurnAssumption DEF Agent
<1>4. Filed(t, {}) BY DEF Sound, Filed, Moves
<1>5. Working(t)
  <2>1. t.running <=> t.worker # None BY DEF Sound, Working, Moves
  <2>2. t.worker = None => t.events = <<>>
    BY <1>3 DEF Sound, Working, Moves, MayMove
  <2>3. ASSUME t.worker # None
        PROVE  \/ t.agent[t.worker].at # "off" /\ ~t.agent[t.worker].stop /\ ~HasEnded(t)
               \/ t.agent[t.worker].at = "off" /\ HasEnded(t)
    <3>1. t.worker = s.worker /\ s.worker \in Worker BY <1>1, <2>3 DEF Moves
    <3>2. CASE a = s.worker
      BY <1>2, <3>1, <3>2, <2>3 DEF Sound, Working, MayMove
    <3>3. CASE a # s.worker
      <4>1. HasEnded(t) = HasEnded(s) BY <3>3 DEF HasEnded, MayMove
      <4> QED BY <1>2, <1>3, <2>3, <3>1, <3>3, <4>1 DEF Sound, Working
    <3> QED BY <3>2, <3>3
  <2>4. ASSUME NEW w \in Worker, w # t.worker, t.agent[w].at # "off" PROVE t.agent[w].stop
    <3>1. w \in Agent /\ w # s.worker BY <1>3, <2>4 DEF Moves
    <3>2. CASE w = a BY <1>2, <2>4, <3>1, <3>2 DEF Sound, Working, MayMove
    <3>3. CASE w # a BY <1>2, <2>4, <3>1, <3>3 DEF Sound, Working
    <3> QED BY <3>2, <3>3
  <2> QED BY <2>1, <2>2, <2>3, <2>4 DEF Working
<1>6. Asking(t)
  <2>1. \A b \in Agent : /\ t.agent[b].at = "asked" => t.agent[b].call \in Call
                         /\ t.agent[b].at = "read" => t.agent[b].reads # <<>>
    BY <1>2 DEF Sound, Asking, MayMove
  <2>2. t.asks \cap t.parked = {} BY DEF Sound, Asking, Moves, MayMove
  <2>3. \A b \in t.asks \cup t.parked : t.agent[b].at = "asked"
    BY <1>1, <1>2 DEF Sound, Asking, Moves, MayMove
  <2>4. t.worker # None /\ t.agent[t.worker].at = "asked" => t.worker \in t.asks \cup t.parked
    <3>1. t.worker = s.worker /\ (s.worker # None => s.worker \in Agent)
      BY <1>1, <1>3 DEF Moves
    <3> QED BY <1>2, <3>1 DEF Sound, Asking, Moves, MayMove
  <2> QED BY <2>1, <2>2, <2>3, <2>4 DEF Asking
<1>7. Keeps(s, t, {}) BY <1>1, <1>2 DEF Keeps, Moves, MayMove
<1> QED BY <1>4, <1>5, <1>6, <1>7 DEF Sound, Moves

\* An agent other than the turn's worker disturbs no reading.
LEMMA AsideSteering ==
    ASSUME NEW s, Sound(s, {}), NEW a \in Agent, NEW x, NEW t, Moves(s, t, a, x), a # s.worker,
           t.events = s.events, t.inbox \in {s.inbox, <<>>}
    PROVE  Steering(t)
<1>1. s \in State /\ s.agent \in [Agent -> AgentState] BY DEF Sound, State
<1>2. s.worker # None => s.worker \in Agent BY <1>1, AgentTypes
<1>3. Reading(t) = Reading(s) BY <1>1, <1>2 DEF Moves, Reading
<1>4. Read(t) = Read(s) BY DEF Read
<1>5. In(<<>>) = {} /\ Once(<<>>) BY DEF In, Once
<1> QED BY <1>3, <1>4, <1>5 DEF Sound, Steering, Moves

\* The turn's worker goes on reading what it read.
LEMMA ReadSteering ==
    ASSUME NEW s, Sound(s, {}), NEW a \in Agent, NEW x, NEW t, Moves(s, t, a, x), a = s.worker,
           Read(t) = Read(s),
           \/ t.inbox = s.inbox /\ x.reads \in {s.agent[a].reads, <<>>}
           \/ t.inbox = <<>> /\ x.reads = s.inbox
    PROVE  Steering(t)
<1>1. s \in State /\ s.agent \in [Agent -> AgentState] /\ None \notin Agent
  BY TurnAssumption DEF Sound, State
<1>2. Reading(s) = s.agent[a].reads /\ Reading(t) = x.reads BY <1>1 DEF Moves, Reading
<1>3. In(<<>>) = {} /\ Once(<<>>) BY DEF In, Once
<1> QED BY <1>2, <1>3 DEF Sound, Steering, Moves

\* The events with one more.
LEMMA EventIs ==
    ASSUME NEW s \in State, NEW t, NEW e \in Event, t.events = Append(s.events, e)
    PROVE  /\ t.events \in Seq(Event) /\ (HasEnded(t) <=> e.kind \in Ends)
           /\ Read(t) = Read(s) \cup (IF e.kind = "steered" THEN {e.m} ELSE {})
<1> DEFINE p == s.events
           q == Append(p, e)
<1>1. p \in Seq(Event) BY DEF State
<1>2. q \in Seq(Event) /\ Len(q) = Len(p) + 1 /\ q[Len(q)] = e /\ Len(p) \in Nat /\ q # <<>>
  BY <1>1
<1>3. \A i \in 1..Len(p) : q[i] = p[i] BY <1>1
<1>4. t.events = q OBVIOUS
<1> HIDE DEF q
<1>5. HasEnded(t) <=> e.kind \in Ends BY <1>2, <1>4 DEF HasEnded
<1>6. 1..Len(q) = 1..Len(p) \cup {Len(q)} BY <1>2
<1>7. Read(t) = {q[i].m : i \in {j \in 1..Len(q) : q[j].kind = "steered"}} BY <1>4 DEF Read
<1>8. Read(s) = {p[i].m : i \in {j \in 1..Len(p) : p[j].kind = "steered"}} BY DEF Read
<1>9. ASSUME NEW m
      PROVE  m \in Read(t) <=> m \in Read(s) \cup (IF e.kind = "steered" THEN {e.m} ELSE {})
  <2>1. m \in Read(t) <=> \E i \in 1..Len(q) : q[i].kind = "steered" /\ m = q[i].m BY <1>7
  <2>2. m \in Read(s) <=> \E i \in 1..Len(p) : p[i].kind = "steered" /\ m = p[i].m BY <1>8
  <2> QED BY <1>2, <1>3, <1>6, <2>1, <2>2
<1> QED BY <1>2, <1>5, <1>9, <1>4

\* An event of a, which is as x from now on; the turn's worker was not told to stop.
Emitted(a, kind, m, x) ==
    /\ agent' = [agent EXCEPT ![a] = x] /\ events' \in Seq(Event)
    /\ IF a # worker \/ agent[a].stop THEN events' = events
       ELSE /\ HasEnded(Now') <=> kind \in Ends
            /\ Read(Now') = Read(Now) \cup (IF kind = "steered" THEN {m} ELSE {})
    /\ a = worker => ~agent[a].stop

\* What emit does.
LEMMA EmitsIs ==
    ASSUME IInv, NEW a \in Agent, agent[a].at # "off",
           NEW kind \in {"response", "steered"} \cup Ends, NEW m \in Item \cup {None},
           NEW f, Emits(a, kind, m, f)
    PROVE  Emitted(a, kind, m, IF agent[a].stop THEN Idle ELSE f)
<1>0. Now \in State /\ Sound(Now, {}) /\ Now.events = events /\ Now.worker = worker
      /\ Now.agent = agent /\ events \in Seq(Event)
  BY NowIs DEF State
<1>1. a = worker => a # None /\ ~agent[a].stop /\ ~HasEnded(Now)
  BY <1>0, TurnAssumption DEF Sound, Working, Agent
<1>2. agent' = [agent EXCEPT ![a] = IF agent[a].stop THEN Idle ELSE f] BY DEF Emits, Goes
<1>3. CASE a # worker \/ agent[a].stop
  <2>1. events' = events BY <1>3 DEF Emits
  <2> QED BY <1>0, <1>1, <1>2, <1>3, <2>1 DEF Emitted
<1>4. CASE a = worker /\ ~agent[a].stop /\ Known(kind)
  <2>1. events' = events /\ kind = "response" BY <1>4 DEF Emits, Known
  <2>2. Now'.events = events' BY DEF Now
  <2>3. Read(Now') = Read(Now) /\ HasEnded(Now') = HasEnded(Now)
    BY <1>0, <2>1, <2>2 DEF Read, HasEnded
  <2>4. kind \notin Ends BY <2>1 DEF Ends
  <2> QED BY <1>0, <1>1, <1>2, <1>4, <2>1, <2>3, <2>4 DEF Emitted
<1>5. CASE a = worker /\ ~agent[a].stop /\ ~Known(kind)
  <2> DEFINE e == [kind |-> kind, m |-> m]
  <2>1. events' = Append(events, e) BY <1>5 DEF Emits
  <2>2. e \in Event /\ e.kind = kind /\ e.m = m BY DEF Event
  <2> HIDE DEF e
  <2>3. Now'.events = Append(Now.events, e) BY <1>0, <2>1 DEF Now
  <2>4. /\ Now'.events \in Seq(Event) /\ (HasEnded(Now') <=> e.kind \in Ends)
        /\ Read(Now') = Read(Now) \cup (IF e.kind = "steered" THEN {e.m} ELSE {})
    BY <1>0, <2>2, <2>3, EventIs
  <2>5. events' \in Seq(Event) BY <2>4 DEF Now
  <2> QED BY <1>1, <1>2, <1>5, <2>2, <2>4, <2>5 DEF Emitted
<1> QED BY <1>3, <1>4, <1>5

\* A step that leaves the engine's state aside.
LEMMA StaysAside ==
    ASSUME IInv, NEW a \in Agent, NEW x \in AgentState, agent' = [agent EXCEPT ![a] = x],
           inbox' \in {inbox, <<>>}, events' \in Seq(Event), ops' \in Nat, mishaps' \in Nat,
           \/ asks' = asks
           \/ x.at = "asked" /\ asks' = asks \cup {a},
           UNCHANGED Aside
    PROVE  Moves(Now, Now', a, x) /\ UNCHANGED Others
<1>1. /\ running' = running /\ queued' = queued /\ steered' = steered /\ worker' = worker
      /\ parked' = parked /\ goal' = goal /\ going' = going /\ force' = force /\ retry' = retry
      /\ retried' = retried /\ keep' = keep /\ deferred' = deferred /\ decided' = decided
      /\ fate' = fate
  BY DEF Aside
<1>2. /\ running \in BOOLEAN /\ queued \in Seq(Item) /\ steered \in Seq(Item \ Images)
      /\ worker \in Worker \cup {None} /\ parked \in SUBSET Agent /\ goal \in BOOLEAN
      /\ going \in BOOLEAN /\ force \in BOOLEAN /\ retry \in BOOLEAN /\ retried \in BOOLEAN
      /\ keep \in BOOLEAN /\ deferred \in SUBSET Call
      /\ decided \in [Call -> {"none", "allow", "deny"}]
      /\ fate \in [Item -> {"new", "live", "recorded", "blocked", "returned"}]
      /\ agent \in [Agent -> AgentState] /\ inbox \in Seq(Item \ Images) /\ asks \in SUBSET Agent
  BY NowIs DEF State, Now
<1>3. agent' \in [Agent -> AgentState] /\ inbox' \in Seq(Item \ Images) /\ asks' \in SUBSET Agent
  <2>1. <<>> \in Seq(Item \ Images) OBVIOUS
  <2> QED BY <1>2, <2>1
<1>4. Now' \in State BY <1>1, <1>2, <1>3 DEF Now, State
<1>5. Moves(Now, Now', a, x) BY <1>1, <1>4 DEF Moves, Now
<1> QED BY <1>5 DEF Aside, Others

LEMMA AgentIs ==
    ASSUME IInv, NEW a \in Agent
    PROVE  /\ agent[a] \in AgentState /\ Idle \in AgentState /\ Idle.at = "off" /\ Idle.reads = <<>>
           /\ agent[a].at # "asked" => a \notin asks \cup parked
           /\ a = worker /\ agent[a].at # "off" => ~agent[a].stop /\ ~HasEnded(Now)
           /\ a = worker => a # None /\ Reading(Now) = agent[a].reads
           /\ inbox \in Seq(Item) /\ events \in Seq(Event) /\ ops \in Nat /\ mishaps \in Nat
           /\ a \in asks \cup parked => agent[a].at = "asked"
<1>1. Now \in State /\ Sound(Now, {}) /\ Now.asks = asks /\ Now.parked = parked
      /\ Now.worker = worker /\ Now.agent = agent /\ Now.inbox = inbox /\ Now.events = events
      /\ Now.ops = ops /\ Now.mishaps = mishaps
  BY NowIs
<1>2. <<>> \in Seq(Item) OBVIOUS
<1>3. Idle \in AgentState /\ Idle.at = "off" /\ Idle.reads = <<>>
  BY <1>2 DEF Idle, AgentState, Place
<1>4. agent[a] \in AgentState /\ inbox \in Seq(Item) BY <1>1, AgentTypes
<1>5. ops \in Nat /\ mishaps \in Nat /\ events \in Seq(Event) BY <1>1 DEF State
<1>6. a \in asks \cup parked => agent[a].at = "asked" BY <1>1 DEF Sound, Asking
<1>7. a = worker => a # None /\ Reading(Now) = agent[a].reads
  BY <1>1, TurnAssumption DEF Reading
<1>8. a = worker /\ agent[a].at # "off" => ~agent[a].stop /\ ~HasEnded(Now)
  BY <1>1, <1>7 DEF Sound, Working
<1> QED BY <1>3, <1>4, <1>5, <1>6, <1>7, <1>8

\* A step with an event, or none, that is not of reading.
LEMMA EmitsKeeps ==
    ASSUME IInv, NEW a \in Agent, agent[a].at \notin {"off", "asked"},
           NEW kind \in {"response"} \cup Ends, NEW f \in AgentState, Emits(a, kind, None, f),
           f.at = "off" <=> kind \in Ends, f.at # "off" => f.stop = agent[a].stop,
           f.reads \in {agent[a].reads, <<>>},
           f.at # "read", f.at = "asked" => f.call \in Call,
           asks' = IF agent[a].stop \/ f.at # "asked" THEN asks ELSE asks \cup {a},
           inbox' = inbox, ops' \in Nat, mishaps' \in Nat, UNCHANGED Aside
    PROVE  Holds
<1> DEFINE x == IF agent[a].stop THEN Idle ELSE f
<1>1. /\ agent[a] \in AgentState /\ Idle \in AgentState /\ Idle.at = "off" /\ Idle.reads = <<>>
      /\ a \notin asks \cup parked
  BY AgentIs
<1>2. /\ agent' = [agent EXCEPT ![a] = x] /\ events' \in Seq(Event)
      /\ IF a # worker \/ agent[a].stop THEN events' = events
         ELSE /\ HasEnded(Now') <=> kind \in Ends
              /\ Read(Now') = Read(Now) \cup (IF kind = "steered" THEN {None} ELSE {})
      /\ a = worker => ~agent[a].stop
  <2>1. kind \in {"response", "steered"} \cup Ends /\ None \in Item \cup {None} OBVIOUS
  <2>2. Emitted(a, kind, None, x) BY <2>1, EmitsIs
  <2> QED BY <2>2 DEF Emitted
<1>3. kind # "steered" BY DEF Ends
<1>4. /\ x \in AgentState /\ (x.at # "off" => x.stop = agent[a].stop) /\ x.at # "read"
      /\ x.at = "asked" => x.call \in Call /\ a \in asks'
      /\ asks' = asks \/ (x.at = "asked" /\ asks' = asks \cup {a})
      /\ a = worker => x = f
  BY <1>1, <1>2
<1> HIDE DEF x
<1>5. Moves(Now, Now', a, x) /\ UNCHANGED Others BY <1>2, <1>4, StaysAside
<1>6. /\ Now.agent = agent /\ Now.worker = worker /\ Now.asks = asks /\ Now.parked = parked
      /\ Now.events = events /\ Now.inbox = inbox /\ Sound(Now, {})
      /\ Now'.asks = asks' /\ Now'.inbox = inbox' /\ Now'.events = events'
  BY NowIs DEF Now
<1>7. MayMove(Now, Now', a, x)
  <2>1. a = worker => (HasEnded(Now') <=> x.at = "off") BY <1>2, <1>4
  <2>2. a # worker => events' = events BY <1>2
  <2> QED BY <1>1, <1>4, <1>6, <2>1, <2>2 DEF MayMove
<1>8. Steering(Now')
  <2>1. CASE a = worker
    <3>1. Read(Now') = Read(Now) BY <1>2, <1>3, <2>1
    <3> QED BY <1>4, <1>5, <1>6, <2>1, <3>1, ReadSteering
  <2>2. CASE a # worker
    <3>1. Now'.events = Now.events BY <1>2, <1>6, <2>2
    <3>2. Now'.inbox \in {Now.inbox, <<>>} BY <1>6
    <3> QED BY <1>5, <1>6, <2>2, <3>1, <3>2, AsideSteering
  <2> QED BY <2>1, <2>2
<1>9. Sound(Now', {}) /\ Keeps(Now, Now', {}) BY <1>5, <1>6, <1>7, <1>8, MovesSound
<1> QED BY <1>5, <1>9, Carries

\* A step of the agent alone.
LEMMA AloneKeeps ==
    ASSUME IInv, NEW a \in Agent, agent[a].at # "off", a \notin asks \cup parked,
           NEW x \in AgentState, agent' = [agent EXCEPT ![a] = x],
           (x = Idle /\ agent[a].stop) \/ (x.at # "off" /\ x.stop = agent[a].stop),
           x.at # "asked", x.at = "read" => x.reads # <<>>,
           \/ inbox' = inbox /\ x.reads \in {agent[a].reads, <<>>}
           \/ inbox' = <<>> /\ x.reads = inbox,
           asks' = asks, events' = events, ops' = ops, mishaps' = mishaps, UNCHANGED Aside
    PROVE  Holds
<1>1. /\ ops \in Nat /\ mishaps \in Nat /\ events \in Seq(Event) /\ Idle.at = "off"
      /\ a = worker => ~agent[a].stop /\ ~HasEnded(Now)
  BY AgentIs
<1>2. Moves(Now, Now', a, x) /\ UNCHANGED Others
  <2>1. inbox' \in {inbox, <<>>} OBVIOUS
  <2> QED BY <1>1, <2>1, StaysAside
<1>3. /\ Now.agent = agent /\ Now.worker = worker /\ Now.asks = asks /\ Now.parked = parked
      /\ Now.events = events /\ Now.inbox = inbox /\ Sound(Now, {})
      /\ Now'.asks = asks' /\ Now'.inbox = inbox' /\ Now'.events = events'
  BY NowIs DEF Now
<1>4. Read(Now') = Read(Now) /\ HasEnded(Now') = HasEnded(Now) BY <1>3 DEF Read, HasEnded
<1>5. MayMove(Now, Now', a, x) BY <1>1, <1>3, <1>4 DEF MayMove
<1>6. Steering(Now')
  <2>1. CASE a = worker BY <1>2, <1>3, <1>4, <2>1, ReadSteering
  <2>2. CASE a # worker BY <1>2, <1>3, <2>2, AsideSteering
  <2> QED BY <2>1, <2>2
<1>7. Sound(Now', {}) /\ Keeps(Now, Now', {}) BY <1>2, <1>3, <1>5, <1>6, MovesSound
<1>8. {} \cap Call = {} OBVIOUS
<1> QED BY <1>2, <1>7, <1>8, Carries

LEMMA NextRequestKeeps ==
    ASSUME IInv, NEW a \in Agent, NextRequest(a)
    PROVE  Holds
<1>1. /\ agent[a] \in AgentState /\ Idle \in AgentState /\ Idle.at = "off" /\ Idle.reads = <<>>
      /\ inbox \in Seq(Item) /\ ops \in Nat /\ mishaps \in Nat
      /\ agent[a].at # "asked" => a \notin asks \cup parked
  BY AgentIs
<1>2. agent[a].at \in {"new", "top"} /\ asks' = asks /\ UNCHANGED Aside BY DEF NextRequest
<1>3. a \notin asks \cup parked BY <1>1, <1>2
<1> DEFINE r == [At(a, "read") EXCEPT !.reads = inbox]
           w == IF agent[a].stop THEN Idle ELSE At(a, "wait")
<1>4. \/ Mishap /\ Emits(a, "mid-turn", None, Idle) /\ inbox' = inbox
      \/ /\ inbox # <<>> /\ agent' = [agent EXCEPT ![a] = r] /\ inbox' = <<>>
         /\ UNCHANGED <<events, ops, mishaps>>
      \/ /\ agent' = [agent EXCEPT ![a] = w] /\ inbox' = inbox
         /\ UNCHANGED <<events, ops, mishaps>>
  BY DEF NextRequest, Goes
<1>5. CASE Mishap /\ Emits(a, "mid-turn", None, Idle) /\ inbox' = inbox
  <2>1. ops' \in Nat /\ mishaps' \in Nat BY <1>1, <1>5 DEF Mishap
  <2>2. "mid-turn" \in Ends BY DEF Ends
  <2> QED BY <1>1, <1>2, <1>5, <2>1, <2>2, EmitsKeeps
<1>6. CASE /\ inbox # <<>> /\ agent' = [agent EXCEPT ![a] = r] /\ inbox' = <<>>
           /\ UNCHANGED <<events, ops, mishaps>>
  <2>1. r \in AgentState /\ r.at = "read" /\ r.reads = inbox /\ r.stop = agent[a].stop
    BY <1>1 DEF At, AgentState, Place
  <2> HIDE DEF r
  <2> QED BY <1>2, <1>3, <1>6, <2>1, AloneKeeps
<1>7. CASE /\ agent' = [agent EXCEPT ![a] = w] /\ inbox' = inbox
           /\ UNCHANGED <<events, ops, mishaps>>
  <2>1. /\ w \in AgentState /\ w.at \in {"off", "wait"} /\ w.reads \in {agent[a].reads, <<>>}
        /\ (w = Idle /\ agent[a].stop) \/ (w.at # "off" /\ w.stop = agent[a].stop)
    BY <1>1 DEF At, AgentState, Place
  <2> HIDE DEF w
  <2> QED BY <1>2, <1>3, <1>7, <2>1, AloneKeeps
<1> QED BY <1>4, <1>5, <1>6, <1>7

LEMMA ReadsKeeps ==
    ASSUME IInv, NEW a \in Agent, Reads(a)
    PROVE  Holds
<1> DEFINE m == Head(agent[a].reads)
           rest == Tail(agent[a].reads)
           f == [At(a, IF rest = <<>> THEN "wait" ELSE "read") EXCEPT !.reads = rest]
           x == IF agent[a].stop THEN Idle ELSE f
<1>1. /\ agent[a] \in AgentState /\ Idle \in AgentState /\ Idle.at = "off" /\ Idle.reads = <<>>
      /\ ops \in Nat /\ mishaps \in Nat
      /\ agent[a].at # "asked" => a \notin asks \cup parked
      /\ a = worker => Reading(Now) = agent[a].reads
  BY AgentIs
<1>2. /\ agent[a].at = "read" /\ Emits(a, "steered", m, f)
      /\ asks' = asks /\ inbox' = inbox /\ ops' = ops /\ mishaps' = mishaps /\ UNCHANGED Aside
  BY DEF Reads
<1>3. Now \in State /\ Sound(Now, {}) BY NowIs
<1>4. agent[a].reads # <<>> /\ agent[a].reads \in Seq(Item)
  <2>1. agent[a].reads # <<>> BY <1>2, <1>3, NowIs DEF Sound, Asking
  <2> QED BY <1>1, <2>1 DEF AgentState
<1>5. /\ m \in Item /\ rest \in Seq(Item) /\ In(agent[a].reads) = In(rest) \cup {m}
      /\ Once(agent[a].reads) => Once(rest) /\ m \notin In(rest)
  BY <1>4, TailOnce
<1> HIDE DEF m, rest
<1>6. f \in AgentState /\ f.reads = rest /\ f.stop = agent[a].stop
      /\ f.at = (IF rest = <<>> THEN "wait" ELSE "read")
  BY <1>1, <1>5 DEF At, AgentState, Place
<1> HIDE DEF f
<1>7. /\ agent' = [agent EXCEPT ![a] = x] /\ events' \in Seq(Event)
      /\ IF a # worker \/ agent[a].stop THEN events' = events
         ELSE /\ HasEnded(Now') <=> "steered" \in Ends
              /\ Read(Now') = Read(Now) \cup (IF "steered" = "steered" THEN {m} ELSE {})
      /\ a = worker => ~agent[a].stop
  <2>1. m \in Item \cup {None} /\ agent[a].at # "off" BY <1>2, <1>5
  <2>2. "steered" \in {"response", "steered"} \cup Ends OBVIOUS
  <2>3. Emitted(a, "steered", m, x) BY <1>2, <2>1, <2>2, EmitsIs
  <2> HIDE DEF x
  <2> QED BY <2>3 DEF Emitted
<1>8. a = worker => x = f BY <1>7
<1>9. /\ x \in AgentState /\ x.at \in {"off", "wait", "read"} /\ (x.at # "off" => x.stop = agent[a].stop)
      /\ x.at = "read" => x.reads # <<>>
  BY <1>1, <1>6
<1> HIDE DEF x
<1>10. Moves(Now, Now', a, x) /\ UNCHANGED Others
  <2>1. inbox' \in {inbox, <<>>} /\ ops' \in Nat /\ mishaps' \in Nat BY <1>1, <1>2
  <2> QED BY <1>2, <1>7, <1>9, <2>1, StaysAside
<1>11. /\ Now.agent = agent /\ Now.worker = worker /\ Now.asks = asks /\ Now.parked = parked
       /\ Now.events = events /\ Now.inbox = inbox /\ Now'.worker = worker' /\ Now'.agent = agent'
       /\ Now'.asks = asks' /\ Now'.inbox = inbox' /\ Now'.events = events'
  BY NowIs DEF Now
<1>12. MayMove(Now, Now', a, x)
  <2>1. a = worker => (HasEnded(Now') <=> x.at = "off")
    <3>1. "steered" \notin Ends BY DEF Ends
    <3> QED BY <1>6, <1>7, <1>8, <3>1
  <2>2. a # worker => events' = events BY <1>7
  <2>3. a \notin asks \cup parked BY <1>1, <1>2
  <2> QED BY <1>2, <1>9, <1>11, <2>1, <2>2, <2>3 DEF MayMove
<1>13. Steering(Now')
  <2>1. CASE a = worker
    <3>1. Read(Now') = Read(Now) \cup {m} BY <1>7, <2>1
    <3>2. Reading(Now') = rest
      <4>1. a # None BY TurnAssumption
      <4>2. Now'.worker = a BY <1>10, <1>11, <2>1 DEF Moves
      <4>3. agent \in [Agent -> AgentState] BY <1>3, <1>11 DEF State
      <4> QED BY <1>6, <1>7, <1>8, <1>11, <2>1, <4>1, <4>2, <4>3 DEF Reading
    <3>3. Reading(Now) = agent[a].reads BY <1>1, <2>1
    <3>4. Now'.inbox = Now.inbox /\ Now'.steered = Now.steered BY <1>2, <1>10, <1>11 DEF Moves
    <3> QED BY <1>3, <1>5, <3>1, <3>2, <3>3, <3>4 DEF Sound, Steering
  <2>2. CASE a # worker
    <3>1. Now'.events = Now.events BY <1>7, <1>11, <2>2
    <3>2. Now'.inbox \in {Now.inbox, <<>>} BY <1>2, <1>11
    <3> QED BY <1>3, <1>10, <1>11, <2>2, <3>1, <3>2, AsideSteering
  <2> QED BY <2>1, <2>2
<1>14. Sound(Now', {}) /\ Keeps(Now, Now', {}) BY <1>3, <1>10, <1>12, <1>13, MovesSound
<1>15. {} \cap Call = {} OBVIOUS
<1> QED BY <1>10, <1>14, <1>15, Carries

LEMMA CallsKeeps ==
    ASSUME IInv, NEW a \in Agent, NEW c \in Call, Calls(a, c)
    PROVE  Holds
<1> DEFINE to(where) == [At(a, where) EXCEPT !.call = c]
<1>1. agent[a] \in AgentState /\ ops \in Nat /\ mishaps \in Nat BY AgentIs
<1>2. /\ agent[a].at = "wait" /\ inbox' = inbox /\ ops' = ops /\ mishaps' = mishaps
      /\ UNCHANGED Aside
      /\ \/ Emits(a, "response", None, to("tool")) /\ asks' = asks
         \/ /\ Emits(a, "response", None, to("asked"))
            /\ asks' = IF agent[a].stop THEN asks ELSE asks \cup {a}
         \/ Emits(a, "response", None, At(a, "top")) /\ asks' = asks
  BY DEF Calls
<1>3. ASSUME NEW f \in AgentState, Emits(a, "response", None, f), f.stop = agent[a].stop,
             f.at \in {"tool", "asked", "top"}, f.reads = agent[a].reads,
             f.at = "asked" => f.call \in Call,
             asks' = IF agent[a].stop \/ f.at # "asked" THEN asks ELSE asks \cup {a}
      PROVE  Holds
  <2>1. "response" \notin Ends BY DEF Ends
  <2> QED BY <1>1, <1>2, <1>3, <2>1, EmitsKeeps
<1>4. ASSUME NEW where \in {"tool", "asked"}
      PROVE  /\ to(where) \in AgentState /\ to(where).stop = agent[a].stop
             /\ to(where).at = where /\ to(where).reads = agent[a].reads /\ to(where).call = c
  BY <1>1 DEF At, AgentState, Place
<1>5. /\ At(a, "top") \in AgentState /\ At(a, "top").stop = agent[a].stop
      /\ At(a, "top").at = "top" /\ At(a, "top").reads = agent[a].reads
  BY <1>1 DEF At, AgentState, Place
<1> HIDE DEF to
<1>6. CASE Emits(a, "response", None, to("tool")) /\ asks' = asks BY <1>3, <1>4, <1>6
<1>7. CASE /\ Emits(a, "response", None, to("asked"))
           /\ asks' = IF agent[a].stop THEN asks ELSE asks \cup {a}
  BY <1>3, <1>4, <1>7
<1>8. CASE Emits(a, "response", None, At(a, "top")) /\ asks' = asks BY <1>3, <1>5, <1>8
<1> QED BY <1>2, <1>6, <1>7, <1>8

LEMMA CallsSpawnKeeps ==
    ASSUME IInv, NEW a \in Agent, CallsSpawn(a)
    PROVE  Holds
<1> DEFINE f == At(a, "tool")
<1>1. agent[a] \in AgentState /\ ops \in Nat /\ mishaps \in Nat BY AgentIs
<1>2. f \in AgentState /\ f.at = "tool" /\ f.stop = agent[a].stop /\ f.reads = agent[a].reads
  BY <1>1 DEF At, AgentState, Place
<1>3. /\ agent[a].at = "wait" /\ Emits(a, "response", None, f) /\ inbox' = inbox /\ asks' = asks
      /\ ops' \in Nat /\ mishaps' \in Nat /\ UNCHANGED Aside
  BY <1>1 DEF CallsSpawn
<1> HIDE DEF f
<1>4. "response" \notin Ends BY DEF Ends
<1> QED BY <1>2, <1>3, <1>4, EmitsKeeps

LEMMA FinishesKeeps ==
    ASSUME IInv, NEW a \in Agent, Finishes(a)
    PROVE  Holds
<1>1. /\ Idle \in AgentState /\ Idle.at = "off" /\ Idle.reads = <<>>
      /\ ops \in Nat /\ mishaps \in Nat
  BY AgentIs
<1>2. PICK kind \in Ends : Emits(a, kind, None, Idle) /\ ops' \in Nat /\ mishaps' \in Nat
  BY <1>1 DEF Finishes, Mishap, Ends
<1>3. agent[a].at = "wait" /\ inbox' = inbox /\ asks' = asks /\ UNCHANGED Aside BY DEF Finishes
<1> QED BY <1>1, <1>2, <1>3, EmitsKeeps

LEMMA CompactedKeeps ==
    ASSUME IInv, NEW a \in Agent, Compacted(a)
    PROVE  Holds
<1>1. /\ Idle \in AgentState /\ Idle.at = "off" /\ Idle.reads = <<>>
      /\ ops \in Nat /\ mishaps \in Nat
  BY AgentIs
<1>2. /\ agent[a].at = "compact" /\ Emits(a, "done", None, Idle) /\ inbox' = inbox /\ asks' = asks
      /\ ops' \in Nat /\ mishaps' \in Nat /\ UNCHANGED Aside
  BY <1>1 DEF Compacted
<1>3. "done" \in Ends BY DEF Ends
<1> QED BY <1>1, <1>2, <1>3, EmitsKeeps

LEMMA DroppedKeeps ==
    ASSUME IInv, NEW a \in Agent, Dropped(a)
    PROVE  Holds
<1> DEFINE x == IF agent[a].stop THEN Idle ELSE [At(a, "top") EXCEPT !.call = None]
<1>1. /\ agent[a] \in AgentState /\ Idle \in AgentState /\ Idle.at = "off" /\ Idle.reads = <<>>
  BY AgentIs
<1>2. /\ agent[a].at = "asked" /\ a \notin asks \cup parked /\ agent' = [agent EXCEPT ![a] = x]
      /\ asks' = asks /\ events' = events /\ inbox' = inbox /\ ops' = ops /\ mishaps' = mishaps
      /\ UNCHANGED Aside
  BY DEF Dropped, Goes
<1>3. /\ x \in AgentState /\ x.at \in {"off", "top"} /\ x.reads \in {agent[a].reads, <<>>}
      /\ (x = Idle /\ agent[a].stop) \/ (x.at # "off" /\ x.stop = agent[a].stop)
  BY <1>1 DEF At, AgentState, Place
<1> HIDE DEF x
<1> QED BY <1>2, <1>3, AloneKeeps

LEMMA ToolEndsKeeps ==
    ASSUME IInv, NEW a \in Agent, ToolEnds(a)
    PROVE  Holds
<1> DEFINE x == IF agent[a].stop THEN Idle ELSE [At(a, "top") EXCEPT !.call = None]
           child == [Idle EXCEPT !.at = "new", !.open = agent[a].open, !.old = agent[a].old]
           b == CHOOSE b \in Sub : ~Live(b)
<1>1. /\ agent[a] \in AgentState /\ Idle \in AgentState /\ Idle.at = "off" /\ Idle.reads = <<>>
      /\ agent[a].at # "asked" => a \notin asks \cup parked
      /\ a = worker /\ agent[a].at # "off" => ~agent[a].stop /\ ~HasEnded(Now)
      /\ events \in Seq(Event) /\ ops \in Nat /\ mishaps \in Nat
  BY AgentIs
<1>2. /\ agent[a].at = "tool"
      /\ asks' = asks /\ events' = events /\ inbox' = inbox /\ ops' = ops /\ mishaps' = mishaps
      /\ UNCHANGED Aside
      /\ \/ (\E s \in Sub : ~Live(s)) /\ agent' = [agent EXCEPT ![a] = x, ![b] = child]
         \/ agent' = [agent EXCEPT ![a] = x]
  BY DEF ToolEnds, Goes
<1>3. /\ x \in AgentState /\ x.at \in {"off", "top"} /\ x.reads \in {agent[a].reads, <<>>}
      /\ (x = Idle /\ agent[a].stop) \/ (x.at # "off" /\ x.stop = agent[a].stop)
  BY <1>1 DEF At, AgentState, Place
<1>4. child \in AgentState /\ child.at = "new" BY <1>1 DEF AgentState, Place
<1> HIDE DEF x, child
<1>5. CASE agent' = [agent EXCEPT ![a] = x] BY <1>1, <1>2, <1>3, <1>5, AloneKeeps
<1>6. CASE (\E s \in Sub : ~Live(s)) /\ agent' = [agent EXCEPT ![a] = x, ![b] = child]
  <2>1. b \in Sub /\ agent[b].at = "off" BY <1>6 DEF Live
  <2> HIDE DEF b
  <2>2. /\ Now \in State /\ Sound(Now, {}) /\ Now.agent = agent /\ Now.worker = worker
        /\ Now.asks = asks /\ Now.parked = parked /\ Now.events = events /\ Now.inbox = inbox
        /\ agent \in [Agent -> AgentState]
    BY NowIs DEF State
  <2>3. b \in Agent /\ b \notin Worker /\ b # worker /\ b # a /\ b \notin asks \cup parked
    <3>1. b \in Agent /\ b \notin Worker /\ b # a
      BY <1>2, <2>1, TurnAssumption DEF Agent
    <3>2. worker \in Worker \cup {None} BY <2>2 DEF State
    <3>3. b # worker BY <3>1, <3>2, TurnAssumption
    <3> QED BY <2>1, <2>2, <3>1, <3>3 DEF Sound, Asking
\* First the agent goes on, then the new one starts.
  <2> DEFINE g == [agent EXCEPT ![a] = x]
             u == [Now EXCEPT !.agent = g]
  <2>4. g \in [Agent -> AgentState] /\ g[b].at = "off" BY <1>3, <2>1, <2>2, <2>3
  <2>5. agent' = [g EXCEPT ![b] = child] BY <1>6, <2>2, <2>3
  <2>6. u \in State BY <2>2, <2>4 DEF State
  <2>7. /\ u.agent = [Now.agent EXCEPT ![a] = x] /\ u.running = running /\ u.queued = queued
        /\ u.steered = steered /\ u.worker = worker /\ u.parked = parked
        /\ u.deferred = deferred /\ u.decided = decided /\ u.fate = fate /\ u.asks = asks
        /\ u.events = events /\ u.inbox = inbox /\ u.agent = g
    BY <2>2 DEF Now
  <2> HIDE DEF u
  <2>8. Moves(Now, u, a, x) BY <1>3, <2>6, <2>7, NowIs DEF Moves
  <2> HIDE DEF g
  <2>9. Read(u) = Read(Now) /\ HasEnded(u) = HasEnded(Now) BY <2>2, <2>7 DEF Read, HasEnded
  <2>10. MayMove(Now, u, a, x) BY <1>1, <1>2, <1>3, <2>2, <2>7, <2>9 DEF MayMove
  <2>11. Steering(u)
    <3>1. CASE a = worker BY <1>3, <2>2, <2>7, <2>8, <2>9, <3>1, ReadSteering
    <3>2. CASE a # worker BY <2>2, <2>7, <2>8, <3>2, AsideSteering
    <3> QED BY <3>1, <3>2
  <2>12. Sound(u, {}) /\ Keeps(Now, u, {}) BY <2>2, <2>8, <2>10, <2>11, MovesSound
  <2>13. Now' \in State
    <3>1. agent' \in [Agent -> AgentState] BY <1>4, <2>4, <2>5
    <3> QED BY <1>2, <2>2, <3>1 DEF Now, State, Aside
  <2>14. /\ Now'.running = running /\ Now'.queued = queued /\ Now'.steered = steered
         /\ Now'.worker = worker /\ Now'.parked = parked /\ Now'.deferred = deferred
         /\ Now'.decided = decided /\ Now'.fate = fate /\ Now'.asks = asks
         /\ Now'.events = events /\ Now'.inbox = inbox /\ Now'.agent = agent'
    BY <1>2 DEF Now, Aside
  <2>15. Moves(u, Now', b, child) BY <1>4, <2>5, <2>7, <2>13, <2>14 DEF Moves
  <2>16. MayMove(u, Now', b, child) BY <1>4, <2>3, <2>7, <2>14 DEF MayMove
  <2>17. Steering(Now') BY <2>3, <2>7, <2>12, <2>14, <2>15, AsideSteering
  <2>18. Sound(Now', {}) /\ Keeps(u, Now', {}) BY <2>3, <2>12, <2>15, <2>16, <2>17, MovesSound
  <2>19. Keeps(Now, Now', {}) BY <2>12, <2>18 DEF Keeps
  <2>20. {} \cap Call = {} /\ UNCHANGED Others BY <1>2 DEF Aside, Others
  <2> QED BY <2>18, <2>19, <2>20, Carries
<1> QED BY <1>2, <1>5, <1>6

-----------------------------------------------------------------------------
(* The invariant *)

LEMMA InitIInv == Init => IInv
<1> SUFFICES ASSUME Init PROVE IInv OBVIOUS
<1>1. <<>> \in Seq(Item) /\ <<>> \in Seq(Item \ Images) /\ <<>> \in Seq(Event)
      /\ <<>> \in Seq(Call)
  OBVIOUS
<1>2. In(<<>>) = {} /\ Once(<<>>) BY DEF In, Once
<1>3. Idle \in AgentState /\ Idle.at = "off" BY <1>1 DEF Idle, AgentState, Place
<1>4. agent \in [Agent -> AgentState] /\ \A a \in Agent : agent[a].at = "off"
  BY <1>3 DEF Init
<1>5. /\ fate \in [Item -> {"new", "live", "recorded", "blocked", "returned"}]
      /\ decided \in [Call -> {"none", "allow", "deny"}]
      /\ \A m \in Item : fate[m] = "new"
      /\ \A c \in Call : decided[c] = "none"
  BY DEF Init
<1>6. Now \in State BY <1>1, <1>4, <1>5 DEF Init, Now, State
<1>7. /\ Now.running = FALSE /\ Now.queued = <<>> /\ Now.steered = <<>> /\ Now.worker = None
      /\ Now.parked = {} /\ Now.deferred = {} /\ Now.decided = decided /\ Now.agent = agent
      /\ Now.inbox = <<>> /\ Now.events = <<>> /\ Now.asks = {} /\ Now.fate = fate
  BY DEF Init, Now
<1>8. Filed(Now, {}) BY <1>2, <1>5, <1>7 DEF Filed
<1>9. Steering(Now)
  <2>1. Read(Now) = {} BY <1>7 DEF Read
  <2>2. Reading(Now) = <<>> BY <1>7 DEF Reading
  <2> QED BY <1>2, <1>7, <2>1, <2>2 DEF Steering
<1>10. Working(Now) BY <1>4, <1>7 DEF Working, Agent
<1>11. Asking(Now) BY <1>4, <1>7 DEF Asking
<1>12. acting = {} /\ outcomes = <<>> /\ allowed = {} /\ mode \in Modes /\ attended = FALSE
  BY DEF Init
<1>13. Decided(Now, acting, outcomes) BY <1>2, <1>5, <1>7, <1>12 DEF Decided, Item
<1>14. Gated(Now, attended, mode) BY <1>7 DEF Gated
<1>15. OthersTyped BY <1>1, <1>12 DEF OthersTyped
<1> QED BY <1>6, <1>8, <1>9, <1>10, <1>11, <1>13, <1>14, <1>15 DEF IInv, Sound

LEMMA StepsKeep ==
    ASSUME IInv, Next
    PROVE  Holds
<1>1. CASE EngineOp
  BY <1>1, UserMessageKeeps, InterruptKeeps, SteerKeeps, InterruptSendKeeps, UnqueueKeeps,
     QueueMoveKeeps, ApproveKeeps, SetApprovalModeKeeps, SetAttendedKeeps, SetGoalKeeps,
     DecideActionKeeps, ContinueTurnKeeps, CompactKeeps DEF EngineOp
<1>2. CASE Poll BY <1>2, PollKeeps
<1>3. CASE \E c \in Call : ActionRuns(c) BY <1>3, ActionRunsKeeps
<1>4. CASE \E a \in Agent : Steps(a)
  <2>1. PICK a \in Agent : Steps(a) BY <1>4
  <2> QED
    BY <2>1, NextRequestKeeps, ReadsKeeps, CallsSpawnKeeps, FinishesKeeps, DroppedKeeps,
       ToolEndsKeeps, CompactedKeeps, CallsKeeps DEF Steps
<1> QED BY <1>1, <1>2, <1>3, <1>4 DEF Next

LEMMA StutterKeeps ==
    ASSUME IInv, UNCHANGED vars
    PROVE  IInv'
<1>1. Now' = Now BY DEF vars, Now
<1>2. acting' = acting /\ outcomes' = outcomes /\ attended' = attended /\ mode' = mode
      /\ allowed' = allowed
  BY DEF vars
<1> QED BY <1>1, <1>2 DEF IInv, OthersTyped

LEMMA Invariant == Spec => []IInv
<1>1. IInv /\ [Next]_vars => IInv' BY StepsKeep, StutterKeeps DEF Holds
<1> QED BY InitIInv, <1>1, PTL DEF Spec

-----------------------------------------------------------------------------
(* What it says *)

\* Every variable has its type: above all, what is steered has no image, and the worker of
\* the turn is one of the turn workers (AgentCore, core.rs).
THEOREM TypeCorrect == Spec => []TypeOK
<1>1. IInv => TypeOK
  <2> SUFFICES ASSUME IInv PROVE TypeOK OBVIOUS
  <2>1. /\ running \in BOOLEAN /\ goal \in BOOLEAN /\ going \in BOOLEAN /\ force \in BOOLEAN
        /\ retry \in BOOLEAN /\ retried \in BOOLEAN /\ keep \in BOOLEAN
        /\ queued \in Seq(Item) /\ steered \in Seq(Item \ Images) /\ inbox \in Seq(Item \ Images)
        /\ worker \in Worker \cup {None} /\ parked \subseteq Agent /\ asks \subseteq Agent
        /\ deferred \subseteq Call /\ decided \in [Call -> {"none", "allow", "deny"}]
        /\ agent \in [Agent -> AgentState]
        /\ fate \in [Item -> {"new", "live", "recorded", "blocked", "returned"}]
    BY NowIs DEF State, Now
  <2>2. attended \in BOOLEAN /\ mode \in Modes /\ allowed \subseteq {"shell", "edit"}
    BY DEF IInv, OthersTyped
  <2> QED BY <2>1, <2>2 DEF TypeOK, AgentState, Place
<1> QED BY Invariant, <1>1, PTL

LEMMA Occurs ==
    ASSUME NEW S, NEW q \in Seq(S), Once(q), NEW m
    PROVE  Cardinality({i \in DOMAIN q : q[i] = m}) = IF m \in In(q) THEN 1 ELSE 0
<1> DEFINE I == {i \in DOMAIN q : q[i] = m}
<1>1. DOMAIN q = 1..Len(q) OBVIOUS
<1>2. CASE m \in In(q)
  <2>1. PICK i \in 1..Len(q) : q[i] = m BY <1>2 DEF In
  <2>2. I = {i} BY <1>1, <2>1 DEF Once
  <2> HIDE DEF I
  <2>3. Cardinality(I) = 1 BY <2>2, FS_Singleton
  <2> QED BY <1>2, <2>3 DEF I
<1>3. CASE m \notin In(q)
  <2>1. I = {} BY <1>1, <1>3 DEF In
  <2> HIDE DEF I
  <2>2. Cardinality(I) = 0 BY <2>1, FS_EmptySet
  <2> QED BY <1>3, <2>2 DEF I
<1> QED BY <1>2, <1>3

\* Whatever interrupts, steers, ends or retries a turn, a message the engine took waits in
\* one place until the session has it, a hook blocked it or the user took it back
\* (submit_user_message, steer, requeue_unread_steers, poll_events, core.rs).
THEOREM MessagesAreKept == Spec => []EachMessageOnce
<1>1. IInv => EachMessageOnce
  <2> SUFFICES ASSUME IInv, NEW m \in Item PROVE Places(m) = IF fate[m] = "live" THEN 1 ELSE 0
    BY DEF EachMessageOnce
  <2>1. /\ queued \in Seq(Item) /\ steered \in Seq(Item) /\ Once(queued) /\ Once(steered)
        /\ In(queued) \cap In(steered) = {}
        /\ {n \in Item : fate[n] = "live"} = In(queued) \cup In(steered)
    BY NowIs, AgentTypes DEF Sound, Filed
  <2> DEFINE x == Cardinality({i \in DOMAIN queued : queued[i] = m})
             y == Cardinality({i \in DOMAIN steered : steered[i] = m})
  <2>2. x = IF m \in In(queued) THEN 1 ELSE 0 BY <2>1, Occurs
  <2>3. y = IF m \in In(steered) THEN 1 ELSE 0 BY <2>1, Occurs
  <2>4. Places(m) = x + y BY DEF Places
  <2> HIDE DEF x, y
  <2>5. fate[m] = "live" <=> m \in In(queued) \/ m \in In(steered) BY <2>1
  <2>6. ~(m \in In(queued) /\ m \in In(steered)) BY <2>1
  <2> QED BY <2>2, <2>3, <2>4, <2>5, <2>6
<1> QED BY Invariant, <1>1, PTL

\* The engine has the approval request of a turn that waits for one, whatever was
\* replaced, stopped or answered meanwhile (poll_approval_requests, set_attended, core.rs).
THEOREM WaitingIsHeard == Spec => []TurnIsHeard
<1>1. IInv => TurnIsHeard BY NowIs DEF Sound, Asking, TurnIsHeard
<1> QED BY Invariant, <1>1, PTL

\* No parked call outlives the mode that gates it, the agent that waits for it or the last
\* client (set_approval_mode, set_attended, approve, core.rs).
THEOREM ParkedStaysGated == Spec => []ParkedIsGated
<1>1. IInv => ParkedIsGated
  <2> SUFFICES ASSUME IInv, NEW a \in parked
               PROVE attended /\ agent[a].at = "asked" /\ Requires(mode, agent[a].call)
    BY DEF ParkedIsGated
  <2> QED BY NowIs DEF IInv, Gated, Sound, Asking
<1> QED BY Invariant, <1>1, PTL

\* No turn is taken to run without a worker or an end to read, and no worker left behind
\* goes on (stop_current_turn, spawn_current_context_turn, poll_events, core.rs).
THEOREM WorkersAreKnown == Spec => []RunningHasWorker
<1>1. IInv => RunningHasWorker
  <2> SUFFICES ASSUME IInv PROVE RunningHasWorker OBVIOUS
  <2>1. Working(Now) BY NowIs DEF Sound
  <2>2. HasEnded(Now) <=> events # <<>> /\ Last(events).kind \in Ends
    BY NowIs DEF HasEnded, Last
  <2> QED BY <2>1, <2>2, NowIs DEF Working, RunningHasWorker, Live
<1> QED BY Invariant, <1>1, PTL

\* No call becomes a deferred action again once it was decided (defer_call, decide_action,
\* core.rs).
THEOREM DecisionsAreFinal == Spec => DecisionsStand
<1>1. IInv /\ [Next]_vars
        => [\A c \in Call : c \notin deferred /\ c \in deferred' => decided[c] = "none"]_vars
  BY StepsKeep DEF Holds, Stands
<1> QED BY Invariant, <1>1, PTL DEF Spec, DecisionsStand

-----------------------------------------------------------------------------
(* Lemmas on the journal's sequences *)

LEMMA LastOfNumbers ==
    ASSUME NEW N \in Nat, NEW S, S \subseteq 1..N, S # {}
    PROVE  Max(S) \in S /\ \A n \in S : n <= Max(S)
<1> DEFINE T == {N - n : n \in S}
<1>0. \A n \in S : n \in Nat /\ N - n \in Nat
  <2> SUFFICES ASSUME NEW n \in S PROVE n \in Nat /\ N - n \in Nat OBVIOUS
  <2>1. n \in 1..N OBVIOUS
  <2> QED BY <2>1
<1>1. T \subseteq Nat /\ T # {} BY <1>0
<1>2. PICK t \in T : \A u \in T : t <= u BY <1>1, LeastNumber
<1>3. PICK x \in S : t = N - x OBVIOUS
<1>4. \A n \in S : x >= n
  <2> SUFFICES ASSUME NEW n \in S PROVE x >= n OBVIOUS
  <2>1. N - n \in T OBVIOUS
  <2>2. t <= N - n BY <1>2, <2>1
  <2> QED BY <1>3, <2>2
<1>5. Max(S) \in S /\ \A n \in S : Max(S) >= n BY <1>3, <1>4 DEF Max
<1>6. Max(S) \in Int /\ \A n \in S : n \in Int
  <2>1. \A n \in S : n \in Int BY <1>0
  <2> QED BY <1>5, <2>1
<1> QED BY <1>5, <1>6

\* A function that is either known at a number, or equal to itself at a smaller
\* one, is there: `up` leads to the known.
LeadsUp(M, S, B, b, up) ==
    \A i \in 0..M : IF i \in B THEN b[i] \in S ELSE up[i] \in 0..M /\ up[i] < i

Climbed(f, M, S, B, b, up) ==
    f \in [0..M -> S] /\ \A i \in 0..M : f[i] = IF i \in B THEN b[i] ELSE f[up[i]]

LEMMA Climb ==
    ASSUME NEW M \in Nat, NEW S, NEW B, NEW b, NEW up, LeadsUp(M, S, B, b, up)
    PROVE  \E f : Climbed(f, M, S, B, b, up)
<1> DEFINE Upto(k) == \E f \in [0..k -> S] : \A i \in 0..k : f[i] = IF i \in B THEN b[i] ELSE f[up[i]]
           P == {k \in Nat : k <= M => Upto(k)}
<1>0. \A i \in 0..M : IF i \in B THEN b[i] \in S ELSE up[i] \in 0..M /\ up[i] < i
  BY DEF LeadsUp
<1>1. 0 \in P
  <2> DEFINE f == [i \in 0..0 |-> b[i]]
  <2>0. 0 \in 0..M /\ \A i \in 0..0 : i = 0 OBVIOUS
  <2>1. 0 \in B /\ b[0] \in S BY <1>0, <2>0
  <2>2. f \in [0..0 -> S] BY <2>0, <2>1
  <2>3. \A i \in 0..0 : f[i] = b[i] OBVIOUS
  <2> HIDE DEF f
  <2>4. Upto(0) BY <2>0, <2>1, <2>2, <2>3
  <2> QED BY <2>4
<1>2. ASSUME NEW k \in Nat, k \in P PROVE k + 1 \in P
  <2> SUFFICES ASSUME k + 1 <= M PROVE Upto(k + 1) OBVIOUS
  <2>0. k <= M /\ k + 1 \in 0..M OBVIOUS
  <2>1. PICK g \in [0..k -> S] : \A i \in 0..k : g[i] = IF i \in B THEN b[i] ELSE g[up[i]]
    BY <1>2, <2>0
  <2> DEFINE v == IF k + 1 \in B THEN b[k + 1] ELSE g[up[k + 1]]
             f == [i \in 0..(k + 1) |-> IF i = k + 1 THEN v ELSE g[i]]
  <2>2. v \in S
    <3>1. k + 1 \notin B => up[k + 1] \in 0..k BY <1>0, <2>0
    <3>2. k + 1 \in B => b[k + 1] \in S BY <1>0, <2>0
    <3> QED BY <2>0, <2>1, <3>1, <3>2
  <2>3. \A i \in 0..(k + 1) : i # k + 1 => i \in 0..k OBVIOUS
  <2>4. f \in [0..(k + 1) -> S] BY <2>2, <2>3
  <2>5. f[k + 1] = v /\ \A i \in 0..k : f[i] = g[i]
    <3>1. k + 1 \in 0..(k + 1) OBVIOUS
    <3>2. \A i \in 0..k : i \in 0..(k + 1) /\ i # k + 1 OBVIOUS
    <3> QED BY <3>1, <3>2
  <2> HIDE DEF f
  <2>6. ASSUME NEW i \in 0..(k + 1) PROVE f[i] = IF i \in B THEN b[i] ELSE f[up[i]]
    <3>1. i \in 0..M /\ (i \notin B => up[i] \in 0..k /\ f[up[i]] = g[up[i]]) BY <1>0, <2>0, <2>5
    <3>2. CASE i = k + 1 BY <2>5, <3>1, <3>2
    <3>3. CASE i \in 0..k BY <2>1, <2>5, <3>1, <3>3
    <3> QED BY <2>3, <3>2, <3>3
  <2> QED BY <2>4, <2>6
<1> HIDE DEF P
<1>3. M \in P BY <1>1, <1>2, Induction
<1> QED BY <1>3 DEF P, Climbed

-----------------------------------------------------------------------------
(* The tree of entries *)

StateRecord == [leaf : Id, next : 1..(MaxEdits + 1), heads : [Branch -> Id], goal : BOOLEAN, id : File]

Store == [entries : Seq(Entry), leaf : Id, next : 1..(MaxEdits + 1), heads : [Branch -> Id],
          goal : BOOLEAN, id : File]

JournalLine ==
    [type : {"snapshot"}, entries : Seq(Entry), state : StateRecord]
    \cup [type : {"entry"}, entry : Entry] \cup [type : {"state"}, state : StateRecord]
    \cup [type : Torn]

Ascending(es) == \A i, j \in 1..Len(es) : i < j => es[i].id < es[j].id

Rooted(es) == \A i \in 1..Len(es) : es[i].parent < es[i].id

LEMMA EntryFields ==
    ASSUME NEW e \in Entry
    PROVE  e.id \in Id /\ e.parent \in Id /\ e.kind \in Kind
BY DEF Entry

LEMMA EntryNumbers ==
    ASSUME JournalAssumption, NEW e \in Entry PROVE e.id \in Nat /\ e.parent \in Nat
<1>1. MaxEdits \in Nat BY DEF JournalAssumption
<1>2. e.id \in Id /\ e.parent \in Id BY EntryFields
<1> QED BY <1>1, <1>2 DEF Id

LEMMA AscendingOnce ==
    ASSUME NEW es \in Seq(Entry), Ascending(es), NEW i \in 1..Len(es), NEW j \in 1..Len(es)
    PROVE  es[i].id = es[j].id => i = j
<1> USE DEF Ascending
<1>1. es[i].id \in Int /\ es[j].id \in Int
  <2>1. es[i] \in Entry /\ es[j] \in Entry OBVIOUS
  <2> QED BY <2>1, EntryFields DEF Id
<1>2. i < j => es[i].id < es[j].id OBVIOUS
<1>3. j < i => es[j].id < es[i].id OBVIOUS
<1> QED BY <1>1, <1>2, <1>3

LEMMA NamedIs ==
    ASSUME NEW es \in Seq(Entry), Ascending(es), NEW i \in 1..Len(es)
    PROVE  Named(es, es[i].id) = es[i]
<1> DEFINE k == CHOOSE k \in DOMAIN es : es[k].id = es[i].id
<1>1. DOMAIN es = 1..Len(es) OBVIOUS
<1>2. k \in 1..Len(es) /\ es[k].id = es[i].id BY <1>1
<1>3. k = i BY <1>2, AscendingOnce
<1> QED BY <1>3 DEF Named

LEMMA IdsAre ==
    ASSUME NEW es \in Seq(Entry)
    PROVE  Ids(es) = {es[i].id : i \in 1..Len(es)} /\ Ids(es) \subseteq Id
<1>1. DOMAIN es = 1..Len(es) OBVIOUS
<1>2. \A i \in 1..Len(es) : es[i] \in Entry OBVIOUS
<1>3. \A i \in 1..Len(es) : es[i].id \in Id BY <1>2, EntryFields
<1> QED BY <1>1, <1>3 DEF Ids

\* An id of the tree names an entry of it.
LEMMA NamedEntry ==
    ASSUME NEW es \in Seq(Entry), NEW id \in Ids(es)
    PROVE  /\ Named(es, id) \in Entry /\ Named(es, id).id = id
           /\ \E i \in 1..Len(es) : Named(es, id) = es[i]
<1> DEFINE k == CHOOSE k \in DOMAIN es : es[k].id = id
<1>1. DOMAIN es = 1..Len(es) OBVIOUS
<1>2. k \in 1..Len(es) /\ es[k].id = id BY <1>1 DEF Ids
<1>3. Named(es, id) = es[k] BY DEF Named
<1>4. es[k] \in Entry BY <1>2
<1> HIDE DEF k
<1> QED BY <1>2, <1>3, <1>4

LEMMA UpIsLess ==
    ASSUME NEW es \in Seq(Entry), Rooted(es), NEW id \in Ids(es)
    PROVE  Named(es, id).parent \in Id /\ Named(es, id).parent < id
<1>1. PICK i \in 1..Len(es) : Named(es, id) = es[i] BY NamedEntry
<1>2. Named(es, id) \in Entry /\ Named(es, id).id = id BY NamedEntry
<1>3. es[i].parent < es[i].id BY DEF Rooted
<1> QED BY <1>1, <1>2, <1>3, EntryFields

BranchIs(es, f) ==
    f = [i \in Id |->
            IF i \notin Ids(es) THEN "root"
            ELSE IF Named(es, i).kind \in Label THEN Named(es, i).kind
            ELSE f[Named(es, i).parent]]

\* What the branch of an entry is, one entry further up.
LEMMA BranchOfStep ==
    ASSUME JournalAssumption, NEW es \in Seq(Entry), Rooted(es)
    PROVE  \A i \in Id :
              /\ BranchOf(es, i) \in Branch
              /\ BranchOf(es, i) =
                   IF i \notin Ids(es) THEN "root"
                   ELSE IF Named(es, i).kind \in Label THEN Named(es, i).kind
                   ELSE BranchOf(es, Named(es, i).parent)
<1> DEFINE B == {i \in Id : i \notin Ids(es) \/ Named(es, i).kind \in Label}
           b == [i \in Id |-> IF i \notin Ids(es) THEN "root" ELSE Named(es, i).kind]
           up == [i \in Id |-> Named(es, i).parent]
<1>1. MaxEdits \in Nat /\ Id = 0..MaxEdits BY DEF JournalAssumption, Id
<1>2. \A i \in 0..MaxEdits : i \in B => b[i] \in Branch BY <1>1 DEF Branch
<1>3. \A i \in 0..MaxEdits : i \notin B => up[i] \in 0..MaxEdits /\ up[i] < i
  BY <1>1, UpIsLess
<1>4. PICK g \in [Id -> Branch] : \A i \in Id : g[i] = IF i \in B THEN b[i] ELSE g[up[i]]
  <2> HIDE DEF B, b, up
  <2>1. MaxEdits \in Nat BY <1>1
  <2>2. LeadsUp(MaxEdits, Branch, B, b, up) BY <1>2, <1>3 DEF LeadsUp
  <2>3. PICK g : Climbed(g, MaxEdits, Branch, B, b, up) BY <2>1, <2>2, Climb
  <2> QED BY <1>1, <2>3 DEF Climbed
<1>5. \A i \in Id : g[i] = IF i \notin Ids(es) THEN "root"
                           ELSE IF Named(es, i).kind \in Label THEN Named(es, i).kind
                           ELSE g[Named(es, i).parent]
  BY <1>4
<1>6. BranchIs(es, g)
  <2>1. g = [i \in Id |-> g[i]] OBVIOUS
  <2> QED BY <1>5, <2>1 DEF BranchIs
<1> DEFINE f == CHOOSE h : BranchIs(es, h)
<1>7. BranchIs(es, f) BY <1>6
<1>8. \A i : BranchOf(es, i) = f[i] BY DEF BranchOf, BranchIs
<1> HIDE DEF f
<1>9. \A i \in Id : f[i] = IF i \notin Ids(es) THEN "root"
                           ELSE IF Named(es, i).kind \in Label THEN Named(es, i).kind
                           ELSE f[Named(es, i).parent]
  BY <1>7 DEF BranchIs
<1> DEFINE T == {i \in Id : f[i] \notin Branch}
<1>10. T = {}
  <2> SUFFICES ASSUME T # {} PROVE FALSE OBVIOUS
  <2>1. T \subseteq Nat BY <1>1
  <2>2. PICK n \in T : \A m \in T : n <= m BY <2>1, LeastNumber
  <2>3. n \in Ids(es) /\ Named(es, n).kind \notin Label BY <1>9, <2>2 DEF Branch
  <2>4. Named(es, n).parent \in Id /\ Named(es, n).parent < n BY <2>3, UpIsLess
  <2>5. Named(es, n).parent \in T BY <1>9, <2>2, <2>3, <2>4
  <2>6. Named(es, n).parent \in Int /\ n \in Int BY <2>1, <2>5
  <2> QED BY <2>2, <2>4, <2>5, <2>6
<1> QED BY <1>8, <1>9, <1>10

BelowIs(es, root, f) ==
    f = [i \in Id |-> i = root \/ (i \in Ids(es) /\ f[Named(es, i).parent])]

\* Below a fork are the fork and what has its parent there.
LEMMA DescendsStep ==
    ASSUME JournalAssumption, NEW es \in Seq(Entry), Rooted(es), NEW root \in Ids(es)
    PROVE  /\ Descends(es, root) \subseteq Ids(es)
           /\ \A i \in Ids(es) :
                 i \in Descends(es, root) <=> i = root \/ Named(es, i).parent \in Descends(es, root)
<1> DEFINE B == {i \in Id : i = root \/ i \notin Ids(es)}
           b == [i \in Id |-> i = root]
           up == [i \in Id |-> Named(es, i).parent]
<1>1. MaxEdits \in Nat /\ Id = 0..MaxEdits BY DEF JournalAssumption, Id
<1>2. \A i \in 0..MaxEdits : i \in B => b[i] \in BOOLEAN BY <1>1
<1>3. \A i \in 0..MaxEdits : i \notin B => up[i] \in 0..MaxEdits /\ up[i] < i
  BY <1>1, UpIsLess
<1>4. PICK g \in [Id -> BOOLEAN] : \A i \in Id : g[i] = IF i \in B THEN b[i] ELSE g[up[i]]
  <2> HIDE DEF B, b, up
  <2>1. MaxEdits \in Nat BY <1>1
  <2>2. LeadsUp(MaxEdits, BOOLEAN, B, b, up) BY <1>2, <1>3 DEF LeadsUp
  <2>3. PICK g : Climbed(g, MaxEdits, BOOLEAN, B, b, up) BY <2>1, <2>2, Climb
  <2> QED BY <1>1, <2>3 DEF Climbed
<1>5. ASSUME NEW i \in Id PROVE g[i] = (i = root \/ (i \in Ids(es) /\ g[Named(es, i).parent]))
  <2>1. CASE i = root BY <1>4, <2>1
  <2>2. CASE i # root /\ i \notin Ids(es) BY <1>4, <2>2
  <2>3. CASE i # root /\ i \in Ids(es)
    <3>1. Named(es, i).parent \in Id BY <2>3, UpIsLess
    <3>2. g[Named(es, i).parent] \in BOOLEAN BY <3>1
    <3>3. g[i] = g[Named(es, i).parent] BY <1>4, <2>3
    <3> QED BY <2>3, <3>2, <3>3
  <2> QED BY <2>1, <2>2, <2>3
<1>6. BelowIs(es, root, g)
  <2>1. g = [i \in Id |-> g[i]] OBVIOUS
  <2> QED BY <1>5, <2>1 DEF BelowIs
<1> DEFINE f == CHOOSE h : BelowIs(es, root, h)
<1>7. BelowIs(es, root, f) BY <1>6
<1>8. Descends(es, root) = {i \in Ids(es) : f[i]} BY DEF Descends, BelowIs
<1> HIDE DEF f
<1>9. \A i \in Id : f[i] = (i = root \/ (i \in Ids(es) /\ f[Named(es, i).parent]))
  BY <1>7 DEF BelowIs
<1>10. Ids(es) \subseteq Id BY IdsAre
<1>11. ASSUME NEW i \in Ids(es)
       PROVE i \in Descends(es, root) <=> i = root \/ Named(es, i).parent \in Descends(es, root)
  <2>1. i \in Id /\ Named(es, i).parent \in Id BY <1>10, UpIsLess
  <2>2. f[i] = (i = root \/ f[Named(es, i).parent]) BY <1>9, <2>1
  <2>3. CASE Named(es, i).parent \in Ids(es) BY <1>8, <2>2, <2>3
  <2>4. CASE Named(es, i).parent \notin Ids(es)
    <3>1. Named(es, i).parent # root BY <2>4
    <3>2. ~f[Named(es, i).parent] BY <1>9, <2>1, <2>4, <3>1
    <3> QED BY <1>8, <2>2, <2>4, <3>2
  <2> QED BY <2>3, <2>4
<1> QED BY <1>8, <1>11

-----------------------------------------------------------------------------
(* A new entry *)

\* e comes after all of es, on top of one of them.
Follows(es, e) ==
    /\ e \in Entry /\ e.parent \in Ids(es) \cup {0} /\ e.parent < e.id
    /\ \A i \in 1..Len(es) : es[i].id < e.id

Parented(es) == \A i \in 1..Len(es) : es[i].parent \in Ids(es) \cup {0}

LEMMA AppendEntries ==
    ASSUME JournalAssumption, NEW es \in Seq(Entry), NEW e \in Entry
    PROVE  /\ Append(es, e) \in Seq(Entry) /\ Len(Append(es, e)) = Len(es) + 1
           /\ Append(es, e)[Len(es) + 1] = e
           /\ \A i \in 1..Len(es) : Append(es, e)[i] = es[i]
           /\ 1..Len(Append(es, e)) = (1..Len(es)) \cup {Len(es) + 1}
           /\ Ids(Append(es, e)) = Ids(es) \cup {e.id}
<1> DEFINE q == Append(es, e)
<1>1. /\ q \in Seq(Entry) /\ Len(q) = Len(es) + 1 /\ q[Len(es) + 1] = e
      /\ \A i \in 1..Len(es) : q[i] = es[i]
  OBVIOUS
<1>2. 1..(Len(es) + 1) = (1..Len(es)) \cup {Len(es) + 1}
  <2>1. Len(es) \in Nat OBVIOUS
  <2> QED BY <2>1
<1> HIDE DEF q
<1>3. Ids(q) = Ids(es) \cup {e.id}
  <2>1. Ids(q) = {q[i].id : i \in 1..Len(q)} /\ Ids(es) = {es[i].id : i \in 1..Len(es)}
    BY <1>1, IdsAre
  <2> QED BY <1>1, <1>2, <2>1
<1> QED BY <1>1, <1>2, <1>3 DEF q

LEMMA FollowsIsTree ==
    ASSUME JournalAssumption, NEW es \in Seq(Entry), NEW e, Follows(es, e),
           Ascending(es), Rooted(es), Parented(es)
    PROVE  /\ Ascending(Append(es, e)) /\ Rooted(Append(es, e)) /\ Parented(Append(es, e))
           /\ e.id \notin Ids(es) /\ 0 \notin Ids(Append(es, e))
<1> DEFINE q == Append(es, e)
<1>0. e \in Entry BY DEF Follows
<1>1. /\ q \in Seq(Entry) /\ Len(q) = Len(es) + 1 /\ q[Len(es) + 1] = e
      /\ \A i \in 1..Len(es) : q[i] = es[i]
      /\ 1..Len(q) = (1..Len(es)) \cup {Len(es) + 1}
      /\ Ids(q) = Ids(es) \cup {e.id}
  BY <1>0, AppendEntries
<1>2. Len(es) \in Nat OBVIOUS
<1> HIDE DEF q
<1>3. Ascending(q)
  <2> SUFFICES ASSUME NEW i \in 1..Len(q), NEW j \in 1..Len(q), i < j PROVE q[i].id < q[j].id
    BY DEF Ascending
  <2>1. i \in 1..Len(es) BY <1>1, <1>2
  <2>2. CASE j \in 1..Len(es) BY <1>1, <2>1, <2>2 DEF Ascending
  <2>3. CASE j = Len(es) + 1 BY <1>1, <2>1, <2>3 DEF Follows
  <2> QED BY <1>1, <2>2, <2>3
<1>4. Rooted(q) BY <1>1 DEF Rooted, Follows
<1>5. Parented(q) BY <1>1 DEF Parented, Follows
<1>6. \A i \in 1..Len(q) : q[i] \in Entry BY <1>1
<1>7. \A i \in 1..Len(q) : q[i].id > 0
  <2> SUFFICES ASSUME NEW i \in 1..Len(q) PROVE q[i].id > 0 OBVIOUS
  <2>1. q[i].id \in Nat /\ q[i].parent \in Nat /\ q[i].parent < q[i].id
    BY <1>4, <1>6, EntryFields DEF Rooted, Id, JournalAssumption
  <2> QED BY <2>1
<1>8. Ids(q) = {q[i].id : i \in 1..Len(q)} BY <1>1, IdsAre
<1>9. 0 \notin Ids(q) BY <1>7, <1>8
<1>10. e.id \notin Ids(es)
  <2>1. e.id \in Nat BY <1>0, EntryFields DEF Id, JournalAssumption
  <2>2. Ids(es) = {es[i].id : i \in 1..Len(es)} BY IdsAre
  <2> QED BY <2>1, <2>2 DEF Follows
<1> QED BY <1>3, <1>4, <1>5, <1>9, <1>10 DEF q

\* It changes the branch of no other entry.
LEMMA BranchOfAppend ==
    ASSUME JournalAssumption, NEW es \in Seq(Entry), NEW e, Follows(es, e),
           Ascending(es), Rooted(es), Parented(es)
    PROVE  \A i \in Ids(es) : BranchOf(Append(es, e), i) = BranchOf(es, i)
<1> DEFINE q == Append(es, e)
<1>0. e \in Entry BY DEF Follows
<1>1. /\ q \in Seq(Entry) /\ Len(q) = Len(es) + 1 /\ q[Len(es) + 1] = e
      /\ \A i \in 1..Len(es) : q[i] = es[i]
      /\ 1..Len(q) = (1..Len(es)) \cup {Len(es) + 1}
      /\ Ids(q) = Ids(es) \cup {e.id}
  BY <1>0, AppendEntries
<1>2. Ascending(q) /\ Rooted(q) /\ e.id \notin Ids(es) /\ 0 \notin Ids(q) BY FollowsIsTree
<1> HIDE DEF q
<1>3. Ids(es) \subseteq Id /\ Id \subseteq Nat /\ 0 \in Id /\ Ids(q) \subseteq Id
  BY <1>1, IdsAre DEF Id, JournalAssumption
<1>4. ASSUME NEW i \in Ids(es)
      PROVE Named(q, i) = Named(es, i) /\ Named(es, i).parent \in Ids(es) \cup {0}
  <2>1. PICK k \in 1..Len(es) : es[k].id = i BY IdsAre
  <2>2. Named(es, i) = es[k] BY <2>1, NamedIs
  <2>3. k \in 1..Len(q) /\ q[k] = es[k] BY <1>1
  <2>4. Named(q, i) = q[k] BY <1>1, <1>2, <2>1, <2>3, NamedIs
  <2> QED BY <2>2, <2>3, <2>4 DEF Parented
<1>5. BranchOf(q, 0) = "root" /\ BranchOf(es, 0) = "root"
  <2>1. 0 \notin Ids(es) BY <1>1, <1>2
  <2> QED BY <1>1, <1>2, <1>3, <2>1, BranchOfStep
<1> DEFINE T == {i \in Ids(es) : BranchOf(q, i) # BranchOf(es, i)}
<1>6. T = {}
  <2> SUFFICES ASSUME T # {} PROVE FALSE OBVIOUS
  <2>1. T \subseteq Nat BY <1>3
  <2>2. PICK n \in T : \A m \in T : n <= m BY <2>1, LeastNumber
  <2> DEFINE p == Named(es, n).parent
  <2>3. n \in Ids(es) /\ n \in Ids(q) /\ n \in Id BY <1>1, <1>3
  <2>4. p \in Ids(es) \cup {0} /\ Named(q, n) = Named(es, n) BY <1>4, <2>3
  <2>5. p < n /\ p \in Id BY <2>3, UpIsLess
  <2>6. p \notin T
    <3>1. p \in Nat /\ n \in Nat BY <1>3, <2>3, <2>5
    <3> QED BY <2>2, <2>5, <3>1
  <2>7. BranchOf(q, p) = BranchOf(es, p) BY <1>5, <2>4, <2>6
  <2>8. BranchOf(es, n) = IF Named(es, n).kind \in Label THEN Named(es, n).kind ELSE BranchOf(es, p)
    BY <2>3, BranchOfStep
  <2>9. BranchOf(q, n) = IF Named(q, n).kind \in Label THEN Named(q, n).kind
                         ELSE BranchOf(q, Named(q, n).parent)
    BY <1>1, <1>2, <2>3, BranchOfStep
  <2> QED BY <2>2, <2>4, <2>7, <2>8, <2>9
<1> QED BY <1>6 DEF q

-----------------------------------------------------------------------------
(* The heads of the branches *)

On(es, b) == {i \in 1..Len(es) : BranchOf(es, es[i].id) = b}

LEMMA HeadsAre ==
    ASSUME NEW es \in Seq(Entry)
    PROVE  RebuiltHeads(es) =
               [b \in Branch |-> IF On(es, b) = {} THEN 0 ELSE es[Max(On(es, b))].id]
<1>1. DOMAIN es = 1..Len(es) OBVIOUS
<1> QED BY <1>1 DEF RebuiltHeads, On

LEMMA HeadOn ==
    ASSUME NEW es \in Seq(Entry), NEW b, On(es, b) # {}
    PROVE  Max(On(es, b)) \in On(es, b) /\ \A n \in On(es, b) : n <= Max(On(es, b))
<1>1. Len(es) \in Nat /\ On(es, b) \subseteq 1..Len(es) BY DEF On
<1> QED BY <1>1, LastOfNumbers

LEMMA HeadsTyped ==
    ASSUME JournalAssumption, NEW es \in Seq(Entry)
    PROVE  /\ RebuiltHeads(es) \in [Branch -> Id]
           /\ \A b \in Branch : RebuiltHeads(es)[b] \in Ids(es) \cup {0}
<1>1. ASSUME NEW b \in Branch
      PROVE RebuiltHeads(es)[b] \in Ids(es) \cup {0}
  <2>1. CASE On(es, b) = {} BY <2>1, HeadsAre
  <2>2. CASE On(es, b) # {}
    <3>1. Max(On(es, b)) \in 1..Len(es) BY <2>2, HeadOn DEF On
    <3>2. es[Max(On(es, b))].id \in Ids(es) BY <3>1, IdsAre
    <3> QED BY <2>2, <3>2, HeadsAre
  <2> QED BY <2>1, <2>2
<1>2. Ids(es) \cup {0} \subseteq Id BY IdsAre DEF Id, JournalAssumption
<1>3. RebuiltHeads(es) = [b \in Branch |-> RebuiltHeads(es)[b]] BY HeadsAre
<1> QED BY <1>1, <1>2, <1>3

LEMMA HeadsOfAppend ==
    ASSUME JournalAssumption, NEW es \in Seq(Entry), NEW e, Follows(es, e),
           Ascending(es), Rooted(es), Parented(es)
    PROVE  RebuiltHeads(Append(es, e)) =
               [RebuiltHeads(es) EXCEPT ![BranchOf(Append(es, e), e.id)] = e.id]
<1> DEFINE q == Append(es, e)
           b0 == BranchOf(q, e.id)
<1>0. e \in Entry BY DEF Follows
<1>1. /\ q \in Seq(Entry) /\ Len(q) = Len(es) + 1 /\ q[Len(es) + 1] = e
      /\ \A i \in 1..Len(es) : q[i] = es[i]
      /\ 1..Len(q) = (1..Len(es)) \cup {Len(es) + 1}
  BY <1>0, AppendEntries
<1>2. \A i \in Ids(es) : BranchOf(q, i) = BranchOf(es, i) BY BranchOfAppend
<1>3. Len(es) \in Nat OBVIOUS
<1>4. Ids(es) = {es[i].id : i \in 1..Len(es)} BY IdsAre
<1> HIDE DEF q, b0
<1>5. ASSUME NEW b \in Branch
      PROVE  On(q, b) = On(es, b) \cup (IF b = b0 THEN {Len(es) + 1} ELSE {})
  <2>1. \A i \in 1..Len(es) : i \in On(q, b) <=> i \in On(es, b) BY <1>1, <1>2, <1>4 DEF On
  <2>2. Len(es) + 1 \in On(q, b) <=> b = b0 BY <1>1 DEF On, b0
  <2>3. On(q, b) \subseteq 1..Len(q) /\ On(es, b) \subseteq 1..Len(es) BY DEF On
  <2> QED BY <1>1, <2>1, <2>2, <2>3
<1>6. ASSUME NEW b \in Branch
      PROVE  RebuiltHeads(q)[b] = IF b = b0 THEN e.id ELSE RebuiltHeads(es)[b]
  <2>1. CASE b # b0
    <3>1. On(q, b) = On(es, b) BY <1>5, <2>1
    <3>2. On(es, b) # {} => Max(On(es, b)) \in 1..Len(es) BY HeadOn DEF On
    <3> QED BY <1>1, <2>1, <3>1, <3>2, HeadsAre
  <2>2. CASE b = b0
    <3> DEFINE m == Max(On(q, b))
    <3>1. Len(es) + 1 \in On(q, b) BY <1>5, <2>2
    <3>2. m \in On(q, b) /\ Len(es) + 1 <= m BY <1>1, <3>1, HeadOn
    <3>3. m \in 1..Len(q) BY <3>2 DEF On
    <3>4. m = Len(es) + 1 BY <1>1, <1>3, <3>2, <3>3
    <3> QED BY <1>1, <2>2, <3>1, <3>4, HeadsAre
  <2> QED BY <2>1, <2>2
<1>7. RebuiltHeads(q) = [b \in Branch |-> RebuiltHeads(q)[b]] BY <1>1, HeadsAre
<1>8. RebuiltHeads(es) \in [Branch -> Id] BY HeadsTyped
<1> QED BY <1>6, <1>7, <1>8 DEF q, b0

-----------------------------------------------------------------------------
(* Stores that are trees *)

Tree(m) ==
    /\ m \in Store /\ Ascending(m.entries) /\ Rooted(m.entries) /\ Parented(m.entries)
    /\ \A i \in 1..Len(m.entries) : m.entries[i].id < m.next
    /\ m.leaf \in Ids(m.entries) \cup {0}
    /\ m.heads = RebuiltHeads(m.entries)

LEMMA TreeIsTree ==
    ASSUME NEW m, Tree(m) PROVE IsTree(m)
<1> DEFINE es == m.entries
<1>1. es \in Seq(Entry) BY DEF Tree, Store
<1>2. DOMAIN es = 1..Len(es) /\ Range(es) = {es[i] : i \in 1..Len(es)} BY <1>1 DEF Range
<1>3. \A i, j \in 1..Len(es) : es[i].id = es[j].id => i = j BY <1>1, AscendingOnce DEF Tree
<1> HIDE DEF es
<1>4. \A i \in 1..Len(es) : /\ es[i].parent \in Ids(es) \cup {0}
                            /\ es[i].parent < es[i].id /\ es[i].id < m.next
  BY DEF Tree, Parented, Rooted, es
<1> QED BY <1>2, <1>3, <1>4 DEF IsTree, Tree, es

LEMMA AddedIsTree ==
    ASSUME JournalAssumption, NEW m, Tree(m), NEW e, Follows(m.entries, e),
           NEW n \in 1..(MaxEdits + 1), m.next <= n, e.id < n
    PROVE  LET a == [Added(m, e) EXCEPT !.next = n]
           IN  Tree(a) /\ a.entries = Append(m.entries, e) /\ a.next = n
               /\ a.id = m.id /\ a.goal = m.goal
<1> DEFINE es == m.entries
           q == Append(es, e)
           a == [Added(m, e) EXCEPT !.next = n]
<1>0. e \in Entry BY DEF Follows
<1>1. m \in Store /\ es \in Seq(Entry) /\ m.next \in 1..(MaxEdits + 1) BY DEF Tree, Store
<1>2. /\ q \in Seq(Entry) /\ Len(q) = Len(es) + 1 /\ q[Len(es) + 1] = e
      /\ \A i \in 1..Len(es) : q[i] = es[i]
      /\ 1..Len(q) = (1..Len(es)) \cup {Len(es) + 1}
      /\ Ids(q) = Ids(es) \cup {e.id}
  BY <1>0, <1>1, AppendEntries
<1>3. Ascending(q) /\ Rooted(q) /\ Parented(q) BY <1>1, FollowsIsTree DEF Tree
<1>4. RebuiltHeads(q) = [m.heads EXCEPT ![BranchOf(q, e.id)] = e.id]
  BY <1>1, HeadsOfAppend DEF Tree
<1>5. a = [entries |-> q, leaf |-> e.id, next |-> n, heads |-> RebuiltHeads(q),
           goal |-> m.goal, id |-> m.id]
  <2>1. m = [entries |-> es, leaf |-> m.leaf, next |-> m.next, heads |-> m.heads,
             goal |-> m.goal, id |-> m.id]
    BY <1>1 DEF Store
  <2> HIDE DEF q, es
  <2>2. Added(m, e) = [m EXCEPT !.entries = q, !.leaf = e.id, !.heads = RebuiltHeads(q)]
    BY <1>4 DEF Added, q, es
  <2> HIDE DEF a
  <2>3. Added(m, e) = [entries |-> q, leaf |-> e.id, next |-> m.next, heads |-> RebuiltHeads(q),
                       goal |-> m.goal, id |-> m.id]
    BY <2>1, <2>2, Zenon
  <2> QED BY <2>3 DEF a
<1>6. RebuiltHeads(q) \in [Branch -> Id] BY <1>2, HeadsTyped
<1>7. m.goal \in BOOLEAN /\ m.id \in File BY <1>1 DEF Store
<1>8. e.id \in Id BY <1>0, EntryFields
<1> HIDE DEF a
<1>9. a \in Store BY <1>2, <1>5, <1>6, <1>7, <1>8 DEF Store
<1>10. \A i \in 1..Len(q) : q[i].id < n
  <2>1. \A i \in 1..Len(es) : es[i] \in Entry BY <1>1
  <2>2. \A i \in 1..Len(es) : es[i].id \in Int BY <2>1, EntryFields DEF Id
  <2>3. \A i \in 1..Len(es) : es[i].id < n BY <1>1, <2>2 DEF Tree
  <2> QED BY <1>2, <2>3
<1> HIDE DEF q
<1>11. Tree(a) BY <1>2, <1>3, <1>5, <1>9, <1>10 DEF Tree
<1> QED BY <1>5, <1>11 DEF a, q

-----------------------------------------------------------------------------
(* Replaying *)

LEMMA ApplyTyped ==
    ASSUME JournalAssumption, NEW m, m.entries \in Seq(Entry), NEW s \in StateRecord
    PROVE  ApplyState(m, s) \in Store
<1> DEFINE es == m.entries
           known(id) == IF id \in Ids(es) THEN id ELSE 0
           heads == [b \in Branch |-> known(s.heads[b])]
           rebuilt == IF heads = NoHeads THEN RebuiltHeads(es) ELSE heads
<1>1. /\ s.heads \in [Branch -> Id] /\ s.leaf \in Id /\ s.next \in 1..(MaxEdits + 1)
      /\ s.goal \in BOOLEAN /\ s.id \in File
  BY DEF StateRecord
<1>2. 0 \in Id BY DEF Id, JournalAssumption
<1>3. heads \in [Branch -> Id] BY <1>1, <1>2
<1>4. RebuiltHeads(es) \in [Branch -> Id] BY HeadsTyped
<1>5. known(s.leaf) \in Id BY <1>1, <1>2
<1>6. ApplyState(m, s) = [entries |-> es, leaf |-> known(s.leaf), next |-> s.next,
                          heads |-> rebuilt, goal |-> s.goal, id |-> s.id]
  BY DEF ApplyState
<1> HIDE DEF es, known, heads
<1>7. rebuilt \in [Branch -> Id] BY <1>3, <1>4
<1> HIDE DEF rebuilt
<1> QED BY <1>1, <1>5, <1>6, <1>7 DEF Store, es

\* A tree's own state, applied to its entries, gives back the tree.
LEMMA ApplyGivesBack ==
    ASSUME JournalAssumption, NEW t, Tree(t), NEW m, m.entries = t.entries
    PROVE  ApplyState(m, StateOf(t)) = t
<1> DEFINE es == t.entries
           s == StateOf(t)
           known(id) == IF id \in Ids(es) THEN id ELSE 0
           heads == [b \in Branch |-> known(s.heads[b])]
<1>0. t \in Store /\ es \in Seq(Entry) BY DEF Tree, Store
<1>1. /\ s.leaf = t.leaf /\ s.next = t.next /\ s.heads = t.heads
      /\ s.goal = t.goal /\ s.id = t.id
  BY DEF StateOf
<1>2. known(t.leaf) = t.leaf BY DEF Tree
<1>3. t.heads = RebuiltHeads(es) /\ t.heads \in [Branch -> Id] BY <1>0 DEF Tree, Store
<1>4. heads = t.heads
  <2>1. \A b \in Branch : t.heads[b] \in Ids(es) \cup {0} BY <1>0, <1>3, HeadsTyped
  <2>2. \A b \in Branch : known(t.heads[b]) = t.heads[b] BY <2>1
  <2>3. t.heads = [b \in Branch |-> t.heads[b]] BY <1>3
  <2> HIDE DEF known, s
  <2> QED BY <1>1, <2>2, <2>3
<1>5. ApplyState(m, s) = [entries |-> es, leaf |-> known(s.leaf), next |-> s.next,
                          heads |-> IF heads = NoHeads THEN RebuiltHeads(es) ELSE heads,
                          goal |-> s.goal, id |-> s.id]
  BY DEF ApplyState
<1>6. t = [entries |-> es, leaf |-> t.leaf, next |-> t.next, heads |-> t.heads,
           goal |-> t.goal, id |-> t.id]
  BY <1>0 DEF Store
<1> HIDE DEF s, es, known, heads
<1>7. ApplyState(m, s) = [entries |-> es, leaf |-> t.leaf, next |-> t.next, heads |-> t.heads,
                          goal |-> t.goal, id |-> t.id]
  BY <1>1, <1>2, <1>3, <1>4, <1>5
<1> QED BY <1>6, <1>7 DEF s

LEMMA NewTyped ==
    ASSUME JournalAssumption
    PROVE  New \in Store /\ New.entries = <<>> /\ New.next = 1
<1>1. 0 \in Id /\ 1 \in 1..(MaxEdits + 1) BY DEF Id, JournalAssumption
<1>2. NoHeads \in [Branch -> Id] BY <1>1 DEF NoHeads
<1>3. <<>> \in Seq(Entry) OBVIOUS
<1> QED BY <1>1, <1>2, <1>3 DEF New, Store, File

LEMMA PushTyped ==
    ASSUME JournalAssumption, NEW m \in Store, NEW e \in Entry
    PROVE  PushLoaded(m, e) \in Store
<1> DEFINE q == Append(m.entries, e)
           h == [m.heads EXCEPT ![BranchOf(q, e.id)] = e.id]
           n == IF m.next > e.id THEN m.next ELSE e.id + 1
<1>1. /\ m.entries \in Seq(Entry) /\ m.next \in 1..(MaxEdits + 1) /\ m.heads \in [Branch -> Id]
      /\ m.goal \in BOOLEAN /\ m.id \in File
  BY DEF Store
<1>2. e.id \in Id BY EntryFields
<1>3. q \in Seq(Entry) BY <1>1
<1>4. h \in [Branch -> Id] BY <1>1, <1>2
<1>5. n \in 1..(MaxEdits + 1) BY <1>1, <1>2 DEF Id, JournalAssumption
<1>6. CASE e.id \in Ids(m.entries) BY <1>6 DEF PushLoaded
<1>7. CASE e.id \notin Ids(m.entries)
  <2>1. m = [entries |-> m.entries, leaf |-> m.leaf, next |-> m.next, heads |-> m.heads,
             goal |-> m.goal, id |-> m.id]
    BY DEF Store
  <2>2. Added(m, e) = [m EXCEPT !.entries = q, !.leaf = e.id, !.heads = h] BY DEF Added
  <2> HIDE DEF q, h, n
  <2>3. Added(m, e) = [entries |-> q, leaf |-> e.id, next |-> m.next, heads |-> h,
                       goal |-> m.goal, id |-> m.id]
    BY <2>1, <2>2, Zenon
  <2>4. PushLoaded(m, e) = [Added(m, e) EXCEPT !.next = n] BY <1>7 DEF PushLoaded, n
  <2>5. PushLoaded(m, e) = [entries |-> q, leaf |-> e.id, next |-> n, heads |-> h,
                            goal |-> m.goal, id |-> m.id]
    BY <2>3, <2>4
  <2> QED BY <1>1, <1>2, <1>3, <1>4, <1>5, <2>5 DEF Store
<1> QED BY <1>6, <1>7

LEMMA StepTyped ==
    ASSUME JournalAssumption, NEW m \in Store, NEW line \in JournalLine
    PROVE  Step(m, line) \in Store
<1>1. CASE line \in [type : {"snapshot"}, entries : Seq(Entry), state : StateRecord]
  <2> DEFINE a == [New EXCEPT !.entries = line.entries]
  <2>1. line.type = "snapshot" /\ line.entries \in Seq(Entry) /\ line.state \in StateRecord
    BY <1>1
  <2>2. a.entries = line.entries BY DEF New
  <2>3. Step(m, line) = ApplyState(a, line.state) BY <2>1 DEF Step
  <2> HIDE DEF a
  <2> QED BY <2>1, <2>2, <2>3, ApplyTyped
<1>2. CASE line \in [type : {"entry"}, entry : Entry]
  <2>1. line.type = "entry" /\ line.entry \in Entry BY <1>2
  <2> QED BY <2>1, PushTyped DEF Step
<1>3. CASE line \in [type : {"state"}, state : StateRecord]
  <2>1. line.type = "state" /\ line.state \in StateRecord BY <1>3
  <2>2. m.entries \in Seq(Entry) BY DEF Store
  <2> QED BY <2>1, <2>2, ApplyTyped DEF Step
<1>4. CASE line \in [type : Torn]
  <2>1. line.type \in {"torn", "cut"} BY <1>4 DEF Torn
  <2> QED BY <2>1 DEF Step
<1> QED BY <1>1, <1>2, <1>3, <1>4 DEF JournalLine

\* f holds the stores that replaying the lines one after the other gives.
Replays(f, lines) ==
    /\ f \in [0..Len(lines) -> Store] /\ f[0] = New
    /\ \A n \in 1..Len(lines) : f[n] = Step(f[n - 1], lines[n])

AfterIs(lines, g) ==
    g = [i \in 0..Len(lines) |->
            IF i = 0 THEN {New} ELSE {Step(m, lines[i]) : m \in g[i - 1]}]

LEMMA ReplayComputes ==
    ASSUME JournalAssumption, NEW lines \in Seq(JournalLine)
    PROVE  \E f : Replays(f, lines) /\ Replay(lines) = f[Len(lines)]
<1> DEFINE N == Len(lines)
           h == [x \in (1..N) \X Store |-> Step(x[2], lines[x[1]])]
<1>0. N \in Nat OBVIOUS
<1>1. h \in [(1..N) \X Store -> Store]
  <2> SUFFICES ASSUME NEW n \in 1..N, NEW m \in Store PROVE Step(m, lines[n]) \in Store
    OBVIOUS
  <2>1. lines[n] \in JournalLine OBVIOUS
  <2> QED BY <2>1, StepTyped
<1>2. \A n \in 1..N, m \in Store : h[<<n, m>>] = Step(m, lines[n]) OBVIOUS
<1> HIDE DEF h
<1>3. PICK f : Computes(f, N, Store, New, h)
  <2>1. New \in Store BY NewTyped
  <2> HIDE DEF N
  <2> QED BY <1>0, <1>1, <2>1, Recursion
<1>4. f \in [0..N -> Store] /\ f[0] = New /\ \A n \in 1..N : f[n] = Step(f[n - 1], lines[n])
  <2>1. f \in [0..N -> Store] /\ f[0] = New /\ \A n \in 1..N : f[n] = h[<<n, f[n - 1]>>]
    BY <1>3 DEF Computes
  <2>2. \A n \in 1..N : n - 1 \in 0..N BY <1>0
  <2>3. \A n \in 1..N : f[n - 1] \in Store BY <2>1, <2>2
  <2> QED BY <1>2, <2>1, <2>3
<1>5. Replays(f, lines) BY <1>4 DEF Replays
<1> DEFINE s == [i \in 0..N |-> {f[i]}]
<1>6. AfterIs(lines, s)
  <2> DEFINE G == [i \in 0..N |-> IF i = 0 THEN {New} ELSE {Step(m, lines[i]) : m \in s[i - 1]}]
  <2>1. ASSUME NEW i \in 0..N PROVE s[i] = G[i]
    <3>1. CASE i = 0 BY <1>4, <3>1
    <3>2. CASE i # 0
      <4>1. i \in 1..N /\ i - 1 \in 0..N BY <1>0, <3>2
      <4>2. s[i - 1] = {f[i - 1]} BY <4>1
      <4>3. f[i] = Step(f[i - 1], lines[i]) BY <1>4, <4>1
      <4>4. {Step(m, lines[i]) : m \in {f[i - 1]}} = {f[i]} BY <4>3
      <4> QED BY <3>2, <4>2, <4>4
    <3> QED BY <3>1, <3>2
  <2>2. s = [i \in 0..N |-> s[i]] /\ G = [i \in 0..N |-> G[i]] OBVIOUS
  <2> HIDE DEF s
  <2>3. s = G BY <2>1, <2>2
  <2> QED BY <2>3 DEF AfterIs
<1> DEFINE g == CHOOSE u : AfterIs(lines, u)
<1>7. AfterIs(lines, g) BY <1>6
<1>8. Replay(lines) = CHOOSE m \in g[N] : TRUE BY DEF Replay, AfterIs
<1> HIDE DEF g, s
<1>9. \A i \in 0..N : g[i] = IF i = 0 THEN {New} ELSE {Step(m, lines[i]) : m \in g[i - 1]}
  BY <1>7 DEF AfterIs
<1> DEFINE P == {n \in Nat : n <= N => g[n] = {f[n]}}
<1>10. 0 \in P
  <2>1. 0 \in 0..N BY <1>0
  <2>2. g[0] = {New} BY <1>9, <2>1, Zenon
  <2> QED BY <1>4, <2>2
<1>11. ASSUME NEW n \in Nat, n \in P PROVE n + 1 \in P
  <2> SUFFICES ASSUME n + 1 <= N PROVE g[n + 1] = {f[n + 1]} OBVIOUS
  <2>1. n + 1 \in 1..N /\ n + 1 \in 0..N /\ (n + 1) - 1 = n /\ n <= N BY <1>0
  <2>2. g[n] = {f[n]} BY <1>11, <2>1
  <2>3. n + 1 # 0 BY <1>0
  <2>4. g[n + 1] = {Step(m, lines[n + 1]) : m \in g[(n + 1) - 1]} BY <1>9, <2>1, <2>3, Zenon
  <2>5. g[n + 1] = {Step(m, lines[n + 1]) : m \in {f[n]}} BY <2>1, <2>2, <2>4
  <2>6. f[n + 1] = Step(f[n], lines[n + 1]) BY <1>4, <2>1
  <2> QED BY <2>5, <2>6
<1> HIDE DEF P
<1>12. N \in P BY <1>0, <1>10, <1>11, Induction
<1>13. g[N] = {f[N]} BY <1>0, <1>12 DEF P
<1>14. Replay(lines) = f[N]
  <2>1. \A m \in {f[N]} : m = f[N] OBVIOUS
  <2> QED BY <1>8, <1>13
<1> QED BY <1>5, <1>14

\* One more line is one more step.
LEMMA ReplayAppend ==
    ASSUME JournalAssumption, NEW lines \in Seq(JournalLine), NEW line \in JournalLine
    PROVE  /\ Replay(lines) \in Store
           /\ Replay(Append(lines, line)) = Step(Replay(lines), line)
<1> DEFINE N == Len(lines)
           more == Append(lines, line)
<1>0. /\ N \in Nat /\ more \in Seq(JournalLine) /\ Len(more) = N + 1 /\ more[N + 1] = line
      /\ \A n \in 1..N : more[n] = lines[n]
  OBVIOUS
<1>1. PICK f : Replays(f, lines) /\ Replay(lines) = f[N] BY ReplayComputes
<1> HIDE DEF more
<1>2. PICK g : Replays(g, more) /\ Replay(more) = g[N + 1] BY <1>0, ReplayComputes
<1>3. f \in [0..N -> Store] /\ f[0] = New /\ \A n \in 1..N : f[n] = Step(f[n - 1], lines[n])
  BY <1>1 DEF Replays
<1>4. g[0] = New /\ \A n \in 1..(N + 1) : g[n] = Step(g[n - 1], more[n])
  BY <1>0, <1>2 DEF Replays
<1> DEFINE P == {n \in Nat : n <= N => f[n] = g[n]}
<1>5. 0 \in P BY <1>3, <1>4
<1>6. ASSUME NEW n \in Nat, n \in P PROVE n + 1 \in P
  <2> SUFFICES ASSUME n + 1 <= N PROVE f[n + 1] = g[n + 1] OBVIOUS
  <2>1. n + 1 \in 1..N /\ n + 1 \in 1..(N + 1) /\ (n + 1) - 1 = n /\ n <= N BY <1>0
  <2>2. f[n] = g[n] BY <1>6, <2>1
  <2>3. f[n + 1] = Step(f[n], lines[n + 1]) BY <1>3, <2>1
  <2>4. g[n + 1] = Step(g[n], more[n + 1]) BY <1>4, <2>1
  <2> QED BY <1>0, <2>1, <2>2, <2>3, <2>4
<1> HIDE DEF P
<1>7. N \in P BY <1>0, <1>5, <1>6, Induction
<1>8. f[N] = g[N] BY <1>0, <1>7 DEF P
<1>9. g[N + 1] = Step(g[N], line)
  <2>1. N + 1 \in 1..(N + 1) /\ (N + 1) - 1 = N BY <1>0
  <2> QED BY <1>0, <1>4, <2>1
<1>10. f[N] \in Store BY <1>0, <1>3
<1> QED BY <1>1, <1>2, <1>8, <1>9, <1>10 DEF more

LEMMA ReplayNothing ==
    ASSUME JournalAssumption PROVE Replay(<<>>) = New
<1>1. <<>> \in Seq(JournalLine) /\ Len(<<>>) = 0 OBVIOUS
<1> QED BY <1>1, ReplayComputes DEF Replays

-----------------------------------------------------------------------------
(* Deleting a branch *)

SparedIs(es, ids, f) ==
    f = [n \in 0..Len(es) |->
            IF n = 0 THEN <<>>
            ELSE IF es[n].id \in ids THEN f[n - 1] ELSE Append(f[n - 1], es[n])]

SparedSteps(es, ids, f) ==
    /\ f[0] = <<>>
    /\ \A n \in 1..Len(es) : f[n] = IF es[n].id \in ids THEN f[n - 1] ELSE Append(f[n - 1], es[n])

LEMMA SparedComputes ==
    ASSUME NEW es \in Seq(Entry), NEW ids
    PROVE  \E f : SparedSteps(es, ids, f) /\ Spared(es, ids) = f[Len(es)]
<1> DEFINE N == Len(es)
           h == [x \in (1..N) \X Seq(Entry) |->
                   IF es[x[1]].id \in ids THEN x[2] ELSE Append(x[2], es[x[1]])]
<1>0. N \in Nat OBVIOUS
<1>1. h \in [(1..N) \X Seq(Entry) -> Seq(Entry)]
  <2> SUFFICES ASSUME NEW n \in 1..N, NEW v \in Seq(Entry)
               PROVE (IF es[n].id \in ids THEN v ELSE Append(v, es[n])) \in Seq(Entry)
    OBVIOUS
  <2>1. es[n] \in Entry OBVIOUS
  <2> QED BY <2>1
<1>2. \A n \in 1..N, v \in Seq(Entry) :
        h[<<n, v>>] = IF es[n].id \in ids THEN v ELSE Append(v, es[n])
  OBVIOUS
<1> HIDE DEF h
<1>3. PICK g \in [0..N -> Seq(Entry)] : g[0] = <<>> /\ \A n \in 1..N : g[n] = h[<<n, g[n - 1]>>]
  <2>1. <<>> \in Seq(Entry) OBVIOUS
  <2> HIDE DEF N
  <2>2. \E g : Computes(g, N, Seq(Entry), <<>>, h) BY <1>0, <1>1, <2>1, Recursion
  <2> QED BY <2>2 DEF Computes
<1>4. SparedIs(es, ids, g)
  <2> DEFINE G == [n \in 0..N |->
                     IF n = 0 THEN <<>>
                     ELSE IF es[n].id \in ids THEN g[n - 1] ELSE Append(g[n - 1], es[n])]
  <2>1. ASSUME NEW n \in 0..N PROVE g[n] = G[n]
    <3>1. CASE n = 0 BY <3>1, <1>3
    <3>2. CASE n # 0
      <4>1. n \in 1..N /\ n - 1 \in 0..N BY <3>2
      <4>2. g[n - 1] \in Seq(Entry) BY <4>1
      <4>3. g[n] = IF es[n].id \in ids THEN g[n - 1] ELSE Append(g[n - 1], es[n])
        BY <1>2, <1>3, <4>1, <4>2
      <4> QED BY <3>2, <4>3
    <3> QED BY <3>1, <3>2
  <2>2. g = [n \in 0..N |-> g[n]] OBVIOUS
  <2>3. g = G BY <2>1, <2>2
  <2> QED BY <2>3 DEF SparedIs
<1> DEFINE f == CHOOSE u : SparedIs(es, ids, u)
<1>5. SparedIs(es, ids, f) BY <1>4
<1>6. Spared(es, ids) = f[Len(es)] BY DEF Spared, SparedIs
<1> HIDE DEF f
<1>7. SparedSteps(es, ids, f)
  <2> DEFINE G == [n \in 0..N |->
                     IF n = 0 THEN <<>>
                     ELSE IF es[n].id \in ids THEN f[n - 1] ELSE Append(f[n - 1], es[n])]
  <2>1. f = G BY <1>5 DEF SparedIs
  <2>2. /\ G[0] = <<>>
        /\ \A n \in 1..N : G[n] = IF es[n].id \in ids THEN f[n - 1] ELSE Append(f[n - 1], es[n])
    BY <1>0
  <2> HIDE DEF G
  <2> QED BY <2>1, <2>2 DEF SparedSteps
<1> QED BY <1>6, <1>7

LEMMA SparedAre ==
    ASSUME NEW es \in Seq(Entry), NEW ids, Ascending(es)
    PROVE  /\ Spared(es, ids) \in Seq(Entry) /\ Ascending(Spared(es, ids))
           /\ In(Spared(es, ids)) = {e \in In(es) : e.id \notin ids}
<1> DEFINE N == Len(es)
<1>0. PICK f : SparedSteps(es, ids, f) /\ Spared(es, ids) = f[Len(es)] BY SparedComputes
<1>1. /\ Spared(es, ids) = f[N] /\ f[0] = <<>>
      /\ \A n \in 1..N : f[n] = IF es[n].id \in ids THEN f[n - 1] ELSE Append(f[n - 1], es[n])
  BY <1>0 DEF SparedSteps
<1>2. N \in Nat /\ \A n \in 1..N : es[n] \in Entry OBVIOUS
<1> DEFINE Early(n) == {e \in {es[i] : i \in 1..n} : e.id \notin ids}
           Good(n) == f[n] \in Seq(Entry) /\ Ascending(f[n]) /\ In(f[n]) = Early(n)
           P == {n \in Nat : n <= N => Good(n)}
<1>3. 0 \in P
  <2>1. f[0] \in Seq(Entry) /\ Len(f[0]) = 0 BY <1>1
  <2>2. 1..0 = {} OBVIOUS
  <2>3. In(f[0]) = {} /\ Ascending(f[0]) /\ Early(0) = {} BY <2>1, <2>2 DEF In, Ascending
  <2> QED BY <2>1, <2>3
<1>4. ASSUME NEW n \in Nat, n \in P PROVE n + 1 \in P
  <2> SUFFICES ASSUME n + 1 <= N PROVE Good(n + 1) OBVIOUS
  <2>1. Good(n) /\ n + 1 \in 1..N /\ (n + 1) - 1 = n BY <1>2, <1>4
  <2> DEFINE x == es[n + 1]
             q == Append(f[n], x)
  <2>2. x \in Entry BY <1>2, <2>1
  <2>3. f[n + 1] = IF x.id \in ids THEN f[n] ELSE q BY <1>1, <2>1
  <2>4. Early(n + 1) = Early(n) \cup (IF x.id \in ids THEN {} ELSE {x})
    <3>1. 1..(n + 1) = (1..n) \cup {n + 1} OBVIOUS
    <3> QED BY <3>1
  <2>5. \A e \in In(f[n]) : e.id < x.id
    <3> SUFFICES ASSUME NEW e \in Early(n) PROVE e.id < x.id BY <2>1
    <3>1. PICK i \in 1..n : e = es[i] OBVIOUS
    <3>2. i \in 1..N /\ i < n + 1 BY <1>2, <2>1
    <3> QED BY <2>1, <3>1, <3>2 DEF Ascending
  <2> HIDE DEF Early, x
  <2>6. CASE x.id \in ids BY <2>1, <2>3, <2>4, <2>6
  <2>7. CASE x.id \notin ids
    <3>1. f[n + 1] = q BY <2>3, <2>7
    <3>2. /\ q \in Seq(Entry) /\ In(q) = In(f[n]) \cup {x}
      BY <2>1, <2>2, AppendOnce
    <3>3. /\ Len(q) = Len(f[n]) + 1 /\ q[Len(f[n]) + 1] = x
          /\ \A i \in 1..Len(f[n]) : q[i] = f[n][i]
      BY <2>1, <2>2
    <3>4. Len(f[n]) \in Nat BY <2>1
    <3> HIDE DEF q
    <3>5. Ascending(q)
      <4> SUFFICES ASSUME NEW i \in 1..Len(q), NEW j \in 1..Len(q), i < j PROVE q[i].id < q[j].id
        BY DEF Ascending
      <4>1. i \in 1..Len(f[n]) BY <3>3, <3>4
      <4>2. CASE j \in 1..Len(f[n]) BY <2>1, <3>3, <4>1, <4>2 DEF Ascending
      <4>3. CASE j = Len(f[n]) + 1
        <5>1. f[n][i] \in In(f[n]) BY <4>1 DEF In
        <5> QED BY <2>5, <3>3, <4>1, <4>3, <5>1
      <4> QED BY <3>3, <3>4, <4>2, <4>3
    <3> QED BY <2>1, <2>4, <2>7, <3>1, <3>2, <3>5
  <2> QED BY <2>6, <2>7
<1> HIDE DEF P
<1>5. N \in P BY <1>2, <1>3, <1>4, Induction
<1>6. Good(N) BY <1>2, <1>5 DEF P
<1>7. Early(N) = {e \in In(es) : e.id \notin ids} BY DEF In
<1> QED BY <1>1, <1>6, <1>7

LEMMA InIds ==
    ASSUME NEW es \in Seq(Entry)
    PROVE  Ids(es) = {e.id : e \in In(es)} /\ Range(es) = In(es)
<1>1. DOMAIN es = 1..Len(es) OBVIOUS
<1> QED BY <1>1 DEF In, Ids, Range

LEMMA PrunedIsTree ==
    ASSUME JournalAssumption, Tree(mem), NEW i \in 1..Len(mem.entries)
    PROVE  LET p == Pruned(mem.entries[i].id)
           IN  /\ Tree(p) /\ p.next = mem.next /\ p.id = mem.id /\ p.goal = mem.goal
               /\ In(p.entries) \subseteq In(mem.entries)
               /\ mem.entries[i] \in In(mem.entries) \ In(p.entries)
<1> DEFINE es == mem.entries
           root == es[i].id
           gone == Descends(es, root)
           q == Spared(es, gone)
           up == Named(es, root).parent
           leaf == IF mem.leaf \in gone THEN IF up \in Ids(q) THEN up ELSE 0 ELSE mem.leaf
           p == Pruned(root)
<1>0. mem \in Store /\ es \in Seq(Entry) BY DEF Tree, Store
<1>1. Ascending(es) /\ Rooted(es) /\ Parented(es) BY DEF Tree
<1>2. q \in Seq(Entry) /\ Ascending(q) /\ In(q) = {e \in In(es) : e.id \notin gone}
  BY <1>0, <1>1, SparedAre
<1>3. es[i] \in In(es) /\ root \in Ids(es) BY <1>0, IdsAre DEF In
<1>4. /\ gone \subseteq Ids(es)
      /\ \A k \in Ids(es) : k \in gone <=> k = root \/ Named(es, k).parent \in gone
  <2> HIDE DEF root, es
  <2> QED BY <1>0, <1>1, <1>3, DescendsStep DEF es
<1>5. Ids(q) = Ids(es) \ gone
  <2>1. Ids(q) = {e.id : e \in In(q)} /\ Ids(es) = {e.id : e \in In(es)} BY <1>0, <1>2, InIds
  <2> HIDE DEF q, gone, es
  <2> QED BY <1>2, <2>1
<1>6. p = [entries |-> q, leaf |-> leaf, next |-> mem.next, heads |-> RebuiltHeads(q),
           goal |-> mem.goal, id |-> mem.id]
  <2>1. mem = [entries |-> mem.entries, leaf |-> mem.leaf, next |-> mem.next,
               heads |-> mem.heads, goal |-> mem.goal, id |-> mem.id]
    BY <1>0 DEF Store
  <2>2. p = [mem EXCEPT !.entries = q, !.heads = RebuiltHeads(q), !.leaf = leaf] BY DEF Pruned
  <2> HIDE DEF p, q, leaf
  <2> QED BY <2>1, <2>2, Zenon
<1> HIDE DEF p, q, gone, root
<1>7. \A k \in 1..Len(q) : q[k] \in In(es) /\ q[k].id \notin gone BY <1>2 DEF In
<1>8. \A e \in In(es) : \E k \in 1..Len(es) : e = es[k] BY DEF In
<1>9. Rooted(q) BY <1>1, <1>7, <1>8 DEF Rooted
<1>10. Parented(q)
  <2> SUFFICES ASSUME NEW k \in 1..Len(q) PROVE q[k].parent \in Ids(q) \cup {0} BY DEF Parented
  <2>1. PICK j \in 1..Len(es) : q[k] = es[j] BY <1>7, <1>8
  <2>2. es[j].parent \in Ids(es) \cup {0} BY <1>1 DEF Parented
  <2>3. Named(es, es[j].id) = es[j] BY <1>0, <1>1, NamedIs
  <2>4. es[j].id \in Ids(es) BY <1>0, IdsAre
  <2>5. es[j].parent \notin gone BY <1>4, <1>7, <2>1, <2>3, <2>4
  <2> QED BY <1>5, <2>1, <2>2, <2>5
<1>11. \A k \in 1..Len(q) : q[k].id < mem.next BY <1>7, <1>8 DEF Tree
<1>12. leaf \in Ids(q) \cup {0} BY <1>5 DEF Tree
<1>13. p \in Store
  <2>1. RebuiltHeads(q) \in [Branch -> Id] BY <1>2, HeadsTyped
  <2>2. leaf \in Id
    <3>1. Ids(q) \subseteq Id /\ 0 \in Id BY <1>2, IdsAre DEF Id, JournalAssumption
    <3> HIDE DEF leaf
    <3> QED BY <1>12, <3>1
  <2>3. mem.next \in 1..(MaxEdits + 1) /\ mem.goal \in BOOLEAN /\ mem.id \in File BY <1>0 DEF Store
  <2> HIDE DEF leaf
  <2> QED BY <1>2, <1>6, <2>1, <2>2, <2>3 DEF Store
<1>14. Tree(p)
  <2> HIDE DEF leaf
  <2> QED BY <1>2, <1>6, <1>9, <1>10, <1>11, <1>12, <1>13 DEF Tree
<1>15. es[i] \notin In(p.entries)
  <2>1. root \in gone BY <1>3, <1>4
  <2> QED BY <1>2, <1>6, <2>1 DEF root
<1>16. In(p.entries) \subseteq In(es) BY <1>2, <1>6
<1> HIDE DEF leaf
<1> QED BY <1>3, <1>6, <1>14, <1>15, <1>16 DEF p, root

\* There are as many ids as entries.
LEMMA LengthIsId ==
    ASSUME JournalAssumption, NEW es \in Seq(Entry), Ascending(es), Rooted(es)
    PROVE  Len(es) \in Id
<1> DEFINE N == Len(es)
           P == {n \in Nat : n + 1 <= N => n + 1 <= es[n + 1].id}
<1>0. N \in Nat /\ MaxEdits \in Nat /\ Id = 0..MaxEdits BY DEF JournalAssumption, Id
<1>1. ASSUME NEW n \in 1..N PROVE es[n].id \in Id /\ es[n].id > 0
  <2>1. es[n] \in Entry BY <1>1
  <2>2. es[n].id \in Id /\ es[n].parent \in Id BY <2>1, EntryFields
  <2>3. es[n].parent < es[n].id BY <1>1 DEF Rooted
  <2> QED BY <1>0, <2>2, <2>3
<1>2. 0 \in P
  <2> SUFFICES ASSUME 1 <= N PROVE 1 <= es[1].id OBVIOUS
  <2>1. 1 \in 1..N BY <1>0
  <2>2. es[1].id \in Id /\ es[1].id > 0 BY <1>1, <2>1
  <2> QED BY <1>0, <2>2
<1>3. ASSUME NEW n \in Nat, n \in P PROVE n + 1 \in P
  <2> SUFFICES ASSUME (n + 1) + 1 <= N PROVE (n + 1) + 1 <= es[(n + 1) + 1].id OBVIOUS
  <2>1. n + 1 <= N /\ n + 1 \in 1..N /\ (n + 1) + 1 \in 1..N /\ n + 1 < (n + 1) + 1 BY <1>0
  <2>2. n + 1 <= es[n + 1].id BY <1>3, <2>1
  <2>3. es[n + 1].id < es[(n + 1) + 1].id BY <2>1 DEF Ascending
  <2>4. es[n + 1].id \in Id /\ es[(n + 1) + 1].id \in Id BY <1>1, <2>1
  <2> QED BY <1>0, <2>2, <2>3, <2>4
<1> HIDE DEF P
<1>4. Nat \subseteq P BY <1>2, <1>3, Induction
<1>5. CASE N = 0 BY <1>0, <1>5
<1>6. CASE N > 0
  <2>1. N - 1 \in P /\ (N - 1) + 1 = N /\ N \in 1..N BY <1>0, <1>4, <1>6
  <2>2. N <= es[N].id BY <2>1 DEF P
  <2> QED BY <1>0, <1>1, <2>1, <2>2
<1> QED BY <1>0, <1>5, <1>6

-----------------------------------------------------------------------------
(* What is left of a file that is cut *)

\* The stores that the first lines give, as long as they are `low` or more.
Cuts(lines, low) == {Replay(SubSeq(lines, 1, n)) : n \in low..Len(lines)}

LEMMA FirstLines ==
    ASSUME NEW S, NEW q \in Seq(S), NEW n \in 0..Len(q)
    PROVE  /\ SubSeq(q, 1, n) \in Seq(S) /\ Len(SubSeq(q, 1, n)) = n
           /\ \A i \in 1..n : SubSeq(q, 1, n)[i] = q[i]
           /\ \A k \in 0..n : SubSeq(SubSeq(q, 1, n), 1, k) = SubSeq(q, 1, k)
           /\ SubSeq(q, 1, Len(q)) = q
<1>1. Len(q) \in Nat OBVIOUS
<1>2. ASSUME NEW k \in 0..Len(q)
      PROVE  /\ SubSeq(q, 1, k) \in Seq(S) /\ Len(SubSeq(q, 1, k)) = k
             /\ \A i \in 1..k : SubSeq(q, 1, k)[i] = q[i]
  <2>1. \A i \in 1..k : q[i] \in S BY <1>1
  <2> QED BY <1>1, <2>1
<1>3. SubSeq(q, 1, Len(q)) = q OBVIOUS
<1>4. ASSUME NEW k \in 0..n PROVE SubSeq(SubSeq(q, 1, n), 1, k) = SubSeq(q, 1, k)
  <2> DEFINE p == SubSeq(q, 1, n)
  <2>1. p \in Seq(S) /\ Len(p) = n /\ \A i \in 1..n : p[i] = q[i] BY <1>2
  <2>2. k \in 0..Len(q) /\ k \in 0..Len(p) BY <1>1, <2>1
  <2> HIDE DEF p
  <2>3. /\ SubSeq(p, 1, k) \in Seq(S) /\ Len(SubSeq(p, 1, k)) = k
        /\ \A i \in 1..k : SubSeq(p, 1, k)[i] = p[i]
    <3>1. \A i \in 1..k : p[i] \in S BY <2>1, <2>2
    <3> QED BY <2>1, <2>2, <3>1
  <2>4. /\ SubSeq(q, 1, k) \in Seq(S) /\ Len(SubSeq(q, 1, k)) = k
        /\ \A i \in 1..k : SubSeq(q, 1, k)[i] = q[i]
    BY <1>2, <2>2
  <2>5. \A i \in 1..k : p[i] = q[i] BY <2>1
  <2> QED BY <2>3, <2>4, <2>5, SeqEqual DEF p
<1> QED BY <1>1, <1>2, <1>3, <1>4

LEMMA CutsAre ==
    ASSUME NEW lines \in Seq(JournalLine), NEW low \in 0..Len(lines)
    PROVE  /\ Replay(lines) \in Cuts(lines, low)
           /\ Cuts(lines, Len(lines)) = {Replay(lines)}
<1>1. Len(lines) \in Nat /\ Len(lines) \in low..Len(lines) OBVIOUS
<1>2. SubSeq(lines, 1, Len(lines)) = lines OBVIOUS
<1>3. Len(lines)..Len(lines) = {Len(lines)} BY <1>1
<1> QED BY <1>1, <1>2, <1>3 DEF Cuts

LEMMA CutsOfAppend ==
    ASSUME JournalAssumption, NEW lines \in Seq(JournalLine), NEW low \in 0..Len(lines),
           NEW line \in JournalLine
    PROVE  Cuts(Append(lines, line), low) = Cuts(lines, low) \cup {Step(Replay(lines), line)}
<1> DEFINE N == Len(lines)
           more == Append(lines, line)
<1>1. /\ N \in Nat /\ more \in Seq(JournalLine) /\ Len(more) = N + 1
      /\ SubSeq(more, 1, N) = lines /\ SubSeq(more, 1, N + 1) = more
  OBVIOUS
<1>2. Replay(more) = Step(Replay(lines), line) BY ReplayAppend
<1> HIDE DEF more
<1>3. \A n \in 0..N : SubSeq(more, 1, n) = SubSeq(lines, 1, n)
  <2>1. N \in 0..Len(more) BY <1>1
  <2> QED BY <1>1, <2>1, FirstLines
<1>4. low..(N + 1) = (low..N) \cup {N + 1} /\ low..N \subseteq 0..N BY <1>1
<1>5. Cuts(more, low) = {Replay(SubSeq(more, 1, n)) : n \in (low..N) \cup {N + 1}}
  BY <1>1, <1>4 DEF Cuts
<1>6. \A n \in low..N : SubSeq(more, 1, n) = SubSeq(lines, 1, n) BY <1>3, <1>4
<1>7. Cuts(lines, low) = {Replay(SubSeq(lines, 1, n)) : n \in low..N} BY DEF Cuts
<1>8. Replay(SubSeq(more, 1, N + 1)) = Step(Replay(lines), line) BY <1>1, <1>2
<1> HIDE DEF N
<1>9. Cuts(more, low) \subseteq Cuts(lines, low) \cup {Step(Replay(lines), line)}
  BY <1>5, <1>6, <1>7, <1>8
<1>10. Cuts(lines, low) \subseteq Cuts(more, low) BY <1>5, <1>6, <1>7
<1>11. Step(Replay(lines), line) \in Cuts(more, low) BY <1>5, <1>8
<1> QED BY <1>9, <1>10, <1>11 DEF more

LEMMA CutsOfFirst ==
    ASSUME NEW lines \in Seq(JournalLine), NEW low \in Nat, NEW n \in low..Len(lines)
    PROVE  Cuts(SubSeq(lines, 1, n), low) \subseteq Cuts(lines, low)
<1>1. n \in 0..Len(lines) /\ low..n \subseteq low..Len(lines) /\ low..n \subseteq 0..n
  OBVIOUS
<1>2. Len(SubSeq(lines, 1, n)) = n BY <1>1, FirstLines
<1>3. \A k \in 0..n : SubSeq(SubSeq(lines, 1, n), 1, k) = SubSeq(lines, 1, k)
  BY <1>1, FirstLines
<1> QED BY <1>1, <1>2, <1>3 DEF Cuts

\* A torn line tells nothing.
LEMMA TornStep ==
    ASSUME NEW m, NEW kind \in Torn
    PROVE  /\ [type |-> kind] \in JournalLine
           /\ Step(m, [type |-> kind]) = m
BY DEF Torn, JournalLine, Step

\* A power cut in the middle of a line leaves the lines before it.
LEMMA CutsOfTorn ==
    ASSUME JournalAssumption, NEW lines \in Seq(JournalLine), NEW low \in Nat,
           NEW n \in low..Len(lines), n > low, NEW kind \in Torn
    PROVE  LET cut == Append(Front(SubSeq(lines, 1, n)), [type |-> kind])
           IN  /\ cut \in Seq(JournalLine) /\ Len(cut) = n
               /\ Cuts(cut, low) \subseteq Cuts(lines, low)
<1> DEFINE left == SubSeq(lines, 1, n)
           whole == SubSeq(lines, 1, n - 1)
           line == [type |-> kind]
<1>1. n \in 0..Len(lines) /\ n - 1 \in low..Len(lines) /\ n - 1 \in 0..n /\ n - 1 \in 0..Len(lines)
  OBVIOUS
<1>2. Len(left) = n BY <1>1, FirstLines
<1>3. Front(left) = whole BY <1>1, <1>2, FirstLines DEF Front
<1>4. whole \in Seq(JournalLine) /\ Len(whole) = n - 1 BY <1>1, FirstLines
<1>5. low \in 0..Len(whole) BY <1>1, <1>4
<1>6. line \in JournalLine BY TornStep
<1> HIDE DEF whole, line, left
<1>7. Cuts(Append(whole, line), low) = Cuts(whole, low) \cup {Step(Replay(whole), line)}
  BY <1>4, <1>5, <1>6, CutsOfAppend
<1>8. Step(Replay(whole), line) = Replay(whole) BY TornStep DEF line
<1>9. Replay(whole) \in Cuts(whole, low) BY <1>4, <1>5, CutsAre
<1>10. Cuts(whole, low) \subseteq Cuts(lines, low) BY <1>1, CutsOfFirst DEF whole
<1>11. Append(whole, line) \in Seq(JournalLine) /\ Len(Append(whole, line)) = n BY <1>4, <1>6
<1> QED BY <1>3, <1>7, <1>8, <1>9, <1>10, <1>11 DEF line, left

-----------------------------------------------------------------------------
(* The invariant *)

Survivor(m) ==
    Tree(m) /\ m.id = "own" /\ m.next <= edits + 1 /\ acked \subseteq In(m.entries)

\* The store m has the first entries of memory, k of them or more.
BeginsWith(m, k) ==
    \E n \in k..Len(mem.entries) : m.entries = SubSeq(mem.entries, 1, n)

StateLine == [type |-> "state", state |-> StateOf(mem)]
SnapshotLine == [type |-> "snapshot", entries |-> mem.entries, state |-> StateOf(mem)]

\* The records of the entries after the k-th, and the state.
Rest(k) ==
    LET n == Len(mem.entries) - k
    IN  [i \in 1..(n + 1) |->
            IF i <= n THEN [type |-> "entry", entry |-> mem.entries[k + i]] ELSE StateLine]

\* A save with the records w before it completes m, the store of its file.
Completes(w, m) ==
    \/ needs /\ w = <<SnapshotLine, StateLine>>
    \/ \E k \in 0..Len(mem.entries) : /\ needs \/ persisted <= k
                                      /\ w = Rest(k) /\ BeginsWith(m, k)
    \/ w = <<>> /\ m = mem

Stored == Replay(file["own"])

JournalTyped ==
    /\ persisted \in Id /\ needs \in BOOLEAN
    /\ needs \/ persisted <= Len(mem.entries)
    /\ file \in [File -> Seq(JournalLine)] /\ file["fresh"] = <<>>
    /\ open \in [File -> BOOLEAN]
    /\ synced \in [File -> Nat] /\ synced["fresh"] = 0 /\ synced["own"] <= Len(file["own"])
    /\ todo \in Seq(JournalLine)
    /\ pc \in {"idle", "save", "down"}
    /\ acked \subseteq Entry
    /\ edits \in 0..MaxEdits /\ tears \in 0..MaxTears /\ crashes \in 0..MaxCrashes

Memory ==
    /\ Tree(mem) /\ mem.id = "own" /\ mem.next <= edits + 1
    /\ pc = "down" => mem.entries = <<>> /\ ~needs /\ persisted = 0
    /\ pc # "down" => acked \subseteq In(mem.entries)

Survives == \A m \in Cuts(file["own"], synced["own"]) : Survivor(m)

Saving ==
    /\ Len(file["own"]) + Len(todo) <= MaxLines
    /\ pc # "save" => todo = <<>>
    /\ pc = "save" => ~open["own"] /\ Completes(todo, Stored)
    /\ pc = "idle" => needs \/ BeginsWith(Stored, persisted)

JournalInv == JournalTyped /\ Memory /\ Survives /\ Saving

LEMMA StoredSurvives ==
    ASSUME JournalTyped, Survives
    PROVE  /\ file["own"] \in Seq(JournalLine) /\ synced["own"] \in 0..Len(file["own"])
           /\ Survivor(Stored) /\ Stored \in Store
<1>1. file["own"] \in Seq(JournalLine) /\ synced["own"] \in 0..Len(file["own"])
  BY DEF JournalTyped, File
<1>2. Stored \in Cuts(file["own"], synced["own"]) BY <1>1, CutsAre DEF Stored
<1> QED BY <1>1, <1>2 DEF Survives, Survivor, Tree

LEMMA StateTyped ==
    ASSUME NEW m \in Store PROVE StateOf(m) \in StateRecord
BY DEF Store, StateOf, StateRecord

LEMMA RestIs ==
    ASSUME mem \in Store, NEW k \in 0..Len(mem.entries)
    PROVE  /\ Rest(k) \in Seq(JournalLine) /\ Len(Rest(k)) = Len(mem.entries) - k + 1
           /\ k < Len(mem.entries) =>
                 /\ Head(Rest(k)) = [type |-> "entry", entry |-> mem.entries[k + 1]]
                 /\ Tail(Rest(k)) = Rest(k + 1)
           /\ k = Len(mem.entries) => Rest(k) = <<StateLine>>
<1> DEFINE es == mem.entries
           n == Len(es) - k
           Line(i) == IF i <= n THEN [type |-> "entry", entry |-> es[k + i]] ELSE StateLine
<1>1. es \in Seq(Entry) /\ Len(es) \in Nat /\ n \in Nat BY DEF Store
<1>2. StateLine \in JournalLine BY StateTyped DEF JournalLine, StateLine
<1>3. \A i \in 1..(n + 1) : Line(i) \in JournalLine
  <2> SUFFICES ASSUME NEW i \in 1..(n + 1) PROVE Line(i) \in JournalLine OBVIOUS
  <2>1. CASE i <= n
    <3>1. k + i \in 1..Len(es) BY <1>1, <2>1
    <3>2. es[k + i] \in Entry BY <1>1, <3>1
    <3> QED BY <2>1, <3>2 DEF JournalLine
  <2>2. CASE ~(i <= n) BY <1>2, <2>2
  <2> QED BY <2>1, <2>2
<1>4. Rest(k) = [i \in 1..(n + 1) |-> Line(i)] BY DEF Rest
<1> HIDE DEF Line
<1>5. Rest(k) \in Seq(JournalLine) /\ Len(Rest(k)) = n + 1 BY <1>1, <1>3, <1>4
<1>6. ASSUME k < Len(es)
      PROVE  Head(Rest(k)) = [type |-> "entry", entry |-> es[k + 1]] /\ Tail(Rest(k)) = Rest(k + 1)
  <2>1. 1 \in 1..(n + 1) /\ 1 <= n BY <1>1, <1>6
  <2>2. Head(Rest(k)) = Line(1) BY <1>4, <1>5, <2>1
  <2>3. Rest(k + 1) = [i \in 1..n |-> IF i <= n - 1 THEN [type |-> "entry", entry |-> es[(k + 1) + i]]
                                      ELSE StateLine]
    <3>1. Len(es) - (k + 1) = n - 1 /\ (n - 1) + 1 = n BY <1>1, <1>6
    <3> QED BY <3>1 DEF Rest
  <2>4. \A i \in 1..n : Rest(k + 1)[i] = Line(i + 1)
    <3> SUFFICES ASSUME NEW i \in 1..n PROVE Rest(k + 1)[i] = Line(i + 1) OBVIOUS
    <3>1. i <= n - 1 <=> i + 1 <= n BY <1>1
    <3>2. (k + 1) + i = k + (i + 1) BY <1>1
    <3> QED BY <2>3, <3>1, <3>2 DEF Line
  <2>5. Tail(Rest(k)) \in Seq(JournalLine) /\ Len(Tail(Rest(k))) = n
        /\ \A i \in 1..n : Tail(Rest(k))[i] = Line(i + 1)
    <3>1. \A i \in 1..n : i + 1 \in 1..(n + 1) BY <1>1
    <3>2. \A i \in 1..n : Rest(k)[i + 1] = Line(i + 1) BY <1>4, <3>1
    <3>3. Rest(k) # <<>> BY <1>5, <1>1
    <3> HIDE DEF n
    <3> QED BY <1>1, <1>5, <3>2, <3>3
  <2>6. Rest(k + 1) \in Seq(JournalLine) /\ Len(Rest(k + 1)) = n
    <3>1. \A i \in 1..n : Line(i + 1) \in JournalLine BY <1>1, <1>3
    <3>2. Rest(k + 1) = [i \in 1..n |-> Line(i + 1)] BY <2>3, <2>4
    <3> HIDE DEF n
    <3> QED BY <1>1, <3>1, <3>2
  <2>7. Tail(Rest(k)) = Rest(k + 1)
    <3> HIDE DEF n
    <3> QED BY <2>4, <2>5, <2>6, SeqEqual
  <2> QED BY <2>1, <2>2, <2>7 DEF Line
<1>7. ASSUME k = Len(es) PROVE Rest(k) = <<StateLine>>
  <2>1. n = 0 /\ 1..(n + 1) = {1} BY <1>1, <1>7
  <2>2. Rest(k)[1] = StateLine BY <1>4, <2>1 DEF Line
  <2>3. Len(Rest(k)) = 1 BY <1>5, <2>1
  <2>4. <<StateLine>> \in Seq(JournalLine) /\ Len(<<StateLine>>) = 1 /\ <<StateLine>>[1] = StateLine
    BY <1>2
  <2>5. \A i \in 1..1 : Rest(k)[i] = <<StateLine>>[i] BY <2>2, <2>4
  <2> QED BY <1>5, <2>3, <2>4, <2>5, SeqEqual
<1> QED BY <1>1, <1>5, <1>6, <1>7

\* A record of a save, written behind the lines that were there, changes what a
\* restart gives back by entries of memory only.
Advances(old, new) ==
    /\ Survivor(new)
    /\ In(new.entries) \ In(old.entries) \subseteq In(mem.entries)
    /\ (In(old.entries) \ In(new.entries)) \cap In(mem.entries) = {}

LEMMA EntryWritten ==
    ASSUME JournalAssumption, Tree(mem), mem.next <= edits + 1, edits \in 0..MaxEdits,
           NEW m, Survivor(m), NEW k \in 0..Len(mem.entries), BeginsWith(m, k), k < Len(mem.entries)
    PROVE  LET new == PushLoaded(m, mem.entries[k + 1])
           IN  BeginsWith(new, k + 1) /\ Advances(m, new)
<1> DEFINE es == mem.entries
           e == es[k + 1]
           new == PushLoaded(m, e)
<1>1. es \in Seq(Entry) /\ Len(es) \in Nat /\ Ascending(es) /\ Rooted(es) /\ Parented(es)
  BY DEF Tree, Store
<1>2. k + 1 \in 1..Len(es) /\ e \in Entry BY <1>1
<1>3. PICK n \in k..Len(es) : m.entries = SubSeq(es, 1, n) BY DEF BeginsWith
<1>4. n \in 0..Len(es) BY <1>1
<1>5. /\ m.entries \in Seq(Entry) /\ Len(m.entries) = n
      /\ \A i \in 1..n : m.entries[i] = es[i]
  BY <1>1, <1>3, <1>4, FirstLines
<1>6. Ids(m.entries) = {es[i].id : i \in 1..n} BY <1>5, IdsAre
<1>7. CASE n > k
  <2>1. k + 1 \in 1..n BY <1>2, <1>4, <1>7
  <2>2. e.id \in Ids(m.entries) BY <1>6, <2>1
  <2>3. new = m BY <2>2 DEF PushLoaded
  <2>4. n \in (k + 1)..Len(es) BY <1>4, <1>7
  <2> QED BY <1>3, <2>3, <2>4 DEF BeginsWith, Advances
<1>8. CASE n = k
  <2>1. \A i \in 1..n : i \in 1..Len(es) /\ es[i].id < e.id
    BY <1>1, <1>2, <1>4, <1>8 DEF Ascending
  <2>2. \A i \in 1..n : es[i].id # e.id
    <3> SUFFICES ASSUME NEW i \in 1..n PROVE es[i].id # e.id OBVIOUS
    <3>1. es[i] \in Entry /\ es[i].id < e.id BY <1>1, <2>1
    <3>2. es[i].id \in Nat /\ e.id \in Nat BY <1>2, <3>1, EntryNumbers
    <3> QED BY <3>1, <3>2
  <2>3. e.id \notin Ids(m.entries) BY <1>6, <2>2
  <2>4. e.parent \in Ids(m.entries) \cup {0}
    <3> SUFFICES ASSUME e.parent # 0 PROVE e.parent \in Ids(m.entries) OBVIOUS
    <3>1. e.parent \in Ids(es) /\ e.parent < e.id BY <1>2, <1>1 DEF Parented, Rooted
    <3>2. PICK j \in 1..Len(es) : es[j].id = e.parent BY <1>1, <3>1, IdsAre
    <3>3. j \in 1..n
      <4> SUFFICES ASSUME j > n PROVE FALSE BY <1>4
      <4>1. es[j] \in Entry BY <1>1
      <4>2. es[j].id \in Nat /\ e.id \in Nat BY <1>2, <4>1, EntryNumbers
      <4>3. j = k + 1 \/ k + 1 < j BY <1>8
      <4>4. k + 1 < j => e.id < es[j].id BY <1>1, <1>2 DEF Ascending
      <4>5. j = k + 1 => es[j] = e OBVIOUS
      <4>6. es[j].id < e.id BY <3>1, <3>2
      <4> HIDE DEF e, es
      <4> QED BY <4>2, <4>3, <4>4, <4>5, <4>6
    <3> QED BY <1>6, <3>2, <3>3
  <2>5. Follows(m.entries, e)
    BY <1>1, <1>2, <1>5, <2>1, <2>4 DEF Follows, Rooted
  <2> DEFINE nx == IF m.next > e.id THEN m.next ELSE e.id + 1
  <2>6. Tree(m) /\ m.next \in 1..(MaxEdits + 1) /\ m.next <= edits + 1 BY DEF Survivor, Tree, Store
  <2>7. /\ nx \in 1..(MaxEdits + 1) /\ m.next <= nx /\ e.id < nx
        /\ nx <= edits + 1
    <3>1. e.id \in Id BY <1>2, EntryFields
    <3>2. e.id < mem.next BY <1>2 DEF Tree
    <3>3. mem.next \in Nat BY DEF Tree, Store
    <3>4. MaxEdits \in Nat BY DEF JournalAssumption
    <3>5. e.id \in 0..MaxEdits BY <3>1 DEF Id
    <3>6. e.id < edits + 1 /\ edits \in Nat /\ edits <= MaxEdits BY <3>2, <3>3, <3>4, <3>5
    <3>7. CASE m.next > e.id BY <2>6, <3>4, <3>5, <3>7
    <3>8. CASE ~(m.next > e.id)
      <4> HIDE DEF e
      <4>1. nx = e.id + 1 BY <3>8
      <4>2. m.next \in Nat /\ e.id \in Nat BY <2>6, <3>4, <3>5
      <4>3. nx \in 1..(MaxEdits + 1) /\ nx <= edits + 1 BY <3>4, <3>5, <3>6, <4>1
      <4>4. m.next <= nx /\ e.id < nx BY <3>8, <4>1, <4>2
      <4> QED BY <4>3, <4>4
    <3> QED BY <3>7, <3>8
  <2>8. new = [Added(m, e) EXCEPT !.next = nx] BY <2>3 DEF PushLoaded
  <2> HIDE DEF nx, e, es, new
  <2>9. Tree(new) /\ new.entries = Append(m.entries, e) /\ new.next = nx /\ new.id = m.id
    BY <2>5, <2>6, <2>7, <2>8, AddedIsTree
  <2>10. new.entries = SubSeq(es, 1, k + 1)
    <3>1. Append(SubSeq(es, 1, k), es[k + 1]) = SubSeq(es, 1, k + 1) BY <1>1, <1>2
    <3> QED BY <1>3, <1>8, <2>9, <3>1 DEF e
  <2>11. k + 1 \in (k + 1)..Len(es) BY <1>1, <1>2
  <2>12. BeginsWith(new, k + 1) BY <2>10, <2>11 DEF BeginsWith, es
  <2>13. In(new.entries) = In(m.entries) \cup {e} BY <1>2, <1>5, <2>9, AppendOnce
  <2>14. e \in In(es) BY <1>2 DEF In, e
  <2>15. Survivor(new) BY <2>7, <2>9, <2>13 DEF Survivor
  <2> QED BY <2>12, <2>13, <2>14, <2>15 DEF Advances, new, e, es
<1> QED BY <1>4, <1>7, <1>8

\* Whatever record of a save is next.
LEMMA RecordWritten ==
    ASSUME JournalAssumption, JournalInv, pc = "save", todo # <<>>
    PROVE  LET new == Step(Stored, Head(todo))
           IN  /\ Head(todo) \in JournalLine /\ Tail(todo) \in Seq(JournalLine)
               /\ Completes(Tail(todo), new) /\ Advances(Stored, new)
<1> DEFINE new == Step(Stored, Head(todo))
           es == mem.entries
<1>1. Survivor(Stored) /\ Stored \in Store BY StoredSurvives DEF JournalInv
<1>2. Tree(mem) /\ mem \in Store /\ es \in Seq(Entry) /\ Len(es) \in Nat
  BY DEF JournalInv, Memory, Tree, Store
<1>3. Survivor(mem) BY DEF JournalInv, Memory, Survivor
<1>4. Head(todo) \in JournalLine /\ Tail(todo) \in Seq(JournalLine)
  <2>1. todo \in Seq(JournalLine) BY DEF JournalInv, JournalTyped
  <2> QED BY <2>1
<1>5. CASE needs /\ todo = <<SnapshotLine, StateLine>>
  <2> DEFINE a == [New EXCEPT !.entries = es]
  <2>1. Head(todo) = SnapshotLine /\ Tail(todo) = <<StateLine>> BY <1>5
  <2>2. a.entries = es BY DEF New
  <2>3. new = ApplyState(a, StateOf(mem)) BY <2>1 DEF Step, SnapshotLine
  <2> HIDE DEF a, new
  <2>4. new = mem BY <1>2, <2>2, <2>3, ApplyGivesBack
  <2>5. Tail(todo) = Rest(Len(es)) /\ Len(es) \in 0..Len(es)
    <3>1. Len(es) \in 0..Len(es) BY <1>2
    <3>2. Rest(Len(es)) = <<StateLine>> BY <1>2, <3>1, RestIs
    <3> QED BY <2>1, <3>1, <3>2
  <2>6. BeginsWith(new, Len(es))
    <3>1. SubSeq(es, 1, Len(es)) = es /\ Len(es) \in Len(es)..Len(es) BY <1>2
    <3> QED BY <2>4, <3>1 DEF BeginsWith
  <2>7. Completes(Tail(todo), new) BY <1>5, <2>5, <2>6 DEF Completes
  <2> QED BY <1>3, <1>4, <2>4, <2>7 DEF Advances, new
<1>6. ASSUME NEW k \in 0..Len(es), needs \/ persisted <= k, todo = Rest(k), BeginsWith(Stored, k)
      PROVE  Completes(Tail(todo), new) /\ Advances(Stored, new)
  <2>1. CASE k < Len(es)
    <3>1. /\ Head(todo) = [type |-> "entry", entry |-> es[k + 1]]
          /\ Tail(todo) = Rest(k + 1)
      BY <1>2, <1>6, <2>1, RestIs
    <3>2. new = PushLoaded(Stored, es[k + 1]) BY <3>1 DEF Step
    <3>3. edits \in 0..MaxEdits /\ mem.next <= edits + 1 BY DEF JournalInv, JournalTyped, Memory
    <3> HIDE DEF new
    <3>4. BeginsWith(new, k + 1) /\ Advances(Stored, new)
      BY <1>1, <1>2, <1>6, <2>1, <3>2, <3>3, EntryWritten
    <3>5. k + 1 \in 0..Len(es) /\ (needs \/ persisted <= k + 1)
      <4>1. persisted \in Nat BY DEF JournalInv, JournalTyped, Id, JournalAssumption
      <4> QED BY <1>2, <1>6, <2>1, <4>1
    <3> QED BY <3>1, <3>4, <3>5 DEF Completes
  <2>2. CASE k = Len(es)
    <3>1. todo = <<StateLine>> BY <1>2, <1>6, <2>2, RestIs
    <3>2. Head(todo) = StateLine /\ Tail(todo) = <<>> BY <3>1
    <3>3. new = ApplyState(Stored, StateOf(mem)) BY <3>2 DEF Step, StateLine
    <3>4. Stored.entries = es
      <4>1. PICK n \in k..Len(es) : Stored.entries = SubSeq(es, 1, n) BY <1>6 DEF BeginsWith
      <4>2. n = Len(es) BY <1>2, <2>2, <4>1
      <4> QED BY <1>2, <4>1, <4>2
    <3> HIDE DEF new
    <3>5. new = mem BY <1>2, <3>3, <3>4, ApplyGivesBack
    <3> QED BY <1>3, <3>2, <3>4, <3>5 DEF Completes, Advances
  <2> QED BY <1>2, <1>6, <2>1, <2>2
<1>7. Completes(todo, Stored) BY DEF JournalInv, Saving
<1> HIDE DEF new
<1>8. CASE \E k \in 0..Len(es) : /\ needs \/ persisted <= k
                                 /\ todo = Rest(k) /\ BeginsWith(Stored, k)
  BY <1>4, <1>6, <1>8 DEF new
<1> QED BY <1>5, <1>7, <1>8 DEF Completes, new

\* A save that fails leaves a file that the next save can go on with.
LEMMA CompletedBegins ==
    ASSUME Tree(mem), NEW m, NEW w, Completes(w, m), needs \/ persisted <= Len(mem.entries),
           persisted \in Nat
    PROVE  needs \/ BeginsWith(m, persisted)
<1> DEFINE es == mem.entries
<1>1. es \in Seq(Entry) /\ Len(es) \in Nat BY DEF Tree, Store
<1>2. ASSUME NEW k \in 0..Len(es), persisted <= k, BeginsWith(m, k)
      PROVE BeginsWith(m, persisted)
  <2>1. PICK n \in k..Len(es) : m.entries = SubSeq(es, 1, n) BY <1>2 DEF BeginsWith
  <2>2. n \in persisted..Len(es) BY <1>1, <1>2
  <2> QED BY <2>1, <2>2 DEF BeginsWith
<1>3. ASSUME m = mem, persisted <= Len(es) PROVE BeginsWith(m, persisted)
  <2>1. SubSeq(es, 1, Len(es)) = es /\ Len(es) \in persisted..Len(es) BY <1>1, <1>3
  <2> QED BY <1>3, <2>1 DEF BeginsWith
<1> QED BY <1>2, <1>3 DEF Completes

-----------------------------------------------------------------------------
(* The first state *)

LEMMA EmptyIsTree ==
    ASSUME JournalAssumption, NEW m \in Store, m.entries = <<>>, m.leaf = 0, m.heads = NoHeads
    PROVE  Tree(m) /\ In(m.entries) = {}
<1>1. m.entries \in Seq(Entry) /\ Len(m.entries) = 0 /\ 1..0 = {} OBVIOUS
<1>2. \A b : On(m.entries, b) = {} BY <1>1 DEF On
<1>3. RebuiltHeads(m.entries) = NoHeads
  <2>1. RebuiltHeads(m.entries) = [b \in Branch |-> 0] BY <1>1, <1>2, HeadsAre
  <2> QED BY <2>1 DEF NoHeads
<1> QED BY <1>1, <1>3 DEF Tree, In, Ascending, Rooted, Parented

LEMMA OwnNew ==
    ASSUME JournalAssumption, NEW m, m = [New EXCEPT !.id = "own"]
    PROVE  Tree(m) /\ m \in Store /\ m.id = "own" /\ m.next = 1 /\ m.entries = <<>> /\ In(m.entries) = {}
<1>1. /\ New \in Store /\ New.entries = <<>> /\ New.next = 1 /\ New.leaf = 0
      /\ New.heads = NoHeads
  BY NewTyped DEF New
<1>2. New = [entries |-> New.entries, leaf |-> New.leaf, next |-> New.next, heads |-> New.heads,
             goal |-> New.goal, id |-> New.id]
  BY DEF New
<1>3. m = [entries |-> New.entries, leaf |-> New.leaf, next |-> New.next, heads |-> New.heads,
           goal |-> New.goal, id |-> "own"]
  BY <1>2, Zenon
<1>4. m \in Store BY <1>1, <1>3 DEF Store, File
<1>5. m.entries = <<>> /\ m.leaf = 0 /\ m.heads = NoHeads /\ m.next = 1 /\ m.id = "own"
  BY <1>1, <1>3
<1> QED BY <1>4, <1>5, EmptyIsTree

LEMMA FirstStored ==
    ASSUME JournalAssumption, FirstSaved, JournalInit
    PROVE  StateLine \in JournalLine /\ file["own"] = <<StateLine>> /\ Stored = mem
<1>1. Tree(mem) /\ mem \in Store /\ mem.entries = <<>> BY OwnNew DEF JournalInit
<1>2. file["own"] = <<StateLine>> BY DEF JournalInit, File, StateLine
<1>3. StateLine \in JournalLine BY <1>1, StateTyped DEF JournalLine, StateLine
<1>4. <<>> \in Seq(JournalLine) /\ <<StateLine>> = Append(<<>>, StateLine) OBVIOUS
<1>5. Replay(<<StateLine>>) = Step(New, StateLine) BY <1>3, <1>4, ReplayAppend, ReplayNothing
<1>6. Step(New, StateLine) = ApplyState(New, StateOf(mem)) BY DEF Step, StateLine
<1>7. New.entries = mem.entries BY <1>1, NewTyped
<1> QED BY <1>1, <1>2, <1>3, <1>5, <1>6, <1>7, ApplyGivesBack DEF Stored

LEMMA FirstState ==
    ASSUME JournalAssumption, FirstSaved, JournalInit PROVE JournalInv
<1>1. /\ Tree(mem) /\ mem \in Store /\ mem.id = "own" /\ mem.next = 1 /\ mem.entries = <<>>
      /\ In(mem.entries) = {}
  BY OwnNew DEF JournalInit
<1>2. file["own"] = <<StateLine>> /\ file["fresh"] = <<>>
  BY FirstStored DEF JournalInit, File
<1>3. StateLine \in JournalLine BY FirstStored
<1>4. synced \in [File -> Nat] /\ synced["own"] = 1 /\ synced["fresh"] = 0
  <2>1. synced = [f \in File |-> Len(file[f])] BY DEF JournalInit
  <2>2. Len(file["own"]) = 1 /\ Len(file["fresh"]) = 0 BY <1>2
  <2> QED BY <2>1, <2>2 DEF File
<1>5. Stored = mem BY FirstStored
<1>6. JournalTyped
  <2>1. file \in [File -> Seq(JournalLine)] BY <1>2, <1>3 DEF JournalInit, File
  <2>2. 0 \in Id BY DEF Id, JournalAssumption
  <2>3. MaxTears \in Nat /\ MaxCrashes \in Nat /\ MaxEdits \in Nat BY DEF JournalAssumption
  <2>4. Len(mem.entries) = 0 /\ Len(file["own"]) = 1 BY <1>1, <1>2
  <2>5. /\ persisted = 0 /\ needs = FALSE /\ open = [f \in File |-> FALSE] /\ todo = <<>>
        /\ pc = "idle" /\ acked = {} /\ edits = 0 /\ tears = 0 /\ crashes = 0
    BY DEF JournalInit
  <2>6. open \in [File -> BOOLEAN] /\ todo \in Seq(JournalLine) BY <2>5
  <2>7. edits \in 0..MaxEdits /\ tears \in 0..MaxTears /\ crashes \in 0..MaxCrashes
    BY <2>3, <2>5
  <2>8. persisted \in Id /\ needs \in BOOLEAN /\ persisted <= Len(mem.entries)
    <3>1. persisted = 0 BY <2>5
    <3>2. needs \in BOOLEAN BY <2>5, Zenon
    <3>3. persisted <= Len(mem.entries) BY <3>1, <2>4
    <3> QED BY <2>2, <3>1, <3>2, <3>3
  <2>9. synced["own"] <= Len(file["own"]) BY <1>4, <2>4
  <2>10. pc \in {"idle", "save", "down"} /\ acked \subseteq Entry BY <2>5
  <2> QED BY <1>2, <1>4, <2>1, <2>6, <2>7, <2>8, <2>9, <2>10 DEF JournalTyped
<1>7. Memory BY <1>1 DEF JournalInit, Memory
<1>8. Survives
  <2>1. Cuts(file["own"], synced["own"]) = {Stored}
    <3>1. file["own"] \in Seq(JournalLine) /\ synced["own"] = Len(file["own"])
      BY <1>2, <1>3, <1>4
    <3>2. Len(file["own"]) \in 0..Len(file["own"]) BY <3>1
    <3> QED BY <3>1, <3>2, CutsAre DEF Stored
  <2>2. Survivor(mem) BY <1>1 DEF JournalInit, Survivor
  <2> QED BY <1>5, <2>1, <2>2 DEF Survives
<1>9. Saving
  <2>1. Len(file["own"]) + Len(todo) <= MaxLines
    <3>1. Len(file["own"]) = 1 /\ Len(todo) = 0 BY <1>2 DEF JournalInit
    <3> QED BY <3>1 DEF JournalAssumption
  <2>2. BeginsWith(Stored, persisted)
    <3>1. persisted = 0 /\ Len(mem.entries) = 0 /\ SubSeq(mem.entries, 1, 0) = <<>>
      BY <1>1 DEF JournalInit
    <3>2. 0 \in persisted..Len(mem.entries) BY <3>1
    <3> QED BY <1>1, <1>5, <3>1, <3>2 DEF BeginsWith
  <2> QED BY <2>1, <2>2 DEF JournalInit, Saving
<1> QED BY <1>6, <1>7, <1>8, <1>9 DEF JournalInv

-----------------------------------------------------------------------------
(* The steps *)

\* What a file gives back stays good as the conversation goes on.
LEMMA SurvivesOn ==
    ASSUME JournalInv, edits' \in Nat, edits <= edits', acked' \subseteq acked,
           Cuts(file["own"], synced["own"])' \subseteq Cuts(file["own"], synced["own"])
    PROVE  Survives'
<1> SUFFICES ASSUME NEW m \in Cuts(file["own"], synced["own"]) PROVE Survivor(m)'
  BY DEF Survives
<1>1. Survivor(m) BY DEF JournalInv, Survives
<1>2. m.next \in Nat /\ edits \in Nat BY <1>1 DEF Survivor, Tree, Store, JournalInv, JournalTyped
<1> QED BY <1>1, <1>2 DEF Survivor

LEMMA EditSurvives ==
    ASSUME JournalInv, MayEdit, UNCHANGED <<file, synced>>, acked' \subseteq acked
    PROVE  Survives'
<1>1. edits \in Nat BY DEF JournalInv, JournalTyped
<1>2. edits' \in Nat /\ edits <= edits' BY <1>1 DEF MayEdit
<1> QED BY <1>2, SurvivesOn

\* The entry appended next.
LEMMA NewEntry ==
    ASSUME JournalAssumption, JournalInv, NEW kind \in Kind, AppendEntry(kind)
    PROVE  LET e == [id |-> mem.next, parent |-> mem.leaf, kind |-> kind, life |-> crashes]
           IN  Follows(mem.entries, e) /\ e \in Entry /\ e \notin In(mem.entries)
<1> DEFINE es == mem.entries
           e == [id |-> mem.next, parent |-> mem.leaf, kind |-> kind, life |-> crashes]
<1>1. /\ Tree(mem) /\ mem.id = "own" /\ mem.next <= edits + 1 /\ mem \in Store
      /\ es \in Seq(Entry) /\ Len(es) \in Nat
  BY DEF JournalInv, Memory, Tree, Store
<1>2. /\ edits < MaxEdits /\ edits' = edits + 1 /\ pc = "idle" /\ edits \in Nat
      /\ MaxEdits \in Nat /\ crashes \in 0..MaxCrashes
  BY DEF AppendEntry, MayEdit, JournalInv, JournalTyped, JournalAssumption
<1>3. e \in Entry
  <2>1. mem.next \in Nat /\ mem.next <= MaxEdits BY <1>1, <1>2 DEF Store
  <2>2. mem.leaf \in Id BY <1>1 DEF Store
  <2> QED BY <1>2, <2>1, <2>2 DEF Entry, Id
<1>4. Follows(es, e)
  <2>1. mem.leaf \in Ids(es) \cup {0} BY <1>1 DEF Tree
  <2>2. mem.leaf < mem.next
    <3>1. mem.next \in Nat /\ mem.next > 0 BY <1>1 DEF Store
    <3>2. Ids(es) = {es[i].id : i \in 1..Len(es)} BY <1>1, IdsAre
    <3> QED BY <1>1, <2>1, <3>1, <3>2 DEF Tree
  <2> QED BY <1>1, <1>3, <2>1, <2>2 DEF Follows, Tree
<1>5. e \notin In(es)
  <2> SUFFICES ASSUME NEW i \in 1..Len(es), es[i] = e PROVE FALSE BY DEF In
  <2>1. es[i].id = mem.next /\ es[i].id < mem.next BY <1>1 DEF Tree
  <2>2. mem.next \in Nat BY <1>1 DEF Store
  <2> QED BY <2>1, <2>2
<1> QED BY <1>3, <1>4, <1>5

\* An entry is appended to memory.
LEMMA AppendInv ==
    ASSUME JournalAssumption, JournalInv, NEW kind \in Kind, AppendEntry(kind)
    PROVE  JournalInv'
<1> DEFINE es == mem.entries
           e == [id |-> mem.next, parent |-> mem.leaf, kind |-> kind, life |-> crashes]
<1>1. /\ Tree(mem) /\ mem.id = "own" /\ mem.next <= edits + 1 /\ mem \in Store
      /\ es \in Seq(Entry) /\ Len(es) \in Nat
  BY DEF JournalInv, Memory, Tree, Store
<1>2. /\ edits < MaxEdits /\ edits' = edits + 1 /\ pc = "idle" /\ edits \in Nat
      /\ MaxEdits \in Nat /\ crashes \in 0..MaxCrashes
  BY DEF AppendEntry, MayEdit, JournalInv, JournalTyped, JournalAssumption
<1>3. e \in Entry /\ Follows(es, e) BY NewEntry
<1>5. /\ Tree(mem') /\ mem'.entries = Append(es, e) /\ mem'.next = mem.next + 1
      /\ mem'.id = mem.id
  <2> DEFINE n == mem.next + 1
  <2>1. n \in 1..(MaxEdits + 1) /\ mem.next <= n /\ e.id < n BY <1>1, <1>2 DEF Store
  <2>2. mem' = [Added(mem, e) EXCEPT !.next = n] BY DEF AppendEntry
  <2> HIDE DEF n, e
  <2>3. Tree(mem') /\ mem'.entries = Append(es, e) /\ mem'.next = n /\ mem'.id = mem.id
    BY <1>1, <1>3, <2>1, <2>2, AddedIsTree
  <2> QED BY <2>3 DEF n
<1> HIDE DEF e
<1>6. /\ Append(es, e) \in Seq(Entry) /\ Len(Append(es, e)) = Len(es) + 1
      /\ In(Append(es, e)) = In(es) \cup {e}
  BY <1>1, <1>3, AppendOnce
<1>7. UNCHANGED <<persisted, needs, file, open, synced, todo, pc, acked, tears, crashes>>
  BY DEF AppendEntry, saveVars
<1>8. JournalTyped'
  <2>1. (needs \/ persisted <= Len(mem.entries))'
    <3>1. needs \/ persisted <= Len(es) BY DEF JournalInv, JournalTyped
    <3>2. persisted \in Nat BY <1>2 DEF JournalInv, JournalTyped, Id
    <3> QED BY <1>1, <1>5, <1>6, <1>7, <3>1, <3>2
  <2> QED BY <1>2, <1>7, <2>1 DEF JournalInv, JournalTyped
<1>9. Memory'
  <2>1. mem.next \in Nat BY <1>1 DEF Store
  <2>2. mem'.next <= edits' + 1 BY <1>1, <1>2, <1>5, <2>1
  <2>3. acked' \subseteq In(mem'.entries) BY <1>2, <1>5, <1>6, <1>7 DEF JournalInv, Memory
  <2> QED BY <1>1, <1>2, <1>5, <1>7, <2>2, <2>3 DEF Memory
<1>10. Survives'
  <2>1. MayEdit BY DEF AppendEntry
  <2> QED BY <1>7, <2>1, EditSurvives
<1>11. Saving'
  <2>1. needs \/ BeginsWith(Stored, persisted) BY <1>2 DEF JournalInv, Saving
  <2>2. ASSUME BeginsWith(Stored, persisted) PROVE BeginsWith(Stored, persisted)'
    <3>1. PICK n \in persisted..Len(es) : Stored.entries = SubSeq(es, 1, n)
      BY <2>2 DEF BeginsWith
    <3>2. persisted \in Nat BY <1>2 DEF JournalInv, JournalTyped, Id
    <3>3. n \in 0..Len(es) /\ n \in persisted..(Len(es) + 1) BY <1>1, <3>2
    <3>4. SubSeq(Append(es, e), 1, n) = SubSeq(es, 1, n)
      <4>1. SubSeq(Append(es, e), 1, Len(es)) = es /\ Len(es) \in 0..Len(Append(es, e))
        BY <1>1, <1>3, <1>6
      <4> QED BY <1>6, <3>3, <4>1, FirstLines
    <3>5. Stored' = Stored BY <1>7 DEF Stored
    <3> QED BY <1>5, <1>6, <1>7, <3>1, <3>3, <3>4, <3>5 DEF BeginsWith
  <2> QED BY <1>2, <1>7, <2>1, <2>2 DEF JournalInv, Saving
<1> QED BY <1>8, <1>9, <1>10, <1>11 DEF JournalInv

\* Another place of the tree is the leaf.
LEMMA CheckoutInv ==
    ASSUME JournalAssumption, JournalInv, Checkout PROVE JournalInv'
<1> DEFINE es == mem.entries
<1>1. /\ Tree(mem) /\ mem.id = "own" /\ mem.next <= edits + 1 /\ mem \in Store
      /\ es \in Seq(Entry) /\ Len(es) \in Nat
  BY DEF JournalInv, Memory, Tree, Store
<1>2. edits < MaxEdits /\ edits' = edits + 1 /\ pc = "idle" /\ edits \in Nat /\ MaxEdits \in Nat
  BY DEF Checkout, MayEdit, JournalInv, JournalTyped, JournalAssumption
<1>3. PICK id \in Id :
        /\ \/ id = mem.heads["root"]
           \/ \E l \in Label : id = mem.heads[l] /\ id # 0
           \/ \E i \in DOMAIN es : es[i].kind = "user" /\ id = es[i].parent
        /\ mem' = [mem EXCEPT !.leaf = id]
  BY DEF Checkout
<1>4. id \in Ids(es) \cup {0}
  <2>1. \A b \in Branch : mem.heads[b] \in Ids(es) \cup {0} BY <1>1, HeadsTyped DEF Tree
  <2>2. \A i \in DOMAIN es : es[i].parent \in Ids(es) \cup {0}
    <3>1. DOMAIN es = 1..Len(es) BY <1>1
    <3> QED BY <1>1, <3>1 DEF Tree, Parented
  <2> QED BY <1>3, <2>1, <2>2 DEF Branch
<1>5. /\ mem'.entries = es /\ mem'.next = mem.next /\ mem'.id = mem.id /\ mem'.leaf = id
      /\ mem'.heads = mem.heads /\ mem' \in Store
  BY <1>1, <1>3 DEF Store
<1>6. Tree(mem') BY <1>1, <1>4, <1>5 DEF Tree
<1>7. UNCHANGED <<persisted, needs, file, open, synced, todo, pc, acked, tears, crashes>>
  BY DEF Checkout, saveVars
<1>8. JournalTyped' BY <1>2, <1>5, <1>7 DEF JournalInv, JournalTyped
<1>9. Memory'
  <2>1. mem.next \in Nat BY <1>1 DEF Store
  <2> QED BY <1>1, <1>2, <1>5, <1>6, <1>7, <2>1 DEF JournalInv, Memory
<1>10. Survives'
  <2>1. MayEdit BY DEF Checkout
  <2> QED BY <1>7, <2>1, EditSurvives
<1>11. Saving' BY <1>2, <1>5, <1>7 DEF JournalInv, Saving, BeginsWith, Stored
<1> QED BY <1>8, <1>9, <1>10, <1>11 DEF JournalInv

\* A branch is deleted.
LEMMA DeleteInv ==
    ASSUME JournalAssumption, JournalInv, NEW label \in Label, DeleteBranch(label)
    PROVE  /\ JournalInv' /\ UNCHANGED <<file, synced>>
           /\ In(mem'.entries) \subseteq In(mem.entries) /\ In(mem'.entries) # In(mem.entries)
           /\ acked' = acked \cap In(mem'.entries)
<1> DEFINE es == mem.entries
<1>1. /\ Tree(mem) /\ mem.id = "own" /\ mem.next <= edits + 1 /\ mem \in Store
      /\ es \in Seq(Entry) /\ Len(es) \in Nat
  BY DEF JournalInv, Memory, Tree, Store
<1>2. edits < MaxEdits /\ edits' = edits + 1 /\ pc = "idle" /\ edits \in Nat /\ MaxEdits \in Nat
  BY DEF DeleteBranch, MayEdit, JournalInv, JournalTyped, JournalAssumption
<1>3. PICK i \in 1..Len(es) : mem' = Pruned(es[i].id)
  <2>1. DOMAIN es = 1..Len(es) BY <1>1
  <2> QED BY <2>1 DEF DeleteBranch
<1>4. /\ Tree(mem') /\ mem'.next = mem.next /\ mem'.id = mem.id
      /\ In(mem'.entries) \subseteq In(es) /\ es[i] \in In(es) \ In(mem'.entries)
  BY <1>1, <1>3, PrunedIsTree
<1>5. acked' = acked \cap In(mem'.entries)
  <2>1. mem'.entries \in Seq(Entry) BY <1>4 DEF Tree, Store
  <2>2. Range(mem'.entries) = In(mem'.entries) BY <2>1, InIds
  <2> QED BY <2>2 DEF DeleteBranch
<1>6. /\ UNCHANGED <<persisted, file, open, synced, todo, pc, tears, crashes>>
      /\ needs' = TRUE
  BY DEF DeleteBranch
<1>7. JournalTyped'
  <2>1. JournalTyped BY DEF JournalInv
  <2>2. acked' \subseteq Entry BY <1>5, <2>1 DEF JournalTyped
  <2>3. edits' \in 0..MaxEdits BY <1>2
  <2> QED BY <1>6, <2>1, <2>2, <2>3 DEF JournalTyped
<1>8. Memory'
  <2>1. mem.next \in Nat BY <1>1 DEF Store
  <2> QED BY <1>1, <1>2, <1>4, <1>5, <1>6, <2>1 DEF Memory
<1>9. Survives'
  <2>1. MayEdit BY DEF DeleteBranch
  <2> QED BY <1>5, <1>6, <2>1, EditSurvives
<1>10. Saving' BY <1>2, <1>6 DEF JournalInv, Saving
<1> QED BY <1>4, <1>5, <1>6, <1>7, <1>8, <1>9, <1>10 DEF JournalInv

\* A goal is set or cleared.
LEMMA GoalInv ==
    ASSUME JournalAssumption, JournalInv, GoalChanges PROVE JournalInv'
<1> DEFINE es == mem.entries
<1>1. /\ Tree(mem) /\ mem.id = "own" /\ mem.next <= edits + 1 /\ mem \in Store
  BY DEF JournalInv, Memory, Tree
<1>2. edits < MaxEdits /\ edits' = edits + 1 /\ pc = "idle" /\ edits \in Nat /\ MaxEdits \in Nat
  BY DEF GoalChanges, MayEdit, JournalInv, JournalTyped, JournalAssumption
<1>3. /\ UNCHANGED <<persisted, file, open, synced, todo, pc, acked, tears, crashes>>
      /\ needs' = TRUE /\ mem' = [mem EXCEPT !.goal = ~mem.goal]
  BY DEF GoalChanges
<1>4. /\ mem'.entries = es /\ mem'.next = mem.next /\ mem'.id = mem.id /\ mem'.leaf = mem.leaf
      /\ mem'.heads = mem.heads /\ mem' \in Store
  BY <1>1, <1>3 DEF Store
<1>5. Tree(mem') BY <1>1, <1>4 DEF Tree
<1>6. JournalTyped' BY <1>2, <1>3 DEF JournalInv, JournalTyped
<1>7. Memory'
  <2>1. mem.next \in Nat BY <1>1 DEF Store
  <2> QED BY <1>1, <1>2, <1>3, <1>4, <1>5, <2>1 DEF JournalInv, Memory
<1>8. Survives'
  <2>1. MayEdit BY DEF GoalChanges
  <2> QED BY <1>3, <2>1, EditSurvives
<1>9. Saving' BY <1>2, <1>3 DEF JournalInv, Saving
<1> QED BY <1>6, <1>7, <1>8, <1>9 DEF JournalInv

-----------------------------------------------------------------------------
(* The steps of a save *)

LEMMA RecordsAre ==
    ASSUME mem \in Store, persisted \in Nat,
           needs \/ persisted <= Len(mem.entries)
    PROVE  IF needs THEN Records = <<SnapshotLine, StateLine>> ELSE Records = Rest(persisted)
<1> DEFINE es == mem.entries
           k == persisted
           n == Len(es) - k
           new == SubSeq(es, k + 1, Len(es))
           q == [i \in DOMAIN new |-> [type |-> "entry", entry |-> new[i]]]
<1>1. es \in Seq(Entry) /\ Len(es) \in Nat BY DEF Store
<1>2. CASE needs BY <1>2 DEF Records, SnapshotLine, StateLine
<1>3. CASE ~needs
  <2>1. k <= Len(es) /\ n \in Nat BY <1>1, <1>3
  <2>2. Records = q \o <<StateLine>> BY <1>1, <1>3, <2>1 DEF Records, StateLine
  <2>3. \A i \in 1..n : k + i \in 1..Len(es) /\ es[k + i] \in Entry BY <1>1, <2>1
  <2>4. new \in Seq(Entry) /\ Len(new) = n /\ \A i \in 1..n : new[i] = es[k + i]
    <3>1. \A i \in (k + 1)..Len(es) : es[i] \in Entry BY <1>1, <2>1
    <3> QED BY <1>1, <2>1, <3>1
  <2> HIDE DEF n, new
  <2>5. DOMAIN new = 1..n BY <2>4
  <2>6. q \in Seq(JournalLine) /\ Len(q) = n
        /\ \A i \in 1..n : q[i] = [type |-> "entry", entry |-> es[k + i]]
    <3>1. \A i \in 1..n : [type |-> "entry", entry |-> new[i]] \in JournalLine
      BY <2>3, <2>4 DEF JournalLine
    <3>2. q = [i \in 1..n |-> [type |-> "entry", entry |-> new[i]]] BY <2>5
    <3> QED BY <2>1, <2>4, <3>1, <3>2
  <2>7. StateLine \in JournalLine BY StateTyped DEF JournalLine, StateLine
  <2> HIDE DEF q
  <2>8. /\ q \o <<StateLine>> \in Seq(JournalLine) /\ Len(q \o <<StateLine>>) = n + 1
        /\ \A i \in 1..n : (q \o <<StateLine>>)[i] = q[i]
        /\ (q \o <<StateLine>>)[n + 1] = StateLine
    BY <2>1, <2>6, <2>7
  <2>9. Rest(k) \in Seq(JournalLine) /\ Len(Rest(k)) = n + 1
    BY <1>1, <2>1, RestIs DEF n
  <2>10. Rest(k) = [i \in 1..(n + 1) |->
                      IF i <= n THEN [type |-> "entry", entry |-> es[k + i]] ELSE StateLine]
    BY DEF Rest, n
  <2>11. \A i \in 1..(n + 1) : Rest(k)[i] = (q \o <<StateLine>>)[i]
    <3> SUFFICES ASSUME NEW i \in 1..(n + 1) PROVE Rest(k)[i] = (q \o <<StateLine>>)[i] OBVIOUS
    <3>1. CASE i \in 1..n BY <2>1, <2>6, <2>8, <2>10, <3>1
    <3>2. CASE i = n + 1 BY <2>1, <2>8, <2>10, <3>2
    <3>3. i \in 1..n \/ i = n + 1 BY <2>1
    <3> QED BY <3>1, <3>2, <3>3
  <2>12. Rest(k) = q \o <<StateLine>> BY <2>8, <2>9, <2>11, SeqEqual
  <2> QED BY <1>3, <2>2, <2>12
<1> QED BY <1>2, <1>3

LEMMA BeginInv ==
    ASSUME JournalAssumption, JournalInv, SaveBegin PROVE JournalInv'
<1> DEFINE es == mem.entries
<1>1. /\ Tree(mem) /\ mem.id = "own" /\ mem \in Store /\ es \in Seq(Entry) /\ Len(es) \in Nat
  BY DEF JournalInv, Memory, Tree, Store
<1>2. persisted \in Nat /\ open \in [File -> BOOLEAN]
  BY DEF JournalInv, JournalTyped, Id, JournalAssumption
<1>a. needs \/ persisted <= Len(es) BY DEF JournalInv, JournalTyped
<1>3. /\ UNCHANGED <<mem, persisted, needs, file, synced, acked, edits, tears, crashes>>
      /\ pc = "idle" /\ pc' = "save" /\ todo' = Records /\ open' = [open EXCEPT !["own"] = FALSE]
      /\ Len(file["own"]) + Len(Records) <= MaxLines
  BY <1>1 DEF SaveBegin
<1>4. IF needs THEN Records = <<SnapshotLine, StateLine>> ELSE Records = Rest(persisted)
  BY <1>1, <1>2, <1>a, RecordsAre
<1>5. Records \in Seq(JournalLine)
  <2>1. CASE needs
    <3>1. StateLine \in JournalLine /\ SnapshotLine \in JournalLine
      BY <1>1, StateTyped DEF JournalLine, StateLine, SnapshotLine
    <3>2. <<SnapshotLine, StateLine>> \in Seq(JournalLine) BY <3>1
    <3>3. Records = <<SnapshotLine, StateLine>> BY <1>4, <2>1, Zenon
    <3> QED BY <3>2, <3>3
  <2>2. CASE ~needs
    <3>1. persisted \in 0..Len(es) BY <1>1, <1>2, <1>a, <2>2
    <3> QED BY <1>1, <1>4, <2>2, <3>1, RestIs
  <2> QED BY <2>1, <2>2
<1>6. open' \in [File -> BOOLEAN] /\ open'["own"] = FALSE BY <1>2, <1>3 DEF File
<1>7. JournalTyped' BY <1>3, <1>5, <1>6 DEF JournalInv, JournalTyped
<1>8. Memory' BY <1>3 DEF JournalInv, Memory
<1>9. Survives'
  <2>1. edits \in Nat BY DEF JournalInv, JournalTyped
  <2> QED BY <1>3, <2>1, SurvivesOn
<1>10. Completes(Records, Stored)
  <2>1. CASE needs BY <1>4, <2>1 DEF Completes
  <2>2. CASE ~needs
    <3>1. persisted \in 0..Len(es) BY <1>1, <1>2, <1>a, <2>2
    <3>2. BeginsWith(Stored, persisted) BY <1>3, <2>2 DEF JournalInv, Saving
    <3>3. persisted <= persisted BY <1>2
    <3> QED BY <1>4, <2>2, <3>1, <3>2, <3>3 DEF Completes
  <2> QED BY <2>1, <2>2
<1>11. Completes(todo, Stored)' BY <1>3, <1>10 DEF Completes, BeginsWith, Rest, StateLine, SnapshotLine, Stored
<1>12. Saving' BY <1>3, <1>6, <1>11 DEF Saving
<1> QED BY <1>7, <1>8, <1>9, <1>12 DEF JournalInv

LEMMA LinePut ==
    ASSUME JournalAssumption, JournalInv, ~open["own"], NEW line \in JournalLine, Put(line),
           UNCHANGED synced
    PROVE  /\ file' \in [File -> Seq(JournalLine)] /\ file'["fresh"] = <<>>
           /\ Len(file'["own"]) = Len(file["own"]) + 1
           /\ Stored' = Step(Stored, line)
           /\ Cuts(file["own"], synced["own"])' =
                Cuts(file["own"], synced["own"]) \cup {Step(Stored, line)}
<1>1. /\ mem.id = "own" /\ file \in [File -> Seq(JournalLine)] /\ file["fresh"] = <<>>
      /\ synced["own"] \in 0..Len(file["own"]) /\ file["own"] \in Seq(JournalLine)
  BY StoredSurvives DEF JournalInv, Memory, JournalTyped
<1>2. file' = [file EXCEPT !["own"] = Append(@, line)] BY <1>1 DEF Put
<1>3. file'["own"] = Append(file["own"], line) /\ file'["fresh"] = file["fresh"]
  BY <1>1, <1>2 DEF File
<1>4. file' \in [File -> Seq(JournalLine)]
  <2>1. Append(file["own"], line) \in Seq(JournalLine) BY <1>1
  <2> QED BY <1>1, <1>2, <2>1
<1>5. Stored' = Step(Stored, line) BY <1>1, <1>3, ReplayAppend DEF Stored
<1>6. Cuts(Append(file["own"], line), synced["own"])
        = Cuts(file["own"], synced["own"]) \cup {Step(Stored, line)}
  BY <1>1, CutsOfAppend DEF Stored
<1> QED BY <1>1, <1>3, <1>4, <1>5, <1>6

LEMMA WriteInv ==
    ASSUME JournalAssumption, JournalInv, Write
    PROVE  JournalInv' /\ Advances(Stored, Stored')
<1>1. /\ pc = "save" /\ todo # <<>> /\ Put(Head(todo)) /\ todo' = Tail(todo)
      /\ open' = [open EXCEPT !["own"] = FALSE]
      /\ UNCHANGED <<mem, persisted, needs, synced, pc, acked, edits, tears, crashes>>
  BY DEF Write, JournalInv, Memory
<1>2. ~open["own"] /\ open \in [File -> BOOLEAN] /\ todo \in Seq(JournalLine)
  BY <1>1 DEF JournalInv, Saving, JournalTyped
<1> DEFINE new == Step(Stored, Head(todo))
<1>3. /\ Head(todo) \in JournalLine /\ Tail(todo) \in Seq(JournalLine)
      /\ Completes(Tail(todo), new) /\ Advances(Stored, new)
  BY <1>1, RecordWritten
<1>4. /\ file' \in [File -> Seq(JournalLine)] /\ file'["fresh"] = <<>>
      /\ Len(file'["own"]) = Len(file["own"]) + 1 /\ Stored' = new
      /\ Cuts(file["own"], synced["own"])' = Cuts(file["own"], synced["own"]) \cup {new}
  BY <1>1, <1>2, <1>3, LinePut
<1> HIDE DEF new
<1>5. file["own"] \in Seq(JournalLine) BY StoredSurvives DEF JournalInv
<1>6. JournalTyped'
  <2>1. open' \in [File -> BOOLEAN] BY <1>1, <1>2
  <2>2. synced["own"] <= Len(file'["own"])
    <3>1. synced["own"] \in Nat /\ synced["own"] <= Len(file["own"]) /\ Len(file["own"]) \in Nat
      BY <1>5, StoredSurvives DEF JournalInv
    <3> QED BY <1>4, <3>1
  <2> QED BY <1>1, <1>3, <1>4, <2>1, <2>2 DEF JournalInv, JournalTyped
<1>7. Memory' BY <1>1 DEF JournalInv, Memory
<1>8. Survives'
  <2>1. \A m \in Cuts(file["own"], synced["own"]) \cup {new} : Survivor(m)
    BY <1>3 DEF JournalInv, Survives, Advances
  <2>2. \A m : Survivor(m) => Survivor(m)' BY <1>1 DEF Survivor
  <2> QED BY <1>4, <2>1, <2>2 DEF Survives
<1>9. Saving'
  <2>1. Len(file'["own"]) + Len(todo') <= MaxLines
    <3>1. Len(Tail(todo)) = Len(todo) - 1 BY <1>1, <1>2
    <3>2. Len(file["own"]) + Len(todo) <= MaxLines BY DEF JournalInv, Saving
    <3> QED BY <1>1, <1>2, <1>4, <1>5, <3>1, <3>2
  <2>2. open'["own"] = FALSE BY <1>1, <1>2 DEF File
  <2>3. Completes(todo, Stored)'
    BY <1>1, <1>3, <1>4 DEF Completes, BeginsWith, Rest, StateLine, SnapshotLine
  <2> QED BY <1>1, <2>1, <2>2, <2>3 DEF Saving
<1> QED BY <1>3, <1>4, <1>6, <1>7, <1>8, <1>9 DEF JournalInv

\* A save stops: with a part of a record, the whole of one, or none.
LEMMA FailsInv ==
    ASSUME JournalAssumption, JournalInv, SaveFails
    PROVE  JournalInv' /\ (Stored' = Stored \/ Advances(Stored, Stored'))
<1>1. /\ pc = "save" /\ todo' = <<>> /\ pc' = "idle" /\ tears' = tears + 1 /\ tears < MaxTears
      /\ UNCHANGED <<mem, persisted, needs, synced, acked, edits, crashes>>
  BY DEF SaveFails
<1>2. /\ ~open["own"] /\ open \in [File -> BOOLEAN] /\ todo \in Seq(JournalLine)
      /\ tears \in 0..MaxTears /\ MaxTears \in Nat /\ mem.id = "own"
      /\ Completes(todo, Stored) /\ Len(file["own"]) + Len(todo) <= MaxLines
      /\ Len(todo) \in Nat
  BY <1>1 DEF JournalInv, Saving, JournalTyped, Memory, JournalAssumption
<1>3. /\ file["own"] \in Seq(JournalLine) /\ synced["own"] \in 0..Len(file["own"])
      /\ Survivor(Stored)
  BY StoredSurvives DEF JournalInv
<1>4. ASSUME NEW line \in JournalLine, todo # <<>>, Put(line), open' = [open EXCEPT !["own"] = TRUE],
             Survivor(Step(Stored, line)),
             Completes(todo, Step(Stored, line)) \/ Completes(Tail(todo), Step(Stored, line))
      PROVE  JournalInv' /\ Stored' = Step(Stored, line)
  <2>1. /\ file' \in [File -> Seq(JournalLine)] /\ file'["fresh"] = <<>>
        /\ Len(file'["own"]) = Len(file["own"]) + 1 /\ Stored' = Step(Stored, line)
        /\ Cuts(file["own"], synced["own"])' =
             Cuts(file["own"], synced["own"]) \cup {Step(Stored, line)}
    BY <1>1, <1>2, <1>4, LinePut
  <2>2. JournalTyped'
    <3>1. open' \in [File -> BOOLEAN] BY <1>2, <1>4
    <3>2. synced["own"] <= Len(file'["own"]) BY <1>3, <2>1
    <3>3. tears' \in 0..MaxTears BY <1>1, <1>2
    <3>4. JournalTyped BY DEF JournalInv
    <3>5. todo' \in Seq(JournalLine) /\ pc' \in {"idle", "save", "down"} BY <1>1
    <3> QED BY <1>1, <2>1, <3>1, <3>2, <3>3, <3>4, <3>5 DEF JournalTyped
  <2>3. Memory' BY <1>1 DEF JournalInv, Memory
  <2>4. Survives'
    <3>1. \A m \in Cuts(file["own"], synced["own"]) \cup {Step(Stored, line)} : Survivor(m)
      BY <1>4 DEF JournalInv, Survives
    <3>2. \A m : Survivor(m) => Survivor(m)' BY <1>1 DEF Survivor
    <3> QED BY <2>1, <3>1, <3>2 DEF Survives
  <2>5. Saving'
    <3>1. Len(todo) # 0 BY <1>2, <1>4
    <3>2. Len(file'["own"]) + 0 <= MaxLines BY <1>2, <1>3, <2>1, <3>1 DEF JournalAssumption
    <3>3. needs \/ BeginsWith(Step(Stored, line), persisted)
      <4>1. Tree(mem) /\ (needs \/ persisted <= Len(mem.entries)) /\ persisted \in Nat
        BY DEF JournalInv, Memory, JournalTyped, Id, JournalAssumption
      <4> QED BY <1>4, <4>1, CompletedBegins
    <3>4. (needs \/ BeginsWith(Stored, persisted))' BY <1>1, <2>1, <3>3 DEF BeginsWith
    <3> QED BY <1>1, <3>2, <3>4 DEF Saving
  <2> QED BY <2>1, <2>2, <2>3, <2>4, <2>5 DEF JournalInv
<1>5. ASSUME NEW line, line \in {[type |-> "torn"]} \cup (IF Wide THEN {[type |-> "cut"]} ELSE {}),
             todo # <<>>, Put(line), open' = [open EXCEPT !["own"] = TRUE]
      PROVE  JournalInv' /\ Stored' = Stored
  <2>1. PICK kind \in Torn : line = [type |-> kind] BY <1>5 DEF Torn
  <2>2. line \in JournalLine /\ Step(Stored, line) = Stored BY <2>1, TornStep
  <2> QED BY <1>2, <1>3, <1>4, <1>5, <2>2
<1>6. ASSUME todo # <<>>, Put(Head(todo)), open' = [open EXCEPT !["own"] = TRUE]
      PROVE  JournalInv' /\ Advances(Stored, Stored')
  <2>1. /\ Head(todo) \in JournalLine /\ Completes(Tail(todo), Step(Stored, Head(todo)))
        /\ Advances(Stored, Step(Stored, Head(todo)))
    BY <1>1, <1>6, RecordWritten
  <2>2. Survivor(Step(Stored, Head(todo))) BY <2>1 DEF Advances
  <2> QED BY <1>4, <1>6, <2>1, <2>2
<1>7. ASSUME UNCHANGED <<file, open>> PROVE JournalInv' /\ Stored' = Stored
  <2>1. tears' \in 0..MaxTears BY <1>1, <1>2
  <2>2. JournalTyped' BY <1>1, <1>7, <2>1 DEF JournalInv, JournalTyped
  <2>3. Memory' BY <1>1 DEF JournalInv, Memory
  <2>4. Survives'
    <3>1. edits \in Nat BY DEF JournalInv, JournalTyped
    <3> QED BY <1>1, <1>7, <3>1, SurvivesOn
  <2>5. needs \/ BeginsWith(Stored, persisted)
    <3>1. Tree(mem) /\ (needs \/ persisted <= Len(mem.entries)) /\ persisted \in Nat
      BY DEF JournalInv, Memory, JournalTyped, Id, JournalAssumption
    <3> QED BY <1>2, <3>1, CompletedBegins
  <2>6. (needs \/ BeginsWith(Stored, persisted))' BY <1>1, <1>7, <2>5 DEF BeginsWith, Stored
  <2>7. Len(file["own"]) + 0 <= MaxLines BY <1>2, <1>3 DEF JournalAssumption
  <2>8. Saving' BY <1>1, <1>7, <2>6, <2>7 DEF Saving
  <2> QED BY <1>7, <2>2, <2>3, <2>4, <2>8 DEF JournalInv, Stored
<1>8. \/ /\ todo # <<>>
         /\ \E line \in {[type |-> "torn"], Head(todo)}
                        \cup (IF Wide THEN {[type |-> "cut"]} ELSE {}) : Put(line)
         /\ open' = [open EXCEPT !["own"] = TRUE]
      \/ UNCHANGED <<file, open>>
  BY <1>2 DEF SaveFails
<1> QED BY <1>5, <1>6, <1>7, <1>8

\* The end of a save.
LEMMA SyncInv ==
    ASSUME JournalAssumption, JournalInv, Sync
    PROVE  /\ JournalInv' /\ Stored = mem /\ UNCHANGED <<mem, file>>
           /\ acked' = In(mem.entries)
<1> DEFINE es == mem.entries
<1>1. /\ pc = "save" /\ todo = <<>> /\ mem.id = "own" /\ persisted' = Len(es) /\ needs' = FALSE
      /\ synced' = [synced EXCEPT !["own"] = Len(file["own"])] /\ pc' = "idle"
      /\ UNCHANGED <<mem, file, open, todo, edits, tears, crashes>>
  BY DEF Sync, JournalInv, Memory
<1>2. /\ Tree(mem) /\ mem \in Store /\ es \in Seq(Entry) /\ Len(es) \in Nat
      /\ mem.next <= edits + 1
  BY DEF JournalInv, Memory, Tree, Store
<1>3. acked' = In(es)
  <2>1. Range(es) = In(es) BY <1>2, InIds
  <2> QED BY <2>1 DEF Sync
<1>4. Stored = mem
  <2>1. Completes(<<>>, Stored) BY <1>1 DEF JournalInv, Saving
  <2>2. <<SnapshotLine, StateLine>> # <<>> OBVIOUS
  <2>3. \A k \in 0..Len(es) : Rest(k) # <<>>
    <3> SUFFICES ASSUME NEW k \in 0..Len(es), Rest(k) = <<>> PROVE FALSE OBVIOUS
    <3>1. Len(Rest(k)) = Len(es) - k + 1 BY <1>2, RestIs
    <3>2. Len(Rest(k)) = 0 OBVIOUS
    <3> QED BY <1>2, <3>1, <3>2
  <2> QED BY <2>1, <2>2, <2>3 DEF Completes
<1>5. file["own"] \in Seq(JournalLine) /\ Len(file["own"]) \in Nat
  BY StoredSurvives DEF JournalInv
<1>6. /\ synced' \in [File -> Nat] /\ synced'["own"] = Len(file["own"]) /\ synced'["fresh"] = 0
  BY <1>1, <1>5 DEF JournalInv, JournalTyped, File
<1>7. In(es) \subseteq Entry BY <1>2 DEF In
<1>8. JournalTyped'
  <2>1. Len(es) \in Id BY <1>2, LengthIsId DEF Tree
  <2>2. persisted' <= Len(mem'.entries) BY <1>1, <1>2
  <2>3. synced'["own"] <= Len(file'["own"]) BY <1>1, <1>5, <1>6
  <2> QED BY <1>1, <1>3, <1>6, <1>7, <2>1, <2>2, <2>3 DEF JournalInv, JournalTyped
<1>9. Memory' BY <1>1, <1>2, <1>3 DEF JournalInv, Memory
<1>10. Survives'
  <2>1. Cuts(file["own"], Len(file["own"])) = {Stored}
    <3>1. Len(file["own"]) \in 0..Len(file["own"]) BY <1>5
    <3> QED BY <1>5, <3>1, CutsAre DEF Stored
  <2>2. Survivor(mem)' BY <1>1, <1>2, <1>3 DEF Survivor, JournalInv, Memory
  <2> QED BY <1>1, <1>4, <1>6, <2>1, <2>2 DEF Survives
<1>11. Saving'
  <2>1. BeginsWith(Stored, Len(es))
    <3>1. SubSeq(es, 1, Len(es)) = es /\ Len(es) \in Len(es)..Len(es) BY <1>2
    <3> QED BY <1>4, <3>1 DEF BeginsWith
  <2>2. BeginsWith(Stored, persisted)' BY <1>1, <2>1 DEF BeginsWith, Stored
  <2> QED BY <1>1, <2>2 DEF JournalInv, Saving
<1> QED BY <1>1, <1>3, <1>4, <1>8, <1>9, <1>10, <1>11 DEF JournalInv

-----------------------------------------------------------------------------
(* Stopping and starting *)

LEMMA StopInv ==
    ASSUME JournalAssumption, JournalInv, Stop,
           file' \in [File -> Seq(JournalLine)], file'["fresh"] = <<>>, open' \in [File -> BOOLEAN],
           Len(file'["own"]) <= Len(file["own"]), synced["own"] <= Len(file'["own"]),
           Cuts(file'["own"], synced["own"]) \subseteq Cuts(file["own"], synced["own"])
    PROVE  /\ JournalInv' /\ mem'.entries = <<>> /\ Stored' \in Cuts(file["own"], synced["own"])
           /\ UNCHANGED acked
<1>1. /\ pc' = "down" /\ persisted' = 0 /\ needs' = FALSE /\ todo' = <<>> /\ crashes' = crashes + 1
      /\ crashes < MaxCrashes /\ mem' = [New EXCEPT !.id = "own"]
      /\ UNCHANGED <<synced, acked, edits, tears>>
  BY DEF Stop, JournalInv, Memory
<1>2. /\ Tree(mem') /\ mem' \in Store /\ mem'.id = "own" /\ mem'.next = 1 /\ mem'.entries = <<>>
  BY <1>1, OwnNew
<1>3. /\ crashes \in 0..MaxCrashes /\ MaxCrashes \in Nat /\ edits \in Nat /\ MaxEdits \in Nat
      /\ synced \in [File -> Nat] /\ synced["own"] \in Nat
  BY DEF JournalInv, JournalTyped, JournalAssumption, File
<1>4. file'["own"] \in Seq(JournalLine) /\ Len(file'["own"]) \in Nat BY DEF File
<1>5. JournalTyped'
  <2>1. 0 \in Id BY <1>3 DEF Id
  <2>2. crashes' \in 0..MaxCrashes BY <1>1, <1>3
  <2>3. Len(mem'.entries) = 0 BY <1>2
  <2>4. persisted' <= Len(mem'.entries) BY <1>1, <2>3
  <2>5. todo' \in Seq(JournalLine) BY <1>1
  <2> QED BY <1>1, <2>1, <2>2, <2>4, <2>5 DEF JournalInv, JournalTyped
<1>6. Memory'
  <2>1. mem'.next <= edits' + 1 BY <1>1, <1>2, <1>3
  <2> QED BY <1>1, <1>2, <2>1 DEF Memory
<1>7. Survives' BY <1>1, <1>3, SurvivesOn
<1>8. Saving'
  <2>1. Len(file'["own"]) + 0 <= MaxLines
    <3>1. Len(file["own"]) + Len(todo) <= MaxLines /\ Len(todo) \in Nat /\ Len(file["own"]) \in Nat
      BY StoredSurvives DEF JournalInv, Saving, JournalTyped
    <3> QED BY <1>4, <3>1 DEF JournalAssumption
  <2> QED BY <1>1, <2>1 DEF Saving
<1>9. Stored' \in Cuts(file["own"], synced["own"])
  <2>1. synced["own"] \in 0..Len(file'["own"]) BY <1>3, <1>4
  <2>2. Replay(file'["own"]) \in Cuts(file'["own"], synced["own"]) BY <1>4, <2>1, CutsAre
  <2> QED BY <2>2 DEF Stored
<1> QED BY <1>1, <1>2, <1>5, <1>6, <1>7, <1>8, <1>9 DEF JournalInv

LEMMA KillInv ==
    ASSUME JournalAssumption, JournalInv, Kill
    PROVE  /\ JournalInv' /\ mem'.entries = <<>> /\ Stored' \in Cuts(file["own"], synced["own"])
           /\ UNCHANGED acked
<1>1. Stop /\ UNCHANGED <<file, open>> BY DEF Kill
<1>2. /\ file \in [File -> Seq(JournalLine)] /\ file["fresh"] = <<>> /\ open \in [File -> BOOLEAN]
      /\ synced["own"] \in 0..Len(file["own"]) /\ Len(file["own"]) \in Nat
  <2>1. JournalTyped /\ Survives BY DEF JournalInv
  <2>2. file["own"] \in Seq(JournalLine) /\ synced["own"] \in 0..Len(file["own"])
    BY <2>1, StoredSurvives
  <2> QED BY <2>1, <2>2 DEF JournalTyped
<1> QED BY <1>1, <1>2, StopInv

LEMMA PowerInv ==
    ASSUME JournalAssumption, JournalInv, PowerCut
    PROVE  /\ JournalInv' /\ mem'.entries = <<>> /\ Stored' \in Cuts(file["own"], synced["own"])
           /\ UNCHANGED acked
<1> DEFINE lines == file["own"]
           low == synced["own"]
<1>1. /\ file \in [File -> Seq(JournalLine)] /\ file["fresh"] = <<>> /\ open \in [File -> BOOLEAN]
      /\ lines \in Seq(JournalLine) /\ low \in 0..Len(lines) /\ Len(lines) \in Nat /\ low \in Nat
      /\ mem.id = "own"
  <2>1. JournalTyped /\ Survives /\ mem.id = "own" BY DEF JournalInv, Memory
  <2>2. lines \in Seq(JournalLine) /\ low \in 0..Len(lines) BY <2>1, StoredSurvives
  <2> QED BY <2>1, <2>2 DEF JournalTyped
<1>2. PICK n \in low..Len(lines) :
        LET left == SubSeq(lines, 1, n)
        IN  \/ /\ file' = [file EXCEPT !["own"] = left]
               /\ \E bare \in {open["own"] /\ n = Len(lines), n > low} :
                    open' = [open EXCEPT !["own"] = bare]
            \/ /\ n > low
               /\ \E kind \in IF Wide THEN Torn ELSE {"torn"} :
                    file' = [file EXCEPT !["own"] = Append(Front(left), [type |-> kind])]
               /\ open' = [open EXCEPT !["own"] = TRUE]
  <2>1. \E n \in synced[mem.id]..Len(file[mem.id]) :
           LET left == SubSeq(file[mem.id], 1, n)
           IN  \/ /\ file' = [file EXCEPT ![mem.id] = left]
                  /\ \E bare \in {open[mem.id] /\ n = Len(file[mem.id]), n > synced[mem.id]} :
                       open' = [open EXCEPT ![mem.id] = bare]
               \/ /\ n > synced[mem.id]
                  /\ \E kind \in IF Wide THEN Torn ELSE {"torn"} :
                       file' = [file EXCEPT ![mem.id] = Append(Front(left), [type |-> kind])]
                  /\ open' = [open EXCEPT ![mem.id] = TRUE]
    BY Zenon DEF PowerCut
  <2>2. mem.id = "own" BY <1>1
  <2> QED BY <2>1, <2>2, Zenon
<1> DEFINE left == SubSeq(lines, 1, n)
<1>3. n \in 0..Len(lines) /\ n \in Nat BY <1>1
<1>4. ASSUME NEW cut \in Seq(JournalLine), file' = [file EXCEPT !["own"] = cut], Len(cut) = n,
             Cuts(cut, low) \subseteq Cuts(lines, low), open' \in [File -> BOOLEAN]
      PROVE  /\ JournalInv' /\ mem'.entries = <<>> /\ Stored' \in Cuts(lines, low)
             /\ UNCHANGED acked
  <2>1. file'["own"] = cut /\ file'["fresh"] = <<>> BY <1>1, <1>4 DEF File
  <2>2. file' \in [File -> Seq(JournalLine)] BY <1>1, <1>4
  <2>3. Len(file'["own"]) <= Len(lines) /\ low <= Len(file'["own"]) BY <1>1, <1>3, <1>4, <2>1
  <2>4. Stop BY DEF PowerCut
  <2> QED BY <1>4, <2>1, <2>2, <2>3, <2>4, StopInv
<1>5. CASE /\ file' = [file EXCEPT !["own"] = left]
           /\ \E bare \in {open["own"] /\ n = Len(lines), n > low} :
                open' = [open EXCEPT !["own"] = bare]
  <2>1. open' \in [File -> BOOLEAN]
    <3>1. (open["own"] /\ n = Len(lines)) \in BOOLEAN /\ (n > low) \in BOOLEAN OBVIOUS
    <3>2. PICK bare \in BOOLEAN : open' = [open EXCEPT !["own"] = bare] BY <1>5, <3>1
    <3> QED BY <1>1, <3>2
  <2>2. left \in Seq(JournalLine) /\ Len(left) = n BY <1>1, <1>3, FirstLines
  <2>3. Cuts(left, low) \subseteq Cuts(lines, low) BY <1>1, CutsOfFirst
  <2> HIDE DEF left
  <2> QED BY <1>4, <1>5, <2>1, <2>2, <2>3
<1>6. ASSUME n > low, NEW kind \in IF Wide THEN Torn ELSE {"torn"},
             file' = [file EXCEPT !["own"] = Append(Front(left), [type |-> kind])],
             open' = [open EXCEPT !["own"] = TRUE]
      PROVE  /\ JournalInv' /\ mem'.entries = <<>> /\ Stored' \in Cuts(lines, low)
             /\ UNCHANGED acked
  <2> DEFINE cut == Append(Front(left), [type |-> kind])
  <2>1. kind \in Torn BY DEF Torn
  <2>2. cut \in Seq(JournalLine) /\ Len(cut) = n /\ Cuts(cut, low) \subseteq Cuts(lines, low)
    BY <1>1, <1>6, <2>1, CutsOfTorn
  <2>3. open' \in [File -> BOOLEAN] BY <1>1, <1>6
  <2> HIDE DEF cut
  <2>4. file' = [file EXCEPT !["own"] = cut] BY <1>6 DEF cut
  <2> QED BY <1>4, <2>2, <2>3, <2>4
<1> QED BY <1>2, <1>5, <1>6

LEMMA LoadInv ==
    ASSUME JournalAssumption, JournalInv, Load
    PROVE  /\ JournalInv' /\ mem.entries = <<>> /\ mem' = Stored
           /\ UNCHANGED <<file, acked>>
<1>1. /\ pc = "down" /\ pc' = "idle" /\ mem' = Stored /\ persisted' = Len(mem'.entries) /\ needs' = FALSE
      /\ UNCHANGED <<file, open, synced, todo, acked, edits, tears, crashes>>
      /\ mem.entries = <<>>
  BY DEF Load, JournalInv, Memory, Loaded, Stored
<1>2. Survivor(Stored) /\ Stored \in Store BY StoredSurvives DEF JournalInv
<1> DEFINE es == mem'.entries
<1>3. es \in Seq(Entry) /\ Len(es) \in Nat /\ Tree(mem') BY <1>1, <1>2 DEF Store, Survivor
<1>4. todo = <<>> BY <1>1 DEF JournalInv, Saving
<1>5. JournalTyped'
  <2>1. Len(es) \in Id BY <1>3, LengthIsId DEF Tree
  <2>2. persisted' <= Len(mem'.entries) BY <1>1, <1>3
  <2> QED BY <1>1, <2>1, <2>2 DEF JournalInv, JournalTyped
<1>6. Memory' BY <1>1, <1>2 DEF Memory, Survivor
<1>7. Survives'
  <2>1. edits \in Nat BY DEF JournalInv, JournalTyped
  <2> QED BY <1>1, <2>1, SurvivesOn
<1>8. Saving'
  <2>1. Stored' = mem' BY <1>1 DEF Stored
  <2>2. SubSeq(es, 1, Len(es)) = es /\ Len(es) \in Len(es)..Len(es) BY <1>3
  <2>3. BeginsWith(Stored, persisted)'
    <3> HIDE DEF es
    <3> QED BY <1>1, <2>1, <2>2 DEF BeginsWith, es
  <2> QED BY <1>1, <1>4, <2>3 DEF JournalInv, Saving
<1> QED BY <1>1, <1>5, <1>6, <1>7, <1>8 DEF JournalInv

LEMMA StutterInv ==
    ASSUME JournalInv, UNCHANGED journalVars PROVE JournalInv' /\ Stored' = Stored
<1>1. UNCHANGED <<mem, persisted, needs, file, open, synced, todo, pc, acked, edits, tears, crashes>>
  BY DEF journalVars, saveVars
<1>2. JournalTyped' /\ Memory' BY <1>1 DEF JournalInv, JournalTyped, Memory
<1>3. Survives'
  <2>1. edits \in Nat BY DEF JournalInv, JournalTyped
  <2> QED BY <1>1, <2>1, SurvivesOn
<1>4. Saving'
  BY <1>1 DEF JournalInv, Saving, Completes, BeginsWith, Rest, StateLine, SnapshotLine, Stored
<1>5. Stored' = Stored BY <1>1 DEF Stored
<1> QED BY <1>2, <1>3, <1>4, <1>5 DEF JournalInv

LEMMA JournalStep ==
    ASSUME JournalAssumption, JournalInv, [JournalNext]_journalVars PROVE JournalInv'
<1>1. ASSUME NEW kind \in Kind, AppendEntry(kind) PROVE JournalInv' BY <1>1, AppendInv
<1>2. ASSUME NEW l \in Label, DeleteBranch(l) PROVE JournalInv' BY <1>2, DeleteInv
<1> QED BY <1>1, <1>2, CheckoutInv, GoalInv, BeginInv, WriteInv, FailsInv, SyncInv, KillInv,
           PowerInv, LoadInv, StutterInv DEF JournalNext

-----------------------------------------------------------------------------
(* The theorems on the journal *)

LEMMA LoadedIsStored ==
    ASSUME JournalInv
    PROVE  /\ Loaded = Stored /\ Survivor(Stored)
           /\ Range(mem.entries) = In(mem.entries) /\ Range(Loaded.entries) = In(Stored.entries)
           /\ In(mem.entries) \subseteq Entry /\ In(Stored.entries) \subseteq Entry
<1>1. Loaded = Stored BY DEF Loaded, Stored, JournalInv, Memory
<1>2. Survivor(Stored) /\ Stored \in Store BY StoredSurvives DEF JournalInv
<1>3. mem.entries \in Seq(Entry) /\ Stored.entries \in Seq(Entry)
  BY <1>2 DEF JournalInv, Memory, Tree, Store
<1>4. In(mem.entries) \subseteq Entry /\ In(Stored.entries) \subseteq Entry BY <1>3 DEF In
<1> QED BY <1>1, <1>2, <1>3, <1>4, InIds

\* The conversation is typed, no journal is longer than its bound, and no save
\* slices entries off that are not there (save_for_cwd, `entries[persisted..]`).
THEOREM JournalTypes ==
    ASSUME JournalAssumption, FirstSaved PROVE JournalSpec => []JournalTypeOK
<1>1. JournalInit => JournalInv BY FirstState
<1>2. JournalInv /\ [JournalNext]_journalVars => JournalInv' BY JournalStep
<1>3. JournalInv => JournalTypeOK
  <2> SUFFICES ASSUME JournalInv PROVE JournalTypeOK OBVIOUS
  <2>1. mem \in StoreOf({mem.entries})
    <3>1. mem \in Store BY DEF JournalInv, Memory, Tree
    <3> QED BY <3>1 DEF Store, StoreOf
  <2>2. Range(mem.entries) \subseteq Entry BY LoadedIsStored
  <2>3. \A f \in File : synced[f] \in 0..Len(file[f]) /\ Len(file[f]) <= MaxLines
    <3>1. synced["own"] \in 0..Len(file["own"]) /\ Len(file["own"]) <= MaxLines
      <4>1. Len(file["own"]) + Len(todo) <= MaxLines /\ Len(todo) \in Nat /\ Len(file["own"]) \in Nat
        <5>1. file["own"] \in Seq(JournalLine) BY StoredSurvives DEF JournalInv
        <5>2. todo \in Seq(JournalLine) BY DEF JournalInv, JournalTyped
        <5> QED BY <5>1, <5>2 DEF JournalInv, Saving
      <4>2. MaxLines \in Nat BY DEF JournalAssumption
      <4> QED BY <4>1, <4>2, StoredSurvives DEF JournalInv
    <3>2. synced["fresh"] = 0 /\ Len(file["fresh"]) = 0 BY DEF JournalInv, JournalTyped
    <3>3. 0 \in 0..0 /\ 0 <= MaxLines BY DEF JournalAssumption
    <3> QED BY <3>1, <3>2, <3>3 DEF File
  <2> QED BY <2>1, <2>2, <2>3 DEF JournalTypeOK, JournalInv, JournalTyped
<1> QED BY <1>1, <1>2, <1>3, PTL DEF JournalSpec

\* When its last record is written, a save can be loaded, if the file can be read:
\* what a restart gives back is the conversation, the very one (save_for_cwd,
\* load_from_journal).
THEOREM SavedLoads ==
    ASSUME JournalAssumption, FirstSaved PROVE JournalSpec => []SavedIsLoaded
<1>1. JournalInit => JournalInv BY FirstState
<1>2. JournalInv /\ [JournalNext]_journalVars => JournalInv' BY JournalStep
<1>3. JournalInv => SavedIsLoaded
  <2> SUFFICES ASSUME JournalInv, pc = "save", todo = <<>>, Readable PROVE Loaded = mem
    BY DEF SavedIsLoaded
  <2>1. Completes(<<>>, Stored) BY DEF JournalInv, Saving
  <2>2. mem \in Store /\ Len(mem.entries) \in Nat BY DEF JournalInv, Memory, Tree, Store
  <2>3. \A k \in 0..Len(mem.entries) : Rest(k) # <<>>
    <3> SUFFICES ASSUME NEW k \in 0..Len(mem.entries), Rest(k) = <<>> PROVE FALSE OBVIOUS
    <3>1. Len(Rest(k)) = Len(mem.entries) - k + 1 BY <2>2, RestIs
    <3>2. Len(Rest(k)) = 0 OBVIOUS
    <3> QED BY <2>2, <3>1, <3>2
  <2>4. <<SnapshotLine, StateLine>> # <<>> OBVIOUS
  <2>5. Stored = mem BY <2>1, <2>3, <2>4 DEF Completes
  <2> QED BY <2>5, LoadedIsStored
<1> QED BY <1>1, <1>2, <1>3, PTL DEF JournalSpec

\* Wherever the writing stops, a restart loads a tree (load_from_journal,
\* push_loaded_entry, apply_state_json).
THEOREM LoadsATree ==
    ASSUME JournalAssumption, FirstSaved PROVE JournalSpec => []LoadedIsTree
<1>1. JournalInit => JournalInv BY FirstState
<1>2. JournalInv /\ [JournalNext]_journalVars => JournalInv' BY JournalStep
<1>3. JournalInv => LoadedIsTree
  BY LoadedIsStored, TreeIsTree DEF LoadedIsTree, Survivor, JournalInv, Memory
<1> QED BY <1>1, <1>2, <1>3, PTL DEF JournalSpec

PromiseKept == IF Readable THEN Range(Loaded.entries) ELSE {}

PromiseVars == <<Range(mem.entries), PromiseKept, acked, ~Readable>>

\* A line of a save makes no file readable again.
LEMMA StaysUnread ==
    ASSUME JournalInv, Write \/ SaveFails, Readable'
    PROVE  Readable
<1>1. /\ mem.id = "own" /\ mem' = mem /\ ~open["own"] /\ file["own"] \in Seq(JournalLine)
      /\ file \in [File -> Seq(JournalLine)]
  BY StoredSurvives DEF Write, SaveFails, JournalInv, Memory, JournalTyped, Saving
<1>2. UNCHANGED file \/ \E line : Put(line) BY DEF Write, SaveFails
<1>3. CASE UNCHANGED file BY <1>1, <1>3 DEF Readable
<1>4. ASSUME NEW line, Put(line) PROVE Readable
  <2>1. file'["own"] = Append(file["own"], line) BY <1>1, <1>4 DEF Put, File
  <2> DEFINE old == file["own"]
             new == Append(old, line)
  <2>2. \A i \in 1..Len(old) : i \in 1..Len(new) /\ new[i] = old[i] BY <1>1
  <2>3. \A i \in DOMAIN new : new[i].type # "cut" BY <1>1, <2>1 DEF Readable
  <2>4. DOMAIN new = 1..Len(new) /\ DOMAIN old = 1..Len(old) BY <1>1
  <2> HIDE DEF new
  <2> QED BY <1>1, <2>2, <2>3, <2>4 DEF Readable
<1> QED BY <1>2, <1>3, <1>4

LEMMA PromiseStep ==
    ASSUME JournalAssumption, JournalInv, [JournalNext]_journalVars
    PROVE  [Promise!Next]_PromiseVars
<1> DEFINE shown == In(mem.entries)
           held == In(Stored.entries)
           kept == IF Readable THEN held ELSE {}
<1>0. JournalInv' BY JournalStep
<1>1. /\ Range(mem.entries) = shown /\ PromiseKept = kept
      /\ shown \subseteq Entry /\ kept \subseteq Entry /\ Survivor(Stored)
  BY LoadedIsStored DEF PromiseKept
<1>2. /\ Range(mem'.entries) = shown' /\ PromiseKept' = kept'
      /\ shown' \subseteq Entry /\ kept' \subseteq Entry
  <2>1. Loaded' = Stored' BY <1>0 DEF Loaded, Stored, JournalInv, Memory
  <2>2. file'["own"] \in Seq(JournalLine) /\ synced'["own"] \in 0..Len(file'["own"])
    BY <1>0 DEF JournalInv, JournalTyped, File
  <2>3. Stored' \in Cuts(file'["own"], synced'["own"]) BY <2>2, CutsAre DEF Stored
  <2>4. Tree(mem') /\ Tree(Stored') BY <1>0, <2>3 DEF JournalInv, Memory, Survives, Survivor
  <2>5. mem'.entries \in Seq(Entry) /\ Stored'.entries \in Seq(Entry) BY <2>4 DEF Tree, Store
  <2>6. In(mem'.entries) \subseteq Entry /\ In(Stored'.entries) \subseteq Entry
    BY <2>5 DEF In
  <2>7. Range(mem'.entries) = In(mem'.entries) /\ Range(Stored'.entries) = In(Stored'.entries)
    BY <2>5, InIds
  <2> QED BY <2>1, <2>6, <2>7 DEF PromiseKept
<1>3. pc # "down" => acked \subseteq shown BY DEF JournalInv, Memory
<1>4. ASSUME NEW m \in Cuts(file["own"], synced["own"]), Stored' = m
      PROVE  acked \subseteq held'
  BY <1>4 DEF JournalInv, Survives, Survivor
<1>13. Readable' = Readable /\ held' = held => kept' = kept
  OBVIOUS
<1>14. mem.id = "own" /\ mem'.id = "own" BY <1>0 DEF JournalInv, Memory
<1>15. UNCHANGED file => Readable' = Readable /\ held' = held /\ kept' = kept
  BY <1>14 DEF Readable, Stored
<1> HIDE DEF shown, kept, held
<1>5. ASSUME NEW kind \in Kind, AppendEntry(kind) PROVE [Promise!Next]_PromiseVars
  <2> DEFINE e == [id |-> mem.next, parent |-> mem.leaf, kind |-> kind, life |-> crashes]
  <2>1. mem'.entries = Append(mem.entries, e) BY <1>5 DEF AppendEntry, Added
  <2>2. e \in Entry /\ e \notin shown BY <1>5, NewEntry DEF shown
  <2>3. mem.entries \in Seq(Entry) BY DEF JournalInv, Memory, Tree, Store
  <2> HIDE DEF e
  <2>4. shown' = shown \cup {e} BY <2>1, <2>2, <2>3, AppendOnce DEF shown
  <2>5. kept' = kept /\ Readable' = Readable /\ acked' = acked
    BY <1>5, <1>15 DEF AppendEntry, saveVars
  <2>6. Promise!Say BY <1>1, <1>2, <2>2, <2>4, <2>5 DEF Promise!Say, PromiseKept
  <2> QED BY <2>6 DEF Promise!Next
<1>6. ASSUME Checkout \/ GoalChanges \/ SaveBegin PROVE [Promise!Next]_PromiseVars
  <2>1. UNCHANGED <<file, acked>> /\ mem'.entries = mem.entries
    <3>1. mem \in Store BY DEF JournalInv, Memory, Tree
    <3> QED BY <1>6, <3>1 DEF Checkout, GoalChanges, SaveBegin, saveVars, Store
  <2>2. shown' = shown /\ kept' = kept /\ Readable' = Readable BY <1>15, <2>1 DEF shown
  <2> QED BY <1>1, <1>2, <2>1, <2>2 DEF PromiseVars
<1>7. ASSUME NEW l \in Label, DeleteBranch(l) PROVE [Promise!Next]_PromiseVars
  <2>1. /\ UNCHANGED <<file, synced>> /\ acked' = acked \cap shown'
        /\ shown' \subseteq shown /\ shown' # shown
    BY <1>7, DeleteInv DEF shown
  <2>2. kept' = kept /\ Readable' = Readable BY <1>15, <2>1
  <2>3. Promise!Prune BY <1>1, <1>2, <2>1, <2>2 DEF Promise!Prune, PromiseKept
  <2> QED BY <2>3 DEF Promise!Next
<1>8. ASSUME Write \/ SaveFails PROVE [Promise!Next]_PromiseVars
  <2>1. UNCHANGED <<mem, acked>> /\ pc = "save" BY <1>8 DEF Write, SaveFails
  <2>2. Stored' = Stored \/ Advances(Stored, Stored') BY <1>8, WriteInv, FailsInv
  <2>3. held' \ held \subseteq shown /\ (held \ held') \cap shown = {}
    BY <2>2 DEF Advances, held, shown
  <2>4. shown' = shown BY <2>1 DEF shown
  <2>5. CASE Readable'
    <3>1. Readable BY <1>8, <2>5, StaysUnread
    <3>2. kept' = held' /\ kept = held BY <2>5, <3>1 DEF kept
    <3>3. Promise!Store
      BY <1>1, <1>2, <1>3, <2>1, <2>3, <2>4, <2>5, <3>1, <3>2 DEF Promise!Store, PromiseKept
    <3> QED BY <3>3 DEF Promise!Next
  <2>6. CASE ~Readable'
    <3>1. kept' = {} BY <2>6 DEF kept
    <3>2. Promise!Spoil BY <1>1, <1>2, <2>1, <2>4, <2>6, <3>1 DEF Promise!Spoil, PromiseKept
    <3> QED BY <3>2 DEF Promise!Next
  <2> QED BY <2>5, <2>6
<1>9. ASSUME Sync PROVE [Promise!Next]_PromiseVars
  <2>1. Stored = mem /\ UNCHANGED <<mem, file>> /\ acked' = shown BY <1>9, SyncInv DEF shown
  <2>2. held = shown /\ shown' = shown BY <2>1 DEF shown, held
  <2>3. kept' = kept /\ Readable' = Readable /\ (Readable => kept = held)
    BY <1>15, <2>1 DEF kept
  <2>4. Promise!Commit BY <1>1, <1>2, <2>1, <2>2, <2>3 DEF Promise!Commit, PromiseKept
  <2> QED BY <2>4 DEF Promise!Next
<1>10. ASSUME Kill \/ PowerCut PROVE [Promise!Next]_PromiseVars
  <2>1. /\ mem'.entries = <<>> /\ UNCHANGED acked
        /\ Stored' \in Cuts(file["own"], synced["own"])
    BY <1>10, KillInv, PowerInv
  <2>2. shown' = {}
    <3>1. Len(<<>>) = 0 /\ 1..0 = {} OBVIOUS
    <3> QED BY <2>1, <3>1 DEF shown, In
  <2>3. IF Readable' THEN acked \subseteq kept' ELSE kept' = {} BY <1>4, <2>1 DEF kept
  <2>4. Promise!Lose BY <1>2, <2>1, <2>2, <2>3 DEF Promise!Lose, PromiseKept
  <2> QED BY <2>4 DEF Promise!Next
<1>11. ASSUME Load PROVE [Promise!Next]_PromiseVars
  <2>1. mem.entries = <<>> /\ mem' = Stored /\ UNCHANGED <<file, acked>> BY <1>11, LoadInv
  <2>2. shown = {}
    <3>1. Len(<<>>) = 0 /\ 1..0 = {} OBVIOUS
    <3> QED BY <2>1, <3>1 DEF shown, In
  <2>3. Readable /\ shown' = held /\ kept = held BY <1>11, <2>1 DEF Load, shown, held, kept
  <2>5. kept' = kept /\ Readable' = Readable BY <1>15, <2>1
  <2>4. Promise!Restore BY <1>1, <1>2, <2>1, <2>2, <2>3, <2>5 DEF Promise!Restore, PromiseKept
  <2> QED BY <2>4 DEF Promise!Next
<1>12. ASSUME UNCHANGED journalVars PROVE [Promise!Next]_PromiseVars
  BY <1>12 DEF journalVars, saveVars, PromiseVars, PromiseKept, Readable, Loaded
<1> QED BY <1>5, <1>6, <1>7, <1>8, <1>9, <1>10, <1>11, <1>12 DEF JournalNext

\* Saves, whole or cut short, kills, power cuts and restarts keep the promise of
\* Conversation: as long as the file can be read, nothing a finished save stored is
\* lost, but what was deleted (save_for_cwd: "acknowledged records survive power
\* loss").  A line cut inside a character makes the file unreadable, for good once
\* it is synced (load_from_journal); until then what is kept counts as nothing.
THEOREM KeepsThePromise ==
    ASSUME JournalAssumption, FirstSaved PROVE JournalSpec => KeepsConversation
<1>1. JournalInit => JournalInv BY FirstState
<1>2. JournalInv /\ [JournalNext]_journalVars => JournalInv' BY JournalStep
<1>3. JournalInit => Promise!Init
  <2> SUFFICES ASSUME JournalInit PROVE Promise!Init OBVIOUS
  <2>1. JournalInv BY FirstState
  <2>2. mem.entries = <<>> /\ acked = {} BY OwnNew DEF JournalInit
  <2>3. In(mem.entries) = {}
    <3>1. Len(<<>>) = 0 /\ 1..0 = {} OBVIOUS
    <3> QED BY <2>2, <3>1 DEF In
  <2>4. Stored = mem BY FirstStored
  <2>5. Readable
    <3>1. \A i \in DOMAIN <<[type |-> "state", state |-> StateOf(mem)]>> :
              <<[type |-> "state", state |-> StateOf(mem)]>>[i].type # "cut"
      OBVIOUS
    <3>2. mem.id = "own" /\ file["own"] = <<[type |-> "state", state |-> StateOf(mem)]>>
      BY <2>1 DEF JournalInit, JournalInv, Memory, File
    <3> QED BY <3>1, <3>2 DEF Readable
  <2> QED BY <2>1, <2>2, <2>3, <2>4, <2>5, LoadedIsStored DEF Promise!Init
<1>4. JournalInv /\ [JournalNext]_journalVars => [Promise!Next]_PromiseVars BY PromiseStep
<1> QED BY <1>1, <1>2, <1>3, <1>4, PTL DEF JournalSpec, KeepsConversation, Promise!Spec, PromiseVars, PromiseKept

=============================================================================
