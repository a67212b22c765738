------------------------ MODULE EngineAdapterProofs ------------------------
(***************************************************************************)
(* What the adapters of EngineThread's engines do, for any number of       *)
(* messages and asks: Claude Code's, Codex's and ACP's.  For each adapter, *)
(* a lemma per op and per kind of line says where the messages go that it  *)
(* is about (its queues, the frames it writes, the events it tells), and   *)
(* another what becomes of its state; EngineThreadProofs puts them         *)
(* together.                                                               *)
(***************************************************************************)
EXTENDS EngineThread, FiniteSetTheorems, TLAPS

-----------------------------------------------------------------------------
\* --- sequences in which nothing comes twice ---

\* The messages of a queue, and that none is in it twice.
In(q) == {q[i] : i \in 1..Len(q)}

Once(q) == \A i, j \in 1..Len(q) : q[i] = q[j] => i = j

\* A message that is not in a queue can be added to it, ...
LEMMA AppendOnce ==
    ASSUME NEW S, NEW q \in Seq(S), NEW x \in S
    PROVE  /\ Append(q, x) \in Seq(S) /\ In(Append(q, x)) = In(q) \cup {x}
           /\ Once(q) /\ x \notin In(q) => Once(Append(q, x))
<1> DEFINE r == Append(q, x)
<1>1. r \in Seq(S) /\ Len(r) = Len(q) + 1 /\ r[Len(q) + 1] = x OBVIOUS
<1>2. \A i \in 1..Len(q) : r[i] = q[i] /\ i \in 1..Len(r) OBVIOUS
<1>3. \A i \in 1..Len(r) : i \in 1..Len(q) \/ i = Len(q) + 1 BY <1>1
<1>4. Len(q) \in Nat OBVIOUS
<1> HIDE DEF r
<1>5. In(r) = In(q) \cup {x}
  <2>1. \A y \in In(r) : y \in In(q) \cup {x} BY <1>1, <1>2, <1>3 DEF In
  <2>2. \A y \in In(q) : y \in In(r) BY <1>2 DEF In
  <2>3. x \in In(r) BY <1>1, <1>4 DEF In
  <2> QED BY <2>1, <2>2, <2>3
<1>6. ASSUME Once(q), x \notin In(q) PROVE Once(r)
  <2> SUFFICES ASSUME NEW i \in 1..Len(r), NEW j \in 1..Len(r), r[i] = r[j] PROVE i = j
    BY DEF Once
  <2>1. CASE i \in 1..Len(q) /\ j \in 1..Len(q) BY <1>2, <1>6, <2>1 DEF Once
  <2>2. CASE i \in 1..Len(q) /\ j = Len(q) + 1 BY <1>1, <1>2, <1>6, <2>2 DEF In
  <2>3. CASE j \in 1..Len(q) /\ i = Len(q) + 1 BY <1>1, <1>2, <1>6, <2>3 DEF In
  <2> QED BY <1>3, <2>1, <2>2, <2>3
<1> QED BY <1>1, <1>5, <1>6 DEF r

\* ... a queue without one in common can be put after it, ...
LEMMA ConcatOnce ==
    ASSUME NEW S, NEW p \in Seq(S), NEW q \in Seq(S)
    PROVE  /\ p \o q \in Seq(S) /\ In(p \o q) = In(p) \cup In(q)
           /\ Once(p) /\ Once(q) /\ In(p) \cap In(q) = {} => Once(p \o q)
<1> DEFINE r == p \o q
<1>1. r \in Seq(S) /\ Len(r) = Len(p) + Len(q) OBVIOUS
<1>2. \A i \in 1..Len(p) : r[i] = p[i] /\ i \in 1..Len(r) OBVIOUS
<1>3. \A i \in 1..Len(q) : r[i + Len(p)] = q[i] /\ i + Len(p) \in 1..Len(r) OBVIOUS
<1>4. \A i \in 1..Len(r) : i \in 1..Len(p) \/ (i - Len(p) \in 1..Len(q) /\ r[i] = q[i - Len(p)])
  OBVIOUS
<1>5. Len(p) \in Nat /\ Len(q) \in Nat OBVIOUS
<1> HIDE DEF r
<1>6. In(r) = In(p) \cup In(q)
  <2>1. \A y \in In(r) : y \in In(p) \cup In(q) BY <1>2, <1>4 DEF In
  <2>2. \A y \in In(p) : y \in In(r) BY <1>2 DEF In
  <2>3. \A y \in In(q) : y \in In(r) BY <1>3 DEF In
  <2> QED BY <2>1, <2>2, <2>3
<1>7. ASSUME Once(p), Once(q), In(p) \cap In(q) = {} PROVE Once(r)
  <2> SUFFICES ASSUME NEW i \in 1..Len(r), NEW j \in 1..Len(r), r[i] = r[j] PROVE i = j
    BY DEF Once
  <2>1. CASE i \in 1..Len(p) /\ j \in 1..Len(p) BY <1>2, <1>7, <2>1 DEF Once
  <2>a. \A k \in 1..Len(p) : r[k] \in In(p) BY <1>2 DEF In
  <2>b. \A k \in 1..Len(r) : k \notin 1..Len(p) => r[k] \in In(q) BY <1>4 DEF In
  <2>2. CASE i \in 1..Len(p) /\ j \notin 1..Len(p) BY <2>a, <2>b, <1>7, <2>2
  <2>3. CASE i \notin 1..Len(p) /\ j \in 1..Len(p) BY <2>a, <2>b, <1>7, <2>3
  <2>4. CASE i \notin 1..Len(p) /\ j \notin 1..Len(p)
    <3>1. i - Len(p) = j - Len(p) BY <1>4, <1>7, <2>4 DEF Once
    <3> QED BY <3>1, <1>5
  <2> QED BY <2>1, <2>2, <2>3, <2>4
<1> QED BY <1>1, <1>6, <1>7 DEF r

\* ... its first can be taken, ...
LEMMA TailOnce ==
    ASSUME NEW S, NEW q \in Seq(S), q # <<>>
    PROVE  /\ Head(q) \in S /\ Tail(q) \in Seq(S) /\ In(q) = In(Tail(q)) \cup {Head(q)}
           /\ Once(q) => Once(Tail(q)) /\ Head(q) \notin In(Tail(q))
<1> DEFINE r == Tail(q)
<1>1. r \in Seq(S) /\ Len(r) = Len(q) - 1 /\ Head(q) = q[1] /\ Head(q) \in S /\ 1 \in 1..Len(q)
  OBVIOUS
<1>2. \A i \in 1..Len(r) : r[i] = q[i + 1] /\ i + 1 \in 1..Len(q) OBVIOUS
<1>3. \A i \in 1..Len(q) : i = 1 \/ (i - 1 \in 1..Len(r) /\ r[i - 1] = q[i]) OBVIOUS
<1>4. Len(q) \in Nat OBVIOUS
<1> HIDE DEF r
<1>5. In(q) = In(r) \cup {Head(q)}
  <2>1. \A y \in In(q) : y \in In(r) \cup {Head(q)}
    <3> SUFFICES ASSUME NEW i \in 1..Len(q) PROVE q[i] \in In(r) \cup {Head(q)} BY DEF In
    <3>1. CASE i = 1 BY <1>1, <3>1
    <3>2. CASE i - 1 \in 1..Len(r) /\ r[i - 1] = q[i] BY <3>2 DEF In
    <3> QED BY <1>3, <3>1, <3>2
  <2>2. \A y \in In(r) : y \in In(q) BY <1>2 DEF In
  <2>3. Head(q) \in In(q) BY <1>1 DEF In
  <2> QED BY <2>1, <2>2, <2>3
<1>6. ASSUME Once(q) PROVE Once(r) /\ Head(q) \notin In(r)
  <2>1. ASSUME NEW i \in 1..Len(r), NEW j \in 1..Len(r), r[i] = r[j] PROVE i = j
    <3>1. i + 1 = j + 1 BY <1>2, <1>6, <2>1 DEF Once
    <3> QED BY <3>1
  <2>2. ASSUME NEW i \in 1..Len(r), r[i] = Head(q) PROVE FALSE
    <3>1. i + 1 = 1 BY <1>1, <1>2, <1>6, <2>2 DEF Once
    <3> QED BY <3>1
  <2> QED BY <2>1, <2>2 DEF Once, In
<1> QED BY <1>1, <1>5, <1>6 DEF r

\* ... or any other, ...
LEMMA RemoveOnce ==
    ASSUME NEW S, NEW q \in Seq(S), NEW i \in 1..Len(q)
    PROVE  /\ RemoveAt(q, i) \in Seq(S) /\ Len(RemoveAt(q, i)) = Len(q) - 1
           /\ q[i] \in S /\ In(q) = In(RemoveAt(q, i)) \cup {q[i]}
           /\ Once(q) => Once(RemoveAt(q, i)) /\ q[i] \notin In(RemoveAt(q, i))
<1> DEFINE r == RemoveAt(q, i)
           p == SubSeq(q, 1, i - 1)
           t == SubSeq(q, i + 1, Len(q))
<1>0. Len(q) \in Nat /\ i \in Nat /\ i - 1 \in Nat OBVIOUS
<1>1. p \in Seq(S) /\ Len(p) = i - 1 /\ \A k \in 1..(i - 1) : p[k] = q[k] OBVIOUS
<1>2. t \in Seq(S) /\ Len(t) = Len(q) - i /\ \A k \in 1..(Len(q) - i) : t[k] = q[k + i]
  OBVIOUS
<1>3. r = p \o t BY DEF RemoveAt
<1> HIDE DEF r, p, t
<1>4. r \in Seq(S) /\ In(r) = In(p) \cup In(t) BY <1>1, <1>2, <1>3, ConcatOnce
<1>5. Len(r) = Len(q) - 1
  <2>1. p \in Seq(S) /\ t \in Seq(S) BY <1>1, <1>2
  <2>2. Len(p \o t) = Len(p) + Len(t) BY <2>1
  <2> QED BY <2>2, <1>0, <1>1, <1>2, <1>3
<1>6. In(p) = {q[k] : k \in 1..(i - 1)} BY <1>1 DEF In
<1>7. In(t) = {q[k] : k \in (i + 1)..Len(q)}
  <2> DEFINE T == {q[k] : k \in (i + 1)..Len(q)}
  <2>1. ASSUME NEW k \in (i + 1)..Len(q) PROVE k - i \in 1..Len(t) /\ t[k - i] = q[k]
    BY <1>0, <1>2
  <2>2. ASSUME NEW k \in 1..Len(t) PROVE k + i \in (i + 1)..Len(q) /\ t[k] = q[k + i]
    BY <1>0, <1>2
  <2>3. In(t) \subseteq T BY <2>2 DEF In
  <2>4. T \subseteq In(t)
    <3> SUFFICES ASSUME NEW k \in (i + 1)..Len(q) PROVE q[k] \in In(t) OBVIOUS
    <3> QED BY <2>1 DEF In
  <2> QED BY <2>3, <2>4
<1>8. \A k \in 1..Len(q) : k \in 1..(i - 1) \/ k = i \/ k \in (i + 1)..Len(q) BY <1>0
<1>9. \A k \in 1..(i - 1) : k \in 1..Len(q) /\ k # i BY <1>0
<1>10. \A k \in (i + 1)..Len(q) : k \in 1..Len(q) /\ k # i BY <1>0
<1>11. \A k \in 1..(i - 1), l \in (i + 1)..Len(q) : k # l BY <1>0
<1>12. In(q) = In(r) \cup {q[i]}
  <2>1. \A y \in In(q) : y \in In(r) \cup {q[i]} BY <1>4, <1>6, <1>7, <1>8 DEF In
  <2>2. \A y \in In(r) : y \in In(q) BY <1>4, <1>6, <1>7, <1>9, <1>10 DEF In
  <2> QED BY <2>1, <2>2 DEF In
<1>13. ASSUME Once(q) PROVE Once(r) /\ q[i] \notin In(r)
  <2>1. q[i] \notin In(r) BY <1>4, <1>6, <1>7, <1>9, <1>10, <1>13 DEF Once
  <2>2. Once(p)
    <3>1. \A k \in 1..Len(p) : p[k] = q[k] /\ k \in 1..Len(q) BY <1>1, <1>9
    <3> QED BY <3>1, <1>13 DEF Once
  <2>3. Once(t)
    <3> SUFFICES ASSUME NEW k \in 1..Len(t), NEW l \in 1..Len(t), t[k] = t[l] PROVE k = l
      BY DEF Once
    <3>1. k + i \in 1..Len(q) /\ l + i \in 1..Len(q) /\ q[k + i] = q[l + i] BY <1>0, <1>2
    <3>2. k + i = l + i BY <3>1, <1>13 DEF Once
    <3> QED BY <3>2, <1>0
  <2>4. In(p) \cap In(t) = {} BY <1>6, <1>7, <1>9, <1>10, <1>11, <1>13 DEF Once
  <2> QED BY <2>1, <2>2, <2>3, <2>4, <1>1, <1>2, <1>3, ConcatOnce
<1>14. q[i] \in S OBVIOUS
<1> QED BY <1>4, <1>5, <1>12, <1>13, <1>14 DEF r

\* A queue of one.
LEMMA OneOnce ==
    ASSUME NEW S, NEW x \in S
    PROVE  <<x>> \in Seq(S) /\ In(<<x>>) = {x} /\ Once(<<x>>)
<1>1. <<x>> \in Seq(S) /\ Len(<<x>>) = 1 /\ <<x>>[1] = x OBVIOUS
<1>2. 1..1 = {1} OBVIOUS
<1> QED BY <1>1, <1>2 DEF In, Once

\* ... and one can be put in between: nothing is in it twice, or lost.
LEMMA InsertOnce ==
    ASSUME NEW S, NEW q \in Seq(S), NEW i \in 1..(Len(q) + 1), NEW x \in S
    PROVE  /\ InsertAt(q, i, x) \in Seq(S) /\ In(InsertAt(q, i, x)) = In(q) \cup {x}
           /\ Once(q) /\ x \notin In(q) => Once(InsertAt(q, i, x))
<1> DEFINE p == SubSeq(q, 1, i - 1)
           t == SubSeq(q, i, Len(q))
<1>0. Len(q) \in Nat /\ i \in Nat /\ i - 1 \in Nat OBVIOUS
<1>1. p \in Seq(S) /\ Len(p) = i - 1 /\ \A k \in 1..(i - 1) : p[k] = q[k] OBVIOUS
<1>2. t \in Seq(S) /\ Len(t) = Len(q) + 1 - i
      /\ \A k \in 1..(Len(q) + 1 - i) : t[k] = q[k + i - 1]
  OBVIOUS
<1>3. InsertAt(q, i, x) = (p \o <<x>>) \o t BY DEF InsertAt
<1> HIDE DEF p, t
<1>a. <<x>> \in Seq(S) /\ In(<<x>>) = {x} /\ Once(<<x>>) BY OneOnce
<1> DEFINE o == <<x>>
           px == p \o o
<1> HIDE DEF o
<1>4. px \in Seq(S) /\ In(px) = In(p) \cup {x}
  <2>1. o \in Seq(S) /\ In(o) = {x} BY <1>a DEF o
  <2> QED BY <1>1, <2>1, ConcatOnce
<1>b. Once(p) /\ x \notin In(p) => Once(px)
  <2> SUFFICES ASSUME Once(p), x \notin In(p) PROVE Once(px) OBVIOUS
  <2>1. o \in Seq(S) /\ In(o) = {x} /\ Once(o) BY <1>a DEF o
  <2>2. In(p) \cap In(o) = {} BY <2>1
  <2> QED BY <1>1, <2>1, <2>2, ConcatOnce
<1>c. InsertAt(q, i, x) = px \o t BY <1>3 DEF o
<1> HIDE DEF px
<1>5. InsertAt(q, i, x) \in Seq(S) /\ In(InsertAt(q, i, x)) = In(p) \cup {x} \cup In(t)
  BY <1>2, <1>c, <1>4, ConcatOnce
<1>6. In(p) = {q[k] : k \in 1..(i - 1)} BY <1>1 DEF In
<1>7. In(t) = {q[k] : k \in i..Len(q)}
  <2> DEFINE T == {q[k] : k \in i..Len(q)}
  <2>1. ASSUME NEW k \in i..Len(q) PROVE k - i + 1 \in 1..Len(t) /\ t[k - i + 1] = q[k]
    BY <1>0, <1>2
  <2>2. ASSUME NEW k \in 1..Len(t) PROVE k + i - 1 \in i..Len(q) /\ t[k] = q[k + i - 1]
    BY <1>0, <1>2
  <2>3. In(t) \subseteq T BY <2>2 DEF In
  <2>4. T \subseteq In(t)
    <3> SUFFICES ASSUME NEW k \in i..Len(q) PROVE q[k] \in In(t) OBVIOUS
    <3> QED BY <2>1 DEF In
  <2> QED BY <2>3, <2>4
<1>8. \A k \in 1..Len(q) : k \in 1..(i - 1) \/ k \in i..Len(q) BY <1>0
<1>9. \A k \in 1..(i - 1) : k \in 1..Len(q) BY <1>0
<1>10. \A k \in i..Len(q) : k \in 1..Len(q) BY <1>0
<1>11. \A k \in 1..(i - 1), l \in i..Len(q) : k # l BY <1>0
<1>12. In(q) = In(p) \cup In(t)
  <2>1. \A y \in In(q) : y \in In(p) \cup In(t) BY <1>6, <1>7, <1>8 DEF In
  <2>2. \A y \in In(p) \cup In(t) : y \in In(q) BY <1>6, <1>7, <1>9, <1>10 DEF In
  <2> QED BY <2>1, <2>2
<1>13. ASSUME Once(q), x \notin In(q) PROVE Once(InsertAt(q, i, x))
  <2>1. Once(p)
    <3>1. \A k \in 1..Len(p) : p[k] = q[k] /\ k \in 1..Len(q) BY <1>1, <1>9
    <3> QED BY <3>1, <1>13 DEF Once
  <2>2. Once(t)
    <3> SUFFICES ASSUME NEW k \in 1..Len(t), NEW l \in 1..Len(t), t[k] = t[l] PROVE k = l
      BY DEF Once
    <3>1. k + i - 1 \in 1..Len(q) /\ l + i - 1 \in 1..Len(q) /\ q[k + i - 1] = q[l + i - 1]
      BY <1>0, <1>2
    <3>2. k + i - 1 = l + i - 1 BY <3>1, <1>13 DEF Once
    <3> QED BY <3>2, <1>0
  <2>3. In(p) \cap In(t) = {} BY <1>6, <1>7, <1>9, <1>10, <1>11, <1>13 DEF Once
  <2>4. Once(px) BY <2>1, <1>12, <1>13, <1>b
  <2>5. In(px) \cap In(t) = {} BY <2>3, <1>4, <1>12, <1>13
  <2> QED BY <2>2, <2>4, <2>5, <1>2, <1>c, <1>4, ConcatOnce
<1> QED BY <1>5, <1>12, <1>13

-----------------------------------------------------------------------------
\* --- words: which types of frames or lines a sequence has, and in what order ---

\* Words of frames or lines: whether one has a type of T, whether one of B comes
\* after one of A, whether each of A is followed by one of B.
Has(s, T) == \E i \in DOMAIN s : s[i].t \in T

NoneAfter(s, A, B) == \A i, j \in DOMAIN s : i < j /\ s[i].t \in A => s[j].t \notin B

Single(s, T) == NoneAfter(s, T, T)

Follows(s, A, B) ==
    \A k \in DOMAIN s : s[k].t \in A => \E j \in DOMAIN s : k < j /\ s[j].t \in B

\* Where the items of two words put together are.
LEMMA ConcatParts ==
    ASSUME NEW R, NEW s \in Seq(R), NEW u \in Seq(R)
    PROVE  /\ s \o u \in Seq(R) /\ Len(s) \in Nat /\ Len(u) \in Nat
           /\ \A i \in DOMAIN s : i \in DOMAIN (s \o u) /\ (s \o u)[i] = s[i]
           /\ \A i \in DOMAIN u : /\ Len(s) + i \in DOMAIN (s \o u)
                                  /\ (s \o u)[Len(s) + i] = u[i]
           /\ \A i \in DOMAIN (s \o u) :
                 \/ i \in DOMAIN s /\ (s \o u)[i] = s[i]
                 \/ i - Len(s) \in DOMAIN u /\ (s \o u)[i] = u[i - Len(s)]
           /\ \A i \in DOMAIN s : i \in Nat /\ i <= Len(s)
           /\ \A i \in DOMAIN u : i \in Nat /\ i >= 1
<1>1. s \o u \in Seq(R) /\ Len(s \o u) = Len(s) + Len(u) OBVIOUS
<1>2. DOMAIN s = 1..Len(s) /\ DOMAIN u = 1..Len(u) /\ DOMAIN (s \o u) = 1..Len(s \o u)
  BY <1>1
<1>3. Len(s) \in Nat /\ Len(u) \in Nat OBVIOUS
<1>4. \A i \in 1..Len(s) : (s \o u)[i] = s[i] OBVIOUS
<1>5. \A i \in 1..Len(u) : (s \o u)[Len(s) + i] = u[i] OBVIOUS
<1>6. ASSUME NEW i \in 1..(Len(s) + Len(u)), i \notin 1..Len(s)
      PROVE  i - Len(s) \in 1..Len(u) /\ i = Len(s) + (i - Len(s))
  <2>1. \A m, n \in Nat : \A k \in 1..(m + n) : k \notin 1..m => k - m \in 1..n /\ k = m + (k - m)
    OBVIOUS
  <2> QED BY <1>3, <1>6, <2>1
<1>7. ASSUME NEW i \in DOMAIN (s \o u)
      PROVE  \/ i \in DOMAIN s /\ (s \o u)[i] = s[i]
             \/ i - Len(s) \in DOMAIN u /\ (s \o u)[i] = u[i - Len(s)]
  <2>1. CASE i \in 1..Len(s) BY <2>1, <1>2, <1>4
  <2>2. CASE i \notin 1..Len(s)
    <3>1. i - Len(s) \in 1..Len(u) /\ i = Len(s) + (i - Len(s)) BY <1>1, <1>2, <1>6, <2>2
    <3>2. (s \o u)[Len(s) + (i - Len(s))] = u[i - Len(s)] BY <3>1, <1>5
    <3> QED BY <3>1, <3>2, <1>2
  <2> QED BY <2>1, <2>2
<1>8. \A i \in DOMAIN s : i \in DOMAIN (s \o u) /\ i \in Nat /\ i <= Len(s) BY <1>1, <1>2, <1>3
<1>9. \A i \in DOMAIN u : Len(s) + i \in DOMAIN (s \o u) /\ i \in Nat /\ i >= 1 BY <1>1, <1>2, <1>3
<1> QED BY <1>1, <1>2, <1>3, <1>4, <1>5, <1>7, <1>8, <1>9

\* Where the items of a word are when its first is gone.
LEMMA TailParts ==
    ASSUME NEW R, NEW s \in Seq(R), s # <<>>
    PROVE  /\ Tail(s) \in Seq(R) /\ Head(s) \in R /\ Head(s) = s[1] /\ 1 \in DOMAIN s
           /\ \A i \in DOMAIN Tail(s) : /\ i + 1 \in DOMAIN s /\ Tail(s)[i] = s[i + 1]
                                        /\ i \in Nat /\ i >= 1
           /\ \A i \in DOMAIN s : /\ i = 1 \/ (i - 1 \in DOMAIN Tail(s) /\ Tail(s)[i - 1] = s[i])
                                  /\ i \in Nat /\ i >= 1
<1>1. Tail(s) \in Seq(R) /\ Len(Tail(s)) = Len(s) - 1 /\ Head(s) = s[1] /\ Head(s) \in R
      /\ 1 \in 1..Len(s) /\ Len(s) \in Nat
  OBVIOUS
<1>2. \A i \in 1..Len(Tail(s)) : Tail(s)[i] = s[i + 1] /\ i + 1 \in 1..Len(s) OBVIOUS
<1>3. \A i \in 1..Len(s) : i = 1 \/ (i - 1 \in 1..Len(Tail(s)) /\ Tail(s)[i - 1] = s[i]) OBVIOUS
<1>4. DOMAIN s = 1..Len(s) /\ DOMAIN Tail(s) = 1..Len(Tail(s)) BY <1>1
<1> QED BY <1>1, <1>2, <1>3, <1>4

\* What holds of no word, of one item, and of two.
LEMMA EmptyWord ==
    ASSUME NEW A, NEW B
    PROVE  ~Has(<<>>, A) /\ NoneAfter(<<>>, A, B) /\ Follows(<<>>, A, B)
<1>1. DOMAIN <<>> = {} OBVIOUS
<1> QED BY <1>1 DEF Has, NoneAfter, Follows

LEMMA OneWord ==
    ASSUME NEW x, NEW A, NEW B
    PROVE  /\ Has(<<x>>, A) <=> x.t \in A
           /\ NoneAfter(<<x>>, A, B)
           /\ Follows(<<x>>, A, B) <=> x.t \notin A
<1>1. DOMAIN <<x>> = {1} /\ <<x>>[1] = x OBVIOUS
<1>2. ~(1 < 1) OBVIOUS
<1>3. Has(<<x>>, A) <=> x.t \in A BY <1>1 DEF Has
<1>4. NoneAfter(<<x>>, A, B) BY <1>1, <1>2 DEF NoneAfter
<1>5. Follows(<<x>>, A, B) <=> x.t \notin A BY <1>1, <1>2 DEF Follows
<1> QED BY <1>3, <1>4, <1>5

LEMMA TwoWord ==
    ASSUME NEW x, NEW y, NEW A, NEW B
    PROVE  /\ Has(<<x, y>>, A) <=> x.t \in A \/ y.t \in A
           /\ NoneAfter(<<x, y>>, A, B) <=> ~(x.t \in A /\ y.t \in B)
           /\ Follows(<<x, y>>, A, B) <=> (x.t \in A => y.t \in B) /\ y.t \notin A
<1>1. DOMAIN <<x, y>> = {1, 2} /\ <<x, y>>[1] = x /\ <<x, y>>[2] = y OBVIOUS
<1>2. ~(1 < 1) /\ ~(2 < 2) /\ 1 < 2 /\ ~(2 < 1) OBVIOUS
<1>3. Has(<<x, y>>, A) <=> x.t \in A \/ y.t \in A BY <1>1 DEF Has
<1>4. NoneAfter(<<x, y>>, A, B) <=> ~(x.t \in A /\ y.t \in B) BY <1>1, <1>2 DEF NoneAfter
<1>5. Follows(<<x, y>>, A, B) <=> (x.t \in A => y.t \in B) /\ y.t \notin A
  BY <1>1, <1>2 DEF Follows
<1> QED BY <1>3, <1>4, <1>5

\* What holds of a word put after another, ...
LEMMA ConcatWord ==
    ASSUME NEW R, NEW s \in Seq(R), NEW u \in Seq(R), NEW A, NEW B
    PROVE  /\ Has(s \o u, A) <=> Has(s, A) \/ Has(u, A)
           /\ NoneAfter(s \o u, A, B) <=>
                 NoneAfter(s, A, B) /\ NoneAfter(u, A, B) /\ ~(Has(s, A) /\ Has(u, B))
           /\ Follows(s \o u, A, B) <=> (Follows(s, A, B) \/ Has(u, B)) /\ Follows(u, A, B)
<1> DEFINE w == s \o u
           l == Len(s)
<1>1. l \in Nat
      /\ (\A i \in DOMAIN s : i \in DOMAIN w /\ w[i] = s[i])
      /\ (\A i \in DOMAIN u : l + i \in DOMAIN w /\ w[l + i] = u[i])
      /\ (\A i \in DOMAIN w : (i \in DOMAIN s /\ w[i] = s[i])
                                \/ (i - l \in DOMAIN u /\ w[i] = u[i - l]))
      /\ (\A i \in DOMAIN s : i \in Nat /\ i <= l) /\ (\A i \in DOMAIN u : i \in Nat /\ i >= 1)
  BY ConcatParts
<1>2. \A i \in DOMAIN w : i \in Nat
  <2>1. w \in Seq(R) BY ConcatParts
  <2> HIDE DEF w
  <2> QED BY <2>1
<1> HIDE DEF w, l
<1>3. Has(w, A) <=> Has(s, A) \/ Has(u, A)
  <2>1. Has(w, A) => Has(s, A) \/ Has(u, A) BY <1>1 DEF Has
  <2>2. Has(s, A) => Has(w, A) BY <1>1 DEF Has
  <2>3. Has(u, A) => Has(w, A)
    <3> SUFFICES ASSUME NEW i \in DOMAIN u, u[i].t \in A PROVE Has(w, A) BY DEF Has
    <3>1. l + i \in DOMAIN w /\ w[l + i].t \in A BY <1>1
    <3> QED BY <3>1 DEF Has
  <2> QED BY <2>1, <2>2, <2>3
<1>4. NoneAfter(w, A, B) <=> NoneAfter(s, A, B) /\ NoneAfter(u, A, B) /\ ~(Has(s, A) /\ Has(u, B))
  <2>1. ASSUME NoneAfter(w, A, B) PROVE NoneAfter(s, A, B)
    BY <1>1, <2>1 DEF NoneAfter
  <2>2. ASSUME NoneAfter(w, A, B) PROVE NoneAfter(u, A, B)
    <3> SUFFICES ASSUME NEW i \in DOMAIN u, NEW j \in DOMAIN u, i < j, u[i].t \in A, u[j].t \in B
                 PROVE FALSE
      BY DEF NoneAfter
    <3>1. l + i \in DOMAIN w /\ l + j \in DOMAIN w /\ w[l + i].t \in A /\ w[l + j].t \in B BY <1>1
    <3>2. l + i < l + j BY <1>1
    <3> QED BY <3>1, <3>2, <2>2 DEF NoneAfter
  <2>3. ASSUME NoneAfter(w, A, B), Has(s, A), Has(u, B) PROVE FALSE
    <3>1. PICK i \in DOMAIN s : s[i].t \in A BY <2>3 DEF Has
    <3>2. PICK j \in DOMAIN u : u[j].t \in B BY <2>3 DEF Has
    <3>3. i < l + j BY <1>1
    <3>4. i \in DOMAIN w /\ l + j \in DOMAIN w /\ w[i].t \in A /\ w[l + j].t \in B
      BY <1>1, <3>1, <3>2
    <3> QED BY <3>3, <3>4, <2>3 DEF NoneAfter
  <2>4. ASSUME NoneAfter(s, A, B), NoneAfter(u, A, B), ~(Has(s, A) /\ Has(u, B))
        PROVE  NoneAfter(w, A, B)
    <3> SUFFICES ASSUME NEW i \in DOMAIN w, NEW j \in DOMAIN w, i < j, w[i].t \in A, w[j].t \in B
                 PROVE FALSE
      BY DEF NoneAfter
    <3>1. CASE i \in DOMAIN s /\ w[i] = s[i] /\ j \in DOMAIN s /\ w[j] = s[j]
      BY <3>1, <2>4 DEF NoneAfter
    <3>2. CASE i \in DOMAIN s /\ w[i] = s[i] /\ j - l \in DOMAIN u /\ w[j] = u[j - l]
      BY <3>2, <2>4 DEF Has
    <3>3. CASE i - l \in DOMAIN u /\ w[i] = u[i - l] /\ j \in DOMAIN s /\ w[j] = s[j]
      BY <3>3, <1>1, <1>2
    <3>4. CASE i - l \in DOMAIN u /\ w[i] = u[i - l] /\ j - l \in DOMAIN u /\ w[j] = u[j - l]
      <4>1. i - l < j - l BY <1>1, <1>2
      <4> QED BY <4>1, <3>4, <2>4 DEF NoneAfter
    <3> QED BY <3>1, <3>2, <3>3, <3>4, <1>1
  <2> QED BY <2>1, <2>2, <2>3, <2>4
<1>5. Follows(w, A, B) <=> (Follows(s, A, B) \/ Has(u, B)) /\ Follows(u, A, B)
  <2>1. ASSUME Follows(w, A, B), ~Has(u, B) PROVE Follows(s, A, B)
    <3> SUFFICES ASSUME NEW k \in DOMAIN s, s[k].t \in A
                 PROVE \E j \in DOMAIN s : k < j /\ s[j].t \in B
      BY DEF Follows
    <3>1. PICK j \in DOMAIN w : k < j /\ w[j].t \in B BY <1>1, <2>1 DEF Follows
    <3>2. j \in DOMAIN s /\ w[j] = s[j] BY <1>1, <2>1, <3>1 DEF Has
    <3> QED BY <3>1, <3>2
  <2>2. ASSUME Follows(w, A, B) PROVE Follows(u, A, B)
    <3> SUFFICES ASSUME NEW k \in DOMAIN u, u[k].t \in A
                 PROVE \E j \in DOMAIN u : k < j /\ u[j].t \in B
      BY DEF Follows
    <3>0. l + k \in DOMAIN w /\ w[l + k].t \in A BY <1>1
    <3>1. PICK j \in DOMAIN w : l + k < j /\ w[j].t \in B BY <3>0, <2>2 DEF Follows
    <3>2. j \notin DOMAIN s BY <1>1, <1>2, <3>1
    <3>3. j - l \in DOMAIN u /\ w[j] = u[j - l] BY <1>1, <3>2
    <3>4. k < j - l BY <1>1, <1>2, <3>1
    <3> QED BY <3>1, <3>3, <3>4
  <2>3. ASSUME Follows(s, A, B) \/ Has(u, B), Follows(u, A, B) PROVE Follows(w, A, B)
    <3> SUFFICES ASSUME NEW k \in DOMAIN w, w[k].t \in A
                 PROVE \E j \in DOMAIN w : k < j /\ w[j].t \in B
      BY DEF Follows
    <3>1. CASE k \in DOMAIN s /\ w[k] = s[k] /\ Has(u, B)
      <4>1. PICK j \in DOMAIN u : u[j].t \in B BY <3>1 DEF Has
      <4>2. l + j \in DOMAIN w /\ w[l + j] = u[j] BY <1>1
      <4>3. k < l + j BY <1>1, <3>1
      <4> QED BY <4>1, <4>2, <4>3
    <3>2. CASE k \in DOMAIN s /\ w[k] = s[k] /\ Follows(s, A, B)
      <4>1. PICK j \in DOMAIN s : k < j /\ s[j].t \in B BY <3>2 DEF Follows
      <4> QED BY <4>1, <1>1
    <3>3. CASE k - l \in DOMAIN u /\ w[k] = u[k - l]
      <4>1. PICK j \in DOMAIN u : k - l < j /\ u[j].t \in B BY <3>3, <2>3 DEF Follows
      <4>2. l + j \in DOMAIN w /\ w[l + j] = u[j] BY <1>1
      <4>3. k < l + j BY <1>1, <1>2, <4>1
      <4> QED BY <4>1, <4>2, <4>3
    <3> QED BY <3>1, <3>2, <3>3, <1>1, <2>3
  <2> QED BY <2>1, <2>2, <2>3
<1> QED BY <1>3, <1>4, <1>5 DEF w

\* ... and of a word whose first was read.
LEMMA TailWord ==
    ASSUME NEW R, NEW s \in Seq(R), s # <<>>, NEW A, NEW B
    PROVE  /\ Has(s, A) <=> Head(s).t \in A \/ Has(Tail(s), A)
           /\ NoneAfter(s, A, B) <=>
                 NoneAfter(Tail(s), A, B) /\ ~(Head(s).t \in A /\ Has(Tail(s), B))
           /\ Follows(s, A, B) <=>
                 Follows(Tail(s), A, B) /\ (Head(s).t \in A => Has(Tail(s), B))
<1> DEFINE h == <<Head(s)>>
<1>1. Head(s) \in R /\ Tail(s) \in Seq(R) /\ s = <<Head(s)>> \o Tail(s) OBVIOUS
<1>2. h \in Seq(R) /\ s = h \o Tail(s) BY <1>1
<1>3. \A C : Has(h, C) <=> Head(s).t \in C BY OneWord
<1>4. \A C, D : NoneAfter(h, C, D) /\ (Follows(h, C, D) <=> Head(s).t \notin C) BY OneWord
<1> HIDE DEF h
<1>5. /\ Has(h \o Tail(s), A) <=> Has(h, A) \/ Has(Tail(s), A)
      /\ NoneAfter(h \o Tail(s), A, B) <=>
            NoneAfter(h, A, B) /\ NoneAfter(Tail(s), A, B) /\ ~(Has(h, A) /\ Has(Tail(s), B))
      /\ Follows(h \o Tail(s), A, B) <=>
            (Follows(h, A, B) \/ Has(Tail(s), B)) /\ Follows(Tail(s), A, B)
  BY <1>1, <1>2, ConcatWord
<1> QED BY <1>2, <1>3, <1>4, <1>5

-----------------------------------------------------------------------------
\* --- the operations on the queues of messages ---

\* Queues.

LEMMA OnceParts ==
    ASSUME NEW S, NEW p \in Seq(S), NEW q \in Seq(S), Once(p \o q)
    PROVE  Once(p) /\ Once(q) /\ In(p) \cap In(q) = {}
<1> DEFINE w == p \o q
           l == Len(p)
<1>1. l \in Nat /\ 1..Len(p) = DOMAIN p /\ 1..Len(q) = DOMAIN q
      /\ (\A i \in DOMAIN p : i \in DOMAIN w /\ w[i] = p[i])
      /\ (\A i \in DOMAIN q : l + i \in DOMAIN w /\ w[l + i] = q[i])
      /\ (\A i \in DOMAIN p : i \in Nat /\ i <= l) /\ (\A i \in DOMAIN q : i \in Nat /\ i >= 1)
  BY ConcatParts
<1>2. \A i, j \in DOMAIN w : w[i] = w[j] => i = j
  <2>1. w \in Seq(S) BY ConcatParts
  <2>2. DOMAIN w = 1..Len(w) BY <2>1
  <2> QED BY <2>2 DEF Once
<1> HIDE DEF w, l
<1>3. Once(p) BY <1>1, <1>2 DEF Once
<1>4. Once(q)
  <2> SUFFICES ASSUME NEW i \in DOMAIN q, NEW j \in DOMAIN q, q[i] = q[j] PROVE i = j
    BY <1>1 DEF Once
  <2>1. l + i = l + j BY <1>1, <1>2
  <2> QED BY <2>1, <1>1
<1>5. In(p) \cap In(q) = {}
  <2> SUFFICES ASSUME NEW i \in DOMAIN p, NEW j \in DOMAIN q, p[i] = q[j] PROVE FALSE
    BY <1>1 DEF In
  <2>1. i = l + j BY <1>1, <1>2
  <2> QED BY <2>1, <1>1
<1> QED BY <1>3, <1>4, <1>5

LEMMA EmptyOnce ==
    ASSUME NEW S
    PROVE  <<>> \in Seq(S) /\ In(<<>>) = {} /\ Once(<<>>) /\ ToSet(<<>>) = {}
<1>1. Len(<<>>) = 0 /\ 1..0 = {} /\ DOMAIN <<>> = {} OBVIOUS
<1> QED BY <1>1 DEF In, Once, ToSet

LEMMA ToSetIn ==
    ASSUME NEW S, NEW q \in Seq(S)
    PROVE  ToSet(q) = In(q) /\ In(q) \subseteq S /\ (In(q) = {} => q = <<>>)
<1>1. DOMAIN q = 1..Len(q) OBVIOUS
<1>2. In(q) \subseteq S BY DEF In
<1>3. ASSUME q # <<>> PROVE In(q) # {}
  <2>1. 1 \in 1..Len(q) BY <1>3
  <2> QED BY <2>1 DEF In
<1> QED BY <1>1, <1>2, <1>3 DEF ToSet, In

\* Moved to the front, or anywhere else, a message stays the only one.
LEMMA FrontOnce ==
    ASSUME NEW S, NEW q \in Seq(S), NEW i \in 1..Len(q)
    PROVE  LET r == <<q[i]>> \o RemoveAt(q, i)
           IN  r \in Seq(S) /\ In(r) = In(q) /\ (Once(q) => Once(r))
<1> DEFINE p == <<q[i]>>
           t == RemoveAt(q, i)
<1>1. t \in Seq(S) /\ q[i] \in S /\ In(q) = In(t) \cup {q[i]}
      /\ (Once(q) => Once(t) /\ q[i] \notin In(t))
  BY RemoveOnce
<1>2. p \in Seq(S) /\ In(p) = {q[i]} /\ Once(p) BY <1>1, OneOnce
<1> HIDE DEF p, t
<1>3. p \o t \in Seq(S) /\ In(p \o t) = In(p) \cup In(t)
      /\ (Once(p) /\ Once(t) /\ In(p) \cap In(t) = {} => Once(p \o t))
  BY <1>1, <1>2, ConcatOnce
<1> QED BY <1>1, <1>2, <1>3 DEF p, t

LEMMA MoveOnce ==
    ASSUME NEW S, NEW q \in Seq(S), NEW i \in 1..Len(q), NEW j \in 1..Len(q)
    PROVE  LET r == InsertAt(RemoveAt(q, i), j, q[i])
           IN  r \in Seq(S) /\ In(r) = In(q) /\ (Once(q) => Once(r))
<1> DEFINE t == RemoveAt(q, i)
<1>1. t \in Seq(S) /\ q[i] \in S /\ In(q) = In(t) \cup {q[i]} /\ Len(t) = Len(q) - 1
      /\ (Once(q) => Once(t) /\ q[i] \notin In(t))
  BY RemoveOnce
<1> HIDE DEF t
<1>2. j \in 1..(Len(t) + 1) BY <1>1
<1>3. InsertAt(t, j, q[i]) \in Seq(S) /\ In(InsertAt(t, j, q[i])) = In(t) \cup {q[i]}
      /\ (Once(t) /\ q[i] \notin In(t) => Once(InsertAt(t, j, q[i])))
  BY <1>1, <1>2, InsertOnce
<1> QED BY <1>1, <1>3 DEF t

\* What the operators of EngineQueue do, in each of the three adapters.
PickedOut(s, index, is) ==
    IF index = <<>> THEN [out |-> s, left |-> <<>>]
    ELSE IF is = {} THEN [out |-> <<>>, left |-> s]
    ELSE LET i == CHOOSE i \in is : TRUE
         IN  [out |-> <<s[i]>>, left |-> RemoveAt(s, i)]

\* A steer takes some of the messages and leaves the others.
LEMMA PickedOnce ==
    ASSUME NEW S, NEW q \in Seq(S), NEW index, NEW is \in SUBSET (1..Len(q))
    PROVE  LET p == PickedOut(q, index, is)
           IN  /\ p.out \in Seq(S) /\ p.left \in Seq(S)
               /\ In(q) = In(p.out) \cup In(p.left)
               /\ Once(q) => Once(p.out) /\ Once(p.left) /\ In(p.out) \cap In(p.left) = {}
<1>0. <<>> \in Seq(S) /\ In(<<>>) = {} /\ Once(<<>>) BY EmptyOnce
<1>1. CASE index = <<>> BY <1>0, <1>1 DEF PickedOut
<1>2. CASE index # <<>> /\ is = {} BY <1>0, <1>2 DEF PickedOut
<1>3. CASE index # <<>> /\ is # {}
  <2> DEFINE i == CHOOSE i \in is : TRUE
  <2>1. i \in 1..Len(q) BY <1>3
  <2>2. PickedOut(q, index, is) = [out |-> <<q[i]>>, left |-> RemoveAt(q, i)]
    BY <1>3 DEF PickedOut
  <2> HIDE DEF i
  <2>3. RemoveAt(q, i) \in Seq(S) /\ q[i] \in S /\ In(q) = In(RemoveAt(q, i)) \cup {q[i]}
        /\ (Once(q) => Once(RemoveAt(q, i)) /\ q[i] \notin In(RemoveAt(q, i)))
    BY <2>1, RemoveOnce
  <2>4. <<q[i]>> \in Seq(S) /\ In(<<q[i]>>) = {q[i]} /\ Once(<<q[i]>>) BY <2>3, OneOnce
  <2> HIDE DEF In, Once
  <2> QED BY <2>2, <2>3, <2>4
<1> QED BY <1>1, <1>2, <1>3

-----------------------------------------------------------------------------
\* --- frames, lines and events, and the messages they carry ---

\* What frames, lines and events carry.
Carried(T) == [t : T, ms : Seq(Msg), n : 0..MaxAsks]

EachOf(t, ms) == [i \in 1..Len(ms) |-> [t |-> t, ms |-> <<ms[i]>>, n |-> 0]]

AnswersOf(calls) ==
    LET s == SetToSeq(calls) IN [i \in 1..Len(s) |-> [t |-> "answer", ms |-> <<>>, n |-> s[i]]]

\* The messages in a word are those of its items of these types: of none, one,
\* two, of words put together, and of what is left of one.
LEMMA MsgsIn ==
    ASSUME NEW s, NEW T, NEW m
    PROVE  m \in MsgsOf(s, T) <=> \E i \in DOMAIN s : s[i].t \in T /\ m \in ToSet(s[i].ms)
BY DEF MsgsOf

LEMMA MsgsConcat ==
    ASSUME NEW R, NEW s \in Seq(R), NEW u \in Seq(R), NEW T
    PROVE  MsgsOf(s \o u, T) = MsgsOf(s, T) \cup MsgsOf(u, T)
<1> DEFINE w == s \o u
           l == Len(s)
<1>1. /\ \A i \in DOMAIN s : i \in DOMAIN w /\ w[i] = s[i]
      /\ \A i \in DOMAIN u : l + i \in DOMAIN w /\ w[l + i] = u[i]
      /\ \A i \in DOMAIN w : (i \in DOMAIN s /\ w[i] = s[i])
                             \/ (i - l \in DOMAIN u /\ w[i] = u[i - l])
  BY ConcatParts
<1> HIDE DEF w, l
<1>2. \A m : m \in MsgsOf(w, T) => m \in MsgsOf(s, T) \/ m \in MsgsOf(u, T)
  <2> SUFFICES ASSUME NEW m, m \in MsgsOf(w, T) PROVE m \in MsgsOf(s, T) \/ m \in MsgsOf(u, T)
    OBVIOUS
  <2>1. PICK i \in DOMAIN w : w[i].t \in T /\ m \in ToSet(w[i].ms) BY MsgsIn
  <2>2. CASE i \in DOMAIN s /\ w[i] = s[i] BY <2>1, <2>2, MsgsIn
  <2>3. CASE i - l \in DOMAIN u /\ w[i] = u[i - l]
    <3>1. u[i - l].t \in T /\ m \in ToSet(u[i - l].ms) BY <2>1, <2>3
    <3> QED BY <3>1, <2>3, MsgsIn
  <2> QED BY <2>2, <2>3, <1>1
<1>3. \A m : m \in MsgsOf(s, T) => m \in MsgsOf(w, T)
  <2> SUFFICES ASSUME NEW m, m \in MsgsOf(s, T) PROVE m \in MsgsOf(w, T) OBVIOUS
  <2>1. PICK i \in DOMAIN s : s[i].t \in T /\ m \in ToSet(s[i].ms) BY MsgsIn
  <2>2. i \in DOMAIN w /\ w[i] = s[i] BY <1>1
  <2>3. w[i].t \in T /\ m \in ToSet(w[i].ms) BY <2>1, <2>2
  <2> QED BY <2>2, <2>3, MsgsIn
<1>4. \A m : m \in MsgsOf(u, T) => m \in MsgsOf(w, T)
  <2> SUFFICES ASSUME NEW m, m \in MsgsOf(u, T) PROVE m \in MsgsOf(w, T) OBVIOUS
  <2>1. PICK i \in DOMAIN u : u[i].t \in T /\ m \in ToSet(u[i].ms) BY MsgsIn
  <2>2. l + i \in DOMAIN w /\ w[l + i] = u[i] BY <1>1
  <2>3. w[l + i].t \in T /\ m \in ToSet(w[l + i].ms) BY <2>1, <2>2
  <2> QED BY <2>2, <2>3, MsgsIn
<1> QED BY <1>2, <1>3, <1>4 DEF w

LEMMA MsgsEmpty ==
    ASSUME NEW T
    PROVE  MsgsOf(<<>>, T) = {}
<1>1. DOMAIN <<>> = {} OBVIOUS
<1> QED BY <1>1 DEF MsgsOf

LEMMA MsgsOne ==
    ASSUME NEW x, NEW T
    PROVE  MsgsOf(<<x>>, T) = IF x.t \in T THEN ToSet(x.ms) ELSE {}
<1>1. DOMAIN <<x>> = {1} /\ <<x>>[1] = x OBVIOUS
<1>2. \A m : m \in MsgsOf(<<x>>, T) <=> x.t \in T /\ m \in ToSet(x.ms) BY <1>1, MsgsIn
<1> QED BY <1>2

LEMMA MsgsTwo ==
    ASSUME NEW x, NEW y, NEW T
    PROVE  MsgsOf(<<x, y>>, T) = (IF x.t \in T THEN ToSet(x.ms) ELSE {})
                                   \cup (IF y.t \in T THEN ToSet(y.ms) ELSE {})
<1>1. DOMAIN <<x, y>> = {1, 2} /\ <<x, y>>[1] = x /\ <<x, y>>[2] = y OBVIOUS
<1>2. \A m : m \in MsgsOf(<<x, y>>, T) <=> \/ x.t \in T /\ m \in ToSet(x.ms)
                                           \/ y.t \in T /\ m \in ToSet(y.ms)
  BY <1>1, MsgsIn
<1> QED BY <1>2

LEMMA MsgsTail ==
    ASSUME NEW R, NEW s \in Seq(R), s # <<>>, NEW T
    PROVE  MsgsOf(s, T) = MsgsOf(Tail(s), T)
                            \cup (IF Head(s).t \in T THEN ToSet(Head(s).ms) ELSE {})
<1> DEFINE h == <<Head(s)>>
           r == Tail(s)
<1>1. Head(s) \in R /\ r \in Seq(R) /\ s = <<Head(s)>> \o r OBVIOUS
<1>2. h \in Seq(R) /\ s = h \o r BY <1>1
<1>3. MsgsOf(h, T) = IF Head(s).t \in T THEN ToSet(Head(s).ms) ELSE {} BY MsgsOne
<1> HIDE DEF h, r
<1>4. MsgsOf(h \o r, T) = MsgsOf(h, T) \cup MsgsOf(r, T) BY <1>1, <1>2, MsgsConcat
<1> QED BY <1>2, <1>3, <1>4 DEF r

\* The frames of some messages carry these, ...
LEMMA EachFrames ==
    ASSUME NEW t, NEW q \in Seq(Msg), NEW T, t \in T
    PROVE  /\ EachOf(t, q) \in Seq(Carried(T))
           /\ \A A : MsgsOf(EachOf(t, q), A) = IF t \in A THEN ToSet(q) ELSE {}
           /\ \A A : Has(EachOf(t, q), A) <=> t \in A /\ q # <<>>
           /\ \A i \in DOMAIN EachOf(t, q) : EachOf(t, q)[i].t = t /\ EachOf(t, q)[i].n = 0
<1> DEFINE e == EachOf(t, q)
<1>0. Len(q) \in Nat /\ DOMAIN q = 1..Len(q) OBVIOUS
<1>1. DOMAIN e = 1..Len(q) /\ \A i \in 1..Len(q) : e[i] = [t |-> t, ms |-> <<q[i]>>, n |-> 0]
  BY DEF EachOf
<1>a. MaxAsks \in Nat BY EngineAssumption
<1>2. \A i \in 1..Len(q) : e[i] \in Carried(T)
  <2> SUFFICES ASSUME NEW i \in 1..Len(q) PROVE e[i] \in Carried(T) OBVIOUS
  <2>1. q[i] \in Msg OBVIOUS
  <2>2. <<q[i]>> \in Seq(Msg) BY <2>1
  <2>3. 0 \in 0..MaxAsks BY <1>a
  <2>4. e[i] = [t |-> t, ms |-> <<q[i]>>, n |-> 0] BY <1>1
  <2> HIDE DEF e
  <2> QED BY <2>2, <2>3, <2>4 DEF Carried
<1>3. e \in Seq(Carried(T))
  <2>1. e = [i \in 1..Len(q) |-> e[i]] BY DEF EachOf
  <2> HIDE DEF e
  <2>2. \A n \in Nat : \A f : (\A i \in 1..n : f[i] \in Carried(T)) => [i \in 1..n |-> f[i]] \in Seq(Carried(T))
    OBVIOUS
  <2> QED BY <2>1, <2>2, <1>2, <1>0
<1> HIDE DEF e
<1>4. ASSUME NEW A PROVE MsgsOf(e, A) = IF t \in A THEN ToSet(q) ELSE {}
  <2>1. \A x : ToSet(<<x>>) = {x}
    <3> SUFFICES ASSUME NEW x PROVE ToSet(<<x>>) = {x} OBVIOUS
    <3>1. DOMAIN <<x>> = {1} /\ <<x>>[1] = x OBVIOUS
    <3> QED BY <3>1 DEF ToSet
  <2>2. \A i \in 1..Len(q) : e[i].t = t /\ ToSet(e[i].ms) = {q[i]} BY <1>1, <2>1
  <2>3. \A m : m \in MsgsOf(e, A) <=> t \in A /\ \E i \in 1..Len(q) : m = q[i]
    <3> SUFFICES ASSUME NEW m
                 PROVE  m \in MsgsOf(e, A) <=> t \in A /\ \E i \in 1..Len(q) : m = q[i]
      OBVIOUS
    <3>1. m \in MsgsOf(e, A) <=> \E i \in 1..Len(q) : e[i].t \in A /\ m \in ToSet(e[i].ms)
      BY <1>1, MsgsIn
    <3> QED BY <3>1, <2>2
  <2>4. \A m : m \in ToSet(q) <=> \E i \in 1..Len(q) : m = q[i] BY <1>0 DEF ToSet
  <2> QED BY <2>3, <2>4
<1>5. ASSUME NEW A PROVE Has(e, A) <=> t \in A /\ q # <<>>
  <2>1. \A i \in 1..Len(q) : e[i].t = t BY <1>1
  <2>2. q # <<>> <=> 1 \in 1..Len(q) OBVIOUS
  <2>3. q = <<>> => 1..Len(q) = {} OBVIOUS
  <2> QED BY <1>1, <2>1, <2>2, <2>3 DEF Has
<1>6. \A i \in DOMAIN e : e[i].t = t /\ e[i].n = 0 BY <1>1
<1> QED BY <1>3, <1>4, <1>5, <1>6 DEF e

\* Each of a finite set of calls is answered once, and nothing else.
\* ... and answers carry none.
LEMMA AnswerFrames ==
    ASSUME NEW calls \in SUBSET (1..MaxAsks), NEW T, "answer" \in T
    PROVE  /\ AnswersOf(calls) \in Seq(Carried(T))
           /\ \A A : MsgsOf(AnswersOf(calls), A) = {}
           /\ \A A : Has(AnswersOf(calls), A) => "answer" \in A
           /\ \A i \in DOMAIN AnswersOf(calls) :
                 AnswersOf(calls)[i].t = "answer" /\ AnswersOf(calls)[i].n \in calls
           /\ \A n \in calls : \E i \in DOMAIN AnswersOf(calls) : AnswersOf(calls)[i].n = n
<1> DEFINE N == Cardinality(calls)
           s == SetToSeq(calls)
           e == AnswersOf(calls)
<1>a. MaxAsks \in Nat BY EngineAssumption
<1>1. IsFiniteSet(calls)
  <2>1. IsFiniteSet(1..MaxAsks) BY <1>a, FS_Interval
  <2> QED BY <2>1, FS_Subset
<1>2. N \in Nat /\ ExistsBijection(1..N, calls) BY <1>1, FS_CardinalityType
<1>3. \E f \in [1..N -> calls] : IsInjective(f)
  <2>1. PICK f \in Bijection(1..N, calls) : TRUE BY <1>2 DEF ExistsBijection
  <2> QED BY <2>1 DEF Bijection, Injection, IsInjective
<1>4. s \in [1..N -> calls] /\ IsInjective(s) BY <1>3 DEF SetToSeq
<1> HIDE DEF s
<1>5. IsFiniteSet(1..N) /\ Cardinality(1..N) = N BY <1>2, FS_Interval
<1>6. \A n \in calls : \E i \in 1..N : s[i] = n
  <2>1. s \in Injection(1..N, calls) BY <1>4 DEF Injection, IsInjective
  <2>2. Cardinality(1..N) = Cardinality(calls) => s \in Surjection(1..N, calls)
    BY <2>1, <1>1, <1>5, FS_Injection
  <2> QED BY <2>2, <1>5 DEF Surjection
<1>7. s \in Seq(calls) /\ Len(s) = N
  <2>1. s \in Seq(calls) BY <1>2, <1>4
  <2>2. DOMAIN s = 1..N BY <1>4
  <2>3. DOMAIN s = 1..Len(s) /\ Len(s) \in Nat BY <2>1
  <2>4. \A j, k \in Nat : 1..j = 1..k => j = k
    <3> SUFFICES ASSUME NEW j \in Nat, NEW k \in Nat, 1..j = 1..k, j # k PROVE FALSE OBVIOUS
    <3>1. CASE j < k
      <4>1. k \in 1..k /\ k \notin 1..j BY <3>1
      <4> QED BY <4>1
    <3>2. CASE k < j
      <4>1. j \in 1..j /\ j \notin 1..k BY <3>2
      <4> QED BY <4>1
    <3> QED BY <3>1, <3>2
  <2> QED BY <2>1, <2>2, <2>3, <2>4, <1>2
<1>8. DOMAIN e = 1..N /\ \A i \in 1..N : e[i] = [t |-> "answer", ms |-> <<>>, n |-> s[i]]
  BY <1>7 DEF AnswersOf, s
<1>9. e = [i \in 1..N |-> e[i]] BY <1>7 DEF AnswersOf, s
<1> HIDE DEF e, N
<1>10. \A i \in 1..N : e[i] \in Carried(T)
  <2> SUFFICES ASSUME NEW i \in 1..N PROVE e[i] \in Carried(T) OBVIOUS
  <2>a. s[i] \in calls BY <1>4
  <2>b. \A k \in 1..MaxAsks : k \in 0..MaxAsks BY <1>a
  <2>1. s[i] \in 0..MaxAsks BY <2>a, <2>b
  <2>2. <<>> \in Seq(Msg) OBVIOUS
  <2>3. e[i] = [t |-> "answer", ms |-> <<>>, n |-> s[i]] BY <1>8
  <2> QED BY <2>1, <2>2, <2>3 DEF Carried
<1>11. e \in Seq(Carried(T))
  <2>1. \A n \in Nat : \A f : (\A i \in 1..n : f[i] \in Carried(T)) => [i \in 1..n |-> f[i]] \in Seq(Carried(T))
    OBVIOUS
  <2> QED BY <2>1, <1>2, <1>9, <1>10
<1>12. \A i \in DOMAIN e : e[i].t = "answer" /\ e[i].n \in calls /\ e[i].ms = <<>> BY <1>4, <1>8
<1>13. \A A : MsgsOf(e, A) = {}
  <2> SUFFICES ASSUME NEW A, NEW m, m \in MsgsOf(e, A) PROVE FALSE OBVIOUS
  <2>1. PICK i \in DOMAIN e : m \in ToSet(e[i].ms) BY MsgsIn
  <2>2. ToSet(<<>>) = {} BY EmptyOnce
  <2> QED BY <2>1, <2>2, <1>12
<1>14. \A A : Has(e, A) => "answer" \in A BY <1>12 DEF Has
<1>15. \A n \in calls : \E i \in DOMAIN e : e[i].n = n
  <2> SUFFICES ASSUME NEW n \in calls PROVE \E i \in DOMAIN e : e[i].n = n OBVIOUS
  <2>1. PICK i \in 1..N : s[i] = n BY <1>6
  <2>2. e[i].n = n /\ i \in DOMAIN e BY <1>8, <2>1
  <2> QED BY <2>2
<1> QED BY <1>11, <1>12, <1>13, <1>14, <1>15 DEF e

-----------------------------------------------------------------------------
\* --- Claude Code: where the messages of an op or a line go ---

EventName == {"unqueued", "ready", "approval_request", "refused", "dropped", "steered"}

Index == {<<>>, <<-1>>}

AnyOp ==
         [op : {"user_message"}, m : Msg]
    \cup [op : {"steer", "interrupt", "unqueue"}, index : Index]
    \cup [op : {"queue_move"}, index : Index, to : Index]
    \cup [op : {"approve"}, calls : SUBSET (1..MaxAsks)]
    \cup [op : {"set_approval_mode"}, mode : Mode]
    \cup [op : {"tui"}, force : BOOLEAN]
    \cup [op : {"set_gateway", "rewind", "shutdown", "tui_exit"}]

\* The messages an output settles.
Settling == Handed \cup {"unqueued", "refused", "dropped"}
Gone(r) == MsgsOf(r.frames, Settling) \cup MsgsOf(r.events, Settling)

\* From the queue `w0` and the messages `new`, some wait in `w1`; the others are gone.
FiledBy(w0, w1, gone, new) ==
    Once(w0) /\ In(w0) \cap new = {} =>
        Once(w1) /\ In(w1) \cap gone = {} /\ In(w0) \cup new = In(w1) \cup gone

\* What is new with an op.
NewIn(op) == IF op.op = "user_message" THEN {op.m} ELSE {}

Nameless(x) == [t |-> x, ms |-> <<>>, n |-> 0]
About(x, m) == [t |-> x, ms |-> <<m>>, n |-> 0]
NumberedAs(x, n) == [t |-> x, ms |-> <<>>, n |-> n]

\* A word of one item, and what it settles.
LEMMA CarriedOne ==
    ASSUME NEW T, NEW x \in T, NEW m \in Msg, NEW n \in 0..MaxAsks, NEW q \in Seq(Msg)
    PROVE  /\ Nameless(x) \in Carried(T) /\ About(x, m) \in Carried(T) /\ NumberedAs(x, n) \in Carried(T)
           /\ [t |-> x, ms |-> q, n |-> 0] \in Carried(T)
           /\ <<Nameless(x)>> \in Seq(Carried(T)) /\ <<About(x, m)>> \in Seq(Carried(T))
           /\ <<NumberedAs(x, n)>> \in Seq(Carried(T))
           /\ <<[t |-> x, ms |-> q, n |-> 0]>> \in Seq(Carried(T))
<1>1. 0 \in 0..MaxAsks BY EngineAssumption
<1>2. <<>> \in Seq(Msg) /\ <<m>> \in Seq(Msg) OBVIOUS
<1>3. Nameless(x) \in Carried(T) BY <1>1, <1>2 DEF Nameless, Carried
<1>4. About(x, m) \in Carried(T) BY <1>1, <1>2 DEF About, Carried
<1>5. NumberedAs(x, n) \in Carried(T) BY <1>1, <1>2 DEF NumberedAs, Carried
<1>6. [t |-> x, ms |-> q, n |-> 0] \in Carried(T) BY <1>1 DEF Carried
<1>7. \A y \in Carried(T) : <<y>> \in Seq(Carried(T)) OBVIOUS
<1> QED BY <1>3, <1>4, <1>5, <1>6, <1>7

LEMMA SettledOne ==
    ASSUME NEW x, NEW m \in Msg, NEW n, NEW q \in Seq(Msg), NEW T
    PROVE  /\ MsgsOf(<<>>, T) = {}
           /\ MsgsOf(<<Nameless(x)>>, T) = {} /\ MsgsOf(<<NumberedAs(x, n)>>, T) = {}
           /\ MsgsOf(<<About(x, m)>>, T) = IF x \in T THEN {m} ELSE {}
           /\ MsgsOf(<<[t |-> x, ms |-> q, n |-> 0]>>, T) = IF x \in T THEN In(q) ELSE {}
<1>1. ToSet(<<>>) = {} BY EmptyOnce
<1>2. ToSet(<<m>>) = {m}
  <2>1. <<m>> \in Seq(Msg) /\ In(<<m>>) = {m} BY OneOnce
  <2> QED BY <2>1, ToSetIn
<1>3. ToSet(q) = In(q) BY ToSetIn
<1>4. MsgsOf(<<>>, T) = {} BY MsgsEmpty
<1>5. MsgsOf(<<Nameless(x)>>, T) = {} BY <1>1, MsgsOne DEF Nameless
<1>6. MsgsOf(<<NumberedAs(x, n)>>, T) = {} BY <1>1, MsgsOne DEF NumberedAs
<1>7. MsgsOf(<<About(x, m)>>, T) = IF x \in T THEN {m} ELSE {} BY <1>2, MsgsOne DEF About
<1>8. MsgsOf(<<[t |-> x, ms |-> q, n |-> 0]>>, T) = IF x \in T THEN In(q) ELSE {}
  BY <1>3, MsgsOne
<1> QED BY <1>4, <1>5, <1>6, <1>7, <1>8

-----------------------------------------------------------------------------
\* The Claude Code adapter.

ClaudeFrame == {"user", "now", "answer", "interrupt", "background_tasks"}

ClaudeState ==
    [mode : Mode, active : BOOLEAN, queued : SUBSET Msg, held : Seq(Msg),
     steering : [frames : Seq(Msg), waiting : Nat, late : BOOLEAN], subagent : BOOLEAN,
     approvals : SUBSET (1..MaxAsks)]

ClaudeOutput == [a : ClaudeState, frames : Seq(Carried(ClaudeFrame)), events : Seq(Carried(EventName))]

ClaudeQueue(b) == b.steering.frames \o b.held

\* From adapter `b`, with the messages `new`, output r: nothing is lost or doubled.
ClaudeGives(b, r, new) ==
    r \in ClaudeOutput /\ FiledBy(ClaudeQueue(b), ClaudeQueue(r.a), Gone(r), new)

\* The types of its frames, lines and events.
LEMMA ClaudeNames ==
    /\ \A t, q : Claude!Each(t, q) = EachOf(t, q)
    /\ \A c : Claude!Answers(c) = AnswersOf(c)
    /\ \A q, index, is : Claude!Picked(q, index, is) = PickedOut(q, index, is)
    /\ \A q, i : Claude!ToFront(q, i) = <<q[i]>> \o RemoveAt(q, i)
    /\ \A q, i, j : Claude!Moved(q, i, j) = InsertAt(RemoveAt(q, i), j, q[i])
    /\ \A q, i : Claude!RemoveAt(q, i) = RemoveAt(q, i)
    /\ \A q : Claude!ToSet(q) = ToSet(q)
    /\ \A t, ms : Claude!Frame(t, ms) = [t |-> t, ms |-> ms, n |-> 0]
    /\ \A t, n : Claude!Numbered(t, n) = NumberedAs(t, n)
    /\ \A b, f, e : Claude!Output(b, f, e) = [a |-> b, frames |-> f, events |-> e]
    /\ \A b : Claude!Quiet(b) = [a |-> b, frames |-> <<>>, events |-> <<>>]
<1>1. \A t, q : Claude!Each(t, q) = EachOf(t, q) BY DEF Claude!Each, Claude!Frame, EachOf
<1>2. \A c : Claude!Answers(c) = AnswersOf(c)
  BY DEF Claude!Answers, Claude!SetToSeq, Claude!IsInjective, Claude!Numbered, Claude!Cardinality,
         AnswersOf, SetToSeq, IsInjective, Cardinality
<1>3. \A q, i : Claude!RemoveAt(q, i) = RemoveAt(q, i) BY DEF Claude!RemoveAt, RemoveAt
<1>4. \A q, i, x : Claude!InsertAt(q, i, x) = InsertAt(q, i, x) BY DEF Claude!InsertAt, InsertAt
<1>5. \A q, index, is : Claude!Picked(q, index, is) = PickedOut(q, index, is)
  BY <1>3 DEF Claude!Picked, PickedOut
<1>6. \A q, i : Claude!ToFront(q, i) = <<q[i]>> \o RemoveAt(q, i) BY <1>3 DEF Claude!ToFront
<1>7. \A q, i, j : Claude!Moved(q, i, j) = InsertAt(RemoveAt(q, i), j, q[i])
  BY <1>3, <1>4 DEF Claude!Moved
<1>8. \A q : Claude!ToSet(q) = ToSet(q) BY DEF Claude!ToSet, ToSet
<1>9. \A t, ms : Claude!Frame(t, ms) = [t |-> t, ms |-> ms, n |-> 0] BY DEF Claude!Frame
<1>10. \A t, n : Claude!Numbered(t, n) = NumberedAs(t, n) BY DEF Claude!Numbered, NumberedAs
<1>11. \A b, f, e : Claude!Output(b, f, e) = [a |-> b, frames |-> f, events |-> e]
  BY DEF Claude!Output
<1>12. \A b : Claude!Quiet(b) = [a |-> b, frames |-> <<>>, events |-> <<>>]
  BY DEF Claude!Quiet, Claude!Output
<1> QED BY <1>1, <1>2, <1>3, <1>5, <1>6, <1>7, <1>8, <1>9, <1>10, <1>11, <1>12

\* What waits is what is held, and what a steer under way holds.
LEMMA ClaudeQueueParts ==
    ASSUME NEW b \in ClaudeState
    PROVE  /\ b.held \in Seq(Msg) /\ b.steering.frames \in Seq(Msg)
           /\ ClaudeQueue(b) \in Seq(Msg)
           /\ In(ClaudeQueue(b)) = In(b.steering.frames) \cup In(b.held)
           /\ Once(ClaudeQueue(b)) <=> /\ Once(b.steering.frames) /\ Once(b.held)
                                       /\ In(b.steering.frames) \cap In(b.held) = {}
<1> DEFINE p == b.steering.frames
           q == b.held
<1>1. p \in Seq(Msg) /\ q \in Seq(Msg) BY DEF ClaudeState
<1>2. ClaudeQueue(b) = p \o q BY DEF ClaudeQueue
<1> HIDE DEF p, q
<1>3. /\ p \o q \in Seq(Msg) /\ In(p \o q) = In(p) \cup In(q)
      /\ Once(p) /\ Once(q) /\ In(p) \cap In(q) = {} => Once(p \o q)
  BY <1>1, ConcatOnce
<1>4. Once(p \o q) => Once(p) /\ Once(q) /\ In(p) \cap In(q) = {} BY <1>1, OnceParts
<1> QED BY <1>1, <1>2, <1>3, <1>4 DEF p, q

\* A steer that goes out hands its messages over.
LEMMA ClaudeReady ==
    ASSUME NEW b, NEW r, NEW new, ClaudeGives(b, r, new)
    PROVE  ClaudeGives(b, Claude!SteerReady(r), new)
<1> DEFINE s == Claude!SteerReady(r)
           st == r.a.steering.frames
           wrote == EachOf("now", st)
<1>1. r \in ClaudeOutput /\ FiledBy(ClaudeQueue(b), ClaudeQueue(r.a), Gone(r), new)
  BY DEF ClaudeGives
<1>2. r.a \in ClaudeState /\ r.frames \in Seq(Carried(ClaudeFrame)) /\ r.events \in Seq(Carried(EventName))
  BY <1>1 DEF ClaudeOutput
<1>3. CASE s = r BY <1>1, <1>3 DEF ClaudeGives
<1>4. CASE s # r
  <2> DEFINE c == [r.a EXCEPT !.steering = [frames |-> <<>>, waiting |-> 0, late |-> FALSE]]
  <2>1. s = [a |-> c, frames |-> r.frames \o wrote, events |-> r.events]
    BY <1>4, ClaudeNames DEF Claude!SteerReady, Claude!NoSteering
  <2>2. c \in ClaudeState /\ c.held = r.a.held /\ c.steering.frames = <<>>
    <3>1. <<>> \in Seq(Msg) OBVIOUS
    <3>2. [frames |-> <<>>, waiting |-> 0, late |-> FALSE]
            \in [frames : Seq(Msg), waiting : Nat, late : BOOLEAN]
      BY <3>1
    <3> QED BY <1>2, <3>2 DEF ClaudeState
  <2>3. st \in Seq(Msg) BY <1>2, ClaudeQueueParts
  <2> HIDE DEF s, c, st
  <2>4. wrote \in Seq(Carried(ClaudeFrame)) /\ MsgsOf(wrote, Settling) = In(st)
    <3>1. "now" \in ClaudeFrame /\ "now" \in Settling BY DEF ClaudeFrame, Settling, Handed
    <3>2. ToSet(st) = In(st) BY <2>3, ToSetIn
    <3> QED BY <3>1, <3>2, <2>3, EachFrames
  <2> HIDE DEF wrote
  <2>5. r.frames \o wrote \in Seq(Carried(ClaudeFrame))
        /\ MsgsOf(r.frames \o wrote, Settling) = MsgsOf(r.frames, Settling) \cup In(st)
    BY <1>2, <2>4, MsgsConcat
  <2>6. s \in ClaudeOutput BY <1>2, <2>1, <2>2, <2>5 DEF ClaudeOutput
  <2>7. Gone(s) = Gone(r) \cup In(st) BY <2>1, <2>5 DEF Gone
  <2>8. /\ In(ClaudeQueue(c)) = In(r.a.held) /\ (Once(r.a.held) => Once(ClaudeQueue(c)))
        /\ In(ClaudeQueue(r.a)) = In(st) \cup In(r.a.held)
        /\ (Once(ClaudeQueue(r.a)) => Once(r.a.held) /\ In(st) \cap In(r.a.held) = {})
    <3>1. In(<<>>) = {} /\ Once(<<>>) BY EmptyOnce
    <3> QED BY <3>1, <1>2, <2>2, ClaudeQueueParts DEF st
  <2>9. FiledBy(ClaudeQueue(b), ClaudeQueue(c), Gone(s), new)
    BY <1>1, <2>7, <2>8 DEF FiledBy
  <2> QED BY <2>1, <2>6, <2>9 DEF ClaudeGives, s
<1> QED BY <1>3, <1>4

\* An index names one of the messages that are held, or none.
LEMMA HeldIndexIn ==
    ASSUME NEW b \in ClaudeState, NEW index
    PROVE  Claude!HeldIndex(b, index) \subseteq 1..Len(b.held)
<1> DEFINE fixed == Claude!Cardinality(b.queued)
           l == Len(b.held)
<1>1. fixed \in Nat
  <2>1. IsFiniteSet(Msg) BY EngineAssumption, FS_Interval DEF Msg
  <2>2. b.queued \subseteq Msg BY DEF ClaudeState
  <2>3. IsFiniteSet(b.queued) BY <2>1, <2>2, FS_Subset
  <2>4. Cardinality(b.queued) \in Nat BY <2>3, FS_CardinalityType
  <2>5. fixed = Cardinality(b.queued) BY DEF Claude!Cardinality, Cardinality
  <2> QED BY <2>4, <2>5
<1>2. l \in Nat BY DEF ClaudeState
<1>3. Claude!QueueIndex(index, fixed + l) \subseteq 1..(fixed + l) BY DEF Claude!QueueIndex
<1> HIDE DEF fixed, l
<1>4. \A j \in 1..(fixed + l) : j > fixed => j - fixed \in 1..l BY <1>1, <1>2
<1>5. Claude!HeldIndex(b, index)
        = {i - fixed : i \in {j \in Claude!QueueIndex(index, fixed + l) : j > fixed}}
  BY DEF Claude!HeldIndex, fixed, l
<1> QED BY <1>3, <1>4, <1>5 DEF l

\* Neither settles anything nor files anything anew.
LEMMA ClaudeStill ==
    ASSUME NEW b \in ClaudeState, NEW c \in ClaudeState, NEW f \in Seq(Carried(ClaudeFrame)),
           NEW e \in Seq(Carried(EventName)),
           MsgsOf(f, Settling) = {}, MsgsOf(e, Settling) = {},
           In(ClaudeQueue(c)) = In(ClaudeQueue(b)), Once(ClaudeQueue(b)) => Once(ClaudeQueue(c))
    PROVE  ClaudeGives(b, [a |-> c, frames |-> f, events |-> e], {})
<1>1. Gone([a |-> c, frames |-> f, events |-> e]) = {} BY DEF Gone
<1> QED BY <1>1 DEF ClaudeGives, ClaudeOutput, FiledBy

\* Each op files the messages it is about: given, kept or taken back.
LEMMA ClaudeUserGives ==
    ASSUME NEW b \in ClaudeState, NEW m \in Msg
    PROVE  ClaudeGives(b, Claude!UserMessage(b, m), {m})
<1> DEFINE r == Claude!UserMessage(b, m)
<1>0. b.held \in Seq(Msg) /\ b.steering.frames \in Seq(Msg)
      /\ In(ClaudeQueue(b)) = In(b.steering.frames) \cup In(b.held)
      /\ (Once(ClaudeQueue(b)) <=> /\ Once(b.steering.frames) /\ Once(b.held)
                                   /\ In(b.steering.frames) \cap In(b.held) = {})
  BY ClaudeQueueParts
<1>e. <<>> \in Seq(Carried(ClaudeFrame)) /\ <<>> \in Seq(Carried(EventName)) OBVIOUS
<1>s. MsgsOf(<<>>, Settling) = {} BY MsgsEmpty
<1>1. CASE b.active
  <2> DEFINE h == Append(b.held, m)
             c == [b EXCEPT !.held = h]
  <2>1. r = [a |-> c, frames |-> <<>>, events |-> <<>>] BY <1>1, ClaudeNames DEF Claude!UserMessage
  <2>2. h \in Seq(Msg) /\ In(h) = In(b.held) \cup {m}
        /\ (Once(b.held) /\ m \notin In(b.held) => Once(h))
    BY <1>0, AppendOnce
  <2> HIDE DEF h
  <2>3. c \in ClaudeState /\ c.held = h /\ c.steering = b.steering BY <2>2 DEF ClaudeState
  <2> HIDE DEF c, r
  <2>4. In(ClaudeQueue(c)) = In(b.steering.frames) \cup In(h)
        /\ (Once(ClaudeQueue(c)) <=> /\ Once(b.steering.frames) /\ Once(h)
                                     /\ In(b.steering.frames) \cap In(h) = {})
    BY <2>3, ClaudeQueueParts
  <2>5. Gone(r) = {} BY <2>1, <1>s DEF Gone
  <2>6. FiledBy(ClaudeQueue(b), ClaudeQueue(c), Gone(r), {m})
    BY <1>0, <2>2, <2>4, <2>5 DEF FiledBy
  <2> QED BY <1>e, <2>1, <2>3, <2>6 DEF ClaudeGives, ClaudeOutput, r
<1>2. CASE ~b.active
  <2>1. r = [a |-> b, frames |-> <<About("user", m)>>, events |-> <<>>]
    BY <1>2, ClaudeNames DEF Claude!UserMessage, About
  <2> HIDE DEF r
  <2>2. <<About("user", m)>> \in Seq(Carried(ClaudeFrame))
    <3>1. "user" \in ClaudeFrame /\ 0 \in 0..MaxAsks /\ <<>> \in Seq(Msg)
      BY EngineAssumption DEF ClaudeFrame
    <3> QED BY <3>1, CarriedOne
  <2>3. MsgsOf(<<About("user", m)>>, Settling) = {m}
    <3>1. "user" \in Settling /\ <<>> \in Seq(Msg) BY DEF Settling, Handed
    <3> QED BY <3>1, SettledOne
  <2>4. Gone(r) = {m} BY <2>1, <2>3, <1>s DEF Gone
  <2>5. FiledBy(ClaudeQueue(b), ClaudeQueue(b), Gone(r), {m}) BY <2>4 DEF FiledBy
  <2> QED BY <1>e, <2>1, <2>2, <2>5 DEF ClaudeGives, ClaudeOutput, r
<1> QED BY <1>1, <1>2

LEMMA ClaudeApproveGives ==
    ASSUME NEW b \in ClaudeState, NEW calls \in SUBSET (1..MaxAsks)
    PROVE  ClaudeGives(b, Claude!Approve(b, calls), {})
<1> DEFINE known == calls \cap b.approvals
           c == [b EXCEPT !.approvals = @ \ known]
<1>1. Claude!Approve(b, calls) = [a |-> c, frames |-> AnswersOf(known), events |-> <<>>]
  BY ClaudeNames DEF Claude!Approve
<1>2. c \in ClaudeState /\ ClaudeQueue(c) = ClaudeQueue(b) BY DEF ClaudeState, ClaudeQueue
<1>3. AnswersOf(known) \in Seq(Carried(ClaudeFrame)) /\ MsgsOf(AnswersOf(known), Settling) = {}
  <2>1. known \in SUBSET (1..MaxAsks) /\ "answer" \in ClaudeFrame BY DEF ClaudeFrame
  <2> QED BY <2>1, AnswerFrames
<1>4. <<>> \in Seq(Carried(EventName)) /\ MsgsOf(<<>>, Settling) = {} BY MsgsEmpty
<1> HIDE DEF c, known
<1> QED BY <1>1, <1>2, <1>3, <1>4, ClaudeStill

LEMMA ClaudeHeldGives ==
    ASSUME NEW b \in ClaudeState, NEW q \in Seq(Msg), In(q) = In(b.held), Once(b.held) => Once(q),
           NEW f \in Seq(Carried(ClaudeFrame)), MsgsOf(f, Settling) = {}
    PROVE  ClaudeGives(b, [a |-> [b EXCEPT !.held = q], frames |-> f, events |-> <<>>], {})
<1> DEFINE c == [b EXCEPT !.held = q]
<1>1. c \in ClaudeState /\ c.held = q /\ c.steering = b.steering BY DEF ClaudeState
<1> HIDE DEF c
<1>2. In(ClaudeQueue(c)) = In(ClaudeQueue(b)) /\ (Once(ClaudeQueue(b)) => Once(ClaudeQueue(c)))
  BY <1>1, ClaudeQueueParts
<1>3. <<>> \in Seq(Carried(EventName)) /\ MsgsOf(<<>>, Settling) = {} BY MsgsEmpty
<1> QED BY <1>1, <1>2, <1>3, ClaudeStill DEF c

LEMMA ClaudeQuietGives ==
    ASSUME NEW b \in ClaudeState, NEW c \in ClaudeState, c.held = b.held,
           c.steering.frames = b.steering.frames
    PROVE  ClaudeGives(b, [a |-> c, frames |-> <<>>, events |-> <<>>], {})
<1>1. ClaudeQueue(c) = ClaudeQueue(b) BY DEF ClaudeQueue
<1>2. <<>> \in Seq(Carried(EventName)) /\ MsgsOf(<<>>, Settling) = {}
      /\ <<>> \in Seq(Carried(ClaudeFrame))
  BY MsgsEmpty
<1> QED BY <1>1, <1>2, ClaudeStill

LEMMA ClaudeInterruptGives ==
    ASSUME NEW b \in ClaudeState, NEW index
    PROVE  ClaudeGives(b, Claude!Interrupt(b, index), {})
<1> DEFINE first == Claude!HeldIndex(b, index)
           q == IF first = {} THEN b.held ELSE Claude!ToFront(b.held, CHOOSE i \in first : TRUE)
           f == <<Nameless("interrupt")>>
<1>1. q \in Seq(Msg) /\ In(q) = In(b.held) /\ (Once(b.held) => Once(q))
  <2>0. b.held \in Seq(Msg) BY DEF ClaudeState
  <2>1. CASE first = {} BY <2>0, <2>1
  <2>2. CASE first # {}
    <3> DEFINE i == CHOOSE i \in first : TRUE
    <3>1. i \in 1..Len(b.held) BY <2>2, HeldIndexIn
    <3>2. q = <<b.held[i]>> \o RemoveAt(b.held, i) BY <2>2, ClaudeNames
    <3> HIDE DEF q, i
    <3> QED BY <2>0, <3>1, <3>2, FrontOnce
  <2> QED BY <2>1, <2>2
<1>2. f \in Seq(Carried(ClaudeFrame)) /\ MsgsOf(f, Settling) = {}
  <2>1. "interrupt" \in ClaudeFrame /\ 0 \in 0..MaxAsks /\ <<>> \in Seq(Msg)
    BY EngineAssumption DEF ClaudeFrame
  <2>2. Nameless("interrupt") \in Carried(ClaudeFrame) BY <2>1 DEF Nameless, Carried
  <2>3. ToSet(Nameless("interrupt").ms) = {} BY EmptyOnce DEF Nameless
  <2> QED BY <2>2, <2>3, MsgsOne
<1>3. Claude!Interrupt(b, index)
        = IF b.active THEN [a |-> [b EXCEPT !.held = q], frames |-> f, events |-> <<>>]
          ELSE [a |-> b, frames |-> <<>>, events |-> <<>>]
  BY ClaudeNames DEF Claude!Interrupt, Nameless
<1> HIDE DEF q, f
<1>4. ClaudeGives(b, [a |-> b, frames |-> <<>>, events |-> <<>>], {}) BY ClaudeQuietGives
<1>5. ClaudeGives(b, [a |-> [b EXCEPT !.held = q], frames |-> f, events |-> <<>>], {})
  BY <1>1, <1>2, ClaudeHeldGives
<1> QED BY <1>3, <1>4, <1>5

\* What a steer takes is held no more, and is wrote or waits to be.
LEMMA ClaudeReleased ==
    ASSUME NEW b \in ClaudeState, NEW p, NEW st,
           p.out \in Seq(Msg), p.left \in Seq(Msg),
           st \in [frames : Seq(Msg), waiting : Nat, late : BOOLEAN]
    PROVE  LET c == [Claude!Released(b, p) EXCEPT !.steering = st]
           IN  /\ c \in ClaudeState /\ c.held = p.left /\ c.steering = st
               /\ Claude!Released(b, p) \in ClaudeState
               /\ Claude!Released(b, p).held = p.left
               /\ Claude!Released(b, p).steering = b.steering
<1>1. ToSet(p.out) \subseteq Msg BY ToSetIn
<1>2. Claude!Released(b, p) = [b EXCEPT !.held = p.left, !.queued = @ \cup ToSet(p.out)]
  BY ClaudeNames DEF Claude!Released
<1>3. Claude!Released(b, p) \in ClaudeState BY <1>1, <1>2 DEF ClaudeState
<1> QED BY <1>2, <1>3 DEF ClaudeState

LEMMA ClaudeSteerGives ==
    ASSUME NEW b \in ClaudeState, NEW index
    PROVE  ClaudeGives(b, Claude!Steer(b, index), {})
<1> DEFINE r == Claude!Steer(b, index)
           is == Claude!HeldIndex(b, index)
           p == PickedOut(b.held, index, is)
           st == b.steering.frames
           d == Claude!Released(b, p)
           on == [b.steering EXCEPT !.frames = @ \o p.out]
           anew == [frames |-> p.out, waiting |-> 1, late |-> FALSE]
           moves == <<Nameless("background_tasks")>>
           wrote == EachOf("now", p.out)
<1>0. b.held \in Seq(Msg) /\ st \in Seq(Msg)
      /\ In(ClaudeQueue(b)) = In(st) \cup In(b.held)
      /\ (Once(ClaudeQueue(b)) <=> Once(st) /\ Once(b.held) /\ In(st) \cap In(b.held) = {})
  BY ClaudeQueueParts
<1>1. is \in SUBSET (1..Len(b.held)) BY HeldIndexIn
<1>2. /\ p.out \in Seq(Msg) /\ p.left \in Seq(Msg)
      /\ In(b.held) = In(p.out) \cup In(p.left)
      /\ (Once(b.held) => Once(p.out) /\ Once(p.left) /\ In(p.out) \cap In(p.left) = {})
  <2> HIDE DEF is
  <2> QED BY <1>0, <1>1, PickedOnce
<1>3. r = IF ~b.active \/ p.out = <<>>
          THEN [a |-> b, frames |-> <<>>, events |-> <<>>]
          ELSE IF st # <<>>
          THEN [a |-> [d EXCEPT !.steering = on], frames |-> <<>>, events |-> <<>>]
          ELSE IF b.subagent
          THEN [a |-> [d EXCEPT !.steering = anew], frames |-> moves, events |-> <<>>]
          ELSE [a |-> d, frames |-> wrote, events |-> <<>>]
  <2>1. Claude!Picked(b.held, index, is) = p BY ClaudeNames
  <2>2. d.steering = b.steering BY DEF Claude!Released
  <2>3. [d EXCEPT !.steering.frames = @ \o p.out] = [d EXCEPT !.steering = on] BY <2>2
  <2> HIDE DEF p, d, is
  <2> QED BY <2>1, <2>3, ClaudeNames DEF Claude!Steer, d, is, Nameless
<1> HIDE DEF p, r, d, is
<1>e. <<>> \in Seq(Carried(EventName)) /\ MsgsOf(<<>>, Settling) = {}
      /\ <<>> \in Seq(Carried(ClaudeFrame))
  BY MsgsEmpty
<1>4. CASE ~b.active \/ p.out = <<>> BY <1>3, <1>4, ClaudeQuietGives DEF r
<1>5. CASE b.active /\ p.out # <<>> /\ st # <<>>
  <2> DEFINE c == [d EXCEPT !.steering = on]
             w == st \o p.out
  <2>1. w \in Seq(Msg) /\ In(w) = In(st) \cup In(p.out)
        /\ (Once(st) /\ Once(p.out) /\ In(st) \cap In(p.out) = {} => Once(w))
    BY <1>0, <1>2, ConcatOnce
  <2>2. on \in [frames : Seq(Msg), waiting : Nat, late : BOOLEAN] /\ on.frames = w
    <3>1. b.steering \in [frames : Seq(Msg), waiting : Nat, late : BOOLEAN] BY DEF ClaudeState
    <3> QED BY <2>1, <3>1
  <2> HIDE DEF w, on
  <2>3. c \in ClaudeState /\ c.held = p.left /\ c.steering = on
    BY <1>2, <2>2, ClaudeReleased DEF d
  <2> HIDE DEF c
  <2>4. In(ClaudeQueue(c)) = In(w) \cup In(p.left)
        /\ (Once(ClaudeQueue(c)) <=> Once(w) /\ Once(p.left) /\ In(w) \cap In(p.left) = {})
    BY <2>2, <2>3, ClaudeQueueParts
  <2>5. In(ClaudeQueue(c)) = In(ClaudeQueue(b)) /\ (Once(ClaudeQueue(b)) => Once(ClaudeQueue(c)))
    BY <1>0, <1>2, <2>1, <2>4
  <2>6. ClaudeGives(b, [a |-> c, frames |-> <<>>, events |-> <<>>], {})
    BY <1>e, <2>3, <2>5, ClaudeStill
  <2> QED BY <1>3, <1>5, <2>6 DEF c, r
<1>6. CASE b.active /\ p.out # <<>> /\ st = <<>> /\ b.subagent
  <2> DEFINE c == [d EXCEPT !.steering = anew]
  <2>1. anew \in [frames : Seq(Msg), waiting : Nat, late : BOOLEAN] /\ anew.frames = p.out
    BY <1>2
  <2> HIDE DEF anew
  <2>3. c \in ClaudeState /\ c.held = p.left /\ c.steering = anew
    BY <1>2, <2>1, ClaudeReleased DEF d
  <2> HIDE DEF c
  <2>4. In(ClaudeQueue(c)) = In(p.out) \cup In(p.left)
        /\ (Once(ClaudeQueue(c)) <=> Once(p.out) /\ Once(p.left) /\ In(p.out) \cap In(p.left) = {})
    BY <2>1, <2>3, ClaudeQueueParts
  <2>a. In(st) = {} BY <1>6, EmptyOnce
  <2>5. In(ClaudeQueue(c)) = In(ClaudeQueue(b)) /\ (Once(ClaudeQueue(b)) => Once(ClaudeQueue(c)))
    BY <1>0, <1>2, <2>4, <2>a
  <2>6. moves \in Seq(Carried(ClaudeFrame)) /\ MsgsOf(moves, Settling) = {}
    <3>1. "background_tasks" \in ClaudeFrame /\ 0 \in 0..MaxAsks /\ <<>> \in Seq(Msg)
      BY EngineAssumption DEF ClaudeFrame
    <3>2. Nameless("background_tasks") \in Carried(ClaudeFrame) BY <3>1 DEF Nameless, Carried
    <3>3. ToSet(Nameless("background_tasks").ms) = {} BY EmptyOnce DEF Nameless
    <3> QED BY <3>2, <3>3, MsgsOne
  <2> HIDE DEF moves
  <2>7. ClaudeGives(b, [a |-> c, frames |-> moves, events |-> <<>>], {})
    BY <1>e, <2>3, <2>5, <2>6, ClaudeStill
  <2> QED BY <1>3, <1>6, <2>7 DEF c, r
<1>7. CASE b.active /\ p.out # <<>> /\ st = <<>> /\ ~b.subagent
  <2>3. d \in ClaudeState /\ d.held = p.left /\ d.steering = b.steering
    <3>1. b.steering \in [frames : Seq(Msg), waiting : Nat, late : BOOLEAN] BY DEF ClaudeState
    <3> QED BY <1>2, <3>1, ClaudeReleased DEF d
  <2>4. In(ClaudeQueue(d)) = In(st) \cup In(p.left)
        /\ (Once(ClaudeQueue(d)) <=> Once(st) /\ Once(p.left) /\ In(st) \cap In(p.left) = {})
    BY <2>3, ClaudeQueueParts
  <2>a. In(st) = {} BY <1>7, EmptyOnce
  <2>5. wrote \in Seq(Carried(ClaudeFrame)) /\ MsgsOf(wrote, Settling) = In(p.out)
    <3>1. "now" \in ClaudeFrame /\ "now" \in Settling BY DEF ClaudeFrame, Settling, Handed
    <3>2. ToSet(p.out) = In(p.out) BY <1>2, ToSetIn
    <3> QED BY <3>1, <3>2, <1>2, EachFrames
  <2> HIDE DEF wrote
  <2>6. r = [a |-> d, frames |-> wrote, events |-> <<>>] BY <1>3, <1>7
  <2>7. Gone(r) = In(p.out) BY <2>5, <2>6, <1>e DEF Gone
  <2>8. FiledBy(ClaudeQueue(b), ClaudeQueue(d), Gone(r), {})
    BY <1>0, <1>2, <2>4, <2>7, <2>a DEF FiledBy
  <2> QED BY <1>e, <2>3, <2>5, <2>6, <2>8 DEF ClaudeGives, ClaudeOutput, r
<1> QED BY <1>4, <1>5, <1>6, <1>7 DEF r

LEMMA ClaudeUnqueueGives ==
    ASSUME NEW b \in ClaudeState, NEW index
    PROVE  ClaudeGives(b, Claude!Unqueue(b, index), {})
<1> DEFINE is == Claude!HeldIndex(b, index)
           i == CHOOSE i \in is : TRUE
           r == Claude!Unqueue(b, index)
           c == [b EXCEPT !.held = RemoveAt(b.held, i)]
<1>0. b.held \in Seq(Msg) BY DEF ClaudeState
<1>1. CASE is = {}
  <2>1. r = [a |-> b, frames |-> <<>>, events |-> <<>>] BY <1>1, ClaudeNames DEF Claude!Unqueue
  <2> QED BY <2>1, ClaudeQuietGives
<1>2. CASE is # {}
  <2>1. i \in 1..Len(b.held) BY <1>2, HeldIndexIn
  <2>2. r = Claude!Unqueued(b, "held", <<i - 1>>) BY <1>2 DEF Claude!Unqueue
  <2>z. Len(b.held) \in Nat BY <1>0
  <2> HIDE DEF i, is
  <2>3. Claude!QueueIndex(<<i - 1>>, Len(b.held)) = {i}
    BY <2>1, <2>z DEF Claude!QueueIndex
  <2>4. (CHOOSE j \in {i} : TRUE) = i OBVIOUS
  <2>5. r = [a |-> c, frames |-> <<>>, events |-> <<About("unqueued", b.held[i])>>]
    BY <2>2, <2>3, <2>4, ClaudeNames DEF Claude!Unqueued, About
  <2>6. RemoveAt(b.held, i) \in Seq(Msg) /\ b.held[i] \in Msg
        /\ In(b.held) = In(RemoveAt(b.held, i)) \cup {b.held[i]}
        /\ (Once(b.held) => Once(RemoveAt(b.held, i)) /\ b.held[i] \notin In(RemoveAt(b.held, i)))
    BY <1>0, <2>1, RemoveOnce
  <2>7. c \in ClaudeState /\ c.held = RemoveAt(b.held, i) /\ c.steering = b.steering
    BY <2>6 DEF ClaudeState
  <2> HIDE DEF c, r
  <2>8. /\ In(ClaudeQueue(b)) = In(b.steering.frames) \cup In(b.held)
        /\ (Once(ClaudeQueue(b)) <=> Once(b.steering.frames) /\ Once(b.held)
                                     /\ In(b.steering.frames) \cap In(b.held) = {})
        /\ In(ClaudeQueue(c)) = In(b.steering.frames) \cup In(c.held)
        /\ (Once(ClaudeQueue(c)) <=> Once(b.steering.frames) /\ Once(c.held)
                                     /\ In(b.steering.frames) \cap In(c.held) = {})
    BY <2>7, ClaudeQueueParts
  <2>9. <<About("unqueued", b.held[i])>> \in Seq(Carried(EventName))
        /\ MsgsOf(<<About("unqueued", b.held[i])>>, Settling) = {b.held[i]}
    <3>1. "unqueued" \in EventName /\ "unqueued" \in Settling /\ 0 \in 0..MaxAsks
          /\ <<>> \in Seq(Msg)
      BY EngineAssumption DEF EventName, Settling
    <3> QED BY <2>6, <3>1, CarriedOne, SettledOne
  <2>10. <<>> \in Seq(Carried(ClaudeFrame)) /\ MsgsOf(<<>>, Settling) = {} BY MsgsEmpty
  <2>11. Gone(r) = {b.held[i]} BY <2>5, <2>9, <2>10 DEF Gone
  <2>12. FiledBy(ClaudeQueue(b), ClaudeQueue(c), Gone(r), {})
    BY <2>6, <2>7, <2>8, <2>11 DEF FiledBy
  <2> QED BY <2>5, <2>7, <2>9, <2>10, <2>12 DEF ClaudeGives, ClaudeOutput, r
<1> QED BY <1>1, <1>2

LEMMA ClaudeMoveGives ==
    ASSUME NEW b \in ClaudeState, NEW index, NEW to
    PROVE  ClaudeGives(b, Claude!QueueMove(b, index, to), {})
<1> DEFINE fixed == Claude!Cardinality(b.queued)
           l == Len(b.held)
           moves == {m \in Claude!QueueMoveTarget(index, to, fixed + l) :
                        m[1] > fixed /\ m[2] > fixed}
           m == CHOOSE m \in moves : TRUE
           q == InsertAt(RemoveAt(b.held, m[1] - fixed), m[2] - fixed, b.held[m[1] - fixed])
           r == Claude!QueueMove(b, index, to)
<1>0. b.held \in Seq(Msg) BY DEF ClaudeState
<1>z. l \in Nat BY <1>0
<1>y. fixed \in Nat
  <2>1. IsFiniteSet(Msg) BY EngineAssumption, FS_Interval DEF Msg
  <2>2. b.queued \subseteq Msg BY DEF ClaudeState
  <2>3. IsFiniteSet(b.queued) BY <2>1, <2>2, FS_Subset
  <2>4. Cardinality(b.queued) \in Nat BY <2>3, FS_CardinalityType
  <2>5. fixed = Cardinality(b.queued) BY DEF Claude!Cardinality, Cardinality
  <2> QED BY <2>4, <2>5
<1>1. CASE moves = {}
  <2>1. r = [a |-> b, frames |-> <<>>, events |-> <<>>] BY <1>1, ClaudeNames DEF Claude!QueueMove
  <2> QED BY <2>1, ClaudeQuietGives
<1>2. CASE moves # {}
  <2>1. m \in moves BY <1>2
  <2>2. r = [a |-> [b EXCEPT !.held = q], frames |-> <<>>, events |-> <<>>]
    BY <1>2, ClaudeNames DEF Claude!QueueMove
  <2>3. m[1] \in 1..(fixed + l) /\ m[2] \in 1..(fixed + l) /\ m[1] > fixed /\ m[2] > fixed
    <3>1. m \in Claude!QueueIndex(index, fixed + l) \X Claude!QueueIndex(to, fixed + l)
          /\ m[1] > fixed /\ m[2] > fixed
      <4> HIDE DEF m, fixed, l
      <4> QED BY <2>1 DEF Claude!QueueMoveTarget
    <3>2. \A x, n : Claude!QueueIndex(x, n) \subseteq 1..n BY DEF Claude!QueueIndex
    <3> HIDE DEF m, moves, fixed, l
    <3> QED BY <3>1, <3>2
  <2> HIDE DEF m, moves, fixed
  <2>4. m[1] - fixed \in 1..Len(b.held) /\ m[2] - fixed \in 1..Len(b.held)
    BY <2>3, <1>z, <1>y
  <2>5. q \in Seq(Msg) /\ In(q) = In(b.held) /\ (Once(b.held) => Once(q))
    BY <1>0, <2>4, MoveOnce
  <2>6. <<>> \in Seq(Carried(ClaudeFrame)) /\ MsgsOf(<<>>, Settling) = {} BY MsgsEmpty
  <2> HIDE DEF q, r
  <2>7. ClaudeGives(b, [a |-> [b EXCEPT !.held = q], frames |-> <<>>, events |-> <<>>], {})
    BY <2>5, <2>6, ClaudeHeldGives
  <2> QED BY <2>2, <2>7 DEF r
<1> QED BY <1>1, <1>2

\* Every op of Claude Code does.
LEMMA ClaudeEncodeGives ==
    ASSUME NEW b \in ClaudeState, NEW op \in AnyOp
    PROVE  ClaudeGives(b, Claude!Encode(b, op), NewIn(op))
<1> DEFINE r == Claude!EncodeOp(b, op)
<1>1. CASE op.op = "user_message"
  <2>1. op.m \in Msg BY <1>1 DEF AnyOp
  <2>2. r = Claude!UserMessage(b, op.m) BY <1>1 DEF Claude!EncodeOp
  <2>3. NewIn(op) = {op.m} BY <1>1 DEF NewIn
  <2> HIDE DEF r
  <2>4. ClaudeGives(b, r, NewIn(op)) BY <2>1, <2>2, <2>3, ClaudeUserGives
  <2> QED BY <2>4, ClaudeReady DEF Claude!Encode, r
<1>2. CASE op.op # "user_message"
  <2>0. NewIn(op) = {} BY <1>2 DEF NewIn
  <2>1. ASSUME op.op = "approve"
       PROVE  ClaudeGives(b, r, {})
    <3>1. op.calls \in SUBSET (1..MaxAsks) BY <2>1 DEF AnyOp
    <3>2. r = Claude!Approve(b, op.calls) BY <2>1 DEF Claude!EncodeOp
    <3> HIDE DEF r
    <3> QED BY <3>1, <3>2, ClaudeApproveGives
  <2>2. ASSUME op.op = "interrupt"
       PROVE  ClaudeGives(b, r, {})
    <3>1. r = Claude!Interrupt(b, op.index) BY <2>2 DEF Claude!EncodeOp
    <3> HIDE DEF r
    <3> QED BY <3>1, ClaudeInterruptGives
  <2>3. ASSUME op.op = "steer"
       PROVE  ClaudeGives(b, r, {})
    <3>1. r = Claude!Steer(b, op.index) BY <2>3 DEF Claude!EncodeOp
    <3> HIDE DEF r
    <3> QED BY <3>1, ClaudeSteerGives
  <2>4. ASSUME op.op = "unqueue"
       PROVE  ClaudeGives(b, r, {})
    <3>1. r = Claude!Unqueue(b, op.index) BY <2>4 DEF Claude!EncodeOp
    <3> HIDE DEF r
    <3> QED BY <3>1, ClaudeUnqueueGives
  <2>5. ASSUME op.op = "queue_move"
       PROVE  ClaudeGives(b, r, {})
    <3>1. r = Claude!QueueMove(b, op.index, op.to) BY <2>5 DEF Claude!EncodeOp
    <3> HIDE DEF r
    <3> QED BY <3>1, ClaudeMoveGives
  <2>6. ASSUME op.op = "set_approval_mode"
       PROVE  ClaudeGives(b, r, {})
    <3>1. op.mode \in Mode BY <2>6 DEF AnyOp
    <3>2. r = [a |-> [b EXCEPT !.mode = op.mode], frames |-> <<>>, events |-> <<>>]
      BY <2>6, ClaudeNames DEF Claude!EncodeOp
    <3> DEFINE c == [b EXCEPT !.mode = op.mode]
    <3>3. c \in ClaudeState /\ c.held = b.held /\ c.steering.frames = b.steering.frames
      BY <3>1 DEF ClaudeState
    <3> HIDE DEF c, r
    <3>4. r = [a |-> c, frames |-> <<>>, events |-> <<>>] BY <3>2 DEF c
    <3> QED BY <3>3, <3>4, ClaudeQuietGives
  <2>7. ASSUME op.op \notin {"approve", "interrupt", "steer", "unqueue", "queue_move",
                           "set_approval_mode"}
       PROVE  ClaudeGives(b, r, {})
    <3>1. r = [a |-> b, frames |-> <<>>, events |-> <<>>]
      BY <1>2, <2>7, ClaudeNames DEF Claude!EncodeOp
    <3> HIDE DEF r
    <3> QED BY <3>1, ClaudeQuietGives
  <2>8. ClaudeGives(b, r, {}) BY <2>1, <2>2, <2>3, <2>4, <2>5, <2>6, <2>7
  <2> HIDE DEF r
  <2>9. ClaudeGives(b, Claude!SteerReady(r), {}) BY <2>8, ClaudeReady
  <2> QED BY <2>0, <2>9 DEF Claude!Encode, r
<1> QED BY <1>1, <1>2

-----------------------------------------------------------------------------
ClaudeLine ==
    {"requesting", "replay", "result", "can_use_tool", "moved", "task_started", "task_updated",
     "task_notification"}

\* A request numbers a call.
Asking(T) == {x \in Carried(T) : x.t \in {"can_use_tool", "requestApproval", "request_permission"}
                                     => x.n # 0}

LEMMA EventOne ==
    ASSUME NEW x \in EventName
    PROVE  <<Nameless(x)>> \in Seq(Carried(EventName)) /\ MsgsOf(<<Nameless(x)>>, Settling) = {}
<1>1. 0 \in 0..MaxAsks /\ <<>> \in Seq(Msg) BY EngineAssumption
<1>2. Nameless(x) \in Carried(EventName) BY <1>1 DEF Nameless, Carried
<1>3. ToSet(Nameless(x).ms) = {} BY EmptyOnce DEF Nameless
<1> QED BY <1>2, <1>3, MsgsOne

\* A turn's end releases a message or none.
LEMMA ClaudeTurnEndGives ==
    ASSUME NEW b \in ClaudeState
    PROVE  ClaudeGives(b, Claude!OnTurnEnd(b), {})
<1> DEFINE r == Claude!OnTurnEnd(b)
           d == [b EXCEPT !.active = FALSE]
           ready == <<Nameless("ready")>>
           h == Head(b.held)
           t == Tail(b.held)
           c == [d EXCEPT !.held = t, !.queued = {h}]
           wrote == <<About("user", h)>>
<1>0. b.held \in Seq(Msg) BY DEF ClaudeState
<1>1. r = IF b.queued = {} /\ b.held # <<>>
          THEN [a |-> c, frames |-> wrote, events |-> ready]
          ELSE [a |-> d, frames |-> <<>>, events |-> ready]
  <2>1. d.held = b.held /\ d.queued = b.queued BY DEF ClaudeState
  <2> HIDE DEF d
  <2> QED BY <2>1, ClaudeNames DEF Claude!OnTurnEnd, About, Nameless, d
<1>2. ready \in Seq(Carried(EventName)) /\ MsgsOf(ready, Settling) = {}
  <2>1. "ready" \in EventName BY DEF EventName
  <2> QED BY <2>1, EventOne
<1>3. d \in ClaudeState /\ ClaudeQueue(d) = ClaudeQueue(b) BY DEF ClaudeState, ClaudeQueue
<1>4. <<>> \in Seq(Carried(ClaudeFrame)) /\ MsgsOf(<<>>, Settling) = {} BY MsgsEmpty
<1> HIDE DEF ready
<1>5. CASE ~(b.queued = {} /\ b.held # <<>>)
  <2> HIDE DEF d
  <2>1. ClaudeGives(b, [a |-> d, frames |-> <<>>, events |-> ready], {})
    BY <1>2, <1>3, <1>4, ClaudeStill
  <2> QED BY <1>1, <1>5, <2>1
<1>6. CASE b.queued = {} /\ b.held # <<>>
  <2>1. h \in Msg /\ t \in Seq(Msg) /\ In(b.held) = In(t) \cup {h}
        /\ (Once(b.held) => Once(t) /\ h \notin In(t))
    BY <1>0, <1>6, TailOnce
  <2> HIDE DEF h, t
  <2>2. c \in ClaudeState /\ c.held = t /\ c.steering = b.steering BY <2>1 DEF ClaudeState
  <2> HIDE DEF c, r
  <2>3. /\ In(ClaudeQueue(b)) = In(b.steering.frames) \cup In(b.held)
        /\ (Once(ClaudeQueue(b)) <=> Once(b.steering.frames) /\ Once(b.held)
                                     /\ In(b.steering.frames) \cap In(b.held) = {})
        /\ In(ClaudeQueue(c)) = In(b.steering.frames) \cup In(t)
        /\ (Once(ClaudeQueue(c)) <=> Once(b.steering.frames) /\ Once(t)
                                     /\ In(b.steering.frames) \cap In(t) = {})
    BY <2>2, ClaudeQueueParts
  <2>4. wrote \in Seq(Carried(ClaudeFrame)) /\ MsgsOf(wrote, Settling) = {h}
    <3>1. "user" \in ClaudeFrame /\ "user" \in Settling /\ 0 \in 0..MaxAsks /\ <<>> \in Seq(Msg)
      BY EngineAssumption DEF ClaudeFrame, Settling, Handed
    <3> QED BY <2>1, <3>1, CarriedOne, SettledOne
  <2> HIDE DEF wrote
  <2>5. r = [a |-> c, frames |-> wrote, events |-> ready] BY <1>1, <1>6 DEF r
  <2>6. Gone(r) = {h} BY <2>4, <2>5, <1>2 DEF Gone
  <2>7. FiledBy(ClaudeQueue(b), ClaudeQueue(c), Gone(r), {}) BY <2>1, <2>3, <2>6 DEF FiledBy
  <2> QED BY <1>2, <2>2, <2>4, <2>5, <2>7 DEF ClaudeGives, ClaudeOutput, r
<1> QED BY <1>5, <1>6

\* Every line of Claude Code files its messages.
LEMMA ClaudeTranslateGives ==
    ASSUME NEW b \in ClaudeState, NEW line \in Asking(ClaudeLine)
    PROVE  ClaudeGives(b, Claude!Translate(b, line), {})
<1> DEFINE r == Claude!TranslateLine(b, line)
<1>0. line.t \in ClaudeLine /\ line.ms \in Seq(Msg) /\ line.n \in 0..MaxAsks
      /\ (line.t = "can_use_tool" => line.n # 0)
  BY DEF Asking, Carried
<1>1. ASSUME line.t = "requesting" PROVE ClaudeGives(b, r, {})
  <2> DEFINE c == [b EXCEPT !.active = TRUE]
  <2>1. r = [a |-> c, frames |-> <<>>, events |-> <<>>]
    BY <1>1, ClaudeNames DEF Claude!TranslateLine
  <2>2. c \in ClaudeState /\ c.held = b.held /\ c.steering.frames = b.steering.frames
    BY DEF ClaudeState
  <2> HIDE DEF r, c
  <2> QED BY <2>1, <2>2, ClaudeQuietGives
<1>2. ASSUME line.t = "replay" PROVE ClaudeGives(b, r, {})
  <2> DEFINE c == [b EXCEPT !.queued = @ \ ToSet(line.ms)]
  <2>1. r = [a |-> c, frames |-> <<>>, events |-> <<>>]
    BY <1>2, ClaudeNames DEF Claude!TranslateLine, Claude!OnUser
  <2>2. c \in ClaudeState /\ c.held = b.held /\ c.steering.frames = b.steering.frames
    BY DEF ClaudeState
  <2> HIDE DEF r, c
  <2> QED BY <2>1, <2>2, ClaudeQuietGives
<1>3. ASSUME line.t = "result" PROVE ClaudeGives(b, r, {})
  <2>1. r = Claude!OnTurnEnd(b) BY <1>3 DEF Claude!TranslateLine
  <2> HIDE DEF r
  <2> QED BY <2>1, ClaudeTurnEndGives
<1>4. ASSUME line.t = "can_use_tool" PROVE ClaudeGives(b, r, {})
  <2> DEFINE c == [b EXCEPT !.approvals = @ \cup {line.n}]
             asked == <<NumberedAs("approval_request", line.n)>>
  <2>1. r = [a |-> c, frames |-> <<>>, events |-> asked]
    BY <1>4, ClaudeNames DEF Claude!TranslateLine, Claude!OnControlRequest
  <2>2. line.n \in 1..MaxAsks BY <1>0, <1>4, EngineAssumption
  <2>3. c \in ClaudeState /\ ClaudeQueue(c) = ClaudeQueue(b) BY <2>2 DEF ClaudeState, ClaudeQueue
  <2>4. asked \in Seq(Carried(EventName)) /\ MsgsOf(asked, Settling) = {}
    <3>1. "approval_request" \in EventName /\ <<>> \in Seq(Msg) BY DEF EventName
    <3>2. NumberedAs("approval_request", line.n) \in Carried(EventName)
      BY <1>0, <3>1 DEF NumberedAs, Carried
    <3>3. ToSet(NumberedAs("approval_request", line.n).ms) = {} BY EmptyOnce DEF NumberedAs
    <3> QED BY <3>2, <3>3, MsgsOne
  <2>5. <<>> \in Seq(Carried(ClaudeFrame)) /\ MsgsOf(<<>>, Settling) = {} BY MsgsEmpty
  <2> HIDE DEF r, c, asked
  <2> QED BY <2>1, <2>3, <2>4, <2>5, ClaudeStill
<1>5. ASSUME line.t = "moved" PROVE ClaudeGives(b, r, {})
  <2> DEFINE w == IF b.steering.waiting > 0 THEN b.steering.waiting - 1 ELSE 0
             c == [b EXCEPT !.steering.waiting = w]
  <2>1. r = [a |-> c, frames |-> <<>>, events |-> <<>>]
    BY <1>5, ClaudeNames DEF Claude!TranslateLine, Claude!OnControlResponse
  <2>2. b.steering.waiting \in Nat BY DEF ClaudeState
  <2>3. w \in Nat BY <2>2
  <2> HIDE DEF w
  <2>4. c \in ClaudeState /\ c.held = b.held /\ c.steering.frames = b.steering.frames
    BY <2>3 DEF ClaudeState
  <2> HIDE DEF r, c
  <2> QED BY <2>1, <2>4, ClaudeQuietGives
<1>6. ASSUME line.t \in {"task_started", "task_updated", "task_notification"} PROVE ClaudeGives(b, r, {})
  <2> DEFINE c == [b EXCEPT !.subagent = (line.t = "task_started")]
  <2>1. r = [a |-> c, frames |-> <<>>, events |-> <<>>]
    BY <1>6, ClaudeNames DEF Claude!TranslateLine, Claude!OnTask
  <2>2. c \in ClaudeState /\ c.held = b.held /\ c.steering.frames = b.steering.frames
    BY DEF ClaudeState
  <2> HIDE DEF r, c
  <2> QED BY <2>1, <2>2, ClaudeQuietGives
<1>7. ClaudeGives(b, r, {}) BY <1>0, <1>1, <1>2, <1>3, <1>4, <1>5, <1>6 DEF ClaudeLine
<1> HIDE DEF r
<1> QED BY <1>7, ClaudeReady DEF Claude!Translate, r

\* The CLI.

ClaudeProcess ==
    [in : Seq(Carried(ClaudeFrame)), turn : BOOLEAN, own : Seq(Msg), subagent : BOOLEAN,
     asks : SUBSET (1..MaxAsks), asked : 0..MaxAsks]

ClaudeSaid == [e : ClaudeProcess, lines : Seq(Asking(ClaudeLine))]

\* One line that asks for nothing.
LEMMA LineOne ==
    ASSUME NEW T, NEW t \in T, NEW q \in Seq(Msg),
           t \notin {"can_use_tool", "requestApproval", "request_permission"}
    PROVE  [t |-> t, ms |-> q, n |-> 0] \in Asking(T) /\ Nameless(t) \in Asking(T)
<1>1. 0 \in 0..MaxAsks /\ <<>> \in Seq(Msg) BY EngineAssumption
<1>2. [t |-> t, ms |-> q, n |-> 0] \in Carried(T) BY <1>1 DEF Carried
<1>3. Nameless(t) \in Carried(T) BY <1>1 DEF Carried, Nameless
<1> QED BY <1>2, <1>3 DEF Asking, Nameless

\* What the process prints is typed, and so is the process.
LEMMA ClaudeEndsTyped ==
    ASSUME NEW e \in ClaudeProcess
    PROVE  Claude!Ends(e) \in ClaudeSaid
<1> DEFINE d == [e EXCEPT !.turn = FALSE, !.asks = {}, !.subagent = FALSE]
           said == IF e.subagent THEN <<Nameless("task_notification"), Nameless("result")>>
                   ELSE <<Nameless("result")>>
<1>1. Claude!Ends(e) = [e |-> d, lines |-> said]
  BY DEF Claude!Ends, Claude!Says, Claude!Frame, Nameless
<1>2. d \in ClaudeProcess BY DEF ClaudeProcess
<1>3. Nameless("result") \in Asking(ClaudeLine) /\ Nameless("task_notification") \in Asking(ClaudeLine)
  <2>1. "result" \in ClaudeLine /\ "task_notification" \in ClaudeLine /\ <<>> \in Seq(Msg)
    BY DEF ClaudeLine
  <2> QED BY <2>1, LineOne
<1>4. said \in Seq(Asking(ClaudeLine)) BY <1>3
<1> HIDE DEF d, said
<1> QED BY <1>1, <1>2, <1>4 DEF ClaudeSaid

LEMMA ClaudeStartsTyped ==
    ASSUME NEW e \in ClaudeProcess, NEW q \in Seq(Msg)
    PROVE  Claude!Starts(e, q) \in ClaudeSaid
<1> DEFINE d == [e EXCEPT !.turn = TRUE]
           replay == [t |-> "replay", ms |-> q, n |-> 0]
           said == <<Nameless("requesting"), replay>>
<1>1. Claude!Starts(e, q) = [e |-> d, lines |-> said]
  BY DEF Claude!Starts, Claude!Says, Claude!Frame, Nameless
<1>2. d \in ClaudeProcess BY DEF ClaudeProcess
<1>3. Nameless("requesting") \in Asking(ClaudeLine) /\ replay \in Asking(ClaudeLine)
  <2>1. "requesting" \in ClaudeLine /\ "replay" \in ClaudeLine /\ <<>> \in Seq(Msg)
    BY DEF ClaudeLine
  <2> QED BY <2>1, LineOne
<1> HIDE DEF replay
<1>4. said \in Seq(Asking(ClaudeLine)) BY <1>3
<1> HIDE DEF d, said
<1> QED BY <1>1, <1>2, <1>4 DEF ClaudeSaid

LEMMA ClaudeReadsTyped ==
    ASSUME NEW e \in ClaudeProcess, NEW f \in Carried(ClaudeFrame)
    PROVE  Claude!Reads(e, f) \in ClaudeSaid
<1>0. f.t \in ClaudeFrame /\ f.ms \in Seq(Msg) /\ f.n \in 0..MaxAsks BY DEF Carried
<1>e. <<>> \in Seq(Asking(ClaudeLine)) OBVIOUS
<1>1. ASSUME NEW d \in ClaudeProcess PROVE Claude!Says(d, <<>>) \in ClaudeSaid
  BY <1>1, <1>e DEF Claude!Says, ClaudeSaid
<1>2. CASE f.t \in {"user", "now"}
  <2>1. e.own \in Seq(Msg) BY DEF ClaudeProcess
  <2>2. e.own \o f.ms \in Seq(Msg) BY <2>1, <1>0, ConcatOnce
  <2>3. [e EXCEPT !.own = @ \o f.ms] \in ClaudeProcess BY <2>2 DEF ClaudeProcess
  <2>4. Claude!Reads(e, f) = Claude!Says([e EXCEPT !.own = @ \o f.ms], <<>>)
        \/ Claude!Reads(e, f) = Claude!Starts(e, f.ms)
    BY <1>2 DEF Claude!Reads
  <2> QED BY <1>0, <1>1, <2>3, <2>4, ClaudeStartsTyped
<1>3. CASE f.t = "answer"
  <2>1. [e EXCEPT !.asks = @ \ {f.n}] \in ClaudeProcess BY DEF ClaudeProcess
  <2>2. Claude!Reads(e, f) = Claude!Says([e EXCEPT !.asks = @ \ {f.n}], <<>>)
    BY <1>3 DEF Claude!Reads
  <2> QED BY <1>1, <2>1, <2>2
<1>4. CASE f.t = "interrupt"
  <2>1. Claude!Reads(e, f) = IF e.turn THEN Claude!Ends(e) ELSE Claude!Says(e, <<>>)
    BY <1>4 DEF Claude!Reads
  <2> QED BY <1>1, <2>1, ClaudeEndsTyped
<1>5. CASE f.t = "background_tasks"
  <2> DEFINE d == [e EXCEPT !.subagent = FALSE]
             said == <<Nameless("task_updated"), Nameless("moved")>>
             moved == <<Nameless("moved")>>
  <2>1. Claude!Reads(e, f) = IF e.subagent THEN [e |-> d, lines |-> said]
                             ELSE [e |-> e, lines |-> moved]
    BY <1>5 DEF Claude!Reads, Claude!Says, Claude!Frame, Nameless
  <2>2. d \in ClaudeProcess BY DEF ClaudeProcess
  <2>3. Nameless("task_updated") \in Asking(ClaudeLine) /\ Nameless("moved") \in Asking(ClaudeLine)
    <3>1. "task_updated" \in ClaudeLine /\ "moved" \in ClaudeLine /\ <<>> \in Seq(Msg)
      BY DEF ClaudeLine
    <3> QED BY <3>1, LineOne
  <2>4. said \in Seq(Asking(ClaudeLine)) /\ moved \in Seq(Asking(ClaudeLine)) BY <2>3
  <2> HIDE DEF d, said, moved
  <2> QED BY <2>1, <2>2, <2>4 DEF ClaudeSaid
<1> QED BY <1>0, <1>2, <1>3, <1>4, <1>5 DEF ClaudeFrame

LEMMA ClaudeStepsTyped ==
    ASSUME NEW e \in ClaudeProcess, NEW s \in Claude!ProcessSteps(e, MaxAsks)
    PROVE  s \in ClaudeSaid
<1>0. e.in \in Seq(Carried(ClaudeFrame)) /\ e.own \in Seq(Msg) /\ e.asked \in 0..MaxAsks
  BY DEF ClaudeProcess
<1>a. MaxAsks \in Nat BY EngineAssumption
<1>1. \/ e.in # <<>> /\ s = Claude!Reads([e EXCEPT !.in = Tail(@)], Head(e.in))
      \/ s = Claude!Ends(e)
      \/ s = Claude!Says([e EXCEPT !.own = <<>>], <<Claude!Frame("replay", e.own)>>)
      \/ e.own # <<>> /\ s = Claude!Starts([e EXCEPT !.own = Tail(@)], <<Head(e.own)>>)
      \/ e.asked < MaxAsks /\ s = Claude!Says([e EXCEPT !.asks = {e.asked + 1}, !.asked = @ + 1],
                            <<Claude!Numbered("can_use_tool", e.asked + 1)>>)
      \/ s = Claude!Says([e EXCEPT !.subagent = TRUE], <<Claude!Frame("task_started", <<>>)>>)
  BY DEF Claude!ProcessSteps
<1>2. CASE e.in # <<>> /\ s = Claude!Reads([e EXCEPT !.in = Tail(@)], Head(e.in))
  <2>1. Tail(e.in) \in Seq(Carried(ClaudeFrame)) /\ Head(e.in) \in Carried(ClaudeFrame)
    BY <1>0, <1>2, TailOnce
  <2>2. [e EXCEPT !.in = Tail(@)] \in ClaudeProcess BY <2>1 DEF ClaudeProcess
  <2> QED BY <1>2, <2>1, <2>2, ClaudeReadsTyped
<1>3. CASE s = Claude!Ends(e) BY <1>3, ClaudeEndsTyped
<1>4. CASE s = Claude!Says([e EXCEPT !.own = <<>>], <<Claude!Frame("replay", e.own)>>)
  <2> DEFINE d == [e EXCEPT !.own = <<>>]
             replay == [t |-> "replay", ms |-> e.own, n |-> 0]
  <2>1. s = [e |-> d, lines |-> <<replay>>] BY <1>4 DEF Claude!Says, Claude!Frame
  <2>2. <<>> \in Seq(Msg) OBVIOUS
  <2>3. d \in ClaudeProcess BY <2>2 DEF ClaudeProcess
  <2>4. "replay" \in ClaudeLine BY DEF ClaudeLine
  <2>5. replay \in Asking(ClaudeLine) BY <2>4, <1>0, LineOne
  <2> HIDE DEF replay, d
  <2>6. <<replay>> \in Seq(Asking(ClaudeLine)) BY <2>5
  <2> QED BY <2>1, <2>3, <2>6 DEF ClaudeSaid
<1>5. CASE e.own # <<>> /\ s = Claude!Starts([e EXCEPT !.own = Tail(@)], <<Head(e.own)>>)
  <2>1. Tail(e.own) \in Seq(Msg) /\ Head(e.own) \in Msg BY <1>0, <1>5, TailOnce
  <2>2. [e EXCEPT !.own = Tail(@)] \in ClaudeProcess BY <2>1 DEF ClaudeProcess
  <2>3. <<Head(e.own)>> \in Seq(Msg) BY <2>1
  <2> QED BY <1>5, <2>2, <2>3, ClaudeStartsTyped
<1>6. CASE e.asked < MaxAsks /\ s = Claude!Says([e EXCEPT !.asks = {e.asked + 1}, !.asked = @ + 1],
                            <<Claude!Numbered("can_use_tool", e.asked + 1)>>)
  <2> DEFINE d == [e EXCEPT !.asks = {e.asked + 1}, !.asked = @ + 1]
             asks == NumberedAs("can_use_tool", e.asked + 1)
  <2>1. s = [e |-> d, lines |-> <<asks>>] BY <1>6 DEF Claude!Says, Claude!Numbered, NumberedAs
  <2>2. e.asked + 1 \in 1..MaxAsks /\ e.asked + 1 \in 0..MaxAsks /\ e.asked + 1 # 0
    BY <1>0, <1>6, <1>a
  <2>3. d \in ClaudeProcess BY <2>2 DEF ClaudeProcess
  <2>4. <<>> \in Seq(Msg) /\ "can_use_tool" \in ClaudeLine BY DEF ClaudeLine
  <2>5. asks \in Asking(ClaudeLine) BY <2>2, <2>4 DEF NumberedAs, Asking, Carried
  <2> HIDE DEF asks, d
  <2>6. <<asks>> \in Seq(Asking(ClaudeLine)) BY <2>5
  <2> QED BY <2>1, <2>3, <2>6 DEF ClaudeSaid
<1>7. CASE s = Claude!Says([e EXCEPT !.subagent = TRUE], <<Claude!Frame("task_started", <<>>)>>)
  <2> DEFINE d == [e EXCEPT !.subagent = TRUE]
             task == Nameless("task_started")
  <2>1. s = [e |-> d, lines |-> <<task>>] BY <1>7 DEF Claude!Says, Claude!Frame, Nameless
  <2>3. d \in ClaudeProcess BY DEF ClaudeProcess
  <2>4. "task_started" \in ClaudeLine /\ <<>> \in Seq(Msg) BY DEF ClaudeLine
  <2>5. task \in Asking(ClaudeLine) BY <2>4, LineOne
  <2> HIDE DEF task, d
  <2>6. <<task>> \in Seq(Asking(ClaudeLine)) BY <2>5
  <2> QED BY <2>1, <2>3, <2>6 DEF ClaudeSaid
<1> QED BY <1>1, <1>2, <1>3, <1>4, <1>5, <1>6, <1>7

\* A new adapter, and a new process.
LEMMA ClaudeFreshTyped ==
    ASSUME NEW mode \in Mode
    PROVE  /\ Claude!Fresh(mode) \in ClaudeState /\ ClaudeQueue(Claude!Fresh(mode)) = <<>>
           /\ Claude!Fresh(mode).mode = mode
           /\ Claude!FreshProcess \in ClaudeProcess /\ Claude!FreshProcess.in = <<>>
<1>1. <<>> \in Seq(Msg) /\ 0 \in 0..MaxAsks /\ <<>> \in Seq(Carried(ClaudeFrame))
  BY EngineAssumption
<1>2. Claude!NoSteering \in [frames : Seq(Msg), waiting : Nat, late : BOOLEAN]
      /\ Claude!NoSteering.frames = <<>>
  BY <1>1 DEF Claude!NoSteering
<1>3. Claude!Fresh(mode) \in ClaudeState BY <1>1, <1>2 DEF Claude!Fresh, ClaudeState
<1>4. ClaudeQueue(Claude!Fresh(mode)) = <<>>
  <2>1. <<>> \o <<>> = <<>> OBVIOUS
  <2> QED BY <1>2, <2>1 DEF Claude!Fresh, ClaudeQueue
<1>5. Claude!FreshProcess \in ClaudeProcess /\ Claude!FreshProcess.in = <<>>
  BY <1>1 DEF Claude!FreshProcess, ClaudeProcess
<1> QED BY <1>3, <1>4, <1>5 DEF Claude!Fresh

-----------------------------------------------------------------------------
\* --- Codex: where the messages of an op or a line go ---

\* The Codex adapter.

CodexFrame == {"thread/resume", "thread/start", "turn/start", "turn/steer", "turn/interrupt",
               "thread/revert", "answer"}

CodexState ==
    [mode : Mode, thread : BOOLEAN, resume : BOOLEAN, busy : BOOLEAN, turn : BOOLEAN,
     queued : Seq(Msg), rolling : BOOLEAN, afterRollback : Seq(Msg), waiting : Seq(Msg),
     steering : Seq(Msg), steers : Int, userTurns : Nat, approvals : SUBSET (1..MaxAsks)]

CodexOutput == [a : CodexState, frames : Seq(Carried(CodexFrame)), events : Seq(Carried(EventName))]

CodexQueue(b) == b.queued \o b.afterRollback \o b.steering \o b.waiting

CodexGives(b, r, new) ==
    r \in CodexOutput /\ FiledBy(CodexQueue(b), CodexQueue(r.a), Gone(r), new)

\* The types of its frames, lines and events.
LEMMA CodexNames ==
    /\ \A c : Codex!Answers(c) = AnswersOf(c)
    /\ \A q, index, is : Codex!Picked(q, index, is) = PickedOut(q, index, is)
    /\ \A q, i : Codex!ToFront(q, i) = <<q[i]>> \o RemoveAt(q, i)
    /\ \A q, i, j : Codex!Moved(q, i, j) = InsertAt(RemoveAt(q, i), j, q[i])
    /\ \A q, i : Codex!RemoveAt(q, i) = RemoveAt(q, i)
    /\ \A t, ms : Codex!Frame(t, ms) = [t |-> t, ms |-> ms, n |-> 0]
    /\ \A t, n : Codex!Numbered(t, n) = NumberedAs(t, n)
    /\ \A b, f, e : Codex!Output(b, f, e) = [a |-> b, frames |-> f, events |-> e]
    /\ \A b : Codex!Quiet(b) = [a |-> b, frames |-> <<>>, events |-> <<>>]
    /\ \A x, n : Codex!QueueIndex(x, n) \subseteq 1..n
<1>2. \A c : Codex!Answers(c) = AnswersOf(c)
  BY DEF Codex!Answers, Codex!SetToSeq, Codex!IsInjective, Codex!Numbered, Codex!Cardinality,
         AnswersOf, SetToSeq, IsInjective, Cardinality
<1>3. \A q, i : Codex!RemoveAt(q, i) = RemoveAt(q, i) BY DEF Codex!RemoveAt, RemoveAt
<1>4. \A q, i, x : Codex!InsertAt(q, i, x) = InsertAt(q, i, x) BY DEF Codex!InsertAt, InsertAt
<1>5. \A q, index, is : Codex!Picked(q, index, is) = PickedOut(q, index, is)
  BY <1>3 DEF Codex!Picked, PickedOut
<1>6. \A q, i : Codex!ToFront(q, i) = <<q[i]>> \o RemoveAt(q, i) BY <1>3 DEF Codex!ToFront
<1>7. \A q, i, j : Codex!Moved(q, i, j) = InsertAt(RemoveAt(q, i), j, q[i])
  BY <1>3, <1>4 DEF Codex!Moved
<1>9. \A t, ms : Codex!Frame(t, ms) = [t |-> t, ms |-> ms, n |-> 0] BY DEF Codex!Frame
<1>10. \A t, n : Codex!Numbered(t, n) = NumberedAs(t, n) BY DEF Codex!Numbered, NumberedAs
<1>11. \A b, f, e : Codex!Output(b, f, e) = [a |-> b, frames |-> f, events |-> e]
  BY DEF Codex!Output
<1>12. \A b : Codex!Quiet(b) = [a |-> b, frames |-> <<>>, events |-> <<>>]
  BY DEF Codex!Quiet, Codex!Output
<1>13. \A x, n : Codex!QueueIndex(x, n) \subseteq 1..n BY DEF Codex!QueueIndex
<1> QED BY <1>2, <1>3, <1>5, <1>6, <1>7, <1>9, <1>10, <1>11, <1>12, <1>13

\* Four queues, none of which holds what another does.
Apart(p, q, r, s) ==
    /\ Once(p) /\ Once(q) /\ Once(r) /\ Once(s)
    /\ In(p) \cap In(q) = {} /\ In(p) \cap In(r) = {} /\ In(p) \cap In(s) = {}
    /\ In(q) \cap In(r) = {} /\ In(q) \cap In(s) = {} /\ In(r) \cap In(s) = {}

\* The four queues of Codex hold no message in common.
LEMMA CodexQueueParts ==
    ASSUME NEW b \in CodexState
    PROVE  /\ b.queued \in Seq(Msg) /\ b.afterRollback \in Seq(Msg) /\ b.steering \in Seq(Msg)
           /\ b.waiting \in Seq(Msg)
           /\ CodexQueue(b) \in Seq(Msg)
           /\ In(CodexQueue(b)) = In(b.queued) \cup In(b.afterRollback) \cup In(b.steering)
                                    \cup In(b.waiting)
           /\ Once(CodexQueue(b)) <=> Apart(b.queued, b.afterRollback, b.steering, b.waiting)
<1> DEFINE p == b.queued
           q == b.afterRollback
           r == b.steering
           s == b.waiting
           pq == p \o q
           pqr == pq \o r
<1>1. p \in Seq(Msg) /\ q \in Seq(Msg) /\ r \in Seq(Msg) /\ s \in Seq(Msg) BY DEF CodexState
<1>2. CodexQueue(b) = pqr \o s BY DEF CodexQueue
<1> HIDE DEF p, q, r, s
<1>3. /\ pq \in Seq(Msg) /\ In(pq) = In(p) \cup In(q)
      /\ Once(p) /\ Once(q) /\ In(p) \cap In(q) = {} => Once(pq)
      /\ Once(pq) => Once(p) /\ Once(q) /\ In(p) \cap In(q) = {}
  BY <1>1, ConcatOnce, OnceParts
<1> HIDE DEF pq
<1>4. /\ pqr \in Seq(Msg) /\ In(pqr) = In(pq) \cup In(r)
      /\ Once(pq) /\ Once(r) /\ In(pq) \cap In(r) = {} => Once(pqr)
      /\ Once(pqr) => Once(pq) /\ Once(r) /\ In(pq) \cap In(r) = {}
  BY <1>1, <1>3, ConcatOnce, OnceParts
<1> HIDE DEF pqr
<1>5. /\ pqr \o s \in Seq(Msg) /\ In(pqr \o s) = In(pqr) \cup In(s)
      /\ Once(pqr) /\ Once(s) /\ In(pqr) \cap In(s) = {} => Once(pqr \o s)
      /\ Once(pqr \o s) => Once(pqr) /\ Once(s) /\ In(pqr) \cap In(s) = {}
  BY <1>1, <1>4, ConcatOnce, OnceParts
<1>6. In(CodexQueue(b)) = In(p) \cup In(q) \cup In(r) \cup In(s) BY <1>2, <1>3, <1>4, <1>5
<1>7. Once(CodexQueue(b)) <=> Apart(p, q, r, s) BY <1>2, <1>3, <1>4, <1>5 DEF Apart
<1> QED BY <1>1, <1>2, <1>5, <1>6, <1>7 DEF p, q, r, s

\* What a handler's output has to show.
LEMMA CodexShow ==
    ASSUME NEW b \in CodexState, NEW c \in CodexState, NEW new,
           NEW f \in Seq(Carried(CodexFrame)), NEW e \in Seq(Carried(EventName)),
           NEW gone, MsgsOf(f, Settling) \cup MsgsOf(e, Settling) = gone,
           LET w0 == In(b.queued) \cup In(b.afterRollback) \cup In(b.steering) \cup In(b.waiting)
               w1 == In(c.queued) \cup In(c.afterRollback) \cup In(c.steering) \cup In(c.waiting)
           IN  Apart(b.queued, b.afterRollback, b.steering, b.waiting) /\ w0 \cap new = {} =>
                  /\ Apart(c.queued, c.afterRollback, c.steering, c.waiting)
                  /\ w1 \cap gone = {} /\ w0 \cup new = w1 \cup gone
    PROVE  CodexGives(b, [a |-> c, frames |-> f, events |-> e], new)
<1>1. Gone([a |-> c, frames |-> f, events |-> e]) = gone BY DEF Gone
<1>2. FiledBy(CodexQueue(b), CodexQueue(c), gone, new) BY CodexQueueParts DEF FiledBy
<1> QED BY <1>1, <1>2 DEF CodexGives, CodexOutput

\* An op or a line that moves no message.
LEMMA CodexStill ==
    ASSUME NEW b \in CodexState, NEW c \in CodexState, NEW f \in Seq(Carried(CodexFrame)),
           NEW e \in Seq(Carried(EventName)),
           MsgsOf(f, Settling) = {}, MsgsOf(e, Settling) = {},
           c.queued = b.queued, c.afterRollback = b.afterRollback, c.steering = b.steering,
           c.waiting = b.waiting
    PROVE  CodexGives(b, [a |-> c, frames |-> f, events |-> e], {})
BY CodexShow

LEMMA CodexNothing ==
    /\ <<>> \in Seq(Carried(CodexFrame)) /\ <<>> \in Seq(Carried(EventName))
    /\ MsgsOf(<<>>, Settling) = {}
BY MsgsEmpty

\* One frame or event that carries no message, or the messages of a queue.
LEMMA CarriedNone ==
    ASSUME NEW T, NEW x \in T, NEW n \in 0..MaxAsks
    PROVE  /\ <<Nameless(x)>> \in Seq(Carried(T)) /\ MsgsOf(<<Nameless(x)>>, Settling) = {}
           /\ <<NumberedAs(x, n)>> \in Seq(Carried(T))
           /\ MsgsOf(<<NumberedAs(x, n)>>, Settling) = {}
<1>1. 0 \in 0..MaxAsks /\ <<>> \in Seq(Msg) BY EngineAssumption
<1>2. Nameless(x) \in Carried(T) /\ NumberedAs(x, n) \in Carried(T)
  BY <1>1 DEF Nameless, NumberedAs, Carried
<1>3. ToSet(Nameless(x).ms) = {} /\ ToSet(NumberedAs(x, n).ms) = {}
  BY EmptyOnce DEF Nameless, NumberedAs
<1> QED BY <1>2, <1>3, MsgsOne

\* The messages of a queue are carried by a frame.
LEMMA CarriedQueue ==
    ASSUME NEW T, NEW x \in T, NEW q \in Seq(Msg)
    PROVE  /\ <<[t |-> x, ms |-> q, n |-> 0]>> \in Seq(Carried(T))
           /\ MsgsOf(<<[t |-> x, ms |-> q, n |-> 0]>>, Settling) = IF x \in Settling THEN In(q) ELSE {}
           /\ [t |-> x, ms |-> q, n |-> 0] \in Carried(T)
<1>1. 0 \in 0..MaxAsks BY EngineAssumption
<1>2. [t |-> x, ms |-> q, n |-> 0] \in Carried(T) BY <1>1 DEF Carried
<1>3. ToSet(q) = In(q) BY ToSetIn
<1> QED BY <1>2, <1>3, MsgsOne

\* A turn is started with the first that waits, or a thread with nothing.
LEMMA CodexStart ==
    ASSUME NEW b \in CodexState, NEW f \in Seq(Carried(CodexFrame)), NEW q \in Seq(Msg), NEW e
    PROVE  LET g == Append(f, [t |-> "turn/start", ms |-> q, n |-> 0])
               c == [b EXCEPT !.busy = TRUE]
           IN  /\ Codex!TurnStart(b, f, e, q) = [a |-> c, frames |-> g, events |-> e]
               /\ c \in CodexState
               /\ g \in Seq(Carried(CodexFrame))
               /\ MsgsOf(g, Settling) = MsgsOf(f, Settling) \cup In(q)
<1> DEFINE x == [t |-> "turn/start", ms |-> q, n |-> 0]
           u == <<x>>
           g == Append(f, x)
           c == [b EXCEPT !.busy = TRUE]
<1>1. Codex!TurnStart(b, f, e, q) = [a |-> c, frames |-> g, events |-> e]
  BY CodexNames DEF Codex!TurnStart
<1>2. c \in CodexState BY DEF CodexState
<1>3. u \in Seq(Carried(CodexFrame)) /\ MsgsOf(u, Settling) = In(q) /\ x \in Carried(CodexFrame)
  <2>1. "turn/start" \in CodexFrame /\ "turn/start" \in Settling
    BY DEF CodexFrame, Settling, Handed
  <2> QED BY <2>1, CarriedQueue
<1> HIDE DEF x
<1>4. g = f \o u BY <1>3
<1> HIDE DEF u
<1>5. f \o u \in Seq(Carried(CodexFrame))
      /\ MsgsOf(f \o u, Settling) = MsgsOf(f, Settling) \cup MsgsOf(u, Settling)
  BY <1>3, MsgsConcat
<1> HIDE DEF g, c
<1>6. g \in Seq(Carried(CodexFrame)) /\ MsgsOf(g, Settling) = MsgsOf(f, Settling) \cup In(q)
  BY <1>3, <1>4, <1>5
<1> QED BY <1>1, <1>2, <1>6 DEF x, g, c

LEMMA CodexNext ==
    ASSUME NEW b, NEW r, NEW new, CodexGives(b, r, new)
    PROVE  CodexGives(b, Codex!NextWaiting(r), new)
<1> DEFINE c == r.a
           h == Head(c.waiting)
           t == Tail(c.waiting)
           d == [c EXCEPT !.waiting = t]
           q == <<h>>
           y == [d EXCEPT !.busy = TRUE]
           g == Append(r.frames, [t |-> "turn/start", ms |-> q, n |-> 0])
           z == Codex!NextWaiting(r)
<1>1. c \in CodexState /\ r.frames \in Seq(Carried(CodexFrame)) /\ r.events \in Seq(Carried(EventName))
      /\ FiledBy(CodexQueue(b), CodexQueue(c), Gone(r), new)
  BY DEF CodexGives, CodexOutput
<1>2. CASE ~(~c.busy /\ c.thread /\ ~c.rolling /\ c.waiting # <<>>)
  <2>1. Codex!NextWaiting(r) = r BY <1>2 DEF Codex!NextWaiting
  <2> QED BY <2>1
<1>3. CASE ~c.busy /\ c.thread /\ ~c.rolling /\ c.waiting # <<>>
  <2>1. z = Codex!TurnStart(d, r.frames, r.events, q) BY <1>3 DEF Codex!NextWaiting
  <2>2. c.waiting \in Seq(Msg) BY <1>1, CodexQueueParts
  <2>3. h \in Msg /\ t \in Seq(Msg) /\ In(c.waiting) = In(t) \cup {h}
        /\ (Once(c.waiting) => Once(t) /\ h \notin In(t))
    BY <1>3, <2>2, TailOnce
  <2> HIDE DEF h, t, z
  <2>4. q \in Seq(Msg) /\ In(q) = {h} BY <2>3, OneOnce
  <2>5. d \in CodexState /\ d.waiting = t /\ d.queued = c.queued /\ d.steering = c.steering
        /\ d.afterRollback = c.afterRollback
    BY <1>1, <2>3 DEF CodexState
  <2>b. y.waiting = d.waiting /\ y.queued = d.queued /\ y.steering = d.steering
        /\ y.afterRollback = d.afterRollback
    BY <2>5 DEF CodexState
  <2> HIDE DEF d, q
  <2>6. /\ z = [a |-> y, frames |-> g, events |-> r.events]
        /\ y \in CodexState
        /\ g \in Seq(Carried(CodexFrame))
        /\ MsgsOf(g, Settling) = MsgsOf(r.frames, Settling) \cup In(q)
    <3> DEFINE rf == r.frames
               re == r.events
    <3>1. rf \in Seq(Carried(CodexFrame)) BY <1>1
    <3> HIDE DEF rf, re
    <3>2. LET gg == Append(rf, [t |-> "turn/start", ms |-> q, n |-> 0])
              yy == [d EXCEPT !.busy = TRUE]
          IN  /\ Codex!TurnStart(d, rf, re, q) = [a |-> yy, frames |-> gg, events |-> re]
              /\ yy \in CodexState
              /\ gg \in Seq(Carried(CodexFrame))
              /\ MsgsOf(gg, Settling) = MsgsOf(rf, Settling) \cup In(q)
      BY <2>4, <2>5, <3>1, CodexStart
    <3> QED BY <2>1, <3>2 DEF rf, re
  <2> HIDE DEF y, g
  <2>a. y.waiting = t /\ y.queued = c.queued /\ y.steering = c.steering
        /\ y.afterRollback = c.afterRollback
    BY <2>5, <2>b
  <2> HIDE DEF c
  <2>7. z \in CodexOutput BY <1>1, <2>6 DEF CodexOutput
  <2>8. Gone(z) = Gone(r) \cup {h} BY <2>4, <2>6 DEF Gone
  <2>9. /\ In(CodexQueue(c)) = In(CodexQueue(y)) \cup {h}
        /\ Once(CodexQueue(c)) => Once(CodexQueue(y)) /\ h \notin In(CodexQueue(y))
    <3>1. /\ In(CodexQueue(c)) = In(c.queued) \cup In(c.afterRollback) \cup In(c.steering)
                                    \cup In(c.waiting)
          /\ Once(CodexQueue(c)) <=> Apart(c.queued, c.afterRollback, c.steering, c.waiting)
      BY <1>1, CodexQueueParts
    <3>2. /\ In(CodexQueue(y)) = In(c.queued) \cup In(c.afterRollback) \cup In(c.steering)
                                    \cup In(t)
          /\ Once(CodexQueue(y)) <=> Apart(c.queued, c.afterRollback, c.steering, t)
      BY <2>6, <2>a, CodexQueueParts
    <3> QED BY <2>3, <3>1, <3>2 DEF Apart
  <2>10. FiledBy(CodexQueue(b), CodexQueue(y), Gone(z), new)
    BY <1>1, <2>8, <2>9 DEF FiledBy
  <2>11. z.a = y BY <2>6
  <2>12. CodexGives(b, z, new) BY <2>7, <2>10, <2>11 DEF CodexGives
  <2> QED BY <2>12 DEF z
<1> QED BY <1>2, <1>3

\* A turn starts from adapter `b` with the messages `q`.
LEMMA CodexStarts ==
    ASSUME NEW b \in CodexState, NEW c \in CodexState, NEW q \in Seq(Msg), NEW new,
           NEW e \in Seq(Carried(EventName)), MsgsOf(e, Settling) = {},
           LET w0 == In(b.queued) \cup In(b.afterRollback) \cup In(b.steering) \cup In(b.waiting)
               w1 == In(c.queued) \cup In(c.afterRollback) \cup In(c.steering) \cup In(c.waiting)
           IN  Apart(b.queued, b.afterRollback, b.steering, b.waiting) /\ w0 \cap new = {} =>
                  /\ Apart(c.queued, c.afterRollback, c.steering, c.waiting)
                  /\ w1 \cap In(q) = {} /\ w0 \cup new = w1 \cup In(q)
    PROVE  CodexGives(b, Codex!TurnStart(c, <<>>, e, q), new)
<1> DEFINE g == Append(<<>>, [t |-> "turn/start", ms |-> q, n |-> 0])
           d == [c EXCEPT !.busy = TRUE]
<1>1. <<>> \in Seq(Carried(CodexFrame)) /\ MsgsOf(<<>>, Settling) = {} BY MsgsEmpty
<1>2. /\ Codex!TurnStart(c, <<>>, e, q) = [a |-> d, frames |-> g, events |-> e]
      /\ d \in CodexState
      /\ g \in Seq(Carried(CodexFrame))
      /\ MsgsOf(g, Settling) = MsgsOf(<<>>, Settling) \cup In(q)
  <2> DEFINE f == <<>>
  <2>1. f \in Seq(Carried(CodexFrame)) BY <1>1
  <2> HIDE DEF f
  <2>2. LET gg == Append(f, [t |-> "turn/start", ms |-> q, n |-> 0])
            dd == [c EXCEPT !.busy = TRUE]
        IN  /\ Codex!TurnStart(c, f, e, q) = [a |-> dd, frames |-> gg, events |-> e]
            /\ dd \in CodexState
            /\ gg \in Seq(Carried(CodexFrame))
            /\ MsgsOf(gg, Settling) = MsgsOf(f, Settling) \cup In(q)
    BY <2>1, CodexStart
  <2> QED BY <2>2 DEF f
<1>3. d.queued = c.queued /\ d.afterRollback = c.afterRollback /\ d.steering = c.steering
      /\ d.waiting = c.waiting
  BY DEF CodexState
<1> HIDE DEF g, d
<1>4. MsgsOf(g, Settling) \cup MsgsOf(e, Settling) = In(q) BY <1>1, <1>2
<1> DEFINE w0 == In(b.queued) \cup In(b.afterRollback) \cup In(b.steering) \cup In(b.waiting)
           w1 == In(d.queued) \cup In(d.afterRollback) \cup In(d.steering) \cup In(d.waiting)
<1>5. Apart(b.queued, b.afterRollback, b.steering, b.waiting) /\ w0 \cap new = {} =>
         /\ Apart(d.queued, d.afterRollback, d.steering, d.waiting)
         /\ w1 \cap In(q) = {} /\ w0 \cup new = w1 \cup In(q)
  BY <1>3
<1>6. CodexGives(b, [a |-> d, frames |-> g, events |-> e], new)
  BY <1>2, <1>4, <1>5, CodexShow
<1> QED BY <1>2, <1>6

\* Two queues alone change.
LEMMA CodexUserGives ==
    ASSUME NEW b \in CodexState, NEW m \in Msg
    PROVE  CodexGives(b, Codex!UserMessage(b, m), {m})
<1> DEFINE r == Codex!UserMessage(b, m)
<1>0. b.queued \in Seq(Msg) /\ b.afterRollback \in Seq(Msg) /\ b.steering \in Seq(Msg)
      /\ b.waiting \in Seq(Msg)
  BY CodexQueueParts
<1>1. ASSUME NEW q \in Seq(Msg)
      PROVE  /\ Append(q, m) \in Seq(Msg) /\ In(Append(q, m)) = In(q) \cup {m}
             /\ Once(q) /\ m \notin In(q) => Once(Append(q, m))
  BY AppendOnce
<1>2. /\ <<>> \in Seq(Carried(CodexFrame)) /\ <<>> \in Seq(Carried(EventName))
      /\ MsgsOf(<<>>, Settling) \cup MsgsOf(<<>>, Settling) = {}
  BY CodexNothing
<1>3. CASE ~b.thread
  <2> DEFINE q == Append(b.queued, m)
             c == [b EXCEPT !.queued = q]
  <2>1. r = [a |-> c, frames |-> <<>>, events |-> <<>>]
    BY <1>3, CodexNames DEF Codex!UserMessage
  <2>2. q \in Seq(Msg) /\ In(q) = In(b.queued) \cup {m}
        /\ (Once(b.queued) /\ m \notin In(b.queued) => Once(q))
    BY <1>0, <1>1
  <2> HIDE DEF q
  <2>3. c \in CodexState /\ c.queued = q /\ c.afterRollback = b.afterRollback
        /\ c.steering = b.steering /\ c.waiting = b.waiting
    BY <2>2 DEF CodexState
  <2> HIDE DEF c, r
  <2>4. CodexGives(b, [a |-> c, frames |-> <<>>, events |-> <<>>], {m})
    BY <1>2, <2>2, <2>3, CodexShow DEF Apart
  <2> QED BY <2>1, <2>4 DEF r
<1>4. CASE b.thread /\ b.rolling
  <2> DEFINE q == Append(b.afterRollback, m)
             c == [b EXCEPT !.afterRollback = q]
  <2>1. r = [a |-> c, frames |-> <<>>, events |-> <<>>]
    BY <1>4, CodexNames DEF Codex!UserMessage
  <2>2. q \in Seq(Msg) /\ In(q) = In(b.afterRollback) \cup {m}
        /\ (Once(b.afterRollback) /\ m \notin In(b.afterRollback) => Once(q))
    BY <1>0, <1>1
  <2> HIDE DEF q
  <2>3. c \in CodexState /\ c.queued = b.queued /\ c.afterRollback = q
        /\ c.steering = b.steering /\ c.waiting = b.waiting
    BY <2>2 DEF CodexState
  <2> HIDE DEF c, r
  <2>4. CodexGives(b, [a |-> c, frames |-> <<>>, events |-> <<>>], {m})
    BY <1>2, <2>2, <2>3, CodexShow DEF Apart
  <2> QED BY <2>1, <2>4 DEF r
<1>5. CASE b.thread /\ ~b.rolling /\ b.busy
  <2> DEFINE q == Append(b.waiting, m)
             c == [b EXCEPT !.waiting = q]
  <2>1. r = [a |-> c, frames |-> <<>>, events |-> <<>>]
    BY <1>5, CodexNames DEF Codex!UserMessage
  <2>2. q \in Seq(Msg) /\ In(q) = In(b.waiting) \cup {m}
        /\ (Once(b.waiting) /\ m \notin In(b.waiting) => Once(q))
    BY <1>0, <1>1
  <2> HIDE DEF q
  <2>3. c \in CodexState /\ c.queued = b.queued /\ c.afterRollback = b.afterRollback
        /\ c.steering = b.steering /\ c.waiting = q
    BY <2>2 DEF CodexState
  <2> HIDE DEF c, r
  <2>4. CodexGives(b, [a |-> c, frames |-> <<>>, events |-> <<>>], {m})
    BY <1>2, <2>2, <2>3, CodexShow DEF Apart
  <2> QED BY <2>1, <2>4 DEF r
<1>6. CASE b.thread /\ ~b.rolling /\ ~b.busy
  <2> DEFINE q == <<m>>
  <2>1. r = Codex!TurnStart(b, <<>>, <<>>, q) BY <1>6 DEF Codex!UserMessage
  <2>2. q \in Seq(Msg) /\ In(q) = {m} BY OneOnce
  <2> HIDE DEF q, r
  <2>3. CodexGives(b, Codex!TurnStart(b, <<>>, <<>>, q), {m})
    BY <1>2, <2>2, CodexStarts
  <2> QED BY <2>1, <2>3 DEF r
<1> QED BY <1>0, <1>3, <1>4, <1>5, <1>6 DEF CodexState

\* Each op files the messages it is about.
LEMMA CodexApproveGives ==
    ASSUME NEW b \in CodexState, NEW calls \in SUBSET (1..MaxAsks)
    PROVE  CodexGives(b, Codex!Approve(b, calls), {})
<1> DEFINE known == calls \cap b.approvals
           c == [b EXCEPT !.approvals = @ \ known]
<1>1. Codex!Approve(b, calls) = [a |-> c, frames |-> AnswersOf(known), events |-> <<>>]
  BY CodexNames DEF Codex!Approve
<1>2. c \in CodexState /\ c.queued = b.queued /\ c.afterRollback = b.afterRollback
        /\ c.steering = b.steering /\ c.waiting = b.waiting
  BY DEF CodexState
<1>3. AnswersOf(known) \in Seq(Carried(CodexFrame)) /\ MsgsOf(AnswersOf(known), Settling) = {}
  <2>1. known \in SUBSET (1..MaxAsks) /\ "answer" \in CodexFrame BY DEF CodexFrame
  <2> QED BY <2>1, AnswerFrames
<1> HIDE DEF c, known
<1> QED BY <1>1, <1>2, <1>3, CodexNothing, CodexStill

LEMMA CodexWaitingGives ==
    ASSUME NEW b \in CodexState, NEW q \in Seq(Msg), In(q) = In(b.waiting), Once(b.waiting) => Once(q),
           NEW f \in Seq(Carried(CodexFrame)), MsgsOf(f, Settling) = {}
    PROVE  CodexGives(b, [a |-> [b EXCEPT !.waiting = q], frames |-> f, events |-> <<>>], {})
<1> DEFINE c == [b EXCEPT !.waiting = q]
<1>1. c \in CodexState /\ c.queued = b.queued /\ c.afterRollback = b.afterRollback
        /\ c.steering = b.steering /\ c.waiting = q
  BY DEF CodexState
<1> HIDE DEF c
<1>2. MsgsOf(f, Settling) \cup MsgsOf(<<>>, Settling) = {} BY CodexNothing
<1>3. CodexGives(b, [a |-> c, frames |-> f, events |-> <<>>], {})
  BY <1>1, <1>2, CodexNothing, CodexShow DEF Apart
<1> QED BY <1>3 DEF c

LEMMA CodexQuietGives ==
    ASSUME NEW b \in CodexState, NEW c \in CodexState,
           c.queued = b.queued, c.afterRollback = b.afterRollback, c.steering = b.steering,
           c.waiting = b.waiting
    PROVE  CodexGives(b, [a |-> c, frames |-> <<>>, events |-> <<>>], {})
BY CodexNothing, CodexStill

LEMMA CodexInterruptGives ==
    ASSUME NEW b \in CodexState, NEW index
    PROVE  CodexGives(b, Codex!Interrupt(b, index), {})
<1> DEFINE is == IF index = <<>> THEN {} ELSE Codex!QueueIndex(index, Len(b.waiting))
           q == IF is = {} THEN b.waiting ELSE Codex!ToFront(b.waiting, CHOOSE i \in is : TRUE)
           f == <<Nameless("turn/interrupt")>>
<1>0. b.waiting \in Seq(Msg) BY DEF CodexState
<1>1. q \in Seq(Msg) /\ In(q) = In(b.waiting) /\ (Once(b.waiting) => Once(q))
  <2>1. CASE is = {} BY <1>0, <2>1
  <2>2. CASE is # {}
    <3> DEFINE i == CHOOSE i \in is : TRUE
    <3>0. is \subseteq 1..Len(b.waiting) BY CodexNames
    <3>1. i \in 1..Len(b.waiting) BY <2>2, <3>0
    <3>2. q = <<b.waiting[i]>> \o RemoveAt(b.waiting, i) BY <2>2, CodexNames
    <3> HIDE DEF q, i
    <3> QED BY <1>0, <3>1, <3>2, FrontOnce
  <2> QED BY <2>1, <2>2
<1>2. f \in Seq(Carried(CodexFrame)) /\ MsgsOf(f, Settling) = {}
  <2>1. "turn/interrupt" \in CodexFrame /\ 0 \in 0..MaxAsks BY EngineAssumption DEF CodexFrame
  <2> QED BY <2>1, CarriedNone
<1>3. Codex!Interrupt(b, index)
        = IF b.thread /\ b.turn THEN [a |-> [b EXCEPT !.waiting = q], frames |-> f, events |-> <<>>]
          ELSE [a |-> b, frames |-> <<>>, events |-> <<>>]
  BY CodexNames DEF Codex!Interrupt, Nameless
<1> HIDE DEF q, f
<1>4. CodexGives(b, [a |-> b, frames |-> <<>>, events |-> <<>>], {}) BY CodexQuietGives
<1>5. CodexGives(b, [a |-> [b EXCEPT !.waiting = q], frames |-> f, events |-> <<>>], {})
  BY <1>1, <1>2, CodexWaitingGives
<1> QED BY <1>3, <1>4, <1>5

LEMMA CodexSteerGives ==
    ASSUME NEW b \in CodexState, NEW index
    PROVE  CodexGives(b, Codex!Steer(b, index), {})
<1> DEFINE is == Codex!QueueIndex(index, Len(b.waiting))
           p == PickedOut(b.waiting, index, is)
           c == [b EXCEPT !.steering = p.out, !.waiting = p.left,
                          !.steers = @ + IF p.out = <<>> THEN 0 ELSE 1]
           f == IF p.out = <<>> THEN <<>> ELSE <<[t |-> "turn/steer", ms |-> p.out, n |-> 0]>>
           e == IF b.steering = <<>> THEN <<>> ELSE <<[t |-> "dropped", ms |-> b.steering, n |-> 0]>>
<1>0. b.waiting \in Seq(Msg) /\ b.steering \in Seq(Msg) BY DEF CodexState
<1>1. is \in SUBSET (1..Len(b.waiting)) BY CodexNames
<1>2. /\ p.out \in Seq(Msg) /\ p.left \in Seq(Msg)
      /\ In(b.waiting) = In(p.out) \cup In(p.left)
      /\ (Once(b.waiting) => Once(p.out) /\ Once(p.left) /\ In(p.out) \cap In(p.left) = {})
  <2> HIDE DEF is
  <2> QED BY <1>0, <1>1, PickedOnce
<1>3. Codex!Steer(b, index) = IF ~b.thread \/ ~b.turn
                              THEN [a |-> b, frames |-> <<>>, events |-> <<>>]
                              ELSE [a |-> c, frames |-> f, events |-> e]
  <2>1. Codex!Picked(b.waiting, index, is) = p BY CodexNames
  <2> HIDE DEF p, is
  <2> QED BY <2>1, CodexNames DEF Codex!Steer, is
<1> HIDE DEF p
<1>s. b.steers + (IF p.out = <<>> THEN 0 ELSE 1) \in Int
  <2>1. b.steers \in Int BY DEF CodexState
  <2> QED BY <2>1
<1>4. c \in CodexState /\ c.queued = b.queued /\ c.afterRollback = b.afterRollback
        /\ c.steering = p.out /\ c.waiting = p.left
  BY <1>2, <1>s DEF CodexState
<1>5. f \in Seq(Carried(CodexFrame)) /\ MsgsOf(f, Settling) = {}
  <2>1. "turn/steer" \in CodexFrame /\ "turn/steer" \notin Settling
    BY DEF CodexFrame, Settling, Handed
  <2>2. LET u == <<[t |-> "turn/steer", ms |-> p.out, n |-> 0]>>
        IN  u \in Seq(Carried(CodexFrame)) /\ MsgsOf(u, Settling) = {}
    BY <1>2, <2>1, CarriedQueue
  <2> QED BY <2>2, CodexNothing
<1>6. e \in Seq(Carried(EventName)) /\ MsgsOf(e, Settling) = In(b.steering)
  <2>1. "dropped" \in EventName /\ "dropped" \in Settling BY DEF EventName, Settling
  <2>2. LET u == <<[t |-> "dropped", ms |-> b.steering, n |-> 0]>>
        IN  u \in Seq(Carried(EventName)) /\ MsgsOf(u, Settling) = In(b.steering)
    BY <1>0, <2>1, CarriedQueue
  <2>3. b.steering = <<>> => In(b.steering) = {} BY EmptyOnce
  <2> QED BY <2>2, <2>3, CodexNothing
<1> HIDE DEF c, f, e
<1>7. MsgsOf(f, Settling) \cup MsgsOf(e, Settling) = In(b.steering) BY <1>5, <1>6
<1>8. CodexGives(b, [a |-> c, frames |-> f, events |-> e], {})
  BY <1>2, <1>4, <1>5, <1>6, <1>7, CodexShow DEF Apart
<1>9. CodexGives(b, [a |-> b, frames |-> <<>>, events |-> <<>>], {}) BY CodexQuietGives
<1> QED BY <1>3, <1>8, <1>9

LEMMA CodexUnqueueGives ==
    ASSUME NEW b \in CodexState, NEW index
    PROVE  CodexGives(b, Codex!Unqueued(b, "waiting", index), {})
<1> DEFINE is == Codex!QueueIndex(index, Len(b.waiting))
           i == CHOOSE i \in is : TRUE
           r == Codex!Unqueued(b, "waiting", index)
           x == b.waiting[i]
           q == RemoveAt(b.waiting, i)
           c == [b EXCEPT !.waiting = q]
           e == <<About("unqueued", x)>>
<1>0. b.waiting \in Seq(Msg) BY DEF CodexState
<1>1. CASE is = {}
  <2>1. r = [a |-> b, frames |-> <<>>, events |-> <<>>] BY <1>1, CodexNames DEF Codex!Unqueued
  <2> QED BY <2>1, CodexQuietGives
<1>2. CASE is # {}
  <2>0. is \subseteq 1..Len(b.waiting) BY CodexNames
  <2>1. i \in 1..Len(b.waiting) BY <1>2, <2>0
  <2>2. r = [a |-> c, frames |-> <<>>, events |-> e]
    BY <1>2, CodexNames DEF Codex!Unqueued, About
  <2> HIDE DEF i, is
  <2>3. q \in Seq(Msg) /\ x \in Msg /\ In(b.waiting) = In(q) \cup {x}
        /\ (Once(b.waiting) => Once(q) /\ x \notin In(q))
    BY <1>0, <2>1, RemoveOnce
  <2> HIDE DEF q, x
  <2>4. c \in CodexState /\ c.queued = b.queued /\ c.afterRollback = b.afterRollback
        /\ c.steering = b.steering /\ c.waiting = q
    BY <2>3 DEF CodexState
  <2>5. e \in Seq(Carried(EventName)) /\ MsgsOf(e, Settling) = {x}
    <3>1. "unqueued" \in EventName /\ "unqueued" \in Settling /\ 0 \in 0..MaxAsks
          /\ <<>> \in Seq(Msg)
      BY EngineAssumption DEF EventName, Settling
    <3> QED BY <2>3, <3>1, CarriedOne, SettledOne
  <2> HIDE DEF c, e, r
  <2>6. MsgsOf(<<>>, Settling) \cup MsgsOf(e, Settling) = {x} BY <2>5, CodexNothing
  <2>7. CodexGives(b, [a |-> c, frames |-> <<>>, events |-> e], {})
    <3> DEFINE w0 == In(b.queued) \cup In(b.afterRollback) \cup In(b.steering) \cup In(b.waiting)
               w1 == In(c.queued) \cup In(c.afterRollback) \cup In(c.steering) \cup In(c.waiting)
    <3>1. Apart(b.queued, b.afterRollback, b.steering, b.waiting) /\ w0 \cap {} = {} =>
             /\ Apart(c.queued, c.afterRollback, c.steering, c.waiting)
             /\ w1 \cap {x} = {} /\ w0 \cup {} = w1 \cup {x}
      BY <2>3, <2>4 DEF Apart
    <3> QED BY <2>4, <2>5, <2>6, <3>1, CodexNothing, CodexShow
  <2> QED BY <2>2, <2>7 DEF r
<1> QED BY <1>1, <1>2

LEMMA CodexMoveGives ==
    ASSUME NEW b \in CodexState, NEW index, NEW to
    PROVE  CodexGives(b, Codex!QueueMoved(b, "waiting", index, to), {})
<1> DEFINE moves == Codex!QueueMoveTarget(index, to, Len(b.waiting))
           m == CHOOSE m \in moves : TRUE
           q == InsertAt(RemoveAt(b.waiting, m[1]), m[2], b.waiting[m[1]])
           r == Codex!QueueMoved(b, "waiting", index, to)
<1>0. b.waiting \in Seq(Msg) BY DEF CodexState
<1>1. CASE moves = {}
  <2>1. r = [a |-> b, frames |-> <<>>, events |-> <<>>] BY <1>1, CodexNames DEF Codex!QueueMoved
  <2> QED BY <2>1, CodexQuietGives
<1>2. CASE moves # {}
  <2>1. m \in moves BY <1>2
  <2>2. r = [a |-> [b EXCEPT !.waiting = q], frames |-> <<>>, events |-> <<>>]
    BY <1>2, CodexNames DEF Codex!QueueMoved
  <2>3. m[1] \in 1..Len(b.waiting) /\ m[2] \in 1..Len(b.waiting)
    <3>1. m \in Codex!QueueIndex(index, Len(b.waiting)) \X Codex!QueueIndex(to, Len(b.waiting))
      <4> HIDE DEF m
      <4> QED BY <2>1 DEF Codex!QueueMoveTarget
    <3> HIDE DEF m, moves
    <3> QED BY <3>1, CodexNames
  <2> HIDE DEF m, moves
  <2>5. q \in Seq(Msg) /\ In(q) = In(b.waiting) /\ (Once(b.waiting) => Once(q))
    BY <1>0, <2>3, MoveOnce
  <2> HIDE DEF q, r
  <2>7. CodexGives(b, [a |-> [b EXCEPT !.waiting = q], frames |-> <<>>, events |-> <<>>], {})
    BY <2>5, CodexNothing, CodexWaitingGives
  <2> QED BY <2>2, <2>7 DEF r
<1> QED BY <1>1, <1>2

LEMMA CodexRewindGives ==
    ASSUME NEW b \in CodexState
    PROVE  CodexGives(b, Codex!Rewind(b), {})
<1> DEFINE c == [b EXCEPT !.userTurns = @ - 1, !.rolling = TRUE]
           f == <<Nameless("thread/revert")>>
<1>1. Codex!Rewind(b) = IF b.thread /\ b.userTurns > 0
                        THEN [a |-> c, frames |-> f, events |-> <<>>]
                        ELSE [a |-> b, frames |-> <<>>, events |-> <<>>]
  BY CodexNames DEF Codex!Rewind, Nameless
<1>2. b.userTurns \in Nat BY DEF CodexState
<1>3. b.userTurns > 0 => b.userTurns - 1 \in Nat BY <1>2
<1>4. b.userTurns > 0 =>
        c \in CodexState /\ c.queued = b.queued /\ c.afterRollback = b.afterRollback
        /\ c.steering = b.steering /\ c.waiting = b.waiting
  BY <1>3 DEF CodexState
<1>5. f \in Seq(Carried(CodexFrame)) /\ MsgsOf(f, Settling) = {}
  <2>1. "thread/revert" \in CodexFrame /\ 0 \in 0..MaxAsks BY EngineAssumption DEF CodexFrame
  <2> QED BY <2>1, CarriedNone
<1> HIDE DEF c, f
<1>6. b.userTurns > 0 => CodexGives(b, [a |-> c, frames |-> f, events |-> <<>>], {})
  BY <1>4, <1>5, CodexNothing, CodexStill
<1>7. CodexGives(b, [a |-> b, frames |-> <<>>, events |-> <<>>], {}) BY CodexQuietGives
<1> QED BY <1>1, <1>6, <1>7

\* Every op of Codex does.
LEMMA CodexEncodeGives ==
    ASSUME NEW b \in CodexState, NEW op \in AnyOp
    PROVE  CodexGives(b, Codex!Encode(b, op), NewIn(op))
<1> DEFINE r == Codex!Encode(b, op)
<1>1. CASE op.op = "user_message"
  <2>1. op.m \in Msg BY <1>1 DEF AnyOp
  <2>2. r = Codex!UserMessage(b, op.m) BY <1>1 DEF Codex!Encode
  <2>3. NewIn(op) = {op.m} BY <1>1 DEF NewIn
  <2> QED BY <2>1, <2>2, <2>3, CodexUserGives
<1>2. CASE op.op # "user_message"
  <2>0. NewIn(op) = {} BY <1>2 DEF NewIn
  <2>1. CASE op.op = "approve"
    <3>1. op.calls \in SUBSET (1..MaxAsks) BY <2>1 DEF AnyOp
    <3>2. r = Codex!Approve(b, op.calls) BY <2>1 DEF Codex!Encode
    <3> QED BY <2>0, <3>1, <3>2, CodexApproveGives
  <2>2. CASE op.op = "interrupt"
    <3>1. r = Codex!Interrupt(b, op.index) BY <2>2 DEF Codex!Encode
    <3> QED BY <2>0, <3>1, CodexInterruptGives
  <2>3. CASE op.op = "steer"
    <3>1. r = Codex!Steer(b, op.index) BY <2>3 DEF Codex!Encode
    <3> QED BY <2>0, <3>1, CodexSteerGives
  <2>4. CASE op.op = "unqueue"
    <3>1. r = Codex!Unqueued(b, "waiting", op.index) BY <2>4 DEF Codex!Encode
    <3> QED BY <2>0, <3>1, CodexUnqueueGives
  <2>5. CASE op.op = "queue_move"
    <3>1. r = Codex!QueueMoved(b, "waiting", op.index, op.to) BY <2>5 DEF Codex!Encode
    <3> QED BY <2>0, <3>1, CodexMoveGives
  <2>6. CASE op.op = "set_approval_mode"
    <3> DEFINE c == [b EXCEPT !.mode = op.mode]
    <3>1. op.mode \in Mode BY <2>6 DEF AnyOp
    <3>2. r = [a |-> c, frames |-> <<>>, events |-> <<>>] BY <2>6, CodexNames DEF Codex!Encode
    <3>3. c \in CodexState /\ c.queued = b.queued /\ c.afterRollback = b.afterRollback
          /\ c.steering = b.steering /\ c.waiting = b.waiting
      BY <3>1 DEF CodexState
    <3> HIDE DEF c
    <3> QED BY <2>0, <3>2, <3>3, CodexQuietGives
  <2>7. CASE op.op = "rewind"
    <3>1. r = Codex!Rewind(b) BY <2>7 DEF Codex!Encode
    <3> QED BY <2>0, <3>1, CodexRewindGives
  <2>8. CASE op.op \notin {"approve", "interrupt", "steer", "unqueue", "queue_move",
                           "set_approval_mode", "rewind"}
    <3>1. r = [a |-> b, frames |-> <<>>, events |-> <<>>]
      BY <1>2, <2>8, CodexNames DEF Codex!Encode
    <3> QED BY <2>0, <3>1, CodexQuietGives
  <2> QED BY <2>1, <2>2, <2>3, <2>4, <2>5, <2>6, <2>7, <2>8
<1> QED BY <1>1, <1>2

CodexLine ==
    {"opened", "no-thread/resume", "no-thread/start", "turn/start", "no-turn/start", "turn/steer",
     "no-turn/steer", "thread/revert", "no-thread/revert", "requestApproval", "turn/started",
     "turn/completed", "resolved"}

\* The events of a turn's end, and of what is refused.
LEMMA CodexEvents ==
    ASSUME NEW q \in Seq(Msg)
    PROVE  /\ <<Nameless("ready")>> \in Seq(Carried(EventName))
           /\ MsgsOf(<<Nameless("ready")>>, Settling) = {}
           /\ \A t \in {"refused", "steered"} :
                 LET u == <<[t |-> t, ms |-> q, n |-> 0]>>
                 IN  u \in Seq(Carried(EventName)) /\ MsgsOf(u, Settling) = In(q)
           /\ LET u == <<[t |-> "refused", ms |-> q, n |-> 0], Nameless("ready")>>
              IN  u \in Seq(Carried(EventName)) /\ MsgsOf(u, Settling) = In(q)
<1>0. "ready" \in EventName /\ "refused" \in EventName /\ "steered" \in EventName
      /\ "refused" \in Settling /\ "steered" \in Settling /\ "ready" \notin Settling
      /\ 0 \in 0..MaxAsks
  BY EngineAssumption DEF EventName, Settling, Handed
<1>1. <<Nameless("ready")>> \in Seq(Carried(EventName)) /\ MsgsOf(<<Nameless("ready")>>, Settling) = {}
  BY <1>0, CarriedNone
<1>2. ASSUME NEW t \in {"refused", "steered"}
      PROVE  LET u == <<[t |-> t, ms |-> q, n |-> 0]>>
             IN  u \in Seq(Carried(EventName)) /\ MsgsOf(u, Settling) = In(q)
  <2>1. t \in EventName /\ t \in Settling BY <1>0
  <2> QED BY <2>1, CarriedQueue
<1>3. LET u == <<[t |-> "refused", ms |-> q, n |-> 0], Nameless("ready")>>
      IN  u \in Seq(Carried(EventName)) /\ MsgsOf(u, Settling) = In(q)
  <2> DEFINE x == [t |-> "refused", ms |-> q, n |-> 0]
             y == Nameless("ready")
  <2>1. x \in Carried(EventName) BY <1>0, CarriedQueue
  <2>2. <<>> \in Seq(Msg) OBVIOUS
  <2>3. y \in Carried(EventName) BY <1>0, <2>2 DEF Nameless, Carried
  <2>4. x.t = "refused" /\ x.ms = q /\ y.t = "ready" BY DEF Nameless
  <2> HIDE DEF x, y
  <2>5. MsgsOf(<<x, y>>, Settling) = (IF x.t \in Settling THEN ToSet(x.ms) ELSE {})
                                   \cup (IF y.t \in Settling THEN ToSet(y.ms) ELSE {})
    BY MsgsTwo
  <2>6. ToSet(q) = In(q) BY ToSetIn
  <2>7. MsgsOf(<<x, y>>, Settling) = In(q) BY <1>0, <2>4, <2>5, <2>6
  <2>8. <<x, y>> \in Seq(Carried(EventName)) BY <2>1, <2>3
  <2> QED BY <2>7, <2>8 DEF x, y
<1> QED BY <1>1, <1>2, <1>3

\* An answer to a request files its messages, ...
LEMMA CodexResponseGives ==
    ASSUME NEW b \in CodexState, NEW line,
           line.t \in {"opened", "no-thread/resume", "no-thread/start", "turn/start",
                       "no-turn/start", "turn/steer", "no-turn/steer", "thread/revert",
                       "no-thread/revert"}
    PROVE  CodexGives(b, Codex!OnResponse(b, line), {})
<1> DEFINE r == Codex!OnResponse(b, line)
           ready == <<Nameless("ready")>>
<1>0. b.queued \in Seq(Msg) /\ b.afterRollback \in Seq(Msg) /\ b.steering \in Seq(Msg)
      /\ b.waiting \in Seq(Msg) /\ <<>> \in Seq(Msg)
  <2>1. <<>> \in Seq(Msg) OBVIOUS
  <2> QED BY <2>1, CodexQueueParts
<1>z. 0 \in 0..MaxAsks /\ b.userTurns \in Nat BY EngineAssumption DEF CodexState
<1>s. b.steers - 1 \in Int
  <2>1. b.steers \in Int BY DEF CodexState
  <2> QED BY <2>1
<1>e. In(<<>>) = {} /\ Once(<<>>) BY EmptyOnce
<1>n. <<>> \in Seq(Carried(CodexFrame)) /\ <<>> \in Seq(Carried(EventName))
      /\ MsgsOf(<<>>, Settling) = {}
  BY CodexNothing
<1>r. ready \in Seq(Carried(EventName)) /\ MsgsOf(ready, Settling) = {} BY <1>0, CodexEvents
<1>1. CASE line.t = "opened"
  <2> DEFINE d == [b EXCEPT !.thread = TRUE]
             c == [d EXCEPT !.queued = <<>>]
  <2>1. r = IF b.queued = <<>> THEN [a |-> d, frames |-> <<>>, events |-> ready]
            ELSE Codex!TurnStart(c, <<>>, ready, b.queued)
    BY <1>1, CodexNames DEF Codex!OnResponse, Codex!ThreadOpened, Nameless
  <2>2. d \in CodexState /\ d.queued = b.queued /\ d.afterRollback = b.afterRollback
        /\ d.steering = b.steering /\ d.waiting = b.waiting
    BY DEF CodexState
  <2>3. c \in CodexState /\ c.queued = <<>> /\ c.afterRollback = b.afterRollback
        /\ c.steering = b.steering /\ c.waiting = b.waiting
    BY <1>0 DEF CodexState
  <2> HIDE DEF d, c, ready
  <2>4. CodexGives(b, [a |-> d, frames |-> <<>>, events |-> ready], {})
    BY <1>n, <1>r, <2>2, CodexStill
  <2>5. CodexGives(b, Codex!TurnStart(c, <<>>, ready, b.queued), {})
    <3> DEFINE w0 == In(b.queued) \cup In(b.afterRollback) \cup In(b.steering) \cup In(b.waiting)
               w1 == In(c.queued) \cup In(c.afterRollback) \cup In(c.steering) \cup In(c.waiting)
    <3>1. Apart(b.queued, b.afterRollback, b.steering, b.waiting) /\ w0 \cap {} = {} =>
             /\ Apart(c.queued, c.afterRollback, c.steering, c.waiting)
             /\ w1 \cap In(b.queued) = {} /\ w0 \cup {} = w1 \cup In(b.queued)
      BY <1>e, <2>3 DEF Apart
    <3> QED BY <1>0, <1>r, <2>3, <3>1, CodexStarts
  <2> QED BY <2>1, <2>4, <2>5
<1>2. CASE line.t = "no-thread/resume"
  <2> DEFINE f == <<Nameless("thread/start")>>
  <2>1. r = [a |-> b, frames |-> f, events |-> <<>>]
    BY <1>2, CodexNames DEF Codex!OnResponse, Nameless
  <2>2. f \in Seq(Carried(CodexFrame)) /\ MsgsOf(f, Settling) = {}
    <3>1. "thread/start" \in CodexFrame BY DEF CodexFrame
    <3> QED BY <1>z, <3>1, CarriedNone
  <2> HIDE DEF f
  <2> QED BY <1>n, <2>1, <2>2, CodexStill
<1>3. CASE line.t = "no-thread/start"
  <2> DEFINE c == [b EXCEPT !.queued = <<>>, !.busy = FALSE]
             e == <<[t |-> "refused", ms |-> b.queued, n |-> 0], Nameless("ready")>>
  <2>1. r = [a |-> c, frames |-> <<>>, events |-> e]
    BY <1>3, CodexNames DEF Codex!OnResponse, Nameless
  <2>2. c \in CodexState /\ c.queued = <<>> /\ c.afterRollback = b.afterRollback
        /\ c.steering = b.steering /\ c.waiting = b.waiting
    BY <1>0 DEF CodexState
  <2>3. e \in Seq(Carried(EventName)) /\ MsgsOf(e, Settling) = In(b.queued)
    BY <1>0, CodexEvents
  <2> HIDE DEF c, e
  <2>4. MsgsOf(<<>>, Settling) \cup MsgsOf(e, Settling) = In(b.queued) BY <1>n, <2>3
  <2>5. CodexGives(b, [a |-> c, frames |-> <<>>, events |-> e], {})
    <3> DEFINE w0 == In(b.queued) \cup In(b.afterRollback) \cup In(b.steering) \cup In(b.waiting)
               w1 == In(c.queued) \cup In(c.afterRollback) \cup In(c.steering) \cup In(c.waiting)
    <3>1. Apart(b.queued, b.afterRollback, b.steering, b.waiting) /\ w0 \cap {} = {} =>
             /\ Apart(c.queued, c.afterRollback, c.steering, c.waiting)
             /\ w1 \cap In(b.queued) = {} /\ w0 \cup {} = w1 \cup In(b.queued)
      BY <1>e, <2>2 DEF Apart
    <3> QED BY <1>n, <2>2, <2>3, <2>4, <3>1, CodexShow
  <2> QED BY <2>1, <2>5
<1>4. CASE line.t = "turn/start"
  <2> DEFINE c == [b EXCEPT !.turn = TRUE]
  <2>1. r = [a |-> c, frames |-> <<>>, events |-> <<>>] BY <1>4, CodexNames DEF Codex!OnResponse
  <2>2. c \in CodexState /\ c.queued = b.queued /\ c.afterRollback = b.afterRollback
        /\ c.steering = b.steering /\ c.waiting = b.waiting
    BY DEF CodexState
  <2> HIDE DEF c
  <2> QED BY <2>1, <2>2, CodexQuietGives
<1>5. CASE line.t = "no-turn/start"
  <2> DEFINE c == [b EXCEPT !.busy = FALSE]
  <2>1. r = [a |-> c, frames |-> <<>>, events |-> ready]
    BY <1>5, CodexNames DEF Codex!OnResponse, Nameless
  <2>2. c \in CodexState /\ c.queued = b.queued /\ c.afterRollback = b.afterRollback
        /\ c.steering = b.steering /\ c.waiting = b.waiting
    BY DEF CodexState
  <2> HIDE DEF c, ready
  <2> QED BY <1>n, <1>r, <2>1, <2>2, CodexStill
<1>6. CASE line.t = "turn/steer"
  <2> DEFINE c == [b EXCEPT !.steering = <<>>, !.steers = @ - 1]
             e == <<[t |-> "steered", ms |-> b.steering, n |-> 0]>>
  <2>1. r = [a |-> c, frames |-> <<>>, events |-> e] BY <1>6, CodexNames DEF Codex!OnResponse
  <2>2. c \in CodexState /\ c.queued = b.queued /\ c.afterRollback = b.afterRollback
        /\ c.steering = <<>> /\ c.waiting = b.waiting
    BY <1>0, <1>s DEF CodexState
  <2>3. e \in Seq(Carried(EventName)) /\ MsgsOf(e, Settling) = In(b.steering)
    BY <1>0, CodexEvents
  <2> HIDE DEF c, e
  <2>4. MsgsOf(<<>>, Settling) \cup MsgsOf(e, Settling) = In(b.steering) BY <1>n, <2>3
  <2>5. CodexGives(b, [a |-> c, frames |-> <<>>, events |-> e], {})
    <3> DEFINE w0 == In(b.queued) \cup In(b.afterRollback) \cup In(b.steering) \cup In(b.waiting)
               w1 == In(c.queued) \cup In(c.afterRollback) \cup In(c.steering) \cup In(c.waiting)
    <3>1. Apart(b.queued, b.afterRollback, b.steering, b.waiting) /\ w0 \cap {} = {} =>
             /\ Apart(c.queued, c.afterRollback, c.steering, c.waiting)
             /\ w1 \cap In(b.steering) = {} /\ w0 \cup {} = w1 \cup In(b.steering)
      BY <1>e, <2>2 DEF Apart
    <3> QED BY <1>n, <2>2, <2>3, <2>4, <3>1, CodexShow
  <2> QED BY <2>1, <2>5
<1>7. CASE line.t = "no-turn/steer"
  <2> DEFINE q == b.steering \o b.waiting
             c == [b EXCEPT !.waiting = q, !.steering = <<>>, !.steers = @ - 1]
  <2>1. r = [a |-> c, frames |-> <<>>, events |-> <<>>] BY <1>7, CodexNames DEF Codex!OnResponse
  <2>q. q \in Seq(Msg) /\ In(q) = In(b.steering) \cup In(b.waiting)
        /\ (Once(b.steering) /\ Once(b.waiting) /\ In(b.steering) \cap In(b.waiting) = {} => Once(q))
    BY <1>0, ConcatOnce
  <2> HIDE DEF q
  <2>2. c \in CodexState /\ c.queued = b.queued /\ c.afterRollback = b.afterRollback
        /\ c.steering = <<>> /\ c.waiting = q
    BY <1>0, <1>s, <2>q DEF CodexState
  <2> HIDE DEF c
  <2>4. MsgsOf(<<>>, Settling) \cup MsgsOf(<<>>, Settling) = {} BY <1>n
  <2>5. CodexGives(b, [a |-> c, frames |-> <<>>, events |-> <<>>], {})
    <3> DEFINE w0 == In(b.queued) \cup In(b.afterRollback) \cup In(b.steering) \cup In(b.waiting)
               w1 == In(c.queued) \cup In(c.afterRollback) \cup In(c.steering) \cup In(c.waiting)
    <3>1. Apart(b.queued, b.afterRollback, b.steering, b.waiting) /\ w0 \cap {} = {} =>
             /\ Apart(c.queued, c.afterRollback, c.steering, c.waiting)
             /\ w1 \cap {} = {} /\ w0 \cup {} = w1 \cup {}
      BY <1>e, <2>2, <2>q DEF Apart
    <3> QED BY <1>n, <2>2, <2>4, <3>1, CodexShow
  <2> QED BY <2>1, <2>5
<1>8. CASE line.t = "thread/revert"
  <2> DEFINE c == [b EXCEPT !.rolling = FALSE, !.afterRollback = <<>>]
             q == b.afterRollback
  <2>1. r = IF q = <<>> THEN [a |-> c, frames |-> <<>>, events |-> <<>>]
            ELSE Codex!TurnStart(c, <<>>, <<>>, q)
    BY <1>8, CodexNames DEF Codex!OnResponse
  <2>2. c \in CodexState /\ c.queued = b.queued /\ c.afterRollback = <<>>
        /\ c.steering = b.steering /\ c.waiting = b.waiting
    BY <1>0 DEF CodexState
  <2> HIDE DEF c
  <2>3. q = <<>> => CodexGives(b, [a |-> c, frames |-> <<>>, events |-> <<>>], {})
    BY <2>2, CodexQuietGives
  <2>4. CodexGives(b, Codex!TurnStart(c, <<>>, <<>>, q), {})
    <3> DEFINE w0 == In(b.queued) \cup In(b.afterRollback) \cup In(b.steering) \cup In(b.waiting)
               w1 == In(c.queued) \cup In(c.afterRollback) \cup In(c.steering) \cup In(c.waiting)
    <3>1. Apart(b.queued, b.afterRollback, b.steering, b.waiting) /\ w0 \cap {} = {} =>
             /\ Apart(c.queued, c.afterRollback, c.steering, c.waiting)
             /\ w1 \cap In(q) = {} /\ w0 \cup {} = w1 \cup In(q)
      BY <1>e, <2>2 DEF Apart
    <3> QED BY <1>0, <1>n, <2>2, <3>1, CodexStarts
  <2> QED BY <2>1, <2>3, <2>4
<1>9. CASE line.t = "no-thread/revert"
  <2> DEFINE c == [b EXCEPT !.rolling = FALSE, !.afterRollback = <<>>, !.userTurns = @ + 1]
             e == <<[t |-> "refused", ms |-> b.afterRollback, n |-> 0]>>
  <2>1. r = [a |-> c, frames |-> <<>>, events |-> e] BY <1>9, CodexNames DEF Codex!OnResponse
  <2>a. b.userTurns + 1 \in Nat BY <1>z
  <2>2. c \in CodexState /\ c.queued = b.queued /\ c.afterRollback = <<>>
        /\ c.steering = b.steering /\ c.waiting = b.waiting
    BY <1>0, <2>a DEF CodexState
  <2>3. e \in Seq(Carried(EventName)) /\ MsgsOf(e, Settling) = In(b.afterRollback)
    BY <1>0, CodexEvents
  <2> HIDE DEF c, e
  <2>4. MsgsOf(<<>>, Settling) \cup MsgsOf(e, Settling) = In(b.afterRollback) BY <1>n, <2>3
  <2>5. CodexGives(b, [a |-> c, frames |-> <<>>, events |-> e], {})
    <3> DEFINE w0 == In(b.queued) \cup In(b.afterRollback) \cup In(b.steering) \cup In(b.waiting)
               w1 == In(c.queued) \cup In(c.afterRollback) \cup In(c.steering) \cup In(c.waiting)
    <3>1. Apart(b.queued, b.afterRollback, b.steering, b.waiting) /\ w0 \cap {} = {} =>
             /\ Apart(c.queued, c.afterRollback, c.steering, c.waiting)
             /\ w1 \cap In(b.afterRollback) = {} /\ w0 \cup {} = w1 \cup In(b.afterRollback)
      BY <1>e, <2>2 DEF Apart
    <3> QED BY <1>n, <2>2, <2>3, <2>4, <3>1, CodexShow
  <2> QED BY <2>1, <2>5
<1> QED BY <1>1, <1>2, <1>3, <1>4, <1>5, <1>6, <1>7, <1>8, <1>9

\* What a line makes of the adapter, before it looks at what waits.
CodexTakes(b, line) ==
    CASE line.t = "requestApproval" -> Codex!OnServerRequest(b, line)
      [] line.t \in {"turn/started", "turn/completed", "resolved"} -> Codex!OnNotification(b, line)
      [] OTHER -> Codex!OnResponse(b, line)

\* ... a steer's answer those it steered, ...
LEMMA CodexTakesGives ==
    ASSUME NEW b \in CodexState, NEW line \in Asking(CodexLine)
    PROVE  CodexGives(b, CodexTakes(b, line), {})
<1> DEFINE r == CASE line.t = "requestApproval" -> Codex!OnServerRequest(b, line)
                  [] line.t \in {"turn/started", "turn/completed", "resolved"} ->
                        Codex!OnNotification(b, line)
                  [] OTHER -> Codex!OnResponse(b, line)
<1>0. line.t \in CodexLine /\ line.n \in 0..MaxAsks /\ (line.t = "requestApproval" => line.n # 0)
  BY DEF Asking, Carried
<1>n. <<>> \in Seq(Carried(CodexFrame)) /\ <<>> \in Seq(Carried(EventName))
      /\ MsgsOf(<<>>, Settling) = {}
  BY CodexNothing
<1>1. ASSUME line.t = "requestApproval" PROVE CodexGives(b, r, {})
  <2> DEFINE c == [b EXCEPT !.approvals = @ \cup {line.n}]
             f == <<NumberedAs("answer", line.n)>>
             e == <<NumberedAs("approval_request", line.n)>>
  <2>1. r = IF b.mode = "full" THEN [a |-> b, frames |-> f, events |-> <<>>]
            ELSE [a |-> c, frames |-> <<>>, events |-> e]
    BY <1>1, CodexNames DEF Codex!OnServerRequest
  <2>2. line.n \in 1..MaxAsks BY <1>0, <1>1, EngineAssumption
  <2>3. c \in CodexState /\ c.queued = b.queued /\ c.afterRollback = b.afterRollback
        /\ c.steering = b.steering /\ c.waiting = b.waiting
    BY <2>2 DEF CodexState
  <2>4. f \in Seq(Carried(CodexFrame)) /\ MsgsOf(f, Settling) = {}
        /\ e \in Seq(Carried(EventName)) /\ MsgsOf(e, Settling) = {}
    <3>1. "answer" \in CodexFrame /\ "approval_request" \in EventName BY DEF CodexFrame, EventName
    <3> QED BY <1>0, <3>1, CarriedNone
  <2> HIDE DEF c, f, e, r
  <2>5. CodexGives(b, [a |-> b, frames |-> f, events |-> <<>>], {}) BY <1>n, <2>4, CodexStill
  <2>6. CodexGives(b, [a |-> c, frames |-> <<>>, events |-> e], {})
    BY <1>n, <2>3, <2>4, CodexStill
  <2> QED BY <2>1, <2>5, <2>6
<1>2. ASSUME line.t = "turn/started" PROVE CodexGives(b, r, {})
  <2> DEFINE c == [b EXCEPT !.busy = TRUE, !.turn = TRUE, !.userTurns = @ + 1]
  <2>1. r = [a |-> c, frames |-> <<>>, events |-> <<>>]
    BY <1>2, CodexNames DEF Codex!OnNotification
  <2>a. b.userTurns + 1 \in Nat BY DEF CodexState
  <2>2. c \in CodexState /\ c.queued = b.queued /\ c.afterRollback = b.afterRollback
        /\ c.steering = b.steering /\ c.waiting = b.waiting
    BY <2>a DEF CodexState
  <2> HIDE DEF c, r
  <2> QED BY <2>1, <2>2, CodexQuietGives
<1>3. ASSUME line.t = "turn/completed" PROVE CodexGives(b, r, {})
  <2> DEFINE c == [b EXCEPT !.turn = FALSE, !.busy = FALSE]
             ready == <<Nameless("ready")>>
  <2>1. r = [a |-> c, frames |-> <<>>, events |-> ready]
    BY <1>3, CodexNames DEF Codex!OnNotification, Nameless
  <2>2. c \in CodexState /\ c.queued = b.queued /\ c.afterRollback = b.afterRollback
        /\ c.steering = b.steering /\ c.waiting = b.waiting
    BY DEF CodexState
  <2>3. ready \in Seq(Carried(EventName)) /\ MsgsOf(ready, Settling) = {}
    <3>1. b.waiting \in Seq(Msg) BY CodexQueueParts
    <3> QED BY <3>1, CodexEvents
  <2> HIDE DEF c, r, ready
  <2> QED BY <1>n, <2>1, <2>2, <2>3, CodexStill
<1>4. ASSUME line.t = "resolved" PROVE CodexGives(b, r, {})
  <2> DEFINE c == [b EXCEPT !.approvals = @ \ {line.n}]
  <2>1. r = [a |-> c, frames |-> <<>>, events |-> <<>>]
    BY <1>4, CodexNames DEF Codex!OnNotification
  <2>2. c \in CodexState /\ c.queued = b.queued /\ c.afterRollback = b.afterRollback
        /\ c.steering = b.steering /\ c.waiting = b.waiting
    BY DEF CodexState
  <2> HIDE DEF c, r
  <2> QED BY <2>1, <2>2, CodexQuietGives
<1>5. ASSUME line.t \notin {"requestApproval", "turn/started", "turn/completed", "resolved"}
      PROVE  CodexGives(b, r, {})
  <2>1. r = Codex!OnResponse(b, line) BY <1>5
  <2>2. line.t \in {"opened", "no-thread/resume", "no-thread/start", "turn/start",
                    "no-turn/start", "turn/steer", "no-turn/steer", "thread/revert",
                    "no-thread/revert"}
    BY <1>0, <1>5 DEF CodexLine
  <2>3. CodexGives(b, Codex!OnResponse(b, line), {}) BY <2>2, CodexResponseGives
  <2> HIDE DEF r
  <2> QED BY <2>1, <2>3
<1>6. CodexGives(b, r, {}) BY <1>1, <1>2, <1>3, <1>4, <1>5
<1> QED BY <1>6 DEF CodexTakes

\* ... and so does every line of Codex.
LEMMA CodexTranslateGives ==
    ASSUME NEW b \in CodexState, NEW line \in Asking(CodexLine)
    PROVE  CodexGives(b, Codex!Translate(b, line), {})
<1> DEFINE r == CodexTakes(b, line)
<1>1. CodexGives(b, r, {}) BY CodexTakesGives
<1>2. Codex!Translate(b, line) = Codex!NextWaiting(r) BY DEF Codex!Translate, CodexTakes
<1> HIDE DEF r
<1> QED BY <1>1, <1>2, CodexNext

\* The app-server.

CodexProcess ==
    [in : Seq(Carried(CodexFrame)), turn : BOOLEAN, asks : SUBSET (1..MaxAsks), asked : 0..MaxAsks]

CodexSaid == [e : CodexProcess, lines : Seq(Asking(CodexLine))]

\* What the process prints is typed, and so is the process.
LEMMA CodexSays ==
    ASSUME NEW e \in CodexProcess, NEW s \in Seq(Asking(CodexLine))
    PROVE  Codex!Says(e, s) \in CodexSaid
BY DEF Codex!Says, CodexSaid

LEMMA CodexLineOne ==
    ASSUME NEW t \in CodexLine, t # "requestApproval"
    PROVE  Codex!Line(t) = Nameless(t) /\ Nameless(t) \in Asking(CodexLine)
           /\ <<Nameless(t)>> \in Seq(Asking(CodexLine))
<1>1. <<>> \in Seq(Msg) OBVIOUS
<1>2. Nameless(t) \in Asking(CodexLine)
  <2>1. t \notin {"can_use_tool", "requestApproval", "request_permission"} BY DEF CodexLine
  <2> QED BY <1>1, <2>1, LineOne
<1>3. Codex!Line(t) = Nameless(t) BY DEF Codex!Line, Codex!Frame, Nameless
<1> QED BY <1>2, <1>3

LEMMA CodexCompletesTyped ==
    ASSUME NEW e \in CodexProcess
    PROVE  Codex!Completes(e) \in CodexSaid
<1> DEFINE d == [e EXCEPT !.turn = FALSE, !.asks = {}]
           n == CHOOSE n \in e.asks : TRUE
           first == IF e.asks = {} THEN <<>> ELSE <<NumberedAs("resolved", n)>>
           last == <<Nameless("turn/completed")>>
<1>1. Codex!Completes(e) = [e |-> d, lines |-> first \o last]
  BY DEF Codex!Completes, Codex!Says, Codex!Line, Codex!Frame, Codex!Numbered, Nameless, NumberedAs
<1>2. d \in CodexProcess BY DEF CodexProcess
<1>3. last \in Seq(Asking(CodexLine))
  <2>1. "turn/completed" \in CodexLine BY DEF CodexLine
  <2> QED BY <2>1, CodexLineOne
<1>4. first \in Seq(Asking(CodexLine))
  <2>1. CASE e.asks = {} BY <2>1
  <2>2. CASE e.asks # {}
    <3>1. n \in e.asks BY <2>2
    <3>2. e.asks \subseteq 1..MaxAsks BY DEF CodexProcess
    <3>3. n \in 0..MaxAsks BY <3>1, <3>2, EngineAssumption
    <3> HIDE DEF n
    <3>4. "resolved" \in CodexLine /\ <<>> \in Seq(Msg) BY DEF CodexLine
    <3>5. NumberedAs("resolved", n) \in Carried(CodexLine) BY <3>3, <3>4 DEF NumberedAs, Carried
    <3>6. NumberedAs("resolved", n) \in Asking(CodexLine) BY <3>5 DEF NumberedAs, Asking
    <3> QED BY <2>2, <3>6
  <2> QED BY <2>1, <2>2
<1> HIDE DEF d, first, last
<1>5. first \o last \in Seq(Asking(CodexLine)) BY <1>3, <1>4, ConcatOnce
<1> QED BY <1>1, <1>2, <1>5 DEF CodexSaid

LEMMA CodexReadsTyped ==
    ASSUME NEW e \in CodexProcess, NEW f \in Carried(CodexFrame), NEW s \in Codex!Reads(e, f)
    PROVE  s \in CodexSaid
<1>0. f.t \in CodexFrame BY DEF Carried
<1>e. <<>> \in Seq(Asking(CodexLine)) OBVIOUS
<1>1. ASSUME NEW t \in CodexLine, t # "requestApproval"
      PROVE  Codex!Says(e, <<Codex!Line(t)>>) \in CodexSaid
  BY <1>1, CodexLineOne, CodexSays
<1> DEFINE no == CASE f.t = "thread/resume" -> "no-thread/resume"
                   [] f.t = "thread/start" -> "no-thread/start"
                   [] f.t = "turn/start" -> "no-turn/start"
                   [] OTHER -> "no-thread/revert"
           refuses == Codex!Says(e, <<Codex!Line(no)>>)
<1>2. no \in CodexLine /\ no # "requestApproval" BY DEF CodexLine
<1> HIDE DEF no
<1>3. refuses \in CodexSaid BY <1>1, <1>2
<1> HIDE DEF refuses
<1>4. CASE f.t \in {"thread/resume", "thread/start"}
  <2>1. s = refuses \/ s = Codex!Says(e, <<Codex!Line("opened")>>)
    BY <1>4 DEF Codex!Reads, refuses, no
  <2>2. "opened" \in CodexLine BY DEF CodexLine
  <2> QED BY <1>1, <1>3, <2>1, <2>2
<1>5. CASE f.t = "turn/start"
  <2> DEFINE d == [e EXCEPT !.turn = TRUE]
             said == <<Nameless("turn/start"), Nameless("turn/started")>>
  <2>1. s = refuses \/ s = Codex!Says(d, <<Codex!Line("turn/start"), Codex!Line("turn/started")>>)
    BY <1>5 DEF Codex!Reads, refuses, no
  <2>2. "turn/start" \in CodexLine /\ "turn/started" \in CodexLine BY DEF CodexLine
  <2>3. Nameless("turn/start") \in Asking(CodexLine) /\ Codex!Line("turn/start") = Nameless("turn/start")
        /\ Nameless("turn/started") \in Asking(CodexLine)
        /\ Codex!Line("turn/started") = Nameless("turn/started")
    BY <2>2, CodexLineOne
  <2>4. said \in Seq(Asking(CodexLine)) BY <2>3
  <2>5. d \in CodexProcess BY DEF CodexProcess
  <2>6. s = refuses \/ s = Codex!Says(d, said) BY <2>1, <2>3
  <2> HIDE DEF d, said
  <2> QED BY <1>3, <2>4, <2>5, <2>6, CodexSays
<1>6. CASE f.t = "turn/steer"
  <2>1. PICK t \in {"turn/steer", "no-turn/steer"} : s = Codex!Says(e, <<Codex!Frame(t, f.ms)>>)
    BY <1>6 DEF Codex!Reads
  <2> DEFINE x == [t |-> t, ms |-> f.ms, n |-> 0]
  <2>2. Codex!Frame(t, f.ms) = x BY DEF Codex!Frame
  <2>3. x \in Asking(CodexLine)
    <3>1. f.ms \in Seq(Msg) /\ 0 \in 0..MaxAsks BY EngineAssumption DEF Carried
    <3>2. t \in CodexLine /\ t \notin {"can_use_tool", "requestApproval", "request_permission"}
      BY DEF CodexLine
    <3> QED BY <3>1, <3>2 DEF Asking, Carried
  <2> HIDE DEF x
  <2>4. <<x>> \in Seq(Asking(CodexLine)) BY <2>3
  <2> QED BY <2>1, <2>2, <2>4, CodexSays
<1>7. CASE f.t = "turn/interrupt"
  <2>1. s = Codex!Completes(e) \/ s = Codex!Says(e, <<>>) BY <1>7 DEF Codex!Reads
  <2> QED BY <1>e, <2>1, CodexSays, CodexCompletesTyped
<1>8. CASE f.t = "thread/revert"
  <2>1. s = refuses \/ s = Codex!Says(e, <<Codex!Line("thread/revert")>>)
    BY <1>8 DEF Codex!Reads, refuses, no
  <2>2. "thread/revert" \in CodexLine BY DEF CodexLine
  <2> QED BY <1>1, <1>3, <2>1, <2>2
<1>9. CASE f.t = "answer"
  <2>1. s = Codex!Says([e EXCEPT !.asks = @ \ {f.n}], <<>>) BY <1>9 DEF Codex!Reads
  <2>2. [e EXCEPT !.asks = @ \ {f.n}] \in CodexProcess BY DEF CodexProcess
  <2> QED BY <1>e, <2>1, <2>2, CodexSays
<1> QED BY <1>0, <1>4, <1>5, <1>6, <1>7, <1>8, <1>9 DEF CodexFrame

LEMMA CodexStepsTyped ==
    ASSUME NEW e \in CodexProcess, NEW s \in Codex!ProcessSteps(e, MaxAsks)
    PROVE  s \in CodexSaid
<1>0. e.in \in Seq(Carried(CodexFrame)) /\ e.asked \in 0..MaxAsks BY DEF CodexProcess
<1>a. MaxAsks \in Nat BY EngineAssumption
<1>1. \/ e.in # <<>> /\ s \in Codex!Reads([e EXCEPT !.in = Tail(@)], Head(e.in))
      \/ s = Codex!Completes(e)
      \/ e.asked < MaxAsks /\ s = Codex!Says([e EXCEPT !.asks = {e.asked + 1}, !.asked = @ + 1],
                            <<Codex!Numbered("requestApproval", e.asked + 1)>>)
  BY DEF Codex!ProcessSteps
<1>2. CASE e.in # <<>> /\ s \in Codex!Reads([e EXCEPT !.in = Tail(@)], Head(e.in))
  <2>1. Tail(e.in) \in Seq(Carried(CodexFrame)) /\ Head(e.in) \in Carried(CodexFrame)
    BY <1>0, <1>2, TailOnce
  <2>2. [e EXCEPT !.in = Tail(@)] \in CodexProcess BY <2>1 DEF CodexProcess
  <2> QED BY <1>2, <2>1, <2>2, CodexReadsTyped
<1>3. CASE s = Codex!Completes(e) BY <1>3, CodexCompletesTyped
<1>4. CASE e.asked < MaxAsks /\ s = Codex!Says([e EXCEPT !.asks = {e.asked + 1}, !.asked = @ + 1],
                            <<Codex!Numbered("requestApproval", e.asked + 1)>>)
  <2> DEFINE d == [e EXCEPT !.asks = {e.asked + 1}, !.asked = @ + 1]
             asks == NumberedAs("requestApproval", e.asked + 1)
  <2>1. s = Codex!Says(d, <<asks>>) BY <1>4 DEF Codex!Numbered, NumberedAs
  <2>2. e.asked + 1 \in 1..MaxAsks /\ e.asked + 1 \in 0..MaxAsks /\ e.asked + 1 # 0
    BY <1>0, <1>4, <1>a
  <2>3. d \in CodexProcess BY <2>2 DEF CodexProcess
  <2>4. <<>> \in Seq(Msg) /\ "requestApproval" \in CodexLine BY DEF CodexLine
  <2>5. asks \in Asking(CodexLine) BY <2>2, <2>4 DEF NumberedAs, Asking, Carried
  <2> HIDE DEF asks, d
  <2>6. <<asks>> \in Seq(Asking(CodexLine)) BY <2>5
  <2> QED BY <2>1, <2>3, <2>6, CodexSays
<1> QED BY <1>1, <1>2, <1>3, <1>4

LEMMA CodexFreshTyped ==
    ASSUME NEW mode \in Mode, NEW resume \in BOOLEAN
    PROVE  LET b == Codex!Fresh(mode, resume)
               f == Codex!Start(b)
           IN  /\ b \in CodexState /\ CodexQueue(b) = <<>> /\ b.mode = mode
               /\ f \in Seq(Carried(CodexFrame)) /\ MsgsOf(f, Settling) = {}
               /\ [Codex!FreshProcess EXCEPT !.in = f] \in CodexProcess
<1> DEFINE b == Codex!Fresh(mode, resume)
           f == Codex!Start(b)
<1>1. <<>> \in Seq(Msg) OBVIOUS
<1>2. b \in CodexState /\ b.mode = mode BY <1>1 DEF Codex!Fresh, CodexState
<1>3. CodexQueue(b) = <<>>
  <2>1. <<>> \o <<>> = <<>> OBVIOUS
  <2> QED BY <2>1 DEF Codex!Fresh, CodexQueue
<1>4. f = <<Nameless("thread/resume")>> \/ f = <<Nameless("thread/start")>>
  BY DEF Codex!Start, Codex!Frame, Nameless
<1>5. f \in Seq(Carried(CodexFrame)) /\ MsgsOf(f, Settling) = {}
  <2>1. "thread/resume" \in CodexFrame /\ "thread/start" \in CodexFrame /\ 0 \in 0..MaxAsks
    BY EngineAssumption DEF CodexFrame
  <2> QED BY <1>4, <2>1, CarriedNone
<1> HIDE DEF f
<1>6. [Codex!FreshProcess EXCEPT !.in = f] \in CodexProcess
  <2>1. 0 \in 0..MaxAsks BY EngineAssumption
  <2> QED BY <1>5, <2>1 DEF Codex!FreshProcess, CodexProcess
<1> QED BY <1>2, <1>3, <1>5, <1>6 DEF f

-----------------------------------------------------------------------------
\* --- ACP: where the messages of an op or a line go ---

\* The ACP adapter.

AcpFrame == {"initialize", "session/load", "session/new", "authenticate", "session/prompt",
             "session/cancel", "answer"}

AcpState ==
    [mode : Mode, session : BOOLEAN, resume : BOOLEAN, prompt : BOOLEAN, failed : BOOLEAN,
     signedIn : BOOLEAN, queued : Seq(Msg), approvals : SUBSET (1..MaxAsks)]

AcpOutput == [a : AcpState, frames : Seq(Carried(AcpFrame)), events : Seq(Carried(EventName))]

AcpGives(b, r, new) ==
    r \in AcpOutput /\ FiledBy(b.queued, r.a.queued, Gone(r), new)

\* The types of its frames, lines and events.
LEMMA AcpNames ==
    /\ \A c : Acp!Answers(c) = AnswersOf(c)
    /\ \A q, i : Acp!ToFront(q, i) = <<q[i]>> \o RemoveAt(q, i)
    /\ \A q, i, j : Acp!Moved(q, i, j) = InsertAt(RemoveAt(q, i), j, q[i])
    /\ \A q, i : Acp!RemoveAt(q, i) = RemoveAt(q, i)
    /\ \A t, ms : Acp!Frame(t, ms) = [t |-> t, ms |-> ms, n |-> 0]
    /\ \A t, n : Acp!Numbered(t, n) = NumberedAs(t, n)
    /\ \A b, f, e : Acp!Output(b, f, e) = [a |-> b, frames |-> f, events |-> e]
    /\ \A b : Acp!Quiet(b) = [a |-> b, frames |-> <<>>, events |-> <<>>]
    /\ \A x, n : Acp!QueueIndex(x, n) \subseteq 1..n
<1>2. \A c : Acp!Answers(c) = AnswersOf(c)
  BY DEF Acp!Answers, Acp!SetToSeq, Acp!IsInjective, Acp!Numbered, Acp!Cardinality,
         AnswersOf, SetToSeq, IsInjective, Cardinality
<1>3. \A q, i : Acp!RemoveAt(q, i) = RemoveAt(q, i) BY DEF Acp!RemoveAt, RemoveAt
<1>4. \A q, i, x : Acp!InsertAt(q, i, x) = InsertAt(q, i, x) BY DEF Acp!InsertAt, InsertAt
<1>6. \A q, i : Acp!ToFront(q, i) = <<q[i]>> \o RemoveAt(q, i) BY <1>3 DEF Acp!ToFront
<1>7. \A q, i, j : Acp!Moved(q, i, j) = InsertAt(RemoveAt(q, i), j, q[i])
  BY <1>3, <1>4 DEF Acp!Moved
<1>9. \A t, ms : Acp!Frame(t, ms) = [t |-> t, ms |-> ms, n |-> 0] BY DEF Acp!Frame
<1>10. \A t, n : Acp!Numbered(t, n) = NumberedAs(t, n) BY DEF Acp!Numbered, NumberedAs
<1>11. \A b, f, e : Acp!Output(b, f, e) = [a |-> b, frames |-> f, events |-> e]
  BY DEF Acp!Output
<1>12. \A b : Acp!Quiet(b) = [a |-> b, frames |-> <<>>, events |-> <<>>]
  BY DEF Acp!Quiet, Acp!Output
<1>13. \A x, n : Acp!QueueIndex(x, n) \subseteq 1..n BY DEF Acp!QueueIndex
<1> QED BY <1>2, <1>3, <1>6, <1>7, <1>9, <1>10, <1>11, <1>12, <1>13

LEMMA AcpShow ==
    ASSUME NEW b \in AcpState, NEW c \in AcpState, NEW new,
           NEW f \in Seq(Carried(AcpFrame)), NEW e \in Seq(Carried(EventName)),
           NEW gone, MsgsOf(f, Settling) \cup MsgsOf(e, Settling) = gone,
           Once(b.queued) /\ In(b.queued) \cap new = {} =>
               /\ Once(c.queued) /\ In(c.queued) \cap gone = {}
               /\ In(b.queued) \cup new = In(c.queued) \cup gone
    PROVE  AcpGives(b, [a |-> c, frames |-> f, events |-> e], new)
<1>1. Gone([a |-> c, frames |-> f, events |-> e]) = gone BY DEF Gone
<1>2. FiledBy(b.queued, c.queued, gone, new) BY DEF FiledBy
<1> QED BY <1>1, <1>2 DEF AcpGives, AcpOutput

LEMMA AcpNothing ==
    /\ <<>> \in Seq(Carried(AcpFrame)) /\ <<>> \in Seq(Carried(EventName))
    /\ MsgsOf(<<>>, Settling) = {} /\ <<>> \in Seq(Msg) /\ In(<<>>) = {} /\ Once(<<>>)
<1>1. In(<<>>) = {} /\ Once(<<>>) BY EmptyOnce
<1> QED BY <1>1, MsgsEmpty

\* An op or a line that moves no message.
LEMMA AcpStill ==
    ASSUME NEW b \in AcpState, NEW c \in AcpState, NEW f \in Seq(Carried(AcpFrame)),
           NEW e \in Seq(Carried(EventName)),
           MsgsOf(f, Settling) = {}, MsgsOf(e, Settling) = {},
           In(c.queued) = In(b.queued), Once(b.queued) => Once(c.queued)
    PROVE  AcpGives(b, [a |-> c, frames |-> f, events |-> e], {})
BY AcpShow

LEMMA AcpQuietGives ==
    ASSUME NEW b \in AcpState, NEW c \in AcpState,
           In(c.queued) = In(b.queued), Once(b.queued) => Once(c.queued)
    PROVE  AcpGives(b, [a |-> c, frames |-> <<>>, events |-> <<>>], {})
BY AcpNothing, AcpStill

LEMMA AcpFrameOne ==
    ASSUME NEW t \in AcpFrame
    PROVE  LET f == <<Nameless(t)>> IN f \in Seq(Carried(AcpFrame)) /\ MsgsOf(f, Settling) = {}
<1>1. 0 \in 0..MaxAsks BY EngineAssumption
<1> QED BY <1>1, CarriedNone

\* A prompt with the message m.
LEMMA AcpPrompts ==
    ASSUME NEW b \in AcpState, NEW c \in AcpState, NEW m \in Msg, NEW new,
           NEW e \in Seq(Carried(EventName)), MsgsOf(e, Settling) = {},
           Once(b.queued) /\ In(b.queued) \cap new = {} =>
               /\ Once(c.queued) /\ m \notin In(c.queued)
               /\ In(b.queued) \cup new = In(c.queued) \cup {m}
    PROVE  AcpGives(b, Acp!Send(c, <<>>, e, m), new)
<1> DEFINE d == [c EXCEPT !.prompt = TRUE]
           f == <<About("session/prompt", m)>>
<1>1. Acp!Send(c, <<>>, e, m) = [a |-> d, frames |-> f, events |-> e]
  <2>1. \A x : Append(<<>>, x) = <<x>> OBVIOUS
  <2> QED BY <2>1, AcpNames DEF Acp!Send, About
<1>2. d \in AcpState /\ d.queued = c.queued BY DEF AcpState
<1>3. f \in Seq(Carried(AcpFrame)) /\ MsgsOf(f, Settling) = {m}
  <2>1. "session/prompt" \in AcpFrame /\ "session/prompt" \in Settling /\ 0 \in 0..MaxAsks
    BY EngineAssumption DEF AcpFrame, Settling, Handed
  <2> QED BY <2>1, AcpNothing, CarriedOne, SettledOne
<1> HIDE DEF d, f
<1>4. MsgsOf(f, Settling) \cup MsgsOf(e, Settling) = {m} BY <1>3
<1>a. Once(b.queued) /\ In(b.queued) \cap new = {} =>
               /\ Once(d.queued) /\ In(d.queued) \cap {m} = {}
               /\ In(b.queued) \cup new = In(d.queued) \cup {m}
  BY <1>2
<1>5. AcpGives(b, [a |-> d, frames |-> f, events |-> e], new)
  BY <1>2, <1>3, <1>4, <1>a, AcpShow
<1> QED BY <1>1, <1>5

\* Each op files the messages it is about.
LEMMA AcpSubmitGives ==
    ASSUME NEW b \in AcpState, NEW m \in Msg
    PROVE  AcpGives(b, Acp!Submit(b, m), {m})
<1> DEFINE q == Append(b.queued, m)
           c == [b EXCEPT !.queued = q]
           d == [c EXCEPT !.failed = FALSE]
           f == <<Nameless("session/new")>>
<1>0. b.queued \in Seq(Msg) BY DEF AcpState
<1>1. Acp!Submit(b, m) = IF b.session /\ ~b.prompt THEN Acp!Send(b, <<>>, <<>>, m)
                         ELSE IF ~b.session /\ b.failed
                         THEN [a |-> d, frames |-> f, events |-> <<>>]
                         ELSE [a |-> c, frames |-> <<>>, events |-> <<>>]
  BY AcpNames DEF Acp!Submit, Nameless
<1>2. q \in Seq(Msg) /\ In(q) = In(b.queued) \cup {m}
      /\ (Once(b.queued) /\ m \notin In(b.queued) => Once(q))
  BY <1>0, AppendOnce
<1> HIDE DEF q
<1>3. c \in AcpState /\ c.queued = q /\ d \in AcpState /\ d.queued = q BY <1>2 DEF AcpState
<1>4. f \in Seq(Carried(AcpFrame)) /\ MsgsOf(f, Settling) = {}
  <2>1. "session/new" \in AcpFrame BY DEF AcpFrame
  <2> QED BY <2>1, AcpFrameOne
<1> HIDE DEF c, d, f
<1>5. MsgsOf(f, Settling) \cup MsgsOf(<<>>, Settling) = {}
      /\ MsgsOf(<<>>, Settling) \cup MsgsOf(<<>>, Settling) = {}
  BY <1>4, AcpNothing
<1>6. AcpGives(b, [a |-> d, frames |-> f, events |-> <<>>], {m})
  BY <1>2, <1>3, <1>4, <1>5, AcpNothing, AcpShow
<1>7. AcpGives(b, [a |-> c, frames |-> <<>>, events |-> <<>>], {m})
  BY <1>2, <1>3, <1>5, AcpNothing, AcpShow
<1>8. AcpGives(b, Acp!Send(b, <<>>, <<>>, m), {m}) BY AcpNothing, AcpPrompts
<1> QED BY <1>1, <1>6, <1>7, <1>8

\* The next queued message is sent, or the session goes ready.
LEMMA AcpNextGives ==
    ASSUME NEW b \in AcpState, NEW c \in AcpState, c.queued = b.queued,
           NEW e \in Seq(Carried(EventName)), MsgsOf(e, Settling) = {}
    PROVE  AcpGives(b, Acp!NextQueued(c, e), {})
<1> DEFINE h == Head(c.queued)
           t == Tail(c.queued)
           d == [c EXCEPT !.queued = t]
           x == Nameless("ready")
           u == <<x>>
           ev == Append(e, x)
<1>0. c.queued \in Seq(Msg) BY DEF AcpState
<1>1. CASE c.queued = <<>>
  <2>1. Acp!NextQueued(c, e) = [a |-> c, frames |-> <<>>, events |-> ev]
    BY <1>1, AcpNames DEF Acp!NextQueued, Nameless
  <2>2. u \in Seq(Carried(EventName)) /\ MsgsOf(u, Settling) = {} /\ x \in Carried(EventName)
    <3>1. "ready" \in EventName /\ 0 \in 0..MaxAsks /\ <<>> \in Seq(Msg)
      BY EngineAssumption DEF EventName
    <3>2. x \in Carried(EventName) BY <3>1 DEF Nameless, Carried
    <3> QED BY <3>1, <3>2, CarriedNone
  <2> HIDE DEF x
  <2>3. ev = e \o u BY <2>2
  <2> HIDE DEF u, ev
  <2>4. ev \in Seq(Carried(EventName)) /\ MsgsOf(ev, Settling) = {}
    BY <2>2, <2>3, ConcatOnce, MsgsConcat
  <2> QED BY <2>1, <2>4, AcpNothing, AcpStill
<1>2. CASE c.queued # <<>>
  <2>1. Acp!NextQueued(c, e) = Acp!Send(d, <<>>, e, h) BY <1>2 DEF Acp!NextQueued
  <2>2. h \in Msg /\ t \in Seq(Msg) /\ In(c.queued) = In(t) \cup {h}
        /\ (Once(c.queued) => Once(t) /\ h \notin In(t))
    BY <1>0, <1>2, TailOnce
  <2> HIDE DEF h, t
  <2>3. d \in AcpState /\ d.queued = t BY <2>2 DEF AcpState
  <2> HIDE DEF d
  <2>4. Once(b.queued) /\ In(b.queued) \cap {} = {} =>
               /\ Once(d.queued) /\ h \notin In(d.queued)
               /\ In(b.queued) \cup {} = In(d.queued) \cup {h}
    BY <2>2, <2>3
  <2>5. AcpGives(b, Acp!Send(d, <<>>, e, h), {}) BY <2>2, <2>3, <2>4, AcpPrompts
  <2> QED BY <2>1, <2>5
<1> QED BY <1>1, <1>2

\* The turn is cancelled, its requests answered; `q` stays queued, the rest is told of.
LEMMA AcpCancelGives ==
    ASSUME NEW b \in AcpState, NEW q \in Seq(Msg), NEW e \in Seq(Carried(EventName)),
           Once(b.queued) => /\ Once(q) /\ In(q) \cap MsgsOf(e, Settling) = {}
                             /\ In(b.queued) = In(q) \cup MsgsOf(e, Settling)
    PROVE  AcpGives(b, Acp!CancelTurn(b, q, e), {})
<1> DEFINE c == [b EXCEPT !.approvals = {}, !.queued = q]
           s == AnswersOf(b.approvals)
           x == Nameless("session/cancel")
           u == <<x>>
           f == Append(s, x)
<1>1. Acp!CancelTurn(b, q, e) = [a |-> c, frames |-> f, events |-> e]
  BY AcpNames DEF Acp!CancelTurn, Nameless
<1>2. c \in AcpState /\ c.queued = q BY DEF AcpState
<1>3. s \in Seq(Carried(AcpFrame)) /\ MsgsOf(s, Settling) = {}
  <2>1. b.approvals \in SUBSET (1..MaxAsks) /\ "answer" \in AcpFrame BY DEF AcpState, AcpFrame
  <2> QED BY <2>1, AnswerFrames
<1>4. u \in Seq(Carried(AcpFrame)) /\ MsgsOf(u, Settling) = {} /\ x \in Carried(AcpFrame)
  <2>1. "session/cancel" \in AcpFrame /\ 0 \in 0..MaxAsks /\ <<>> \in Seq(Msg)
    BY EngineAssumption DEF AcpFrame
  <2>2. x \in Carried(AcpFrame) BY <2>1 DEF Nameless, Carried
  <2> QED BY <2>1, <2>2, AcpFrameOne
<1> HIDE DEF x, s
<1>5. f = s \o u BY <1>3, <1>4
<1> HIDE DEF f, u, c
<1>6. f \in Seq(Carried(AcpFrame)) /\ MsgsOf(f, Settling) = {}
  BY <1>3, <1>4, <1>5, ConcatOnce, MsgsConcat
<1>7. MsgsOf(f, Settling) \cup MsgsOf(e, Settling) = MsgsOf(e, Settling) BY <1>6
<1>8. AcpGives(b, [a |-> c, frames |-> f, events |-> e], {}) BY <1>2, <1>6, <1>7, AcpShow
<1> QED BY <1>1, <1>8

LEMMA AcpInterruptGives ==
    ASSUME NEW b \in AcpState, NEW steer \in BOOLEAN, NEW index
    PROVE  AcpGives(b, Acp!Interrupt(b, steer, index), {})
<1> DEFINE is == Acp!QueueIndex(index, Len(b.queued))
           i == CHOOSE i \in is : TRUE
           q == Acp!ToFront(b.queued, i)
           r == Acp!Interrupt(b, steer, index)
           e == <<[t |-> "unqueued", ms |-> b.queued, n |-> 0]>>
<1>0. b.queued \in Seq(Msg) BY DEF AcpState
<1>1. CASE b.session /\ ~steer
  <2>1. r = Acp!CancelTurn(b, <<>>, e) BY <1>1, AcpNames DEF Acp!Interrupt
  <2>2. e \in Seq(Carried(EventName)) /\ MsgsOf(e, Settling) = In(b.queued)
    <3>1. "unqueued" \in EventName /\ "unqueued" \in Settling BY DEF EventName, Settling
    <3> QED BY <1>0, <3>1, CarriedQueue
  <2> HIDE DEF e, r
  <2>3. AcpGives(b, Acp!CancelTurn(b, <<>>, e), {}) BY <2>2, AcpNothing, AcpCancelGives
  <2> QED BY <2>1, <2>3 DEF r
<1>2. CASE b.session /\ steer /\ is # {} /\ b.prompt
  <2>1. r = Acp!CancelTurn(b, q, <<>>) BY <1>2 DEF Acp!Interrupt
  <2>2. i \in 1..Len(b.queued)
    <3>1. is \subseteq 1..Len(b.queued) BY AcpNames
    <3> QED BY <1>2, <3>1
  <2> HIDE DEF i, r
  <2>3. q = <<b.queued[i]>> \o RemoveAt(b.queued, i) BY AcpNames
  <2> HIDE DEF q
  <2>4. q \in Seq(Msg) /\ In(q) = In(b.queued) /\ (Once(b.queued) => Once(q))
    BY <1>0, <2>2, <2>3, FrontOnce
  <2>5. AcpGives(b, Acp!CancelTurn(b, q, <<>>), {}) BY <2>4, AcpNothing, AcpCancelGives
  <2> QED BY <2>1, <2>5 DEF r
<1>3. CASE ~(b.session /\ ~steer) /\ ~(b.session /\ steer /\ is # {} /\ b.prompt)
  <2>1. r = [a |-> b, frames |-> <<>>, events |-> <<>>] BY <1>3, AcpNames DEF Acp!Interrupt
  <2> QED BY <2>1, AcpQuietGives
<1> QED BY <1>1, <1>2, <1>3

LEMMA AcpApproveGives ==
    ASSUME NEW b \in AcpState, NEW calls \in SUBSET (1..MaxAsks)
    PROVE  AcpGives(b, Acp!Approve(b, calls), {})
<1> DEFINE known == calls \cap b.approvals
           c == [b EXCEPT !.approvals = @ \ known]
<1>1. Acp!Approve(b, calls) = [a |-> c, frames |-> AnswersOf(known), events |-> <<>>]
  BY AcpNames DEF Acp!Approve
<1>2. c \in AcpState /\ c.queued = b.queued BY DEF AcpState
<1>3. AnswersOf(known) \in Seq(Carried(AcpFrame)) /\ MsgsOf(AnswersOf(known), Settling) = {}
  <2>1. known \in SUBSET (1..MaxAsks) /\ "answer" \in AcpFrame BY DEF AcpFrame
  <2> QED BY <2>1, AnswerFrames
<1> HIDE DEF c, known
<1> QED BY <1>1, <1>2, <1>3, AcpNothing, AcpStill

LEMMA AcpUnqueueGives ==
    ASSUME NEW b \in AcpState, NEW index
    PROVE  AcpGives(b, Acp!Unqueued(b, "queued", index), {})
<1> DEFINE is == Acp!QueueIndex(index, Len(b.queued))
           i == CHOOSE i \in is : TRUE
           r == Acp!Unqueued(b, "queued", index)
           x == b.queued[i]
           q == RemoveAt(b.queued, i)
           c == [b EXCEPT !.queued = q]
           e == <<About("unqueued", x)>>
<1>0. b.queued \in Seq(Msg) BY DEF AcpState
<1>1. CASE is = {}
  <2>1. r = [a |-> b, frames |-> <<>>, events |-> <<>>] BY <1>1, AcpNames DEF Acp!Unqueued
  <2> QED BY <2>1, AcpQuietGives
<1>2. CASE is # {}
  <2>0. is \subseteq 1..Len(b.queued) BY AcpNames
  <2>1. i \in 1..Len(b.queued) BY <1>2, <2>0
  <2>2. r = [a |-> c, frames |-> <<>>, events |-> e]
    BY <1>2, AcpNames DEF Acp!Unqueued, About
  <2> HIDE DEF i, is
  <2>3. q \in Seq(Msg) /\ x \in Msg /\ In(b.queued) = In(q) \cup {x}
        /\ (Once(b.queued) => Once(q) /\ x \notin In(q))
    BY <1>0, <2>1, RemoveOnce
  <2> HIDE DEF q, x
  <2>4. c \in AcpState /\ c.queued = q BY <2>3 DEF AcpState
  <2>5. e \in Seq(Carried(EventName)) /\ MsgsOf(e, Settling) = {x}
    <3>1. "unqueued" \in EventName /\ "unqueued" \in Settling /\ 0 \in 0..MaxAsks
          /\ <<>> \in Seq(Msg)
      BY EngineAssumption DEF EventName, Settling
    <3> QED BY <2>3, <3>1, CarriedOne, SettledOne
  <2> HIDE DEF c, e, r
  <2>6. MsgsOf(<<>>, Settling) \cup MsgsOf(e, Settling) = {x} BY <2>5, AcpNothing
  <2>a. Once(b.queued) /\ In(b.queued) \cap {} = {} =>
               /\ Once(c.queued) /\ In(c.queued) \cap {x} = {}
               /\ In(b.queued) \cup {} = In(c.queued) \cup {x}
    BY <2>3, <2>4
  <2>7. AcpGives(b, [a |-> c, frames |-> <<>>, events |-> e], {})
    BY <2>4, <2>5, <2>6, <2>a, AcpNothing, AcpShow
  <2> QED BY <2>2, <2>7 DEF r
<1> QED BY <1>1, <1>2

LEMMA AcpMoveGives ==
    ASSUME NEW b \in AcpState, NEW index, NEW to
    PROVE  AcpGives(b, Acp!QueueMoved(b, "queued", index, to), {})
<1> DEFINE moves == Acp!QueueMoveTarget(index, to, Len(b.queued))
           m == CHOOSE m \in moves : TRUE
           q == InsertAt(RemoveAt(b.queued, m[1]), m[2], b.queued[m[1]])
           c == [b EXCEPT !.queued = q]
           r == Acp!QueueMoved(b, "queued", index, to)
<1>0. b.queued \in Seq(Msg) BY DEF AcpState
<1>1. CASE moves = {}
  <2>1. r = [a |-> b, frames |-> <<>>, events |-> <<>>] BY <1>1, AcpNames DEF Acp!QueueMoved
  <2> QED BY <2>1, AcpQuietGives
<1>2. CASE moves # {}
  <2>1. m \in moves BY <1>2
  <2>2. r = [a |-> c, frames |-> <<>>, events |-> <<>>] BY <1>2, AcpNames DEF Acp!QueueMoved
  <2>3. m[1] \in 1..Len(b.queued) /\ m[2] \in 1..Len(b.queued)
    <3>1. m \in Acp!QueueIndex(index, Len(b.queued)) \X Acp!QueueIndex(to, Len(b.queued))
      <4> HIDE DEF m
      <4> QED BY <2>1 DEF Acp!QueueMoveTarget
    <3> HIDE DEF m, moves
    <3> QED BY <3>1, AcpNames
  <2> HIDE DEF m, moves
  <2>5. q \in Seq(Msg) /\ In(q) = In(b.queued) /\ (Once(b.queued) => Once(q))
    BY <1>0, <2>3, MoveOnce
  <2> HIDE DEF q, r
  <2>6. c \in AcpState /\ c.queued = q BY <2>5 DEF AcpState
  <2> HIDE DEF c
  <2>7. AcpGives(b, [a |-> c, frames |-> <<>>, events |-> <<>>], {})
    BY <2>5, <2>6, AcpQuietGives
  <2> QED BY <2>2, <2>7 DEF r
<1> QED BY <1>1, <1>2

\* Every op of an ACP engine does.
LEMMA AcpEncodeGives ==
    ASSUME NEW b \in AcpState, NEW op \in AnyOp
    PROVE  AcpGives(b, Acp!Encode(b, op), NewIn(op))
<1> DEFINE r == Acp!Encode(b, op)
<1>1. CASE op.op = "user_message"
  <2>1. op.m \in Msg BY <1>1 DEF AnyOp
  <2>2. r = Acp!Submit(b, op.m) BY <1>1 DEF Acp!Encode
  <2>3. NewIn(op) = {op.m} BY <1>1 DEF NewIn
  <2> QED BY <2>1, <2>2, <2>3, AcpSubmitGives
<1>2. CASE op.op # "user_message"
  <2>0. NewIn(op) = {} BY <1>2 DEF NewIn
  <2>1. CASE op.op = "approve"
    <3>1. op.calls \in SUBSET (1..MaxAsks) BY <2>1 DEF AnyOp
    <3>2. r = Acp!Approve(b, op.calls) BY <2>1 DEF Acp!Encode
    <3> QED BY <2>0, <3>1, <3>2, AcpApproveGives
  <2>2. CASE op.op = "interrupt"
    <3>1. r = Acp!Interrupt(b, op.index # <<>>, op.index) BY <2>2 DEF Acp!Encode
    <3> QED BY <2>0, <3>1, AcpInterruptGives
  <2>3. CASE op.op = "steer"
    <3>1. r = Acp!Interrupt(b, TRUE, op.index) BY <2>3 DEF Acp!Encode
    <3> QED BY <2>0, <3>1, AcpInterruptGives
  <2>4. CASE op.op = "unqueue"
    <3>1. r = Acp!Unqueued(b, "queued", op.index) BY <2>4 DEF Acp!Encode
    <3> QED BY <2>0, <3>1, AcpUnqueueGives
  <2>5. CASE op.op = "queue_move"
    <3>1. r = Acp!QueueMoved(b, "queued", op.index, op.to) BY <2>5 DEF Acp!Encode
    <3> QED BY <2>0, <3>1, AcpMoveGives
  <2>8. CASE op.op \notin {"approve", "interrupt", "steer", "unqueue", "queue_move"}
    <3>1. r = [a |-> b, frames |-> <<>>, events |-> <<>>]
      BY <1>2, <2>8, AcpNames DEF Acp!Encode
    <3> QED BY <2>0, <3>1, AcpQuietGives
  <2> QED BY <2>1, <2>2, <2>3, <2>4, <2>5, <2>8
<1> QED BY <1>1, <1>2

AcpLine ==
    {"initialize", "no-initialize", "opened", "no-session/load", "no-session/new", "signed-out",
     "authenticate", "no-authenticate", "session/prompt", "no-session/prompt",
     "request_permission"}

\* A conversation that does not open refuses what waited for it.
LEMMA AcpUnopenedGives ==
    ASSUME NEW b \in AcpState, NEW failed \in BOOLEAN
    PROVE  AcpGives(b, Acp!Unopened(b, failed), {})
<1> DEFINE c == [b EXCEPT !.queued = <<>>, !.failed = failed]
           e == <<[t |-> "refused", ms |-> b.queued, n |-> 0], Nameless("ready")>>
<1>0. b.queued \in Seq(Msg) BY DEF AcpState
<1>1. Acp!Unopened(b, failed) = [a |-> c, frames |-> <<>>, events |-> e]
  BY AcpNames DEF Acp!Unopened, Nameless
<1>2. c \in AcpState /\ c.queued = <<>> BY AcpNothing DEF AcpState
<1>3. e \in Seq(Carried(EventName)) /\ MsgsOf(e, Settling) = In(b.queued)
  BY <1>0, CodexEvents
<1> HIDE DEF c, e
<1>4. MsgsOf(<<>>, Settling) \cup MsgsOf(e, Settling) = In(b.queued) BY <1>3, AcpNothing
<1>5. Once(b.queued) /\ In(b.queued) \cap {} = {} =>
         /\ Once(c.queued) /\ In(c.queued) \cap In(b.queued) = {}
         /\ In(b.queued) \cup {} = In(c.queued) \cup In(b.queued)
  BY <1>2, AcpNothing
<1>6. AcpGives(b, [a |-> c, frames |-> <<>>, events |-> e], {})
  BY <1>2, <1>3, <1>4, <1>5, AcpNothing, AcpShow
<1> QED BY <1>1, <1>6

LEMMA AcpSettleGives ==
    ASSUME NEW b \in AcpState
    PROVE  AcpGives(b, Acp!Settle(b), {})
<1> DEFINE c == [b EXCEPT !.prompt = FALSE]
<1>1. Acp!Settle(b) = Acp!NextQueued(c, <<>>) BY DEF Acp!Settle
<1>2. c \in AcpState /\ c.queued = b.queued BY DEF AcpState
<1> HIDE DEF c
<1> QED BY <1>1, <1>2, AcpNothing, AcpNextGives

LEMMA AcpOpenedGives ==
    ASSUME NEW b \in AcpState
    PROVE  AcpGives(b, Acp!Opened(b), {})
<1> DEFINE c == [b EXCEPT !.session = TRUE]
           ready == <<Nameless("ready")>>
<1>0. b.queued \in Seq(Msg) BY DEF AcpState
<1>1. Acp!Opened(b) = IF b.queued = <<>> THEN [a |-> c, frames |-> <<>>, events |-> ready]
                      ELSE Acp!NextQueued(c, ready)
  BY AcpNames DEF Acp!Opened, Nameless
<1>2. c \in AcpState /\ c.queued = b.queued BY DEF AcpState
<1>3. ready \in Seq(Carried(EventName)) /\ MsgsOf(ready, Settling) = {} BY <1>0, CodexEvents
<1> HIDE DEF c, ready
<1>4. AcpGives(b, [a |-> c, frames |-> <<>>, events |-> ready], {})
  BY <1>2, <1>3, AcpNothing, AcpStill
<1>5. AcpGives(b, Acp!NextQueued(c, ready), {}) BY <1>2, <1>3, AcpNextGives
<1> QED BY <1>1, <1>4, <1>5

LEMMA AcpAsksAgain ==
    ASSUME NEW b \in AcpState, NEW c \in AcpState, c.queued = b.queued, NEW t \in AcpFrame
    PROVE  AcpGives(b, [a |-> c, frames |-> <<Nameless(t)>>, events |-> <<>>], {})
<1> DEFINE f == <<Nameless(t)>>
<1>1. f \in Seq(Carried(AcpFrame)) /\ MsgsOf(f, Settling) = {} BY AcpFrameOne
<1> HIDE DEF f
<1>2. AcpGives(b, [a |-> c, frames |-> f, events |-> <<>>], {}) BY <1>1, AcpNothing, AcpStill
<1> QED BY <1>2 DEF f

\* Every line of an ACP agent files its messages.
LEMMA AcpTranslateGives ==
    ASSUME NEW b \in AcpState, NEW line \in Asking(AcpLine)
    PROVE  AcpGives(b, Acp!Translate(b, line), {})
<1> DEFINE r == Acp!Translate(b, line)
<1>0. line.t \in AcpLine /\ line.n \in 0..MaxAsks /\ (line.t = "request_permission" => line.n # 0)
  BY DEF Asking, Carried
<1>f. {"initialize", "session/load", "session/new", "authenticate"} \subseteq AcpFrame
  BY DEF AcpFrame
<1>1. CASE line.t \in {"initialize", "authenticate"}
  <2>1. r = [a |-> b, frames |-> <<Nameless("session/load")>>, events |-> <<>>]
        \/ r = [a |-> b, frames |-> <<Nameless("session/new")>>, events |-> <<>>]
    BY <1>1, AcpNames DEF Acp!Translate, Acp!OnResponse, Acp!Open, Nameless
  <2> QED BY <1>f, <2>1, AcpAsksAgain
<1>2. CASE line.t = "opened"
  <2>1. r = Acp!Opened(b) BY <1>2 DEF Acp!Translate, Acp!OnResponse
  <2> QED BY <2>1, AcpOpenedGives
<1>3. CASE line.t \in {"session/prompt", "no-session/prompt"}
  <2>1. r = Acp!Settle(b) BY <1>3 DEF Acp!Translate, Acp!OnResponse, Acp!OnError
  <2> QED BY <2>1, AcpSettleGives
<1>4. CASE line.t = "request_permission"
  <2> DEFINE c == [b EXCEPT !.approvals = @ \cup {line.n}]
             e == <<NumberedAs("approval_request", line.n)>>
  <2>1. r = [a |-> c, frames |-> <<>>, events |-> e]
    BY <1>4, AcpNames DEF Acp!Translate, Acp!OnRequest
  <2>2. line.n \in 1..MaxAsks BY <1>0, <1>4, EngineAssumption
  <2>3. c \in AcpState /\ c.queued = b.queued BY <2>2 DEF AcpState
  <2>4. e \in Seq(Carried(EventName)) /\ MsgsOf(e, Settling) = {}
    <3>1. "approval_request" \in EventName BY DEF EventName
    <3> QED BY <1>0, <3>1, CarriedNone
  <2> HIDE DEF c, e, r
  <2>5. AcpGives(b, [a |-> c, frames |-> <<>>, events |-> e], {})
    BY <2>3, <2>4, AcpNothing, AcpStill
  <2> QED BY <2>1, <2>5 DEF r
<1>5. CASE line.t = "no-session/load"
  <2>1. r = [a |-> b, frames |-> <<Nameless("session/new")>>, events |-> <<>>]
    BY <1>5, AcpNames DEF Acp!Translate, Acp!OnError, Nameless
  <2> QED BY <1>f, <2>1, AcpAsksAgain
<1>6. CASE line.t = "signed-out" /\ ~b.signedIn
  <2> DEFINE c == [b EXCEPT !.signedIn = TRUE]
  <2>1. r = [a |-> c, frames |-> <<Nameless("authenticate")>>, events |-> <<>>]
    BY <1>6, AcpNames DEF Acp!Translate, Acp!OnError, Nameless
  <2>2. c \in AcpState /\ c.queued = b.queued BY DEF AcpState
  <2> HIDE DEF c
  <2> QED BY <1>f, <2>1, <2>2, AcpAsksAgain
<1>7. CASE \/ line.t \in {"no-session/new", "no-authenticate", "no-initialize"}
           \/ line.t = "signed-out" /\ b.signedIn
  <2>1. r = Acp!Unopened(b, TRUE) \/ r = Acp!Unopened(b, FALSE)
    BY <1>7 DEF Acp!Translate, Acp!OnError
  <2> QED BY <2>1, AcpUnopenedGives
<1> QED BY <1>0, <1>1, <1>2, <1>3, <1>4, <1>5, <1>6, <1>7 DEF AcpLine

-----------------------------------------------------------------------------
\* The agent.

AcpProcess ==
    [in : Seq(Carried(AcpFrame)), turn : BOOLEAN, asks : SUBSET (1..MaxAsks), asked : 0..MaxAsks]

AcpSaid == [e : AcpProcess, lines : Seq(Asking(AcpLine))]

\* What the process prints is typed, and so is the process.
LEMMA AcpSays ==
    ASSUME NEW e \in AcpProcess, NEW t \in AcpLine, t # "request_permission"
    PROVE  /\ Acp!Says(e, <<Acp!Line(t)>>) \in AcpSaid
           /\ Acp!Says(e, <<>>) \in AcpSaid
<1>1. <<>> \in Seq(Msg) OBVIOUS
<1>2. Nameless(t) \in Asking(AcpLine)
  <2>1. t \notin {"can_use_tool", "requestApproval", "request_permission"} BY DEF AcpLine
  <2> QED BY <1>1, <2>1, LineOne
<1>3. Acp!Line(t) = Nameless(t) BY DEF Acp!Line, Acp!Frame, Nameless
<1>4. <<Nameless(t)>> \in Seq(Asking(AcpLine)) /\ <<>> \in Seq(Asking(AcpLine)) BY <1>2
<1> QED BY <1>3, <1>4 DEF Acp!Says, AcpSaid

LEMMA AcpReadsTyped ==
    ASSUME NEW e \in AcpProcess, NEW f \in Carried(AcpFrame), NEW s \in Acp!Reads(e, f)
    PROVE  s \in AcpSaid
<1>0. f.t \in AcpFrame BY DEF Carried
<1>1. ASSUME NEW t \in AcpLine, t # "request_permission"
      PROVE  Acp!Says(e, <<Acp!Line(t)>>) \in AcpSaid
  BY <1>1, AcpSays
<1>2. \A d \in AcpProcess : Acp!Says(d, <<>>) \in AcpSaid
  <2>1. "opened" \in AcpLine BY DEF AcpLine
  <2> QED BY <2>1, AcpSays
<1>3. ASSUME NEW t \in AcpLine, t # "request_permission", s = Acp!Says(e, <<Acp!Line(t)>>)
      PROVE  s \in AcpSaid
  BY <1>1, <1>3
<1>l. {"initialize", "no-initialize", "opened", "no-session/load", "no-session/new", "signed-out",
       "authenticate", "no-authenticate", "session/prompt", "no-session/prompt"} \subseteq AcpLine
  BY DEF AcpLine
<1>4. CASE f.t = "initialize"
  <2>1. s = Acp!Says(e, <<Acp!Line("initialize")>>) \/ s = Acp!Says(e, <<Acp!Line("no-initialize")>>)
    BY <1>4 DEF Acp!Reads
  <2> QED BY <1>3, <1>l, <2>1
<1>5. CASE f.t = "session/load"
  <2>1. s = Acp!Says(e, <<Acp!Line("opened")>>) \/ s = Acp!Says(e, <<Acp!Line("no-session/load")>>)
    BY <1>5 DEF Acp!Reads
  <2> QED BY <1>3, <1>l, <2>1
<1>6. CASE f.t = "session/new"
  <2>1. \E t \in {"opened", "no-session/new", "signed-out"} : s = Acp!Says(e, <<Acp!Line(t)>>)
    BY <1>6 DEF Acp!Reads
  <2> QED BY <1>3, <1>l, <2>1
<1>7. CASE f.t = "authenticate"
  <2>1. s = Acp!Says(e, <<Acp!Line("authenticate")>>)
        \/ s = Acp!Says(e, <<Acp!Line("no-authenticate")>>)
    BY <1>7 DEF Acp!Reads
  <2> QED BY <1>3, <1>l, <2>1
<1>8. CASE f.t = "session/prompt"
  <2>1. s = Acp!Says([e EXCEPT !.turn = TRUE], <<>>)
        \/ s = Acp!Says(e, <<Acp!Line("no-session/prompt")>>)
    BY <1>8 DEF Acp!Reads
  <2>2. [e EXCEPT !.turn = TRUE] \in AcpProcess BY DEF AcpProcess
  <2> QED BY <1>2, <1>3, <1>l, <2>1, <2>2
<1>9. CASE f.t = "answer"
  <2>1. s = Acp!Says([e EXCEPT !.asks = @ \ {f.n}], <<>>) BY <1>9 DEF Acp!Reads
  <2>2. [e EXCEPT !.asks = @ \ {f.n}] \in AcpProcess BY DEF AcpProcess
  <2> QED BY <1>2, <2>1, <2>2
<1>10. CASE f.t = "session/cancel"
  <2> DEFINE d == [e EXCEPT !.turn = FALSE, !.asks = {}]
  <2>1. s = Acp!Says(d, <<Acp!Line("session/prompt")>>) \/ s = Acp!Says(e, <<>>)
    BY <1>10 DEF Acp!Reads
  <2>2. d \in AcpProcess BY DEF AcpProcess
  <2> HIDE DEF d
  <2> QED BY <1>2, <1>l, <2>1, <2>2, AcpSays
<1> QED BY <1>0, <1>4, <1>5, <1>6, <1>7, <1>8, <1>9, <1>10 DEF AcpFrame

LEMMA AcpStepsTyped ==
    ASSUME NEW e \in AcpProcess, NEW s \in Acp!ProcessSteps(e, MaxAsks)
    PROVE  s \in AcpSaid
<1>0. e.in \in Seq(Carried(AcpFrame)) /\ e.asked \in 0..MaxAsks BY DEF AcpProcess
<1>a. MaxAsks \in Nat BY EngineAssumption
<1>1. \/ e.in # <<>> /\ s \in Acp!Reads([e EXCEPT !.in = Tail(@)], Head(e.in))
      \/ s = Acp!Says([e EXCEPT !.turn = FALSE], <<Acp!Line("session/prompt")>>)
      \/ e.asked < MaxAsks /\ s = Acp!Says([e EXCEPT !.asks = {e.asked + 1}, !.asked = @ + 1],
                            <<Acp!Numbered("request_permission", e.asked + 1)>>)
  BY DEF Acp!ProcessSteps
<1>2. CASE e.in # <<>> /\ s \in Acp!Reads([e EXCEPT !.in = Tail(@)], Head(e.in))
  <2>1. Tail(e.in) \in Seq(Carried(AcpFrame)) /\ Head(e.in) \in Carried(AcpFrame)
    BY <1>0, <1>2, TailOnce
  <2>2. [e EXCEPT !.in = Tail(@)] \in AcpProcess BY <2>1 DEF AcpProcess
  <2> QED BY <1>2, <2>1, <2>2, AcpReadsTyped
<1>3. CASE s = Acp!Says([e EXCEPT !.turn = FALSE], <<Acp!Line("session/prompt")>>)
  <2>1. [e EXCEPT !.turn = FALSE] \in AcpProcess BY DEF AcpProcess
  <2>2. "session/prompt" \in AcpLine BY DEF AcpLine
  <2> QED BY <1>3, <2>1, <2>2, AcpSays
<1>4. CASE e.asked < MaxAsks /\ s = Acp!Says([e EXCEPT !.asks = {e.asked + 1}, !.asked = @ + 1],
                            <<Acp!Numbered("request_permission", e.asked + 1)>>)
  <2> DEFINE d == [e EXCEPT !.asks = {e.asked + 1}, !.asked = @ + 1]
             asks == NumberedAs("request_permission", e.asked + 1)
  <2>1. s = Acp!Says(d, <<asks>>) BY <1>4 DEF Acp!Numbered, NumberedAs
  <2>2. e.asked + 1 \in 1..MaxAsks /\ e.asked + 1 \in 0..MaxAsks /\ e.asked + 1 # 0
    BY <1>0, <1>4, <1>a
  <2>3. d \in AcpProcess BY <2>2 DEF AcpProcess
  <2>4. <<>> \in Seq(Msg) /\ "request_permission" \in AcpLine BY DEF AcpLine
  <2>5. asks \in Asking(AcpLine) BY <2>2, <2>4 DEF NumberedAs, Asking, Carried
  <2> HIDE DEF asks, d
  <2>6. <<asks>> \in Seq(Asking(AcpLine)) BY <2>5
  <2> QED BY <2>1, <2>3, <2>6 DEF AcpSaid, Acp!Says
<1> QED BY <1>1, <1>2, <1>3, <1>4

LEMMA AcpFreshTyped ==
    ASSUME NEW mode \in Mode, NEW resume \in BOOLEAN
    PROVE  LET b == Acp!Fresh(mode, resume)
               f == Acp!Start(b)
           IN  /\ b \in AcpState /\ b.queued = <<>> /\ b.mode = mode
               /\ f \in Seq(Carried(AcpFrame)) /\ MsgsOf(f, Settling) = {}
               /\ [Acp!FreshProcess EXCEPT !.in = f] \in AcpProcess
<1> DEFINE b == Acp!Fresh(mode, resume)
           f == Acp!Start(b)
<1>2. b \in AcpState /\ b.mode = mode /\ b.queued = <<>> BY AcpNothing DEF Acp!Fresh, AcpState
<1>4. f = <<Nameless("initialize")>> BY DEF Acp!Start, Acp!Frame, Nameless
<1>5. f \in Seq(Carried(AcpFrame)) /\ MsgsOf(f, Settling) = {}
  <2>1. "initialize" \in AcpFrame BY DEF AcpFrame
  <2> QED BY <1>4, <2>1, AcpFrameOne
<1> HIDE DEF f
<1>6. [Acp!FreshProcess EXCEPT !.in = f] \in AcpProcess
  <2>1. 0 \in 0..MaxAsks BY EngineAssumption
  <2> QED BY <1>5, <2>1 DEF Acp!FreshProcess, AcpProcess
<1> QED BY <1>2, <1>5, <1>6 DEF f

-----------------------------------------------------------------------------
\* --- what a line asks the clients ---

\* What an adapter tells of a line: a request it shows is all that is told of it.
Telling(events, line) ==
    \/ \E n \in {0, 1, 2} : Len(events) = n
         /\ \A i \in DOMAIN events : events[i].t # "approval_request"
    \/ /\ line.t \in {"can_use_tool", "requestApproval", "request_permission"}
       /\ events = <<NumberedAs("approval_request", line.n)>>

\* Events that ask nothing.
LEMMA TellingOne ==
    ASSUME NEW t, NEW q, t # "approval_request", NEW line
    PROVE  /\ Telling(<<>>, line)
           /\ Telling(<<[t |-> t, ms |-> q, n |-> 0]>>, line)
           /\ Telling(<<Nameless(t)>>, line)
           /\ Telling(<<[t |-> t, ms |-> q, n |-> 0], Nameless("ready")>>, line)
<1>1. Telling(<<>>, line)
  <2>1. Len(<<>>) = 0 /\ DOMAIN <<>> = {} OBVIOUS
  <2> QED BY <2>1 DEF Telling
<1>2. ASSUME NEW x, x.t # "approval_request" PROVE Telling(<<x>>, line)
  <2>1. Len(<<x>>) = 1 /\ DOMAIN <<x>> = {1} /\ <<x>>[1] = x OBVIOUS
  <2> QED BY <1>2, <2>1 DEF Telling
<1>3. ASSUME NEW x, NEW y, x.t # "approval_request", y.t # "approval_request"
      PROVE  Telling(<<x, y>>, line)
  <2>1. Len(<<x, y>>) = 2 /\ DOMAIN <<x, y>> = {1, 2} /\ <<x, y>>[1] = x /\ <<x, y>>[2] = y
    OBVIOUS
  <2> QED BY <1>3, <2>1 DEF Telling
<1>4. [t |-> t, ms |-> q, n |-> 0].t = t /\ Nameless(t).t = t /\ Nameless("ready").t = "ready"
  BY DEF Nameless
<1> QED BY <1>1, <1>2, <1>3, <1>4

LEMMA ClaudeTells ==
    ASSUME NEW b \in ClaudeState, NEW line \in Asking(ClaudeLine)
    PROVE  Telling(Claude!Translate(b, line).events, line)
<1> DEFINE r == Claude!TranslateLine(b, line)
<1>1. Claude!Translate(b, line).events = r.events
  BY ClaudeNames DEF Claude!Translate, Claude!SteerReady
<1>2. line.t \in ClaudeLine BY DEF Asking, Carried
<1>3. CASE line.t = "result"
  <2>1. r.events = <<Nameless("ready")>>
    BY <1>3, ClaudeNames DEF Claude!TranslateLine, Claude!OnTurnEnd, Nameless
  <2> HIDE DEF r
  <2> QED BY <1>1, <2>1, TellingOne
<1>4. CASE line.t = "can_use_tool"
  <2>1. r.events = <<NumberedAs("approval_request", line.n)>>
    BY <1>4, ClaudeNames DEF Claude!TranslateLine, Claude!OnControlRequest
  <2> HIDE DEF r
  <2> QED BY <1>1, <1>4, <2>1 DEF Telling
<1>5. CASE line.t \notin {"result", "can_use_tool"}
  <2>1. r.events = <<>>
    BY <1>2, <1>5, ClaudeNames DEF Claude!TranslateLine, Claude!OnUser, Claude!OnControlResponse,
       Claude!OnTask, ClaudeLine
  <2>2. "ready" # "approval_request" OBVIOUS
  <2>3. Telling(<<>>, line) BY <2>2, TellingOne
  <2> HIDE DEF r
  <2> QED BY <1>1, <2>1, <2>3
<1> QED BY <1>3, <1>4, <1>5

LEMMA CodexTells ==
    ASSUME NEW b \in CodexState, NEW line \in Asking(CodexLine)
    PROVE  Telling(Codex!Translate(b, line).events, line)
<1> DEFINE r == CASE line.t = "requestApproval" -> Codex!OnServerRequest(b, line)
                  [] line.t \in {"turn/started", "turn/completed", "resolved"} ->
                        Codex!OnNotification(b, line)
                  [] OTHER -> Codex!OnResponse(b, line)
<1>1. Codex!Translate(b, line).events = r.events
  <2>1. Codex!Translate(b, line) = Codex!NextWaiting(r) BY DEF Codex!Translate
  <2> HIDE DEF r
  <2> QED BY <2>1, CodexNames DEF Codex!NextWaiting, Codex!TurnStart
<1>2. line.t \in CodexLine BY DEF Asking, Carried
<1>e. Telling(<<>>, line)
  <2>2. "ready" # "approval_request" OBVIOUS
  <2> QED BY <2>2, TellingOne
<1>3. CASE line.t = "requestApproval"
  <2>1. r.events = <<NumberedAs("approval_request", line.n)>> \/ r.events = <<>>
    BY <1>3, CodexNames DEF Codex!OnServerRequest
  <2> HIDE DEF r
  <2> QED BY <1>1, <1>3, <1>e, <2>1 DEF Telling
<1>4. CASE line.t \in {"turn/started", "turn/completed", "resolved"}
  <2>1. r.events = <<>> \/ r.events = <<Nameless("ready")>>
    BY <1>4, CodexNames DEF Codex!OnNotification, Nameless
  <2> HIDE DEF r
  <2> QED BY <1>1, <1>e, <2>1, TellingOne
<1>5. CASE line.t \notin {"requestApproval", "turn/started", "turn/completed", "resolved"}
  <2>1. r = Codex!OnResponse(b, line) BY <1>5
  <2>2. \/ r.events = <<>> \/ r.events = <<Nameless("ready")>>
        \/ r.events = <<[t |-> "refused", ms |-> b.queued, n |-> 0], Nameless("ready")>>
        \/ r.events = <<[t |-> "steered", ms |-> b.steering, n |-> 0]>>
        \/ r.events = <<[t |-> "refused", ms |-> b.afterRollback, n |-> 0]>>
    <3> HIDE DEF r
    <3> QED BY <1>2, <1>5, <2>1, CodexNames
            DEF Codex!OnResponse, Codex!ThreadOpened, Codex!TurnStart, Nameless, CodexLine
  <2> HIDE DEF r
  <2>3. "refused" # "approval_request" /\ "steered" # "approval_request"
        /\ "ready" # "approval_request"
    OBVIOUS
  <2> QED BY <1>1, <1>e, <2>2, <2>3, TellingOne
<1> QED BY <1>3, <1>4, <1>5

LEMMA AcpTells ==
    ASSUME NEW b \in AcpState, NEW line \in Asking(AcpLine)
    PROVE  Telling(Acp!Translate(b, line).events, line)
<1> DEFINE r == Acp!Translate(b, line)
<1>2. line.t \in AcpLine BY DEF Asking, Carried
<1>e. Telling(<<>>, line)
  <2>2. "ready" # "approval_request" OBVIOUS
  <2> QED BY <2>2, TellingOne
<1>3. CASE line.t = "request_permission"
  <2>1. r.events = <<NumberedAs("approval_request", line.n)>>
    BY <1>3, AcpNames DEF Acp!Translate, Acp!OnRequest
  <2> HIDE DEF r
  <2>2. Telling(r.events, line) BY <1>3, <2>1 DEF Telling
  <2> QED BY <2>2 DEF r
<1>4. CASE line.t \in {"initialize", "authenticate"}
  <2>1. r.events = <<>> BY <1>4, AcpNames DEF Acp!Translate, Acp!OnResponse
  <2> QED BY <1>e, <2>1
<1>5. CASE line.t \in {"opened", "session/prompt", "no-session/prompt"}
  <2>1. \A s : Append(<<>>, s) = <<s>> OBVIOUS
  <2>2. r.events = <<>> \/ r.events = <<Nameless("ready")>>
    <3>1. CASE line.t = "opened"
      <4> DEFINE c == [b EXCEPT !.session = TRUE]
      <4>1. c.queued = b.queued BY DEF AcpState
      <4>2. r = IF b.queued = <<>> THEN [a |-> c, frames |-> <<>>, events |-> <<Nameless("ready")>>]
                ELSE Acp!NextQueued(c, <<Nameless("ready")>>)
        BY <3>1, AcpNames DEF Acp!Translate, Acp!OnResponse, Acp!Opened, Nameless
      <4> HIDE DEF r, c
      <4> QED BY <4>1, <4>2, AcpNames DEF Acp!NextQueued, Acp!Send
    <3>2. CASE line.t # "opened"
      <4> DEFINE c == [b EXCEPT !.prompt = FALSE]
      <4>1. r = Acp!NextQueued(c, <<>>)
        BY <1>5, <3>2 DEF Acp!Translate, Acp!OnResponse, Acp!OnError, Acp!Settle
      <4> HIDE DEF r, c
      <4> QED BY <4>1, <2>1, AcpNames DEF Acp!NextQueued, Acp!Send, Nameless
    <3> QED BY <3>1, <3>2
  <2> HIDE DEF r
  <2>3. Telling(r.events, line)
    <3>1. "ready" # "approval_request" OBVIOUS
    <3> QED BY <1>e, <2>2, <3>1, TellingOne
  <2> QED BY <2>3 DEF r
<1>6. CASE line.t \notin {"request_permission", "initialize", "authenticate", "opened",
                          "session/prompt", "no-session/prompt"}
  <2>1. r = Acp!OnError(b, line) BY <1>2, <1>6 DEF Acp!Translate
  <2>2. \/ r.events = <<>>
        \/ r.events = <<[t |-> "refused", ms |-> b.queued, n |-> 0], Nameless("ready")>>
    <3> HIDE DEF r
    <3>1. b.signedIn \in BOOLEAN BY DEF AcpState
    <3> QED BY <1>2, <1>6, <2>1, <3>1, AcpNames DEF Acp!OnError, Acp!Unopened, Nameless, AcpLine
  <2> HIDE DEF r
  <2>3. Telling(r.events, line)
    <3>1. "refused" # "approval_request" OBVIOUS
    <3> QED BY <1>e, <2>2, <3>1, TellingOne
  <2> QED BY <2>3 DEF r
<1> QED BY <1>3, <1>4, <1>5, <1>6

-----------------------------------------------------------------------------
\* --- Claude Code: what an op does to its state ---

Answered(fs) == {fs[i].n : i \in {j \in DOMAIN fs : fs[j].t = "answer"}}
Written(fs) == MsgsOf(fs, {"user", "now"})

\* The calls that frames answer.
LEMMA AnsweredIs ==
    ASSUME NEW fs, NEW n
    PROVE  n \in Answered(fs) <=> \E i \in DOMAIN fs : fs[i].t = "answer" /\ fs[i].n = n
BY DEF Answered

LEMMA AnsweredConcat ==
    ASSUME NEW R, NEW s \in Seq(R), NEW u \in Seq(R)
    PROVE  Answered(s \o u) = Answered(s) \cup Answered(u)
<1> DEFINE w == s \o u
           l == Len(s)
<1>1. /\ \A i \in DOMAIN s : i \in DOMAIN w /\ w[i] = s[i]
      /\ \A i \in DOMAIN u : l + i \in DOMAIN w /\ w[l + i] = u[i]
      /\ \A i \in DOMAIN w : (i \in DOMAIN s /\ w[i] = s[i])
                             \/ (i - l \in DOMAIN u /\ w[i] = u[i - l])
  BY ConcatParts
<1> HIDE DEF w, l
<1>2. \A n \in Answered(w) : n \in Answered(s) \/ n \in Answered(u) BY <1>1, AnsweredIs
<1>3. \A n \in Answered(s) : n \in Answered(w) BY <1>1, AnsweredIs
<1>4. \A n \in Answered(u) : n \in Answered(w) BY <1>1, AnsweredIs
<1> QED BY <1>2, <1>3, <1>4 DEF w

LEMMA AnsweredOf ==
    ASSUME NEW calls \in SUBSET (1..MaxAsks)
    PROVE  calls \subseteq Answered(AnswersOf(calls))
<1> DEFINE T == {"answer"}
<1>1. "answer" \in T OBVIOUS
<1> HIDE DEF T
<1> DEFINE s == AnswersOf(calls)
<1>2. (\A i \in DOMAIN s : s[i].t = "answer") /\ \A n \in calls : \E i \in DOMAIN s : s[i].n = n
  BY <1>1, AnswerFrames
<1> HIDE DEF s
<1>3. calls \subseteq Answered(s) BY <1>2 DEF Answered
<1> QED BY <1>3 DEF s

-----------------------------------------------------------------------------
\* A steer that goes out writes messages, and answers nothing.
LEMMA ClaudeReadyDoes ==
    ASSUME NEW r \in ClaudeOutput
    PROVE  LET s == Claude!SteerReady(r)
           IN  /\ s \in ClaudeOutput /\ s.events = r.events
               /\ s.a.mode = r.a.mode /\ s.a.active = r.a.active /\ s.a.held = r.a.held
               /\ s.a.queued = r.a.queued /\ s.a.approvals = r.a.approvals
               /\ s.a.subagent = r.a.subagent
               /\ s.a.steering.frames # <<>> => r.a.active /\ r.a.steering.frames # <<>>
               /\ In(s.a.steering.frames) \cup Written(s.frames)
                    = In(r.a.steering.frames) \cup Written(r.frames)
               /\ Written(r.frames) \subseteq Written(s.frames)
               /\ Answered(r.frames) \subseteq Answered(s.frames)
<1> DEFINE s == Claude!SteerReady(r)
           st == r.a.steering.frames
           go == EachOf("now", st)
           c == [r.a EXCEPT !.steering = Claude!NoSteering]
<1>1. r.a \in ClaudeState /\ r.frames \in Seq(Carried(ClaudeFrame))
      /\ r.events \in Seq(Carried(EventName))
  BY DEF ClaudeOutput
<1>2. st \in Seq(Msg) /\ r.a.active \in BOOLEAN BY <1>1, ClaudeQueueParts DEF ClaudeState
<1>3. CASE s = r /\ (st # <<>> => r.a.active)
  BY <1>3
<1>4. CASE s = [a |-> c, frames |-> r.frames \o go, events |-> r.events]
  <2>1. <<>> \in Seq(Msg) OBVIOUS
  <2>2. Claude!NoSteering \in [frames : Seq(Msg), waiting : Nat, late : BOOLEAN]
        /\ Claude!NoSteering.frames = <<>>
    BY <2>1 DEF Claude!NoSteering
  <2>3. c \in ClaudeState /\ c.steering.frames = <<>> /\ c.mode = r.a.mode
        /\ c.active = r.a.active /\ c.held = r.a.held /\ c.queued = r.a.queued
        /\ c.approvals = r.a.approvals /\ c.subagent = r.a.subagent
    BY <1>1, <2>2 DEF ClaudeState
  <2>4. go \in Seq(Carried(ClaudeFrame)) /\ MsgsOf(go, {"user", "now"}) = ToSet(st)
    BY <1>2, EachFrames DEF ClaudeFrame
  <2>5. ToSet(st) = In(st) BY <1>2, ToSetIn
  <2> HIDE DEF c, go, st
  <2>6. r.frames \o go \in Seq(Carried(ClaudeFrame))
        /\ Written(r.frames \o go) = Written(r.frames) \cup In(st)
        /\ Answered(r.frames \o go) = Answered(r.frames) \cup Answered(go)
    BY <1>1, <2>4, <2>5, ConcatOnce, MsgsConcat, AnsweredConcat DEF Written
  <2>7. s.a = c /\ s.frames = r.frames \o go /\ s.events = r.events BY <1>4
  <2>8. s \in ClaudeOutput BY <1>1, <1>4, <2>3, <2>6 DEF ClaudeOutput
  <2>9. In(<<>>) = {} BY EmptyOnce
  <2> HIDE DEF s
  <2> QED BY <2>3, <2>6, <2>7, <2>8, <2>9 DEF st, s
<1>5. \/ s = r /\ (st # <<>> => r.a.active)
      \/ s = [a |-> c, frames |-> r.frames \o go, events |-> r.events]
  BY <1>2, ClaudeNames DEF Claude!SteerReady
<1> QED BY <1>3, <1>4, <1>5

\* What an op does to the adapter, before a steer that waited goes out.
ClaudeOp(b, r, op) ==
    /\ r \in ClaudeOutput
    /\ r.a.mode = IF op.op = "set_approval_mode" THEN op.mode ELSE b.mode
    /\ r.a.active = b.active
    /\ r.a.steering.frames # <<>> => b.active \/ b.steering.frames # <<>>
    /\ ~b.active /\ r.a.held # <<>> => b.held # <<>>
    /\ r.a.queued \subseteq b.queued \cup Written(r.frames) \cup In(r.a.steering.frames)
    /\ In(b.steering.frames) \subseteq Written(r.frames) \cup In(r.a.steering.frames)
    /\ b.approvals \subseteq r.a.approvals \cup Answered(r.frames)
    /\ op.op = "approve" => op.calls \cap b.approvals \subseteq Answered(r.frames)
    /\ b.active /\ op.op = "user_message" => op.m \in In(r.a.held)

LEMMA NoWords ==
    /\ \A T : <<>> \in Seq(Carried(T))
    /\ Written(<<>>) = {} /\ Answered(<<>>) = {} /\ In(<<>>) = {}
<1>1. DOMAIN <<>> = {} OBVIOUS
<1>2. In(<<>>) = {} BY EmptyOnce
<1> QED BY <1>1, <1>2, MsgsEmpty DEF Written, Answered

LEMMA ClaudeSteerDoes ==
    ASSUME NEW b \in ClaudeState, NEW op, op.op = "steer", NEW index
    PROVE  ClaudeOp(b, Claude!Steer(b, index), op)
<1> DEFINE r == Claude!Steer(b, index)
           is == Claude!HeldIndex(b, index)
           p == PickedOut(b.held, index, is)
           st == b.steering.frames
           d == Claude!Released(b, p)
           w == st \o p.out
           on == [b.steering EXCEPT !.frames = w]
           anew == [frames |-> p.out, waiting |-> 1, late |-> FALSE]
           moves == <<Nameless("background_tasks")>>
           go == EachOf("now", p.out)
<1>0. b.held \in Seq(Msg) /\ st \in Seq(Msg) BY ClaudeQueueParts
<1>1. is \in SUBSET (1..Len(b.held)) BY HeldIndexIn
<1>2. p.out \in Seq(Msg) /\ p.left \in Seq(Msg)
  <2> HIDE DEF is
  <2> QED BY <1>0, <1>1, PickedOnce
<1>g. r \in ClaudeOutput BY ClaudeSteerGives DEF ClaudeGives
<1>3. r = IF ~b.active \/ p.out = <<>>
          THEN [a |-> b, frames |-> <<>>, events |-> <<>>]
          ELSE IF st # <<>>
          THEN [a |-> [d EXCEPT !.steering = on], frames |-> <<>>, events |-> <<>>]
          ELSE IF b.subagent
          THEN [a |-> [d EXCEPT !.steering = anew], frames |-> moves, events |-> <<>>]
          ELSE [a |-> d, frames |-> go, events |-> <<>>]
  <2>1. Claude!Picked(b.held, index, is) = p BY ClaudeNames
  <2>2. d.steering = b.steering BY DEF Claude!Released
  <2>3. [d EXCEPT !.steering.frames = @ \o p.out] = [d EXCEPT !.steering = on] BY <2>2
  <2> HIDE DEF p, d, is
  <2> QED BY <2>1, <2>3, ClaudeNames DEF Claude!Steer, d, is, Nameless
<1>4. d.mode = b.mode /\ d.active = b.active /\ d.approvals = b.approvals
      /\ d.steering = b.steering /\ d.queued = b.queued \cup In(p.out) /\ d.held = p.left
  <2>1. ToSet(p.out) = In(p.out) BY <1>2, ToSetIn
  <2>2. d = [b EXCEPT !.held = p.left, !.queued = @ \cup In(p.out)]
    BY <2>1, ClaudeNames DEF Claude!Released
  <2> HIDE DEF p, d
  <2> QED BY <2>2 DEF ClaudeState
<1>5. d \in ClaudeState
  <2>1. In(p.out) \subseteq Msg BY <1>2, ToSetIn
  <2>2. ToSet(p.out) = In(p.out) BY <1>2, ToSetIn
  <2>3. d = [b EXCEPT !.held = p.left, !.queued = @ \cup In(p.out)]
    BY <2>2, ClaudeNames DEF Claude!Released
  <2> HIDE DEF p, d
  <2> QED BY <1>2, <2>1, <2>3 DEF ClaudeState
<1> HIDE DEF p, d, is, r
<1>e. Written(<<>>) = {} /\ Answered(<<>>) = {} /\ In(<<>>) = {} BY NoWords
<1>6. CASE ~b.active \/ p.out = <<>>
  <2>1. r.a = b /\ r.frames = <<>> BY <1>3, <1>6
  <2> QED BY <1>e, <1>g, <2>1 DEF ClaudeOp, r
<1>7. CASE b.active /\ p.out # <<>> /\ st # <<>>
  <2> DEFINE c == [d EXCEPT !.steering = on]
  <2>1. w \in Seq(Msg) /\ In(w) = In(st) \cup In(p.out) BY <1>0, <1>2, ConcatOnce
  <2>2. on.frames = w BY DEF ClaudeState
  <2> HIDE DEF w, on
  <2>3. c.mode = b.mode /\ c.active = b.active /\ c.approvals = b.approvals
        /\ c.steering = on /\ c.queued = b.queued \cup In(p.out)
    BY <1>4, <1>5 DEF ClaudeState
  <2> HIDE DEF c
  <2>4. r.a = c /\ r.frames = <<>> BY <1>3, <1>7 DEF c
  <2> QED BY <1>7, <1>e, <1>g, <2>1, <2>2, <2>3, <2>4 DEF ClaudeOp, r
<1>8. CASE b.active /\ p.out # <<>> /\ st = <<>> /\ b.subagent
  <2> DEFINE c == [d EXCEPT !.steering = anew]
  <2>2. anew.frames = p.out OBVIOUS
  <2> HIDE DEF anew
  <2>3. c.mode = b.mode /\ c.active = b.active /\ c.approvals = b.approvals
        /\ c.steering = anew /\ c.queued = b.queued \cup In(p.out)
    BY <1>4, <1>5 DEF ClaudeState
  <2> HIDE DEF c
  <2>4. r.a = c BY <1>3, <1>8 DEF c
  <2> QED BY <1>8, <1>e, <1>g, <2>2, <2>3, <2>4 DEF ClaudeOp, r
<1>9. CASE b.active /\ p.out # <<>> /\ st = <<>> /\ ~b.subagent
  <2>1. r.a = d /\ r.frames = go BY <1>3, <1>9
  <2>2. Written(go) = In(p.out)
    <3>1. MsgsOf(go, {"user", "now"}) = ToSet(p.out) BY <1>2, EachFrames DEF ClaudeFrame
    <3>2. ToSet(p.out) = In(p.out) BY <1>2, ToSetIn
    <3> QED BY <3>1, <3>2 DEF Written
  <2> HIDE DEF go
  <2> QED BY <1>4, <1>9, <1>e, <1>g, <2>1, <2>2 DEF ClaudeOp, r
<1> QED BY <1>6, <1>7, <1>8, <1>9 DEF r

\* An op of Claude Code holds what a turn keeps, and answers what it says.
LEMMA ClaudeOpDoes ==
    ASSUME NEW b \in ClaudeState, NEW op \in AnyOp
    PROVE  ClaudeOp(b, Claude!EncodeOp(b, op), op)
<1> DEFINE r == Claude!EncodeOp(b, op)
<1>e. Written(<<>>) = {} /\ Answered(<<>>) = {} /\ In(<<>>) = {} BY NoWords
<1>t. b.held \in Seq(Msg) /\ b.active \in BOOLEAN BY DEF ClaudeState
<1>1. CASE op.op = "user_message"
  <2>1. op.m \in Msg BY <1>1 DEF AnyOp
  <2>2. r = Claude!UserMessage(b, op.m) BY <1>1 DEF Claude!EncodeOp
  <2>3. r \in ClaudeOutput BY <2>1, <2>2, ClaudeUserGives DEF ClaudeGives
  <2> DEFINE c == [b EXCEPT !.held = Append(b.held, op.m)]
  <2>4. IF b.active THEN r.a = c ELSE r.a = b
    BY <2>2, ClaudeNames DEF Claude!UserMessage
  <2>5. c.held = Append(b.held, op.m) /\ c.mode = b.mode /\ c.active = b.active
        /\ c.approvals = b.approvals /\ c.queued = b.queued /\ c.steering = b.steering
    BY DEF ClaudeState
  <2>6. op.m \in In(Append(b.held, op.m)) BY <1>t, <2>1, AppendOnce
  <2> HIDE DEF c, r
  <2>7. ClaudeOp(b, r, op) BY <1>1, <1>t, <2>3, <2>4, <2>5, <2>6 DEF ClaudeOp
  <2> QED BY <2>7 DEF r
<1>2. CASE op.op = "approve"
  <2>1. op.calls \in SUBSET (1..MaxAsks) BY <1>2 DEF AnyOp
  <2>2. r = Claude!Approve(b, op.calls) BY <1>2 DEF Claude!EncodeOp
  <2>3. r \in ClaudeOutput BY <2>1, <2>2, ClaudeApproveGives DEF ClaudeGives
  <2> DEFINE known == op.calls \cap b.approvals
             c == [b EXCEPT !.approvals = @ \ known]
  <2>4. r.a = c /\ r.frames = AnswersOf(known) BY <2>2, ClaudeNames DEF Claude!Approve
  <2>5. c.held = b.held /\ c.mode = b.mode /\ c.active = b.active
        /\ c.approvals = b.approvals \ known /\ c.queued = b.queued /\ c.steering = b.steering
    BY DEF ClaudeState
  <2>6. known \subseteq Answered(r.frames) BY <2>1, <2>4, AnsweredOf
  <2> HIDE DEF c, r
  <2>7. ClaudeOp(b, r, op) BY <1>2, <1>t, <2>3, <2>4, <2>5, <2>6 DEF ClaudeOp
  <2> QED BY <2>7 DEF r
<1>3. CASE op.op = "interrupt"
  <2>2. r = Claude!Interrupt(b, op.index) BY <1>3 DEF Claude!EncodeOp
  <2> DEFINE q == IF Claude!HeldIndex(b, op.index) = {} THEN b.held
                  ELSE Claude!ToFront(b.held, CHOOSE i \in Claude!HeldIndex(b, op.index) : TRUE)
             c == [b EXCEPT !.held = q]
  <2>3. r \in ClaudeOutput BY <2>2, ClaudeInterruptGives DEF ClaudeGives
  <2>4. IF b.active THEN r.a = c ELSE r.a = b BY <2>2, ClaudeNames DEF Claude!Interrupt
  <2>5. c.mode = b.mode /\ c.active = b.active
        /\ c.approvals = b.approvals /\ c.queued = b.queued /\ c.steering = b.steering
    BY DEF ClaudeState
  <2> HIDE DEF c, r
  <2>7. ClaudeOp(b, r, op) BY <1>3, <1>t, <2>3, <2>4, <2>5 DEF ClaudeOp
  <2> QED BY <2>7 DEF r
<1>4. CASE op.op = "steer"
  <2>2. r = Claude!Steer(b, op.index) BY <1>4 DEF Claude!EncodeOp
  <2> HIDE DEF r
  <2>7. ClaudeOp(b, r, op) BY <1>4, <2>2, ClaudeSteerDoes
  <2> QED BY <2>7 DEF r
<1>5. CASE op.op = "unqueue"
  <2>2. r = Claude!Unqueue(b, op.index) BY <1>5 DEF Claude!EncodeOp
  <2>3. r \in ClaudeOutput BY <2>2, ClaudeUnqueueGives DEF ClaudeGives
  <2> DEFINE is == Claude!HeldIndex(b, op.index)
             at == <<(CHOOSE i \in is : TRUE) - 1>>
             k == CHOOSE i \in Claude!QueueIndex(at, Len(b["held"])) : TRUE
             c == [b EXCEPT !["held"] = RemoveAt(b["held"], k)]
  <2>4. is = {} => r.a = b BY <2>2, ClaudeNames DEF Claude!Unqueue
  <2>5. r.a = b \/ r.a = c
    <3>1. is # {} => r = Claude!Unqueued(b, "held", at) BY <2>2 DEF Claude!Unqueue
    <3>2. Claude!Unqueued(b, "held", at).a = b \/ Claude!Unqueued(b, "held", at).a = c
      <4> HIDE DEF at
      <4> QED BY ClaudeNames DEF Claude!Unqueued
    <3> HIDE DEF r, c, at, is
    <3> QED BY <2>4, <3>1, <3>2
  <2>6. c.mode = b.mode /\ c.active = b.active
        /\ c.approvals = b.approvals /\ c.queued = b.queued /\ c.steering = b.steering
    BY DEF ClaudeState
  <2>7. b.held = <<>> => is = {}
    <3>1. is \subseteq 1..Len(b.held) BY HeldIndexIn
    <3>2. b.held = <<>> => 1..Len(b.held) = {} OBVIOUS
    <3> QED BY <3>1, <3>2
  <2> HIDE DEF c, r, is
  <2>8. ClaudeOp(b, r, op) BY <1>5, <1>t, <2>3, <2>4, <2>5, <2>6, <2>7 DEF ClaudeOp
  <2> QED BY <2>8 DEF r
<1>6. CASE op.op = "queue_move"
  <2>2. r = Claude!QueueMove(b, op.index, op.to) BY <1>6 DEF Claude!EncodeOp
  <2>3. r \in ClaudeOutput BY <2>2, ClaudeMoveGives DEF ClaudeGives
  <2> DEFINE fixed == Cardinality(b.queued)
             moves == {m \in Claude!QueueMoveTarget(op.index, op.to, fixed + Len(b.held)) :
                         m[1] > fixed /\ m[2] > fixed}
             m == CHOOSE m \in moves : TRUE
             c == [b EXCEPT !.held = Claude!Moved(b.held, m[1] - fixed, m[2] - fixed)]
  <2>4. r.a = b \/ (moves # {} /\ r.a = c)
    <3>1. Claude!Cardinality(b.queued) = fixed BY DEF Claude!Cardinality, Cardinality
    <3> HIDE DEF r
    <3> QED BY <2>2, <3>1, ClaudeNames DEF Claude!QueueMove
  <2>6. c.mode = b.mode /\ c.active = b.active
        /\ c.approvals = b.approvals /\ c.queued = b.queued /\ c.steering = b.steering
    BY DEF ClaudeState
  <2>7. b.held = <<>> => moves = {}
    <3>0. fixed \in Nat
      <4>1. IsFiniteSet(Msg) BY EngineAssumption, FS_Interval DEF Msg
      <4>2. b.queued \subseteq Msg BY DEF ClaudeState
      <4> QED BY <4>1, <4>2, FS_Subset, FS_CardinalityType
    <3> HIDE DEF fixed
    <3> SUFFICES ASSUME b.held = <<>>, NEW x \in moves PROVE FALSE OBVIOUS
    <3>1. fixed + Len(b.held) = fixed BY <3>0
    <3>2. x \in Claude!QueueIndex(op.index, fixed) \X Claude!QueueIndex(op.to, fixed)
          /\ x[1] > fixed
      BY <3>1 DEF Claude!QueueMoveTarget
    <3>3. Claude!QueueIndex(op.index, fixed) \subseteq 1..fixed BY DEF Claude!QueueIndex
    <3>4. x[1] \in 1..fixed BY <3>2, <3>3
    <3> QED BY <3>0, <3>2, <3>4
  <2> HIDE DEF c, r, moves
  <2>8. ClaudeOp(b, r, op) BY <1>6, <1>t, <2>3, <2>4, <2>6, <2>7 DEF ClaudeOp
  <2> QED BY <2>8 DEF r
<1>7. CASE op.op = "set_approval_mode"
  <2>1. op.mode \in Mode BY <1>7 DEF AnyOp
  <2> DEFINE c == [b EXCEPT !.mode = op.mode]
  <2>2. r.a = c /\ r.frames = <<>> /\ r.events = <<>> /\ r = [a |-> c, frames |-> <<>>, events |-> <<>>]
    BY <1>7, ClaudeNames DEF Claude!EncodeOp
  <2>3. c \in ClaudeState /\ c.held = b.held /\ c.mode = op.mode /\ c.active = b.active
        /\ c.approvals = b.approvals /\ c.queued = b.queued /\ c.steering = b.steering
    BY <2>1 DEF ClaudeState
  <2>4. <<>> \in Seq(Carried(ClaudeFrame)) /\ <<>> \in Seq(Carried(EventName)) OBVIOUS
  <2> HIDE DEF c, r
  <2>5. r \in ClaudeOutput BY <2>2, <2>3, <2>4 DEF ClaudeOutput
  <2>6. ClaudeOp(b, r, op) BY <1>7, <1>t, <2>2, <2>3, <2>5 DEF ClaudeOp
  <2> QED BY <2>6 DEF r
<1>8. CASE op.op \notin {"user_message", "approve", "interrupt", "steer", "unqueue", "queue_move",
                         "set_approval_mode"}
  <2>2. r = [a |-> b, frames |-> <<>>, events |-> <<>>]
    BY <1>8, ClaudeNames DEF Claude!EncodeOp
  <2>4. <<>> \in Seq(Carried(ClaudeFrame)) /\ <<>> \in Seq(Carried(EventName)) OBVIOUS
  <2> HIDE DEF r
  <2>5. r \in ClaudeOutput BY <2>2, <2>4 DEF ClaudeOutput
  <2>6. ClaudeOp(b, r, op) BY <1>8, <1>t, <2>2, <2>5 DEF ClaudeOp
  <2> QED BY <2>6 DEF r
<1> QED BY <1>1, <1>2, <1>3, <1>4, <1>5, <1>6, <1>7, <1>8

\* What an op does to the adapter of Claude Code.
\* So does an op that lets a steer go.
LEMMA ClaudeEncodeDoes ==
    ASSUME NEW b \in ClaudeState, NEW op \in AnyOp
    PROVE  LET s == Claude!Encode(b, op)
           IN  ClaudeOp(b, s, op) /\ (s.a.steering.frames # <<>> => b.active)
<1> DEFINE r == Claude!EncodeOp(b, op)
           s == Claude!SteerReady(r)
<1>1. ClaudeOp(b, r, op) BY ClaudeOpDoes
<1>2. Claude!Encode(b, op) = s BY DEF Claude!Encode
<1> HIDE DEF r
<1>3. /\ s \in ClaudeOutput /\ s.events = r.events
      /\ s.a.mode = r.a.mode /\ s.a.active = r.a.active /\ s.a.held = r.a.held
      /\ s.a.queued = r.a.queued /\ s.a.approvals = r.a.approvals
      /\ s.a.steering.frames # <<>> => r.a.active /\ r.a.steering.frames # <<>>
      /\ In(s.a.steering.frames) \cup Written(s.frames)
           = In(r.a.steering.frames) \cup Written(r.frames)
      /\ Answered(r.frames) \subseteq Answered(s.frames)
  BY <1>1, ClaudeReadyDoes DEF ClaudeOp
<1> HIDE DEF s
<1>4. ClaudeOp(b, s, op) /\ (s.a.steering.frames # <<>> => b.active)
  BY <1>1, <1>3 DEF ClaudeOp
<1> QED BY <1>2, <1>4

-----------------------------------------------------------------------------
\* --- Codex: what an op does to its state ---

TS == {"turn/start"}
TL == {"no-turn/start", "turn/completed"}
RF == {"thread/revert"}
RL == {"thread/revert", "no-thread/revert"}
TO == {"thread/start", "thread/resume"}
TOL == {"opened", "no-thread/start", "no-thread/resume"}

\* No word has no types.
LEMMA NoneWord ==
    ASSUME NEW s, NEW A, NEW B, ~Has(s, A)
    PROVE  NoneAfter(s, A, B)
BY DEF Has, NoneAfter

\* Answers are all of one type.
LEMMA AnswerWords ==
    ASSUME NEW calls \in SUBSET (1..MaxAsks), NEW A, NEW B, "answer" \notin A
    PROVE  ~Has(AnswersOf(calls), A) /\ NoneAfter(AnswersOf(calls), A, B)
<1> DEFINE T == {"answer"}
           s == AnswersOf(calls)
<1>1. "answer" \in T OBVIOUS
<1> HIDE DEF T
<1>2. ~Has(s, A) BY <1>1, AnswerFrames
<1> HIDE DEF s
<1>3. ~Has(s, A) /\ NoneAfter(s, A, B) BY <1>2, NoneWord
<1> QED BY <1>3 DEF s

\* What an op does to the Codex adapter.
CodexOp(b, r, op) ==
    /\ r \in CodexOutput
    /\ r.a.mode = IF op.op = "set_approval_mode" THEN op.mode ELSE b.mode
    /\ r.a.thread = b.thread
    /\ ~Has(r.frames, TO) /\ (Has(r.frames, TS \cup RF) => b.thread)
    /\ NoneAfter(r.frames, TS \cup RF, TS \cup RF)
    /\ Has(r.frames, TS) => ~b.busy /\ ~b.rolling
    /\ r.a.busy <=> b.busy \/ Has(r.frames, TS)
    /\ Has(r.frames, RF) => op.op = "rewind"
    /\ r.a.rolling <=> b.rolling \/ Has(r.frames, RF)
    /\ r.a.queued # <<>> => b.queued # <<>> \/ ~b.thread
    /\ r.a.waiting # <<>> => b.waiting # <<>> \/ (b.busy /\ b.thread)
    /\ r.a.afterRollback # <<>> => b.afterRollback # <<>> \/ b.rolling
    /\ r.a.steering # <<>> => b.steering # <<>> \/ (b.thread /\ Has(r.frames, {"turn/steer"}))
    /\ b.approvals \subseteq r.a.approvals \cup Answered(r.frames)
    /\ op.op = "approve" => op.calls \cap b.approvals \subseteq Answered(r.frames)
    /\ b.busy /\ op.op = "user_message" => op.m \in In(CodexQueue(r.a))

\* It writes one frame, or none.
LEMMA CodexWrites ==
    ASSUME NEW b \in CodexState, NEW r \in CodexOutput, NEW op,
           r.frames = <<>> \/ \E x : r.frames = <<x>> /\ x.t \notin TS \cup RF \cup TO,
           r.a.mode = IF op.op = "set_approval_mode" THEN op.mode ELSE b.mode,
           r.a.thread = b.thread, r.a.busy = b.busy, r.a.rolling = b.rolling,
           r.a.approvals = b.approvals, op.op # "approve",
           r.a.queued # <<>> => b.queued # <<>> \/ ~b.thread,
           r.a.waiting # <<>> => b.waiting # <<>> \/ (b.busy /\ b.thread),
           r.a.afterRollback # <<>> => b.afterRollback # <<>> \/ b.rolling,
           r.a.steering # <<>> => b.steering # <<>> \/ (b.thread /\ Has(r.frames, {"turn/steer"})),
           b.busy /\ op.op = "user_message" => op.m \in In(CodexQueue(r.a))
    PROVE  CodexOp(b, r, op)
<1>1. \A A : A \subseteq TS \cup RF \cup TO => ~Has(r.frames, A)
  <2> SUFFICES ASSUME NEW A, A \subseteq TS \cup RF \cup TO PROVE ~Has(r.frames, A) OBVIOUS
  <2>1. CASE r.frames = <<>> BY <2>1, EmptyWord
  <2>2. ASSUME NEW x, r.frames = <<x>>, x.t \notin TS \cup RF \cup TO PROVE ~Has(r.frames, A)
    <3>1. Has(<<x>>, A) <=> x.t \in A BY OneWord
    <3> QED BY <2>2, <3>1
  <2> QED BY <2>1, <2>2
<1>2. ~Has(r.frames, TO) /\ ~Has(r.frames, TS \cup RF) /\ ~Has(r.frames, TS) /\ ~Has(r.frames, RF)
  BY <1>1
<1>3. NoneAfter(r.frames, TS \cup RF, TS \cup RF) BY <1>2, NoneWord
<1> QED BY <1>2, <1>3 DEF CodexOp

\* A message starts a turn, steers one, or waits.
LEMMA CodexUserDoes ==
    ASSUME NEW b \in CodexState, NEW op, op.op = "user_message", op.m \in Msg
    PROVE  CodexOp(b, Codex!UserMessage(b, op.m), op)
<1> DEFINE m == op.m
           r == Codex!UserMessage(b, m)
<1>0. b.queued \in Seq(Msg) /\ b.afterRollback \in Seq(Msg) /\ b.steering \in Seq(Msg)
      /\ b.waiting \in Seq(Msg) /\ b.thread \in BOOLEAN /\ b.busy \in BOOLEAN /\ b.rolling \in BOOLEAN
  BY DEF CodexState
<1>1. \A q \in Seq(Msg) : m \in In(Append(q, m)) BY AppendOnce
<1>2. r \in CodexOutput BY CodexUserGives DEF CodexGives
<1>3. r.a \in CodexState BY <1>2 DEF CodexOutput
<1>4. CASE ~b.thread
  <2> DEFINE c == [b EXCEPT !.queued = Append(b.queued, m)]
  <2>1. r.a = c /\ r.frames = <<>> BY <1>4, CodexNames DEF Codex!UserMessage
  <2>2. c.queued = Append(b.queued, m) /\ c.afterRollback = b.afterRollback
        /\ c.steering = b.steering /\ c.waiting = b.waiting /\ c.mode = b.mode
        /\ c.thread = b.thread /\ c.busy = b.busy /\ c.rolling = b.rolling
        /\ c.approvals = b.approvals
    BY DEF CodexState
  <2> HIDE DEF c, r
  <2>3. m \in In(CodexQueue(r.a)) BY <1>0, <1>1, <1>3, <2>1, <2>2, CodexQueueParts
  <2>4. CodexOp(b, r, op) BY <1>2, <1>4, <2>1, <2>2, <2>3, CodexWrites
  <2> QED BY <2>4 DEF r
<1>5. CASE b.thread /\ b.rolling
  <2> DEFINE c == [b EXCEPT !.afterRollback = Append(b.afterRollback, m)]
  <2>1. r.a = c /\ r.frames = <<>> BY <1>5, CodexNames DEF Codex!UserMessage
  <2>2. c.afterRollback = Append(b.afterRollback, m) /\ c.queued = b.queued
        /\ c.steering = b.steering /\ c.waiting = b.waiting /\ c.mode = b.mode
        /\ c.thread = b.thread /\ c.busy = b.busy /\ c.rolling = b.rolling
        /\ c.approvals = b.approvals
    BY DEF CodexState
  <2> HIDE DEF c, r
  <2>3. m \in In(CodexQueue(r.a)) BY <1>0, <1>1, <1>3, <2>1, <2>2, CodexQueueParts
  <2>4. CodexOp(b, r, op) BY <1>2, <1>5, <2>1, <2>2, <2>3, CodexWrites
  <2> QED BY <2>4 DEF r
<1>6. CASE b.thread /\ ~b.rolling /\ b.busy
  <2> DEFINE c == [b EXCEPT !.waiting = Append(b.waiting, m)]
  <2>1. r.a = c /\ r.frames = <<>> BY <1>6, CodexNames DEF Codex!UserMessage
  <2>2. c.waiting = Append(b.waiting, m) /\ c.queued = b.queued
        /\ c.steering = b.steering /\ c.afterRollback = b.afterRollback /\ c.mode = b.mode
        /\ c.thread = b.thread /\ c.busy = b.busy /\ c.rolling = b.rolling
        /\ c.approvals = b.approvals
    BY DEF CodexState
  <2> HIDE DEF c, r
  <2>3. m \in In(CodexQueue(r.a)) BY <1>0, <1>1, <1>3, <2>1, <2>2, CodexQueueParts
  <2>4. CodexOp(b, r, op) BY <1>2, <1>6, <2>1, <2>2, <2>3, CodexWrites
  <2> QED BY <2>4 DEF r
<1>7. CASE b.thread /\ ~b.rolling /\ ~b.busy
  <2> DEFINE c == [b EXCEPT !.busy = TRUE]
             x == [t |-> "turn/start", ms |-> <<m>>, n |-> 0]
  <2>1. r.a = c /\ r.frames = Append(<<>>, x)
    BY <1>7, CodexNames DEF Codex!UserMessage, Codex!TurnStart
  <2>2. c.waiting = b.waiting /\ c.queued = b.queued
        /\ c.steering = b.steering /\ c.afterRollback = b.afterRollback /\ c.mode = b.mode
        /\ c.thread = b.thread /\ c.busy = TRUE /\ c.rolling = b.rolling
        /\ c.approvals = b.approvals
    BY DEF CodexState
  <2>3. x.t = "turn/start" OBVIOUS
  <2> HIDE DEF c, r, x
  <2>4. r.frames = <<x>>
    <3>1. Append(<<>>, x) = <<x>> OBVIOUS
    <3> QED BY <2>1, <3>1
  <2>5. /\ \A A : Has(r.frames, A) <=> x.t \in A
        /\ \A A, B : NoneAfter(r.frames, A, B)
    BY <2>4, OneWord
  <2>6. Has(r.frames, TS) /\ ~Has(r.frames, RF) /\ ~Has(r.frames, TO)
        /\ NoneAfter(r.frames, TS \cup RF, TS \cup RF)
    BY <2>3, <2>5 DEF TS, RF, TO
  <2>7. CodexOp(b, r, op) BY <1>2, <1>7, <2>1, <2>2, <2>6 DEF CodexOp
  <2> QED BY <2>7 DEF r
<1> QED BY <1>0, <1>4, <1>5, <1>6, <1>7

LEMMA CodexSteerDoes ==
    ASSUME NEW b \in CodexState, NEW op, op.op = "steer", NEW index
    PROVE  CodexOp(b, Codex!Steer(b, index), op)
<1> DEFINE is == Codex!QueueIndex(index, Len(b.waiting))
           r == Codex!Steer(b, index)
           p == PickedOut(b.waiting, index, is)
           c == [b EXCEPT !.steering = p.out, !.waiting = p.left,
                          !.steers = @ + IF p.out = <<>> THEN 0 ELSE 1]
           x == [t |-> "turn/steer", ms |-> p.out, n |-> 0]
           f == IF p.out = <<>> THEN <<>> ELSE <<x>>
           e == IF b.steering = <<>> THEN <<>> ELSE <<[t |-> "dropped", ms |-> b.steering, n |-> 0]>>
<1>0. b.waiting \in Seq(Msg) /\ b.thread \in BOOLEAN /\ b.turn \in BOOLEAN BY DEF CodexState
<1>1. is \in SUBSET (1..Len(b.waiting)) BY CodexNames
<1>2. p.out \in Seq(Msg) /\ p.left \in Seq(Msg) /\ In(b.waiting) = In(p.out) \cup In(p.left)
  <2> HIDE DEF is
  <2> QED BY <1>0, <1>1, PickedOnce
<1>3. IF ~b.thread \/ ~b.turn THEN r.a = b /\ r.frames = <<>> ELSE r.a = c /\ r.frames = f
  <2>1. Codex!Picked(b.waiting, index, is) = p BY CodexNames
  <2> HIDE DEF p, is
  <2> QED BY <2>1, CodexNames DEF Codex!Steer, is
<1>4. r \in CodexOutput BY CodexSteerGives DEF CodexGives
<1>5. x.t = "turn/steer" OBVIOUS
<1> HIDE DEF p, x, r
<1>6. c.queued = b.queued /\ c.afterRollback = b.afterRollback
      /\ c.steering = p.out /\ c.waiting = p.left /\ c.mode = b.mode
      /\ c.thread = b.thread /\ c.busy = b.busy /\ c.rolling = b.rolling
      /\ c.approvals = b.approvals
  BY DEF CodexState
<1>7. p.left # <<>> => b.waiting # <<>>
  <2>1. b.waiting = <<>> => In(b.waiting) = {} BY EmptyOnce
  <2>2. In(p.left) = {} => p.left = <<>> BY <1>2, ToSetIn
  <2> QED BY <1>2, <2>1, <2>2
<1>8. p.out # <<>> => Has(f, {"turn/steer"}) BY <1>5, OneWord
<1>9. f = <<>> \/ f = <<x>> OBVIOUS
<1>10. "turn/steer" \notin TS \cup RF \cup TO BY DEF TS, RF, TO
<1> HIDE DEF c, f
<1>11. CASE ~b.thread \/ ~b.turn
  <2>1. r.a = b /\ r.frames = <<>> BY <1>3, <1>11
  <2>2. CodexOp(b, r, op) BY <1>4, <2>1, CodexWrites
  <2> QED BY <2>2 DEF r
<1>12. CASE b.thread /\ b.turn
  <2>1. r.a = c /\ r.frames = f BY <1>3, <1>12
  <2>2. CodexOp(b, r, op)
    BY <1>4, <1>5, <1>6, <1>7, <1>8, <1>9, <1>10, <1>12, <2>1, CodexWrites
  <2> QED BY <2>2 DEF r
<1> QED BY <1>0, <1>11, <1>12

\* What an op does to Codex: the frames it writes and the state it leaves.
LEMMA CodexEncodeDoes ==
    ASSUME NEW b \in CodexState, NEW op \in AnyOp
    PROVE  CodexOp(b, Codex!Encode(b, op), op)
<1> DEFINE r == Codex!Encode(b, op)
<1>0. b.waiting \in Seq(Msg) /\ b.thread \in BOOLEAN /\ b.busy \in BOOLEAN /\ b.rolling \in BOOLEAN
  BY DEF CodexState
<1>g. r \in CodexOutput BY CodexEncodeGives DEF CodexGives
<1>1. CASE op.op = "user_message"
  <2>1. op.m \in Msg BY <1>1 DEF AnyOp
  <2>2. r = Codex!UserMessage(b, op.m) BY <1>1 DEF Codex!Encode
  <2> HIDE DEF r
  <2>3. CodexOp(b, r, op) BY <1>1, <2>1, <2>2, CodexUserDoes
  <2> QED BY <2>3 DEF r
<1>2. CASE op.op = "approve"
  <2>1. op.calls \in SUBSET (1..MaxAsks) BY <1>2 DEF AnyOp
  <2>2. r = Codex!Approve(b, op.calls) BY <1>2 DEF Codex!Encode
  <2> DEFINE known == op.calls \cap b.approvals
             c == [b EXCEPT !.approvals = @ \ known]
  <2>3. r.a = c /\ r.frames = AnswersOf(known) BY <2>2, CodexNames DEF Codex!Approve
  <2>4. c.queued = b.queued /\ c.afterRollback = b.afterRollback
        /\ c.steering = b.steering /\ c.waiting = b.waiting /\ c.mode = b.mode
        /\ c.thread = b.thread /\ c.busy = b.busy /\ c.rolling = b.rolling
        /\ c.approvals = b.approvals \ known
    BY DEF CodexState
  <2>5. known \subseteq Answered(r.frames) BY <2>1, <2>3, AnsweredOf
  <2>6. "answer" \notin TS /\ "answer" \notin RF /\ "answer" \notin TO /\ "answer" \notin TS \cup RF
    BY DEF TS, RF, TO
  <2>7. known \in SUBSET (1..MaxAsks) BY <2>1
  <2> HIDE DEF c, r
  <2>8. ~Has(r.frames, TO) /\ ~Has(r.frames, TS \cup RF) /\ ~Has(r.frames, TS)
        /\ ~Has(r.frames, RF) /\ NoneAfter(r.frames, TS \cup RF, TS \cup RF)
    BY <2>3, <2>6, <2>7, AnswerWords
  <2>9. CodexOp(b, r, op) BY <1>2, <1>0, <1>g, <2>3, <2>4, <2>5, <2>8 DEF CodexOp, r
  <2> QED BY <2>9 DEF r
<1>3. CASE op.op = "interrupt"
  <2>2. r = Codex!Interrupt(b, op.index) BY <1>3 DEF Codex!Encode
  <2> DEFINE is == IF op.index = <<>> THEN {} ELSE Codex!QueueIndex(op.index, Len(b.waiting))
             q == IF is = {} THEN b.waiting ELSE Codex!ToFront(b.waiting, CHOOSE i \in is : TRUE)
             c == [b EXCEPT !.waiting = q]
             x == Nameless("turn/interrupt")
  <2>3. (r.a = b /\ r.frames = <<>>) \/ (r.a = c /\ r.frames = <<x>>)
    BY <2>2, CodexNames DEF Codex!Interrupt, Nameless
  <2>4. c.queued = b.queued /\ c.afterRollback = b.afterRollback
        /\ c.steering = b.steering /\ c.waiting = q /\ c.mode = b.mode
        /\ c.thread = b.thread /\ c.busy = b.busy /\ c.rolling = b.rolling
        /\ c.approvals = b.approvals
    BY DEF CodexState
  <2>5. q # <<>> => b.waiting # <<>>
    <3>1. is \subseteq 1..Len(b.waiting) BY CodexNames
    <3>2. b.waiting = <<>> => 1..Len(b.waiting) = {} OBVIOUS
    <3> HIDE DEF is
    <3> QED BY <3>1, <3>2
  <2>6. x.t \notin TS \cup RF \cup TO BY DEF Nameless, TS, RF, TO
  <2> HIDE DEF c, r, x, q
  <2>7. CodexOp(b, r, op) BY <1>3, <1>g, <2>3, <2>4, <2>5, <2>6, CodexWrites DEF r
  <2> QED BY <2>7 DEF r
<1>4. CASE op.op = "steer"
  <2>2. r = Codex!Steer(b, op.index) BY <1>4 DEF Codex!Encode
  <2> HIDE DEF r
  <2>3. CodexOp(b, r, op) BY <1>4, <2>2, CodexSteerDoes
  <2> QED BY <2>3 DEF r
<1>5. CASE op.op = "unqueue"
  <2>2. r = Codex!Unqueued(b, "waiting", op.index) BY <1>5 DEF Codex!Encode
  <2> DEFINE is == Codex!QueueIndex(op.index, Len(b["waiting"]))
             k == CHOOSE i \in is : TRUE
             c == [b EXCEPT !["waiting"] = RemoveAt(b["waiting"], k)]
  <2>3. (r.a = b \/ (r.a = c /\ is # {})) /\ r.frames = <<>>
    <3>1. CASE is = {}
      <4>1. r = [a |-> b, frames |-> <<>>, events |-> <<>>]
        BY <2>2, <3>1, CodexNames DEF Codex!Unqueued
      <4> QED BY <4>1
    <3>2. CASE is # {}
      <4> DEFINE e == <<[t |-> "unqueued", ms |-> <<b["waiting"][k]>>, n |-> 0]>>
      <4>1. r = [a |-> c, frames |-> <<>>, events |-> e]
        BY <2>2, <3>2, CodexNames DEF Codex!Unqueued
      <4> HIDE DEF c, is, e
      <4> QED BY <3>2, <4>1
    <3> QED BY <3>1, <3>2
  <2>4. c.queued = b.queued /\ c.afterRollback = b.afterRollback
        /\ c.steering = b.steering /\ c.mode = b.mode
        /\ c.thread = b.thread /\ c.busy = b.busy /\ c.rolling = b.rolling
        /\ c.approvals = b.approvals
    BY DEF CodexState
  <2>5. b.waiting = <<>> => is = {}
    <3>1. is \subseteq 1..Len(b.waiting) BY CodexNames
    <3>2. b.waiting = <<>> => 1..Len(b.waiting) = {} OBVIOUS
    <3> QED BY <3>1, <3>2
  <2> HIDE DEF c, r, is
  <2>7. CodexOp(b, r, op) BY <1>5, <1>g, <2>3, <2>4, <2>5, CodexWrites DEF r
  <2> QED BY <2>7 DEF r
<1>6. CASE op.op = "queue_move"
  <2>2. r = Codex!QueueMoved(b, "waiting", op.index, op.to) BY <1>6 DEF Codex!Encode
  <2> DEFINE moves == Codex!QueueMoveTarget(op.index, op.to, Len(b["waiting"]))
             k == CHOOSE k \in moves : TRUE
             c == [b EXCEPT !["waiting"] = Codex!Moved(b["waiting"], k[1], k[2])]
  <2>3. (r.a = b \/ (r.a = c /\ moves # {})) /\ r.frames = <<>>
    BY <2>2, CodexNames DEF Codex!QueueMoved
  <2>4. c.queued = b.queued /\ c.afterRollback = b.afterRollback
        /\ c.steering = b.steering /\ c.mode = b.mode
        /\ c.thread = b.thread /\ c.busy = b.busy /\ c.rolling = b.rolling
        /\ c.approvals = b.approvals
    BY DEF CodexState
  <2>5. b.waiting = <<>> => moves = {}
    <3>1. Codex!QueueIndex(op.index, Len(b.waiting)) \subseteq 1..Len(b.waiting) BY CodexNames
    <3>2. b.waiting = <<>> => 1..Len(b.waiting) = {} OBVIOUS
    <3> QED BY <3>1, <3>2 DEF Codex!QueueMoveTarget
  <2> HIDE DEF c, r, moves
  <2>7. CodexOp(b, r, op) BY <1>6, <1>g, <2>3, <2>4, <2>5, CodexWrites DEF r
  <2> QED BY <2>7 DEF r
<1>7. CASE op.op = "set_approval_mode"
  <2> DEFINE c == [b EXCEPT !.mode = op.mode]
  <2>1. r.a = c /\ r.frames = <<>> BY <1>7, CodexNames DEF Codex!Encode
  <2>2. c.queued = b.queued /\ c.afterRollback = b.afterRollback
        /\ c.steering = b.steering /\ c.mode = op.mode /\ c.waiting = b.waiting
        /\ c.thread = b.thread /\ c.busy = b.busy /\ c.rolling = b.rolling
        /\ c.approvals = b.approvals
    BY DEF CodexState
  <2> HIDE DEF c, r
  <2>3. CodexOp(b, r, op) BY <1>7, <1>g, <2>1, <2>2, CodexWrites DEF r
  <2> QED BY <2>3 DEF r
<1>8. CASE op.op = "rewind"
  <2> DEFINE c == [b EXCEPT !.userTurns = @ - 1, !.rolling = TRUE]
             x == Nameless("thread/revert")
  <2>1. IF b.thread /\ b.userTurns > 0 THEN r.a = c /\ r.frames = <<x>>
        ELSE r.a = b /\ r.frames = <<>>
    BY <1>8, CodexNames DEF Codex!Encode, Codex!Rewind, Nameless
  <2>2. c.queued = b.queued /\ c.afterRollback = b.afterRollback
        /\ c.steering = b.steering /\ c.mode = b.mode /\ c.waiting = b.waiting
        /\ c.thread = b.thread /\ c.busy = b.busy /\ c.rolling = TRUE
        /\ c.approvals = b.approvals
    BY DEF CodexState
  <2>3. x.t = "thread/revert" BY DEF Nameless
  <2> HIDE DEF c, r, x
  <2>4. CASE r.a = b /\ r.frames = <<>>
    <3>1. CodexOp(b, r, op) BY <1>8, <1>g, <2>4, CodexWrites DEF r
    <3> QED BY <3>1 DEF r
  <2>5. CASE b.thread /\ r.a = c /\ r.frames = <<x>>
    <3>1. Has(r.frames, RF) /\ ~Has(r.frames, TS) /\ ~Has(r.frames, TO)
          /\ NoneAfter(r.frames, TS \cup RF, TS \cup RF)
      BY <2>3, <2>5, OneWord DEF TS, RF, TO
    <3>2. CodexOp(b, r, op) BY <1>8, <1>g, <2>2, <2>5, <3>1 DEF CodexOp, r
    <3> QED BY <3>2 DEF r
  <2> QED BY <2>1, <2>4, <2>5
<1>9. CASE op.op \notin {"user_message", "approve", "interrupt", "steer", "unqueue", "queue_move",
                         "set_approval_mode", "rewind"}
  <2>1. r.a = b /\ r.frames = <<>> BY <1>9, CodexNames DEF Codex!Encode
  <2> HIDE DEF r
  <2>2. CodexOp(b, r, op) BY <1>9, <1>g, <2>1, CodexWrites DEF r
  <2> QED BY <2>2 DEF r
<1> QED BY <1>1, <1>2, <1>3, <1>4, <1>5, <1>6, <1>7, <1>8, <1>9

-----------------------------------------------------------------------------
\* --- ACP: what an op does to its state ---

OF == {"initialize", "session/load", "session/new", "authenticate"}
OL == {"initialize", "authenticate", "opened", "no-initialize", "no-session/load",
       "no-session/new", "no-authenticate", "signed-out"}
PF == {"session/prompt"}
PL == {"session/prompt", "no-session/prompt"}

\* What an op does to the ACP adapter.
AcpOp(b, r, op) ==
    /\ r \in AcpOutput
    /\ r.a.mode = b.mode /\ r.a.session = b.session
    /\ Has(r.frames, OF) => b.failed /\ ~b.session
    /\ NoneAfter(r.frames, OF, OF)
    /\ ~b.session /\ r.a.failed =>
         b.failed /\ ~Has(r.frames, OF) /\ (b.queued = <<>> => r.a.queued = <<>>)
    /\ b.session => (r.a.failed => b.failed)
    /\ r.a.prompt <=> b.prompt \/ Has(r.frames, PF)
    /\ Has(r.frames, PF) => ~b.prompt /\ b.session
    /\ NoneAfter(r.frames, PF, PF)
    /\ b.session /\ r.a.queued # <<>> => b.queued # <<>> \/ b.prompt
    /\ b.approvals \subseteq r.a.approvals \cup Answered(r.frames)
    /\ op.op = "approve" => op.calls \cap b.approvals \subseteq Answered(r.frames)
    /\ b.prompt /\ op.op = "user_message" => op.m \in In(r.a.queued)

\* It opens nothing and prompts nothing.
LEMMA AcpWrites ==
    ASSUME NEW b \in AcpState, NEW r \in AcpOutput, NEW op,
           ~Has(r.frames, OF), ~Has(r.frames, PF),
           r.a.mode = b.mode, r.a.session = b.session, r.a.prompt = b.prompt,
           r.a.failed = b.failed,
           ~b.session /\ b.failed /\ b.queued = <<>> => r.a.queued = <<>>,
           b.session /\ r.a.queued # <<>> => b.queued # <<>> \/ b.prompt,
           b.approvals \subseteq r.a.approvals \cup Answered(r.frames),
           op.op = "approve" => op.calls \cap b.approvals \subseteq Answered(r.frames),
           b.prompt /\ op.op = "user_message" => op.m \in In(r.a.queued)
    PROVE  AcpOp(b, r, op)
<1>1. NoneAfter(r.frames, OF, OF) /\ NoneAfter(r.frames, PF, PF) BY NoneWord
<1> QED BY <1>1 DEF AcpOp

\* A prompt goes out, or waits for the one before.
LEMMA AcpSubmitDoes ==
    ASSUME NEW b \in AcpState, NEW op, op.op = "user_message", op.m \in Msg
    PROVE  AcpOp(b, Acp!Submit(b, op.m), op)
<1> DEFINE m == op.m
           r == Acp!Submit(b, m)
           q == Append(b.queued, m)
           c == [b EXCEPT !.queued = q]
           d == [c EXCEPT !.failed = FALSE]
           g == [b EXCEPT !.prompt = TRUE]
           x == Nameless("session/new")
           y == [t |-> "session/prompt", ms |-> <<m>>, n |-> 0]
<1>0. b.queued \in Seq(Msg) /\ b.session \in BOOLEAN /\ b.prompt \in BOOLEAN
      /\ b.failed \in BOOLEAN
  BY DEF AcpState
<1>1. r = IF b.session /\ ~b.prompt THEN Acp!Send(b, <<>>, <<>>, m)
                         ELSE IF ~b.session /\ b.failed
                         THEN [a |-> d, frames |-> <<x>>, events |-> <<>>]
                         ELSE [a |-> c, frames |-> <<>>, events |-> <<>>]
  BY AcpNames DEF Acp!Submit, Nameless
<1>2. m \in In(q) /\ q \in Seq(Msg) BY <1>0, AppendOnce
<1>3. Acp!Send(b, <<>>, <<>>, m) = [a |-> g, frames |-> <<y>>, events |-> <<>>]
  <2>1. \A z : Append(<<>>, z) = <<z>> OBVIOUS
  <2> QED BY <2>1, AcpNames DEF Acp!Send
<1>4. r \in AcpOutput BY AcpSubmitGives DEF AcpGives
<1> HIDE DEF q
<1>5. c.queued = q /\ c.mode = b.mode /\ c.session = b.session /\ c.prompt = b.prompt
      /\ c.failed = b.failed /\ c.approvals = b.approvals
      /\ d.queued = q /\ d.mode = b.mode /\ d.session = b.session /\ d.prompt = b.prompt
      /\ d.failed = FALSE /\ d.approvals = b.approvals
      /\ g.queued = b.queued /\ g.mode = b.mode /\ g.session = b.session /\ g.prompt = TRUE
      /\ g.failed = b.failed /\ g.approvals = b.approvals
  BY <1>2 DEF AcpState
<1>6. x.t = "session/new" /\ y.t = "session/prompt" BY DEF Nameless
<1> HIDE DEF c, d, g, x, y, r
<1>7. CASE b.session /\ ~b.prompt
  <2>1. r.a = g /\ r.frames = <<y>> BY <1>1, <1>3, <1>7
  <2>2. Has(<<y>>, PF) /\ ~Has(<<y>>, OF) /\ \A A : NoneAfter(<<y>>, A, A)
    <3>1. "session/prompt" \in PF /\ "session/prompt" \notin OF BY DEF PF, OF
    <3> QED BY <1>6, <3>1, OneWord
  <2>3. AcpOp(b, r, op) BY <1>0, <1>4, <1>5, <1>7, <2>1, <2>2 DEF AcpOp
  <2> QED BY <2>3 DEF r
<1>8. CASE ~b.session /\ b.failed
  <2>1. r.a = d /\ r.frames = <<x>> BY <1>1, <1>8
  <2>2. Has(<<x>>, OF) /\ ~Has(<<x>>, PF) /\ \A A : NoneAfter(<<x>>, A, A)
    <3>1. "session/new" \in OF /\ "session/new" \notin PF BY DEF PF, OF
    <3> QED BY <1>6, <3>1, OneWord
  <2>3. AcpOp(b, r, op) BY <1>0, <1>2, <1>4, <1>5, <1>8, <2>1, <2>2 DEF AcpOp
  <2> QED BY <2>3 DEF r
<1>9. CASE ~(b.session /\ ~b.prompt) /\ ~(~b.session /\ b.failed)
  <2>1. r.a = c /\ r.frames = <<>> BY <1>1, <1>9
  <2>2. ~Has(<<>>, OF) /\ ~Has(<<>>, PF) BY EmptyWord
  <2>3. AcpOp(b, r, op) BY <1>0, <1>2, <1>4, <1>5, <1>9, <2>1, <2>2, AcpWrites
  <2> QED BY <2>3 DEF r
<1> QED BY <1>7, <1>8, <1>9

\* The turn is cancelled and what it asked answered.
LEMMA AcpCancelWrites ==
    ASSUME NEW b \in AcpState, NEW q, NEW e,
           NEW r, r = Acp!CancelTurn(b, q, e)
    PROVE  /\ ~Has(r.frames, OF) /\ ~Has(r.frames, PF) /\ b.approvals \subseteq Answered(r.frames)
           /\ r.a = [b EXCEPT !.approvals = {}, !.queued = q]
<1> DEFINE s == AnswersOf(b.approvals)
           x == Nameless("session/cancel")
           u == <<x>>
           f == Append(s, x)
           T == {"answer", "session/cancel"}
<1>1. r.a = [b EXCEPT !.approvals = {}, !.queued = q] /\ r.frames = f
  BY AcpNames DEF Acp!CancelTurn, Nameless
<1>2. b.approvals \in SUBSET (1..MaxAsks) BY DEF AcpState
<1>3. "answer" \in T /\ "session/cancel" \in T /\ 0 \in 0..MaxAsks /\ <<>> \in Seq(Msg)
  BY EngineAssumption
<1> HIDE DEF T
<1>4. x \in Carried(T) /\ x.t = "session/cancel" BY <1>3 DEF Nameless, Carried
<1>5. s \in Seq(Carried(T)) BY <1>2, <1>3, AnswerFrames
<1>6. b.approvals \subseteq Answered(s) BY <1>2, AnsweredOf
<1>7. "answer" \notin OF /\ "answer" \notin PF /\ "session/cancel" \notin OF
      /\ "session/cancel" \notin PF
  BY DEF OF, PF
<1>8. ~Has(s, OF) /\ ~Has(s, PF) BY <1>2, <1>7, AnswerWords
<1> HIDE DEF s, x
<1>9. ~Has(u, OF) /\ ~Has(u, PF) BY <1>4, <1>7, OneWord
<1>10. f = s \o u /\ u \in Seq(Carried(T)) BY <1>4, <1>5
<1> HIDE DEF f, u
<1>11. ~Has(f, OF) /\ ~Has(f, PF) BY <1>5, <1>8, <1>9, <1>10, ConcatWord
<1>12. Answered(f) = Answered(s) \cup Answered(u) BY <1>5, <1>10, AnsweredConcat
<1> QED BY <1>1, <1>6, <1>11, <1>12

\* An interrupt cancels a turn, and answers what it asked.
LEMMA AcpInterruptDoes ==
    ASSUME NEW b \in AcpState, NEW steer \in BOOLEAN, NEW index, NEW op,
           op.op \in {"steer", "interrupt"}
    PROVE  AcpOp(b, Acp!Interrupt(b, steer, index), op)
<1> DEFINE is == Acp!QueueIndex(index, Len(b.queued))
           i == CHOOSE i \in is : TRUE
           q == Acp!ToFront(b.queued, i)
           r == Acp!Interrupt(b, steer, index)
           e == <<[t |-> "unqueued", ms |-> b.queued, n |-> 0]>>
<1>0. b.queued \in Seq(Msg) /\ b.session \in BOOLEAN /\ b.prompt \in BOOLEAN BY DEF AcpState
<1>g. r \in AcpOutput BY AcpInterruptGives DEF AcpGives
<1>o. op.op # "approve" /\ op.op # "user_message" OBVIOUS
<1>1. CASE b.session /\ ~steer
  <2> DEFINE c == [b EXCEPT !.approvals = {}, !.queued = <<>>]
  <2>1. r = Acp!CancelTurn(b, <<>>, e) BY <1>1, AcpNames DEF Acp!Interrupt
  <2> HIDE DEF e, r
  <2>2. ~Has(r.frames, OF) /\ ~Has(r.frames, PF) /\ b.approvals \subseteq Answered(r.frames)
        /\ r.a = c
    BY <2>1, AcpCancelWrites
  <2>3. c.queued = <<>> /\ c.mode = b.mode /\ c.session = b.session /\ c.prompt = b.prompt
        /\ c.failed = b.failed
    BY DEF AcpState
  <2> HIDE DEF c
  <2>4. AcpOp(b, r, op) BY <1>g, <1>o, <1>1, <2>2, <2>3, AcpWrites DEF r
  <2> QED BY <2>4 DEF r
<1>2. CASE b.session /\ steer /\ is # {} /\ b.prompt
  <2> DEFINE c == [b EXCEPT !.approvals = {}, !.queued = q]
  <2>1. r = Acp!CancelTurn(b, q, <<>>) BY <1>2 DEF Acp!Interrupt
  <2> HIDE DEF q, r
  <2>2. ~Has(r.frames, OF) /\ ~Has(r.frames, PF) /\ b.approvals \subseteq Answered(r.frames)
        /\ r.a = c
    BY <2>1, AcpCancelWrites
  <2>3. c.mode = b.mode /\ c.session = b.session /\ c.prompt = b.prompt
        /\ c.failed = b.failed
    BY DEF AcpState
  <2> HIDE DEF c
  <2>4. AcpOp(b, r, op) BY <1>g, <1>o, <1>2, <2>2, <2>3, AcpWrites DEF r
  <2> QED BY <2>4 DEF r
<1>3. CASE ~(b.session /\ ~steer) /\ ~(b.session /\ steer /\ is # {} /\ b.prompt)
  <2>1. r.a = b /\ r.frames = <<>> BY <1>3, AcpNames DEF Acp!Interrupt
  <2>2. ~Has(<<>>, OF) /\ ~Has(<<>>, PF) BY EmptyWord
  <2> HIDE DEF r
  <2>3. AcpOp(b, r, op) BY <1>g, <1>o, <2>1, <2>2, AcpWrites DEF r
  <2> QED BY <2>3 DEF r
<1> QED BY <1>1, <1>2, <1>3

\* What an op does to ACP: the frames it writes and the state it leaves.
LEMMA AcpEncodeDoes ==
    ASSUME NEW b \in AcpState, NEW op \in AnyOp
    PROVE  AcpOp(b, Acp!Encode(b, op), op)
<1> DEFINE r == Acp!Encode(b, op)
<1>0. b.queued \in Seq(Msg) /\ b.session \in BOOLEAN /\ b.prompt \in BOOLEAN BY DEF AcpState
<1>g. r \in AcpOutput BY AcpEncodeGives DEF AcpGives
<1>w. ~Has(<<>>, OF) /\ ~Has(<<>>, PF) BY EmptyWord
<1>1. CASE op.op = "user_message"
  <2>1. op.m \in Msg BY <1>1 DEF AnyOp
  <2>2. r = Acp!Submit(b, op.m) BY <1>1 DEF Acp!Encode
  <2> HIDE DEF r
  <2>3. AcpOp(b, r, op) BY <1>1, <2>1, <2>2, AcpSubmitDoes
  <2> QED BY <2>3 DEF r
<1>2. CASE op.op = "approve"
  <2>1. op.calls \in SUBSET (1..MaxAsks) BY <1>2 DEF AnyOp
  <2>2. r = Acp!Approve(b, op.calls) BY <1>2 DEF Acp!Encode
  <2> DEFINE known == op.calls \cap b.approvals
             c == [b EXCEPT !.approvals = @ \ known]
  <2>3. r.a = c /\ r.frames = AnswersOf(known) BY <2>2, AcpNames DEF Acp!Approve
  <2>4. c.queued = b.queued /\ c.mode = b.mode /\ c.session = b.session /\ c.prompt = b.prompt
        /\ c.failed = b.failed /\ c.approvals = b.approvals \ known
    BY DEF AcpState
  <2>5. known \subseteq Answered(r.frames) BY <2>1, <2>3, AnsweredOf
  <2>6. "answer" \notin OF /\ "answer" \notin PF BY DEF OF, PF
  <2>7. known \in SUBSET (1..MaxAsks) BY <2>1
  <2> HIDE DEF c, r
  <2>8. ~Has(r.frames, OF) /\ ~Has(r.frames, PF) BY <2>3, <2>6, <2>7, AnswerWords
  <2>9. AcpOp(b, r, op) BY <1>2, <1>g, <2>3, <2>4, <2>5, <2>8, AcpWrites DEF r
  <2> QED BY <2>9 DEF r
<1>3. CASE op.op = "interrupt"
  <2> DEFINE steers == (op.index # <<>>)
  <2>1. r = Acp!Interrupt(b, steers, op.index) BY <1>3 DEF Acp!Encode
  <2>2. steers \in BOOLEAN OBVIOUS
  <2> HIDE DEF r, steers
  <2>3. AcpOp(b, r, op) BY <1>3, <2>1, <2>2, AcpInterruptDoes
  <2> QED BY <2>3 DEF r
<1>4. CASE op.op = "steer"
  <2> DEFINE steers == TRUE
  <2>1. r = Acp!Interrupt(b, steers, op.index) BY <1>4 DEF Acp!Encode
  <2>a. steers \in BOOLEAN OBVIOUS
  <2> HIDE DEF r, steers
  <2>2. AcpOp(b, r, op) BY <1>4, <2>1, <2>a, AcpInterruptDoes
  <2> QED BY <2>2 DEF r
<1>5. CASE op.op = "unqueue"
  <2>2. r = Acp!Unqueued(b, "queued", op.index) BY <1>5 DEF Acp!Encode
  <2> DEFINE is == Acp!QueueIndex(op.index, Len(b.queued))
             k == CHOOSE i \in is : TRUE
             c == [b EXCEPT !.queued = RemoveAt(b.queued, k)]
  <2>3. (r.a = b \/ (r.a = c /\ is # {})) /\ r.frames = <<>>
    <3>1. CASE is = {}
      <4>1. r = [a |-> b, frames |-> <<>>, events |-> <<>>]
        BY <2>2, <3>1, AcpNames DEF Acp!Unqueued
      <4> QED BY <4>1
    <3>2. CASE is # {}
      <4> DEFINE e == <<[t |-> "unqueued", ms |-> <<b.queued[k]>>, n |-> 0]>>
      <4>1. r = [a |-> c, frames |-> <<>>, events |-> e]
        BY <2>2, <3>2, AcpNames DEF Acp!Unqueued
      <4> HIDE DEF c, is, e
      <4> QED BY <3>2, <4>1
    <3> QED BY <3>1, <3>2
  <2>4. c.mode = b.mode /\ c.session = b.session /\ c.prompt = b.prompt
        /\ c.failed = b.failed /\ c.approvals = b.approvals
    BY DEF AcpState
  <2>5. b.queued = <<>> => is = {}
    <3>1. is \subseteq 1..Len(b.queued) BY AcpNames
    <3>2. b.queued = <<>> => 1..Len(b.queued) = {} OBVIOUS
    <3> QED BY <3>1, <3>2
  <2> HIDE DEF c, r, is
  <2>7. AcpOp(b, r, op) BY <1>5, <1>g, <1>w, <2>3, <2>4, <2>5, AcpWrites DEF r
  <2> QED BY <2>7 DEF r
<1>6. CASE op.op = "queue_move"
  <2>2. r = Acp!QueueMoved(b, "queued", op.index, op.to) BY <1>6 DEF Acp!Encode
  <2> DEFINE moves == Acp!QueueMoveTarget(op.index, op.to, Len(b["queued"]))
             k == CHOOSE k \in moves : TRUE
             c == [b EXCEPT !["queued"] = Acp!Moved(b["queued"], k[1], k[2])]
  <2>3. (r.a = b \/ (r.a = c /\ moves # {})) /\ r.frames = <<>>
    BY <2>2, AcpNames DEF Acp!QueueMoved
  <2>4. c.mode = b.mode /\ c.session = b.session /\ c.prompt = b.prompt
        /\ c.failed = b.failed /\ c.approvals = b.approvals
    BY DEF AcpState
  <2>5. b.queued = <<>> => moves = {}
    <3>1. Acp!QueueIndex(op.index, Len(b.queued)) \subseteq 1..Len(b.queued) BY AcpNames
    <3>2. b.queued = <<>> => 1..Len(b.queued) = {} OBVIOUS
    <3> QED BY <3>1, <3>2 DEF Acp!QueueMoveTarget
  <2> HIDE DEF c, r, moves
  <2>7. AcpOp(b, r, op) BY <1>6, <1>g, <1>w, <2>3, <2>4, <2>5, AcpWrites DEF r
  <2> QED BY <2>7 DEF r
<1>8. CASE op.op \notin {"user_message", "approve", "interrupt", "steer", "unqueue", "queue_move"}
  <2>1. r.a = b /\ r.frames = <<>> BY <1>8, AcpNames DEF Acp!Encode
  <2> HIDE DEF r
  <2>3. AcpOp(b, r, op) BY <1>8, <1>g, <1>w, <2>1, AcpWrites DEF r
  <2> QED BY <2>3 DEF r
<1> QED BY <1>1, <1>2, <1>3, <1>4, <1>5, <1>6, <1>8

-----------------------------------------------------------------------------
\* --- Claude Code: what a line does to its state ---

\* What a line does to the adapter of Claude Code.
ClaudeHears(b, r, h) ==
    /\ r \in ClaudeOutput
    /\ r.a.mode = b.mode
    /\ r.a.active <=> h.t = "requesting" \/ (h.t # "result" /\ b.active)
    /\ h.t # "result" => r.a.held = b.held
    /\ h.t = "result" /\ r.a.held # <<>> => b.queued # {} \/ Written(r.frames) # {}
    /\ r.a.queued \subseteq b.queued \cup Written(r.frames)
    /\ h.t = "replay" => r.a.queued \cap ToSet(h.ms) = {}
    /\ In(b.steering.frames) \subseteq Written(r.frames) \cup In(r.a.steering.frames)
    /\ b.approvals \subseteq r.a.approvals
    /\ h.t = "can_use_tool" => h.n \in r.a.approvals
                               /\ r.events = <<NumberedAs("approval_request", h.n)>>
    /\ h.t \notin {"result", "can_use_tool"} => r.events = <<>>

\* It changes one part of the adapter, and tells of it.
LEMMA ClaudeQuietHears ==
    ASSUME NEW b \in ClaudeState, NEW h, h.t \notin {"result", "can_use_tool"}, NEW c \in ClaudeState,
           c.mode = b.mode, c.active <=> h.t = "requesting" \/ b.active, c.held = b.held,
           c.queued \subseteq b.queued, h.t = "replay" => c.queued \cap ToSet(h.ms) = {},
           c.steering.frames = b.steering.frames, c.approvals = b.approvals
    PROVE  ClaudeHears(b, [a |-> c, frames |-> <<>>, events |-> <<>>], h)
<1> DEFINE r == [a |-> c, frames |-> <<>>, events |-> <<>>]
<1>1. r.a = c /\ r.frames = <<>> /\ r.events = <<>> OBVIOUS
<1>2. <<>> \in Seq(Carried(ClaudeFrame)) /\ <<>> \in Seq(Carried(EventName)) OBVIOUS
<1>3. r \in ClaudeOutput BY <1>2 DEF ClaudeOutput
<1> HIDE DEF r
<1>4. ClaudeHears(b, r, h) BY <1>1, <1>3 DEF ClaudeHears
<1> QED BY <1>4 DEF r

\* A turn's end, and every other line, leaves Claude Code as ClaudeHears says.
LEMMA ClaudeTurnEndHears ==
    ASSUME NEW b \in ClaudeState, NEW h, h.t = "result"
    PROVE  ClaudeHears(b, Claude!OnTurnEnd(b), h)
           /\ Claude!OnTurnEnd(b).a.steering = b.steering
<1> DEFINE r == Claude!OnTurnEnd(b)
           d == [b EXCEPT !.active = FALSE]
           ready == <<Nameless("ready")>>
           m == Head(b.held)
           t == Tail(b.held)
           c == [d EXCEPT !.held = t, !.queued = {m}]
           wrote == <<About("user", m)>>
<1>0. b.held \in Seq(Msg) BY DEF ClaudeState
<1>1. r = IF b.queued = {} /\ b.held # <<>>
          THEN [a |-> c, frames |-> wrote, events |-> ready]
          ELSE [a |-> d, frames |-> <<>>, events |-> ready]
  <2>1. d.held = b.held /\ d.queued = b.queued BY DEF ClaudeState
  <2> HIDE DEF d
  <2> QED BY <2>1, ClaudeNames DEF Claude!OnTurnEnd, About, Nameless, d
<1>2. r \in ClaudeOutput BY ClaudeTurnEndGives DEF ClaudeGives
<1>3. d.mode = b.mode /\ d.active = FALSE /\ d.held = b.held /\ d.queued = b.queued
      /\ d.steering = b.steering /\ d.approvals = b.approvals
  BY DEF ClaudeState
<1>4. c.mode = b.mode /\ c.active = FALSE /\ c.queued = {m}
      /\ c.steering = b.steering /\ c.approvals = b.approvals
  BY DEF ClaudeState
<1> HIDE DEF c, d, r
<1>5. CASE ~(b.queued = {} /\ b.held # <<>>)
  <2>1. r.a = d BY <1>1, <1>5
  <2> QED BY <1>2, <1>3, <1>5, <2>1 DEF ClaudeHears, r
<1>6. CASE b.queued = {} /\ b.held # <<>>
  <2>1. r.a = c /\ r.frames = wrote BY <1>1, <1>6
  <2>2. m \in Msg BY <1>0, <1>6, TailOnce
  <2>3. Written(wrote) = {m}
    <3> HIDE DEF m
    <3> DEFINE x == About("user", m)
    <3>1. x.t = "user" /\ x.ms = <<m>> BY DEF About
    <3> HIDE DEF x
    <3>2. MsgsOf(<<x>>, {"user", "now"}) = ToSet(<<m>>) BY <3>1, MsgsOne
    <3>3. ToSet(<<m>>) = {m}
      <4>1. <<m>> \in Seq(Msg) /\ In(<<m>>) = {m} BY <2>2, OneOnce
      <4> QED BY <4>1, ToSetIn
    <3> QED BY <3>2, <3>3 DEF Written, x
  <2> HIDE DEF wrote, m
  <2> QED BY <1>2, <1>4, <1>6, <2>1, <2>3 DEF ClaudeHears, r
<1> QED BY <1>5, <1>6

LEMMA ClaudeLineDoes ==
    ASSUME NEW b \in ClaudeState, NEW h \in Asking(ClaudeLine)
    PROVE  ClaudeHears(b, Claude!TranslateLine(b, h), h)
<1> DEFINE r == Claude!TranslateLine(b, h)
<1>0. h.t \in ClaudeLine /\ h.ms \in Seq(Msg) /\ h.n \in 0..MaxAsks
      /\ (h.t = "can_use_tool" => h.n # 0)
  BY DEF Asking, Carried
<1>1. ASSUME h.t = "requesting" PROVE ClaudeHears(b, r, h)
  <2> DEFINE c == [b EXCEPT !.active = TRUE]
  <2>1. r = [a |-> c, frames |-> <<>>, events |-> <<>>]
    BY <1>1, ClaudeNames DEF Claude!TranslateLine
  <2>2. c \in ClaudeState /\ c.held = b.held /\ c.steering = b.steering /\ c.active = TRUE
        /\ c.mode = b.mode /\ c.queued = b.queued /\ c.approvals = b.approvals
    BY DEF ClaudeState
  <2> HIDE DEF r, c
  <2> QED BY <1>1, <2>1, <2>2, ClaudeQuietHears
<1>2. ASSUME h.t = "replay" PROVE ClaudeHears(b, r, h)
  <2> DEFINE c == [b EXCEPT !.queued = @ \ ToSet(h.ms)]
  <2>1. r = [a |-> c, frames |-> <<>>, events |-> <<>>]
    BY <1>2, ClaudeNames DEF Claude!TranslateLine, Claude!OnUser
  <2>2. c \in ClaudeState /\ c.held = b.held /\ c.steering = b.steering /\ c.active = b.active
        /\ c.mode = b.mode /\ c.queued = b.queued \ ToSet(h.ms) /\ c.approvals = b.approvals
    BY DEF ClaudeState
  <2> HIDE DEF r, c
  <2> QED BY <1>2, <2>1, <2>2, ClaudeQuietHears
<1>3. ASSUME h.t = "result" PROVE ClaudeHears(b, r, h)
  <2>1. r = Claude!OnTurnEnd(b) BY <1>3 DEF Claude!TranslateLine
  <2> HIDE DEF r
  <2> QED BY <1>3, <2>1, ClaudeTurnEndHears
<1>4. ASSUME h.t = "can_use_tool" PROVE ClaudeHears(b, r, h)
  <2> DEFINE c == [b EXCEPT !.approvals = @ \cup {h.n}]
             asked == <<NumberedAs("approval_request", h.n)>>
  <2>1. r = [a |-> c, frames |-> <<>>, events |-> asked]
    BY <1>4, ClaudeNames DEF Claude!TranslateLine, Claude!OnControlRequest
  <2>2. h.n \in 1..MaxAsks BY <1>0, <1>4, EngineAssumption
  <2>3. c \in ClaudeState /\ c.held = b.held /\ c.steering = b.steering /\ c.active = b.active
        /\ c.mode = b.mode /\ c.queued = b.queued /\ c.approvals = b.approvals \cup {h.n}
    BY <2>2 DEF ClaudeState
  <2>4. asked \in Seq(Carried(EventName))
    <3>1. "approval_request" \in EventName /\ <<>> \in Seq(Msg) BY DEF EventName
    <3>2. NumberedAs("approval_request", h.n) \in Carried(EventName)
      BY <1>0, <3>1 DEF NumberedAs, Carried
    <3> QED BY <3>2
  <2>5. <<>> \in Seq(Carried(ClaudeFrame)) OBVIOUS
  <2> HIDE DEF r, c, asked
  <2>6. r \in ClaudeOutput BY <2>1, <2>3, <2>4, <2>5 DEF ClaudeOutput
  <2> QED BY <1>4, <2>1, <2>3, <2>6 DEF ClaudeHears, asked
<1>5. ASSUME h.t = "moved" PROVE ClaudeHears(b, r, h)
  <2> DEFINE w == IF b.steering.waiting > 0 THEN b.steering.waiting - 1 ELSE 0
             c == [b EXCEPT !.steering.waiting = w]
  <2>1. r = [a |-> c, frames |-> <<>>, events |-> <<>>]
    BY <1>5, ClaudeNames DEF Claude!TranslateLine, Claude!OnControlResponse
  <2>2. b.steering.waiting \in Nat BY DEF ClaudeState
  <2>3. w \in Nat BY <2>2
  <2> HIDE DEF w
  <2>4. c \in ClaudeState /\ c.held = b.held /\ c.steering.frames = b.steering.frames
        /\ c.mode = b.mode /\ c.queued = b.queued /\ c.approvals = b.approvals
        /\ c.active = b.active
    BY <2>3 DEF ClaudeState
  <2> HIDE DEF r, c
  <2> QED BY <1>5, <2>1, <2>4, ClaudeQuietHears
<1>6. ASSUME h.t \in {"task_started", "task_updated", "task_notification"}
      PROVE  ClaudeHears(b, r, h)
  <2> DEFINE c == [b EXCEPT !.subagent = (h.t = "task_started")]
  <2>1. r = [a |-> c, frames |-> <<>>, events |-> <<>>]
    BY <1>6, ClaudeNames DEF Claude!TranslateLine, Claude!OnTask
  <2>2. c \in ClaudeState /\ c.held = b.held /\ c.steering = b.steering /\ c.active = b.active
        /\ c.mode = b.mode /\ c.queued = b.queued /\ c.approvals = b.approvals
    BY DEF ClaudeState
  <2> HIDE DEF r, c
  <2> QED BY <1>6, <2>1, <2>2, ClaudeQuietHears
<1>7. ClaudeHears(b, r, h) BY <1>0, <1>1, <1>2, <1>3, <1>4, <1>5, <1>6 DEF ClaudeLine
<1> QED BY <1>7

LEMMA ClaudeTranslateDoes ==
    ASSUME NEW b \in ClaudeState, NEW h \in Asking(ClaudeLine)
    PROVE  LET s == Claude!Translate(b, h)
           IN  ClaudeHears(b, s, h) /\ (s.a.steering.frames # <<>> => s.a.active)
<1> DEFINE r == Claude!TranslateLine(b, h)
           s == Claude!SteerReady(r)
<1>1. ClaudeHears(b, r, h) BY ClaudeLineDoes
<1>2. Claude!Translate(b, h) = s BY DEF Claude!Translate
<1> HIDE DEF r
<1>3. /\ s \in ClaudeOutput /\ s.events = r.events
      /\ s.a.mode = r.a.mode /\ s.a.active = r.a.active /\ s.a.held = r.a.held
      /\ s.a.queued = r.a.queued /\ s.a.approvals = r.a.approvals
      /\ s.a.steering.frames # <<>> => r.a.active /\ r.a.steering.frames # <<>>
      /\ In(s.a.steering.frames) \cup Written(s.frames)
           = In(r.a.steering.frames) \cup Written(r.frames)
      /\ Written(r.frames) \subseteq Written(s.frames)
  BY <1>1, ClaudeReadyDoes DEF ClaudeHears
<1> HIDE DEF s
<1>4. ClaudeHears(b, s, h) BY <1>1, <1>3 DEF ClaudeHears
<1> QED BY <1>2, <1>3, <1>4

-----------------------------------------------------------------------------
\* --- Codex: what a line does to its state ---

Resolves(h) == IF h.t = "resolved" THEN {h.n} ELSE {}

\* What a line does to the Codex adapter, before it looks at what waits.
CodexHeard(b, r, h) ==
    /\ r.a.mode = b.mode
    /\ r.a.thread <=> b.thread \/ h.t = "opened"
    /\ r.a.rolling <=> b.rolling /\ h.t \notin RL
    /\ (Has(r.frames, TO) => h.t = "no-thread/resume") /\ ~Has(r.frames, RF)
    /\ NoneAfter(r.frames, TO, TO) /\ NoneAfter(r.frames, TS, TS)
    /\ r.a.busy => \/ Has(r.frames, TS) \/ h.t = "turn/started"
                   \/ b.busy /\ h.t \notin TL \cup {"no-thread/start"}
    /\ b.busy /\ h.t \notin TL \cup {"no-thread/start"} => r.a.busy
    /\ h.t = "turn/started" => r.a.busy
    /\ Has(r.frames, TS) => /\ r.a.busy /\ (r.a.thread \/ h.t \in RF)
                            /\ ~b.busy \/ h.t \in TL \cup RF \cup {"opened", "no-thread/start"}
                            /\ ~r.a.rolling \/ h.t = "opened"
    /\ r.a.queued # <<>> => b.queued # <<>> /\ h.t # "opened"
    /\ r.a.afterRollback # <<>> => b.afterRollback # <<>> /\ h.t \notin RL
    /\ r.a.steering # <<>> => b.steering # <<>> /\ h.t \notin {"turn/steer", "no-turn/steer"}
    /\ r.a.waiting # <<>> => b.waiting # <<>> \/ b.steering # <<>>
    /\ b.approvals \subseteq r.a.approvals \cup Resolves(h)
    /\ h.t = "requestApproval" =>
         \/ h.n \in r.a.approvals /\ r.events = <<NumberedAs("approval_request", h.n)>>
         \/ h.n \in Answered(r.frames) /\ r.events = <<>>
    /\ Has(r.events, {"ready"}) =>
         h.t \in {"opened", "no-thread/start", "no-turn/start", "turn/completed"}
    /\ Has(r.events, {"approval_request"}) => h.t = "requestApproval"

CodexHears(b, r, h) ==
    /\ r \in CodexOutput /\ CodexHeard(b, r, h)
    /\ r.a.waiting # <<>> => r.a.busy \/ r.a.rolling \/ ~r.a.thread

\* An answer without frames or events.
LEMMA NoFrames ==
    /\ \A A : ~Has(<<>>, A)
    /\ \A A, B : NoneAfter(<<>>, A, B) /\ Follows(<<>>, A, B)
BY EmptyWord

\* It writes nothing and starts nothing.
LEMMA CodexHushed ==
    ASSUME NEW b \in CodexState, NEW r, NEW h, r.frames = <<>>,
           r.a.mode = b.mode,
           r.a.thread <=> b.thread \/ h.t = "opened",
           r.a.rolling <=> b.rolling /\ h.t \notin RL,
           r.a.busy <=> h.t = "turn/started" \/ (b.busy /\ h.t \notin TL \cup {"no-thread/start"}),
           r.a.queued # <<>> => b.queued # <<>> /\ h.t # "opened",
           r.a.afterRollback # <<>> => b.afterRollback # <<>> /\ h.t \notin RL,
           r.a.steering # <<>> => b.steering # <<>> /\ h.t \notin {"turn/steer", "no-turn/steer"},
           r.a.waiting # <<>> => b.waiting # <<>> \/ b.steering # <<>>,
           b.approvals \subseteq r.a.approvals \cup Resolves(h),
           h.t = "requestApproval" =>
             h.n \in r.a.approvals /\ r.events = <<NumberedAs("approval_request", h.n)>>,
           Has(r.events, {"ready"}) =>
             h.t \in {"opened", "no-thread/start", "no-turn/start", "turn/completed"},
           Has(r.events, {"approval_request"}) => h.t = "requestApproval"
    PROVE  CodexHeard(b, r, h)
<1>1. ~Has(r.frames, TO) /\ ~Has(r.frames, RF) /\ ~Has(r.frames, TS)
      /\ NoneAfter(r.frames, TO, TO) /\ NoneAfter(r.frames, TS, TS)
  BY NoFrames
<1> QED BY <1>1 DEF CodexHeard

\* Messages handed back are no word of a turn.
LEMMA EventWords ==
    /\ \A A : ~Has(<<>>, A)
    /\ \A t, A : Has(<<Nameless(t)>>, A) <=> t \in A
    /\ \A t, n, A : Has(<<NumberedAs(t, n)>>, A) <=> t \in A
    /\ \A t, q, A : Has(<<[t |-> t, ms |-> q, n |-> 0]>>, A) <=> t \in A
    /\ \A t, q, u, A : Has(<<[t |-> t, ms |-> q, n |-> 0], Nameless(u)>>, A) <=> t \in A \/ u \in A
<1>1. \A A : ~Has(<<>>, A) BY EmptyWord
<1>2. \A x, A : Has(<<x>>, A) <=> x.t \in A BY OneWord
<1>3. \A x, y, A : Has(<<x, y>>, A) <=> x.t \in A \/ y.t \in A BY TwoWord
<1>4. \A t, n, q : Nameless(t).t = t /\ NumberedAs(t, n).t = t /\ [t |-> t, ms |-> q, n |-> 0].t = t
  BY DEF Nameless, NumberedAs
<1> QED BY <1>1, <1>2, <1>3, <1>4

\* A turn starts with the messages `q`.
LEMMA StartFrame ==
    ASSUME NEW c \in CodexState, NEW e, NEW q
    PROVE  LET s == Codex!TurnStart(c, <<>>, e, q)
           IN  /\ s.a = [c EXCEPT !.busy = TRUE] /\ s.events = e
               /\ Has(s.frames, TS) /\ ~Has(s.frames, TO) /\ ~Has(s.frames, RF)
               /\ NoneAfter(s.frames, TO, TO) /\ NoneAfter(s.frames, TS, TS)
<1> DEFINE x == [t |-> "turn/start", ms |-> q, n |-> 0]
           s == Codex!TurnStart(c, <<>>, e, q)
<1>1. s.a = [c EXCEPT !.busy = TRUE] /\ s.events = e /\ s.frames = <<x>>
  <2>1. \A z : Append(<<>>, z) = <<z>> OBVIOUS
  <2> QED BY <2>1, CodexNames DEF Codex!TurnStart
<1>2. x.t = "turn/start" OBVIOUS
<1> HIDE DEF x
<1>3. \A A, B : (Has(<<x>>, A) <=> "turn/start" \in A) /\ NoneAfter(<<x>>, A, B) BY <1>2, OneWord
<1>4. "turn/start" \in TS /\ "turn/start" \notin TO /\ "turn/start" \notin RF BY DEF TS, TO, RF
<1> QED BY <1>1, <1>3, <1>4

\* An answer to a request does what CodexHeard says, ...
LEMMA CodexResponseHeard ==
    ASSUME NEW b \in CodexState, NEW h,
           h.t \in {"opened", "no-thread/resume", "no-thread/start", "turn/start",
                       "no-turn/start", "turn/steer", "no-turn/steer", "thread/revert",
                       "no-thread/revert"}
    PROVE  CodexHeard(b, Codex!OnResponse(b, h), h)
<1> DEFINE r == Codex!OnResponse(b, h)
           ready == <<Nameless("ready")>>
<1>0. b.queued \in Seq(Msg) /\ b.afterRollback \in Seq(Msg) /\ b.steering \in Seq(Msg)
      /\ b.waiting \in Seq(Msg) /\ b.thread \in BOOLEAN /\ b.busy \in BOOLEAN /\ b.rolling \in BOOLEAN
  BY DEF CodexState
<1>n. <<>> \in Seq(Msg) OBVIOUS
<1>e. \A A : (Has(ready, A) <=> "ready" \in A) /\ ~Has(<<>>, A) BY EventWords
<1>z. Resolves(h) = {} /\ h.t # "requestApproval" /\ h.t # "turn/started" BY DEF Resolves
<1> HIDE DEF ready
<1>1. CASE h.t = "opened"
  <2> DEFINE d == [b EXCEPT !.thread = TRUE]
             c == [d EXCEPT !.queued = <<>>]
             g == [c EXCEPT !.busy = TRUE]
             z == Codex!TurnStart(c, <<>>, ready, b.queued)
  <2>1. r = IF b.queued = <<>> THEN [a |-> d, frames |-> <<>>, events |-> ready] ELSE z
    BY <1>1, CodexNames DEF Codex!OnResponse, Codex!ThreadOpened, Nameless, ready
  <2>2. d \in CodexState /\ d.mode = b.mode /\ d.thread = TRUE /\ d.rolling = b.rolling
        /\ d.busy = b.busy /\ d.queued = b.queued /\ d.afterRollback = b.afterRollback
        /\ d.steering = b.steering /\ d.waiting = b.waiting /\ d.approvals = b.approvals
    BY DEF CodexState
  <2>3. c \in CodexState BY <1>0, <1>n DEF CodexState
  <2>4. g.mode = b.mode /\ g.thread = TRUE /\ g.rolling = b.rolling
        /\ g.busy = TRUE /\ g.queued = <<>> /\ g.afterRollback = b.afterRollback
        /\ g.steering = b.steering /\ g.waiting = b.waiting /\ g.approvals = b.approvals
    BY DEF CodexState
  <2>o. "opened" \notin RL /\ "opened" \notin TL BY DEF RL, TL
  <2> HIDE DEF d, r
  <2>5. CASE b.queued = <<>>
    <3>1. r.a = d /\ r.frames = <<>> /\ r.events = ready BY <2>1, <2>5
    <3>2. CodexHeard(b, r, h)
      BY <1>0, <1>1, <1>e, <1>z, <2>2, <2>5, <2>o, <3>1, CodexHushed
    <3> QED BY <3>2 DEF r
  <2>6. CASE b.queued # <<>>
    <3> HIDE DEF c
    <3>1. z.a = g /\ z.events = ready
          /\ Has(z.frames, TS) /\ ~Has(z.frames, TO) /\ ~Has(z.frames, RF)
          /\ NoneAfter(z.frames, TO, TO) /\ NoneAfter(z.frames, TS, TS)
      BY <2>3, StartFrame
    <3> HIDE DEF z, g
    <3>2. CodexHeard(b, z, h)
      BY <1>0, <1>1, <1>e, <1>z, <2>4, <2>6, <2>o, <3>1 DEF CodexHeard
    <3> QED BY <2>1, <2>6, <3>2 DEF r
  <2> QED BY <2>5, <2>6
<1>2. CASE h.t = "no-thread/resume"
  <2> DEFINE f == <<Nameless("thread/start")>>
  <2>1. r.a = b /\ r.frames = f /\ r.events = <<>>
    BY <1>2, CodexNames DEF Codex!OnResponse, Nameless
  <2>2. \A A, B : (Has(f, A) <=> "thread/start" \in A) /\ NoneAfter(f, A, B)
    <3> DEFINE x == Nameless("thread/start")
    <3>1. x.t = "thread/start" BY DEF Nameless
    <3> HIDE DEF x
    <3>2. \A A, B : (Has(<<x>>, A) <=> "thread/start" \in A) /\ NoneAfter(<<x>>, A, B)
      BY <3>1, OneWord
    <3> QED BY <3>2 DEF x
  <2>3. "thread/start" \notin TS /\ "thread/start" \notin RF BY DEF TS, RF
  <2>4. "no-thread/resume" \notin RL /\ "no-thread/resume" \notin TL BY DEF RL, TL
  <2> HIDE DEF f, r
  <2>5. CodexHeard(b, r, h) BY <1>0, <1>2, <1>e, <1>z, <2>1, <2>2, <2>3, <2>4 DEF CodexHeard
  <2> QED BY <2>5 DEF r
<1>3. CASE h.t = "no-thread/start"
  <2> DEFINE c == [b EXCEPT !.queued = <<>>, !.busy = FALSE]
             e == <<[t |-> "refused", ms |-> b.queued, n |-> 0], Nameless("ready")>>
  <2>1. r.a = c /\ r.frames = <<>> /\ r.events = e
    BY <1>3, CodexNames DEF Codex!OnResponse, Nameless
  <2>2. c.mode = b.mode /\ c.thread = b.thread /\ c.rolling = b.rolling
        /\ c.busy = FALSE /\ c.queued = <<>> /\ c.afterRollback = b.afterRollback
        /\ c.steering = b.steering /\ c.waiting = b.waiting /\ c.approvals = b.approvals
    BY DEF CodexState
  <2>3. Has(e, {"ready"}) /\ ~Has(e, {"approval_request"}) BY EventWords
  <2>4. "no-thread/start" \notin RL /\ "no-thread/start" \notin TL BY DEF RL, TL
  <2> HIDE DEF c, e, r
  <2>5. CodexHeard(b, r, h) BY <1>0, <1>3, <1>z, <2>1, <2>2, <2>3, <2>4, CodexHushed
  <2> QED BY <2>5 DEF r
<1>4. CASE h.t = "turn/start"
  <2> DEFINE c == [b EXCEPT !.turn = TRUE]
  <2>1. r.a = c /\ r.frames = <<>> /\ r.events = <<>> BY <1>4, CodexNames DEF Codex!OnResponse
  <2>2. c.mode = b.mode /\ c.thread = b.thread /\ c.rolling = b.rolling
        /\ c.busy = b.busy /\ c.queued = b.queued /\ c.afterRollback = b.afterRollback
        /\ c.steering = b.steering /\ c.waiting = b.waiting /\ c.approvals = b.approvals
    BY DEF CodexState
  <2>4. "turn/start" \notin RL /\ "turn/start" \notin TL BY DEF RL, TL
  <2> HIDE DEF c, r
  <2>5. CodexHeard(b, r, h) BY <1>0, <1>4, <1>e, <1>z, <2>1, <2>2, <2>4, CodexHushed
  <2> QED BY <2>5 DEF r
<1>5. CASE h.t = "no-turn/start"
  <2> DEFINE c == [b EXCEPT !.busy = FALSE]
  <2>1. r.a = c /\ r.frames = <<>> /\ r.events = ready
    BY <1>5, CodexNames DEF Codex!OnResponse, Nameless, ready
  <2>2. c.mode = b.mode /\ c.thread = b.thread /\ c.rolling = b.rolling
        /\ c.busy = FALSE /\ c.queued = b.queued /\ c.afterRollback = b.afterRollback
        /\ c.steering = b.steering /\ c.waiting = b.waiting /\ c.approvals = b.approvals
    BY DEF CodexState
  <2>4. "no-turn/start" \notin RL /\ "no-turn/start" \in TL BY DEF RL, TL
  <2> HIDE DEF c, r
  <2>5. CodexHeard(b, r, h) BY <1>0, <1>5, <1>e, <1>z, <2>1, <2>2, <2>4, CodexHushed
  <2> QED BY <2>5 DEF r
<1>6. CASE h.t = "turn/steer"
  <2> DEFINE c == [b EXCEPT !.steering = <<>>, !.steers = @ - 1]
             e == <<[t |-> "steered", ms |-> b.steering, n |-> 0]>>
  <2>1. r.a = c /\ r.frames = <<>> /\ r.events = e BY <1>6, CodexNames DEF Codex!OnResponse
  <2>2. c.mode = b.mode /\ c.thread = b.thread /\ c.rolling = b.rolling
        /\ c.busy = b.busy /\ c.queued = b.queued /\ c.afterRollback = b.afterRollback
        /\ c.steering = <<>> /\ c.waiting = b.waiting /\ c.approvals = b.approvals
    BY DEF CodexState
  <2>3. ~Has(e, {"ready"}) /\ ~Has(e, {"approval_request"}) BY EventWords
  <2>4. "turn/steer" \notin RL /\ "turn/steer" \notin TL BY DEF RL, TL
  <2> HIDE DEF c, e, r
  <2>5. CodexHeard(b, r, h) BY <1>0, <1>6, <1>z, <2>1, <2>2, <2>3, <2>4, CodexHushed
  <2> QED BY <2>5 DEF r
<1>7. CASE h.t = "no-turn/steer"
  <2> DEFINE q == b.steering \o b.waiting
             c == [b EXCEPT !.waiting = q, !.steering = <<>>, !.steers = @ - 1]
  <2>1. r.a = c /\ r.frames = <<>> /\ r.events = <<>> BY <1>7, CodexNames DEF Codex!OnResponse
  <2>q. q # <<>> => b.waiting # <<>> \/ b.steering # <<>> BY <1>0
  <2> HIDE DEF q
  <2>2. c.mode = b.mode /\ c.thread = b.thread /\ c.rolling = b.rolling
        /\ c.busy = b.busy /\ c.queued = b.queued /\ c.afterRollback = b.afterRollback
        /\ c.steering = <<>> /\ c.waiting = q /\ c.approvals = b.approvals
    BY DEF CodexState
  <2>4. "no-turn/steer" \notin RL /\ "no-turn/steer" \notin TL BY DEF RL, TL
  <2> HIDE DEF c, r
  <2>5. CodexHeard(b, r, h) BY <1>0, <1>7, <1>e, <1>z, <2>1, <2>2, <2>4, <2>q, CodexHushed
  <2> QED BY <2>5 DEF r
<1>8. CASE h.t = "thread/revert"
  <2> DEFINE c == [b EXCEPT !.rolling = FALSE, !.afterRollback = <<>>]
             g == [c EXCEPT !.busy = TRUE]
             q == b.afterRollback
             z == Codex!TurnStart(c, <<>>, <<>>, q)
  <2>1. r = IF q = <<>> THEN [a |-> c, frames |-> <<>>, events |-> <<>>] ELSE z
    BY <1>8, CodexNames DEF Codex!OnResponse
  <2>2. c \in CodexState /\ c.mode = b.mode /\ c.thread = b.thread /\ c.rolling = FALSE
        /\ c.busy = b.busy /\ c.queued = b.queued /\ c.afterRollback = <<>>
        /\ c.steering = b.steering /\ c.waiting = b.waiting /\ c.approvals = b.approvals
    BY <1>0, <1>n DEF CodexState
  <2>3. g.mode = b.mode /\ g.thread = b.thread /\ g.rolling = FALSE
        /\ g.busy = TRUE /\ g.queued = b.queued /\ g.afterRollback = <<>>
        /\ g.steering = b.steering /\ g.waiting = b.waiting /\ g.approvals = b.approvals
    BY DEF CodexState
  <2>4. "thread/revert" \in RL /\ "thread/revert" \notin TL /\ "thread/revert" \in RF
    BY DEF RL, TL, RF
  <2> HIDE DEF c, r
  <2>5. CASE q = <<>>
    <3>1. r.a = c /\ r.frames = <<>> /\ r.events = <<>> BY <2>1, <2>5
    <3>2. CodexHeard(b, r, h) BY <1>0, <1>8, <1>e, <1>z, <2>2, <2>4, <3>1, CodexHushed
    <3> QED BY <3>2 DEF r
  <2>6. CASE q # <<>>
    <3>1. z.a = g /\ z.events = <<>>
          /\ Has(z.frames, TS) /\ ~Has(z.frames, TO) /\ ~Has(z.frames, RF)
          /\ NoneAfter(z.frames, TO, TO) /\ NoneAfter(z.frames, TS, TS)
      BY <2>2, StartFrame
    <3> HIDE DEF z, g
    <3>2. CodexHeard(b, z, h)
      BY <1>0, <1>8, <1>e, <1>z, <2>3, <2>4, <3>1 DEF CodexHeard
    <3> QED BY <2>1, <2>6, <3>2 DEF r
  <2> QED BY <2>5, <2>6
<1>9. CASE h.t = "no-thread/revert"
  <2> DEFINE c == [b EXCEPT !.rolling = FALSE, !.afterRollback = <<>>, !.userTurns = @ + 1]
             e == <<[t |-> "refused", ms |-> b.afterRollback, n |-> 0]>>
  <2>1. r.a = c /\ r.frames = <<>> /\ r.events = e BY <1>9, CodexNames DEF Codex!OnResponse
  <2>2. c.mode = b.mode /\ c.thread = b.thread /\ c.rolling = FALSE
        /\ c.busy = b.busy /\ c.queued = b.queued /\ c.afterRollback = <<>>
        /\ c.steering = b.steering /\ c.waiting = b.waiting /\ c.approvals = b.approvals
    BY DEF CodexState
  <2>3. ~Has(e, {"ready"}) /\ ~Has(e, {"approval_request"}) BY EventWords
  <2>4. "no-thread/revert" \in RL /\ "no-thread/revert" \notin TL BY DEF RL, TL
  <2> HIDE DEF c, e, r
  <2>5. CodexHeard(b, r, h) BY <1>0, <1>9, <1>z, <2>1, <2>2, <2>3, <2>4, CodexHushed
  <2> QED BY <2>5 DEF r
<1> QED BY <1>1, <1>2, <1>3, <1>4, <1>5, <1>6, <1>7, <1>8, <1>9

\* ... and so does every other line.
LEMMA CodexTakesHeard ==
    ASSUME NEW b \in CodexState, NEW h \in Asking(CodexLine)
    PROVE  CodexHeard(b, CodexTakes(b, h), h)
<1> DEFINE r == CodexTakes(b, h)
           ready == <<Nameless("ready")>>
<1>0. h.t \in CodexLine /\ b.busy \in BOOLEAN /\ b.thread \in BOOLEAN /\ b.rolling \in BOOLEAN
  BY DEF CodexState, Asking, Carried
<1>e. \A A : (Has(ready, A) <=> "ready" \in A) /\ ~Has(<<>>, A) BY EventWords
<1> HIDE DEF ready
<1>1. CASE h.t = "requestApproval"
  <2> DEFINE c == [b EXCEPT !.approvals = @ \cup {h.n}]
             x == NumberedAs("answer", h.n)
             f == <<x>>
             e == <<NumberedAs("approval_request", h.n)>>
  <2>1. IF b.mode = "full" THEN r.a = b /\ r.frames = f /\ r.events = <<>>
        ELSE r.a = c /\ r.frames = <<>> /\ r.events = e
    BY <1>1, CodexNames DEF CodexTakes, Codex!OnServerRequest
  <2>2. c.mode = b.mode /\ c.thread = b.thread /\ c.rolling = b.rolling
        /\ c.busy = b.busy /\ c.queued = b.queued /\ c.afterRollback = b.afterRollback
        /\ c.steering = b.steering /\ c.waiting = b.waiting /\ c.approvals = b.approvals \cup {h.n}
    BY DEF CodexState
  <2>3. ~Has(e, {"ready"}) /\ (e = <<NumberedAs("approval_request", h.n)>>) BY EventWords
  <2>4. "requestApproval" \notin RL /\ "requestApproval" \notin TL BY DEF RL, TL
  <2>5. x.t = "answer" /\ x.n = h.n BY DEF NumberedAs
  <2> HIDE DEF c, x, r, e
  <2>6. CASE b.mode # "full"
    <3>1. CodexHeard(b, r, h)
      BY <1>0, <1>1, <1>e, <2>1, <2>2, <2>3, <2>4, <2>6, CodexHushed
    <3> QED BY <3>1 DEF r
  <2>7. CASE b.mode = "full"
    <3>1. h.n \in Answered(f)
      <4>1. DOMAIN <<x>> = {1} /\ <<x>>[1] = x OBVIOUS
      <4> QED BY <2>5, <4>1 DEF Answered
    <3>2. \A A, B : (Has(f, A) <=> "answer" \in A) /\ NoneAfter(f, A, B) BY <2>5, OneWord
    <3>3. "answer" \notin TO /\ "answer" \notin TS /\ "answer" \notin RF BY DEF TO, TS, RF
    <3> HIDE DEF f
    <3>4. CodexHeard(b, r, h)
      BY <1>0, <1>1, <1>e, <2>1, <2>4, <2>7, <3>1, <3>2, <3>3 DEF CodexHeard
    <3> QED BY <3>4 DEF r
  <2> QED BY <2>6, <2>7
<1>2. CASE h.t = "turn/started"
  <2> DEFINE c == [b EXCEPT !.busy = TRUE, !.turn = TRUE, !.userTurns = @ + 1]
  <2>1. r.a = c /\ r.frames = <<>> /\ r.events = <<>>
    BY <1>2, CodexNames DEF CodexTakes, Codex!OnNotification
  <2>2. c.mode = b.mode /\ c.thread = b.thread /\ c.rolling = b.rolling
        /\ c.busy = TRUE /\ c.queued = b.queued /\ c.afterRollback = b.afterRollback
        /\ c.steering = b.steering /\ c.waiting = b.waiting /\ c.approvals = b.approvals
    BY DEF CodexState
  <2>4. "turn/started" \notin RL /\ "turn/started" \notin TL BY DEF RL, TL
  <2> HIDE DEF c, r
  <2>5. CodexHeard(b, r, h) BY <1>0, <1>2, <1>e, <2>1, <2>2, <2>4, CodexHushed
  <2> QED BY <2>5 DEF r
<1>3. CASE h.t = "turn/completed"
  <2> DEFINE c == [b EXCEPT !.turn = FALSE, !.busy = FALSE]
  <2>1. r.a = c /\ r.frames = <<>> /\ r.events = ready
    BY <1>3, CodexNames DEF CodexTakes, Codex!OnNotification, ready, Nameless
  <2>2. c.mode = b.mode /\ c.thread = b.thread /\ c.rolling = b.rolling
        /\ c.busy = FALSE /\ c.queued = b.queued /\ c.afterRollback = b.afterRollback
        /\ c.steering = b.steering /\ c.waiting = b.waiting /\ c.approvals = b.approvals
    BY DEF CodexState
  <2>4. "turn/completed" \notin RL /\ "turn/completed" \in TL BY DEF RL, TL
  <2> HIDE DEF c, r
  <2>5. CodexHeard(b, r, h) BY <1>0, <1>3, <1>e, <2>1, <2>2, <2>4, CodexHushed
  <2> QED BY <2>5 DEF r
<1>4. CASE h.t = "resolved"
  <2> DEFINE c == [b EXCEPT !.approvals = @ \ {h.n}]
  <2>1. r.a = c /\ r.frames = <<>> /\ r.events = <<>>
    BY <1>4, CodexNames DEF CodexTakes, Codex!OnNotification
  <2>2. c.mode = b.mode /\ c.thread = b.thread /\ c.rolling = b.rolling
        /\ c.busy = b.busy /\ c.queued = b.queued /\ c.afterRollback = b.afterRollback
        /\ c.steering = b.steering /\ c.waiting = b.waiting /\ c.approvals = b.approvals \ {h.n}
    BY DEF CodexState
  <2>3. b.approvals \subseteq c.approvals \cup Resolves(h) BY <1>4, <2>2 DEF Resolves
  <2>4. "resolved" \notin RL /\ "resolved" \notin TL BY DEF RL, TL
  <2> HIDE DEF c, r
  <2>5. CodexHeard(b, r, h) BY <1>0, <1>4, <1>e, <2>1, <2>2, <2>3, <2>4, CodexHushed
  <2> QED BY <2>5 DEF r
<1>5. CASE h.t \notin {"requestApproval", "turn/started", "turn/completed", "resolved"}
  <2>1. r = Codex!OnResponse(b, h) BY <1>5 DEF CodexTakes
  <2>2. h.t \in {"opened", "no-thread/resume", "no-thread/start", "turn/start",
                 "no-turn/start", "turn/steer", "no-turn/steer", "thread/revert",
                 "no-thread/revert"}
    BY <1>0, <1>5 DEF CodexLine
  <2>3. CodexHeard(b, Codex!OnResponse(b, h), h) BY <2>2, CodexResponseHeard
  <2> HIDE DEF r
  <2>4. CodexHeard(b, r, h) BY <2>1, <2>3
  <2> QED BY <2>4 DEF r
<1> QED BY <1>1, <1>2, <1>3, <1>4, <1>5

\* What a line does to the Codex adapter: the next message that waits starts a turn.
LEMMA CodexTranslateDoes ==
    ASSUME NEW b \in CodexState, NEW h \in Asking(CodexLine)
    PROVE  CodexHears(b, Codex!Translate(b, h), h)
<1> DEFINE r == CodexTakes(b, h)
           c == r.a
           d == [c EXCEPT !.waiting = Tail(c.waiting)]
           y == [d EXCEPT !.busy = TRUE]
           x == [t |-> "turn/start", ms |-> <<Head(c.waiting)>>, n |-> 0]
           g == Append(r.frames, x)
           z == Codex!Translate(b, h)
<1>1. r \in CodexOutput BY CodexTakesGives DEF CodexGives
<1>2. CodexHeard(b, r, h) BY CodexTakesHeard
<1>3. z \in CodexOutput BY CodexTranslateGives DEF CodexGives
<1>4. z = IF ~c.busy /\ c.thread /\ ~c.rolling /\ c.waiting # <<>>
          THEN [a |-> y, frames |-> g, events |-> r.events] ELSE r
  <2>1. z = Codex!NextWaiting(r) BY DEF Codex!Translate, CodexTakes
  <2> HIDE DEF r, z
  <2> QED BY <2>1, CodexNames DEF Codex!NextWaiting, Codex!TurnStart
<1>5. c \in CodexState /\ r.frames \in Seq(Carried(CodexFrame)) BY <1>1 DEF CodexOutput
<1> HIDE DEF r, z
<1>6. CASE ~(~c.busy /\ c.thread /\ ~c.rolling /\ c.waiting # <<>>)
  <2>1. z = r BY <1>4, <1>6
  <2>2. c.waiting # <<>> => c.busy \/ c.rolling \/ ~c.thread BY <1>6
  <2>3. CodexHears(b, r, h) BY <1>1, <1>2, <2>2 DEF CodexHears
  <2> QED BY <2>1, <2>3 DEF z
<1>7. CASE ~c.busy /\ c.thread /\ ~c.rolling /\ c.waiting # <<>>
  <2>1. y.mode = c.mode /\ y.thread = c.thread /\ y.rolling = c.rolling
        /\ y.busy = TRUE /\ y.queued = c.queued /\ y.afterRollback = c.afterRollback
        /\ y.steering = c.steering /\ y.approvals = c.approvals
    BY <1>5 DEF CodexState
  <2>2. x.t = "turn/start" OBVIOUS
  <2>3. z.frames \in Seq(Carried(CodexFrame)) BY <1>3 DEF CodexOutput
  <2>4. z.a = y /\ z.frames = g /\ z.events = r.events BY <1>4, <1>7
  <2> HIDE DEF x, y, c
  <2>5. g = r.frames \o <<x>> BY <1>5
  <2> HIDE DEF g
  <2>6. x \in Carried(CodexFrame)
    <3>1. Len(g) \in DOMAIN g /\ g[Len(g)] = x BY <1>5 DEF g
    <3>2. g \in Seq(Carried(CodexFrame)) BY <2>3, <2>4
    <3> QED BY <3>1, <3>2
  <2> DEFINE u == <<x>>
  <2>7. u \in Seq(Carried(CodexFrame)) BY <2>6
  <2>8. \A A, B : (Has(u, A) <=> "turn/start" \in A) /\ NoneAfter(u, A, B) BY <2>2, OneWord
  <2> HIDE DEF u
  <2>9. \A A, B : /\ Has(g, A) <=> Has(r.frames, A) \/ "turn/start" \in A
                  /\ NoneAfter(g, A, B) <=>
                       NoneAfter(r.frames, A, B) /\ ~(Has(r.frames, A) /\ "turn/start" \in B)
    BY <1>5, <2>5, <2>7, <2>8, ConcatWord DEF u
  <2>10. Answered(r.frames) \subseteq Answered(g)
    <3>1. g = r.frames \o u BY <2>5 DEF u
    <3> DEFINE F == Carried(CodexFrame)
               fs == r.frames
    <3>2. fs \in Seq(F) /\ u \in Seq(F) /\ g = fs \o u BY <1>5, <2>7, <3>1
    <3> HIDE DEF F, fs
    <3>3. Answered(fs \o u) = Answered(fs) \cup Answered(u) BY <3>2, AnsweredConcat
    <3> QED BY <3>2, <3>3 DEF fs
  <2>11. "turn/start" \in TS /\ "turn/start" \notin TO /\ "turn/start" \notin RF BY DEF TS, TO, RF
  <2>12. ~Has(r.frames, TS) BY <1>2, <1>7 DEF CodexHeard, c
  <2>13. CodexHeard(b, z, h)
    BY <1>2, <1>7, <2>1, <2>4, <2>9, <2>10, <2>11, <2>12 DEF CodexHeard, c
  <2>14. CodexHears(b, z, h) BY <1>3, <2>1, <2>4, <2>13 DEF CodexHears
  <2> QED BY <2>14 DEF z
<1> QED BY <1>6, <1>7

-----------------------------------------------------------------------------
\* --- ACP: what a line does to its state ---

\* What a line does to the ACP adapter.
AcpHeard(b, r, h) ==
    /\ r.a.mode = b.mode
    /\ r.a.session <=> b.session \/ h.t = "opened"
    /\ Has(r.frames, OF) => h.t \in OL /\ h.t # "opened" /\ r.a.failed = b.failed
    /\ NoneAfter(r.frames, OF, OF) /\ NoneAfter(r.frames, PF, PF)
    /\ r.a.failed => \/ b.failed
                     \/ h.t \in OL /\ h.t # "opened" /\ r.a.queued = <<>> /\ ~Has(r.frames, OF)
    /\ h.t \notin OL \cup PL => r.a.queued = b.queued
    /\ r.a.queued # <<>> => b.queued # <<>> /\ (h.t \in PL \cup {"opened"} => Has(r.frames, PF))
    /\ r.a.prompt <=> (b.prompt /\ h.t \notin PL) \/ Has(r.frames, PF)
    /\ Has(r.frames, PF) => h.t \in PL \cup {"opened"}
    /\ b.approvals \subseteq r.a.approvals
    /\ h.t = "request_permission" =>
         h.n \in r.a.approvals /\ r.events = <<NumberedAs("approval_request", h.n)>>
    /\ Has(r.events, {"ready"}) => h.t \in OL \cup PL
    /\ Has(r.events, {"approval_request"}) => h.t = "request_permission"

AcpHears(b, r, h) == r \in AcpOutput /\ AcpHeard(b, r, h)

\* The end of a prompt sends the next one.
LEMMA AcpNextDoes ==
    ASSUME NEW c \in AcpState, NEW e,
           e = <<>> \/ (e = <<Nameless("ready")>> /\ c.queued # <<>>)
    PROVE  LET r == Acp!NextQueued(c, e)
           IN  /\ r.a.mode = c.mode /\ r.a.session = c.session /\ r.a.failed = c.failed
               /\ r.a.approvals = c.approvals
               /\ r.a.prompt <=> c.prompt \/ Has(r.frames, PF)
               /\ Has(r.frames, PF) <=> c.queued # <<>>
               /\ ~Has(r.frames, OF) /\ \A A, B : NoneAfter(r.frames, A, B)
               /\ c.queued = <<>> => r.a.queued = <<>>
               /\ ~Has(r.events, {"approval_request"})
<1> DEFINE r == Acp!NextQueued(c, e)
           d == [c EXCEPT !.queued = Tail(c.queued)]
           y == [d EXCEPT !.prompt = TRUE]
           x == [t |-> "session/prompt", ms |-> <<Head(c.queued)>>, n |-> 0]
           s == Append(e, Nameless("ready"))
<1>1. IF c.queued = <<>> THEN r.a = c /\ r.frames = <<>> /\ r.events = s
      ELSE r.a = y /\ r.frames = <<x>> /\ r.events = e
  <2>1. \A z : Append(<<>>, z) = <<z>> OBVIOUS
  <2> QED BY <2>1, AcpNames DEF Acp!NextQueued, Acp!Send, Nameless
<1>2. y.mode = c.mode /\ y.session = c.session /\ y.failed = c.failed
      /\ y.approvals = c.approvals /\ y.prompt = TRUE
  BY DEF AcpState
<1>3. x.t = "session/prompt" OBVIOUS
<1> HIDE DEF x
<1>4. \A A, B : (Has(<<x>>, A) <=> "session/prompt" \in A) /\ NoneAfter(<<x>>, A, B)
  BY <1>3, OneWord
<1>5. \A A, B : ~Has(<<>>, A) /\ NoneAfter(<<>>, A, B) BY EmptyWord
<1>6. "session/prompt" \in PF /\ "session/prompt" \notin OF BY DEF PF, OF
<1>7. ~Has(e, {"approval_request"}) /\ (c.queued = <<>> => ~Has(s, {"approval_request"}))
  <2> DEFINE n == Nameless("ready")
  <2>1. \A z : Append(<<>>, z) = <<z>> OBVIOUS
  <2>2. n.t = "ready" BY DEF Nameless
  <2> HIDE DEF n
  <2>3. ~Has(<<n>>, {"approval_request"}) BY <2>2, OneWord
  <2>4. e = <<>> \/ (e = <<n>> /\ c.queued # <<>>) BY DEF n
  <2>5. e = <<>> => s = <<n>> BY <2>1 DEF n
  <2> HIDE DEF s
  <2> QED BY <1>5, <2>3, <2>4, <2>5
<1> HIDE DEF y, s, r
<1>8. c.prompt \in BOOLEAN BY DEF AcpState
<1> QED BY <1>1, <1>2, <1>4, <1>5, <1>6, <1>7, <1>8 DEF r

\* It asks the agent one thing more.
LEMMA AcpAsksDoes ==
    ASSUME NEW b \in AcpState, NEW c \in AcpState, NEW h, h.t \in OL, h.t # "opened", NEW t, t \in OF,
           c.mode = b.mode, c.session = b.session, c.failed = b.failed, c.queued = b.queued,
           c.prompt = b.prompt, c.approvals = b.approvals
    PROVE  AcpHeard(b, [a |-> c, frames |-> <<Nameless(t)>>, events |-> <<>>], h)
<1> DEFINE x == Nameless(t)
           r == [a |-> c, frames |-> <<x>>, events |-> <<>>]
<1>1. r.a = c /\ r.frames = <<x>> /\ r.events = <<>> OBVIOUS
<1>2. x.t = t BY DEF Nameless
<1> HIDE DEF x, r
<1>3. \A A, B : (Has(<<x>>, A) <=> t \in A) /\ NoneAfter(<<x>>, A, B) BY <1>2, OneWord
<1>4. \A A : ~Has(<<>>, A) BY EmptyWord
<1>5. t \notin PF /\ h.t \notin PL /\ h.t # "request_permission" BY DEF OF, PF, OL, PL
<1>6. c.session \in BOOLEAN /\ c.prompt \in BOOLEAN BY DEF AcpState
<1>7. AcpHeard(b, r, h) BY <1>1, <1>3, <1>4, <1>5, <1>6 DEF AcpHeard
<1> QED BY <1>7 DEF r, x

\* A conversation that does not open starts no prompt.
LEMMA AcpUnopenedDoes ==
    ASSUME NEW b \in AcpState, NEW h, h.t \in OL, h.t # "opened", NEW failed \in BOOLEAN
    PROVE  AcpHeard(b, Acp!Unopened(b, failed), h)
<1> DEFINE c == [b EXCEPT !.queued = <<>>, !.failed = failed]
           e == <<[t |-> "refused", ms |-> b.queued, n |-> 0], Nameless("ready")>>
           r == Acp!Unopened(b, failed)
<1>1. r.a = c /\ r.frames = <<>> /\ r.events = e BY AcpNames DEF Acp!Unopened, Nameless
<1>2. c.mode = b.mode /\ c.session = b.session /\ c.queued = <<>> /\ c.prompt = b.prompt
      /\ c.approvals = b.approvals
  BY DEF AcpState
<1>3. ~Has(e, {"approval_request"}) BY EventWords
<1> HIDE DEF c, e, r
<1>4. \A A, B : ~Has(<<>>, A) /\ NoneAfter(<<>>, A, B) BY EmptyWord
<1>5. h.t \notin PL /\ h.t # "request_permission" BY DEF OL, PL
<1>6. b.session \in BOOLEAN /\ b.prompt \in BOOLEAN BY DEF AcpState
<1>7. AcpHeard(b, r, h) BY <1>1, <1>2, <1>3, <1>4, <1>5, <1>6 DEF AcpHeard
<1> QED BY <1>7 DEF r

\* Every line does what AcpHears says.
LEMMA AcpTranslateDoes ==
    ASSUME NEW b \in AcpState, NEW h \in Asking(AcpLine)
    PROVE  AcpHears(b, Acp!Translate(b, h), h)
<1> DEFINE r == Acp!Translate(b, h)
           ready == <<Nameless("ready")>>
<1>0. h.t \in AcpLine BY DEF Asking, Carried
<1>g. r \in AcpOutput BY AcpTranslateGives DEF AcpGives
<1>b. b.session \in BOOLEAN /\ b.prompt \in BOOLEAN /\ b.failed \in BOOLEAN BY DEF AcpState
<1>w. \A A, B : ~Has(<<>>, A) /\ NoneAfter(<<>>, A, B) BY EmptyWord
<1>1. CASE h.t \in {"initialize", "authenticate"}
  <2>1. r = [a |-> b, frames |-> <<Nameless("session/load")>>, events |-> <<>>]
        \/ r = [a |-> b, frames |-> <<Nameless("session/new")>>, events |-> <<>>]
    BY <1>1, AcpNames DEF Acp!Translate, Acp!OnResponse, Acp!Open, Nameless
  <2>2. h.t \in OL /\ h.t # "opened" /\ "session/load" \in OF /\ "session/new" \in OF
    BY <1>1 DEF OL, OF
  <2> HIDE DEF r
  <2>3. AcpHeard(b, r, h) BY <2>1, <2>2, AcpAsksDoes
  <2> QED BY <1>g, <2>3 DEF AcpHears, r
<1>2. CASE h.t = "opened"
  <2> DEFINE c == [b EXCEPT !.session = TRUE]
             z == Acp!NextQueued(c, ready)
  <2>1. r = IF b.queued = <<>> THEN [a |-> c, frames |-> <<>>, events |-> ready] ELSE z
    BY <1>2, AcpNames DEF Acp!Translate, Acp!OnResponse, Acp!Opened, Nameless
  <2>2. c \in AcpState /\ c.queued = b.queued /\ c.mode = b.mode /\ c.session = TRUE
        /\ c.failed = b.failed /\ c.prompt = b.prompt /\ c.approvals = b.approvals
    BY DEF AcpState
  <2>3. ~Has(ready, {"approval_request"}) BY EventWords
  <2>4. h.t \in OL /\ h.t \notin PL BY <1>2 DEF OL, PL
  <2> HIDE DEF c, ready, r
  <2>5. CASE b.queued = <<>>
    <3>1. r.a = c /\ r.frames = <<>> /\ r.events = ready BY <2>1, <2>5
    <3>2. AcpHeard(b, r, h) BY <1>2, <1>b, <1>w, <2>2, <2>3, <2>4, <2>5, <3>1 DEF AcpHeard
    <3> QED BY <1>g, <3>2 DEF AcpHears, r
  <2>6. CASE b.queued # <<>>
    <3>1. /\ z.a.mode = c.mode /\ z.a.session = c.session /\ z.a.failed = c.failed
          /\ z.a.approvals = c.approvals
          /\ z.a.prompt <=> c.prompt \/ Has(z.frames, PF)
          /\ Has(z.frames, PF) <=> c.queued # <<>>
          /\ ~Has(z.frames, OF) /\ \A A, B : NoneAfter(z.frames, A, B)
          /\ ~Has(z.events, {"approval_request"})
      BY <2>2, <2>6, AcpNextDoes DEF ready
    <3> HIDE DEF z
    <3>2. AcpHeard(b, z, h) BY <1>2, <1>b, <2>2, <2>4, <2>6, <3>1 DEF AcpHeard
    <3>3. r = z BY <2>1, <2>6
    <3>4. AcpHeard(b, r, h) BY <3>2, <3>3
    <3> QED BY <1>g, <3>4 DEF AcpHears, r
  <2> QED BY <2>5, <2>6
<1>3. CASE h.t \in PL
  <2> DEFINE c == [b EXCEPT !.prompt = FALSE]
             z == Acp!NextQueued(c, <<>>)
  <2>1. r = z BY <1>3 DEF Acp!Translate, Acp!OnResponse, Acp!OnError, Acp!Settle, PL
  <2>2. c \in AcpState /\ c.queued = b.queued /\ c.mode = b.mode /\ c.session = b.session
        /\ c.failed = b.failed /\ c.prompt = FALSE /\ c.approvals = b.approvals
    BY DEF AcpState
  <2> HIDE DEF c
  <2>3. /\ z.a.mode = c.mode /\ z.a.session = c.session /\ z.a.failed = c.failed
        /\ z.a.approvals = c.approvals
        /\ z.a.prompt <=> c.prompt \/ Has(z.frames, PF)
        /\ Has(z.frames, PF) <=> c.queued # <<>>
        /\ ~Has(z.frames, OF) /\ \A A, B : NoneAfter(z.frames, A, B)
        /\ c.queued = <<>> => z.a.queued = <<>>
        /\ ~Has(z.events, {"approval_request"})
    BY <2>2, AcpNextDoes
  <2>4. h.t \notin OL /\ h.t # "opened" /\ h.t # "request_permission" BY <1>3 DEF OL, PL
  <2> HIDE DEF z, r
  <2>5. AcpHeard(b, z, h) BY <1>3, <1>b, <2>2, <2>3, <2>4 DEF AcpHeard
  <2>6. AcpHeard(b, r, h) BY <2>1, <2>5
  <2> QED BY <1>g, <2>6 DEF AcpHears, r
<1>4. CASE h.t = "request_permission"
  <2> DEFINE c == [b EXCEPT !.approvals = @ \cup {h.n}]
             e == <<NumberedAs("approval_request", h.n)>>
  <2>1. r.a = c /\ r.frames = <<>> /\ r.events = e
    BY <1>4, AcpNames DEF Acp!Translate, Acp!OnRequest
  <2>2. c.mode = b.mode /\ c.session = b.session /\ c.queued = b.queued /\ c.prompt = b.prompt
        /\ c.failed = b.failed /\ c.approvals = b.approvals \cup {h.n}
    BY DEF AcpState
  <2>3. ~Has(e, {"ready"}) /\ e = <<NumberedAs("approval_request", h.n)>> BY EventWords
  <2>4. h.t \notin OL /\ h.t \notin PL /\ h.t # "opened" BY <1>4 DEF OL, PL
  <2> HIDE DEF c, e, r
  <2>5. AcpHeard(b, r, h) BY <1>4, <1>b, <1>w, <2>1, <2>2, <2>3, <2>4 DEF AcpHeard
  <2> QED BY <1>g, <2>5 DEF AcpHears, r
<1>5. CASE h.t = "no-session/load"
  <2>1. r = [a |-> b, frames |-> <<Nameless("session/new")>>, events |-> <<>>]
    BY <1>5, AcpNames DEF Acp!Translate, Acp!OnError, Nameless
  <2>2. h.t \in OL /\ h.t # "opened" /\ "session/new" \in OF BY <1>5 DEF OL, OF
  <2> HIDE DEF r
  <2>3. AcpHeard(b, r, h) BY <2>1, <2>2, AcpAsksDoes
  <2> QED BY <1>g, <2>3 DEF AcpHears, r
<1>6. CASE h.t = "signed-out" /\ ~b.signedIn
  <2> DEFINE c == [b EXCEPT !.signedIn = TRUE]
  <2>1. r = [a |-> c, frames |-> <<Nameless("authenticate")>>, events |-> <<>>]
    BY <1>6, AcpNames DEF Acp!Translate, Acp!OnError, Nameless
  <2>2. c \in AcpState /\ c.queued = b.queued /\ c.mode = b.mode /\ c.session = b.session
        /\ c.failed = b.failed /\ c.prompt = b.prompt /\ c.approvals = b.approvals
    BY DEF AcpState
  <2>3. h.t \in OL /\ h.t # "opened" /\ "authenticate" \in OF BY <1>6 DEF OL, OF
  <2> HIDE DEF c, r
  <2>4. AcpHeard(b, r, h) BY <2>1, <2>2, <2>3, AcpAsksDoes
  <2> QED BY <1>g, <2>4 DEF AcpHears, r
<1>7. CASE \/ h.t \in {"no-session/new", "no-authenticate", "no-initialize"}
           \/ h.t = "signed-out" /\ b.signedIn
  <2>1. r = Acp!Unopened(b, TRUE) \/ r = Acp!Unopened(b, FALSE)
    BY <1>7 DEF Acp!Translate, Acp!OnError
  <2>2. h.t \in OL /\ h.t # "opened" BY <1>7 DEF OL
  <2> HIDE DEF r
  <2>3. AcpHeard(b, r, h) BY <2>1, <2>2, AcpUnopenedDoes
  <2> QED BY <1>g, <2>3 DEF AcpHears, r
<1> QED BY <1>0, <1>1, <1>2, <1>3, <1>4, <1>5, <1>6, <1>7 DEF AcpLine, PL

=============================================================================
