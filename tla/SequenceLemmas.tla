--------------------------- MODULE SequenceLemmas ---------------------------
(***************************************************************************)
(* Induction and recursion, as facts about sets and functions, and what    *)
(* follows from them about sequences: that a recursive function is what    *)
(* its definition says, and how FlattenSeq puts packets and lists together.*)
(***************************************************************************)
EXTENDS Integers, SequencesExt, SequenceTheorems, WellFoundedInduction, TLAPS

-----------------------------------------------------------------------------
(* Natural numbers *)

\* A set of natural numbers has a least one.
LEMMA LeastNumber ==
  ASSUME NEW T, T \subseteq Nat, T # {}
  PROVE  \E n \in T : \A m \in T : n <= m
<1>. DEFINE less == {p \in Nat \X Nat : p[1] < p[2]}
<1>1. IsWellFoundedOn(less, Nat)
  BY NatLessThanWellFounded DEF OpToRel
<1>2. less = less
  OBVIOUS
<1>. HIDE DEF less
<1>3. PICK n \in T : \A m \in T : <<m, n>> \notin less
  BY <1>1, WFMin
<1>4. \A m \in T : ~(m < n)
  BY <1>3 DEF less
<1>. QED
  BY <1>4

\* Induction, for a set.
LEMMA Hereditary ==
  ASSUME NEW S, \A n \in Nat : (\A m \in Nat : m < n => m \in S) => n \in S
  PROVE  Nat \subseteq S
<1>. SUFFICES ASSUME Nat \ S # {} PROVE FALSE
  OBVIOUS
<1>1. Nat \ S \subseteq Nat
  OBVIOUS
<1>2. PICK n \in Nat \ S : \A m \in Nat \ S : n <= m
  BY <1>1, LeastNumber
<1>3. \A m \in Nat : m < n => m \in S
  BY <1>2
<1>. QED
  BY <1>2, <1>3

\* Induction, from each number to the next.
LEMMA Successors ==
  ASSUME NEW S, 0 \in S, \A n \in Nat : n \in S => n + 1 \in S
  PROVE  Nat \subseteq S
<1>1. ASSUME NEW n \in Nat, \A m \in Nat : m < n => m \in S PROVE n \in S
  <2>1. CASE n = 0
    BY <2>1
  <2>2. CASE n # 0
    <3>1. n - 1 \in Nat /\ n - 1 < n /\ (n - 1) + 1 = n
      BY <2>2
    <3>. QED
      BY <1>1, <3>1
  <2>. QED
    BY <2>1, <2>2
<1>. QED
  BY <1>1, Hereditary

-----------------------------------------------------------------------------
(* Recursive functions *)

\* The right side of an equation f = step[f] looks only at smaller arguments.
LooksBelow(step, D, V, rank) ==
  /\ rank \in [D -> Nat] /\ step \in [[D -> V] -> [D -> V]]
  /\ \A f, g \in [D -> V] : \A d \in D :
       (\A e \in D : rank[e] < rank[d] => f[e] = g[e]) => step[f][d] = step[g][d]

\* f solves the equation f = step[f] below the rank n.
SolvesBelow(f, n, D, rank, step) == \A d \in D : rank[d] < n => f[d] = step[f][d]

Solution(f, step, D, V) == f \in [D -> V] /\ f = step[f]

\* Such an equation has a solution.
LEMMA RecursionSolvable ==
  ASSUME NEW D, NEW V, V # {}, NEW rank, NEW step, LooksBelow(step, D, V, rank)
  PROVE  \E f : Solution(f, step, D, V)
<1>v. PICK v : v \in V
  OBVIOUS
<1>a. rank \in [D -> Nat] /\ step \in [[D -> V] -> [D -> V]]
  BY DEF LooksBelow
<1>b. \A f, g \in [D -> V] : \A d \in D :
         (\A e \in D : rank[e] < rank[d] => f[e] = g[e]) => step[f][d] = step[g][d]
  BY DEF LooksBelow
<1>. USE <1>v, <1>a, <1>b
<1>. DEFINE S == {n \in Nat : \E f \in [D -> V] : SolvesBelow(f, n, D, rank, step)}
<1>1. 0 \in S
  <2>1. [d \in D |-> v] \in [D -> V]
    OBVIOUS
  <2>2. \A d \in D : ~(rank[d] < 0)
    OBVIOUS
  <2>3. SolvesBelow([d \in D |-> v], 0, D, rank, step)
    BY <2>2 DEF SolvesBelow
  <2>. QED
    BY <2>1, <2>3
<1>2. ASSUME NEW n \in Nat, n \in S PROVE n + 1 \in S
  <2>1. PICK f \in [D -> V] : SolvesBelow(f, n, D, rank, step)
    BY <1>2
  <2>2. step[f] \in [D -> V]
    OBVIOUS
  <2>3. ASSUME NEW d \in D, rank[d] < n + 1 PROVE step[f][d] = step[step[f]][d]
    <3>1. ASSUME NEW e \in D, rank[e] < rank[d] PROVE f[e] = step[f][e]
      <4>1. rank[e] \in Nat /\ rank[d] \in Nat
        OBVIOUS
      <4>2. rank[e] < n
        BY <2>3, <3>1, <4>1
      <4>. QED
        BY <2>1, <4>2 DEF SolvesBelow
    <3>. QED
      BY <2>2, <3>1
  <2>4. SolvesBelow(step[f], n + 1, D, rank, step)
    BY <2>3 DEF SolvesBelow
  <2>. QED
    BY <2>2, <2>4
<1>3. \A n \in Nat : \E f \in [D -> V] : SolvesBelow(f, n, D, rank, step)
  <2>. HIDE DEF S
  <2>1. Nat \subseteq S
    BY <1>1, <1>2, Successors
  <2>. QED
    BY <2>1 DEF S
<1>4. ASSUME NEW f \in [D -> V], NEW g \in [D -> V], NEW m \in Nat, NEW k \in Nat,
             SolvesBelow(f, m, D, rank, step), SolvesBelow(g, k, D, rank, step)
      PROVE  \A d \in D : rank[d] < m /\ rank[d] < k => f[d] = g[d]
  <2>. DEFINE A == {n \in Nat : \A d \in D : rank[d] = n /\ n < m /\ n < k => f[d] = g[d]}
  <2>1. ASSUME NEW n \in Nat, \A i \in Nat : i < n => i \in A PROVE n \in A
    <3>. SUFFICES ASSUME NEW d \in D, rank[d] = n, n < m, n < k PROVE f[d] = g[d]
      OBVIOUS
    <3>1. ASSUME NEW e \in D, rank[e] < rank[d] PROVE f[e] = g[e]
      <4>1. rank[e] \in Nat /\ rank[e] < n /\ rank[e] < m /\ rank[e] < k
        BY <3>1
      <4>2. rank[e] \in A
        BY <2>1, <4>1
      <4>. QED
        BY <4>1, <4>2
    <3>2. step[f][d] = step[g][d]
      BY <3>1
    <3>. QED
      BY <1>4, <3>2 DEF SolvesBelow
  <2>. HIDE DEF A
  <2>2. Nat \subseteq A
    BY <2>1, Hereditary
  <2>. QED
    BY <2>2 DEF A
<1>. DEFINE G == [n \in Nat |-> CHOOSE f \in [D -> V] : SolvesBelow(f, n, D, rank, step)]
            f == [d \in D |-> G[rank[d] + 1][d]]
<1>5. \A n \in Nat : G[n] \in [D -> V] /\ SolvesBelow(G[n], n, D, rank, step)
  BY <1>3
<1>. HIDE DEF G
<1>6. f \in [D -> V]
  <2>1. \A d \in D : G[rank[d] + 1] \in [D -> V]
    BY <1>5
  <2>. QED
    BY <2>1
<1>7. ASSUME NEW d \in D PROVE f[d] = step[f][d]
  <2>. DEFINE g == G[rank[d] + 1]
  <2>1. rank[d] \in Nat /\ rank[d] + 1 \in Nat /\ rank[d] < rank[d] + 1
    OBVIOUS
  <2>2. g \in [D -> V] /\ SolvesBelow(g, rank[d] + 1, D, rank, step)
    BY <1>5, <2>1
  <2>3. f[d] = g[d]
    OBVIOUS
  <2>4. g[d] = step[g][d]
    BY <2>1, <2>2 DEF SolvesBelow
  <2>5. ASSUME NEW e \in D, rank[e] < rank[d] PROVE f[e] = g[e]
    <3>1. rank[e] \in Nat /\ rank[e] + 1 \in Nat /\ rank[e] < rank[e] + 1 /\ rank[e] < rank[d] + 1
      BY <2>1, <2>5
    <3>2. G[rank[e] + 1] \in [D -> V] /\ SolvesBelow(G[rank[e] + 1], rank[e] + 1, D, rank, step)
      BY <1>5, <3>1
    <3>3. f[e] = G[rank[e] + 1][e]
      OBVIOUS
    <3>. HIDE DEF f, g
    <3>. QED
      BY <1>4, <2>1, <2>2, <3>1, <3>2, <3>3
  <2>. HIDE DEF f, g
  <2>6. step[f][d] = step[g][d]
    BY <1>6, <2>2, <2>5
  <2>. QED
    BY <2>3, <2>4, <2>6
<1>8. step[f] \in [D -> V]
  <2>. HIDE DEF f
  <2>. QED
    BY <1>6
<1>9. f = step[f]
  <2>. HIDE DEF f
  <2>. QED
    BY <1>6, <1>7, <1>8
<1>. QED
  BY <1>6, <1>9 DEF Solution

-----------------------------------------------------------------------------
(* Concatenation *)

Regrouped(a, b, c) == (a \o b) \o c = a \o (b \o c)

LEMMA Associative ==
  ASSUME NEW A, NEW a \in Seq(A), NEW b \in Seq(A), NEW c \in Seq(A)
  PROVE  Regrouped(a, b, c)
BY DEF Regrouped

AllRegrouped(a, b, c, d, e) == (((a \o b) \o c) \o d) \o e = a \o (b \o (c \o (d \o e)))

LEMMA FiveGroups ==
  ASSUME NEW A, NEW a \in Seq(A), NEW b \in Seq(A), NEW c \in Seq(A), NEW d \in Seq(A), NEW e \in Seq(A)
  PROVE  AllRegrouped(a, b, c, d, e)
<1>. DEFINE de == d \o e
            cde == c \o de
            ab == a \o b
            abc == ab \o c
<1>1. de \in Seq(A) /\ ab \in Seq(A)
  OBVIOUS
<1>2. Regrouped(abc, d, e)
  <2>1. abc \in Seq(A)
    BY <1>1
  <2>. HIDE DEF abc
  <2>. QED
    BY <2>1, Associative
<1>3. Regrouped(ab, c, de) /\ Regrouped(a, b, cde)
  <2>1. cde \in Seq(A)
    BY <1>1
  <2>. HIDE DEF ab, de, cde
  <2>. QED
    BY <1>1, <2>1, Associative
<1>. QED
  BY <1>2, <1>3 DEF Regrouped, AllRegrouped

\* A sequence is its first n elements and the others.
SplitsAt(s, n, A) ==
  /\ SubSeq(s, 1, n) \in Seq(A) /\ Len(SubSeq(s, 1, n)) = n
  /\ SubSeq(s, n + 1, Len(s)) \in Seq(A) /\ Len(SubSeq(s, n + 1, Len(s))) = Len(s) - n
  /\ SubSeq(s, 1, n) \o SubSeq(s, n + 1, Len(s)) = s

LEMMA SplitAt ==
  ASSUME NEW A, NEW s \in Seq(A), NEW n \in 0 .. Len(s)
  PROVE  SplitsAt(s, n, A)
<1>0. Len(s) \in Nat /\ n \in Nat /\ n <= Len(s) /\ \A i \in 1 .. Len(s) : s[i] \in A
  OBVIOUS
<1>. DEFINE a == SubSeq(s, 1, n)
            b == SubSeq(s, n + 1, Len(s))
<1>1. a \in Seq(A) /\ Len(a) = n /\ \A i \in 1 .. n : a[i] = s[i]
  BY <1>0
<1>2. b \in Seq(A) /\ Len(b) = Len(s) - n /\ \A i \in 1 .. Len(s) - n : b[i] = s[n + i]
  <2>1. \A i \in n + 1 .. Len(s) : s[i] \in A
    BY <1>0
  <2>2. /\ b \in Seq(A) /\ Len(b) = (IF n + 1 <= Len(s) THEN Len(s) - (n + 1) + 1 ELSE 0)
        /\ \A i \in 1 .. Len(s) - (n + 1) + 1 : b[i] = s[(n + 1) + i - 1]
    BY <1>0, <2>1, SubSeqProperties
  <2>3. /\ (IF n + 1 <= Len(s) THEN Len(s) - (n + 1) + 1 ELSE 0) = Len(s) - n
        /\ Len(s) - (n + 1) + 1 = Len(s) - n
    BY <1>0
  <2>4. \A i \in 1 .. Len(s) - n : (n + 1) + i - 1 = n + i
    BY <1>0
  <2>. HIDE DEF b
  <2>. QED
    BY <2>2, <2>3, <2>4
<1>. HIDE DEF a, b
<1>3. /\ a \o b \in Seq(A) /\ Len(a \o b) = Len(s)
      /\ \A i \in 1 .. Len(s) : (a \o b)[i] = IF i <= n THEN a[i] ELSE b[i - n]
  <2>1. /\ a \o b \in Seq(A) /\ Len(a \o b) = Len(a) + Len(b)
        /\ \A i \in 1 .. Len(a) + Len(b) : (a \o b)[i] = IF i <= Len(a) THEN a[i] ELSE b[i - Len(a)]
    BY <1>1, <1>2, ConcatProperties
  <2>2. Len(a) + Len(b) = Len(s) /\ Len(a) = n
    BY <1>0, <1>1, <1>2
  <2>. QED
    BY <2>1, <2>2, Zenon
<1>4. ASSUME NEW i \in 1 .. Len(s) PROVE (a \o b)[i] = s[i]
  <2>1. CASE i <= n
    <3>1. i \in 1 .. n
      BY <1>0, <2>1
    <3>. QED
      BY <1>1, <1>3, <2>1, <3>1
  <2>2. CASE ~(i <= n)
    <3>1. i - n \in 1 .. Len(s) - n /\ n + (i - n) = i
      BY <1>0, <2>2
    <3>2. (a \o b)[i] = b[i - n] /\ b[i - n] = s[n + (i - n)]
      BY <1>2, <1>3, <2>2, <3>1
    <3>. QED
      BY <3>1, <3>2
  <2>. QED
    BY <2>1, <2>2
<1>5. a \o b = s
  BY <1>3, <1>4, SeqEqual
<1>. QED
  BY <1>1, <1>2, <1>5 DEF a, b, SplitsAt

\* Two ways to read the same sequence.
LEMMA Cancel ==
  ASSUME NEW A, NEW a \in Seq(A), NEW b \in Seq(A), NEW c \in Seq(A), NEW d \in Seq(A),
         Len(a) = Len(c), a \o b = c \o d
  PROVE  a = c /\ b = d
<1>1. /\ Len(a \o b) = Len(a) + Len(b)
      /\ \A i \in 1 .. Len(a) + Len(b) : (a \o b)[i] = IF i <= Len(a) THEN a[i] ELSE b[i - Len(a)]
  BY ConcatProperties
<1>2. /\ Len(c \o d) = Len(c) + Len(d)
      /\ \A i \in 1 .. Len(c) + Len(d) : (c \o d)[i] = IF i <= Len(c) THEN c[i] ELSE d[i - Len(c)]
  BY ConcatProperties
<1>3. Len(a) \in Nat /\ Len(b) \in Nat /\ Len(c) \in Nat /\ Len(d) \in Nat
  OBVIOUS
<1>4. Len(b) = Len(d)
  BY <1>1, <1>2, <1>3
<1>5. ASSUME NEW i \in 1 .. Len(a) PROVE a[i] = c[i]
  <2>1. i \in 1 .. Len(a) + Len(b) /\ i \in 1 .. Len(c) + Len(d) /\ i <= Len(a) /\ i <= Len(c)
    BY <1>3
  <2>2. (a \o b)[i] = a[i]
    BY <1>1, <2>1, Zenon
  <2>3. (c \o d)[i] = c[i]
    BY <1>2, <2>1, Zenon
  <2>. QED
    BY <2>2, <2>3
<1>6. ASSUME NEW i \in 1 .. Len(b) PROVE b[i] = d[i]
  <2>. DEFINE j == Len(a) + i
  <2>1. /\ j \in 1 .. Len(a) + Len(b) /\ j \in 1 .. Len(c) + Len(d) /\ ~(j <= Len(a)) /\ ~(j <= Len(c))
        /\ j - Len(a) = i /\ j - Len(c) = i
    BY <1>3, <1>4
  <2>. HIDE DEF j
  <2>2. (a \o b)[j] = b[i]
    BY <1>1, <2>1, Zenon
  <2>3. (c \o d)[j] = d[i]
    BY <1>2, <2>1, Zenon
  <2>. QED
    BY <2>2, <2>3
<1>7. a = c
  BY <1>5, SeqEqual
<1>8. b = d
  BY <1>4, <1>6, SeqEqual
<1>. QED
  BY <1>7, <1>8

\* A beginning that reaches as far as c is c and something more.
SameStream(a, b, c, d) == a \o b = c \o d

Exceeds(a, b, c, d, A) ==
  /\ SubSeq(a, 1, Len(c)) = c
  /\ SubSeq(a, Len(c) + 1, Len(a)) \in Seq(A)
  /\ SubSeq(a, Len(c) + 1, Len(a)) \o b = d

LEMMA Longer ==
  ASSUME NEW A, NEW a \in Seq(A), NEW b \in Seq(A), NEW c \in Seq(A), NEW d \in Seq(A),
         SameStream(a, b, c, d), Len(c) <= Len(a)
  PROVE  Exceeds(a, b, c, d, A)
<1>. DEFINE x == SubSeq(a, 1, Len(c))
            e == SubSeq(a, Len(c) + 1, Len(a))
<1>1. Len(c) \in 0 .. Len(a)
  OBVIOUS
<1>2. x \in Seq(A) /\ Len(x) = Len(c) /\ e \in Seq(A) /\ x \o e = a
  <2>1. SplitsAt(a, Len(c), A)
    BY <1>1, SplitAt
  <2>. QED
    BY <2>1, Zenon DEF SplitsAt
<1>3. a \o b = c \o d
  BY DEF SameStream
<1>. HIDE DEF x, e
<1>4. x = c /\ e \o b = d
  <2>. DEFINE y == e \o b
  <2>0. y \in Seq(A)
    BY <1>2
  <2>1. y = e \o b
    OBVIOUS
  <2>. HIDE DEF y
  <2>2. a \o b = x \o y
    <3>1. Regrouped(x, e, b)
      BY <1>2, Associative
    <3>. QED
      BY <1>2, <2>1, <3>1 DEF Regrouped
  <2>3. x = c /\ y = d
    BY <1>2, <1>3, <2>0, <2>2, Cancel
  <2>. QED
    BY <2>3 DEF y
<1>. QED
  BY <1>2, <1>4 DEF x, e, Exceeds

-----------------------------------------------------------------------------
(* FlattenSeq *)

\* f[i] is what the first i parts of s make together.
Parts(f, s) == f = [i \in 1 .. Len(s) |-> IF i = 1 THEN s[i] ELSE f[i - 1] \o s[i]]

LEMMA PartsExist ==
  ASSUME NEW A, NEW s \in Seq(Seq(A))
  PROVE  \E f \in [1 .. Len(s) -> Seq(A)] : Parts(f, s)
<1>. DEFINE dom == 1 .. Len(s)
            size == [i \in dom |-> i]
            next == [f \in [dom -> Seq(A)] |-> [i \in dom |-> IF i = 1 THEN s[i] ELSE f[i - 1] \o s[i]]]
<1>1. Len(s) \in Nat /\ \A i \in dom : i \in Nat /\ s[i] \in Seq(A)
  OBVIOUS
<1>2. \A i \in dom : i # 1 => i - 1 \in dom /\ i - 1 < i
  BY <1>1
<1>3. size \in [dom -> Nat] /\ << >> \in Seq(A)
  BY <1>1
<1>4. next \in [[dom -> Seq(A)] -> [dom -> Seq(A)]]
  <2>1. ASSUME NEW f \in [dom -> Seq(A)], NEW i \in dom
        PROVE  (IF i = 1 THEN s[i] ELSE f[i - 1] \o s[i]) \in Seq(A)
    <3>1. CASE i = 1
      BY <1>1, <3>1
    <3>2. CASE i # 1
      <4>1. f[i - 1] \in Seq(A) /\ s[i] \in Seq(A)
        BY <1>1, <1>2, <3>2
      <4>2. f[i - 1] \o s[i] \in Seq(A)
        BY <4>1, ConcatProperties
      <4>. QED
        BY <3>2, <4>2
    <3>. QED
      BY <3>1, <3>2
  <2>. QED
    BY <2>1
<1>5. ASSUME NEW f \in [dom -> Seq(A)], NEW g \in [dom -> Seq(A)], NEW d \in dom,
             \A e \in dom : size[e] < size[d] => f[e] = g[e]
      PROVE  next[f][d] = next[g][d]
  <2>1. d # 1 => f[d - 1] = g[d - 1]
    BY <1>2, <1>5
  <2>. QED
    BY <2>1
<1>. HIDE DEF size, next, dom
<1>6. PICK f \in [dom -> Seq(A)] : f = next[f]
  <2>. DEFINE val == Seq(A)
  <2>1. val # {}
    BY <1>3
  <2>2. LooksBelow(next, dom, val, size)
    BY <1>3, <1>4, <1>5 DEF LooksBelow
  <2>. HIDE DEF val
  <2>3. \E f : Solution(f, next, dom, val)
    BY <2>1, <2>2, RecursionSolvable, Zenon
  <2>. QED
    BY <2>3 DEF val, Solution
<1>7. next[f] = [i \in dom |-> IF i = 1 THEN s[i] ELSE f[i - 1] \o s[i]]
  BY DEF next
<1>8. Parts(f, s)
  BY <1>6, <1>7 DEF Parts, dom
<1>. QED
  BY <1>8 DEF dom

LEMMA PartsTyped ==
  ASSUME NEW A, NEW s \in Seq(Seq(A)), NEW f, Parts(f, s)
  PROVE  \A i \in 1 .. Len(s) :
           f[i] \in Seq(A) /\ f[i] = IF i = 1 THEN s[i] ELSE f[i - 1] \o s[i]
<1>1. \A i \in 1 .. Len(s) : f[i] = IF i = 1 THEN s[i] ELSE f[i - 1] \o s[i]
  BY DEF Parts
<1>. DEFINE S == {n \in Nat : n \in 1 .. Len(s) => f[n] \in Seq(A)}
<1>2. 0 \in S
  OBVIOUS
<1>3. ASSUME NEW n \in Nat, n \in S PROVE n + 1 \in S
  <2>. SUFFICES ASSUME n + 1 \in 1 .. Len(s) PROVE f[n + 1] \in Seq(A)
    OBVIOUS
  <2>1. s[n + 1] \in Seq(A)
    OBVIOUS
  <2>2. CASE n = 0
    BY <1>1, <2>1, <2>2
  <2>3. CASE n # 0
    <3>1. n \in 1 .. Len(s) /\ (n + 1) - 1 = n /\ n + 1 # 1
      BY <2>3
    <3>2. f[n] \in Seq(A) /\ f[n + 1] = f[n] \o s[n + 1]
      BY <1>1, <1>3, <3>1
    <3>. QED
      BY <2>1, <3>2, ConcatProperties
  <2>. QED
    BY <2>2, <2>3
<1>. HIDE DEF S
<1>4. Nat \subseteq S
  BY <1>2, <1>3, Successors
<1>5. \A i \in 1 .. Len(s) : f[i] \in Seq(A)
  BY <1>4 DEF S
<1>. QED
  BY <1>1, <1>5

LEMMA FlattenIs ==
  ASSUME NEW A, NEW s \in Seq(Seq(A)), s # << >>
  PROVE  \E f : Parts(f, s) /\ FlattenSeq(s) = f[Len(s)]
<1>1. Len(s) # 0
  OBVIOUS
<1>. DEFINE f == CHOOSE g : g = [i \in 1 .. Len(s) |-> IF i = 1 THEN s[i] ELSE g[i - 1] \o s[i]]
<1>2. FlattenSeq(s) = f[Len(s)]
  BY <1>1, Zenon DEF FlattenSeq
<1>3. Parts(f, s)
  <2>1. \E g : g = [i \in 1 .. Len(s) |-> IF i = 1 THEN s[i] ELSE g[i - 1] \o s[i]]
    <3>1. PICK g \in [1 .. Len(s) -> Seq(A)] : Parts(g, s)
      BY PartsExist, Zenon
    <3>. QED
      BY <3>1, Zenon DEF Parts
  <2>2. f = [i \in 1 .. Len(s) |-> IF i = 1 THEN s[i] ELSE f[i - 1] \o s[i]]
    BY <2>1, Zenon
  <2>. QED
    BY <2>2, Zenon DEF Parts
<1>. QED
  BY <1>2, <1>3

\* FlattenSeq, one part after the other.
LEMMA FlattenAppend ==
  ASSUME NEW A, NEW s \in Seq(Seq(A)), NEW x \in Seq(A)
  PROVE  FlattenSeq(Append(s, x)) = FlattenSeq(s) \o x /\ FlattenSeq(s) \in Seq(A)
<1>. DEFINE t == Append(s, x)
<1>1. /\ t \in Seq(Seq(A)) /\ t # << >> /\ Len(t) = Len(s) + 1 /\ Len(s) \in Nat
      /\ t[Len(s) + 1] = x /\ \A i \in 1 .. Len(s) : t[i] = s[i]
  BY AppendProperties
<1>. HIDE DEF t
<1>2. PICK g : Parts(g, t) /\ FlattenSeq(t) = g[Len(t)]
  BY <1>1, FlattenIs
<1>3. \A i \in 1 .. Len(t) : g[i] = IF i = 1 THEN t[i] ELSE g[i - 1] \o t[i]
  BY <1>2, Zenon DEF Parts
<1>4. CASE s = << >>
  <2>1. Len(s) = 0 /\ FlattenSeq(s) = << >>
    BY <1>4 DEF FlattenSeq
  <2>2. FlattenSeq(t) = x
    BY <1>1, <1>2, <1>3, <2>1
  <2>3. << >> \o x = x /\ << >> \in Seq(A)
    OBVIOUS
  <2>. QED
    BY <2>1, <2>2, <2>3 DEF t
<1>5. CASE s # << >>
  <2>1. PICK f : Parts(f, s) /\ FlattenSeq(s) = f[Len(s)]
    BY <1>5, FlattenIs
  <2>2. \A i \in 1 .. Len(s) : f[i] \in Seq(A) /\ f[i] = IF i = 1 THEN s[i] ELSE f[i - 1] \o s[i]
    BY <2>1, PartsTyped
  <2>3. Len(s) >= 1
    BY <1>1, <1>5
  <2>. DEFINE S == {n \in Nat : n \in 1 .. Len(s) => f[n] = g[n]}
  <2>4. 0 \in S
    OBVIOUS
  <2>5. ASSUME NEW n \in Nat, n \in S PROVE n + 1 \in S
    <3>. SUFFICES ASSUME n + 1 \in 1 .. Len(s) PROVE f[n + 1] = g[n + 1]
      OBVIOUS
    <3>1. n + 1 \in 1 .. Len(t) /\ t[n + 1] = s[n + 1]
      BY <1>1
    <3>2. CASE n = 0
      BY <1>3, <2>2, <3>1, <3>2
    <3>3. CASE n # 0
      <4>1. n \in 1 .. Len(s) /\ (n + 1) - 1 = n /\ n + 1 # 1
        BY <3>3
      <4>2. f[n + 1] = f[n] \o s[n + 1] /\ g[n + 1] = g[n] \o t[n + 1] /\ f[n] = g[n]
        BY <1>3, <2>2, <2>5, <3>1, <4>1
      <4>. QED
        BY <3>1, <4>2
    <3>. QED
      BY <3>2, <3>3
  <2>. HIDE DEF S
  <2>6. Nat \subseteq S
    BY <2>4, <2>5, Successors
  <2>7. f[Len(s)] = g[Len(s)] /\ f[Len(s)] \in Seq(A)
    BY <1>1, <2>2, <2>3, <2>6 DEF S
  <2>8. Len(t) \in 1 .. Len(t) /\ Len(t) # 1 /\ Len(t) - 1 = Len(s)
    BY <1>1, <2>3
  <2>9. g[Len(t)] = g[Len(s)] \o x
    BY <1>1, <1>3, <2>8
  <2>. QED
    BY <1>2, <2>1, <2>7, <2>9 DEF t
<1>. QED
  BY <1>4, <1>5

\* FlattenSeq of two sequences of parts, one after the other.
LEMMA FlattenConcat ==
  ASSUME NEW A
  PROVE  /\ FlattenSeq(<< >>) = << >>
         /\ \A s \in Seq(Seq(A)) : FlattenSeq(s) \in Seq(A)
         /\ \A x \in Seq(A) : FlattenSeq(<<x>>) = x
         /\ \A s, t \in Seq(Seq(A)) : FlattenSeq(s \o t) = FlattenSeq(s) \o FlattenSeq(t)
<1>1. FlattenSeq(<< >>) = << >>
  BY DEF FlattenSeq
<1>2. \A s \in Seq(Seq(A)) : FlattenSeq(s) \in Seq(A)
  <2>1. << >> \in Seq(A)
    OBVIOUS
  <2>. QED
    BY <2>1, FlattenAppend
<1>3. ASSUME NEW x \in Seq(A) PROVE FlattenSeq(<<x>>) = x
  <2>1. << >> \in Seq(Seq(A)) /\ Append(<< >>, x) = <<x>> /\ << >> \o x = x
    OBVIOUS
  <2>. QED
    BY <1>1, <2>1, FlattenAppend
<1>4. ASSUME NEW s \in Seq(Seq(A)) PROVE \A t \in Seq(Seq(A)) : FlattenSeq(s \o t) = FlattenSeq(s) \o FlattenSeq(t)
  <2>. DEFINE good == {n \in Nat : \A t \in Seq(Seq(A)) : Len(t) = n => FlattenSeq(s \o t) = FlattenSeq(s) \o FlattenSeq(t)}
  <2>1. 0 \in good
    <3>. SUFFICES ASSUME NEW t \in Seq(Seq(A)), Len(t) = 0
                  PROVE  FlattenSeq(s \o t) = FlattenSeq(s) \o FlattenSeq(t)
      OBVIOUS
    <3>1. t = << >> /\ s \o t = s
      OBVIOUS
    <3>2. FlattenSeq(s) \o << >> = FlattenSeq(s)
      BY <1>2, ConcatEmptySeq
    <3>. QED
      BY <1>1, <3>1, <3>2
  <2>2. ASSUME NEW n \in Nat, n \in good PROVE n + 1 \in good
    <3>. SUFFICES ASSUME NEW t \in Seq(Seq(A)), Len(t) = n + 1
                  PROVE  FlattenSeq(s \o t) = FlattenSeq(s) \o FlattenSeq(t)
      OBVIOUS
    <3>1. t # << >>
      OBVIOUS
    <3>2. PICK u \in Seq(Seq(A)), x \in Seq(A) : t = Append(u, x)
      BY <3>1, SequenceEmptyOrAppend
    <3>3. Len(u) = n /\ s \o u \in Seq(Seq(A)) /\ s \o t = Append(s \o u, x)
      BY <3>2
    <3>4. FlattenSeq(s \o u) = FlattenSeq(s) \o FlattenSeq(u)
      BY <2>2, <3>3
    <3>5. FlattenSeq(s \o t) = FlattenSeq(s \o u) \o x /\ FlattenSeq(t) = FlattenSeq(u) \o x
      BY <3>2, <3>3, FlattenAppend
    <3>6. FlattenSeq(s) \in Seq(A) /\ FlattenSeq(u) \in Seq(A)
      BY <1>2
    <3>7. FlattenSeq(s \o u) \o x = FlattenSeq(s) \o FlattenSeq(t)
      <4>1. Regrouped(FlattenSeq(s), FlattenSeq(u), x)
        BY <3>6, Associative
      <4>. QED
        BY <3>4, <3>5, <4>1 DEF Regrouped
    <3>. QED
      BY <3>5, <3>7
  <2>. HIDE DEF good
  <2>3. Nat \subseteq good
    BY <2>1, <2>2, Successors
  <2>. QED
    BY <2>3 DEF good
<1>. QED
  BY <1>1, <1>2, <1>3, <1>4

LEMMA FlattenHead ==
  ASSUME NEW A, NEW x \in Seq(A), NEW s \in Seq(Seq(A))
  PROVE  FlattenSeq(<<x>> \o s) = x \o FlattenSeq(s) /\ FlattenSeq(s) \in Seq(A)
<1>1. <<x>> \in Seq(Seq(A))
  OBVIOUS
<1>. DEFINE h == <<x>>
<1>2. FlattenSeq(h) = x /\ h \in Seq(Seq(A))
  BY <1>1, FlattenConcat
<1>. HIDE DEF h
<1>3. FlattenSeq(h \o s) = FlattenSeq(h) \o FlattenSeq(s) /\ FlattenSeq(s) \in Seq(A)
  BY <1>2, FlattenConcat
<1>. QED
  BY <1>2, <1>3 DEF h
=============================================================================
